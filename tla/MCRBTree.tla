------------------------------ MODULE MCRBTree ------------------------------
(* Model-checking instances of the red-black tree.                         *)
EXTENDS RBTree, TLC

\* A state up to the names of the processes: the shape of the tree with the
\* colours, the keys and the roles of its nodes, and what links the processes
\* outside the tree have left.  No step and no invariant of the structure tells
\* two processes of the same shape apart, nor depends on a time slice or on
\* the virtual runtime of a process outside the tree (insertProcess sets it).
ShapeView ==
  LET shape[n \in Procs \cup {Null}] ==
        IF n = Null THEN << >>
        ELSE <<shape[tree.left[n]], shape[tree.right[n]], tree.color[n],
               virtualRuntime[n], n = minvRuntime, n = op.node, n = op.parent,
               n = op.proc>>
      leftOver(n) == <<tree.left[n] = Null, tree.right[n] = Null,
                       tree.pParent[n] = Null, n = minvRuntime, n = op.proc>>
  IN  <<shape[tree.root], {leftOver(n) : n \in Procs \ InTree(tree)},
        count, treeWeight, period, op.at, op.node = Null, op.parent = Null>>
=============================================================================
