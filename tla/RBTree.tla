------------------------------- MODULE RBTree -------------------------------
(***************************************************************************)
(* The red-black tree of proc.c, pointer by pointer: struct RBTree and the *)
(* fields color, left, right, pParent of struct proc, insertProcess with   *)
(* insertProc, insertionCases and the rotations, and retrieveProcess with  *)
(* retrievingCases.                                                        *)
(*                                                                         *)
(* tree->lock is held from the first step of an operation to the last, so  *)
(* one operation is under way at a time; it is split into one step per     *)
(* case of insertionCases and per iteration of the rebalancing loop of     *)
(* retrievingCases, which makes a loop that does not end visible.          *)
(***************************************************************************)
EXTENDS Integers, Sequences, FiniteSets

CONSTANTS
  Procs,            \* the slots of the process table
  Null,             \* the pointer 0
  Latency, MinGranularity, MaxRuntime   \* as in RunQueue

ASSUME NullAssumption == Null \notin Procs
ASSUME ProcsAssumption == IsFiniteSet(Procs) /\ Procs # {}
ASSUME MaxRuntimeAssumption == MaxRuntime \in Nat

VARIABLES
  tree,             \* root, left, right, pParent, color: the pointer structure
  count, treeWeight, minvRuntime, period,        \* the rest of struct RBTree
  virtualRuntime, maxExecutionTime,              \* fields of struct proc
  op                \* the operation that holds tree->lock, and its locals

vars == <<tree, count, treeWeight, minvRuntime, period,
          virtualRuntime, maxExecutionTime, op>>

RED == "RED"
BLACK == "BLACK"

NPROC == Cardinality(Procs)
Weight == (1024 * 4) \div 5
LatencyProcs == Latency \div MinGranularity

\* at: the step the operation is at ("idle" when the lock is free);
\* proc: the process inserted or retrieved; node, parent: the locals
\* rbProcess, process and parentProc of the two case functions.
Idle == [at |-> "idle", proc |-> Null, node |-> Null, parent |-> Null]

-----------------------------------------------------------------------------
(* The pointer operations, as functions from trees to trees.               *)

SetLeft(t, x, y) == [t EXCEPT !.left[x] = y]
SetRight(t, x, y) == [t EXCEPT !.right[x] = y]
SetParent(t, x, y) == [t EXCEPT !.pParent[x] = y]
SetColor(t, x, c) == [t EXCEPT !.color[x] = c]

\* A null child is black; the code tests "p == 0 || p->color == BLACK".
IsBlack(t, x) == x # Null => t.color[x] = BLACK
IsRed(t, x) == x # Null /\ t.color[x] = RED

\* y takes the place of x under x's parent, or as the root.
ReplaceChild(t, x, y) ==
  LET up == t.pParent[x]
  IN  IF up = Null THEN [t EXCEPT !.root = y]
      ELSE IF x = t.left[up] THEN SetLeft(t, up, y)
      ELSE SetRight(t, up, y)

rotateLeft(t, x) ==
  LET y == t.right[x]
      inner == t.left[y]
      t1 == SetRight(t, x, inner)
      t2 == IF inner # Null THEN SetParent(t1, inner, x) ELSE t1
      t3 == ReplaceChild(SetParent(t2, y, t.pParent[x]), x, y)
  IN  SetParent(SetLeft(t3, y, x), x, y)

rotateRight(t, x) ==
  LET y == t.left[x]
      inner == t.right[y]
      t1 == SetLeft(t, x, inner)
      t2 == IF inner # Null THEN SetParent(t1, inner, x) ELSE t1
      t3 == ReplaceChild(SetParent(t2, y, t.pParent[x]), x, y)
  IN  SetParent(SetRight(t3, y, x), x, y)

getGrandparentProc(t, x) ==
  IF x # Null /\ t.pParent[x] # Null THEN t.pParent[t.pParent[x]] ELSE Null

getUncleProc(t, x) ==
  LET g == getGrandparentProc(t, x)
  IN  IF g = Null THEN Null
      ELSE IF t.pParent[x] = t.left[g] THEN t.right[g] ELSE t.left[g]

\* setMinimumVRuntimeproc: the leftmost node below x.
setMinimumVRuntimeproc(t, x) ==
  LET leftmost[n \in Procs] ==
        IF t.left[n] # Null THEN leftmost[t.left[n]] ELSE n
  IN  IF x = Null THEN Null ELSE leftmost[x]

\* Mutant: equal keys go left.
insertProc_LeftOnEqual(t, p, vr) ==
  LET toRight(n) == vr[n] < vr[p]
      leaf[n \in Procs] ==
        LET child == IF toRight(n) THEN t.right[n] ELSE t.left[n]
        IN  IF child = Null THEN n ELSE leaf[child]
      t1 == SetColor(t, p, RED)
  IN  IF t.root = Null THEN [t1 EXCEPT !.root = p]
      ELSE LET n == leaf[t.root]
           IN  IF toRight(n) THEN SetRight(SetParent(t1, p, n), n, p)
               ELSE SetLeft(SetParent(t1, p, n), n, p)

\* insertProc: walk down from the root, right on <=, and link p as a red leaf.
\* Only insertProcess clears the pParent of a process that becomes the root.
insertProc(t, p, vr) ==
  LET toRight(n) == vr[n] <= vr[p]
      leaf[n \in Procs] ==
        LET child == IF toRight(n) THEN t.right[n] ELSE t.left[n]
        IN  IF child = Null THEN n ELSE leaf[child]
      t1 == SetColor(t, p, RED)
  IN  IF t.root = Null THEN [t1 EXCEPT !.root = p]
      ELSE LET n == leaf[t.root]
           IN  IF toRight(n) THEN SetRight(SetParent(t1, p, n), n, p)
               ELSE SetLeft(SetParent(t1, p, n), n, p)

-----------------------------------------------------------------------------
(* insertProcess                                                           *)

\* The processes that can be reached from the root.
InTree(t) ==
  LET below[n \in Procs \cup {Null}] ==
        IF n = Null THEN {} ELSE {n} \cup below[t.left[n]] \cup below[t.right[n]]
  IN  below[t.root]

\* acquire(&tree->lock), the insertion of the leaf and the two sums.
insertProcess(p, v) ==
  /\ op = Idle
  /\ count # NPROC
  /\ LET vr == [virtualRuntime EXCEPT ![p] = v]
         t1 == insertProc(tree, p, vr)
     IN  /\ tree' = IF count = 0 THEN SetParent(t1, t1.root, Null) ELSE t1
         /\ virtualRuntime' = vr
  /\ count' = count + 1
  /\ treeWeight' = treeWeight + Weight
  /\ op' = [at |-> "case1", proc |-> p, node |-> p, parent |-> Null]
  /\ UNCHANGED <<minvRuntime, period, maxExecutionTime>>

\* The fields insertionCases leaves alone.
restOfInsert == <<count, treeWeight, minvRuntime, period, virtualRuntime,
                  maxExecutionTime>>

NextCase(t, at, node) ==
  /\ tree' = t
  /\ op' = [op EXCEPT !.at = at, !.node = node]
  /\ UNCHANGED restOfInsert

\* Case 1: the root is painted black.
insertionCase1 ==
  /\ op.at = "case1"
  /\ LET n == op.node
     IN  IF tree.pParent[n] = Null
         THEN NextCase(SetColor(tree, n, BLACK), "min", n)
         ELSE NextCase(tree, "case2", n)

\* Mutant: starts over with the same node.
insertionCase2_Restarts ==
  /\ op.at = "case2"
  /\ LET n == op.node
         red == tree.color[tree.pParent[n]] = RED
     IN  NextCase(tree, IF red THEN "case1" ELSE "min", n)

\* Case 2: under a black parent nothing is left to do.
insertionCase2 ==
  /\ op.at = "case2"
  /\ LET n == op.node
         red == tree.color[tree.pParent[n]] = RED
     IN  NextCase(tree, IF red THEN "case3" ELSE "min", n)

\* Mutant: does not go on with the grandparent.
insertionCase3_StopsEarly ==
  /\ op.at = "case3"
  /\ LET n == op.node
         uncle == getUncleProc(tree, n)
         g == getGrandparentProc(tree, n)
     IN  IF IsRed(tree, uncle)
         THEN NextCase([tree EXCEPT !.color[tree.pParent[n]] = BLACK,
                                    !.color[uncle] = BLACK,
                                    !.color[g] = RED], "min", n)
         ELSE NextCase(tree, "case4", n)

\* Case 3: parent and uncle red, repaint and go on with the grandparent.
insertionCase3 ==
  /\ op.at = "case3"
  /\ LET n == op.node
         uncle == getUncleProc(tree, n)
         g == getGrandparentProc(tree, n)
     IN  IF IsRed(tree, uncle)
         THEN NextCase([tree EXCEPT !.color[tree.pParent[n]] = BLACK,
                                    !.color[uncle] = BLACK,
                                    !.color[g] = RED], "case1", g)
         ELSE NextCase(tree, "case4", n)

\* Case 4: an inner grandchild is rotated outwards.
insertionCase4 ==
  /\ op.at = "case4"
  /\ LET n == op.node
         up == tree.pParent[n]
         g == getGrandparentProc(tree, n)
     IN  IF n = tree.right[up] /\ up = tree.left[g]
         THEN NextCase(rotateLeft(tree, up), "case5", up)
         ELSE IF n = tree.left[up] /\ up = tree.right[g]
         THEN NextCase(rotateRight(tree, up), "case5", up)
         ELSE NextCase(tree, "case5", n)

\* Case 5: an outer grandchild; the grandparent is rotated down.
insertionCase5 ==
  /\ op.at = "case5"
  /\ LET n == op.node
         up == tree.pParent[n]
         g == getGrandparentProc(tree, n)
         t == SetColor(SetColor(tree, g, RED), up, BLACK)
     IN  IF g = Null THEN NextCase(tree, "min", n)
         ELSE IF n = tree.left[up] /\ up = tree.left[g]
         THEN NextCase(rotateRight(t, g), "min", n)
         ELSE IF n = tree.right[up] /\ up = tree.right[g]
         THEN NextCase(rotateLeft(t, g), "min", n)
         ELSE NextCase(t, "min", n)

\* Mutant: looks the minimum up only when there was none.
insertDone_KeepsMinimum ==
  /\ op.at = "min"
  /\ minvRuntime' = IF minvRuntime = Null THEN setMinimumVRuntimeproc(tree, tree.root)
                    ELSE minvRuntime
  /\ op' = Idle
  /\ UNCHANGED <<tree, count, treeWeight, period, virtualRuntime, maxExecutionTime>>

\* The cached minimum is looked up again only if it has gained a left child.
insertDone ==
  /\ op.at = "min"
  /\ minvRuntime' = IF minvRuntime = Null \/ tree.left[minvRuntime] # Null
                    THEN setMinimumVRuntimeproc(tree, tree.root)
                    ELSE minvRuntime
  /\ op' = Idle
  /\ UNCHANGED <<tree, count, treeWeight, period, virtualRuntime, maxExecutionTime>>

-----------------------------------------------------------------------------
(* retrieveProcess                                                         *)

\* Case 1 of retrievingCases: process p, which has no left child, makes way for
\* its right child.  The result is the new tree and the step that follows.
retrievingCase1(t, p) ==
  LET up == t.pParent[p]
      child == t.right[p]
      hung == IF child = Null THEN t ELSE SetParent(t, child, up)
  IN  IF p = t.root
      THEN [tree |-> [(IF child = Null THEN t
                       ELSE SetColor(SetParent(t, child, Null), child, BLACK))
                      EXCEPT !.root = child],
            at |-> "finish"]
      ELSE IF child # Null /\ t.color[p] # t.color[child]
      THEN [tree |-> SetLeft(SetColor(hung, child, BLACK), up, child), at |-> "finish"]
      ELSE IF t.color[p] = RED
      THEN [tree |-> SetLeft(t, up, child), at |-> "finish"]
      ELSE [tree |-> SetLeft(hung, up, child), at |-> "rebalance"]

\* acquire(&tree->lock), the new period, and the cached minimum is unlinked.
\* The test of foundProcess->state is part of module Kernel.
retrieveProcess ==
  LET p == minvRuntime
      unlinked == retrievingCase1(tree, p)
  IN  /\ op = Idle
      /\ count # 0
      /\ period' = IF count > LatencyProcs THEN count * MinGranularity ELSE period
      /\ tree' = unlinked.tree
      /\ op' = [at |-> unlinked.at, proc |-> p, node |-> tree.right[p],
                parent |-> tree.pParent[p]]
      /\ UNCHANGED <<count, treeWeight, minvRuntime, virtualRuntime, maxExecutionTime>>

\* The fields that case 2 of retrievingCases leaves alone.
restOfRetrieve == <<count, treeWeight, minvRuntime, period, virtualRuntime,
                    maxExecutionTime>>

\* One iteration of the loop in case 2 of retrievingCases.  Its body is for a
\* left child only; for a right child the loop would spin.
rebalance ==
  LET n == op.node
      up == op.parent
      s0 == tree.right[up]
      t1 == IF IsRed(tree, s0)
            THEN rotateLeft(SetColor(SetColor(tree, s0, BLACK), up, RED), up)
            ELSE tree
      s1 == t1.right[up]
      t2 == IF IsBlack(t1, t1.right[s1])
            THEN LET c == t1.left[s1]
                     t == IF c # Null THEN SetColor(t1, c, BLACK) ELSE t1
                 IN  rotateRight(SetColor(t, s1, RED), s1)
            ELSE t1
      s2 == t2.right[up]
      t3 == SetColor(SetColor(SetColor(t2, s2, t2.color[up]), up, BLACK),
                     t2.right[s2], BLACK)
      t4 == rotateLeft(t3, up)
  IN  /\ op.at = "rebalance"
      /\ n # tree.root /\ IsBlack(tree, n)
      /\ n = tree.left[up]
      /\ IF IsBlack(t1, t1.left[s1]) /\ IsBlack(t1, t1.right[s1])
         THEN /\ tree' = SetColor(t1, s1, RED)
              /\ op' = [op EXCEPT !.node = up, !.parent = t1.pParent[up]]
         ELSE /\ tree' = t4
              /\ op' = [op EXCEPT !.node = t4.root]
      /\ UNCHANGED restOfRetrieve

\* The loop ends at the root or at a red node, which is painted black.
rebalanced ==
  LET n == op.node
  IN  /\ op.at = "rebalance"
      /\ n = tree.root \/ IsRed(tree, n)
      /\ tree' = IF n # Null THEN SetColor(tree, n, BLACK) ELSE tree
      /\ op' = [op EXCEPT !.at = "finish"]
      /\ UNCHANGED restOfRetrieve

\* Mutants: the links are left in place; the process is counted out twice.
retrieve_Finish(t, k) ==
  /\ op.at = "finish"
  /\ tree' = t
  /\ count' = count - k
  /\ minvRuntime' = setMinimumVRuntimeproc(t, t.root)
  /\ maxExecutionTime' =
       [maxExecutionTime EXCEPT ![op.proc] = (period * Weight) \div treeWeight]
  /\ treeWeight' = treeWeight - Weight
  /\ op' = Idle
  /\ UNCHANGED <<period, virtualRuntime>>
retrieveDone_KeepsLinks == retrieve_Finish(tree, 1)
retrieveDone_CountsTwice == retrieve_Finish(tree, 2)

\* The links of the process are cleared, the new minimum looked up, the time
\* slice computed from the weight that still includes the process.
retrieveDone ==
  LET p == op.proc
      t == SetRight(SetLeft(SetParent(tree, p, Null), p, Null), p, Null)
  IN  /\ op.at = "finish"
      /\ tree' = t
      /\ count' = count - 1
      /\ minvRuntime' = setMinimumVRuntimeproc(t, t.root)
      /\ maxExecutionTime' =
           [maxExecutionTime EXCEPT ![p] = (period * Weight) \div treeWeight]
      /\ treeWeight' = treeWeight - Weight
      /\ op' = Idle
      /\ UNCHANGED <<period, virtualRuntime>>

-----------------------------------------------------------------------------
\* rbinit, and the fields of the static array proc[].
Init ==
  /\ tree = [root |-> Null,
             left |-> [p \in Procs |-> Null],
             right |-> [p \in Procs |-> Null],
             pParent |-> [p \in Procs |-> Null],
             color |-> [p \in Procs |-> RED]]
  /\ count = 0
  /\ treeWeight = 0
  /\ minvRuntime = Null
  /\ period = Latency
  /\ virtualRuntime = [p \in Procs |-> 0]
  /\ maxExecutionTime = [p \in Procs |-> 0]
  /\ op = Idle

\* The steps of an operation that has begun.
Continue ==
  \/ insertionCase1 \/ insertionCase2 \/ insertionCase3
  \/ insertionCase4 \/ insertionCase5 \/ insertDone
  \/ rebalance \/ rebalanced \/ retrieveDone

Next ==
  \/ \E p \in Procs \ InTree(tree), v \in 0..MaxRuntime : insertProcess(p, v)
  \/ retrieveProcess
  \/ Continue

Spec == Init /\ [][Next]_vars

-----------------------------------------------------------------------------
(* Properties.                                                             *)

RBTypeOK ==
  /\ tree.root \in Procs \cup {Null}
  /\ tree.left \in [Procs -> Procs \cup {Null}]
  /\ tree.right \in [Procs -> Procs \cup {Null}]
  /\ tree.pParent \in [Procs -> Procs \cup {Null}]
  /\ tree.color \in [Procs -> {RED, BLACK}]
  /\ count \in 0..NPROC
  /\ minvRuntime \in Procs \cup {Null}
  /\ op.at \in {"idle", "case1", "case2", "case3", "case4", "case5", "min",
                "rebalance", "finish"}

\* The in-order sequence of the nodes below the root.
InOrder(t) ==
  LET seq[n \in Procs \cup {Null}] ==
        IF n = Null THEN << >> ELSE seq[t.left[n]] \o <<n>> \o seq[t.right[n]]
  IN  seq[t.root]

\* Between operations the root is black, no red node has a red child, and all
\* paths from a node to a leaf cross the same number of black nodes: after
\* every insertion and every removal of the minimum the tree is balanced.
RedBlack ==
  LET height[n \in Procs \cup {Null}] ==      \* -1 where black heights differ
        IF n = Null THEN 0
        ELSE LET l == height[tree.left[n]]
                 r == height[tree.right[n]]
             IN  IF l # r \/ l = -1 THEN -1
                 ELSE IF tree.color[n] = BLACK THEN l + 1 ELSE l
  IN  op = Idle =>
        /\ IsBlack(tree, tree.root)
        /\ \A n \in InTree(tree) :
             tree.color[n] = RED => /\ IsBlack(tree, tree.left[n])
                                    /\ IsBlack(tree, tree.right[n])
        /\ height[tree.root] # -1

\* The links make up one search tree at every step of an operation: pParent
\* mirrors left and right, the keys are in order and, between two operations,
\* count is exact and a process outside the tree has no links left over that its
\* next insertion would bring back.
SearchTree ==
  LET s == InOrder(tree)
  IN
  /\ \A i \in 1..(Len(s) - 1) : virtualRuntime[s[i]] <= virtualRuntime[s[i + 1]]
  /\ op = Idle => count = Len(s)
  /\ tree.root # Null => tree.pParent[tree.root] = Null
  /\ \A n \in InTree(tree) :
       /\ tree.left[n] # Null => tree.pParent[tree.left[n]] = n
       /\ tree.right[n] # Null => tree.pParent[tree.right[n]] = n
  /\ op = Idle =>
       \A n \in Procs \ InTree(tree) :
         tree.left[n] = Null /\ tree.right[n] = Null /\ tree.pParent[n] = Null

\* The cached pointer that retrieveProcess and yield rely on is the leftmost
\* node, although insertProcess refreshes it only when it has a left child.
MinCached ==
  op = Idle => minvRuntime = IF count = 0 THEN Null ELSE InOrder(tree)[1]

\* How much an operation has left to do: the depth of the node it works on,
\* then the case it is at, or the colour of that node.
Rank ==
  LET depth[n \in Procs] ==
        IF tree.pParent[n] = Null THEN 0 ELSE 1 + depth[tree.pParent[n]]
      nodeDepth == IF op.node # Null THEN depth[op.node]
                   ELSE IF op.parent # Null THEN 1 + depth[op.parent] ELSE 0
      stage == CASE op.at = "case1" -> 5 [] op.at = "case2" -> 4
                 [] op.at = "case3" -> 3 [] op.at = "case4" -> 2
                 [] op.at = "case5" -> 1
                 [] OTHER -> IF IsBlack(tree, op.node) THEN 1 ELSE 0
  IN  IF op.at \in {"min", "finish"} THEN 0 ELSE 10 * (1 + nodeDepth) + stage

\* Rebalancing ends and tree->lock is released: every step of an operation that
\* does not finish it brings it nearer to its end.  (A step that is missing, as
\* for a right child in the loop of retrievingCases, would show as a deadlock.)
RebalancingEnds == [][op # Idle /\ op' # Idle => Rank' < Rank]_vars

\* The tree implements the ready set.  A retrieval takes effect when the
\* process is unlinked; the sums and the slice follow at its last step.
Unlinking == op.at \in {"rebalance", "finish"}

RQ == INSTANCE RunQueue WITH
        queue <- InOrder(tree),
        treeWeight <- IF Unlinking THEN treeWeight - Weight ELSE treeWeight,
        maxExecutionTime <-
          IF Unlinking
          THEN [maxExecutionTime EXCEPT ![op.proc] = (period * Weight) \div treeWeight]
          ELSE maxExecutionTime

ImplementsRunQueue == RQ!RQSpec
=============================================================================
