---------------------------- MODULE RBTreeProofs ----------------------------
(***************************************************************************)
(* Proofs about the red-black tree, for every number of processes.  What   *)
(* the recursive functions of RBTree compute is tied to a layout of the    *)
(* tree: the in-order sequence s, the seat pos[n] of a node in it, the     *)
(* seats lo[n] to hi[n] of its subtree and its black height bh[n].  Each   *)
(* of them is constrained from node to node only.                          *)
(***************************************************************************)
EXTENDS RBTree, TLAPS, WellFoundedInduction, SequenceTheorems, FiniteSetTheorems

-----------------------------------------------------------------------------
(* The layout of a tree.                                                   *)

Ptr == Procs \cup {Null}
Trees == [root : Ptr, left : [Procs -> Ptr], right : [Procs -> Ptr],
          pParent : [Procs -> Ptr], color : [Procs -> {RED, BLACK}]]

\* n has the seat pos[n] in the sequence s, or 0 if it is not in the tree.
Seats(s, pos) ==
  /\ s \in Seq(Procs) /\ pos \in [Procs -> 0..Len(s)]
  /\ \A i \in 1..Len(s) : pos[s[i]] = i
  /\ \A n \in Procs : pos[n] > 0 => s[pos[n]] = n

\* The child c of n has the seats l to h below it, or there are none.
ChildOK(t, pos, lo, hi, c, n, l, h) ==
  IF c = Null THEN l = h + 1
  ELSE pos[c] > 0 /\ t.pParent[c] = n /\ lo[c] = l /\ hi[c] = h

NodeOK(t, len, pos, lo, hi, n) ==
  /\ 1 <= lo[n] /\ lo[n] <= pos[n] /\ pos[n] <= hi[n] /\ hi[n] <= len
  /\ ChildOK(t, pos, lo, hi, t.left[n], n, lo[n], pos[n] - 1)
  /\ ChildOK(t, pos, lo, hi, t.right[n], n, pos[n] + 1, hi[n])
  /\ IF t.pParent[n] = Null THEN n = t.root
     ELSE /\ pos[t.pParent[n]] > 0
          /\ n = t.left[t.pParent[n]] \/ n = t.right[t.pParent[n]]

RootOK(t, len, pos, lo, hi) ==
  IF t.root = Null THEN len = 0
  ELSE /\ pos[t.root] > 0 /\ t.pParent[t.root] = Null
       /\ lo[t.root] = 1 /\ hi[t.root] = len

Shape(t, len, pos, lo, hi) ==
  /\ t \in Trees /\ len \in Nat /\ pos \in [Procs -> 0..len]
  /\ lo \in [Procs -> Int] /\ hi \in [Procs -> Int]
  /\ RootOK(t, len, pos, lo, hi)
  /\ \A n \in Procs : pos[n] > 0 => NodeOK(t, len, pos, lo, hi, n)

\* A process outside the tree has no links, but for one, p, that is being unlinked.
Outside(t, pos, p) ==
  \A n \in Procs : pos[n] = 0 =>
    /\ t.left[n] = Null
    /\ t.right[n] # Null => n = p /\ pos[t.right[n]] > 0
    /\ t.pParent[n] # Null => n = p /\ pos[t.pParent[n]] > 0

\* bh is the black height, equal on both sides of a node, but for the node d that
\* lacks one black node on its left.
BlackBit(t, n) == IF t.color[n] = BLACK THEN 1 ELSE 0
Lacks(n, d) == IF n = d THEN 1 ELSE 0
HeightOK(t, bh, d, n) ==
  /\ bh[n] = bh[t.right[n]] + BlackBit(t, n)
  /\ bh[t.right[n]] = bh[t.left[n]] + Lacks(n, d)
Heights(t, pos, bh, d) ==
  /\ bh \in [Ptr -> Nat] /\ bh[Null] = 0
  /\ \A n \in Procs : pos[n] > 0 => HeightOK(t, bh, d, n)

\* No red node other than a has a red child other than b.
RedOK(t, a, b, n) ==
  t.color[n] = RED /\ n # a =>
    /\ IsRed(t, t.left[n]) => t.left[n] = b
    /\ IsRed(t, t.right[n]) => t.right[n] = b
RedRule(t, pos, a, b) == \A n \in Procs : pos[n] > 0 => RedOK(t, a, b, n)

\* The tree t has the nodes of s in their order; p is being unlinked.
Layout(t, s, pos, lo, hi, p) ==
  Seats(s, pos) /\ Shape(t, Len(s), pos, lo, hi) /\ Outside(t, pos, p)

Sorted(s, vr) ==
  \A i, j \in 1..Len(s) : i <= j => vr[s[i]] <= vr[s[j]]

-----------------------------------------------------------------------------
(* The inductive invariant.                                                *)

Cases == {"case1", "case2", "case3", "case4", "case5"}

\* The node that lacks a black one, the red node that may have a red child, the red
\* node that may have a red parent, and the process that is being unlinked.
Deficient == IF op.at = "rebalance" /\ op.node # tree.root THEN op.parent ELSE Null
Above == IF op.at = "rebalance" THEN op.node ELSE Null
Below == IF op.at \in Cases THEN op.node ELSE Null
Gone == IF Unlinking THEN op.proc ELSE Null

OpTypes ==
  /\ op \in [at : Cases \cup {"idle", "min", "rebalance", "finish"},
             proc : Ptr, node : Ptr, parent : Ptr]
  /\ op.at = "idle" => op = Idle
  /\ virtualRuntime \in [Procs -> Nat]
  /\ minvRuntime \in Ptr
  /\ count \in 0..NPROC

\* An outer grandchild.
Outer(t, n) ==
  LET up == t.pParent[n]
      g == t.pParent[up]
  IN  \/ n = t.left[up] /\ up = t.left[g]
      \/ n = t.right[up] /\ up = t.right[g]

\* What the cases of insertionCases have established about their node.
InsertOK(t, pos, at, node) ==
  /\ at \in Cases => node # Null /\ pos[node] > 0 /\ t.color[node] = RED
  /\ at \in Cases \ {"case1"} => t.pParent[node] # Null
  /\ at \in {"case3", "case4", "case5"} => t.color[t.pParent[node]] = RED
  /\ at \in {"case4", "case5"} => IsBlack(t, getUncleProc(t, node))
  /\ at = "case5" => Outer(t, node)

\* The loop of retrievingCases stays on the leftmost path, so that its node is
\* always a left child.
RebalanceOK(pos, lo) ==
  op.at = "rebalance" =>
    \/ op.node = tree.root /\ op.node # Null
    \/ /\ op.parent # Null /\ pos[op.parent] > 0 /\ lo[op.parent] = 1
       /\ tree.left[op.parent] = op.node

RetrieveOK(pos) == Unlinking => op.proc # Null /\ pos[op.proc] = 0

RootBlack(t, at, node) == IsBlack(t, t.root) \/ (at = "case1" /\ node = t.root)

\* minvRuntime is right, or insertDone notices that it is not.
MinSeat(t, pos, m) == m # Null => pos[m] = 1 \/ (pos[m] = 2 /\ t.left[m] # Null)
MinOK(s, pos) ==
  /\ op.at = "idle" => minvRuntime = IF Len(s) = 0 THEN Null ELSE s[1]
  /\ op.at \in Cases \cup {"min"} => MinSeat(tree, pos, minvRuntime)

CountOK(s) == count = IF Unlinking THEN Len(s) + 1 ELSE Len(s)

TreeInv(s, pos, lo, hi, bh) ==
  /\ OpTypes /\ Layout(tree, s, pos, lo, hi, Gone) /\ Sorted(s, virtualRuntime)
  /\ Heights(tree, pos, bh, Deficient) /\ RedRule(tree, pos, Above, Below)
  /\ RootBlack(tree, op.at, op.node) /\ InsertOK(tree, pos, op.at, op.node)
  /\ RebalanceOK(pos, lo) /\ RetrieveOK(pos)
  /\ MinOK(s, pos) /\ CountOK(s)

RBInv == \E s, pos, lo, hi, bh : TreeInv(s, pos, lo, hi, bh)

-----------------------------------------------------------------------------
(* Induction.                                                              *)

\* Every non-empty set of naturals has a least element.
LEMMA LeastNat ==
  ASSUME NEW T \in SUBSET Nat, T # {}
  PROVE  \E x \in T : \A y \in T : x <= y
<1> DEFINE R == OpToRel(<, Nat)
<1>1. \A x, y \in Nat : <<y, x>> \in R <=> y < x
  BY DEF OpToRel
<1>2. IsWellFoundedOn(R, Nat)
  BY ZenonT(30), NatLessThanWellFounded
<1> HIDE DEF R
<1>3. PICK x \in T : \A y \in T : ~ (<<y, x>> \in R)
  BY <1>2, WFMin
<1>4. \A y \in T : ~ (y < x)
  BY <1>1, <1>3
<1>5. QED
  BY SMTT(30), <1>4

\* What a node inherits from its children holds in the whole tree.
LEMMA SubtreeInduction ==
  ASSUME NEW t, NEW len, NEW pos, NEW lo, NEW hi, Shape(t, len, pos, lo, hi), NEW S,
         \A n \in Procs : /\ pos[n] > 0
                          /\ t.left[n] # Null => t.left[n] \in S
                          /\ t.right[n] # Null => t.right[n] \in S
                          => n \in S
  PROVE  \A n \in Procs : pos[n] > 0 => n \in S
<1> SUFFICES ASSUME NEW m \in Procs, pos[m] > 0, m \notin S
             PROVE  FALSE
  OBVIOUS
<1> DEFINE Bad == {n \in Procs : pos[n] > 0 /\ n \notin S}
           Sizes == {hi[n] - lo[n] : n \in Bad}
<1>1. \A n \in Procs : pos[n] > 0 => hi[n] - lo[n] \in Nat
  BY DEF Shape, NodeOK
<1>2. Sizes \in SUBSET Nat /\ Sizes # {}
  BY <1>1
<1>3. PICK d \in Sizes : \A e \in Sizes : d <= e
  <2> HIDE DEF Sizes
  <2>1. QED
    BY <1>2, LeastNat
<1>4. PICK n \in Bad : d = hi[n] - lo[n]
  BY <1>3
<1>5. \A k \in Bad : hi[n] - lo[n] <= hi[k] - lo[k]
  BY <1>3, <1>4
<1>6. NodeOK(t, len, pos, lo, hi, n) /\ n \in Procs /\ pos[n] > 0 /\ pos[n] \in Nat
  BY <1>4 DEF Shape
<1>7. t.left[n] \in Ptr /\ t.right[n] \in Ptr /\ lo[n] \in Int /\ hi[n] \in Int
  BY <1>6 DEF Shape, Trees
<1>8. ASSUME NEW c \in Ptr, c = t.left[n] \/ c = t.right[n], c # Null
      PROVE  c \in S
  <2>1. c \in Procs /\ pos[c] > 0 /\ hi[c] - lo[c] < hi[n] - lo[n]
    BY <1>6, <1>7, <1>8 DEF NodeOK, ChildOK, Ptr, Shape
  <2>2. QED
    BY <2>1, <1>5, <1>7 DEF Shape
<1>9. QED
  BY <1>4, <1>6, <1>7, <1>8

\* Following pointers nx along which r decreases comes to an end.
LEMMA WalkExists ==
  ASSUME NEW nx \in [Procs -> Ptr], NEW B \in Nat, NEW r \in [Procs -> 0..B],
         \A n \in Procs : nx[n] # Null => r[nx[n]] < r[n]
  PROVE  \E f \in [Procs -> Procs] :
           \A n \in Procs : f[n] = IF nx[n] = Null THEN n ELSE f[nx[n]]
<1> DEFINE UpTo(d, f) ==
             \A n \in Procs : r[n] < d => f[n] = IF nx[n] = Null THEN n ELSE f[nx[n]]
           Bad == {d \in Nat : \A f \in [Procs -> Procs] : ~UpTo(d, f)}
<1>1. ASSUME Bad # {}
      PROVE  FALSE
  <2>1. PICK d \in Bad : \A e \in Bad : d <= e
    <3>1. Bad \in SUBSET Nat
      OBVIOUS
    <3> HIDE DEF Bad
    <3>2. QED
      BY <1>1, <3>1, LeastNat
  <2>2. d # 0
    <3>1. [n \in Procs |-> n] \in [Procs -> Procs]
      OBVIOUS
    <3>2. \A n \in Procs : ~(r[n] < 0)
      OBVIOUS
    <3>3. QED
      BY <3>1, <3>2
  <2>3. d - 1 \in Nat /\ d - 1 \notin Bad
    <3>1. d \in Nat /\ d - 1 \in Nat /\ ~(d <= d - 1)
      BY <2>2
    <3> HIDE DEF Bad
    <3>2. QED
      BY <2>1, <3>1
  <2>4. PICK f \in [Procs -> Procs] : UpTo(d - 1, f)
    BY <2>3
  <2> DEFINE g == [n \in Procs |-> IF r[n] < d - 1 THEN f[n]
                                   ELSE IF nx[n] = Null THEN n ELSE f[nx[n]]]
  <2>5. g \in [Procs -> Procs]
    BY NullAssumption DEF Ptr
  <2>6. UpTo(d, g)
    <3> SUFFICES ASSUME NEW n \in Procs, r[n] < d
                 PROVE  g[n] = IF nx[n] = Null THEN n ELSE g[nx[n]]
      OBVIOUS
    <3>1. CASE nx[n] = Null
      BY <2>4, <3>1
    <3>2. CASE nx[n] # Null
      <4>1. nx[n] \in Procs /\ r[nx[n]] < r[n] /\ r[nx[n]] < d - 1
        BY <3>2, <2>3 DEF Ptr
      <4>2. g[nx[n]] = f[nx[n]]
        BY <4>1
      <4>3. g[n] = f[nx[n]]
        BY <2>4, <3>2
      <4>4. QED
        BY <3>2, <4>2, <4>3
    <3>3. QED
      BY <3>1, <3>2
  <2>7. QED
    BY <2>1, <2>5, <2>6
<1>2. PICK f \in [Procs -> Procs] : UpTo(B + 1, f)
  <2>1. B + 1 \in Nat /\ B + 1 \notin Bad
    <3> HIDE DEF Bad
    <3>1. QED
      BY <1>1
  <2>2. QED
    BY <2>1
<1>3. \A n \in Procs : r[n] < B + 1
  OBVIOUS
<1>4. QED
  BY <1>2, <1>3

\* The number of pointers that are followed.
LEMMA DepthExists ==
  ASSUME NEW nx \in [Procs -> Ptr], NEW B \in Nat, NEW r \in [Procs -> 0..B],
         \A n \in Procs : nx[n] # Null => r[nx[n]] < r[n]
  PROVE  \E f \in [Procs -> Nat] :
           \A n \in Procs : f[n] = IF nx[n] = Null THEN 0 ELSE 1 + f[nx[n]]
<1> DEFINE UpTo(d, f) ==
             \A n \in Procs : r[n] < d => f[n] = IF nx[n] = Null THEN 0 ELSE 1 + f[nx[n]]
           Bad == {d \in Nat : \A f \in [Procs -> Nat] : ~UpTo(d, f)}
<1>1. ASSUME Bad # {}
      PROVE  FALSE
  <2>1. PICK d \in Bad : \A e \in Bad : d <= e
    <3>1. Bad \in SUBSET Nat
      OBVIOUS
    <3> HIDE DEF Bad
    <3>2. QED
      BY <1>1, <3>1, LeastNat
  <2>2. d # 0
    <3>1. [n \in Procs |-> 0] \in [Procs -> Nat]
      OBVIOUS
    <3>2. \A n \in Procs : ~(r[n] < 0)
      OBVIOUS
    <3>3. QED
      BY <3>1, <3>2
  <2>3. d - 1 \in Nat /\ d - 1 \notin Bad
    <3>1. d \in Nat /\ d - 1 \in Nat /\ ~(d <= d - 1)
      BY <2>2
    <3> HIDE DEF Bad
    <3>2. QED
      BY <2>1, <3>1
  <2>4. PICK f \in [Procs -> Nat] : UpTo(d - 1, f)
    BY <2>3
  <2> DEFINE g == [n \in Procs |-> IF r[n] < d - 1 THEN f[n]
                                   ELSE IF nx[n] = Null THEN 0 ELSE 1 + f[nx[n]]]
  <2>5. g \in [Procs -> Nat]
    BY NullAssumption DEF Ptr
  <2>6. UpTo(d, g)
    <3> SUFFICES ASSUME NEW n \in Procs, r[n] < d
                 PROVE  g[n] = IF nx[n] = Null THEN 0 ELSE 1 + g[nx[n]]
      OBVIOUS
    <3>1. CASE nx[n] = Null
      BY <2>4, <3>1
    <3>2. CASE nx[n] # Null
      <4>1. nx[n] \in Procs /\ r[nx[n]] < r[n] /\ r[nx[n]] < d - 1
        BY <3>2, <2>3 DEF Ptr
      <4>2. g[nx[n]] = f[nx[n]]
        BY <4>1
      <4>3. g[n] = 1 + f[nx[n]]
        BY <2>4, <3>2
      <4>4. QED
        BY <3>2, <4>2, <4>3
    <3>3. QED
      BY <3>1, <3>2
  <2>7. QED
    BY <2>1, <2>5, <2>6
<1>2. PICK f \in [Procs -> Nat] : UpTo(B + 1, f)
  <2>1. B + 1 \in Nat /\ B + 1 \notin Bad
    <3> HIDE DEF Bad
    <3>1. QED
      BY <1>1
  <2>2. QED
    BY <2>1
<1>3. \A n \in Procs : r[n] < B + 1
  OBVIOUS
<1>4. QED
  BY <1>2, <1>3

-----------------------------------------------------------------------------
(* What the recursive functions compute.                                   *)

\* Two nodes have different seats.
LEMMA SeatsDiffer ==
  ASSUME NEW s, NEW pos, Seats(s, pos), NEW m \in Procs, NEW n \in Procs,
         pos[m] = pos[n], pos[n] > 0
  PROVE  m = n
BY DEF Seats

\* The nodes with the seats l to h.
Span(pos, l, h) == {m \in Procs : l <= pos[m] /\ pos[m] <= h}

\* The nodes that can be reached from the root are those with a seat.
LEMMA InTreeLayout ==
  ASSUME NEW t, NEW s, NEW pos, NEW lo, NEW hi, NEW p,
         Layout(t, s, pos, lo, hi, p)
  PROVE  InTree(t) = {n \in Procs : pos[n] > 0}
<1> USE DEF Layout
<1> DEFINE Eqn(f) == f = [n \in Ptr |-> IF n = Null THEN {}
                                        ELSE {n} \cup f[t.left[n]] \cup f[t.right[n]]]
           below[n \in Ptr] ==
             IF n = Null THEN {} ELSE {n} \cup below[t.left[n]] \cup below[t.right[n]]
           in[n \in Ptr] == IF n = Null THEN {} ELSE Span(pos, lo[n], hi[n])
           f == [n \in Ptr |-> IF n # Null /\ pos[n] = 0 THEN {n} \cup in[t.right[n]] ELSE in[n]]
<1>0. /\ \A n \in Procs : t.left[n] \in Ptr /\ t.right[n] \in Ptr
      /\ pos \in [Procs -> Nat] /\ lo \in [Procs -> Int] /\ hi \in [Procs -> Int]
      /\ Null \notin Procs
  BY NullAssumption DEF Shape, Trees
<1>1. ASSUME NEW n \in Procs, pos[n] > 0
      PROVE  Span(pos, lo[n], hi[n]) = {n} \cup in[t.left[n]] \cup in[t.right[n]]
  <2>1. NodeOK(t, Len(s), pos, lo, hi, n)
    BY <1>1 DEF Shape
  <2>2. in[t.left[n]] = Span(pos, lo[n], pos[n] - 1)
    BY <1>0, <2>1 DEF NodeOK, ChildOK, Span
  <2>3. in[t.right[n]] = Span(pos, pos[n] + 1, hi[n])
    BY <1>0, <2>1 DEF NodeOK, ChildOK, Span
  <2>4. \A m \in Procs : pos[m] = pos[n] => m = n
    BY <1>1, SeatsDiffer
  <2>5. lo[n] <= pos[n] /\ pos[n] <= hi[n] /\ pos[n] \in Nat
    BY <1>0, <2>1 DEF NodeOK
  <2>6. \A m \in Procs : /\ lo[n] <= pos[m] /\ pos[m] <= hi[n]
                         <=> \/ m = n
                             \/ lo[n] <= pos[m] /\ pos[m] <= pos[n] - 1
                             \/ pos[n] + 1 <= pos[m] /\ pos[m] <= hi[n]
    BY SMTT(30), <1>0, <2>4, <2>5
  <2>7. Span(pos, lo[n], hi[n]) = {n} \cup Span(pos, lo[n], pos[n] - 1)
                                     \cup Span(pos, pos[n] + 1, hi[n])
    BY <2>6 DEF Span
  <2>8. QED
    BY <2>2, <2>3, <2>7
<1>2. ASSUME NEW n \in Procs, pos[n] > 0
      PROVE  f[n] = in[n] /\ f[t.left[n]] = in[t.left[n]] /\ f[t.right[n]] = in[t.right[n]]
  <2>1. NodeOK(t, Len(s), pos, lo, hi, n)
    BY <1>2 DEF Shape
  <2>2. \A c \in Ptr : c = t.left[n] \/ c = t.right[n] => c = Null \/ pos[c] > 0
    BY <2>1 DEF NodeOK, ChildOK
  <2>3. QED
    BY <1>0, <1>2, <2>2 DEF Ptr
<1>3. ASSUME NEW n \in Procs, pos[n] = 0
      PROVE  f[n] = {n} \cup f[t.left[n]] \cup f[t.right[n]]
  <2>1. t.left[n] = Null /\ (t.right[n] = Null \/ pos[t.right[n]] > 0)
    BY <1>3 DEF Outside
  <2>2. f[t.left[n]] = {} /\ f[t.right[n]] = in[t.right[n]] /\ n # Null /\ n \in Ptr
    BY <1>0, <2>1 DEF Ptr
  <2>3. QED
    BY ZenonT(30), <1>3, <2>2
<1>4. f[Null] = {} /\ \A n \in Procs : n # Null /\ (pos[n] = 0 \/ pos[n] > 0)
  BY <1>0 DEF Ptr
<1>5. Eqn(f)
  <2>1. \A n \in Procs : f[n] = {n} \cup f[t.left[n]] \cup f[t.right[n]]
    <3> SUFFICES ASSUME NEW n \in Procs
                 PROVE  f[n] = {n} \cup f[t.left[n]] \cup f[t.right[n]]
      OBVIOUS
    <3>1. CASE pos[n] > 0
      <4>1. in[n] = Span(pos, lo[n], hi[n])
        BY <1>0 DEF Ptr
      <4> HIDE DEF f, in
      <4>2. QED
        BY <1>1, <1>2, <3>1, <4>1
    <3>2. QED
      BY <1>3, <1>4, <3>1
  <2>2. f = [n \in Ptr |-> f[n]]
    BY SMTT(30)
  <2> HIDE DEF f
  <2>3. QED
    BY ZenonT(30), <1>4, <2>1, <2>2 DEF Ptr
<1>6. Eqn(below)
  <2> HIDE DEF f
  <2>1. QED
    BY ZenonT(30), <1>5 DEF below
<1>7. InTree(t) = below[t.root]
  BY DEF InTree, Ptr
<1> HIDE DEF f, below
<1> DEFINE S == {n \in Procs : below[n] = in[n]}
<1>8. \A n \in Procs : below[n] = {n} \cup below[t.left[n]] \cup below[t.right[n]]
  BY <1>4, <1>6 DEF Ptr
<1>9. below[Null] = in[Null]
  BY <1>6 DEF Ptr
<1>10. ASSUME NEW n \in Procs, pos[n] > 0, t.left[n] # Null => t.left[n] \in S,
              t.right[n] # Null => t.right[n] \in S
       PROVE  n \in S
  <2>1. below[t.left[n]] = in[t.left[n]] /\ below[t.right[n]] = in[t.right[n]]
    BY <1>9, <1>10
  <2>2. in[n] = Span(pos, lo[n], hi[n])
    BY <1>0 DEF Ptr
  <2> HIDE DEF in
  <2>3. QED
    BY <1>1, <1>8, <1>10, <2>1, <2>2
<1>11. \A n \in Procs : pos[n] > 0 => n \in S
  <2> HIDE DEF S
  <2>1. QED
    BY <1>10, SubtreeInduction
<1>12. CASE t.root = Null
  BY <1>7, <1>9, <1>12 DEF Shape, RootOK, Ptr
<1>13. CASE t.root # Null
  <2>1. t.root \in Procs /\ pos[t.root] > 0 /\ lo[t.root] = 1 /\ hi[t.root] = Len(s)
    BY <1>13 DEF Shape, RootOK, Trees, Ptr
  <2>2. InTree(t) = Span(pos, 1, Len(s))
    BY <1>0, <1>7, <1>11, <2>1 DEF Ptr
  <2>3. QED
    BY <2>2 DEF Span, Shape
<1>14. QED
  BY <1>12, <1>13

\* A stretch of a sequence, cut at one of its seats.
LEMMA CutSeq ==
  ASSUME NEW s \in Seq(Procs), NEW l \in Int, NEW k \in Int, NEW h \in Int,
         1 <= l, l <= k, k <= h, h <= Len(s)
  PROVE  SubSeq(s, l, h) = SubSeq(s, l, k - 1) \o <<s[k]>> \o SubSeq(s, k + 1, h)
<1>1. SubSeq(s, l, k) = SubSeq(s, l, k - 1) \o <<s[k]>>
  BY SubSeqRecursiveSecond
<1>2. SubSeq(s, l, k) \o SubSeq(s, k + 1, h) = SubSeq(s, l, h)
  BY ConcatAdjacentSubSeq
<1>3. QED
  BY <1>1, <1>2

\* The in-order sequence is s.
LEMMA InOrderLayout ==
  ASSUME NEW t, NEW s, NEW pos, NEW lo, NEW hi, NEW p,
         Layout(t, s, pos, lo, hi, p)
  PROVE  InOrder(t) = s
<1> USE DEF Layout
<1> DEFINE Eqn(f) == f = [n \in Ptr |-> IF n = Null THEN << >>
                                        ELSE f[t.left[n]] \o <<n>> \o f[t.right[n]]]
           seq[n \in Ptr] ==
             IF n = Null THEN << >> ELSE seq[t.left[n]] \o <<n>> \o seq[t.right[n]]
           in[n \in Ptr] == IF n = Null THEN << >> ELSE SubSeq(s, lo[n], hi[n])
           f == [n \in Ptr |-> IF n # Null /\ pos[n] = 0
                               THEN << >> \o <<n>> \o in[t.right[n]] ELSE in[n]]
<1>0. /\ \A n \in Procs : t.left[n] \in Ptr /\ t.right[n] \in Ptr
      /\ pos \in [Procs -> Nat] /\ lo \in [Procs -> Int] /\ hi \in [Procs -> Int]
      /\ Null \notin Procs /\ s \in Seq(Procs) /\ Len(s) \in Nat
  BY NullAssumption DEF Shape, Trees, Seats
<1>1. ASSUME NEW n \in Procs, pos[n] > 0
      PROVE  in[n] = in[t.left[n]] \o <<n>> \o in[t.right[n]]
  <2>1. NodeOK(t, Len(s), pos, lo, hi, n)
    BY <1>1 DEF Shape
  <2>2. in[t.left[n]] = SubSeq(s, lo[n], pos[n] - 1)
    <3>1. CASE t.left[n] = Null
      <4>1. SubSeq(s, lo[n], pos[n] - 1) = << >>
        BY <1>0, <2>1, <3>1 DEF NodeOK, ChildOK
      <4>2. QED
        BY <3>1, <4>1 DEF Ptr
    <3>2. CASE t.left[n] # Null
      BY <1>0, <2>1, <3>2 DEF NodeOK, ChildOK
    <3>3. QED
      BY <3>1, <3>2
  <2>3. in[t.right[n]] = SubSeq(s, pos[n] + 1, hi[n])
    <3>1. CASE t.right[n] = Null
      <4>1. SubSeq(s, pos[n] + 1, hi[n]) = << >>
        BY <1>0, <2>1, <3>1 DEF NodeOK, ChildOK
      <4>2. QED
        BY <3>1, <4>1 DEF Ptr
    <3>2. CASE t.right[n] # Null
      BY <1>0, <2>1, <3>2 DEF NodeOK, ChildOK
    <3>3. QED
      BY <3>1, <3>2
  <2>4. s[pos[n]] = n /\ in[n] = SubSeq(s, lo[n], hi[n])
    BY <1>0, <1>1 DEF Seats, Ptr
  <2>5. SubSeq(s, lo[n], hi[n]) = SubSeq(s, lo[n], pos[n] - 1) \o <<s[pos[n]]>>
                                    \o SubSeq(s, pos[n] + 1, hi[n])
    <3>0. s \in Seq(Procs)
      BY <1>0
    <3>1. /\ lo[n] \in Int /\ pos[n] \in Int /\ hi[n] \in Int
          /\ 1 <= lo[n] /\ lo[n] <= pos[n] /\ pos[n] <= hi[n] /\ hi[n] <= Len(s)
      BY <1>0, <2>1 DEF NodeOK
    <3>2. ASSUME NEW l \in Int, NEW k \in Int, NEW h \in Int,
                 1 <= l, l <= k, k <= h, h <= Len(s)
          PROVE  SubSeq(s, l, h) = SubSeq(s, l, k - 1) \o <<s[k]>> \o SubSeq(s, k + 1, h)
      BY <3>0, <3>2, CutSeq
    <3>3. QED
      BY <3>1, <3>2
  <2> HIDE DEF in
  <2>6. QED
    BY <2>2, <2>3, <2>4, <2>5
<1>2. ASSUME NEW n \in Procs, pos[n] > 0
      PROVE  f[n] = in[n] /\ f[t.left[n]] = in[t.left[n]] /\ f[t.right[n]] = in[t.right[n]]
  <2>1. NodeOK(t, Len(s), pos, lo, hi, n)
    BY <1>2 DEF Shape
  <2>2. \A c \in Ptr : c = t.left[n] \/ c = t.right[n] => c = Null \/ pos[c] > 0
    BY <2>1 DEF NodeOK, ChildOK
  <2> HIDE DEF in
  <2>3. QED
    BY <1>0, <1>2, <2>2 DEF Ptr
<1>3. ASSUME NEW n \in Procs, pos[n] = 0
      PROVE  f[n] = f[t.left[n]] \o <<n>> \o f[t.right[n]]
  <2>1. t.left[n] = Null /\ (t.right[n] = Null \/ pos[t.right[n]] > 0)
    BY <1>3 DEF Outside
  <2>2. in[Null] = << >>
    BY DEF Ptr
  <2> HIDE DEF in
  <2>3. f[t.left[n]] = << >> /\ f[t.right[n]] = in[t.right[n]] /\ n # Null /\ n \in Ptr
    BY <1>0, <2>1, <2>2 DEF Ptr
  <2>4. f[n] = << >> \o <<n>> \o in[t.right[n]]
    BY <1>3, <2>3
  <2> HIDE DEF f
  <2>5. QED
    BY <2>3, <2>4
<1>4. f[Null] = << >> /\ \A n \in Procs : n # Null /\ (pos[n] = 0 \/ pos[n] > 0)
  BY <1>0 DEF Ptr
<1>5. Eqn(f)
  <2>1. \A n \in Procs : f[n] = f[t.left[n]] \o <<n>> \o f[t.right[n]]
    <3> SUFFICES ASSUME NEW n \in Procs
                 PROVE  f[n] = f[t.left[n]] \o <<n>> \o f[t.right[n]]
      BY ZenonT(30)
    <3> HIDE DEF f, in
    <3>1. CASE pos[n] > 0
      BY ZenonT(30), <1>1, <1>2, <3>1
    <3>2. QED
      BY ZenonT(30), <1>3, <1>4, <3>1
  <2>2. f = [n \in Ptr |-> f[n]]
    OBVIOUS
  <2> HIDE DEF f
  <2>3. QED
    BY <1>4, <2>1, <2>2 DEF Ptr
<1>6. Eqn(seq)
  <2> HIDE DEF f
  <2>1. QED
    BY ZenonT(30), <1>5 DEF seq
<1>7. InOrder(t) = seq[t.root]
  BY DEF InOrder, Ptr
<1>8. in[Null] = << >>
  BY DEF Ptr
<1> HIDE DEF f, seq, in
<1> DEFINE S == {n \in Procs : seq[n] = in[n]}
<1>9. seq[Null] = in[Null] /\ \A n \in Procs : seq[n] = seq[t.left[n]] \o <<n>> \o seq[t.right[n]]
  BY ZenonT(30), <1>4, <1>6, <1>8 DEF Ptr
<1>10. ASSUME NEW n \in Procs, pos[n] > 0, t.left[n] # Null => t.left[n] \in S,
              t.right[n] # Null => t.right[n] \in S
       PROVE  n \in S
  <2>1. seq[t.left[n]] = in[t.left[n]] /\ seq[t.right[n]] = in[t.right[n]]
    BY <1>9, <1>10
  <2>2. QED
    BY <1>1, <1>9, <1>10, <2>1
<1>11. \A n \in Procs : pos[n] > 0 => n \in S
  <2> HIDE DEF S
  <2>1. QED
    BY <1>10, SubtreeInduction
<1>12. CASE t.root = Null
  <2>1. Len(s) = 0
    BY <1>12 DEF Shape, RootOK
  <2>2. s = << >>
    BY <1>0, <2>1
  <2>3. QED
    BY <1>7, <1>8, <1>9, <1>12, <2>2
<1>13. CASE t.root # Null
  <2>1. t.root \in Procs /\ pos[t.root] > 0 /\ lo[t.root] = 1 /\ hi[t.root] = Len(s)
    BY <1>13 DEF Shape, RootOK, Trees, Ptr
  <2>2. InOrder(t) = in[t.root]
    BY <1>7, <1>11, <2>1
  <2>3. in[t.root] = SubSeq(s, 1, Len(s))
    BY <1>13, <2>1 DEF in, Ptr
  <2>4. SubSeq(s, 1, Len(s)) = s
    BY <1>0
  <2>5. QED
    BY <2>2, <2>3, <2>4
<1>14. QED
  BY <1>12, <1>13

\* The pointers nx lead down the tree; f is where they end.
Descends(t, pos, nx) ==
  /\ nx \in [Procs -> Ptr]
  /\ \A n \in Procs : nx[n] # Null =>
       pos[n] > 0 /\ (nx[n] = t.left[n] \/ nx[n] = t.right[n])
EndOf(nx, f) ==
  /\ f \in [Procs -> Procs]
  /\ \A n \in Procs : f[n] = IF nx[n] = Null THEN n ELSE f[nx[n]]

\* A walk down the tree, along the pointers nx, ends.
LEMMA DescentExists ==
  ASSUME NEW t, NEW len, NEW pos, NEW lo, NEW hi, Shape(t, len, pos, lo, hi),
         NEW nx, Descends(t, pos, nx)
  PROVE  \E f : EndOf(nx, f)
<1> DEFINE r == [n \in Procs |-> IF pos[n] > 0 THEN hi[n] - lo[n] + 1 ELSE 0]
<1>0. /\ len \in Nat /\ pos \in [Procs -> 0..len]
      /\ lo \in [Procs -> Int] /\ hi \in [Procs -> Int] /\ nx \in [Procs -> Ptr]
  BY DEF Shape, Descends
<1>1. r \in [Procs -> 0..len]
  <2>1. \A n \in Procs : pos[n] > 0 => hi[n] - lo[n] + 1 \in 0..len
    BY <1>0 DEF Shape, NodeOK
  <2>2. QED
    BY <1>0, <2>1
<1>2. ASSUME NEW n \in Procs, nx[n] # Null
      PROVE  r[nx[n]] < r[n]
  <2>1. pos[n] > 0 /\ NodeOK(t, len, pos, lo, hi, n)
    BY <1>2 DEF Shape, Descends
  <2>2. nx[n] \in Procs /\ (nx[n] = t.left[n] \/ nx[n] = t.right[n])
    BY <1>0, <1>2 DEF Ptr, Descends
  <2>3. pos[nx[n]] > 0 /\ hi[nx[n]] - lo[nx[n]] < hi[n] - lo[n]
    BY <1>0, <1>2, <2>1, <2>2 DEF NodeOK, ChildOK
  <2>4. QED
    BY <1>0, <2>1, <2>2, <2>3
<1> HIDE DEF r
<1>3. \E f \in [Procs -> Procs] : \A n \in Procs : f[n] = IF nx[n] = Null THEN n ELSE f[nx[n]]
  BY <1>0, <1>1, <1>2, WalkExists
<1>4. QED
  BY <1>3 DEF EndOf

\* setMinimumVRuntimeproc finds the first of the sequence.
LEMMA MinimumLayout ==
  ASSUME NEW t, NEW s, NEW pos, NEW lo, NEW hi, NEW p,
         Layout(t, s, pos, lo, hi, p)
  PROVE  setMinimumVRuntimeproc(t, t.root) = IF Len(s) = 0 THEN Null ELSE s[1]
<1> USE DEF Layout
<1> DEFINE leftmost[n \in Procs] ==
             IF t.left[n] # Null THEN leftmost[t.left[n]] ELSE n
           Eqn(f) == f = [n \in Procs |-> IF t.left[n] # Null THEN f[t.left[n]] ELSE n]
<1>0. /\ t.left \in [Procs -> Ptr] /\ t.root \in Ptr /\ Null \notin Procs
      /\ pos \in [Procs -> Nat] /\ lo \in [Procs -> Int] /\ hi \in [Procs -> Int]
      /\ s \in Seq(Procs) /\ Len(s) \in Nat
  BY NullAssumption DEF Shape, Trees, Seats
<1>1. \A n \in Procs : t.left[n] # Null => pos[n] > 0
  BY <1>0 DEF Outside
<1>2. PICK f : EndOf(t.left, f)
  <2>1. Descends(t, pos, t.left)
    BY <1>0, <1>1 DEF Descends
  <2>2. QED
    BY <2>1, DescentExists
<1>3. Eqn(f)
  BY SMTT(30), <1>2 DEF EndOf
<1>4. Eqn(leftmost)
  BY <1>3 DEF leftmost
<1>5. setMinimumVRuntimeproc(t, t.root) = IF t.root = Null THEN Null ELSE leftmost[t.root]
  BY DEF setMinimumVRuntimeproc
<1> HIDE DEF leftmost
<1> DEFINE S == {n \in Procs : leftmost[n] = s[lo[n]]}
<1>6. ASSUME NEW n \in Procs, pos[n] > 0, t.left[n] # Null => t.left[n] \in S
      PROVE  n \in S
  <2>1. NodeOK(t, Len(s), pos, lo, hi, n) /\ s[pos[n]] = n
    BY <1>6 DEF Shape, Seats
  <2>2. CASE t.left[n] = Null
    <3>1. lo[n] = pos[n]
      BY <1>0, <2>1, <2>2 DEF NodeOK, ChildOK
    <3>2. QED
      BY <1>4, <2>1, <2>2, <3>1
  <2>3. CASE t.left[n] # Null
    <3>1. lo[t.left[n]] = lo[n]
      BY <2>1, <2>3 DEF NodeOK, ChildOK
    <3>2. QED
      BY <1>4, <1>6, <2>3, <3>1
  <2>4. QED
    BY <2>2, <2>3
<1>7. \A n \in Procs : pos[n] > 0 => n \in S
  <2> HIDE DEF S
  <2>1. QED
    BY <1>6, SubtreeInduction
<1>8. CASE t.root = Null
  BY <1>5, <1>8 DEF Shape, RootOK
<1>9. CASE t.root # Null
  <2>1. t.root \in Procs /\ pos[t.root] > 0 /\ lo[t.root] = 1 /\ hi[t.root] = Len(s)
    BY <1>0, <1>9 DEF Shape, RootOK, Ptr
  <2>2. Len(s) # 0
    BY <1>0, <2>1 DEF Shape, NodeOK
  <2>3. QED
    BY <1>5, <1>7, <1>9, <2>1, <2>2
<1>10. QED
  BY <1>8, <1>9

\* p belongs after the first k processes of s, where insertProc hangs it on the leaf n.
LeafOf(t, s, pos, vr, p) ==
  \E n \in Procs, k \in 0..Len(s) :
    /\ pos[n] > 0
    /\ \A i \in 1..k : vr[s[i]] <= vr[p]
    /\ \A i \in (k+1)..Len(s) : vr[p] < vr[s[i]]
    /\ LET t1 == SetParent(SetColor(t, p, RED), p, n)
       IN  \/ /\ k = pos[n] /\ t.right[n] = Null
              /\ insertProc(t, p, vr) = SetRight(t1, n, p)
           \/ /\ k = pos[n] - 1 /\ t.left[n] = Null
              /\ insertProc(t, p, vr) = SetLeft(t1, n, p)

\* insertProc walks to the place of the key, and hangs the process there.
LEMMA LeafLayout ==
  ASSUME NEW t, NEW s, NEW pos, NEW lo, NEW hi, NEW vr \in [Procs -> Nat], NEW p \in Procs,
         Seats(s, pos), Shape(t, Len(s), pos, lo, hi), Outside(t, pos, Null),
         Sorted(s, vr), t.root # Null
  PROVE  LeafOf(t, s, pos, vr, p)
<1> DEFINE toRight(n) == vr[n] <= vr[p]
           leaf[n \in Procs] ==
             LET child == IF toRight(n) THEN t.right[n] ELSE t.left[n]
             IN  IF child = Null THEN n ELSE leaf[child]
           nx == [n \in Procs |-> IF toRight(n) THEN t.right[n] ELSE t.left[n]]
           Eqn(f) == f = [n \in Procs |-> IF nx[n] = Null THEN n ELSE f[nx[n]]]
<1>0. /\ t.left \in [Procs -> Ptr] /\ t.right \in [Procs -> Ptr] /\ Null \notin Procs
      /\ pos \in [Procs -> Nat] /\ lo \in [Procs -> Int] /\ hi \in [Procs -> Int]
      /\ s \in Seq(Procs) /\ Len(s) \in Nat /\ t.root \in Procs
  BY SMTT(30), NullAssumption DEF Shape, Trees, Seats, Ptr
<1>a. \A i \in 1..Len(s) : s[i] \in Procs /\ vr[s[i]] \in Nat
  <2>1. s \in Seq(Procs)
    BY <1>0
  <2>2. \A i \in 1..Len(s) : s[i] \in Procs
    BY <2>1, ElementOfSeq
  <2>3. QED
    BY <2>2
<1>b. \A n \in Procs : pos[n] > 0 =>
        /\ pos[n] \in 1..Len(s) /\ lo[n] \in Int /\ hi[n] \in Int
        /\ 1 <= lo[n] /\ lo[n] <= pos[n] /\ pos[n] <= hi[n] /\ hi[n] <= Len(s)
  BY <1>0 DEF Shape, NodeOK
<1>c. lo[t.root] = 1 /\ hi[t.root] = Len(s) /\ pos[t.root] > 0
  BY DEF Shape, RootOK
<1>1. \A n \in Procs : nx[n] # Null => pos[n] > 0 /\ (nx[n] = t.left[n] \/ nx[n] = t.right[n])
  BY <1>0 DEF Outside
<1>2. \E f : EndOf(nx, f)
  <2>1. nx \in [Procs -> Ptr]
    BY <1>0
  <2>2. Descends(t, pos, nx)
    BY <1>1, <2>1 DEF Descends
  <2> HIDE DEF nx
  <2>3. QED
    BY <2>2, DescentExists
<1>3. \E f : Eqn(f)
  BY <1>2 DEF EndOf
<1>4. Eqn(leaf)
  BY ZenonT(30), <1>3 DEF leaf
<1>5. LET t1 == SetParent(SetColor(t, p, RED), p, leaf[t.root])
      IN  insertProc(t, p, vr) = IF toRight(leaf[t.root]) THEN SetRight(t1, leaf[t.root], p)
                                 ELSE SetLeft(t1, leaf[t.root], p)
  BY DEF insertProc
<1> HIDE DEF leaf
\* n is where the walk ends, k the place of the key.
<1> DEFINE Place(n, k) == /\ pos[n] > 0 /\ nx[n] = Null
                          /\ k = IF toRight(n) THEN pos[n] ELSE pos[n] - 1
                          /\ \A i \in 1..k : vr[s[i]] <= vr[p]
                          /\ \A i \in (k+1)..Len(s) : vr[p] < vr[s[i]]
           Leads(n) == /\ \A i \in 1..(lo[n] - 1) : vr[s[i]] <= vr[p]
                       /\ \A i \in (hi[n] + 1)..Len(s) : vr[p] < vr[s[i]]
           S == {n \in Procs : Leads(n) => leaf[n] \in Procs /\ \E k \in 0..Len(s) : Place(leaf[n], k)}
<1>6. ASSUME NEW n \in Procs, pos[n] > 0, t.left[n] # Null => t.left[n] \in S,
             t.right[n] # Null => t.right[n] \in S
      PROVE  n \in S
  <2> SUFFICES ASSUME Leads(n)
               PROVE  leaf[n] \in Procs /\ \E k \in 0..Len(s) : Place(leaf[n], k)
    OBVIOUS
  <2>1. NodeOK(t, Len(s), pos, lo, hi, n) /\ s[pos[n]] = n
    BY <1>6 DEF Shape, Seats
  <2>2. /\ pos[n] \in 1..Len(s) /\ lo[n] \in Int /\ hi[n] \in Int
        /\ 1 <= lo[n] /\ lo[n] <= pos[n] /\ pos[n] <= hi[n] /\ hi[n] <= Len(s)
    BY <1>6, <1>b
  <2>3. \A i \in 1..Len(s) : vr[s[i]] \in Nat
    BY <1>a
  <2>4. toRight(n) => \A i \in 1..pos[n] : vr[s[i]] <= vr[p]
    BY <2>1, <2>2, <2>3 DEF Sorted
  <2>5. ~toRight(n) => \A i \in pos[n]..Len(s) : vr[p] < vr[s[i]]
    BY <2>1, <2>2, <2>3 DEF Sorted
  <2>6. CASE nx[n] = Null
    <3>1. leaf[n] = n
      BY <1>4, <2>6
    <3>2. CASE toRight(n)
      <4>1. hi[n] = pos[n]
        BY <2>1, <2>2, <2>6, <3>2 DEF NodeOK, ChildOK
      <4>2. Place(n, pos[n])
        BY <1>6, <2>4, <2>6, <3>2, <4>1
      <4>3. pos[n] \in 0..Len(s)
        BY <1>0, <2>2
      <4> HIDE DEF Place
      <4>4. QED
        BY <3>1, <4>2, <4>3
    <3>3. CASE ~toRight(n)
      <4>1. lo[n] = pos[n]
        BY <2>1, <2>2, <2>6, <3>3 DEF NodeOK, ChildOK
      <4>2. Place(n, pos[n] - 1)
        BY <1>6, <2>2, <2>5, <2>6, <3>3, <4>1
      <4>3. pos[n] - 1 \in 0..Len(s)
        BY SMTT(30), <2>2
      <4> HIDE DEF Place
      <4>4. QED
        BY <3>1, <4>2, <4>3
    <3>4. QED
      BY <3>2, <3>3
  <2>7. CASE nx[n] # Null
    <3>1. leaf[n] = leaf[nx[n]]
      BY ZenonT(30), <1>4, <2>7
    <3>2. nx[n] \in S
      BY <1>6, <2>7
    <3>3. Leads(nx[n])
      <4>1. CASE toRight(n)
        <5>1. nx[n] = t.right[n] /\ lo[t.right[n]] = pos[n] + 1 /\ hi[t.right[n]] = hi[n]
          BY <2>1, <2>7, <4>1 DEF NodeOK, ChildOK
        <5>2. QED
          BY <2>2, <2>4, <4>1, <5>1
      <4>2. CASE ~toRight(n)
        <5>1. nx[n] = t.left[n] /\ lo[t.left[n]] = lo[n] /\ hi[t.left[n]] = pos[n] - 1
          BY <2>1, <2>7, <4>2 DEF NodeOK, ChildOK
        <5>2. QED
          BY <2>2, <2>5, <4>2, <5>1
      <4>3. QED
        BY SMTT(30), <4>1, <4>2
    <3>4. QED
      BY <3>1, <3>2, <3>3
  <2>8. QED
    BY <2>6, <2>7
<1>7. t.root \in S
  <2>1. pos[t.root] > 0
    BY <1>c
  <2> HIDE DEF S
  <2>2. QED
    BY <1>0, <1>6, <2>1, SubtreeInduction
<1>8. Leads(t.root)
  BY <1>0, <1>c
<1>9. PICK k \in 0..Len(s) : leaf[t.root] \in Procs /\ Place(leaf[t.root], k)
  BY <1>7, <1>8
<1>10. QED
  <2>1. CASE toRight(leaf[t.root])
    BY <1>5, <1>9, <2>1 DEF LeafOf
  <2>2. CASE ~toRight(leaf[t.root])
    BY <1>5, <1>9, <2>2 DEF LeafOf
  <2>3. QED
    BY <2>1, <2>2

\* Between operations the tree is balanced: the black height of RedBlack is bh.
LEMMA HeightLayout ==
  ASSUME NEW s, NEW pos, NEW lo, NEW hi, NEW bh, Seats(s, pos),
         Shape(tree, Len(s), pos, lo, hi), Outside(tree, pos, Null),
         Heights(tree, pos, bh, Null), RedRule(tree, pos, Null, Null),
         IsBlack(tree, tree.root)
  PROVE  RedBlack
<1> DEFINE height[n \in Ptr] ==
             IF n = Null THEN 0
             ELSE LET l == height[tree.left[n]]
                      r == height[tree.right[n]]
                  IN  IF l # r \/ l = -1 THEN -1
                      ELSE IF tree.color[n] = BLACK THEN l + 1 ELSE l
           Up(n, l, r) == IF l # r \/ l = -1 THEN -1
                          ELSE IF tree.color[n] = BLACK THEN l + 1 ELSE l
           Eqn(f) == f = [n \in Ptr |-> IF n = Null THEN 0
                                        ELSE Up(n, f[tree.left[n]], f[tree.right[n]])]
           f == [n \in Ptr |-> IF n = Null THEN 0
                               ELSE IF pos[n] > 0 THEN bh[n] ELSE BlackBit(tree, n)]
<1>0. /\ \A n \in Procs : tree.left[n] \in Ptr /\ tree.right[n] \in Ptr
      /\ pos \in [Procs -> Nat] /\ Null \notin Procs /\ tree.root \in Ptr
      /\ bh \in [Ptr -> Nat] /\ bh[Null] = 0
  BY NullAssumption DEF Shape, Trees, Heights
<1>1. ASSUME NEW n \in Procs, pos[n] > 0
      PROVE  bh[tree.left[n]] = bh[tree.right[n]] /\ bh[n] = bh[tree.left[n]] + BlackBit(tree, n)
  BY <1>0, <1>1 DEF Heights, HeightOK, Lacks
<1>2. ASSUME NEW n \in Procs, pos[n] > 0
      PROVE  f[n] = bh[n] /\ f[tree.left[n]] = bh[tree.left[n]]
                          /\ f[tree.right[n]] = bh[tree.right[n]]
  <2>1. NodeOK(tree, Len(s), pos, lo, hi, n)
    BY <1>2 DEF Shape
  <2>2. \A c \in Ptr : c = tree.left[n] \/ c = tree.right[n] => c = Null \/ pos[c] > 0
    BY <2>1 DEF NodeOK, ChildOK
  <2>3. QED
    BY <1>0, <1>2, <2>2 DEF Ptr
<1>3. \A n \in Procs : f[n] = Up(n, f[tree.left[n]], f[tree.right[n]])
  <2> SUFFICES ASSUME NEW n \in Procs
               PROVE  f[n] = Up(n, f[tree.left[n]], f[tree.right[n]])
    OBVIOUS
  <2>1. CASE pos[n] > 0
    <3>1. bh[tree.left[n]] \in Nat /\ bh[tree.right[n]] \in Nat /\ bh[n] \in Nat
      BY <1>0 DEF Ptr
    <3> HIDE DEF f
    <3>2. QED
      BY <1>1, <1>2, <2>1, <3>1 DEF BlackBit
  <2>2. CASE pos[n] = 0
    <3>1. tree.left[n] = Null /\ tree.right[n] = Null
      BY <1>0, <2>2 DEF Outside
    <3>2. f[Null] = 0 /\ f[n] = BlackBit(tree, n)
      BY <1>0, <2>2 DEF Ptr
    <3> HIDE DEF f
    <3>3. QED
      BY <3>1, <3>2 DEF BlackBit
  <2>3. QED
    BY <1>0, <2>1, <2>2
<1>4. f[Null] = 0 /\ f = [n \in Ptr |-> f[n]]
  BY DEF Ptr
<1>5. Eqn(f)
  <2> HIDE DEF f, Up
  <2>1. QED
    BY ZenonT(30), <1>0, <1>3, <1>4 DEF Ptr
<1>6. Eqn(height)
  <2> HIDE DEF f
  <2>1. QED
    BY ZenonT(30), <1>5 DEF height
<1> HIDE DEF f, height
<1> DEFINE S == {n \in Procs : height[n] = bh[n]}
<1>7. /\ height[Null] = 0
      /\ \A n \in Procs : height[n] = Up(n, height[tree.left[n]], height[tree.right[n]])
  BY ZenonT(30), <1>0, <1>6 DEF Ptr
<1>8. ASSUME NEW n \in Procs, pos[n] > 0, tree.left[n] # Null => tree.left[n] \in S,
             tree.right[n] # Null => tree.right[n] \in S
      PROVE  n \in S
  <2>1. height[tree.left[n]] = bh[tree.left[n]] /\ height[tree.right[n]] = bh[tree.right[n]]
    BY <1>0, <1>7, <1>8
  <2>2. bh[tree.left[n]] \in Nat /\ bh[tree.right[n]] \in Nat /\ bh[n] \in Nat
    BY <1>0 DEF Ptr
  <2>3. QED
    BY <1>1, <1>7, <1>8, <2>1, <2>2 DEF BlackBit
<1>9. \A n \in Procs : pos[n] > 0 => n \in S
  <2> HIDE DEF S
  <2>1. QED
    BY <1>8, SubtreeInduction
<1>10. height[tree.root] # -1
  <2>1. tree.root # Null => pos[tree.root] > 0
    BY DEF Shape, RootOK
  <2>2. height[tree.root] \in Nat
    BY <1>0, <1>7, <1>9, <2>1 DEF Ptr
  <2>3. QED
    BY <2>2
<1>11. InTree(tree) = {n \in Procs : pos[n] > 0}
  BY InTreeLayout DEF Layout
<1>12. \A n \in InTree(tree) : tree.color[n] = RED => /\ IsBlack(tree, tree.left[n])
                                                      /\ IsBlack(tree, tree.right[n])
  <2> SUFFICES ASSUME NEW n \in InTree(tree), tree.color[n] = RED
               PROVE  IsBlack(tree, tree.left[n]) /\ IsBlack(tree, tree.right[n])
    OBVIOUS
  <2>1. n \in Procs /\ pos[n] > 0
    BY <1>11
  <2>2. ~IsRed(tree, tree.left[n]) /\ ~IsRed(tree, tree.right[n])
    BY <1>0, <2>1 DEF RedRule, RedOK, IsRed
  <2>3. \A c \in Procs : tree.color[c] \in {RED, BLACK}
    BY DEF Shape, Trees
  <2>4. QED
    BY <1>0, <2>1, <2>2, <2>3 DEF IsRed, IsBlack, Ptr
<1>13. QED
  <2>1. RedBlack = (op = Idle =>
          /\ IsBlack(tree, tree.root)
          /\ \A n \in InTree(tree) :
               tree.color[n] = RED => /\ IsBlack(tree, tree.left[n])
                                      /\ IsBlack(tree, tree.right[n])
          /\ height[tree.root] # -1)
    BY DEF RedBlack, height, Ptr
  <2>2. QED
    BY <1>10, <1>12, <2>1

-----------------------------------------------------------------------------
(* What the pointer operations change.                                     *)

\* The fields after an assignment.
LEMMA SetLeftFields ==
  ASSUME NEW t \in Trees, NEW x \in Procs, NEW y \in Ptr
  PROVE  /\ SetLeft(t, x, y) \in Trees
         /\ SetLeft(t, x, y).root = t.root
         /\ SetLeft(t, x, y).left = [t.left EXCEPT ![x] = y]
         /\ SetLeft(t, x, y).right = t.right
         /\ SetLeft(t, x, y).pParent = t.pParent
         /\ SetLeft(t, x, y).color = t.color
BY DEF SetLeft, Trees

\* The fields after an assignment.
LEMMA SetRightFields ==
  ASSUME NEW t \in Trees, NEW x \in Procs, NEW y \in Ptr
  PROVE  /\ SetRight(t, x, y) \in Trees
         /\ SetRight(t, x, y).root = t.root
         /\ SetRight(t, x, y).left = t.left
         /\ SetRight(t, x, y).right = [t.right EXCEPT ![x] = y]
         /\ SetRight(t, x, y).pParent = t.pParent
         /\ SetRight(t, x, y).color = t.color
BY DEF SetRight, Trees

\* The fields after an assignment.
LEMMA SetParentFields ==
  ASSUME NEW t \in Trees, NEW x \in Procs, NEW y \in Ptr
  PROVE  /\ SetParent(t, x, y) \in Trees
         /\ SetParent(t, x, y).root = t.root
         /\ SetParent(t, x, y).left = t.left
         /\ SetParent(t, x, y).right = t.right
         /\ SetParent(t, x, y).pParent = [t.pParent EXCEPT ![x] = y]
         /\ SetParent(t, x, y).color = t.color
BY DEF SetParent, Trees

\* The fields after an assignment.
LEMMA SetColorFields ==
  ASSUME NEW t \in Trees, NEW x \in Procs, NEW c \in {RED, BLACK}
  PROVE  /\ SetColor(t, x, c) \in Trees
         /\ SetColor(t, x, c).root = t.root
         /\ SetColor(t, x, c).left = t.left
         /\ SetColor(t, x, c).right = t.right
         /\ SetColor(t, x, c).pParent = t.pParent
         /\ SetColor(t, x, c).color = [t.color EXCEPT ![x] = c]
BY DEF SetColor, Trees

\* The fields after an assignment.
LEMMA SetRootFields ==
  ASSUME NEW t \in Trees, NEW y \in Ptr
  PROVE  /\ [t EXCEPT !.root = y] \in Trees
         /\ [t EXCEPT !.root = y].root = y
         /\ [t EXCEPT !.root = y].left = t.left
         /\ [t EXCEPT !.root = y].right = t.right
         /\ [t EXCEPT !.root = y].pParent = t.pParent
         /\ [t EXCEPT !.root = y].color = t.color
BY DEF Trees

\* r is t after the left rotation at x.
LeftRotated(t, r, x) ==
  LET y == t.right[x]
      inner == t.left[y]
      up == t.pParent[x]
  IN  /\ r \in Trees
      /\ r.root = IF up = Null THEN y ELSE t.root
      /\ \A m \in Procs :
           /\ r.left[m] = IF m = y THEN x
                          ELSE IF m = up /\ x = t.left[up] THEN y ELSE t.left[m]
           /\ r.right[m] = IF m = x THEN inner
                           ELSE IF m = up /\ x # t.left[up] THEN y ELSE t.right[m]
           /\ r.pParent[m] = IF m = x THEN y ELSE IF m = y THEN up
                             ELSE IF m = inner THEN x ELSE t.pParent[m]

\* r is t after the right rotation at x.
RightRotated(t, r, x) ==
  LET y == t.left[x]
      inner == t.right[y]
      up == t.pParent[x]
  IN  /\ r \in Trees
      /\ r.root = IF up = Null THEN y ELSE t.root
      /\ \A m \in Procs :
           /\ r.left[m] = IF m = x THEN inner
                          ELSE IF m = up /\ x = t.left[up] THEN y ELSE t.left[m]
           /\ r.right[m] = IF m = y THEN x
                           ELSE IF m = up /\ x # t.left[up] THEN y ELSE t.right[m]
           /\ r.pParent[m] = IF m = x THEN y ELSE IF m = y THEN up
                             ELSE IF m = inner THEN x ELSE t.pParent[m]

\* y hangs where x hung.
Replaced(t, r, x, y) ==
  LET up == t.pParent[x]
  IN  /\ r \in Trees /\ r.color = t.color /\ r.pParent = t.pParent
      /\ r.root = IF up = Null THEN y ELSE t.root
      /\ r.left = IF up # Null /\ x = t.left[up] THEN [t.left EXCEPT ![up] = y] ELSE t.left
      /\ r.right = IF up # Null /\ x # t.left[up] THEN [t.right EXCEPT ![up] = y] ELSE t.right

\* ReplaceChild does it.
LEMMA ReplaceChildFields ==
  ASSUME NEW t \in Trees, NEW x \in Procs, NEW y \in Procs
  PROVE  Replaced(t, ReplaceChild(t, x, y), x, y)
<1> DEFINE up == t.pParent[x]
<1>1. up \in Ptr /\ y \in Ptr
  BY DEF Trees, Ptr
<1>2. CASE up = Null
  BY <1>1, <1>2, SetRootFields DEF ReplaceChild, Replaced
<1>3. CASE up # Null /\ x = t.left[up]
  <2>1. up \in Procs /\ ReplaceChild(t, x, y) = SetLeft(t, up, y)
    BY <1>1, <1>3 DEF ReplaceChild, Ptr
  <2>2. QED
    BY <1>1, <1>3, <2>1, SetLeftFields DEF Replaced
<1>4. CASE up # Null /\ x # t.left[up]
  <2>1. up \in Procs /\ ReplaceChild(t, x, y) = SetRight(t, up, y)
    BY SMTT(30), <1>1, <1>4 DEF ReplaceChild, Ptr
  <2>2. QED
    BY <1>1, <1>4, <2>1, SetRightFields DEF Replaced
<1>5. QED
  BY <1>2, <1>3, <1>4

\* rotateLeft is the left rotation.
LEMMA RotateLeftFields ==
  ASSUME NEW t \in Trees, NEW x \in Procs, t.right[x] \in Procs, t.right[x] # x,
         t.left[t.right[x]] # x, t.pParent[x] # x, t.pParent[x] # t.right[x]
  PROVE  LeftRotated(t, rotateLeft(t, x), x) /\ rotateLeft(t, x).color = t.color
<1> DEFINE y == t.right[x]
           inner == t.left[y]
           up == t.pParent[x]
           t1 == SetRight(t, x, inner)
           t2 == IF inner # Null THEN SetParent(t1, inner, x) ELSE t1
           t3 == SetParent(t2, y, up)
           t4 == ReplaceChild(t3, x, y)
           t5 == SetLeft(t4, y, x)
           r == SetParent(t5, x, y)
<1>1. rotateLeft(t, x) = r
  BY DEF rotateLeft
<1>2. y \in Procs /\ inner \in Ptr /\ up \in Ptr /\ x \in Ptr /\ y \in Ptr
  BY DEF Trees, Ptr
<1>3. /\ t1 \in Trees /\ t1.root = t.root /\ t1.left = t.left /\ t1.pParent = t.pParent
      /\ t1.color = t.color /\ t1.right = [t.right EXCEPT ![x] = inner]
  BY <1>2, SetRightFields
<1> HIDE DEF t1
<1>4. /\ t2 \in Trees /\ t2.root = t.root /\ t2.left = t.left /\ t2.right = t1.right
      /\ t2.color = t.color
      /\ t2.pParent = IF inner # Null THEN [t.pParent EXCEPT ![inner] = x] ELSE t.pParent
  <2>1. CASE inner = Null
    BY <1>3, <2>1
  <2>2. CASE inner # Null
    <3>1. inner \in Procs
      BY <1>2, <2>2 DEF Ptr
    <3>2. QED
      BY <1>2, <1>3, <2>2, <3>1, SetParentFields
  <2>3. QED
    BY <2>1, <2>2
<1> HIDE DEF t2
<1>5. /\ t3 \in Trees /\ t3.root = t.root /\ t3.left = t.left /\ t3.right = t1.right
      /\ t3.color = t.color /\ t3.pParent = [t2.pParent EXCEPT ![y] = up]
  BY <1>2, <1>4, SetParentFields
<1> HIDE DEF t3
<1>6. t3.pParent[x] = up
  BY <1>2, <1>4, <1>5 DEF Trees
<1>7. /\ t4 \in Trees /\ t4.color = t.color /\ t4.pParent = t3.pParent
      /\ t4.root = IF up = Null THEN y ELSE t.root
      /\ t4.left = IF up # Null /\ x = t.left[up] THEN [t.left EXCEPT ![up] = y] ELSE t.left
      /\ t4.right = IF up # Null /\ x # t.left[up] THEN [t1.right EXCEPT ![up] = y] ELSE t1.right
  <2>1. Replaced(t3, t4, x, y)
    BY <1>2, <1>5, ReplaceChildFields
  <2> HIDE DEF t4, up, y
  <2>2. QED
    BY <2>1, <1>5, <1>6 DEF Replaced
<1> HIDE DEF t4
<1>8. /\ t5 \in Trees /\ t5.color = t.color /\ t5.pParent = t3.pParent
      /\ t5.root = t4.root /\ t5.left = [t4.left EXCEPT ![y] = x] /\ t5.right = t4.right
  BY <1>2, <1>7, SetLeftFields
<1> HIDE DEF t5
<1>9. /\ r \in Trees /\ r.color = t.color /\ r.pParent = [t3.pParent EXCEPT ![x] = y]
      /\ r.root = t4.root /\ r.left = [t4.left EXCEPT ![y] = x] /\ r.right = t4.right
  BY <1>2, <1>8, SetParentFields
<1> HIDE DEF r
<1>10. ASSUME NEW m \in Procs
       PROVE  /\ r.left[m] = IF m = y THEN x
                          ELSE IF m = up /\ x = t.left[up] THEN y ELSE t.left[m]
              /\ r.right[m] = IF m = x THEN inner
                           ELSE IF m = up /\ x # t.left[up] THEN y ELSE t.right[m]
              /\ r.pParent[m] = IF m = x THEN y ELSE IF m = y THEN up
                             ELSE IF m = inner THEN x ELSE t.pParent[m]
  <2>0. t.left \in [Procs -> Ptr] /\ t.right \in [Procs -> Ptr] /\ t.pParent \in [Procs -> Ptr]
    BY DEF Trees
  <2>1. r.left[m] = IF m = y THEN x ELSE IF m = up /\ x = t.left[up] THEN y ELSE t.left[m]
    BY <1>2, <1>7, <1>9, <2>0, NullAssumption DEF Ptr
  <2>2. r.right[m] = IF m = x THEN inner ELSE IF m = up /\ x # t.left[up] THEN y ELSE t.right[m]
    BY <1>2, <1>3, <1>7, <1>9, <2>0, NullAssumption DEF Ptr
  <2>3. r.pParent[m] = IF m = x THEN y ELSE IF m = y THEN up
                       ELSE IF m = inner THEN x ELSE t.pParent[m]
    BY SMTT(30), <1>2, <1>4, <1>5, <1>9, <2>0, NullAssumption DEF Ptr
  <2>4. QED
    BY <2>1, <2>2, <2>3
<1>11. QED
  BY SMTT(30), <1>1, <1>7, <1>9, <1>10 DEF LeftRotated

\* rotateRight is the right rotation.
LEMMA RotateRightFields ==
  ASSUME NEW t \in Trees, NEW x \in Procs, t.left[x] \in Procs, t.left[x] # x,
         t.right[t.left[x]] # x, t.pParent[x] # x, t.pParent[x] # t.left[x]
  PROVE  RightRotated(t, rotateRight(t, x), x) /\ rotateRight(t, x).color = t.color
<1> DEFINE y == t.left[x]
           inner == t.right[y]
           up == t.pParent[x]
           t1 == SetLeft(t, x, inner)
           t2 == IF inner # Null THEN SetParent(t1, inner, x) ELSE t1
           t3 == SetParent(t2, y, up)
           t4 == ReplaceChild(t3, x, y)
           t5 == SetRight(t4, y, x)
           r == SetParent(t5, x, y)
<1>1. rotateRight(t, x) = r
  BY DEF rotateRight
<1>2. y \in Procs /\ inner \in Ptr /\ up \in Ptr /\ x \in Ptr /\ y \in Ptr
  BY DEF Trees, Ptr
<1>3. /\ t1 \in Trees /\ t1.root = t.root /\ t1.right = t.right /\ t1.pParent = t.pParent
      /\ t1.color = t.color /\ t1.left = [t.left EXCEPT ![x] = inner]
  BY <1>2, SetLeftFields
<1> HIDE DEF t1
<1>4. /\ t2 \in Trees /\ t2.root = t.root /\ t2.right = t.right /\ t2.left = t1.left
      /\ t2.color = t.color
      /\ t2.pParent = IF inner # Null THEN [t.pParent EXCEPT ![inner] = x] ELSE t.pParent
  <2>1. CASE inner = Null
    BY <1>3, <2>1
  <2>2. CASE inner # Null
    <3>1. inner \in Procs
      BY <1>2, <2>2 DEF Ptr
    <3>2. QED
      BY <1>2, <1>3, <2>2, <3>1, SetParentFields
  <2>3. QED
    BY <2>1, <2>2
<1> HIDE DEF t2
<1>5. /\ t3 \in Trees /\ t3.root = t.root /\ t3.right = t.right /\ t3.left = t1.left
      /\ t3.color = t.color /\ t3.pParent = [t2.pParent EXCEPT ![y] = up]
  BY <1>2, <1>4, SetParentFields
<1> HIDE DEF t3
<1>6. t3.pParent[x] = up
  BY <1>2, <1>4, <1>5 DEF Trees
<1>a. up # Null => (x = t3.left[up] <=> x = t.left[up])
  BY <1>2, <1>3, <1>5 DEF Ptr, Trees
<1>7. /\ t4 \in Trees /\ t4.color = t.color /\ t4.pParent = t3.pParent
      /\ t4.root = IF up = Null THEN y ELSE t.root
      /\ t4.left = IF up # Null /\ x = t.left[up] THEN [t1.left EXCEPT ![up] = y] ELSE t1.left
      /\ t4.right = IF up # Null /\ x # t.left[up] THEN [t.right EXCEPT ![up] = y] ELSE t.right
  <2>1. Replaced(t3, t4, x, y)
    BY <1>2, <1>5, ReplaceChildFields
  <2> HIDE DEF t4, up, y
  <2>2. QED
    BY <2>1, <1>5, <1>6, <1>a DEF Replaced
<1> HIDE DEF t4
<1>8. /\ t5 \in Trees /\ t5.color = t.color /\ t5.pParent = t3.pParent
      /\ t5.root = t4.root /\ t5.right = [t4.right EXCEPT ![y] = x] /\ t5.left = t4.left
  BY <1>2, <1>7, SetRightFields
<1> HIDE DEF t5
<1>9. /\ r \in Trees /\ r.color = t.color /\ r.pParent = [t3.pParent EXCEPT ![x] = y]
      /\ r.root = t4.root /\ r.right = [t4.right EXCEPT ![y] = x] /\ r.left = t4.left
  BY <1>2, <1>8, SetParentFields
<1> HIDE DEF r
<1>10. ASSUME NEW m \in Procs
       PROVE  /\ r.left[m] = IF m = x THEN inner
                          ELSE IF m = up /\ x = t.left[up] THEN y ELSE t.left[m]
              /\ r.right[m] = IF m = y THEN x
                           ELSE IF m = up /\ x # t.left[up] THEN y ELSE t.right[m]
              /\ r.pParent[m] = IF m = x THEN y ELSE IF m = y THEN up
                             ELSE IF m = inner THEN x ELSE t.pParent[m]
  <2>0. t.left \in [Procs -> Ptr] /\ t.right \in [Procs -> Ptr] /\ t.pParent \in [Procs -> Ptr]
    BY DEF Trees
  <2>1. r.right[m] = IF m = y THEN x ELSE IF m = up /\ x # t.left[up] THEN y ELSE t.right[m]
    BY <1>2, <1>7, <1>9, <2>0, NullAssumption DEF Ptr
  <2>2. r.left[m] = IF m = x THEN inner ELSE IF m = up /\ x = t.left[up] THEN y ELSE t.left[m]
    BY <1>2, <1>3, <1>7, <1>9, <2>0, NullAssumption DEF Ptr
  <2>3. r.pParent[m] = IF m = x THEN y ELSE IF m = y THEN up
                       ELSE IF m = inner THEN x ELSE t.pParent[m]
    BY <1>2, <1>4, <1>5, <1>9, <2>0, NullAssumption DEF Ptr
  <2>4. QED
    BY <2>1, <2>2, <2>3
<1>11. QED
  BY <1>1, <1>7, <1>9, <1>10 DEF RightRotated

-----------------------------------------------------------------------------
(* The rotations keep the shape.                                           *)

\* The nodes of a left rotation and their seats.
LeftTurn(t, len, pos, lo, hi, x) ==
  LET y == t.right[x]
      inner == t.left[y]
      up == t.pParent[x]
  IN  /\ t \in Trees /\ len \in Nat
      /\ pos \in [Procs -> 0..len] /\ lo \in [Procs -> Int] /\ hi \in [Procs -> Int]
      /\ x \in Procs /\ y \in Procs /\ inner \in Ptr /\ up \in Ptr
      /\ pos[x] > 0 /\ pos[y] > 0 /\ t.pParent[y] = x /\ x # y /\ inner # x /\ inner # y
      /\ 1 <= lo[x] /\ lo[x] <= pos[x] /\ pos[x] <= hi[x] /\ hi[x] <= len
      /\ lo[y] <= pos[y] /\ pos[y] <= hi[y]
      /\ lo[y] = pos[x] + 1 /\ hi[y] = hi[x]
      /\ inner = Null => lo[y] = pos[y]
      /\ inner # Null => /\ inner \in Procs /\ pos[inner] > 0 /\ t.pParent[inner] = y
                         /\ lo[inner] = lo[y] /\ hi[inner] = pos[y] - 1
      /\ up # x /\ up # y /\ (up # Null => up # inner)
      /\ up = Null => x = t.root
      /\ up # Null => /\ up \in Procs /\ pos[up] > 0
                      /\ x = t.left[up] <=> ~(x = t.right[up])
      /\ \A m \in Procs : pos[m] > 0 => NodeOK(t, len, pos, lo, hi, m)
      /\ RootOK(t, len, pos, lo, hi)

\* They are all different.
LEMMA LeftTurnFacts ==
  ASSUME NEW t, NEW len, NEW pos, NEW lo, NEW hi, Shape(t, len, pos, lo, hi),
         NEW x \in Procs, pos[x] > 0, t.right[x] # Null
  PROVE  LeftTurn(t, len, pos, lo, hi, x)
<1> DEFINE y == t.right[x]
           inner == t.left[y]
           up == t.pParent[x]
<1>1. /\ t \in Trees /\ len \in Nat
      /\ pos \in [Procs -> 0..len] /\ lo \in [Procs -> Int] /\ hi \in [Procs -> Int]
      /\ t.left \in [Procs -> Ptr] /\ t.right \in [Procs -> Ptr] /\ t.pParent \in [Procs -> Ptr]
      /\ RootOK(t, len, pos, lo, hi) /\ Null \notin Procs
      /\ \A m \in Procs : pos[m] > 0 => NodeOK(t, len, pos, lo, hi, m)
  BY NullAssumption DEF Shape, Trees
<1>2. y \in Procs /\ pos[x] \in Nat /\ lo[x] \in Int /\ hi[x] \in Int
  BY <1>1 DEF Ptr
<1>3. inner \in Ptr /\ up \in Ptr /\ pos[y] \in Nat /\ lo[y] \in Int /\ hi[y] \in Int
  BY <1>1, <1>2
<1>4. NodeOK(t, len, pos, lo, hi, x)
  BY <1>1
<1>5. /\ 1 <= lo[x] /\ lo[x] <= pos[x] /\ pos[x] <= hi[x] /\ hi[x] <= len
      /\ pos[y] > 0 /\ t.pParent[y] = x /\ lo[y] = pos[x] + 1 /\ hi[y] = hi[x]
  BY <1>4 DEF NodeOK, ChildOK
<1>6. NodeOK(t, len, pos, lo, hi, y)
  BY <1>1, <1>2, <1>5
<1>7. /\ lo[y] <= pos[y] /\ pos[y] <= hi[y] /\ x # y
      /\ inner = Null => lo[y] = pos[y]
  BY <1>2, <1>3, <1>5, <1>6 DEF NodeOK, ChildOK
<1>8. inner # Null => /\ inner \in Procs /\ pos[inner] > 0 /\ t.pParent[inner] = y
                      /\ lo[inner] = lo[y] /\ hi[inner] = pos[y] - 1
  BY <1>3, <1>6 DEF NodeOK, ChildOK, Ptr
<1>9. inner # Null => lo[inner] <= pos[inner] /\ pos[inner] <= hi[inner] /\ pos[inner] \in Nat
  BY <1>1, <1>8 DEF NodeOK
<1>10. inner # x /\ inner # y
  BY <1>1, <1>2, <1>3, <1>5, <1>7, <1>8, <1>9
<1>11. up = Null => x = t.root
  BY <1>4 DEF NodeOK
<1>12. ASSUME up # Null
       PROVE  /\ up \in Procs /\ pos[up] > 0 /\ up # x /\ up # y /\ up # inner
              /\ x = t.left[up] <=> ~(x = t.right[up])
  <2>1. up \in Procs /\ pos[up] > 0 /\ (x = t.left[up] \/ x = t.right[up])
    BY <1>3, <1>4, <1>12 DEF NodeOK, Ptr
  <2>2. /\ NodeOK(t, len, pos, lo, hi, up) /\ x # Null
        /\ pos[up] \in Nat /\ lo[up] \in Int /\ hi[up] \in Int
    BY <1>1, <2>1
  <2>3. \/ x = t.left[up] /\ lo[x] = lo[up] /\ hi[x] = pos[up] - 1
        \/ x = t.right[up] /\ lo[x] = pos[up] + 1 /\ hi[x] = hi[up]
    BY <2>1, <2>2 DEF NodeOK, ChildOK
  <2>4. up # x
    BY <1>2, <1>5, <2>2, <2>3
  <2>5. up # y
    BY <1>2, <1>3, <1>5, <1>7, <2>2, <2>3
  <2>6. up # inner
    BY <1>2, <1>3, <1>5, <1>7, <1>8, <1>9, <1>12, <2>2, <2>3
  <2>7. ~(x = t.left[up] /\ x = t.right[up])
    <3>1. x = t.left[up] => hi[x] = pos[up] - 1
      BY <2>2 DEF NodeOK, ChildOK
    <3>2. x = t.right[up] => lo[x] = pos[up] + 1
      BY <2>2 DEF NodeOK, ChildOK
    <3>3. QED
      BY <1>2, <1>5, <2>2, <3>1, <3>2
  <2>8. QED
    BY <2>1, <2>4, <2>5, <2>6, <2>7
<1>13. up # x /\ up # y
  BY <1>1, <1>2, <1>12
<1> HIDE DEF y, inner, up
<1>14. QED
  <2>1. /\ t.right[x] = y /\ t.left[y] = inner /\ t.pParent[x] = up
    BY DEF y, inner, up
  <2>2. QED
    BY <1>1, <1>2, <1>3, <1>5, <1>7, <1>8, <1>10, <1>11, <1>12, <1>13, <2>1 DEF LeftTurn

\* The nodes of a right rotation and their seats.
RightTurn(t, len, pos, lo, hi, x) ==
  LET y == t.left[x]
      inner == t.right[y]
      up == t.pParent[x]
  IN  /\ t \in Trees /\ len \in Nat
      /\ pos \in [Procs -> 0..len] /\ lo \in [Procs -> Int] /\ hi \in [Procs -> Int]
      /\ x \in Procs /\ y \in Procs /\ inner \in Ptr /\ up \in Ptr
      /\ pos[x] > 0 /\ pos[y] > 0 /\ t.pParent[y] = x /\ x # y /\ inner # x /\ inner # y
      /\ 1 <= lo[x] /\ lo[x] <= pos[x] /\ pos[x] <= hi[x] /\ hi[x] <= len
      /\ lo[y] <= pos[y] /\ pos[y] <= hi[y]
      /\ lo[y] = lo[x] /\ hi[y] = pos[x] - 1
      /\ inner = Null => hi[y] = pos[y]
      /\ inner # Null => /\ inner \in Procs /\ pos[inner] > 0 /\ t.pParent[inner] = y
                         /\ lo[inner] = pos[y] + 1 /\ hi[inner] = hi[y]
      /\ up # x /\ up # y /\ (up # Null => up # inner)
      /\ up = Null => x = t.root
      /\ up # Null => /\ up \in Procs /\ pos[up] > 0
                      /\ x = t.left[up] <=> ~(x = t.right[up])
      /\ \A m \in Procs : pos[m] > 0 => NodeOK(t, len, pos, lo, hi, m)
      /\ RootOK(t, len, pos, lo, hi)

\* They are all different.
LEMMA RightTurnFacts ==
  ASSUME NEW t, NEW len, NEW pos, NEW lo, NEW hi, Shape(t, len, pos, lo, hi),
         NEW x \in Procs, pos[x] > 0, t.left[x] # Null
  PROVE  RightTurn(t, len, pos, lo, hi, x)
<1> DEFINE y == t.left[x]
           inner == t.right[y]
           up == t.pParent[x]
<1>1. /\ t \in Trees /\ len \in Nat
      /\ pos \in [Procs -> 0..len] /\ lo \in [Procs -> Int] /\ hi \in [Procs -> Int]
      /\ t.left \in [Procs -> Ptr] /\ t.right \in [Procs -> Ptr] /\ t.pParent \in [Procs -> Ptr]
      /\ RootOK(t, len, pos, lo, hi) /\ Null \notin Procs
      /\ \A m \in Procs : pos[m] > 0 => NodeOK(t, len, pos, lo, hi, m)
  BY NullAssumption DEF Shape, Trees
<1>2. y \in Procs /\ pos[x] \in Nat /\ lo[x] \in Int /\ hi[x] \in Int
  BY <1>1 DEF Ptr
<1>3. inner \in Ptr /\ up \in Ptr /\ pos[y] \in Nat /\ lo[y] \in Int /\ hi[y] \in Int
  BY <1>1, <1>2
<1>4. NodeOK(t, len, pos, lo, hi, x)
  BY <1>1
<1>5. /\ 1 <= lo[x] /\ lo[x] <= pos[x] /\ pos[x] <= hi[x] /\ hi[x] <= len
      /\ pos[y] > 0 /\ t.pParent[y] = x /\ lo[y] = lo[x] /\ hi[y] = pos[x] - 1
  BY <1>4 DEF NodeOK, ChildOK
<1>6. NodeOK(t, len, pos, lo, hi, y)
  BY <1>1, <1>2, <1>5
<1>7. /\ lo[y] <= pos[y] /\ pos[y] <= hi[y] /\ x # y
      /\ inner = Null => hi[y] = pos[y]
  BY <1>2, <1>3, <1>5, <1>6 DEF NodeOK, ChildOK
<1>8. inner # Null => /\ inner \in Procs /\ pos[inner] > 0 /\ t.pParent[inner] = y
                      /\ lo[inner] = pos[y] + 1 /\ hi[inner] = hi[y]
  BY <1>3, <1>6 DEF NodeOK, ChildOK, Ptr
<1>9. inner # Null => lo[inner] <= pos[inner] /\ pos[inner] <= hi[inner] /\ pos[inner] \in Nat
  BY <1>1, <1>8 DEF NodeOK
<1>10. inner # x /\ inner # y
  BY <1>1, <1>2, <1>3, <1>5, <1>7, <1>8, <1>9
<1>11. up = Null => x = t.root
  BY <1>4 DEF NodeOK
<1>12. ASSUME up # Null
       PROVE  /\ up \in Procs /\ pos[up] > 0 /\ up # x /\ up # y /\ up # inner
              /\ x = t.left[up] <=> ~(x = t.right[up])
  <2>1. up \in Procs /\ pos[up] > 0 /\ (x = t.left[up] \/ x = t.right[up])
    BY <1>3, <1>4, <1>12 DEF NodeOK, Ptr
  <2>2. /\ NodeOK(t, len, pos, lo, hi, up) /\ x # Null
        /\ pos[up] \in Nat /\ lo[up] \in Int /\ hi[up] \in Int
    BY <1>1, <2>1
  <2>3. \/ x = t.left[up] /\ lo[x] = lo[up] /\ hi[x] = pos[up] - 1
        \/ x = t.right[up] /\ lo[x] = pos[up] + 1 /\ hi[x] = hi[up]
    BY <2>1, <2>2 DEF NodeOK, ChildOK
  <2>4. up # x
    BY <1>2, <1>5, <2>2, <2>3
  <2>5. up # y
    BY <1>2, <1>3, <1>5, <1>7, <2>2, <2>3
  <2>6. up # inner
    BY <1>2, <1>3, <1>5, <1>7, <1>8, <1>9, <1>12, <2>2, <2>3
  <2>7. ~(x = t.left[up] /\ x = t.right[up])
    <3>1. x = t.left[up] => hi[x] = pos[up] - 1
      BY <2>2 DEF NodeOK, ChildOK
    <3>2. x = t.right[up] => lo[x] = pos[up] + 1
      BY <2>2 DEF NodeOK, ChildOK
    <3>3. QED
      BY <1>2, <1>5, <2>2, <3>1, <3>2
  <2>8. QED
    BY <2>1, <2>4, <2>5, <2>6, <2>7
<1>13. up # x /\ up # y
  BY <1>1, <1>2, <1>12
<1> HIDE DEF y, inner, up
<1>14. QED
  <2>1. /\ t.left[x] = y /\ t.right[y] = inner /\ t.pParent[x] = up
    BY DEF y, inner, up
  <2>2. QED
    BY <1>1, <1>2, <1>3, <1>5, <1>7, <1>8, <1>10, <1>11, <1>12, <1>13, <2>1 DEF RightTurn

\* The seats of the subtrees after a left rotation at x, above its child y.
LeftLo(pos, lo, x, y) == [lo EXCEPT ![y] = lo[x]]
LeftHi(pos, hi, x, y) == [hi EXCEPT ![x] = pos[y] - 1]

\* A left rotation keeps the shape.
LEMMA RotateLeftShape ==
  ASSUME NEW t, NEW len, NEW pos, NEW lo, NEW hi, Shape(t, len, pos, lo, hi),
         NEW x \in Procs, pos[x] > 0, t.right[x] # Null
  PROVE  /\ LeftRotated(t, rotateLeft(t, x), x) /\ rotateLeft(t, x).color = t.color
         /\ LeftTurn(t, len, pos, lo, hi, x)
         /\ Shape(rotateLeft(t, x), len, pos, LeftLo(pos, lo, x, t.right[x]), LeftHi(pos, hi, x, t.right[x]))
<1> DEFINE y == t.right[x]
           inner == t.left[y]
           up == t.pParent[x]
           r == rotateLeft(t, x)
           lo2 == LeftLo(pos, lo, x, y)
           hi2 == LeftHi(pos, hi, x, y)
<1>0. LeftTurn(t, len, pos, lo, hi, x)
  BY LeftTurnFacts
<1>1. /\ t \in Trees /\ len \in Nat
      /\ pos \in [Procs -> 0..len] /\ lo \in [Procs -> Int] /\ hi \in [Procs -> Int]
      /\ x \in Procs /\ y \in Procs /\ inner \in Ptr /\ up \in Ptr
      /\ pos[x] > 0 /\ pos[y] > 0 /\ t.pParent[y] = x /\ x # y /\ inner # x /\ inner # y
      /\ 1 <= lo[x] /\ lo[x] <= pos[x] /\ pos[x] <= hi[x] /\ hi[x] <= len
      /\ lo[y] <= pos[y] /\ pos[y] <= hi[y]
      /\ lo[y] = pos[x] + 1 /\ hi[y] = hi[x]
  BY <1>0 DEF LeftTurn
<1>2. /\ inner = Null => lo[y] = pos[y]
      /\ inner # Null => /\ inner \in Procs /\ pos[inner] > 0 /\ t.pParent[inner] = y
                         /\ lo[inner] = lo[y] /\ hi[inner] = pos[y] - 1
      /\ up # x /\ up # y /\ (up # Null => up # inner)
      /\ up = Null => x = t.root
      /\ up # Null => /\ up \in Procs /\ pos[up] > 0
                      /\ x = t.left[up] <=> ~(x = t.right[up])
  BY <1>0 DEF LeftTurn
<1>3. /\ \A m \in Procs : pos[m] > 0 => NodeOK(t, len, pos, lo, hi, m)
      /\ RootOK(t, len, pos, lo, hi)
  BY <1>0 DEF LeftTurn
<1>4. LeftRotated(t, r, x) /\ r.color = t.color
  BY <1>1, <1>2, RotateLeftFields
<1>5. /\ r \in Trees
      /\ r.root = IF up = Null THEN y ELSE t.root
      /\ \A m \in Procs :
           /\ r.left[m] = IF m = y THEN x
                          ELSE IF m = up /\ x = t.left[up] THEN y ELSE t.left[m]
           /\ r.right[m] = IF m = x THEN inner
                           ELSE IF m = up /\ x # t.left[up] THEN y ELSE t.right[m]
           /\ r.pParent[m] = IF m = x THEN y ELSE IF m = y THEN up
                             ELSE IF m = inner THEN x ELSE t.pParent[m]
  BY <1>4 DEF LeftRotated
<1>6. /\ lo2 \in [Procs -> Int] /\ hi2 \in [Procs -> Int]
      /\ \A m \in Procs : /\ lo2[m] = IF m = y THEN lo[x] ELSE lo[m]
                          /\ hi2[m] = IF m = x THEN pos[y] - 1 ELSE hi[m]
  BY <1>1 DEF LeftLo, LeftHi
<1>7. \A m \in Procs : /\ pos[m] \in Nat /\ lo[m] \in Int /\ hi[m] \in Int
                       /\ t.left[m] \in Ptr /\ t.right[m] \in Ptr /\ t.pParent[m] \in Ptr
                       /\ m # Null
  BY <1>1, NullAssumption DEF Trees
<1> HIDE DEF r, y, inner, up, lo2, hi2
<1>8. RootOK(r, len, pos, lo2, hi2)
  <2>0. t.root \in Ptr
    BY <1>1 DEF Trees
  <2>1. CASE up = Null
    <3>1. r.root = y /\ y # Null /\ r.pParent[y] = Null
      BY <1>1, <1>5, <1>7, <2>1
    <3>2. lo2[y] = lo[x] /\ hi2[y] = hi[x] /\ x = t.root
      BY <1>1, <1>2, <1>6, <2>1
    <3>3. lo[x] = 1 /\ hi[x] = len
      BY <1>3, <1>7, <3>2 DEF RootOK
    <3>4. QED
      BY <1>1, <3>1, <3>2, <3>3 DEF RootOK
  <2>2. CASE up # Null
    <3>1. r.root = t.root /\ t.root # Null => t.pParent[t.root] = Null /\ pos[t.root] > 0
      BY <1>3, <1>5, <2>2 DEF RootOK
    <3>2. t.root # x /\ t.root # y /\ (inner # Null => t.root # inner)
      BY <1>1, <1>2, <1>3, <1>7, <2>2 DEF RootOK, up
    <3>3. ASSUME t.root # Null
          PROVE  r.pParent[t.root] = Null /\ lo2[t.root] = lo[t.root] /\ hi2[t.root] = hi[t.root]
      BY <1>3, <1>5, <1>6, <2>0, <3>2, <3>3 DEF RootOK, Ptr
    <3>4. QED
      BY <1>3, <1>5, <2>2, <3>3 DEF RootOK
  <2>3. QED
    BY <2>1, <2>2
<1>9. ASSUME NEW m \in Procs, pos[m] > 0
      PROVE  IF r.pParent[m] = Null THEN m = r.root
             ELSE /\ pos[r.pParent[m]] > 0
                  /\ m = r.left[r.pParent[m]] \/ m = r.right[r.pParent[m]]
  <2>1. IF t.pParent[m] = Null THEN m = t.root
        ELSE /\ pos[t.pParent[m]] > 0
             /\ m = t.left[t.pParent[m]] \/ m = t.right[t.pParent[m]]
    BY <1>3, <1>9 DEF NodeOK
  <2>2. CASE m = x
    BY <1>1, <1>5, <1>7, <2>2
  <2>3. CASE m = y
    <3>1. r.pParent[m] = up
      BY <1>1, <1>5, <2>3
    <3>2. CASE up = Null
      BY <1>5, <2>3, <3>1, <3>2
    <3>3. CASE up # Null
      BY <1>2, <1>5, <2>3, <3>1, <3>3
    <3>4. QED
      BY <3>2, <3>3
  <2>4. CASE m = inner
    <3>1. r.pParent[m] = x /\ r.right[x] = m
      BY <1>1, <1>5, <2>4
    <3>2. QED
      BY <1>1, <1>7, <3>1
  <2>5. CASE m \notin {x, y, inner}
    <3>1. r.pParent[m] = t.pParent[m]
      BY <1>5, <2>5
    <3>2. CASE t.pParent[m] = Null
      BY <1>2, <1>5, <2>1, <2>5, <3>1, <3>2
    <3>3. CASE t.pParent[m] # Null
      <4>1. PICK q \in Procs : q = t.pParent[m]
        BY <1>7, <3>3 DEF Ptr
      <4>2. pos[q] > 0 /\ (m = t.left[q] \/ m = t.right[q])
        BY <2>1, <3>3, <4>1
      <4>3. m = r.left[q] \/ m = r.right[q]
        <5>1. CASE q = x
          BY <1>1, <1>2, <1>5, <2>5, <4>2, <5>1 DEF y
        <5>2. CASE q = y
          BY <1>1, <1>2, <1>5, <2>5, <4>2, <5>2 DEF inner
        <5>3. CASE q = up
          BY <1>1, <1>2, <1>5, <1>7, <2>5, <4>2, <5>3
        <5>4. CASE q \notin {x, y, up}
          BY <1>5, <4>2, <5>4
        <5>5. QED
          BY <5>1, <5>2, <5>3, <5>4
      <4>4. QED
        BY <1>7, <3>1, <4>1, <4>2, <4>3
    <3>4. QED
      BY <3>2, <3>3
  <2>6. QED
    BY <2>2, <2>3, <2>4, <2>5
\* The links of a child that is neither x, y nor the inner one stay.
<1>10. ASSUME NEW c \in Ptr, NEW n \in Procs, NEW l, NEW h, n # up, n # x, n # y,
              ChildOK(t, pos, lo, hi, c, n, l, h)
       PROVE  ChildOK(r, pos, lo2, hi2, c, n, l, h)
  <2>1. CASE c = Null
    BY <1>10, <2>1 DEF ChildOK
  <2>2. CASE c # Null
    <3>1. c \in Procs /\ t.pParent[c] = n /\ pos[c] > 0 /\ lo[c] = l /\ hi[c] = h
      BY <1>10, <2>2 DEF ChildOK, Ptr
    <3>2. c # x /\ c # y /\ c # inner
      BY <1>1, <1>2, <1>7, <1>10, <3>1 DEF up
    <3>3. QED
      BY <1>5, <1>6, <1>7, <3>1, <3>2 DEF ChildOK
  <2>3. QED
    BY <2>1, <2>2
<1>a. ASSUME NEW c \in Ptr, NEW n \in Procs, NEW l, NEW h, n # up, c # y, c # Null => c # inner,
              ChildOK(t, pos, lo, hi, c, n, l, h)
       PROVE  ChildOK(r, pos, lo2, hi2, c, n, l, h)
  <2>1. CASE c = Null
    BY <1>a, <2>1 DEF ChildOK
  <2>2. CASE c # Null
    <3>1. c \in Procs /\ t.pParent[c] = n /\ pos[c] > 0 /\ lo[c] = l /\ hi[c] = h
      BY <1>a, <2>2 DEF ChildOK, Ptr
    <3>2. c # x
      BY <1>a, <3>1 DEF up
    <3>3. QED
      BY <1>5, <1>6, <1>a, <3>1, <3>2 DEF ChildOK
  <2>3. QED
    BY <2>1, <2>2
<1>11. ASSUME NEW m \in Procs, pos[m] > 0
       PROVE  /\ 1 <= lo2[m] /\ lo2[m] <= pos[m] /\ pos[m] <= hi2[m] /\ hi2[m] <= len
              /\ ChildOK(r, pos, lo2, hi2, r.left[m], m, lo2[m], pos[m] - 1)
              /\ ChildOK(r, pos, lo2, hi2, r.right[m], m, pos[m] + 1, hi2[m])
  <2>1. /\ 1 <= lo[m] /\ lo[m] <= pos[m] /\ pos[m] <= hi[m] /\ hi[m] <= len
        /\ ChildOK(t, pos, lo, hi, t.left[m], m, lo[m], pos[m] - 1)
        /\ ChildOK(t, pos, lo, hi, t.right[m], m, pos[m] + 1, hi[m])
    BY <1>3, <1>11 DEF NodeOK
  <2>2. 1 <= lo2[m] /\ lo2[m] <= pos[m] /\ pos[m] <= hi2[m] /\ hi2[m] <= len
    BY <1>1, <1>6, <1>7, <2>1
  <2>3. CASE m = x
    <3>1. /\ r.right[m] = inner /\ r.left[m] = t.left[m] /\ t.left[m] # y
          /\ t.left[m] # Null => t.left[m] # inner
      <4>1. r.right[m] = inner /\ r.left[m] = t.left[m]
        BY <1>1, <1>2, <1>5, <2>3
      <4>2. t.left[m] # y
        BY <1>1, <1>7, <2>1, <2>3 DEF ChildOK
      <4>3. inner # Null => t.left[m] # inner
        BY <1>1, <1>2, <1>7, <2>1, <2>3 DEF ChildOK
      <4>4. QED
        BY <4>1, <4>2, <4>3
    <3>2. ChildOK(r, pos, lo2, hi2, r.left[m], m, lo2[m], pos[m] - 1)
      BY <1>1, <1>2, <1>6, <1>7, <1>a, <2>1, <2>3, <3>1
    <3>3. ChildOK(r, pos, lo2, hi2, r.right[m], m, pos[m] + 1, hi2[m])
      BY <1>1, <1>2, <1>5, <1>6, <1>7, <2>3, <3>1 DEF ChildOK
    <3>4. QED
      BY <2>2, <3>2, <3>3
  <2>4. CASE m = y
    <3>1. r.left[m] = x /\ r.right[m] = t.right[m] /\ t.right[m] # y
      BY <1>1, <1>2, <1>5, <1>7, <2>1, <2>4 DEF ChildOK
    <3>2. t.right[m] # Null => t.right[m] # inner
      BY <1>1, <1>2, <1>7, <2>1, <2>4 DEF ChildOK
    <3>3. ChildOK(r, pos, lo2, hi2, r.left[m], m, lo2[m], pos[m] - 1)
      BY <1>1, <1>2, <1>5, <1>6, <1>7, <2>4, <3>1 DEF ChildOK
    <3>4. ChildOK(r, pos, lo2, hi2, r.right[m], m, pos[m] + 1, hi2[m])
      <4>1. hi2[m] = hi[m] /\ m # up /\ t.right[m] \in Ptr
        BY <1>1, <1>2, <1>6, <1>7, <2>4
      <4>2. QED
        BY <1>a, <2>1, <3>1, <3>2, <4>1
    <3>5. QED
      BY <2>2, <3>3, <3>4
  <2>5. CASE m = up
    <3>0. lo2[m] = lo[m] /\ hi2[m] = hi[m] /\ m # x /\ m # y /\ x # Null
      BY <1>1, <1>2, <1>6, <1>7, <2>5
    <3>1. ChildOK(r, pos, lo2, hi2, r.left[m], m, lo[m], pos[m] - 1)
      <4>1. CASE t.left[m] = x
        <5>1. r.left[m] = y /\ lo[x] = lo[m] /\ hi[x] = pos[m] - 1
          BY <1>5, <2>1, <2>5, <3>0, <4>1 DEF ChildOK
        <5>2. lo2[y] = lo[x] /\ hi2[y] = hi[x] /\ r.pParent[y] = m /\ y # Null
          BY <1>1, <1>5, <1>6, <1>7, <2>5
        <5>3. QED
          BY <1>1, <5>1, <5>2 DEF ChildOK
      <4>2. CASE t.left[m] # x
        <5>1. r.left[m] = t.left[m]
          BY <1>5, <2>5, <3>0, <4>2
        <5>2. t.left[m] # Null =>
                t.left[m] \in Procs /\ t.left[m] \notin {x, y, inner} /\ t.pParent[t.left[m]] = m
          BY <1>1, <1>2, <1>7, <2>1, <2>5, <4>2 DEF ChildOK, Ptr
        <5>3. QED
          BY <1>5, <1>6, <2>1, <5>1, <5>2 DEF ChildOK
      <4>3. QED
        BY <4>1, <4>2
    <3>2. ChildOK(r, pos, lo2, hi2, r.right[m], m, pos[m] + 1, hi[m])
      <4>1. CASE t.right[m] = x
        <5>1. r.right[m] = y /\ lo[x] = pos[m] + 1 /\ hi[x] = hi[m]
          BY <1>2, <1>5, <1>7, <2>1, <2>5, <3>0, <4>1 DEF ChildOK
        <5>2. lo2[y] = lo[x] /\ hi2[y] = hi[x] /\ r.pParent[y] = m /\ y # Null
          BY <1>1, <1>5, <1>6, <1>7, <2>5
        <5>3. QED
          BY <1>1, <5>1, <5>2 DEF ChildOK
      <4>2. CASE t.right[m] # x
        <5>1. r.right[m] = t.right[m]
          BY <1>2, <1>5, <1>7, <2>5, <3>0, <4>2
        <5>2. t.right[m] # Null =>
                t.right[m] \in Procs /\ t.right[m] \notin {x, y, inner} /\ t.pParent[t.right[m]] = m
          BY <1>1, <1>2, <1>7, <2>1, <2>5, <4>2 DEF ChildOK, Ptr
        <5>3. QED
          BY <1>5, <1>6, <2>1, <5>1, <5>2 DEF ChildOK
      <4>3. QED
        BY <4>1, <4>2
    <3>3. QED
      BY <2>2, <3>0, <3>1, <3>2
  <2>6. CASE m \notin {x, y, up}
    <3>1. r.left[m] = t.left[m] /\ r.right[m] = t.right[m] /\ lo2[m] = lo[m] /\ hi2[m] = hi[m]
      BY <1>5, <1>6, <2>6
    <3>2. QED
      BY <1>7, <1>10, <2>1, <2>2, <2>6, <3>1
  <2>7. QED
    BY <2>3, <2>4, <2>5, <2>6
<1>12. ASSUME NEW m \in Procs, pos[m] > 0
       PROVE  NodeOK(r, len, pos, lo2, hi2, m)
  BY <1>9, <1>11, <1>12 DEF NodeOK
<1>13. Shape(r, len, pos, lo2, hi2)
  BY <1>1, <1>5, <1>6, <1>8, <1>12 DEF Shape
<1>14. QED
  BY <1>0, <1>4, <1>13 DEF r, lo2, hi2, y

\* The seats of the subtrees after a right rotation at x, above its child y.
RightLo(pos, lo, x, y) == [lo EXCEPT ![x] = pos[y] + 1]
RightHi(pos, hi, x, y) == [hi EXCEPT ![y] = hi[x]]

\* A right rotation keeps the shape.
LEMMA RotateRightShape ==
  ASSUME NEW t, NEW len, NEW pos, NEW lo, NEW hi, Shape(t, len, pos, lo, hi),
         NEW x \in Procs, pos[x] > 0, t.left[x] # Null
  PROVE  /\ RightRotated(t, rotateRight(t, x), x) /\ rotateRight(t, x).color = t.color
         /\ RightTurn(t, len, pos, lo, hi, x)
         /\ Shape(rotateRight(t, x), len, pos, RightLo(pos, lo, x, t.left[x]), RightHi(pos, hi, x, t.left[x]))
<1> DEFINE y == t.left[x]
           inner == t.right[y]
           up == t.pParent[x]
           r == rotateRight(t, x)
           lo2 == RightLo(pos, lo, x, y)
           hi2 == RightHi(pos, hi, x, y)
<1>0. RightTurn(t, len, pos, lo, hi, x)
  BY RightTurnFacts
<1>1. /\ t \in Trees /\ len \in Nat
      /\ pos \in [Procs -> 0..len] /\ lo \in [Procs -> Int] /\ hi \in [Procs -> Int]
      /\ x \in Procs /\ y \in Procs /\ inner \in Ptr /\ up \in Ptr
      /\ pos[x] > 0 /\ pos[y] > 0 /\ t.pParent[y] = x /\ x # y /\ inner # x /\ inner # y
      /\ 1 <= lo[x] /\ lo[x] <= pos[x] /\ pos[x] <= hi[x] /\ hi[x] <= len
      /\ lo[y] <= pos[y] /\ pos[y] <= hi[y]
      /\ lo[y] = lo[x] /\ hi[y] = pos[x] - 1
  BY <1>0 DEF RightTurn
<1>2. /\ inner = Null => hi[y] = pos[y]
      /\ inner # Null => /\ inner \in Procs /\ pos[inner] > 0 /\ t.pParent[inner] = y
                         /\ lo[inner] = pos[y] + 1 /\ hi[inner] = hi[y]
      /\ up # x /\ up # y /\ (up # Null => up # inner)
      /\ up = Null => x = t.root
      /\ up # Null => /\ up \in Procs /\ pos[up] > 0
                      /\ x = t.left[up] <=> ~(x = t.right[up])
  BY <1>0 DEF RightTurn
<1>3. /\ \A m \in Procs : pos[m] > 0 => NodeOK(t, len, pos, lo, hi, m)
      /\ RootOK(t, len, pos, lo, hi)
  BY <1>0 DEF RightTurn
<1>4. RightRotated(t, r, x) /\ r.color = t.color
  BY <1>1, <1>2, RotateRightFields
<1>5. /\ r \in Trees
      /\ r.root = IF up = Null THEN y ELSE t.root
      /\ \A m \in Procs :
           /\ r.left[m] = IF m = x THEN inner
                          ELSE IF m = up /\ x = t.left[up] THEN y ELSE t.left[m]
           /\ r.right[m] = IF m = y THEN x
                           ELSE IF m = up /\ x # t.left[up] THEN y ELSE t.right[m]
           /\ r.pParent[m] = IF m = x THEN y ELSE IF m = y THEN up
                             ELSE IF m = inner THEN x ELSE t.pParent[m]
  BY <1>4 DEF RightRotated
<1>6. /\ lo2 \in [Procs -> Int] /\ hi2 \in [Procs -> Int]
      /\ \A m \in Procs : /\ lo2[m] = IF m = x THEN pos[y] + 1 ELSE lo[m]
                          /\ hi2[m] = IF m = y THEN hi[x] ELSE hi[m]
  BY <1>1 DEF RightLo, RightHi
<1>7. \A m \in Procs : /\ pos[m] \in Nat /\ lo[m] \in Int /\ hi[m] \in Int
                       /\ t.left[m] \in Ptr /\ t.right[m] \in Ptr /\ t.pParent[m] \in Ptr
                       /\ m # Null
  BY <1>1, NullAssumption DEF Trees
<1> HIDE DEF r, y, inner, up, lo2, hi2
<1>8. RootOK(r, len, pos, lo2, hi2)
  <2>0. t.root \in Ptr
    BY <1>1 DEF Trees
  <2>1. CASE up = Null
    <3>1. r.root = y /\ y # Null /\ r.pParent[y] = Null
      BY <1>1, <1>5, <1>7, <2>1
    <3>2. lo2[y] = lo[x] /\ hi2[y] = hi[x] /\ x = t.root
      BY <1>1, <1>2, <1>6, <2>1
    <3>3. lo[x] = 1 /\ hi[x] = len
      BY <1>3, <1>7, <3>2 DEF RootOK
    <3>4. QED
      BY <1>1, <3>1, <3>2, <3>3 DEF RootOK
  <2>2. CASE up # Null
    <3>1. r.root = t.root /\ t.root # Null => t.pParent[t.root] = Null /\ pos[t.root] > 0
      BY <1>3, <1>5, <2>2 DEF RootOK
    <3>2. t.root # x /\ t.root # y /\ (inner # Null => t.root # inner)
      BY <1>1, <1>2, <1>3, <1>7, <2>2 DEF RootOK, up
    <3>3. ASSUME t.root # Null
          PROVE  r.pParent[t.root] = Null /\ lo2[t.root] = lo[t.root] /\ hi2[t.root] = hi[t.root]
      BY <1>3, <1>5, <1>6, <2>0, <3>2, <3>3 DEF RootOK, Ptr
    <3>4. QED
      BY <1>3, <1>5, <2>2, <3>3 DEF RootOK
  <2>3. QED
    BY <2>1, <2>2
<1>9. ASSUME NEW m \in Procs, pos[m] > 0
      PROVE  IF r.pParent[m] = Null THEN m = r.root
             ELSE /\ pos[r.pParent[m]] > 0
                  /\ m = r.left[r.pParent[m]] \/ m = r.right[r.pParent[m]]
  <2>1. IF t.pParent[m] = Null THEN m = t.root
        ELSE /\ pos[t.pParent[m]] > 0
             /\ m = t.left[t.pParent[m]] \/ m = t.right[t.pParent[m]]
    BY <1>3, <1>9 DEF NodeOK
  <2>2. CASE m = x
    BY <1>1, <1>5, <1>7, <2>2
  <2>3. CASE m = y
    <3>1. r.pParent[m] = up
      BY <1>1, <1>5, <2>3
    <3>2. CASE up = Null
      BY <1>5, <2>3, <3>1, <3>2
    <3>3. CASE up # Null
      BY <1>2, <1>5, <2>3, <3>1, <3>3
    <3>4. QED
      BY <3>2, <3>3
  <2>4. CASE m = inner
    <3>1. r.pParent[m] = x /\ r.left[x] = m
      BY <1>1, <1>5, <2>4
    <3>2. QED
      BY <1>1, <1>7, <3>1
  <2>5. CASE m \notin {x, y, inner}
    <3>1. r.pParent[m] = t.pParent[m]
      BY <1>5, <2>5
    <3>2. CASE t.pParent[m] = Null
      BY <1>2, <1>5, <2>1, <2>5, <3>1, <3>2
    <3>3. CASE t.pParent[m] # Null
      <4>1. PICK q \in Procs : q = t.pParent[m]
        BY <1>7, <3>3 DEF Ptr
      <4>2. pos[q] > 0 /\ (m = t.left[q] \/ m = t.right[q])
        BY <2>1, <3>3, <4>1
      <4>3. m = r.left[q] \/ m = r.right[q]
        <5>1. CASE q = x
          BY <1>1, <1>2, <1>5, <2>5, <4>2, <5>1 DEF y
        <5>2. CASE q = y
          BY <1>1, <1>2, <1>5, <2>5, <4>2, <5>2 DEF inner
        <5>3. CASE q = up
          BY <1>1, <1>2, <1>5, <1>7, <2>5, <4>2, <5>3
        <5>4. CASE q \notin {x, y, up}
          BY <1>5, <4>2, <5>4
        <5>5. QED
          BY <5>1, <5>2, <5>3, <5>4
      <4>4. QED
        BY <1>7, <3>1, <4>1, <4>2, <4>3
    <3>4. QED
      BY <3>2, <3>3
  <2>6. QED
    BY <2>2, <2>3, <2>4, <2>5
\* The links of a child that is neither x, y nor the inner one stay.
<1>10. ASSUME NEW c \in Ptr, NEW n \in Procs, NEW l, NEW h, n # up, n # x, n # y,
              ChildOK(t, pos, lo, hi, c, n, l, h)
       PROVE  ChildOK(r, pos, lo2, hi2, c, n, l, h)
  <2>1. CASE c = Null
    BY <1>10, <2>1 DEF ChildOK
  <2>2. CASE c # Null
    <3>1. c \in Procs /\ t.pParent[c] = n /\ pos[c] > 0 /\ lo[c] = l /\ hi[c] = h
      BY <1>10, <2>2 DEF ChildOK, Ptr
    <3>2. c # x /\ c # y /\ c # inner
      BY <1>1, <1>2, <1>7, <1>10, <3>1 DEF up
    <3>3. QED
      BY <1>5, <1>6, <1>7, <3>1, <3>2 DEF ChildOK
  <2>3. QED
    BY <2>1, <2>2
<1>a. ASSUME NEW c \in Ptr, NEW n \in Procs, NEW l, NEW h, n # up, c # y, c # Null => c # inner,
              ChildOK(t, pos, lo, hi, c, n, l, h)
       PROVE  ChildOK(r, pos, lo2, hi2, c, n, l, h)
  <2>1. CASE c = Null
    BY <1>a, <2>1 DEF ChildOK
  <2>2. CASE c # Null
    <3>1. c \in Procs /\ t.pParent[c] = n /\ pos[c] > 0 /\ lo[c] = l /\ hi[c] = h
      BY <1>a, <2>2 DEF ChildOK, Ptr
    <3>2. c # x
      BY <1>a, <3>1 DEF up
    <3>3. QED
      BY <1>5, <1>6, <1>a, <3>1, <3>2 DEF ChildOK
  <2>3. QED
    BY <2>1, <2>2
<1>11. ASSUME NEW m \in Procs, pos[m] > 0
       PROVE  /\ 1 <= lo2[m] /\ lo2[m] <= pos[m] /\ pos[m] <= hi2[m] /\ hi2[m] <= len
              /\ ChildOK(r, pos, lo2, hi2, r.left[m], m, lo2[m], pos[m] - 1)
              /\ ChildOK(r, pos, lo2, hi2, r.right[m], m, pos[m] + 1, hi2[m])
  <2>1. /\ 1 <= lo[m] /\ lo[m] <= pos[m] /\ pos[m] <= hi[m] /\ hi[m] <= len
        /\ ChildOK(t, pos, lo, hi, t.left[m], m, lo[m], pos[m] - 1)
        /\ ChildOK(t, pos, lo, hi, t.right[m], m, pos[m] + 1, hi[m])
    BY <1>3, <1>11 DEF NodeOK
  <2>2. 1 <= lo2[m] /\ lo2[m] <= pos[m] /\ pos[m] <= hi2[m] /\ hi2[m] <= len
    BY <1>1, <1>6, <1>7, <2>1
  <2>3. CASE m = x
    <3>1. /\ r.left[m] = inner /\ r.right[m] = t.right[m] /\ t.right[m] # y
          /\ t.right[m] # Null => t.right[m] # inner
      <4>1. r.left[m] = inner /\ r.right[m] = t.right[m]
        BY <1>1, <1>2, <1>5, <2>3
      <4>2. t.right[m] # y
        BY <1>1, <1>7, <2>1, <2>3 DEF ChildOK
      <4>3. inner # Null => t.right[m] # inner
        BY <1>1, <1>2, <1>7, <2>1, <2>3 DEF ChildOK
      <4>4. QED
        BY <4>1, <4>2, <4>3
    <3>2. ChildOK(r, pos, lo2, hi2, r.right[m], m, pos[m] + 1, hi2[m])
      BY <1>1, <1>2, <1>6, <1>7, <1>a, <2>1, <2>3, <3>1
    <3>3. ChildOK(r, pos, lo2, hi2, r.left[m], m, lo2[m], pos[m] - 1)
      BY <1>1, <1>2, <1>5, <1>6, <1>7, <2>3, <3>1 DEF ChildOK
    <3>4. QED
      BY <2>2, <3>2, <3>3
  <2>4. CASE m = y
    <3>1. r.right[m] = x /\ r.left[m] = t.left[m] /\ t.left[m] # y
      BY <1>1, <1>2, <1>5, <1>7, <2>1, <2>4 DEF ChildOK
    <3>2. t.left[m] # Null => t.left[m] # inner
      BY <1>1, <1>2, <1>7, <2>1, <2>4 DEF ChildOK
    <3>3. ChildOK(r, pos, lo2, hi2, r.right[m], m, pos[m] + 1, hi2[m])
      BY <1>1, <1>2, <1>5, <1>6, <1>7, <2>4, <3>1 DEF ChildOK
    <3>4. ChildOK(r, pos, lo2, hi2, r.left[m], m, lo2[m], pos[m] - 1)
      <4>1. lo2[m] = lo[m] /\ m # up /\ t.left[m] \in Ptr
        BY <1>1, <1>2, <1>6, <1>7, <2>4
      <4>2. QED
        BY <1>a, <2>1, <3>1, <3>2, <4>1
    <3>5. QED
      BY <2>2, <3>3, <3>4
  <2>5. CASE m = up
    <3>0. lo2[m] = lo[m] /\ hi2[m] = hi[m] /\ m # x /\ m # y /\ x # Null
      BY <1>1, <1>2, <1>6, <1>7, <2>5
    <3>1. ChildOK(r, pos, lo2, hi2, r.left[m], m, lo[m], pos[m] - 1)
      <4>1. CASE t.left[m] = x
        <5>1. r.left[m] = y /\ lo[x] = lo[m] /\ hi[x] = pos[m] - 1
          BY <1>5, <2>1, <2>5, <3>0, <4>1 DEF ChildOK
        <5>2. lo2[y] = lo[x] /\ hi2[y] = hi[x] /\ r.pParent[y] = m /\ y # Null
          BY <1>1, <1>5, <1>6, <1>7, <2>5
        <5>3. QED
          BY <1>1, <5>1, <5>2 DEF ChildOK
      <4>2. CASE t.left[m] # x
        <5>1. r.left[m] = t.left[m]
          BY <1>5, <2>5, <3>0, <4>2
        <5>2. t.left[m] # Null =>
                t.left[m] \in Procs /\ t.left[m] \notin {x, y, inner} /\ t.pParent[t.left[m]] = m
          BY <1>1, <1>2, <1>7, <2>1, <2>5, <4>2 DEF ChildOK, Ptr
        <5>3. QED
          BY <1>5, <1>6, <2>1, <5>1, <5>2 DEF ChildOK
      <4>3. QED
        BY <4>1, <4>2
    <3>2. ChildOK(r, pos, lo2, hi2, r.right[m], m, pos[m] + 1, hi[m])
      <4>1. CASE t.right[m] = x
        <5>1. r.right[m] = y /\ lo[x] = pos[m] + 1 /\ hi[x] = hi[m]
          BY <1>2, <1>5, <1>7, <2>1, <2>5, <3>0, <4>1 DEF ChildOK
        <5>2. lo2[y] = lo[x] /\ hi2[y] = hi[x] /\ r.pParent[y] = m /\ y # Null
          BY <1>1, <1>5, <1>6, <1>7, <2>5
        <5>3. QED
          BY <1>1, <5>1, <5>2 DEF ChildOK
      <4>2. CASE t.right[m] # x
        <5>1. r.right[m] = t.right[m]
          BY <1>2, <1>5, <1>7, <2>5, <3>0, <4>2
        <5>2. t.right[m] # Null =>
                t.right[m] \in Procs /\ t.right[m] \notin {x, y, inner} /\ t.pParent[t.right[m]] = m
          BY <1>1, <1>2, <1>7, <2>1, <2>5, <4>2 DEF ChildOK, Ptr
        <5>3. QED
          BY <1>5, <1>6, <2>1, <5>1, <5>2 DEF ChildOK
      <4>3. QED
        BY <4>1, <4>2
    <3>3. QED
      BY <2>2, <3>0, <3>1, <3>2
  <2>6. CASE m \notin {x, y, up}
    <3>1. r.left[m] = t.left[m] /\ r.right[m] = t.right[m] /\ lo2[m] = lo[m] /\ hi2[m] = hi[m]
      BY <1>5, <1>6, <2>6
    <3>2. QED
      BY <1>7, <1>10, <2>1, <2>2, <2>6, <3>1
  <2>7. QED
    BY <2>3, <2>4, <2>5, <2>6
<1>12. ASSUME NEW m \in Procs, pos[m] > 0
       PROVE  NodeOK(r, len, pos, lo2, hi2, m)
  BY <1>9, <1>11, <1>12 DEF NodeOK
<1>13. Shape(r, len, pos, lo2, hi2)
  BY <1>1, <1>5, <1>6, <1>8, <1>12 DEF Shape
<1>14. QED
  BY <1>0, <1>4, <1>13 DEF r, lo2, hi2, y

-----------------------------------------------------------------------------
(* Painting, and what a rotation leaves alone.                             *)

\* r is t in other colours.
Recoloured(t, r) ==
  /\ r \in Trees /\ r.root = t.root
  /\ r.left = t.left /\ r.right = t.right /\ r.pParent = t.pParent

\* Painting keeps the layout.
LEMMA RecolouredLayout ==
  ASSUME NEW t, NEW r, NEW s, NEW pos, NEW lo, NEW hi, NEW p,
         Layout(t, s, pos, lo, hi, p), Recoloured(t, r)
  PROVE  Layout(r, s, pos, lo, hi, p)
<1>1. ASSUME NEW n \in Procs, NodeOK(t, Len(s), pos, lo, hi, n)
      PROVE  NodeOK(r, Len(s), pos, lo, hi, n)
  BY <1>1 DEF NodeOK, ChildOK, Recoloured
<1>2. Shape(r, Len(s), pos, lo, hi)
  <2>1. RootOK(r, Len(s), pos, lo, hi)
    BY DEF Layout, Shape, RootOK, Recoloured
  <2>2. QED
    BY <1>1, <2>1 DEF Layout, Shape, Recoloured
<1>3. Outside(r, pos, p)
  BY DEF Layout, Outside, Recoloured
<1>4. QED
  BY <1>2, <1>3 DEF Layout

\* A left rotation keeps the layout, whatever has been painted before it.
LEMMA LeftTurnLayout ==
  ASSUME NEW t, NEW q, NEW s, NEW pos, NEW lo, NEW hi, NEW p,
         Layout(t, s, pos, lo, hi, p), Recoloured(t, q),
         NEW x \in Procs, pos[x] > 0, t.right[x] # Null
  PROVE  /\ Layout(rotateLeft(q, x), s, pos, LeftLo(pos, lo, x, t.right[x]), LeftHi(pos, hi, x, t.right[x]), p)
         /\ LeftRotated(t, rotateLeft(q, x), x) /\ rotateLeft(q, x).color = q.color
         /\ LeftTurn(t, Len(s), pos, lo, hi, x)
<1> DEFINE r == rotateLeft(q, x)
<1>1. Layout(q, s, pos, lo, hi, p) /\ Shape(q, Len(s), pos, lo, hi) /\ q.right[x] # Null
  BY RecolouredLayout DEF Layout, Recoloured
<1>2. /\ LeftRotated(q, r, x) /\ r.color = q.color
      /\ Shape(r, Len(s), pos, LeftLo(pos, lo, x, q.right[x]), LeftHi(pos, hi, x, q.right[x]))
  BY <1>1, RotateLeftShape
<1>3. LeftTurn(t, Len(s), pos, lo, hi, x)
  BY LeftTurnFacts DEF Layout
<1> HIDE DEF r
<1>4. q.root = t.root /\ q.left = t.left /\ q.right = t.right /\ q.pParent = t.pParent
  BY DEF Recoloured
<1>5. LeftRotated(t, r, x)
  BY <1>2, <1>4 DEF LeftRotated
<1>6. Outside(r, pos, p)
  <2> SUFFICES ASSUME NEW n \in Procs, pos[n] = 0
               PROVE  /\ r.left[n] = Null
                      /\ r.right[n] # Null => n = p /\ pos[r.right[n]] > 0
                      /\ r.pParent[n] # Null => n = p /\ pos[r.pParent[n]] > 0
    BY DEF Outside
  <2>1. /\ t.left[n] = Null
        /\ t.right[n] # Null => n = p /\ pos[t.right[n]] > 0
        /\ t.pParent[n] # Null => n = p /\ pos[t.pParent[n]] > 0
    BY DEF Layout, Outside
  <2>2. /\ n # x /\ n # t.right[x] /\ n # t.pParent[x] /\ n # t.left[t.right[x]]
    <3>1. n # x /\ n # t.right[x] /\ n # Null
      BY <1>3, NullAssumption DEF LeftTurn
    <3>2. n # t.pParent[x]
      BY <1>3, <3>1 DEF LeftTurn
    <3>3. n # t.left[t.right[x]]
      BY <1>3, <3>1 DEF LeftTurn
    <3>4. QED
      BY <3>1, <3>2, <3>3
  <2>3. r.left[n] = t.left[n] /\ r.right[n] = t.right[n] /\ r.pParent[n] = t.pParent[n]
    BY <1>5, <2>2 DEF LeftRotated
  <2>4. QED
    BY <2>1, <2>3
<1>7. QED
  BY <1>2, <1>3, <1>4, <1>5, <1>6 DEF Layout, r

\* The nodes whose children a left rotation at x leaves alone.
LEMMA LeftTurnApart ==
  ASSUME NEW t, NEW r, NEW len, NEW pos, NEW lo, NEW hi, NEW x,
         LeftTurn(t, len, pos, lo, hi, x), LeftRotated(t, r, x),
         NEW e \in Ptr, e # Null => t.pParent[e] \in {x, t.right[x]},
         NEW m \in Procs, pos[m] > 0, m \notin {x, t.right[x]}, NEW c \in Ptr, c # Null
  PROVE  /\ c = t.left[m] => c \notin {t.right[x], e} /\ t.pParent[c] = m
         /\ c = t.right[m] => c \notin {t.right[x], e} /\ t.pParent[c] = m
         /\ r.left[m] = IF t.left[m] = x THEN t.right[x] ELSE t.left[m]
         /\ r.right[m] = IF t.right[m] = x THEN t.right[x] ELSE t.right[m]
<1>1. NodeOK(t, len, pos, lo, hi, m) /\ x # Null /\ m # Null
  BY NullAssumption DEF LeftTurn
<1>2. /\ c = t.left[m] => t.pParent[c] = m
      /\ c = t.right[m] => t.pParent[c] = m
  BY <1>1 DEF NodeOK, ChildOK
<1>3. t.pParent[t.right[x]] = x /\ m # x
  BY DEF LeftTurn
<1>4. /\ t.left[m] = x => m = t.pParent[x]
      /\ t.right[m] = x => m = t.pParent[x]
  BY <1>1 DEF NodeOK, ChildOK
<1>5. /\ t.pParent[x] = m => (x = t.left[m] <=> ~(x = t.right[m]))
  BY <1>1 DEF LeftTurn
<1>6. /\ r.left[m] = IF m = t.pParent[x] /\ x = t.left[t.pParent[x]] THEN t.right[x] ELSE t.left[m]
      /\ r.right[m] = IF m = t.pParent[x] /\ x # t.left[t.pParent[x]] THEN t.right[x] ELSE t.right[m]
  BY DEF LeftRotated
<1>7. QED
  BY <1>2, <1>3, <1>4, <1>5, <1>6

\* Only x, its child y and a child e of theirs change colour or height.
LeftHeights(t, r, x, e, bh, d, bh2, d2) ==
  LET y == t.right[x]
  IN  /\ e \in Ptr /\ (e # Null => t.pParent[e] \in {x, y})
      /\ bh2 \in [Ptr -> Nat] /\ bh2[Null] = 0 /\ bh2[y] = bh[x]
      /\ \A m \in Procs \ {x, y, e} :
           bh2[m] = bh[m] /\ r.color[m] = t.color[m] /\ Lacks(m, d2) = Lacks(m, d)
      /\ HeightOK(r, bh2, d2, x) /\ HeightOK(r, bh2, d2, y)
      /\ e # Null => HeightOK(r, bh2, d2, e)

\* Only they change colour, and y is not a new red child.
LeftRed(t, r, x, e, b, b2) ==
  LET y == t.right[x]
  IN  /\ e \in Ptr /\ (e # Null => t.pParent[e] \in {x, y})
      /\ b = b2 \/ t.pParent[b] \in {x, y}
      /\ \A m \in Procs \ {x, y, e} : r.color[m] = t.color[m]
      /\ r.color[y] = RED => t.color[x] = RED /\ x # b
      /\ RedOK(r, Null, b2, x) /\ RedOK(r, Null, b2, y)
      /\ e # Null => RedOK(r, Null, b2, e)

\* The black heights after a left rotation at x, when only x, its child y and a
\* child e of theirs change colour or height.
LEMMA LeftTurnHeights ==
  ASSUME NEW t, NEW r, NEW len, NEW pos, NEW lo, NEW hi, NEW x,
         LeftTurn(t, len, pos, lo, hi, x), LeftRotated(t, r, x),
         NEW e, NEW bh, NEW d, NEW bh2, NEW d2, Heights(t, pos, bh, d),
         LeftHeights(t, r, x, e, bh, d, bh2, d2)
  PROVE  Heights(r, pos, bh2, d2)
<1> USE DEF LeftHeights
<1> SUFFICES ASSUME NEW m \in Procs, pos[m] > 0, m \notin {x, t.right[x], e}
             PROVE  HeightOK(r, bh2, d2, m)
  BY NullAssumption DEF Heights
<1>1. HeightOK(t, bh, d, m) /\ bh[Null] = 0
  BY DEF Heights
<1>2. t.left[m] \in Ptr /\ t.right[m] \in Ptr /\ x # Null /\ x # t.right[x]
  BY NullAssumption DEF LeftTurn, Trees
<1>3. x \in Ptr
  BY DEF LeftTurn, Ptr
<1>4. bh2[r.left[m]] = bh[t.left[m]]
  <2>1. CASE t.left[m] = Null
    <3>1. r.left[m] = Null
      BY <1>2, <1>3, <2>1, LeftTurnApart
    <3>2. QED
      BY <1>1, <2>1, <3>1
  <2>2. CASE t.left[m] = x
    <3>1. r.left[m] = t.right[x]
      BY <1>2, <1>3, <2>2, LeftTurnApart
    <3>2. QED
      BY <2>2, <3>1
  <2>3. CASE t.left[m] \notin {Null, x}
    <3>1. r.left[m] = t.left[m] /\ t.left[m] \notin {t.right[x], e}
      BY <1>2, <2>3, LeftTurnApart
    <3>2. QED
      BY <1>2, <2>3, <3>1 DEF Ptr
  <2>4. QED
    BY <2>1, <2>2, <2>3
<1>5. bh2[r.right[m]] = bh[t.right[m]]
  <2>1. CASE t.right[m] = Null
    <3>1. r.right[m] = Null
      BY <1>2, <1>3, <2>1, LeftTurnApart
    <3>2. QED
      BY <1>1, <2>1, <3>1
  <2>2. CASE t.right[m] = x
    <3>1. r.right[m] = t.right[x]
      BY <1>2, <1>3, <2>2, LeftTurnApart
    <3>2. QED
      BY <2>2, <3>1
  <2>3. CASE t.right[m] \notin {Null, x}
    <3>1. r.right[m] = t.right[m] /\ t.right[m] \notin {t.right[x], e}
      BY <1>2, <2>3, LeftTurnApart
    <3>2. QED
      BY <1>2, <2>3, <3>1 DEF Ptr
  <2>4. QED
    BY <2>1, <2>2, <2>3
<1>6. bh2[m] = bh[m] /\ BlackBit(r, m) = BlackBit(t, m) /\ Lacks(m, d2) = Lacks(m, d)
  BY DEF BlackBit
<1>7. QED
  BY <1>1, <1>4, <1>5, <1>6 DEF HeightOK

\* The red rule after a left rotation at x, when only x, its child y and a
\* child e of theirs change colour.
LEMMA LeftTurnRed ==
  ASSUME NEW t, NEW r, NEW len, NEW pos, NEW lo, NEW hi, NEW x,
         LeftTurn(t, len, pos, lo, hi, x), LeftRotated(t, r, x),
         NEW e, NEW b, NEW b2, RedRule(t, pos, Null, b), LeftRed(t, r, x, e, b, b2)
  PROVE  RedRule(r, pos, Null, b2)
<1> USE DEF LeftRed
<1> SUFFICES ASSUME NEW m \in Procs, pos[m] > 0, m \notin {x, t.right[x], e}, r.color[m] = RED
             PROVE  /\ IsRed(r, r.left[m]) => r.left[m] = b2
                    /\ IsRed(r, r.right[m]) => r.right[m] = b2
  BY NullAssumption DEF RedRule, RedOK
<1>1. /\ IsRed(t, t.left[m]) => t.left[m] = b
      /\ IsRed(t, t.right[m]) => t.right[m] = b
  BY NullAssumption DEF RedRule, RedOK
<1>2. t.left[m] \in Ptr /\ t.right[m] \in Ptr /\ x # Null /\ x # t.right[x] /\ x \in Ptr
  BY NullAssumption DEF LeftTurn, Trees, Ptr
<1>3. IsRed(r, r.left[m]) => r.left[m] = b2
  <2>1. CASE t.left[m] = Null
    <3>1. r.left[m] = Null
      BY <1>2, <2>1, LeftTurnApart
    <3>2. QED
      BY <3>1 DEF IsRed
  <2>2. CASE t.left[m] = x
    <3>1. r.left[m] = t.right[x]
      BY <1>2, <2>2, LeftTurnApart
    <3>2. QED
      BY <1>1, <1>2, <2>2, <3>1 DEF IsRed
  <2>3. CASE t.left[m] \notin {Null, x}
    <3>1. r.left[m] = t.left[m] /\ t.left[m] \notin {t.right[x], e} /\ t.pParent[t.left[m]] = m
      BY <1>2, <2>3, LeftTurnApart
    <3>2. QED
      BY <1>1, <1>2, <2>3, <3>1 DEF Ptr, IsRed
  <2>4. QED
    BY <2>1, <2>2, <2>3
<1>4. IsRed(r, r.right[m]) => r.right[m] = b2
  <2>1. CASE t.right[m] = Null
    <3>1. r.right[m] = Null
      BY <1>2, <2>1, LeftTurnApart
    <3>2. QED
      BY <3>1 DEF IsRed
  <2>2. CASE t.right[m] = x
    <3>1. r.right[m] = t.right[x]
      BY <1>2, <2>2, LeftTurnApart
    <3>2. QED
      BY <1>1, <1>2, <2>2, <3>1 DEF IsRed
  <2>3. CASE t.right[m] \notin {Null, x}
    <3>1. r.right[m] = t.right[m] /\ t.right[m] \notin {t.right[x], e} /\ t.pParent[t.right[m]] = m
      BY <1>2, <2>3, LeftTurnApart
    <3>2. QED
      BY <1>1, <1>2, <2>3, <3>1 DEF Ptr, IsRed
  <2>4. QED
    BY <2>1, <2>2, <2>3
<1>5. QED
  BY <1>3, <1>4

\* A right rotation keeps the layout, whatever has been painted before it.
LEMMA RightTurnLayout ==
  ASSUME NEW t, NEW q, NEW s, NEW pos, NEW lo, NEW hi, NEW p,
         Layout(t, s, pos, lo, hi, p), Recoloured(t, q),
         NEW x \in Procs, pos[x] > 0, t.left[x] # Null
  PROVE  /\ Layout(rotateRight(q, x), s, pos, RightLo(pos, lo, x, t.left[x]), RightHi(pos, hi, x, t.left[x]), p)
         /\ RightRotated(t, rotateRight(q, x), x) /\ rotateRight(q, x).color = q.color
         /\ RightTurn(t, Len(s), pos, lo, hi, x)
<1> DEFINE r == rotateRight(q, x)
<1>1. Layout(q, s, pos, lo, hi, p) /\ Shape(q, Len(s), pos, lo, hi) /\ q.left[x] # Null
  BY RecolouredLayout DEF Layout, Recoloured
<1>2. /\ RightRotated(q, r, x) /\ r.color = q.color
      /\ Shape(r, Len(s), pos, RightLo(pos, lo, x, q.left[x]), RightHi(pos, hi, x, q.left[x]))
  BY <1>1, RotateRightShape
<1>3. RightTurn(t, Len(s), pos, lo, hi, x)
  BY RightTurnFacts DEF Layout
<1> HIDE DEF r
<1>4. q.root = t.root /\ q.left = t.left /\ q.right = t.right /\ q.pParent = t.pParent
  BY DEF Recoloured
<1>5. RightRotated(t, r, x)
  BY <1>2, <1>4 DEF RightRotated
<1>6. Outside(r, pos, p)
  <2> SUFFICES ASSUME NEW n \in Procs, pos[n] = 0
               PROVE  /\ r.left[n] = Null
                      /\ r.right[n] # Null => n = p /\ pos[r.right[n]] > 0
                      /\ r.pParent[n] # Null => n = p /\ pos[r.pParent[n]] > 0
    BY DEF Outside
  <2>1. /\ t.left[n] = Null
        /\ t.right[n] # Null => n = p /\ pos[t.right[n]] > 0
        /\ t.pParent[n] # Null => n = p /\ pos[t.pParent[n]] > 0
    BY DEF Layout, Outside
  <2>2. /\ n # x /\ n # t.left[x] /\ n # t.pParent[x] /\ n # t.right[t.left[x]]
    <3>1. n # x /\ n # t.left[x] /\ n # Null
      BY <1>3, NullAssumption DEF RightTurn
    <3>2. n # t.pParent[x]
      BY <1>3, <3>1 DEF RightTurn
    <3>3. n # t.right[t.left[x]]
      BY <1>3, <3>1 DEF RightTurn
    <3>4. QED
      BY <3>1, <3>2, <3>3
  <2>3. r.left[n] = t.left[n] /\ r.right[n] = t.right[n] /\ r.pParent[n] = t.pParent[n]
    BY <1>5, <2>2 DEF RightRotated
  <2>4. QED
    BY <2>1, <2>3
<1>7. QED
  BY <1>2, <1>3, <1>4, <1>5, <1>6 DEF Layout, r

\* The nodes whose children a right rotation at x leaves alone.
LEMMA RightTurnApart ==
  ASSUME NEW t, NEW r, NEW len, NEW pos, NEW lo, NEW hi, NEW x,
         RightTurn(t, len, pos, lo, hi, x), RightRotated(t, r, x),
         NEW e \in Ptr, e # Null => t.pParent[e] \in {x, t.left[x]},
         NEW m \in Procs, pos[m] > 0, m \notin {x, t.left[x]}, NEW c \in Ptr, c # Null
  PROVE  /\ c = t.left[m] => c \notin {t.left[x], e} /\ t.pParent[c] = m
         /\ c = t.right[m] => c \notin {t.left[x], e} /\ t.pParent[c] = m
         /\ r.left[m] = IF t.left[m] = x THEN t.left[x] ELSE t.left[m]
         /\ r.right[m] = IF t.right[m] = x THEN t.left[x] ELSE t.right[m]
<1>1. NodeOK(t, len, pos, lo, hi, m) /\ x # Null /\ m # Null
  BY NullAssumption DEF RightTurn
<1>2. /\ c = t.left[m] => t.pParent[c] = m
      /\ c = t.right[m] => t.pParent[c] = m
  BY <1>1 DEF NodeOK, ChildOK
<1>3. t.pParent[t.left[x]] = x /\ m # x
  BY DEF RightTurn
<1>4. /\ t.left[m] = x => m = t.pParent[x]
      /\ t.right[m] = x => m = t.pParent[x]
  BY <1>1 DEF NodeOK, ChildOK
<1>5. /\ t.pParent[x] = m => (x = t.left[m] <=> ~(x = t.right[m]))
  BY <1>1 DEF RightTurn
<1>6. /\ r.left[m] = IF m = t.pParent[x] /\ x = t.left[t.pParent[x]] THEN t.left[x] ELSE t.left[m]
      /\ r.right[m] = IF m = t.pParent[x] /\ x # t.left[t.pParent[x]] THEN t.left[x] ELSE t.right[m]
  BY DEF RightRotated
<1>7. QED
  BY <1>2, <1>3, <1>4, <1>5, <1>6

\* Only x, its child y and a child e of theirs change colour or height.
RightHeights(t, r, x, e, bh, d, bh2, d2) ==
  LET y == t.left[x]
  IN  /\ e \in Ptr /\ (e # Null => t.pParent[e] \in {x, y})
      /\ bh2 \in [Ptr -> Nat] /\ bh2[Null] = 0 /\ bh2[y] = bh[x]
      /\ \A m \in Procs \ {x, y, e} :
           bh2[m] = bh[m] /\ r.color[m] = t.color[m] /\ Lacks(m, d2) = Lacks(m, d)
      /\ HeightOK(r, bh2, d2, x) /\ HeightOK(r, bh2, d2, y)
      /\ e # Null => HeightOK(r, bh2, d2, e)

\* Only they change colour, and y is not a new red child.
RightRed(t, r, x, e, b, b2) ==
  LET y == t.left[x]
  IN  /\ e \in Ptr /\ (e # Null => t.pParent[e] \in {x, y})
      /\ b = b2 \/ t.pParent[b] \in {x, y}
      /\ \A m \in Procs \ {x, y, e} : r.color[m] = t.color[m]
      /\ r.color[y] = RED => t.color[x] = RED /\ x # b
      /\ RedOK(r, Null, b2, x) /\ RedOK(r, Null, b2, y)
      /\ e # Null => RedOK(r, Null, b2, e)

\* The black heights after a right rotation at x, when only x, its child y and a
\* child e of theirs change colour or height.
LEMMA RightTurnHeights ==
  ASSUME NEW t, NEW r, NEW len, NEW pos, NEW lo, NEW hi, NEW x,
         RightTurn(t, len, pos, lo, hi, x), RightRotated(t, r, x),
         NEW e, NEW bh, NEW d, NEW bh2, NEW d2, Heights(t, pos, bh, d),
         RightHeights(t, r, x, e, bh, d, bh2, d2)
  PROVE  Heights(r, pos, bh2, d2)
<1> USE DEF RightHeights
<1> SUFFICES ASSUME NEW m \in Procs, pos[m] > 0, m \notin {x, t.left[x], e}
             PROVE  HeightOK(r, bh2, d2, m)
  BY NullAssumption DEF Heights
<1>1. HeightOK(t, bh, d, m) /\ bh[Null] = 0
  BY DEF Heights
<1>2. t.left[m] \in Ptr /\ t.right[m] \in Ptr /\ x # Null /\ x # t.left[x]
  BY NullAssumption DEF RightTurn, Trees
<1>3. x \in Ptr
  BY DEF RightTurn, Ptr
<1>4. bh2[r.left[m]] = bh[t.left[m]]
  <2>1. CASE t.left[m] = Null
    <3>1. r.left[m] = Null
      BY <1>2, <1>3, <2>1, RightTurnApart
    <3>2. QED
      BY <1>1, <2>1, <3>1
  <2>2. CASE t.left[m] = x
    <3>1. r.left[m] = t.left[x]
      BY <1>2, <1>3, <2>2, RightTurnApart
    <3>2. QED
      BY <2>2, <3>1
  <2>3. CASE t.left[m] \notin {Null, x}
    <3>1. r.left[m] = t.left[m] /\ t.left[m] \notin {t.left[x], e}
      BY <1>2, <2>3, RightTurnApart
    <3>2. QED
      BY <1>2, <2>3, <3>1 DEF Ptr
  <2>4. QED
    BY <2>1, <2>2, <2>3
<1>5. bh2[r.right[m]] = bh[t.right[m]]
  <2>1. CASE t.right[m] = Null
    <3>1. r.right[m] = Null
      BY <1>2, <1>3, <2>1, RightTurnApart
    <3>2. QED
      BY <1>1, <2>1, <3>1
  <2>2. CASE t.right[m] = x
    <3>1. r.right[m] = t.left[x]
      BY <1>2, <1>3, <2>2, RightTurnApart
    <3>2. QED
      BY <2>2, <3>1
  <2>3. CASE t.right[m] \notin {Null, x}
    <3>1. r.right[m] = t.right[m] /\ t.right[m] \notin {t.left[x], e}
      BY <1>2, <2>3, RightTurnApart
    <3>2. QED
      BY <1>2, <2>3, <3>1 DEF Ptr
  <2>4. QED
    BY <2>1, <2>2, <2>3
<1>6. bh2[m] = bh[m] /\ BlackBit(r, m) = BlackBit(t, m) /\ Lacks(m, d2) = Lacks(m, d)
  BY DEF BlackBit
<1>7. QED
  BY <1>1, <1>4, <1>5, <1>6 DEF HeightOK

\* The red rule after a right rotation at x, when only x, its child y and a
\* child e of theirs change colour.
LEMMA RightTurnRed ==
  ASSUME NEW t, NEW r, NEW len, NEW pos, NEW lo, NEW hi, NEW x,
         RightTurn(t, len, pos, lo, hi, x), RightRotated(t, r, x),
         NEW e, NEW b, NEW b2, RedRule(t, pos, Null, b), RightRed(t, r, x, e, b, b2)
  PROVE  RedRule(r, pos, Null, b2)
<1> USE DEF RightRed
<1> SUFFICES ASSUME NEW m \in Procs, pos[m] > 0, m \notin {x, t.left[x], e}, r.color[m] = RED
             PROVE  /\ IsRed(r, r.left[m]) => r.left[m] = b2
                    /\ IsRed(r, r.right[m]) => r.right[m] = b2
  BY NullAssumption DEF RedRule, RedOK
<1>1. /\ IsRed(t, t.left[m]) => t.left[m] = b
      /\ IsRed(t, t.right[m]) => t.right[m] = b
  BY NullAssumption DEF RedRule, RedOK
<1>2. t.left[m] \in Ptr /\ t.right[m] \in Ptr /\ x # Null /\ x # t.left[x] /\ x \in Ptr
  BY NullAssumption DEF RightTurn, Trees, Ptr
<1>3. IsRed(r, r.left[m]) => r.left[m] = b2
  <2>1. CASE t.left[m] = Null
    <3>1. r.left[m] = Null
      BY <1>2, <2>1, RightTurnApart
    <3>2. QED
      BY <3>1 DEF IsRed
  <2>2. CASE t.left[m] = x
    <3>1. r.left[m] = t.left[x]
      BY <1>2, <2>2, RightTurnApart
    <3>2. QED
      BY <1>1, <1>2, <2>2, <3>1 DEF IsRed
  <2>3. CASE t.left[m] \notin {Null, x}
    <3>1. r.left[m] = t.left[m] /\ t.left[m] \notin {t.left[x], e} /\ t.pParent[t.left[m]] = m
      BY <1>2, <2>3, RightTurnApart
    <3>2. QED
      BY <1>1, <1>2, <2>3, <3>1 DEF Ptr, IsRed
  <2>4. QED
    BY <2>1, <2>2, <2>3
<1>4. IsRed(r, r.right[m]) => r.right[m] = b2
  <2>1. CASE t.right[m] = Null
    <3>1. r.right[m] = Null
      BY <1>2, <2>1, RightTurnApart
    <3>2. QED
      BY <3>1 DEF IsRed
  <2>2. CASE t.right[m] = x
    <3>1. r.right[m] = t.left[x]
      BY <1>2, <2>2, RightTurnApart
    <3>2. QED
      BY <1>1, <1>2, <2>2, <3>1 DEF IsRed
  <2>3. CASE t.right[m] \notin {Null, x}
    <3>1. r.right[m] = t.right[m] /\ t.right[m] \notin {t.left[x], e} /\ t.pParent[t.right[m]] = m
      BY <1>2, <2>3, RightTurnApart
    <3>2. QED
      BY <1>1, <1>2, <2>3, <3>1 DEF Ptr, IsRed
  <2>4. QED
    BY <2>1, <2>2, <2>3
<1>5. QED
  BY <1>3, <1>4

\* A node and its parent.
UpOK(t, len, pos, lo, hi, n, up) ==
  /\ up \in Procs /\ pos[up] > 0 /\ n # up /\ NodeOK(t, len, pos, lo, hi, up)
  /\ \/ /\ n = t.left[up] /\ n # t.right[up] /\ pos[n] < pos[up]
        /\ lo[n] = lo[up] /\ hi[n] = pos[up] - 1
     \/ /\ n = t.right[up] /\ n # t.left[up] /\ pos[up] < pos[n]
        /\ lo[n] = pos[up] + 1 /\ hi[n] = hi[up]

\* A node that has a parent is on one side of it.
LEMMA UpFacts ==
  ASSUME NEW t, NEW len, NEW pos, NEW lo, NEW hi, Shape(t, len, pos, lo, hi),
         NEW n \in Procs, pos[n] > 0, t.pParent[n] # Null
  PROVE  UpOK(t, len, pos, lo, hi, n, t.pParent[n])
<1> DEFINE up == t.pParent[n]
<1>1. /\ t \in Trees /\ len \in Nat
      /\ pos \in [Procs -> 0..len] /\ lo \in [Procs -> Int] /\ hi \in [Procs -> Int]
      /\ t.left \in [Procs -> Ptr] /\ t.right \in [Procs -> Ptr] /\ t.pParent \in [Procs -> Ptr]
      /\ Null \notin Procs
      /\ \A m \in Procs : pos[m] > 0 => NodeOK(t, len, pos, lo, hi, m)
  BY NullAssumption DEF Shape, Trees
<1>2. up \in Procs /\ NodeOK(t, len, pos, lo, hi, n)
  BY <1>1 DEF Ptr
<1>3. pos[up] > 0 /\ (n = t.left[up] \/ n = t.right[up])
  BY <1>2 DEF NodeOK
<1>4. NodeOK(t, len, pos, lo, hi, up)
  BY <1>1, <1>2, <1>3
<1>5. /\ lo[n] <= pos[n] /\ pos[n] <= hi[n] /\ pos[n] \in Nat /\ lo[n] \in Int /\ hi[n] \in Int
      /\ lo[up] <= pos[up] /\ pos[up] <= hi[up]
      /\ pos[up] \in Nat /\ lo[up] \in Int /\ hi[up] \in Int
  BY <1>1, <1>2, <1>4 DEF NodeOK
<1>6. n = t.left[up] => lo[n] = lo[up] /\ hi[n] = pos[up] - 1
  BY <1>1, <1>4 DEF NodeOK, ChildOK
<1>7. n = t.right[up] => lo[n] = pos[up] + 1 /\ hi[n] = hi[up]
  BY <1>1, <1>4 DEF NodeOK, ChildOK
<1> HIDE DEF up
<1>8. UpOK(t, len, pos, lo, hi, n, up)
  BY <1>2, <1>3, <1>4, <1>5, <1>6, <1>7 DEF UpOK
<1>9. QED
  BY <1>8 DEF up

\* A child and its parent.
LEMMA DownFacts ==
  ASSUME NEW t, NEW len, NEW pos, NEW lo, NEW hi, Shape(t, len, pos, lo, hi),
         NEW n \in Procs, pos[n] > 0, NEW c, c # Null, c = t.left[n] \/ c = t.right[n]
  PROVE  c \in Procs /\ pos[c] > 0 /\ t.pParent[c] = n
<1>1. NodeOK(t, len, pos, lo, hi, n) /\ c \in Ptr
  BY DEF Shape, Trees
<1>2. QED
  BY <1>1 DEF NodeOK, ChildOK, Ptr

\* The nodes of X change colour, height or deficiency, from bh and d to bh2 and d2.
HeightsIn(t, r, bh, d, bh2, d2, X) ==
  /\ bh2 \in [Ptr -> Nat] /\ bh2[Null] = 0
  /\ \A m \in Procs \ X : /\ bh2[m] = bh[m] /\ r.color[m] = t.color[m]
                           /\ Lacks(m, d2) = Lacks(m, d)
  /\ \A m \in X : HeightOK(r, bh2, d2, m)
  /\ \A c \in X : bh2[c] = bh[c] \/ t.pParent[c] \in X \cup {Null}

\* The same for the red rule, with the exceptions a and b, then a2 and b2.
RedIn(t, r, a, b, a2, b2, X) ==
  /\ \A m \in Procs \ X : r.color[m] = t.color[m]
  /\ \A m \in X : RedOK(r, a2, b2, m)
  /\ a \in X \cup {Null, a2}
  /\ b \in {Null, b2} \/ t.pParent[b] \in X \cup {Null}
  /\ \A c \in X : \/ r.color[c] = RED => t.color[c] = RED
                  \/ c = b2
                  \/ t.pParent[c] \in X \cup {Null}

\* The black heights after painting the nodes of X.
LEMMA RecolouredHeights ==
  ASSUME NEW t, NEW r, NEW len, NEW pos, NEW lo, NEW hi, Shape(t, len, pos, lo, hi),
         Recoloured(t, r), NEW bh, NEW d, NEW d2, Heights(t, pos, bh, d),
         NEW bh2, NEW X, HeightsIn(t, r, bh, d, bh2, d2, X)
  PROVE  Heights(r, pos, bh2, d2)
<1> USE DEF HeightsIn
<1> SUFFICES ASSUME NEW m \in Procs, pos[m] > 0, m \notin X
             PROVE  HeightOK(r, bh2, d2, m)
  BY DEF Heights
<1>1. HeightOK(t, bh, d, m) /\ bh[Null] = 0 /\ m # Null
  BY NullAssumption DEF Heights
<1>2. ASSUME NEW c, c = t.left[m] \/ c = t.right[m]
      PROVE  bh2[c] = bh[c]
  <2>1. CASE c = Null
    BY <1>1, <2>1
  <2>2. CASE c # Null
    <3>1. c \in Procs /\ t.pParent[c] = m
      BY <1>2, <2>2, DownFacts
    <3>2. QED
      BY <1>1, <3>1
  <2>3. QED
    BY <2>1, <2>2
<1>3. bh2[m] = bh[m] /\ BlackBit(r, m) = BlackBit(t, m) /\ Lacks(m, d2) = Lacks(m, d)
  BY DEF BlackBit
<1>4. r.left[m] = t.left[m] /\ r.right[m] = t.right[m]
  BY DEF Recoloured
<1>5. bh2[t.left[m]] = bh[t.left[m]] /\ bh2[t.right[m]] = bh[t.right[m]]
  BY <1>2
<1>6. QED
  BY <1>1, <1>3, <1>4, <1>5 DEF HeightOK

\* The red rule after painting the nodes of X.
LEMMA RecolouredRed ==
  ASSUME NEW t, NEW r, NEW len, NEW pos, NEW lo, NEW hi, Shape(t, len, pos, lo, hi),
         Recoloured(t, r), NEW a, NEW b, NEW a2, NEW b2, RedRule(t, pos, a, b), NEW X,
         RedIn(t, r, a, b, a2, b2, X)
  PROVE  RedRule(r, pos, a2, b2)
<1> USE DEF RedIn
<1> SUFFICES ASSUME NEW m \in Procs, pos[m] > 0, m \notin X, r.color[m] = RED, m # a2
             PROVE  /\ IsRed(r, r.left[m]) => r.left[m] = b2
                    /\ IsRed(r, r.right[m]) => r.right[m] = b2
  BY DEF RedRule, RedOK
<1>1. RedOK(t, a, b, m) /\ m # Null /\ m # a /\ t.color[m] = RED
  BY NullAssumption DEF RedRule
<1>2. r.left[m] = t.left[m] /\ r.right[m] = t.right[m]
  BY DEF Recoloured
<1>3. ASSUME NEW c, c = t.left[m] \/ c = t.right[m], IsRed(r, c)
      PROVE  c = b2
  <2>1. c # Null /\ r.color[c] = RED
    BY <1>3 DEF IsRed
  <2>2. c \in Procs /\ t.pParent[c] = m
    BY <1>3, <2>1, DownFacts
  <2>3. SUFFICES ASSUME c # b2
                 PROVE  FALSE
    OBVIOUS
  <2>4. IsRed(t, c)
    BY <1>1, <2>1, <2>2, <2>3 DEF IsRed
  <2>5. c = b
    BY <1>1, <1>3, <2>4 DEF RedOK
  <2>6. QED
    BY <1>1, <2>1, <2>2, <2>3, <2>5
<1>4. QED
  BY <1>2, <1>3

-----------------------------------------------------------------------------
(* insertionCases keeps the invariant.                                     *)

\* What the invariant says of a tree t when the case at is due for node, and m is the
\* cached minimum.
CaseOK(t, s, pos, lo, hi, bh, at, node, m) ==
  /\ Layout(t, s, pos, lo, hi, Null) /\ Heights(t, pos, bh, Null)
  /\ RedRule(t, pos, Null, IF at \in Cases THEN node ELSE Null)
  /\ RootBlack(t, at, node) /\ InsertOK(t, pos, at, node) /\ MinSeat(t, pos, m)

\* The node of a case.
LEMMA InsertFacts ==
  ASSUME NEW s, NEW pos, NEW lo, NEW hi, NEW bh, TreeInv(s, pos, lo, hi, bh), op.at \in Cases
  PROVE  /\ CaseOK(tree, s, pos, lo, hi, bh, op.at, op.node, minvRuntime)
         /\ Layout(tree, s, pos, lo, hi, Null) /\ Shape(tree, Len(s), pos, lo, hi)
         /\ Heights(tree, pos, bh, Null) /\ RedRule(tree, pos, Null, op.node)
         /\ RootBlack(tree, op.at, op.node) /\ InsertOK(tree, pos, op.at, op.node)
         /\ MinSeat(tree, pos, minvRuntime)
         /\ op.node \in Procs /\ pos[op.node] > 0 /\ tree.color[op.node] = RED
<1>1. op.node \in Ptr
  BY DEF TreeInv, OpTypes
<1>2. op.node \in Procs /\ pos[op.node] > 0 /\ tree.color[op.node] = RED
  BY <1>1 DEF TreeInv, InsertOK, Ptr
<1>3. Gone = Null /\ Deficient = Null /\ Above = Null /\ Below = op.node
  BY DEF Gone, Unlinking, Deficient, Above, Below, Cases
<1>4. QED
  BY <1>2, <1>3 DEF TreeInv, Layout, MinOK, CaseOK

\* What is left to show for a step of insertionCases.
LEMMA NextCaseInv ==
  ASSUME NEW s, NEW pos, NEW lo, NEW hi, NEW bh, TreeInv(s, pos, lo, hi, bh), op.at \in Cases,
         NEW t, NEW at \in Cases \cup {"min"}, NEW node \in Procs, NextCase(t, at, node),
         NEW lo2, NEW hi2, NEW bh2, CaseOK(t, s, pos, lo2, hi2, bh2, at, node, minvRuntime)
  PROVE  TreeInv(s, pos, lo2, hi2, bh2)'
<1>1. /\ tree' = t /\ op' = [op EXCEPT !.at = at, !.node = node]
      /\ count' = count /\ minvRuntime' = minvRuntime /\ virtualRuntime' = virtualRuntime
  BY DEF NextCase, restOfInsert
<1>2. /\ op \in [at : Cases \cup {"idle", "min", "rebalance", "finish"},
                 proc : Ptr, node : Ptr, parent : Ptr]
      /\ virtualRuntime \in [Procs -> Nat] /\ minvRuntime \in Ptr /\ count \in 0..NPROC
      /\ CountOK(s) /\ Sorted(s, virtualRuntime)
  BY DEF TreeInv, OpTypes
<1>3. op'.at = at /\ op'.node = node
  BY <1>1, <1>2
<1>4. OpTypes'
  <2>1. op' \in [at : Cases \cup {"idle", "min", "rebalance", "finish"},
                 proc : Ptr, node : Ptr, parent : Ptr]
    BY <1>1, <1>2 DEF Ptr
  <2>2. op'.at # "idle"
    BY <1>3 DEF Cases
  <2>3. QED
    BY <1>1, <1>2, <2>1, <2>2 DEF OpTypes
<1>5. ~Unlinking /\ ~Unlinking' /\ op'.at # "rebalance" /\ op'.at # "idle"
  BY <1>3 DEF Unlinking, Cases
<1>6. /\ Gone' = Null /\ Deficient' = Null /\ Above' = Null
      /\ Below' = IF at \in Cases THEN node ELSE Null
  BY <1>3, <1>5 DEF Gone, Deficient, Above, Below
<1>7. CountOK(s)'
  BY <1>1, <1>2, <1>5 DEF CountOK
<1>8. MinOK(s, pos)'
  BY <1>1, <1>5 DEF MinOK, CaseOK
<1>9. RebalanceOK(pos, lo2)' /\ RetrieveOK(pos)'
  BY <1>5 DEF RebalanceOK, RetrieveOK
<1>10. QED
  BY <1>1, <1>2, <1>3, <1>4, <1>6, <1>7, <1>8, <1>9 DEF TreeInv, CaseOK

\* Painting a node paints it and nothing else.
LEMMA PaintFacts ==
  ASSUME NEW t \in Trees, NEW x \in Procs, NEW c \in {RED, BLACK}
  PROVE  /\ Recoloured(t, SetColor(t, x, c))
         /\ \A m \in Procs : SetColor(t, x, c).color[m] = IF m = x THEN c ELSE t.color[m]
<1>1. t.color \in [Procs -> {RED, BLACK}]
  BY DEF Trees
<1>2. Recoloured(t, SetColor(t, x, c))
  BY ZenonT(30), SetColorFields DEF Recoloured
<1>3. SetColor(t, x, c).color = [t.color EXCEPT ![x] = c]
  BY SetColorFields
<1>4. QED
  BY <1>1, <1>2, <1>3

\* Case 1: a root that has been painted red is painted black again.
LEMMA Case1Inv ==
  ASSUME NEW s, NEW pos, NEW lo, NEW hi, NEW bh, TreeInv(s, pos, lo, hi, bh), insertionCase1
  PROVE  \E lo2, hi2, bh2 : TreeInv(s, pos, lo2, hi2, bh2)'
<1> DEFINE n == op.node
           r == SetColor(tree, n, BLACK)
           bh2 == [bh EXCEPT ![n] = bh[n] + 1]
<1>1. op.at = "case1" /\ op.at \in Cases
  BY DEF insertionCase1, Cases
<1>2. /\ Layout(tree, s, pos, lo, hi, Null) /\ Shape(tree, Len(s), pos, lo, hi)
      /\ Heights(tree, pos, bh, Null) /\ RedRule(tree, pos, Null, n)
      /\ RootBlack(tree, op.at, n) /\ InsertOK(tree, pos, op.at, n)
      /\ MinSeat(tree, pos, minvRuntime)
      /\ n \in Procs /\ pos[n] > 0 /\ tree.color[n] = RED
  BY <1>1, InsertFacts
<1>3. tree \in Trees /\ bh \in [Ptr -> Nat] /\ bh[Null] = 0 /\ n # Null
  BY <1>2, NullAssumption DEF Shape, Heights
<1>4. CASE tree.pParent[n] = Null
  <2>1. NextCase(r, "min", n)
    BY <1>4 DEF insertionCase1
  <2>2. /\ Recoloured(tree, r)
        /\ \A m \in Procs : r.color[m] = IF m = n THEN BLACK ELSE tree.color[m]
    BY <1>2, <1>3, PaintFacts
  <2>3. n = tree.root
    BY <1>2, <1>4 DEF Shape, NodeOK
  <2> HIDE DEF n, r
  <2>4. Layout(r, s, pos, lo, hi, Null)
    BY <1>2, <2>2, RecolouredLayout
  <2>5. Heights(r, pos, bh2, Null)
    <3>1. /\ bh2 \in [Ptr -> Nat] /\ bh2[Null] = 0 /\ bh2[n] = bh[n] + 1
          /\ \A m \in Ptr : m # n => bh2[m] = bh[m]
      BY <1>2, <1>3 DEF Ptr
    <3>2. \A m \in Procs \ {n} : /\ bh2[m] = bh[m] /\ r.color[m] = tree.color[m]
                                 /\ Lacks(m, Null) = Lacks(m, Null)
      BY <2>2, <3>1 DEF Ptr
    <3>3. HeightOK(r, bh2, Null, n)
      <4>1. tree.left[n] # n /\ tree.right[n] # n /\ tree.left[n] \in Ptr /\ tree.right[n] \in Ptr
        <5>1. tree.left[n] \in Ptr /\ tree.right[n] \in Ptr
          BY <1>2, <1>3 DEF Trees
        <5>2. tree.left[n] # n
          BY <1>2, <1>3, <1>4, DownFacts
        <5>3. tree.right[n] # n
          BY <1>2, <1>3, <1>4, DownFacts
        <5>4. QED
          BY <5>1, <5>2, <5>3
      <4>2. r.left[n] = tree.left[n] /\ r.right[n] = tree.right[n]
        BY <2>2 DEF Recoloured
      <4>3. HeightOK(tree, bh, Null, n) /\ r.color[n] = BLACK
        BY <1>2, <2>2 DEF Heights
      <4>4. bh2[r.left[n]] = bh[tree.left[n]] /\ bh2[r.right[n]] = bh[tree.right[n]]
        BY <3>1, <4>1, <4>2
      <4>5. bh[tree.right[n]] \in Nat
        BY <1>3, <4>1
      <4> HIDE DEF bh2
      <4>6. QED
        BY <1>2, <3>1, <4>3, <4>4, <4>5 DEF HeightOK, BlackBit, RED, BLACK
    <3> DEFINE X == {n}
    <3>4. /\ \A m \in X : HeightOK(r, bh2, Null, m)
          /\ \A c \in X : bh2[c] = bh[c] \/ tree.pParent[c] \in X \cup {Null}
      BY <1>4, <3>3
    <3>5. \A m \in Procs \ X : /\ bh2[m] = bh[m] /\ r.color[m] = tree.color[m]
                                /\ Lacks(m, Null) = Lacks(m, Null)
      BY <3>2
    <3> HIDE DEF bh2, X
    <3>6. HeightsIn(tree, r, bh, Null, bh2, Null, X)
      BY <3>1, <3>4, <3>5 DEF HeightsIn
    <3>7. QED
      BY <1>2, <2>2, <3>6, RecolouredHeights
  <2>6. RedRule(r, pos, Null, Null)
    <3>1. RedOK(r, Null, Null, n) /\ r.color[n] # RED
      BY <1>2, <2>2 DEF RedOK, RED, BLACK
    <3> DEFINE X == {n}
    <3>2. /\ \A m \in X : RedOK(r, Null, Null, m)
          /\ \A m \in Procs \ X : r.color[m] = tree.color[m]
          /\ Null \in X \cup {Null, Null} /\ tree.pParent[n] \in X \cup {Null}
          /\ \A c \in X : r.color[c] = RED => tree.color[c] = RED
      BY <1>2, <1>4, <2>2, <3>1
    <3> HIDE DEF X
    <3>3. RedIn(tree, r, Null, n, Null, Null, X)
      BY <3>2 DEF RedIn
    <3>4. QED
      BY <1>2, <2>2, <3>3, RecolouredRed
  <2>7. RootBlack(r, "min", n)
    BY <1>2, <2>2, <2>3 DEF RootBlack, IsBlack, Recoloured
  <2>8. InsertOK(r, pos, "min", n)
    BY DEF InsertOK, Cases
  <2>9. MinSeat(r, pos, minvRuntime)
    BY <1>2, <2>2 DEF MinSeat, Recoloured
  <2>10. "min" \notin Cases
    BY DEF Cases
  <2> HIDE DEF bh2
  <2>11. PICK b : b = bh2
    OBVIOUS
  <2>12. CaseOK(r, s, pos, lo, hi, b, "min", n, minvRuntime)
    BY <2>4, <2>5, <2>6, <2>7, <2>8, <2>9, <2>10, <2>11 DEF CaseOK
  <2>13. TreeInv(s, pos, lo, hi, b)'
    BY <1>1, <1>2, <2>1, <2>12, NextCaseInv
  <2>14. QED
    BY <2>13
<1>5. CASE tree.pParent[n] # Null
  <2>1. NextCase(tree, "case2", n) /\ "case2" \in Cases
    BY <1>5 DEF insertionCase1, Cases
  <2>2. n # tree.root
    BY <1>2, <1>3, <1>5 DEF Shape, RootOK
  <2>3. RootBlack(tree, "case2", n) /\ InsertOK(tree, pos, "case2", n)
    BY <1>1, <1>2, <1>3, <1>5, <2>2 DEF RootBlack, InsertOK
  <2> HIDE DEF n
  <2>4. TreeInv(s, pos, lo, hi, bh)'
    BY <1>1, <1>2, <2>1, <2>3, NextCaseInv DEF CaseOK
  <2>5. QED
    BY <2>4
<1>6. QED
  BY <1>4, <1>5

\* Case 2: under a black parent the red rule holds.
LEMMA Case2Inv ==
  ASSUME NEW s, NEW pos, NEW lo, NEW hi, NEW bh, TreeInv(s, pos, lo, hi, bh), insertionCase2
  PROVE  \E lo2, hi2, bh2 : TreeInv(s, pos, lo2, hi2, bh2)'
<1> DEFINE n == op.node
           up == tree.pParent[n]
<1>1. op.at = "case2" /\ op.at \in Cases
  BY DEF insertionCase2, Cases
<1>2. /\ Layout(tree, s, pos, lo, hi, Null) /\ Shape(tree, Len(s), pos, lo, hi)
      /\ Heights(tree, pos, bh, Null) /\ RedRule(tree, pos, Null, n)
      /\ RootBlack(tree, op.at, n) /\ InsertOK(tree, pos, op.at, n)
      /\ MinSeat(tree, pos, minvRuntime)
      /\ n \in Procs /\ pos[n] > 0 /\ tree.color[n] = RED
  BY <1>1, InsertFacts
<1>3. up # Null /\ RootBlack(tree, "case3", n) /\ RootBlack(tree, "min", n)
  BY <1>1, <1>2 DEF InsertOK, RootBlack
<1>4. up \in Procs /\ n # Null
  BY <1>2, <1>3, NullAssumption, UpFacts DEF UpOK
<1>5. CASE tree.color[up] = RED
  <2>1. NextCase(tree, "case3", n) /\ "case3" \in Cases
    BY <1>5 DEF insertionCase2, Cases
  <2>2. InsertOK(tree, pos, "case3", n)
    BY <1>2, <1>3, <1>4, <1>5 DEF InsertOK
  <2> HIDE DEF n
  <2>3. TreeInv(s, pos, lo, hi, bh)'
    BY <1>1, <1>2, <1>3, <2>1, <2>2, NextCaseInv DEF CaseOK
  <2>4. QED
    BY <2>3
<1>6. CASE tree.color[up] # RED
  <2>1. NextCase(tree, "min", n) /\ "min" \notin Cases
    BY <1>6 DEF insertionCase2, Cases
  <2>2. InsertOK(tree, pos, "min", n)
    BY DEF InsertOK, Cases
  <2>3. RedRule(tree, pos, Null, Null)
    <3> SUFFICES ASSUME NEW m \in Procs, pos[m] > 0, tree.color[m] = RED
                 PROVE  RedOK(tree, Null, Null, m)
      BY DEF RedRule, RedOK
    <3>1. RedOK(tree, Null, n, m) /\ m # up /\ m # Null
      BY <1>2, <1>6, NullAssumption DEF RedRule
    <3>2. tree.left[m] # n /\ tree.right[m] # n
      BY <1>2, <1>4, <3>1, DownFacts
    <3>3. QED
      BY <3>1, <3>2 DEF RedOK
  <2> HIDE DEF n
  <2>4. TreeInv(s, pos, lo, hi, bh)'
    BY <1>1, <1>2, <1>3, <2>1, <2>2, <2>3, NextCaseInv DEF CaseOK
  <2>5. QED
    BY <2>4
<1>7. QED
  BY <1>5, <1>6

\* A red node n under a red parent up: the grandparent g exists and is black.
Grand(t, len, pos, lo, hi, n) ==
  LET up == t.pParent[n]
      g == t.pParent[up]
      uncle == IF up = t.left[g] THEN t.right[g] ELSE t.left[g]
  IN  /\ UpOK(t, len, pos, lo, hi, n, up) /\ UpOK(t, len, pos, lo, hi, up, g)
      /\ n \in Procs /\ up \in Procs /\ g \in Procs /\ n # up /\ up # g /\ n # g
      /\ t.color[g] = BLACK
      /\ getGrandparentProc(t, n) = g /\ getUncleProc(t, n) = uncle
      /\ uncle # Null => /\ uncle \in Procs /\ pos[uncle] > 0 /\ t.pParent[uncle] = g
                         /\ uncle \notin {n, up, g}

\* A red parent is not the root, and a red child of its parent.
LEMMA GrandFacts ==
  ASSUME NEW t, NEW len, NEW pos, NEW lo, NEW hi, Shape(t, len, pos, lo, hi),
         NEW n \in Procs, pos[n] > 0, t.color[n] = RED, t.pParent[n] # Null,
         t.color[t.pParent[n]] = RED, RedRule(t, pos, Null, n), IsBlack(t, t.root)
  PROVE  Grand(t, len, pos, lo, hi, n)
<1> DEFINE up == t.pParent[n]
           g == t.pParent[up]
           uncle == IF up = t.left[g] THEN t.right[g] ELSE t.left[g]
<1>0. /\ t.left \in [Procs -> Ptr] /\ t.right \in [Procs -> Ptr] /\ t.pParent \in [Procs -> Ptr]
      /\ t.color \in [Procs -> {RED, BLACK}] /\ pos \in [Procs -> Nat] /\ Null \notin Procs
  BY NullAssumption DEF Shape, Trees
<1>1. UpOK(t, len, pos, lo, hi, n, up)
  BY UpFacts
<1>2. up \in Procs /\ pos[up] > 0 /\ n # up /\ up # Null
  BY <1>0, <1>1 DEF UpOK
<1>3. up # t.root
  BY <1>2 DEF IsBlack, RED, BLACK
<1>4. g # Null
  BY <1>2, <1>3 DEF Shape, NodeOK
<1>5. UpOK(t, len, pos, lo, hi, up, g)
  BY <1>2, <1>4, UpFacts
<1>6. g \in Procs /\ pos[g] > 0 /\ up # g /\ (up = t.left[g] \/ up = t.right[g])
  BY <1>5 DEF UpOK
<1>7. t.color[g] = BLACK
  <2>1. RedOK(t, Null, n, g) /\ g # Null /\ IsRed(t, up)
    BY <1>2, <1>4, <1>6 DEF RedRule, IsRed
  <2>2. QED
    BY <1>0, <1>2, <1>6, <2>1 DEF RedOK
<1>8. n # g
  BY <1>7 DEF RED, BLACK
<1>9. getGrandparentProc(t, n) = g /\ getUncleProc(t, n) = uncle
  BY SMTT(30), <1>0, <1>2, <1>4 DEF getGrandparentProc, getUncleProc
<1>10. ASSUME uncle # Null
       PROVE  /\ uncle \in Procs /\ pos[uncle] > 0 /\ t.pParent[uncle] = g
              /\ uncle \notin {n, up, g}
  <2>1. uncle \in Procs /\ pos[uncle] > 0 /\ t.pParent[uncle] = g
    BY <1>6, <1>10, DownFacts
  <2>2. uncle # up
    BY <1>5 DEF UpOK
  <2>3. uncle # n
    BY <1>6, <2>1
  <2>4. uncle # g
    <3>1. NodeOK(t, len, pos, lo, hi, g)
      BY <1>5 DEF UpOK
    <3> HIDE DEF up, g
    <3>2. /\ g # Null /\ pos[g] \in Nat /\ lo[g] <= pos[g] /\ pos[g] <= hi[g]
          /\ ChildOK(t, pos, lo, hi, t.left[g], g, lo[g], pos[g] - 1)
          /\ ChildOK(t, pos, lo, hi, t.right[g], g, pos[g] + 1, hi[g])
      BY <1>0, <1>6, <3>1 DEF NodeOK
    <3>3. t.left[g] # g
      BY <3>2 DEF ChildOK
    <3>4. t.right[g] # g
      BY <3>2 DEF ChildOK
    <3> USE DEF g, uncle
    <3>5. QED
      BY <3>3, <3>4
  <2>5. QED
    BY <2>1, <2>2, <2>3, <2>4
<1> HIDE DEF up, g, uncle
<1>11. QED
  <2>1. t.pParent[n] = up /\ t.pParent[up] = g
        /\ (IF up = t.left[g] THEN t.right[g] ELSE t.left[g]) = uncle
    BY DEF up, g, uncle
  <2>2. QED
    BY <1>1, <1>2, <1>5, <1>6, <1>7, <1>8, <1>9, <1>10, <2>1 DEF Grand

\* Case 3: parent and uncle turn black and the grandparent red.
LEMMA Case3Inv ==
  ASSUME NEW s, NEW pos, NEW lo, NEW hi, NEW bh, TreeInv(s, pos, lo, hi, bh), insertionCase3
  PROVE  \E lo2, hi2, bh2 : TreeInv(s, pos, lo2, hi2, bh2)'
<1>0. PICK n, t : n = op.node /\ t = tree
  OBVIOUS
<1> DEFINE up == t.pParent[n]
           g == t.pParent[up]
           uncle == IF up = t.left[g] THEN t.right[g] ELSE t.left[g]
           r == [t EXCEPT !.color[up] = BLACK, !.color[uncle] = BLACK, !.color[g] = RED]
           bh2 == [bh EXCEPT ![up] = bh[up] + 1, ![uncle] = bh[uncle] + 1]
<1>1. op.at = "case3" /\ op.at \in Cases
  BY DEF insertionCase3, Cases
<1>2. /\ Layout(t, s, pos, lo, hi, Null) /\ Shape(t, Len(s), pos, lo, hi)
      /\ Heights(t, pos, bh, Null) /\ RedRule(t, pos, Null, n)
      /\ RootBlack(t, op.at, n) /\ InsertOK(t, pos, op.at, n)
      /\ MinSeat(t, pos, minvRuntime)
      /\ n \in Procs /\ pos[n] > 0 /\ t.color[n] = RED
  BY <1>0, <1>1, InsertFacts
<1>3. /\ t \in Trees /\ bh \in [Ptr -> Nat] /\ bh[Null] = 0 /\ n # Null
      /\ t.color \in [Procs -> {RED, BLACK}]
  BY SMTT(30), <1>2, NullAssumption DEF Shape, Heights, Trees
<1>4. up # Null /\ t.color[up] = RED /\ IsBlack(t, t.root)
  BY <1>1, <1>2 DEF InsertOK, RootBlack
<1>5. Grand(t, Len(s), pos, lo, hi, n)
  BY <1>2, <1>4, GrandFacts
<1>6. /\ up \in Procs /\ g \in Procs /\ n # up /\ up # g /\ n # g /\ t.color[g] = BLACK
      /\ getGrandparentProc(t, n) = g /\ getUncleProc(t, n) = uncle
      /\ uncle # Null => /\ uncle \in Procs /\ pos[uncle] > 0 /\ t.pParent[uncle] = g
                         /\ uncle \notin {n, up, g}
      /\ pos[up] > 0 /\ pos[g] > 0 /\ g # Null
      /\ up = t.left[g] \/ up = t.right[g]
  BY ZenonT(30), <1>5, NullAssumption DEF Grand, UpOK
<1>7. CASE IsRed(t, uncle)
  <2>1. NextCase(r, "case1", g)
    BY ZenonT(30), <1>0, <1>6, <1>7 DEF insertionCase3
  <2>2. uncle \in Procs /\ pos[uncle] > 0 /\ t.pParent[uncle] = g /\ uncle \notin {n, up, g}
        /\ t.color[uncle] = RED
    BY SMTT(30), <1>6, <1>7 DEF IsRed
  <2>a. (t.left[g] = up /\ t.right[g] = uncle) \/ (t.left[g] = uncle /\ t.right[g] = up)
    BY <1>6
  <2> HIDE DEF up, g, uncle
  <2>3. /\ Recoloured(t, r)
        /\ \A m \in Procs : r.color[m] = IF m = g THEN RED
                                         ELSE IF m \in {up, uncle} THEN BLACK ELSE t.color[m]
    <3>1. r = [t EXCEPT !.color = [t.color EXCEPT ![up] = BLACK, ![uncle] = BLACK, ![g] = RED]]
      BY <1>3 DEF Trees
    <3>2. [t.color EXCEPT ![up] = BLACK, ![uncle] = BLACK, ![g] = RED] \in [Procs -> {RED, BLACK}]
      BY <1>3
    <3>3. QED
      BY <1>3, <1>6, <2>2, <3>1, <3>2 DEF Recoloured, Trees
  <2> HIDE DEF r
  <2>4. Layout(r, s, pos, lo, hi, Null)
    BY <1>2, <2>3, RecolouredLayout
  <2> DEFINE X == {up, uncle, g}
  <2>5. Heights(r, pos, bh2, Null)
    <3>1. /\ bh2 \in [Ptr -> Nat] /\ bh2[Null] = 0
          /\ bh2[up] = bh[up] + 1 /\ bh2[uncle] = bh[uncle] + 1
          /\ \A m \in Ptr : m # up /\ m # uncle => bh2[m] = bh[m]
      BY <1>3, <1>4, <1>6, <2>2, NullAssumption DEF Ptr
    <3>2. \A m \in Procs : pos[m] > 0 => HeightOK(t, bh, Null, m)
      BY <1>2 DEF Heights
    <3> HIDE DEF bh2
    <3>3. ASSUME NEW m \in {up, uncle}
          PROVE  HeightOK(r, bh2, Null, m)
      <4>0. m \in Procs /\ pos[m] > 0 /\ t.color[m] = RED /\ r.color[m] = BLACK /\ m # g
        BY <1>4, <1>6, <2>2, <2>3
      <4>a. t.pParent[up] = g /\ t.pParent[uncle] = g
        BY <2>2 DEF g
      <4>1. \A c : c = t.left[m] \/ c = t.right[m] => bh2[c] = bh[c]
        <5> SUFFICES ASSUME NEW c, c = t.left[m] \/ c = t.right[m], c # Null
                     PROVE  bh2[c] = bh[c]
          BY <1>3, <3>1
        <5>1. c \in Procs /\ t.pParent[c] = m
          BY <1>2, <4>0, DownFacts
        <5>2. QED
          BY <3>1, <4>0, <4>a, <5>1 DEF Ptr
      <4>2. bh2[t.left[m]] = bh[t.left[m]] /\ bh2[t.right[m]] = bh[t.right[m]] /\ bh2[m] = bh[m] + 1
        BY <3>1, <4>1
      <4>3. r.left[m] = t.left[m] /\ r.right[m] = t.right[m]
        BY <2>3 DEF Recoloured
      <4>4. HeightOK(t, bh, Null, m) /\ BlackBit(t, m) = 0 /\ BlackBit(r, m) = 1
        BY <3>2, <4>0 DEF BlackBit, RED, BLACK
      <4>5. bh[t.right[m]] \in Nat
        BY <1>3, <4>0 DEF Trees
      <4>6. QED
        BY <4>2, <4>3, <4>4, <4>5 DEF HeightOK
    <3>4. HeightOK(r, bh2, Null, g)
      <4>1. r.left[g] = t.left[g] /\ r.right[g] = t.right[g]
        BY <2>3 DEF Recoloured
      <4>2. HeightOK(t, bh, Null, g) /\ BlackBit(t, g) = 1 /\ BlackBit(r, g) = 0
        BY <1>6, <2>3, <3>2 DEF BlackBit, RED, BLACK
      <4>3. Lacks(g, Null) = 0 /\ bh2[g] = bh[g] /\ bh[up] \in Nat /\ bh[uncle] \in Nat
        BY <1>3, <1>6, <2>2, <3>1 DEF Lacks, Ptr
      <4>4. QED
        BY <2>a, <3>1, <4>1, <4>2, <4>3 DEF HeightOK
    <3>5. HeightsIn(t, r, bh, Null, bh2, Null, X)
      <4>1. \A m \in Procs \ X : /\ bh2[m] = bh[m] /\ r.color[m] = t.color[m]
                                 /\ Lacks(m, Null) = Lacks(m, Null)
        BY <2>3, <3>1 DEF Ptr
      <4>2. t.pParent[up] = g /\ t.pParent[uncle] = g /\ bh2[g] = bh[g]
        BY <1>6, <2>2, <3>1 DEF g, Ptr
      <4>3. QED
        BY <3>1, <3>3, <3>4, <4>1, <4>2 DEF HeightsIn
    <3> HIDE DEF X
    <3>6. QED
      BY <1>2, <2>3, <3>5, RecolouredHeights
  <2>6. RedRule(r, pos, Null, g)
    <3>1. RedOK(r, Null, g, up) /\ RedOK(r, Null, g, uncle)
      BY <1>6, <2>2, <2>3 DEF RedOK, RED, BLACK
    <3>2. RedOK(r, Null, g, g)
      BY <1>6, <2>2, <2>3, <2>a DEF RedOK, IsRed, RED, BLACK, Recoloured
    <3>3. RedIn(t, r, Null, n, Null, g, X)
      <4>1. t.pParent[n] = up /\ t.pParent[up] = g /\ t.pParent[uncle] = g
        BY <2>2 DEF up, g
      <4>2. \A m \in Procs \ X : r.color[m] = t.color[m]
        BY <2>3
      <4>3. QED
        BY <3>1, <3>2, <4>1, <4>2 DEF RedIn
    <3> HIDE DEF X
    <3>4. QED
      BY <1>2, <2>3, <3>3, RecolouredRed
  <2>7. RootBlack(r, "case1", g)
    <3>1. r.root = t.root /\ t.root \in Ptr
      BY <1>3, <2>3 DEF Recoloured, Trees
    <3>2. CASE t.root = g
      BY <3>1, <3>2 DEF RootBlack
    <3>3. CASE t.root # g
      BY <1>4, <2>3, <3>1, <3>3 DEF RootBlack, IsBlack, Ptr
    <3>4. QED
      BY <3>2, <3>3
  <2>8. InsertOK(r, pos, "case1", g)
    BY <1>6, <2>3 DEF InsertOK, Cases
  <2>9. MinSeat(r, pos, minvRuntime)
    BY <1>2, <2>3 DEF MinSeat, Recoloured
  <2>10. "case1" \in Cases
    BY DEF Cases
  <2> HIDE DEF bh2
  <2>11. CaseOK(r, s, pos, lo, hi, bh2, "case1", g, minvRuntime)
    BY <2>4, <2>5, <2>6, <2>7, <2>8, <2>9, <2>10 DEF CaseOK
  <2>12. TreeInv(s, pos, lo, hi, bh2)'
    BY <1>1, <1>6, <2>1, <2>10, <2>11, NextCaseInv
  <2>13. QED
    BY <2>12
<1>8. CASE ~IsRed(t, uncle)
  <2>1. NextCase(t, "case4", n) /\ "case4" \in Cases
    BY ZenonT(30), <1>0, <1>6, <1>8 DEF insertionCase3, Cases
  <2>2. IsBlack(t, uncle)
    BY <1>3, <1>6, <1>8 DEF IsRed, IsBlack
  <2>3. InsertOK(t, pos, "case4", n)
    BY ZenonT(30), <1>2, <1>3, <1>4, <1>6, <2>2 DEF InsertOK
  <2>4. RootBlack(t, "case4", n)
    BY <1>4 DEF RootBlack
  <2>5. CaseOK(t, s, pos, lo, hi, bh, "case4", n, minvRuntime)
    BY <1>2, <2>1, <2>3, <2>4 DEF CaseOK
  <2>6. TreeInv(s, pos, lo, hi, bh)'
    BY <1>1, <1>2, <2>1, <2>5, NextCaseInv
  <2>7. QED
    BY <2>6
<1>9. QED
  BY <1>7, <1>8

\* The cached minimum keeps its seat, and its left child through a left rotation.
LEMMA LeftTurnMin ==
  ASSUME NEW t, NEW r, NEW len, NEW pos, NEW lo, NEW hi, NEW x, NEW m \in Ptr,
         LeftTurn(t, len, pos, lo, hi, x), LeftRotated(t, r, x), MinSeat(t, pos, m)
  PROVE  MinSeat(r, pos, m)
<1>1. m # Null => m \in Procs
  BY DEF Ptr
<1>2. m # Null /\ t.left[m] # Null => r.left[m] # Null
  BY <1>1, NullAssumption DEF LeftTurn, LeftRotated
<1>3. QED
  BY <1>2 DEF MinSeat

\* A right rotation can take the left child only from the node that goes down.
LEMMA RightTurnMin ==
  ASSUME NEW t, NEW r, NEW len, NEW pos, NEW lo, NEW hi, NEW x, NEW m \in Ptr,
         RightTurn(t, len, pos, lo, hi, x), RightRotated(t, r, x), MinSeat(t, pos, m),
         pos[x] > 2
  PROVE  MinSeat(r, pos, m)
<1>1. m # Null => m \in Procs
  BY DEF Ptr
<1>2. m # Null /\ m # x /\ t.left[m] # Null => r.left[m] # Null
  BY <1>1, NullAssumption DEF RightTurn, RightRotated
<1>3. pos[x] \in Nat
  BY DEF RightTurn
<1>4. QED
  BY <1>2, <1>3 DEF MinSeat

\* Painting nothing.
LEMMA RecolouredSame ==
  ASSUME NEW t \in Trees
  PROVE  Recoloured(t, t)
BY DEF Recoloured

\* Case 4, an inner grandchild on the left: the left rotation at the parent.
LEMMA Case4Left ==
  ASSUME NEW t, NEW s, NEW pos, NEW lo, NEW hi, NEW bh, NEW n, NEW m \in Ptr,
         CaseOK(t, s, pos, lo, hi, bh, "case4", n, m), Grand(t, Len(s), pos, lo, hi, n),
         n = t.right[t.pParent[n]], t.pParent[n] = t.left[t.pParent[t.pParent[n]]]
  PROVE  \E lo2, hi2 : CaseOK(rotateLeft(t, t.pParent[n]), s, pos, lo2, hi2, bh, "case5", t.pParent[n], m)
<1> DEFINE up == t.pParent[n]
           g == t.pParent[up]
           uncle == t.right[g]
           inner == t.left[n]
           r == rotateLeft(t, up)
           lo2 == LeftLo(pos, lo, up, n)
           hi2 == LeftHi(pos, hi, up, n)
<1>1. /\ Layout(t, s, pos, lo, hi, Null) /\ Shape(t, Len(s), pos, lo, hi)
      /\ Heights(t, pos, bh, Null) /\ RedRule(t, pos, Null, n)
      /\ RootBlack(t, "case4", n) /\ InsertOK(t, pos, "case4", n) /\ MinSeat(t, pos, m)
  BY DEF CaseOK, Layout, Cases
<1>2. /\ t \in Trees /\ t.left \in [Procs -> Ptr] /\ t.right \in [Procs -> Ptr]
      /\ bh \in [Ptr -> Nat] /\ bh[Null] = 0 /\ pos \in [Procs -> Nat]
      /\ \A c \in Procs : pos[c] > 0 => HeightOK(t, bh, Null, c)
  <2>1. /\ t \in Trees /\ t.left \in [Procs -> Ptr] /\ t.right \in [Procs -> Ptr] /\ t.root \in Ptr
        /\ pos \in [Procs -> Nat]
    BY <1>1 DEF Shape, Trees
  <2>2. QED
    BY <1>1, <2>1 DEF Heights
<1>3. /\ n # Null /\ pos[n] > 0 /\ t.color[n] = RED /\ up # Null /\ t.color[up] = RED
      /\ IsBlack(t, t.root)
  BY <1>1 DEF InsertOK, Cases, RootBlack
<1>4. /\ n \in Procs /\ up \in Procs /\ g \in Procs /\ n # up /\ up # g /\ n # g /\ t.color[g] = BLACK
      /\ UpOK(t, Len(s), pos, lo, hi, n, up) /\ UpOK(t, Len(s), pos, lo, hi, up, g)
      /\ getUncleProc(t, n) = IF up = t.left[g] THEN t.right[g] ELSE t.left[g]
  BY SMTT(30) DEF Grand
<1>5. pos[up] > 0 /\ t.right[g] # up /\ t.left[up] # n
  BY <1>4 DEF UpOK
<1>6. IsBlack(t, uncle)
  BY <1>1, <1>4, <1>5 DEF InsertOK
<1>7. /\ Layout(r, s, pos, lo2, hi2, Null) /\ LeftRotated(t, r, up) /\ r.color = t.color
      /\ LeftTurn(t, Len(s), pos, lo, hi, up)
  <2>1. Layout(t, s, pos, lo, hi, Null) /\ up \in Procs /\ pos[up] > 0 /\ t.right[up] = n /\ n # Null
    BY <1>1, <1>3, <1>4, <1>5
  <2>2. Recoloured(t, t)
    BY SMTT(30), <1>2, RecolouredSame
  <2> HIDE DEF up, g
  <2>3. QED
    BY <2>1, <2>2, LeftTurnLayout
<1> HIDE DEF r, lo2, hi2
<1>8. /\ r.root = t.root
      /\ r.left[up] = t.left[up] /\ r.right[up] = inner
      /\ r.left[n] = up /\ r.right[n] = t.right[n]
      /\ r.left[g] = n /\ r.right[g] = t.right[g]
      /\ r.pParent[up] = n /\ r.pParent[n] = g
  BY <1>3, <1>4, <1>5, <1>7, NullAssumption DEF LeftRotated
<1>9. inner # n /\ inner \in Ptr /\ t.right[n] \in Ptr /\ t.left[up] \in Ptr /\ t.right[n] # n
  <2>1. inner # n
    BY ZenonT(30), <1>7 DEF LeftTurn
  <2>2. t.right[n] # n
    BY <1>1, <1>3, <1>4, DownFacts
  <2>3. QED
    BY <1>2, <1>4, <2>1, <2>2
<1>10. Heights(r, pos, bh, Null)
  <2>1. HeightOK(t, bh, Null, n) /\ HeightOK(t, bh, Null, up)
    BY <1>2, <1>3, <1>4, <1>5
  <2>2. /\ BlackBit(t, n) = 0 /\ BlackBit(t, up) = 0 /\ Lacks(n, Null) = 0 /\ Lacks(up, Null) = 0
        /\ BlackBit(r, n) = 0 /\ BlackBit(r, up) = 0
    BY <1>3, <1>7 DEF BlackBit, Lacks, RED, BLACK
  <2>3. /\ bh[n] \in Nat /\ bh[up] \in Nat /\ bh[inner] \in Nat
        /\ bh[t.right[n]] \in Nat /\ bh[t.left[up]] \in Nat
    BY <1>2, <1>4, <1>9 DEF Ptr
  <2>4. /\ bh[n] = bh[up] /\ bh[inner] = bh[n] /\ bh[t.right[n]] = bh[n] /\ bh[t.left[up]] = bh[n]
    BY <2>1, <2>2, <2>3 DEF HeightOK
  <2>5. HeightOK(r, bh, Null, up) /\ HeightOK(r, bh, Null, n)
    BY <1>8, <2>2, <2>3, <2>4 DEF HeightOK
  <2>6. LeftHeights(t, r, up, Null, bh, Null, bh, Null)
    BY <1>2, <1>7, <2>4, <2>5 DEF LeftHeights, Ptr
  <2>7. QED
    BY <1>1, <1>7, <2>6, LeftTurnHeights
<1>11. RedRule(r, pos, Null, up)
  <2>1. RedOK(t, Null, n, n) /\ RedOK(t, Null, n, up)
    BY <1>1, <1>3, <1>4, <1>5 DEF RedRule
  <2>2. ~IsRed(t, inner) /\ ~IsRed(t, t.right[n]) /\ ~IsRed(t, t.left[up])
    BY <1>3, <1>5, <1>9, <2>1 DEF RedOK
  <2>3. RedOK(r, Null, up, up) /\ RedOK(r, Null, up, n)
    BY <1>7, <1>8, <2>2 DEF RedOK, IsRed
  <2>4. LeftRed(t, r, up, Null, n, up)
    BY <1>3, <1>4, <1>7, <2>3 DEF LeftRed, Ptr
  <2>5. QED
    BY <1>1, <1>7, <2>4, LeftTurnRed
<1>12. RootBlack(r, "case5", up)
  BY <1>3, <1>7, <1>8 DEF RootBlack, IsBlack
<1>13. InsertOK(r, pos, "case5", up)
  <2>1. up # Null /\ pos[up] > 0 /\ r.color[up] = RED /\ r.pParent[up] # Null
        /\ r.color[r.pParent[up]] = RED
    BY <1>3, <1>4, <1>5, <1>7, <1>8, NullAssumption
  <2>2. Outer(r, up)
    BY <1>8 DEF Outer
  <2>3. getUncleProc(r, up) = uncle
    <3>1. t.right[g] # n
      BY <1>1, <1>3, <1>4, <1>5, DownFacts DEF UpOK
    <3>2. getGrandparentProc(r, up) = g
      BY <1>3, <1>4, <1>8, NullAssumption DEF getGrandparentProc
    <3>3. QED
      BY SMTT(30), <1>3, <1>4, <1>8, <3>1, <3>2, NullAssumption DEF getUncleProc
  <2>4. IsBlack(r, getUncleProc(r, up))
    BY <1>6, <1>7, <2>3 DEF IsBlack
  <2>5. QED
    BY <2>1, <2>2, <2>4 DEF InsertOK
<1>14. MinSeat(r, pos, m)
  BY <1>1, <1>7, LeftTurnMin
<1>15. CaseOK(r, s, pos, lo2, hi2, bh, "case5", up, m)
  BY <1>7, <1>10, <1>11, <1>12, <1>13, <1>14 DEF CaseOK, Cases
<1>16. QED
  BY <1>15 DEF r

\* Case 5, an outer grandchild on the right: the left rotation at the grandparent.
LEMMA Case5Left ==
  ASSUME NEW t, NEW s, NEW pos, NEW lo, NEW hi, NEW bh, NEW n, NEW m \in Ptr,
         CaseOK(t, s, pos, lo, hi, bh, "case5", n, m), Grand(t, Len(s), pos, lo, hi, n),
         n = t.right[t.pParent[n]], t.pParent[n] = t.right[t.pParent[t.pParent[n]]],
         NEW q, Recoloured(t, q), q.color[t.pParent[n]] = BLACK,
         q.color[t.pParent[t.pParent[n]]] = RED,
         \A c \in Procs \ {t.pParent[n], t.pParent[t.pParent[n]]} : q.color[c] = t.color[c]
  PROVE  \E lo2, hi2, bh2 : CaseOK(rotateLeft(q, t.pParent[t.pParent[n]]), s, pos, lo2, hi2, bh2, "min", n, m)
<1> DEFINE up == t.pParent[n]
           g == t.pParent[up]
           uncle == t.left[g]
           inner == t.left[up]
           r == rotateLeft(q, g)
           lo2 == LeftLo(pos, lo, g, up)
           hi2 == LeftHi(pos, hi, g, up)
           bh2 == [bh EXCEPT ![g] = bh[g] - 1, ![up] = bh[g]]
<1>1. /\ Layout(t, s, pos, lo, hi, Null) /\ Shape(t, Len(s), pos, lo, hi)
      /\ Heights(t, pos, bh, Null) /\ RedRule(t, pos, Null, n)
      /\ RootBlack(t, "case5", n) /\ InsertOK(t, pos, "case5", n) /\ MinSeat(t, pos, m)
  BY DEF CaseOK, Layout, Cases
<1>2. /\ t \in Trees /\ t.left \in [Procs -> Ptr] /\ t.right \in [Procs -> Ptr] /\ t.root \in Ptr
      /\ bh \in [Ptr -> Nat] /\ bh[Null] = 0 /\ pos \in [Procs -> Nat]
      /\ \A c \in Procs : pos[c] > 0 => HeightOK(t, bh, Null, c)
  <2>1. /\ t \in Trees /\ t.left \in [Procs -> Ptr] /\ t.right \in [Procs -> Ptr] /\ t.root \in Ptr
        /\ pos \in [Procs -> Nat]
    BY SMTT(30), <1>1 DEF Shape, Trees
  <2>2. QED
    BY <1>1, <2>1 DEF Heights
<1>3. /\ n # Null /\ pos[n] > 0 /\ t.color[n] = RED /\ up # Null /\ t.color[up] = RED
      /\ IsBlack(t, t.root)
  BY <1>1 DEF InsertOK, Cases, RootBlack
<1>4. /\ n \in Procs /\ up \in Procs /\ g \in Procs /\ n # up /\ up # g /\ n # g /\ t.color[g] = BLACK
      /\ UpOK(t, Len(s), pos, lo, hi, n, up) /\ UpOK(t, Len(s), pos, lo, hi, up, g)
      /\ getUncleProc(t, n) = IF up = t.left[g] THEN t.right[g] ELSE t.left[g]
  BY SMTT(30) DEF Grand
<1>5. pos[up] > 0 /\ pos[g] > 0 /\ g # Null /\ t.left[g] # up /\ t.left[up] # n
  BY SMTT(30), <1>4, NullAssumption DEF UpOK
<1>6. IsBlack(t, uncle)
  BY <1>1, <1>4, <1>5 DEF InsertOK
<1>7. /\ Layout(r, s, pos, lo2, hi2, Null) /\ LeftRotated(t, r, g) /\ r.color = q.color
      /\ LeftTurn(t, Len(s), pos, lo, hi, g)
  <2>1. Layout(t, s, pos, lo, hi, Null) /\ g \in Procs /\ pos[g] > 0 /\ t.right[g] = up /\ up # Null
    BY <1>1, <1>3, <1>4, <1>5
  <2> HIDE DEF up, g
  <2>3. QED
    BY <2>1, LeftTurnLayout
<1> HIDE DEF r, lo2, hi2
<1>8. /\ r.root = IF t.pParent[g] = Null THEN up ELSE t.root
      /\ r.left[g] = uncle /\ r.right[g] = inner
      /\ r.left[up] = g /\ r.right[up] = n
  BY ZenonT(30), <1>3, <1>4, <1>5, <1>7, NullAssumption DEF LeftRotated, LeftTurn
<1>9. inner \in Ptr /\ uncle \in Ptr /\ uncle # g /\ uncle # up /\ inner # up /\ inner # g
  <2>1. inner \in Ptr /\ uncle \in Ptr
    BY <1>2, <1>4
  <2>2. inner # g /\ inner # up
    <3>1. t.right[g] = up
      OBVIOUS
    <3>2. QED
      BY <1>7, <3>1 DEF LeftTurn
  <2>3. uncle # g
    <3>1. t.pParent[g] # g
      BY ZenonT(30), <1>7 DEF LeftTurn
    <3>2. uncle # Null => t.pParent[uncle] = g
      BY <1>1, <1>4, <1>5, DownFacts
    <3>3. QED
      BY <1>5, <3>1, <3>2
  <2>4. QED
    BY <1>5, <2>1, <2>2, <2>3
<1>a. \A c \in Procs \ {up, g} : r.color[c] = t.color[c]
  BY <1>7
<1>b. r.color[up] = BLACK /\ r.color[g] = RED
  BY <1>7
<1>c. uncle # g
  BY <1>9
<1> HIDE DEF up, g
<1>10. Heights(r, pos, bh2, Null)
  <2>1. HeightOK(t, bh, Null, up) /\ HeightOK(t, bh, Null, g)
    BY <1>2, <1>3, <1>4, <1>5
  <2>2. /\ BlackBit(t, up) = 0 /\ BlackBit(t, g) = 1 /\ Lacks(up, Null) = 0 /\ Lacks(g, Null) = 0
        /\ BlackBit(r, up) = 1 /\ BlackBit(r, g) = 0
    BY <1>3, <1>4, <1>5, <1>b DEF BlackBit, Lacks, RED, BLACK
  <2>3. /\ bh[n] \in Nat /\ bh[up] \in Nat /\ bh[inner] \in Nat /\ bh[uncle] \in Nat /\ bh[g] \in Nat
    BY <1>2, <1>4, <1>9 DEF Ptr
  <2>4. /\ bh[n] = bh[up] /\ bh[inner] = bh[up] /\ bh[uncle] = bh[up] /\ bh[g] = bh[up] + 1
    <3>1. t.right[up] = n /\ t.right[g] = up
      BY DEF up, g
    <3>2. QED
      BY <2>1, <2>2, <2>3, <3>1 DEF HeightOK
  <2>5. /\ bh2 \in [Ptr -> Nat] /\ bh2[Null] = 0 /\ bh2[g] = bh[g] - 1 /\ bh2[up] = bh[g]
        /\ \A c \in Ptr : c # g /\ c # up => bh2[c] = bh[c]
    <3>1. bh[g] - 1 \in Nat /\ g \in Ptr /\ up \in Ptr /\ Null \in Ptr
      BY <1>4, <2>3, <2>4 DEF Ptr
    <3>2. bh2 \in [Ptr -> Nat]
      BY <1>2, <2>3, <3>1
    <3>3. QED
      BY <1>2, <1>3, <1>4, <1>5, <3>1, <3>2
  <2> HIDE DEF bh2
  <2>6. bh2[n] = bh[n] /\ bh2[inner] = bh[inner] /\ bh2[uncle] = bh[uncle]
    BY <1>4, <1>9, <2>5 DEF Ptr
  <2> HIDE DEF inner, uncle
  <2>7. HeightOK(r, bh2, Null, g) /\ HeightOK(r, bh2, Null, up)
    BY <1>8, <2>2, <2>3, <2>4, <2>5, <2>6 DEF HeightOK
  <2>8. t.right[g] = up
    BY DEF up, g
  <2>9. LeftHeights(t, r, g, Null, bh, Null, bh2, Null)
    BY <1>a, <2>5, <2>7, <2>8 DEF LeftHeights, Ptr
  <2>10. QED
    BY <1>1, <1>7, <2>9, LeftTurnHeights
<1>11. RedRule(r, pos, Null, Null)
  <2>1. RedOK(t, Null, n, up)
    BY <1>1, <1>3, <1>4, <1>5 DEF RedRule
  <2>2. ~IsRed(t, inner) /\ ~IsRed(t, uncle)
    BY <1>3, <1>5, <1>6, <2>1 DEF RedOK, IsBlack, IsRed, RED, BLACK
  <2>3. ~IsRed(r, inner) /\ ~IsRed(r, uncle)
    BY <1>9, <1>a, <2>2 DEF IsRed, Ptr
  <2>4. RedOK(r, Null, Null, up) /\ RedOK(r, Null, Null, g)
    BY <1>8, <1>b, <2>3 DEF RedOK, RED, BLACK
  <2>5. t.right[g] = up /\ t.pParent[n] = up
    BY DEF up, g
  <2>6. LeftRed(t, r, g, Null, n, Null)
    BY <1>a, <1>b, <2>4, <2>5 DEF LeftRed, Ptr, RED, BLACK
  <2>7. QED
    BY <1>1, <1>7, <2>6, LeftTurnRed
<1>12. RootBlack(r, "min", n)
  <2>1. CASE t.pParent[g] = Null
    BY <1>8, <1>b, <2>1 DEF RootBlack, IsBlack
  <2>2. CASE t.pParent[g] # Null
    <3>1. t.root # g
      BY <1>1, <1>5, <2>2 DEF Shape, RootOK
    <3>2. t.root # Null => t.root \in Procs /\ t.color[t.root] = BLACK
      BY <1>2, <1>3 DEF IsBlack, Ptr
    <3>3. t.root # Null => r.color[t.root] = BLACK
      BY <1>a, <1>b, <3>1, <3>2
    <3>4. r.root = t.root
      BY <1>8, <2>2
    <3>5. QED
      BY <3>3, <3>4 DEF RootBlack, IsBlack
  <2>3. QED
    BY <2>1, <2>2
<1>13. InsertOK(r, pos, "min", n)
  BY DEF InsertOK, Cases
<1>14. MinSeat(r, pos, m)
  BY <1>1, <1>7, LeftTurnMin
<1> HIDE DEF bh2
<1>15. CaseOK(r, s, pos, lo2, hi2, bh2, "min", n, m)
  BY <1>7, <1>10, <1>11, <1>12, <1>13, <1>14 DEF CaseOK, Cases
<1>16. QED
  BY <1>15 DEF r, up, g

\* Case 4, an inner grandchild on the right: the right rotation at the parent.
LEMMA Case4Right ==
  ASSUME NEW t, NEW s, NEW pos, NEW lo, NEW hi, NEW bh, NEW n, NEW m \in Ptr,
         CaseOK(t, s, pos, lo, hi, bh, "case4", n, m), Grand(t, Len(s), pos, lo, hi, n),
         n = t.left[t.pParent[n]], t.pParent[n] = t.right[t.pParent[t.pParent[n]]]
  PROVE  \E lo2, hi2 : CaseOK(rotateRight(t, t.pParent[n]), s, pos, lo2, hi2, bh, "case5", t.pParent[n], m)
<1> DEFINE up == t.pParent[n]
           g == t.pParent[up]
           uncle == t.left[g]
           inner == t.right[n]
           r == rotateRight(t, up)
           lo2 == RightLo(pos, lo, up, n)
           hi2 == RightHi(pos, hi, up, n)
<1>1. /\ Layout(t, s, pos, lo, hi, Null) /\ Shape(t, Len(s), pos, lo, hi)
      /\ Heights(t, pos, bh, Null) /\ RedRule(t, pos, Null, n)
      /\ RootBlack(t, "case4", n) /\ InsertOK(t, pos, "case4", n) /\ MinSeat(t, pos, m)
  BY DEF CaseOK, Layout, Cases
<1>2. /\ t \in Trees /\ t.left \in [Procs -> Ptr] /\ t.right \in [Procs -> Ptr]
      /\ bh \in [Ptr -> Nat] /\ bh[Null] = 0 /\ pos \in [Procs -> Nat]
      /\ \A c \in Procs : pos[c] > 0 => HeightOK(t, bh, Null, c)
  <2>1. /\ t \in Trees /\ t.left \in [Procs -> Ptr] /\ t.right \in [Procs -> Ptr] /\ t.root \in Ptr
        /\ pos \in [Procs -> Nat]
    BY <1>1 DEF Shape, Trees
  <2>2. QED
    BY <1>1, <2>1 DEF Heights
<1>3. /\ n # Null /\ pos[n] > 0 /\ t.color[n] = RED /\ up # Null /\ t.color[up] = RED
      /\ IsBlack(t, t.root)
  BY <1>1 DEF InsertOK, Cases, RootBlack
<1>4. /\ n \in Procs /\ up \in Procs /\ g \in Procs /\ n # up /\ up # g /\ n # g /\ t.color[g] = BLACK
      /\ UpOK(t, Len(s), pos, lo, hi, n, up) /\ UpOK(t, Len(s), pos, lo, hi, up, g)
      /\ getUncleProc(t, n) = IF up = t.left[g] THEN t.right[g] ELSE t.left[g]
  BY SMTT(30) DEF Grand
<1>5. pos[up] > 0 /\ t.left[g] # up /\ t.right[up] # n
  BY SMTT(30), <1>4 DEF UpOK
<1>6. IsBlack(t, uncle)
  BY <1>1, <1>4, <1>5 DEF InsertOK
<1>7. /\ Layout(r, s, pos, lo2, hi2, Null) /\ RightRotated(t, r, up) /\ r.color = t.color
      /\ RightTurn(t, Len(s), pos, lo, hi, up)
  <2>1. Layout(t, s, pos, lo, hi, Null) /\ up \in Procs /\ pos[up] > 0 /\ t.left[up] = n /\ n # Null
    BY <1>1, <1>3, <1>4, <1>5
  <2>2. Recoloured(t, t)
    BY SMTT(30), <1>2, RecolouredSame
  <2> HIDE DEF up, g
  <2>3. QED
    BY <2>1, <2>2, RightTurnLayout
<1> HIDE DEF r, lo2, hi2
<1>8. /\ r.root = t.root
      /\ r.right[up] = t.right[up] /\ r.left[up] = inner
      /\ r.right[n] = up /\ r.left[n] = t.left[n]
      /\ r.right[g] = n /\ r.left[g] = t.left[g]
      /\ r.pParent[up] = n /\ r.pParent[n] = g
  BY <1>3, <1>4, <1>5, <1>7, NullAssumption DEF RightRotated
<1>9. inner # n /\ inner \in Ptr /\ t.left[n] \in Ptr /\ t.right[up] \in Ptr /\ t.left[n] # n
  <2>1. inner # n
    BY ZenonT(30), <1>7 DEF RightTurn
  <2>2. t.left[n] # n
    BY <1>1, <1>3, <1>4, DownFacts
  <2>3. QED
    BY <1>2, <1>4, <2>1, <2>2
<1>10. Heights(r, pos, bh, Null)
  <2>1. HeightOK(t, bh, Null, n) /\ HeightOK(t, bh, Null, up)
    BY <1>2, <1>3, <1>4, <1>5
  <2>2. /\ BlackBit(t, n) = 0 /\ BlackBit(t, up) = 0 /\ Lacks(n, Null) = 0 /\ Lacks(up, Null) = 0
        /\ BlackBit(r, n) = 0 /\ BlackBit(r, up) = 0
    BY <1>3, <1>7 DEF BlackBit, Lacks, RED, BLACK
  <2>3. /\ bh[n] \in Nat /\ bh[up] \in Nat /\ bh[inner] \in Nat
        /\ bh[t.left[n]] \in Nat /\ bh[t.right[up]] \in Nat
    BY <1>2, <1>4, <1>9 DEF Ptr
  <2>4. /\ bh[n] = bh[up] /\ bh[inner] = bh[n] /\ bh[t.left[n]] = bh[n] /\ bh[t.right[up]] = bh[n]
    BY <2>1, <2>2, <2>3 DEF HeightOK
  <2>5. HeightOK(r, bh, Null, up) /\ HeightOK(r, bh, Null, n)
    BY <1>8, <2>2, <2>3, <2>4 DEF HeightOK
  <2>6. RightHeights(t, r, up, Null, bh, Null, bh, Null)
    BY <1>2, <1>7, <2>4, <2>5 DEF RightHeights, Ptr
  <2>7. QED
    BY <1>1, <1>7, <2>6, RightTurnHeights
<1>11. RedRule(r, pos, Null, up)
  <2>1. RedOK(t, Null, n, n) /\ RedOK(t, Null, n, up)
    BY <1>1, <1>3, <1>4, <1>5 DEF RedRule
  <2>2. ~IsRed(t, inner) /\ ~IsRed(t, t.left[n]) /\ ~IsRed(t, t.right[up])
    BY <1>3, <1>5, <1>9, <2>1 DEF RedOK
  <2>3. RedOK(r, Null, up, up) /\ RedOK(r, Null, up, n)
    BY <1>7, <1>8, <2>2 DEF RedOK, IsRed
  <2>4. RightRed(t, r, up, Null, n, up)
    BY <1>3, <1>4, <1>7, <2>3 DEF RightRed, Ptr
  <2>5. QED
    BY <1>1, <1>7, <2>4, RightTurnRed
<1>12. RootBlack(r, "case5", up)
  BY <1>3, <1>7, <1>8 DEF RootBlack, IsBlack
<1>13. InsertOK(r, pos, "case5", up)
  <2>1. up # Null /\ pos[up] > 0 /\ r.color[up] = RED /\ r.pParent[up] # Null
        /\ r.color[r.pParent[up]] = RED
    BY <1>3, <1>4, <1>5, <1>7, <1>8, NullAssumption
  <2>2. Outer(r, up)
    BY <1>8 DEF Outer
  <2>3. getUncleProc(r, up) = uncle
    <3>1. t.left[g] # n
      BY <1>1, <1>3, <1>4, <1>5, DownFacts DEF UpOK
    <3>2. getGrandparentProc(r, up) = g
      BY <1>3, <1>4, <1>8, NullAssumption DEF getGrandparentProc
    <3>3. QED
      BY SMTT(30), <1>3, <1>4, <1>8, <3>1, <3>2, NullAssumption DEF getUncleProc
  <2>4. IsBlack(r, getUncleProc(r, up))
    BY <1>6, <1>7, <2>3 DEF IsBlack
  <2>5. QED
    BY <2>1, <2>2, <2>4 DEF InsertOK
<1>14. MinSeat(r, pos, m)
  <2>1. pos[up] > 2
    <3>1. /\ pos[up] \in Nat /\ pos[n] \in Nat /\ pos[g] \in Nat
          /\ pos[g] > 0 /\ pos[g] < pos[n] /\ pos[n] < pos[up]
      <4>1. /\ pos[up] \in Nat /\ pos[n] \in Nat /\ pos[g] \in Nat /\ lo[n] \in Int /\ lo[up] \in Int
            /\ pos[g] > 0 /\ lo[n] <= pos[n]
        BY ZenonT(30), <1>1, <1>2, <1>3, <1>4 DEF UpOK, Shape, NodeOK
      <4>2. pos[n] < pos[up] /\ lo[n] = lo[up]
        BY SMTT(30), <1>4 DEF UpOK
      <4>3. lo[up] = pos[g] + 1
        BY <1>4 DEF UpOK
      <4>4. QED
        BY <4>1, <4>2, <4>3
    <3>2. QED
      BY <3>1
  <2>2. QED
    BY <1>1, <1>7, <2>1, RightTurnMin
<1>15. CaseOK(r, s, pos, lo2, hi2, bh, "case5", up, m)
  BY <1>7, <1>10, <1>11, <1>12, <1>13, <1>14 DEF CaseOK, Cases
<1>16. QED
  BY <1>15 DEF r

\* Case 5, an outer grandchild on the left: the right rotation at the grandparent.
LEMMA Case5Right ==
  ASSUME NEW t, NEW s, NEW pos, NEW lo, NEW hi, NEW bh, NEW n, NEW m \in Ptr,
         CaseOK(t, s, pos, lo, hi, bh, "case5", n, m), Grand(t, Len(s), pos, lo, hi, n),
         n = t.left[t.pParent[n]], t.pParent[n] = t.left[t.pParent[t.pParent[n]]],
         NEW q, Recoloured(t, q), q.color[t.pParent[n]] = BLACK,
         q.color[t.pParent[t.pParent[n]]] = RED,
         \A c \in Procs \ {t.pParent[n], t.pParent[t.pParent[n]]} : q.color[c] = t.color[c]
  PROVE  \E lo2, hi2, bh2 : CaseOK(rotateRight(q, t.pParent[t.pParent[n]]), s, pos, lo2, hi2, bh2, "min", n, m)
<1> DEFINE up == t.pParent[n]
           g == t.pParent[up]
           uncle == t.right[g]
           inner == t.right[up]
           r == rotateRight(q, g)
           lo2 == RightLo(pos, lo, g, up)
           hi2 == RightHi(pos, hi, g, up)
           bh2 == [bh EXCEPT ![g] = bh[g] - 1, ![up] = bh[g]]
<1>1. /\ Layout(t, s, pos, lo, hi, Null) /\ Shape(t, Len(s), pos, lo, hi)
      /\ Heights(t, pos, bh, Null) /\ RedRule(t, pos, Null, n)
      /\ RootBlack(t, "case5", n) /\ InsertOK(t, pos, "case5", n) /\ MinSeat(t, pos, m)
  BY DEF CaseOK, Layout, Cases
<1>2. /\ t \in Trees /\ t.left \in [Procs -> Ptr] /\ t.right \in [Procs -> Ptr] /\ t.root \in Ptr
      /\ bh \in [Ptr -> Nat] /\ bh[Null] = 0 /\ pos \in [Procs -> Nat]
      /\ \A c \in Procs : pos[c] > 0 => HeightOK(t, bh, Null, c)
  <2>1. /\ t \in Trees /\ t.left \in [Procs -> Ptr] /\ t.right \in [Procs -> Ptr] /\ t.root \in Ptr
        /\ pos \in [Procs -> Nat]
    BY <1>1 DEF Shape, Trees
  <2>2. QED
    BY <1>1, <2>1 DEF Heights
<1>3. /\ n # Null /\ pos[n] > 0 /\ t.color[n] = RED /\ up # Null /\ t.color[up] = RED
      /\ IsBlack(t, t.root)
  BY <1>1 DEF InsertOK, Cases, RootBlack
<1>4. /\ n \in Procs /\ up \in Procs /\ g \in Procs /\ n # up /\ up # g /\ n # g /\ t.color[g] = BLACK
      /\ UpOK(t, Len(s), pos, lo, hi, n, up) /\ UpOK(t, Len(s), pos, lo, hi, up, g)
      /\ getUncleProc(t, n) = IF up = t.left[g] THEN t.right[g] ELSE t.left[g]
  BY SMTT(30) DEF Grand
<1>5. pos[up] > 0 /\ pos[g] > 0 /\ g # Null /\ t.right[g] # up /\ t.right[up] # n
  BY <1>4, NullAssumption DEF UpOK
<1>6. IsBlack(t, uncle)
  BY <1>1, <1>4, <1>5 DEF InsertOK
<1>7. /\ Layout(r, s, pos, lo2, hi2, Null) /\ RightRotated(t, r, g) /\ r.color = q.color
      /\ RightTurn(t, Len(s), pos, lo, hi, g)
  <2>1. Layout(t, s, pos, lo, hi, Null) /\ g \in Procs /\ pos[g] > 0 /\ t.left[g] = up /\ up # Null
    BY <1>1, <1>3, <1>4, <1>5
  <2> HIDE DEF up, g
  <2>3. QED
    BY <2>1, RightTurnLayout
<1> HIDE DEF r, lo2, hi2
<1>8. /\ r.root = IF t.pParent[g] = Null THEN up ELSE t.root
      /\ r.right[g] = uncle /\ r.left[g] = inner
      /\ r.right[up] = g /\ r.left[up] = n
  BY ZenonT(30), <1>3, <1>4, <1>5, <1>7, NullAssumption DEF RightRotated, RightTurn
<1>9. inner \in Ptr /\ uncle \in Ptr /\ uncle # g /\ uncle # up /\ inner # up /\ inner # g
  <2>1. inner \in Ptr /\ uncle \in Ptr
    BY <1>2, <1>4
  <2>2. inner # g /\ inner # up
    <3>1. t.left[g] = up
      OBVIOUS
    <3>2. QED
      BY <1>7, <3>1 DEF RightTurn
  <2>3. uncle # g
    <3>1. t.pParent[g] # g
      BY ZenonT(30), <1>7 DEF RightTurn
    <3>2. uncle # Null => t.pParent[uncle] = g
      BY <1>1, <1>4, <1>5, DownFacts
    <3>3. QED
      BY <1>5, <3>1, <3>2
  <2>4. QED
    BY <1>5, <2>1, <2>2, <2>3
<1>a. \A c \in Procs \ {up, g} : r.color[c] = t.color[c]
  BY <1>7
<1>b. r.color[up] = BLACK /\ r.color[g] = RED
  BY <1>7
<1>c. uncle # g
  BY <1>9
<1> HIDE DEF up, g
<1>10. Heights(r, pos, bh2, Null)
  <2>1. HeightOK(t, bh, Null, up) /\ HeightOK(t, bh, Null, g)
    BY <1>2, <1>3, <1>4, <1>5
  <2>2. /\ BlackBit(t, up) = 0 /\ BlackBit(t, g) = 1 /\ Lacks(up, Null) = 0 /\ Lacks(g, Null) = 0
        /\ BlackBit(r, up) = 1 /\ BlackBit(r, g) = 0
    BY <1>3, <1>4, <1>5, <1>b DEF BlackBit, Lacks, RED, BLACK
  <2>3. /\ bh[n] \in Nat /\ bh[up] \in Nat /\ bh[inner] \in Nat /\ bh[uncle] \in Nat /\ bh[g] \in Nat
    BY <1>2, <1>4, <1>9 DEF Ptr
  <2>4. /\ bh[n] = bh[up] /\ bh[inner] = bh[up] /\ bh[uncle] = bh[up] /\ bh[g] = bh[up] + 1
    <3>1. t.left[up] = n /\ t.left[g] = up
      BY DEF up, g
    <3>2. QED
      BY <2>1, <2>2, <2>3, <3>1 DEF HeightOK
  <2>5. /\ bh2 \in [Ptr -> Nat] /\ bh2[Null] = 0 /\ bh2[g] = bh[g] - 1 /\ bh2[up] = bh[g]
        /\ \A c \in Ptr : c # g /\ c # up => bh2[c] = bh[c]
    <3>1. bh[g] - 1 \in Nat /\ g \in Ptr /\ up \in Ptr /\ Null \in Ptr
      BY <1>4, <2>3, <2>4 DEF Ptr
    <3>2. bh2 \in [Ptr -> Nat]
      BY <1>2, <2>3, <3>1
    <3>3. QED
      BY <1>2, <1>3, <1>4, <1>5, <3>1, <3>2
  <2> HIDE DEF bh2
  <2>6. bh2[n] = bh[n] /\ bh2[inner] = bh[inner] /\ bh2[uncle] = bh[uncle]
    BY <1>4, <1>9, <2>5 DEF Ptr
  <2> HIDE DEF inner, uncle
  <2>7. HeightOK(r, bh2, Null, g) /\ HeightOK(r, bh2, Null, up)
    BY <1>8, <2>2, <2>3, <2>4, <2>5, <2>6 DEF HeightOK
  <2>8. t.left[g] = up
    BY DEF up, g
  <2>9. RightHeights(t, r, g, Null, bh, Null, bh2, Null)
    BY <1>a, <2>5, <2>7, <2>8 DEF RightHeights, Ptr
  <2>10. QED
    BY <1>1, <1>7, <2>9, RightTurnHeights
<1>11. RedRule(r, pos, Null, Null)
  <2>1. RedOK(t, Null, n, up)
    BY <1>1, <1>3, <1>4, <1>5 DEF RedRule
  <2>2. ~IsRed(t, inner) /\ ~IsRed(t, uncle)
    BY <1>3, <1>5, <1>6, <2>1 DEF RedOK, IsBlack, IsRed, RED, BLACK
  <2>3. ~IsRed(r, inner) /\ ~IsRed(r, uncle)
    BY <1>9, <1>a, <2>2 DEF IsRed, Ptr
  <2>4. RedOK(r, Null, Null, up) /\ RedOK(r, Null, Null, g)
    BY <1>8, <1>b, <2>3 DEF RedOK, RED, BLACK
  <2>5. t.left[g] = up /\ t.pParent[n] = up
    BY DEF up, g
  <2>6. RightRed(t, r, g, Null, n, Null)
    BY <1>a, <1>b, <2>4, <2>5 DEF RightRed, Ptr, RED, BLACK
  <2>7. QED
    BY <1>1, <1>7, <2>6, RightTurnRed
<1>12. RootBlack(r, "min", n)
  <2>1. CASE t.pParent[g] = Null
    BY <1>8, <1>b, <2>1 DEF RootBlack, IsBlack
  <2>2. CASE t.pParent[g] # Null
    <3>1. t.root # g
      BY <1>1, <1>5, <2>2 DEF Shape, RootOK
    <3>2. t.root # Null => t.root \in Procs /\ t.color[t.root] = BLACK
      BY <1>2, <1>3 DEF IsBlack, Ptr
    <3>3. t.root # Null => r.color[t.root] = BLACK
      BY <1>a, <1>b, <3>1, <3>2
    <3>4. r.root = t.root
      BY <1>8, <2>2
    <3>5. QED
      BY <3>3, <3>4 DEF RootBlack, IsBlack
  <2>3. QED
    BY <2>1, <2>2
<1>13. InsertOK(r, pos, "min", n)
  BY DEF InsertOK, Cases
<1>14. MinSeat(r, pos, m)
  <2>1. pos[g] > 2
    <3>1. /\ pos[g] \in Nat /\ pos[up] \in Nat /\ pos[n] \in Nat
          /\ pos[n] > 0 /\ pos[n] < pos[up] /\ pos[up] < pos[g]
      <4>1. pos[up] \in Nat /\ pos[n] \in Nat /\ pos[g] \in Nat
        BY <1>2, <1>4
      <4>2. t.left[g] = up /\ t.left[up] = n
        BY DEF up, g
      <4>3. pos[n] < pos[up]
        BY <1>4, <4>2 DEF UpOK
      <4>4. pos[up] < pos[g]
        BY <1>4, <4>2 DEF UpOK
      <4>5. QED
        BY <1>3, <4>1, <4>3, <4>4
    <3>2. QED
      BY <3>1
  <2>2. QED
    BY <1>1, <1>7, <2>1, RightTurnMin
<1> HIDE DEF bh2
<1>15. CaseOK(r, s, pos, lo2, hi2, bh2, "min", n, m)
  BY <1>7, <1>10, <1>11, <1>12, <1>13, <1>14 DEF CaseOK, Cases
<1>16. QED
  BY <1>15 DEF r, up, g

\* Case 4: an inner grandchild becomes an outer one.
LEMMA Case4Inv ==
  ASSUME NEW s, NEW pos, NEW lo, NEW hi, NEW bh, TreeInv(s, pos, lo, hi, bh), insertionCase4
  PROVE  \E lo2, hi2, bh2 : TreeInv(s, pos, lo2, hi2, bh2)'
<1>0. PICK n, t, m : n = op.node /\ t = tree /\ m = minvRuntime
  OBVIOUS
<1> DEFINE up == t.pParent[n]
           g == t.pParent[up]
<1>1. op.at = "case4" /\ op.at \in Cases /\ m \in Ptr
  BY <1>0 DEF insertionCase4, Cases, TreeInv, OpTypes
<1>2. /\ CaseOK(t, s, pos, lo, hi, bh, "case4", n, m) /\ Shape(t, Len(s), pos, lo, hi)
      /\ RedRule(t, pos, Null, n) /\ RootBlack(t, "case4", n) /\ InsertOK(t, pos, "case4", n)
      /\ n \in Procs /\ pos[n] > 0 /\ t.color[n] = RED
  BY <1>0, <1>1, InsertFacts
<1>3. up # Null /\ t.color[up] = RED /\ IsBlack(t, t.root)
  BY <1>1, <1>2 DEF InsertOK, RootBlack
<1>4. Grand(t, Len(s), pos, lo, hi, n)
  BY SMTT(30), <1>2, <1>3, GrandFacts
<1>5. getGrandparentProc(t, n) = g /\ up \in Procs
  BY <1>4 DEF Grand
<1>6. "case5" \in Cases \cup {"min"}
  BY DEF Cases
<1>7. CASE n = t.right[up] /\ up = t.left[g]
  <2>1. NextCase(rotateLeft(t, up), "case5", up)
    BY <1>0, <1>5, <1>7 DEF insertionCase4
  <2>2. PICK lo2, hi2 : CaseOK(rotateLeft(t, up), s, pos, lo2, hi2, bh, "case5", up, m)
    BY <1>1, <1>2, <1>4, <1>7, Case4Left
  <2>3. TreeInv(s, pos, lo2, hi2, bh)'
    BY SMTT(30), <1>0, <1>1, <1>5, <1>6, <2>1, <2>2, NextCaseInv
  <2>4. QED
    BY <2>3
<1>8. CASE n = t.left[up] /\ up = t.right[g]
  <2>0. ~(n = t.right[up] /\ up = t.left[g])
    BY <1>4, <1>8 DEF Grand, UpOK
  <2>1. NextCase(rotateRight(t, up), "case5", up)
    BY <1>0, <1>5, <1>8, <2>0 DEF insertionCase4
  <2>2. PICK lo2, hi2 : CaseOK(rotateRight(t, up), s, pos, lo2, hi2, bh, "case5", up, m)
    BY <1>1, <1>2, <1>4, <1>8, Case4Right
  <2>3. TreeInv(s, pos, lo2, hi2, bh)'
    BY <1>0, <1>1, <1>5, <1>6, <2>1, <2>2, NextCaseInv
  <2>4. QED
    BY <2>3
<1>9. CASE ~(n = t.right[up] /\ up = t.left[g]) /\ ~(n = t.left[up] /\ up = t.right[g])
  <2>1. NextCase(t, "case5", n)
    BY SMTT(30), <1>0, <1>5, <1>9 DEF insertionCase4
  <2>2. Outer(t, n)
    BY <1>4, <1>9 DEF Grand, UpOK, Outer
  <2>3. InsertOK(t, pos, "case5", n) /\ RootBlack(t, "case5", n)
    BY <1>2, <1>3, <2>2 DEF InsertOK, RootBlack, Cases
  <2>4. CaseOK(t, s, pos, lo, hi, bh, "case5", n, m)
    BY <1>2, <2>3 DEF CaseOK, Cases
  <2>5. TreeInv(s, pos, lo, hi, bh)'
    BY <1>0, <1>1, <1>2, <1>6, <2>1, <2>4, NextCaseInv
  <2>6. QED
    BY <2>5
<1>10. QED
  BY <1>7, <1>8, <1>9

\* Case 5: the grandparent goes down and the red rule holds everywhere.
LEMMA Case5Inv ==
  ASSUME NEW s, NEW pos, NEW lo, NEW hi, NEW bh, TreeInv(s, pos, lo, hi, bh), insertionCase5
  PROVE  \E lo2, hi2, bh2 : TreeInv(s, pos, lo2, hi2, bh2)'
<1>0. PICK n, t, m : n = op.node /\ t = tree /\ m = minvRuntime
  OBVIOUS
<1> DEFINE up == t.pParent[n]
           g == t.pParent[up]
           q == SetColor(SetColor(t, g, RED), up, BLACK)
<1>1. op.at = "case5" /\ op.at \in Cases /\ m \in Ptr
  BY <1>0 DEF insertionCase5, Cases, TreeInv, OpTypes
<1>2. /\ CaseOK(t, s, pos, lo, hi, bh, "case5", n, m) /\ Shape(t, Len(s), pos, lo, hi)
      /\ RedRule(t, pos, Null, n) /\ RootBlack(t, "case5", n) /\ InsertOK(t, pos, "case5", n)
      /\ n \in Procs /\ pos[n] > 0 /\ t.color[n] = RED
  BY <1>0, <1>1, InsertFacts
<1>3. up # Null /\ t.color[up] = RED /\ IsBlack(t, t.root) /\ Outer(t, n)
  BY <1>1, <1>2 DEF InsertOK, RootBlack
<1>4. Grand(t, Len(s), pos, lo, hi, n)
  BY SMTT(30), <1>2, <1>3, GrandFacts
<1>5. getGrandparentProc(t, n) = g /\ up \in Procs /\ g \in Procs /\ up # g /\ g # Null
  BY <1>4, NullAssumption DEF Grand
<1>6. "min" \in Cases \cup {"min"} /\ t \in Trees
  BY <1>2 DEF Shape
<1>7. /\ Recoloured(t, q) /\ q.color[up] = BLACK /\ q.color[g] = RED
      /\ \A c \in Procs \ {up, g} : q.color[c] = t.color[c]
  <2> DEFINE q1 == SetColor(t, g, RED)
  <2>1. /\ Recoloured(t, q1) /\ q1 \in Trees
        /\ \A c \in Procs : q1.color[c] = IF c = g THEN RED ELSE t.color[c]
    BY ZenonT(30), <1>5, <1>6, PaintFacts DEF Recoloured
  <2> HIDE DEF q1
  <2>2. /\ Recoloured(q1, SetColor(q1, up, BLACK))
        /\ \A c \in Procs : SetColor(q1, up, BLACK).color[c] = IF c = up THEN BLACK ELSE q1.color[c]
    BY <1>5, <2>1, PaintFacts
  <2>3. q = SetColor(q1, up, BLACK)
    BY DEF q1
  <2> HIDE DEF q, g, up
  <2>4. QED
    BY <1>5, <2>1, <2>2, <2>3 DEF Recoloured
<1> HIDE DEF q
<1>8. CASE n = t.left[up] /\ up = t.left[g]
  <2>1. NextCase(rotateRight(q, g), "min", n)
    BY <1>0, <1>5, <1>8 DEF insertionCase5, q
  <2>2. PICK lo2, hi2, bh2 : CaseOK(rotateRight(q, g), s, pos, lo2, hi2, bh2, "min", n, m)
    BY <1>1, <1>2, <1>4, <1>7, <1>8, Case5Right
  <2>3. TreeInv(s, pos, lo2, hi2, bh2)'
    BY SMTT(30), <1>0, <1>1, <1>2, <1>6, <2>1, <2>2, NextCaseInv
  <2>4. QED
    BY <2>3
<1>9. CASE n = t.right[up] /\ up = t.right[g]
  <2>0. ~(n = t.left[up] /\ up = t.left[g])
    BY <1>4, <1>9 DEF Grand, UpOK
  <2>1. NextCase(rotateLeft(q, g), "min", n)
    BY <1>0, <1>5, <1>9, <2>0 DEF insertionCase5, q
  <2>2. PICK lo2, hi2, bh2 : CaseOK(rotateLeft(q, g), s, pos, lo2, hi2, bh2, "min", n, m)
    BY <1>1, <1>2, <1>4, <1>7, <1>9, Case5Left
  <2>3. TreeInv(s, pos, lo2, hi2, bh2)'
    BY <1>0, <1>1, <1>2, <1>6, <2>1, <2>2, NextCaseInv
  <2>4. QED
    BY <2>3
<1>10. QED
  BY <1>3, <1>8, <1>9 DEF Outer

\* insertDone refreshes the cached minimum when it is not the first.
LEMMA InsertDoneInv ==
  ASSUME NEW s, NEW pos, NEW lo, NEW hi, NEW bh, TreeInv(s, pos, lo, hi, bh), insertDone
  PROVE  TreeInv(s, pos, lo, hi, bh)'
<1>1. /\ op.at = "min" /\ op' = Idle /\ tree' = tree /\ count' = count
      /\ virtualRuntime' = virtualRuntime
      /\ minvRuntime' = IF minvRuntime = Null \/ tree.left[minvRuntime] # Null
                        THEN setMinimumVRuntimeproc(tree, tree.root) ELSE minvRuntime
  BY DEF insertDone
<1>2. op'.at = "idle" /\ op'.node = Null /\ op'.proc = Null
  BY <1>1 DEF Idle
<1>3. /\ ~Unlinking /\ ~Unlinking' /\ Gone = Null /\ Gone' = Null /\ Deficient = Null
      /\ Deficient' = Null /\ Above = Null /\ Above' = Null /\ Below = Null /\ Below' = Null
  BY <1>1, <1>2 DEF Unlinking, Gone, Deficient, Above, Below, Cases
<1>4. Layout(tree, s, pos, lo, hi, Null) /\ Seats(s, pos) /\ minvRuntime \in Ptr
  BY <1>3 DEF TreeInv, Layout, OpTypes
<1>5. setMinimumVRuntimeproc(tree, tree.root) = IF Len(s) = 0 THEN Null ELSE s[1]
  BY <1>4, MinimumLayout
<1>6. minvRuntime' = IF Len(s) = 0 THEN Null ELSE s[1]
  <2>1. CASE minvRuntime = Null \/ tree.left[minvRuntime] # Null
    BY <1>1, <1>5, <2>1
  <2>2. CASE ~(minvRuntime = Null \/ tree.left[minvRuntime] # Null)
    <3>1. minvRuntime \in Procs /\ pos[minvRuntime] = 1
      BY <1>1, <1>4, <2>2 DEF TreeInv, MinOK, MinSeat, Ptr
    <3>2. s[1] = minvRuntime /\ Len(s) # 0
      BY <1>4, <3>1 DEF Seats
    <3>3. QED
      BY <1>1, <2>2, <3>2
  <2>3. QED
    BY <2>1, <2>2
<1>7. s \in Seq(Procs) /\ (Len(s) # 0 => s[1] \in Procs)
  BY <1>4 DEF Seats
<1>8. OpTypes'
  BY <1>1, <1>2, <1>6, <1>7 DEF TreeInv, OpTypes, Idle, Ptr
<1>9. MinOK(s, pos)' /\ CountOK(s)'
  BY <1>1, <1>2, <1>3, <1>6 DEF TreeInv, MinOK, CountOK, Cases
<1>10. RootBlack(tree, op.at, op.node)' /\ InsertOK(tree, pos, op.at, op.node)'
  BY <1>1, <1>2 DEF TreeInv, RootBlack, InsertOK, Cases
<1>11. RebalanceOK(pos, lo)' /\ RetrieveOK(pos)'
  BY <1>2, <1>3 DEF RebalanceOK, RetrieveOK
<1>12. QED
  BY <1>1, <1>3, <1>8, <1>9, <1>10, <1>11 DEF TreeInv

-----------------------------------------------------------------------------
(* insertProcess establishes the invariant of insertionCases.              *)

\* The sequence s with p after its first k processes, and the seats in it.
InsertedAt(s, k, p) ==
  [i \in 1..(Len(s) + 1) |-> IF i <= k THEN s[i] ELSE IF i = k + 1 THEN p ELSE s[i - 1]]
InsertedPos(pos, k, p) ==
  [m \in Procs |-> IF m = p THEN k + 1 ELSE IF pos[m] > k THEN pos[m] + 1 ELSE pos[m]]

\* The seats below a node when one is inserted next to the seat j.
InsertedLo(lo, j, k, p) ==
  [m \in Procs |-> IF m = p THEN k + 1 ELSE IF lo[m] > j THEN lo[m] + 1 ELSE lo[m]]
InsertedHi(hi, j, k, p) ==
  [m \in Procs |-> IF m = p THEN k + 1 ELSE IF hi[m] >= j THEN hi[m] + 1 ELSE hi[m]]

\* The first k keys of s are at most that of p, the others are above it.
Splits(s, vr, p, k) ==
  /\ k \in 0..Len(s)
  /\ \A i \in 1..k : vr[s[i]] <= vr[p]
  /\ \A i \in (k+1)..Len(s) : vr[p] < vr[s[i]]

\* Every process of the longer sequence has its seat.
LEMMA InsertedSeats ==
  ASSUME NEW s, NEW pos, Seats(s, pos), NEW p \in Procs, pos[p] = 0, NEW k \in 0..Len(s)
  PROVE  /\ Seats(InsertedAt(s, k, p), InsertedPos(pos, k, p))
         /\ Len(InsertedAt(s, k, p)) = Len(s) + 1
         /\ \A i \in 1..(Len(s) + 1) :
              InsertedAt(s, k, p)[i] = IF i <= k THEN s[i] ELSE IF i = k + 1 THEN p ELSE s[i - 1]
<1> DEFINE s2 == InsertedAt(s, k, p)
           pos2 == InsertedPos(pos, k, p)
<1>1. s \in Seq(Procs) /\ Len(s) \in Nat /\ pos \in [Procs -> 0..Len(s)]
  BY DEF Seats
<1>2. \A i \in 1..Len(s) : s[i] \in Procs /\ pos[s[i]] = i /\ s[i] # p
  BY <1>1 DEF Seats
<1>3. \A i \in 1..(Len(s) + 1) : /\ s2[i] = IF i <= k THEN s[i] ELSE IF i = k + 1 THEN p ELSE s[i - 1]
                                 /\ s2[i] \in Procs
  <2>1. \A i \in 1..(Len(s) + 1) : s2[i] = IF i <= k THEN s[i] ELSE IF i = k + 1 THEN p ELSE s[i - 1]
    BY DEF InsertedAt
  <2> HIDE DEF s2
  <2>2. \A i \in 1..(Len(s) + 1) : i <= k => i \in 1..Len(s)
    BY <1>1
  <2>3. \A i \in 1..(Len(s) + 1) : i > k + 1 => i - 1 \in 1..Len(s)
    BY <1>1
  <2>4. \A i \in 1..(Len(s) + 1) : i <= k \/ i = k + 1 \/ i > k + 1
    BY <1>1
  <2>5. \A i \in 1..(Len(s) + 1) : ~(i = k + 1 /\ i <= k) /\ ~(i > k + 1 /\ (i <= k \/ i = k + 1))
    BY <1>1
  <2>6. QED
    BY <1>2, <2>1, <2>2, <2>3, <2>4, <2>5
<1>4. s2 \in Seq(Procs) /\ Len(s2) = Len(s) + 1
  <2>1. s2 \in [1..(Len(s) + 1) -> Procs] /\ Len(s) + 1 \in Nat
    BY <1>1, <1>3 DEF InsertedAt
  <2>2. \A n \in Nat : \A f \in [1..n -> Procs] : f \in Seq(Procs) /\ Len(f) = n
    OBVIOUS
  <2> HIDE DEF s2
  <2>3. QED
    BY <2>1, <2>2
<1>5. /\ pos2 \in [Procs -> 0..(Len(s) + 1)] /\ pos2[p] = k + 1
      /\ \A m \in Procs : m # p => pos2[m] = IF pos[m] > k THEN pos[m] + 1 ELSE pos[m]
  BY <1>1 DEF InsertedPos
<1> HIDE DEF s2, pos2
<1>6. ASSUME NEW i \in 1..(Len(s) + 1)
      PROVE  pos2[s2[i]] = i
  <2>1. CASE i <= k
    <3>1. i \in 1..Len(s) /\ s2[i] = s[i]
      BY <1>1, <1>3, <2>1
    <3>2. QED
      BY <1>1, <1>2, <1>5, <2>1, <3>1
  <2>2. CASE i = k + 1
    BY <1>1, <1>3, <1>5, <2>2
  <2>3. CASE i > k + 1
    <3>1. i - 1 \in 1..Len(s) /\ s2[i] = s[i - 1]
      BY <1>1, <1>3, <2>3
    <3>2. pos[s[i - 1]] = i - 1 /\ s[i - 1] \in Procs /\ s[i - 1] # p
      BY <1>2, <3>1
    <3>3. QED
      BY <1>1, <1>5, <2>3, <3>1, <3>2
  <2>4. QED
    BY <1>1, <2>1, <2>2, <2>3
<1>7. ASSUME NEW m \in Procs, pos2[m] > 0
      PROVE  s2[pos2[m]] = m
  <2>1. CASE m = p
    BY <1>1, <1>3, <1>5, <2>1
  <2>2. CASE m # p
    <3>1. pos[m] \in 1..Len(s) /\ s[pos[m]] = m
      BY <1>1, <1>5, <1>7, <2>2 DEF Seats
    <3>2. CASE pos[m] > k
      <4>1. /\ pos2[m] = pos[m] + 1 /\ pos2[m] - 1 = pos[m] /\ pos2[m] \in 1..(Len(s) + 1)
            /\ ~(pos2[m] <= k) /\ pos2[m] # k + 1
        BY SMTT(30), <1>1, <1>5, <2>2, <3>1, <3>2
      <4>2. QED
        BY <1>3, <3>1, <4>1
    <3>3. CASE ~(pos[m] > k)
      <4>1. pos2[m] = pos[m] /\ pos2[m] \in 1..(Len(s) + 1) /\ pos2[m] <= k
        BY <1>1, <1>5, <2>2, <3>1, <3>3
      <4>2. QED
        BY <1>3, <3>1, <4>1
    <3>4. QED
      BY <3>2, <3>3
  <2>3. QED
    BY <2>1, <2>2
<1>8. Seats(s2, pos2)
  BY <1>4, <1>5, <1>6, <1>7 DEF Seats
<1>9. QED
  BY <1>3, <1>4, <1>8 DEF s2, pos2

\* The keys stay in order.
LEMMA InsertedSorted ==
  ASSUME NEW s, NEW pos, Seats(s, pos), NEW p \in Procs, pos[p] = 0, NEW k,
         NEW vr \in [Procs -> Nat], Splits(s, vr, p, k), Sorted(s, vr)
  PROVE  Sorted(InsertedAt(s, k, p), vr)
<1> DEFINE s2 == InsertedAt(s, k, p)
<1>1. s \in Seq(Procs) /\ Len(s) \in Nat /\ k \in 0..Len(s)
  BY DEF Seats, Splits
<1>2. /\ Len(s2) = Len(s) + 1
      /\ \A i \in 1..(Len(s) + 1) : s2[i] = IF i <= k THEN s[i] ELSE IF i = k + 1 THEN p ELSE s[i - 1]
  BY <1>1, InsertedSeats
<1> HIDE DEF s2
<1>3. \A i \in 1..Len(s) : s[i] \in Procs /\ vr[s[i]] \in Nat
  <2>1. \A i \in 1..Len(s) : s[i] \in Procs
    BY <1>1, ElementOfSeq
  <2>2. QED
    BY <2>1
<1>4. /\ \A i, j \in 1..Len(s) : i <= j => vr[s[i]] <= vr[s[j]]
      /\ \A i \in 1..k : vr[s[i]] <= vr[p]
      /\ \A i \in (k+1)..Len(s) : vr[p] < vr[s[i]]
  BY DEF Sorted, Splits
<1>5. ASSUME NEW i \in 1..(Len(s) + 1), NEW j \in 1..(Len(s) + 1), i <= j
      PROVE  vr[s2[i]] <= vr[s2[j]]
  <2>1. CASE j <= k
    <3>1. s2[i] = s[i] /\ s2[j] = s[j] /\ i \in 1..Len(s) /\ j \in 1..Len(s)
      BY <1>1, <1>2, <1>5, <2>1
    <3>2. QED
      BY <1>4, <1>5, <3>1
  <2>2. CASE j = k + 1
    BY SMTT(30), <1>1, <1>2, <1>4, <1>5, <2>2
  <2>3. CASE j > k + 1
    <3>0. s2[j] = s[j - 1] /\ j - 1 \in (k+1)..Len(s) /\ j - 1 \in 1..Len(s) /\ k \in Nat
      BY <1>1, <1>2, <2>3
    <3>1. CASE i <= k
      <4>1. s2[i] = s[i] /\ i \in 1..Len(s) /\ i <= j - 1
        BY <1>1, <1>2, <2>3, <3>1
      <4>2. QED
        BY <1>4, <3>0, <4>1
    <3>2. CASE i = k + 1
      <4>1. s2[i] = p /\ vr[p] < vr[s[j - 1]] /\ vr[s[j - 1]] \in Nat
        BY <1>1, <1>2, <1>3, <1>4, <3>0, <3>2
      <4>2. QED
        BY <3>0, <4>1
    <3>3. CASE i > k + 1
      <4>1. s2[i] = s[i - 1] /\ i - 1 \in 1..Len(s) /\ i - 1 <= j - 1
        BY <1>1, <1>2, <1>5, <3>3
      <4>2. QED
        BY <1>4, <3>0, <4>1
    <3>4. QED
      BY <1>1, <3>1, <3>2, <3>3
  <2>4. QED
    BY <1>1, <2>1, <2>2, <2>3
<1>6. QED
  BY <1>2, <1>5 DEF Sorted, s2

\* r is t with p as a red leaf under n, in the seat k + 1.
Hung(t, r, pos, n, p, k) ==
  /\ n \in Procs /\ pos[n] > 0
  /\ r \in Trees /\ r.root = t.root
  /\ r.pParent = [t.pParent EXCEPT ![p] = n] /\ r.color = [t.color EXCEPT ![p] = RED]
  /\ \/ /\ k = pos[n] /\ t.right[n] = Null
        /\ r.left = t.left /\ r.right = [t.right EXCEPT ![n] = p]
     \/ /\ k = pos[n] - 1 /\ t.left[n] = Null
        /\ r.right = t.right /\ r.left = [t.left EXCEPT ![n] = p]

\* The new leaf has no children, and the other nodes keep theirs.
LEMMA HungLinks ==
  ASSUME NEW t, NEW r, NEW s, NEW pos, NEW lo, NEW hi, Layout(t, s, pos, lo, hi, Null),
         NEW p \in Procs, pos[p] = 0, NEW n, NEW k, Hung(t, r, pos, n, p, k)
  PROVE  /\ p # n /\ r.left[p] = Null /\ r.right[p] = Null /\ r.pParent[p] = n
         /\ r.color[p] = RED
         /\ \A m \in Procs \ {n, p} : r.left[m] = t.left[m] /\ r.right[m] = t.right[m]
         /\ \A m \in Procs \ {p} : r.pParent[m] = t.pParent[m] /\ r.color[m] = t.color[m]
         /\ \A m \in Procs : pos[m] > 0 => t.left[m] # p /\ t.right[m] # p /\ t.pParent[m] # p /\ m # p
         /\ \/ /\ k = pos[n] /\ t.right[n] = Null /\ r.left[n] = t.left[n] /\ r.right[n] = p
            \/ /\ k = pos[n] - 1 /\ t.left[n] = Null /\ r.right[n] = t.right[n] /\ r.left[n] = p
<1>1. /\ t.left \in [Procs -> Ptr] /\ t.right \in [Procs -> Ptr] /\ t.pParent \in [Procs -> Ptr]
      /\ t.color \in [Procs -> {RED, BLACK}] /\ Null \notin Procs /\ n \in Procs
      /\ t.left[p] = Null /\ t.right[p] = Null /\ p # Null
  BY NullAssumption DEF Layout, Shape, Trees, Outside, Hung
<1>2. p # n
  BY DEF Hung
<1>3. ASSUME NEW m \in Procs, pos[m] > 0
      PROVE  t.left[m] # p /\ t.right[m] # p /\ t.pParent[m] # p /\ m # p
  <2>1. NodeOK(t, Len(s), pos, lo, hi, m)
    BY <1>3 DEF Layout, Shape
  <2>2. QED
    BY <1>1, <1>3, <2>1 DEF NodeOK, ChildOK
<1>4. QED
  BY <1>1, <1>2, <1>3 DEF Hung

\* Hanging a leaf keeps the layout.
LEMMA HungLayout ==
  ASSUME NEW t, NEW r, NEW s, NEW pos, NEW lo, NEW hi, Layout(t, s, pos, lo, hi, Null),
         NEW p \in Procs, pos[p] = 0, NEW n, NEW k \in 0..Len(s), Hung(t, r, pos, n, p, k)
  PROVE  Layout(r, InsertedAt(s, k, p), InsertedPos(pos, k, p),
                InsertedLo(lo, pos[n], k, p), InsertedHi(hi, pos[n], k, p), Null)
<1> DEFINE s2 == InsertedAt(s, k, p)
           pos2 == InsertedPos(pos, k, p)
           j == pos[n]
           lo2 == InsertedLo(lo, j, k, p)
           hi2 == InsertedHi(hi, j, k, p)
<1>0. /\ Seats(s, pos) /\ Shape(t, Len(s), pos, lo, hi) /\ Outside(t, pos, Null)
      /\ t \in Trees /\ Len(s) \in Nat
      /\ pos \in [Procs -> 0..Len(s)] /\ lo \in [Procs -> Int] /\ hi \in [Procs -> Int]
      /\ t.left \in [Procs -> Ptr] /\ t.right \in [Procs -> Ptr] /\ t.pParent \in [Procs -> Ptr]
      /\ t.root \in Ptr /\ Null \notin Procs /\ n \in Procs /\ r \in Trees /\ r.root = t.root
      /\ pos[n] > 0
  BY NullAssumption DEF Layout, Shape, Trees, Hung
<1>1. Seats(s2, pos2) /\ Len(s2) = Len(s) + 1
  BY <1>0, InsertedSeats
<1>2. /\ p # n /\ r.left[p] = Null /\ r.right[p] = Null /\ r.pParent[p] = n
      /\ \A m \in Procs \ {n, p} : r.left[m] = t.left[m] /\ r.right[m] = t.right[m]
      /\ \A m \in Procs \ {p} : r.pParent[m] = t.pParent[m]
      /\ \A m \in Procs : pos[m] > 0 => t.left[m] # p /\ t.right[m] # p /\ t.pParent[m] # p /\ m # p
      /\ \/ /\ k = j /\ t.right[n] = Null /\ r.left[n] = t.left[n] /\ r.right[n] = p
         \/ /\ k = j - 1 /\ t.left[n] = Null /\ r.right[n] = t.right[n] /\ r.left[n] = p
  BY HungLinks
<1>3. /\ pos2 \in [Procs -> 0..(Len(s) + 1)] /\ pos2[p] = k + 1
      /\ lo2 \in [Procs -> Int] /\ lo2[p] = k + 1
      /\ hi2 \in [Procs -> Int] /\ hi2[p] = k + 1
  BY SMTT(30), <1>0 DEF InsertedPos, InsertedLo, InsertedHi
<1>4. \A m \in Procs : m # p =>
        /\ pos2[m] = IF pos[m] > k THEN pos[m] + 1 ELSE pos[m]
        /\ lo2[m] = IF lo[m] > j THEN lo[m] + 1 ELSE lo[m]
        /\ hi2[m] = IF hi[m] >= j THEN hi[m] + 1 ELSE hi[m]
  BY DEF InsertedPos, InsertedLo, InsertedHi
<1>5. \A m \in Procs : pos[m] \in Nat /\ lo[m] \in Int /\ hi[m] \in Int /\ (pos[m] = j /\ pos[m] > 0 => m = n)
  BY <1>0, SeatsDiffer
<1>6. \A m \in Procs : m # p => (pos2[m] > 0 <=> pos[m] > 0)
  BY <1>0, <1>4, <1>5
<1>a. j \in Nat /\ k \in Nat /\ j > 0 /\ (k = j \/ k = j - 1)
  BY <1>0, <1>2
<1> HIDE DEF s2, pos2, lo2, hi2, j
<1>7. RootOK(r, Len(s) + 1, pos2, lo2, hi2)
  <2>1. NodeOK(t, Len(s), pos, lo, hi, n)
    BY <1>0 DEF Shape
  <2>2. t.root # Null
    BY <1>0, <2>1, <1>5 DEF Shape, RootOK, NodeOK
  <2>3. t.root \in Procs /\ pos[t.root] > 0 /\ t.pParent[t.root] = Null /\ lo[t.root] = 1
        /\ hi[t.root] = Len(s)
    BY <1>0, <2>2 DEF Shape, RootOK, Ptr
  <2>4. t.root # p /\ j <= Len(s)
    BY <1>0, <1>2, <2>3 DEF j
  <2>5. pos2[t.root] > 0 /\ r.pParent[t.root] = Null /\ lo2[t.root] = 1 /\ hi2[t.root] = Len(s) + 1
    BY <1>0, <1>2, <1>4, <1>6, <1>a, <2>3, <2>4
  <2>6. QED
    BY <1>0, <2>2, <2>5 DEF RootOK
\* A child of the old tree, below other seats.
<1>8. ASSUME NEW c \in Ptr, NEW m \in Procs, NEW l, NEW h, pos[m] > 0,
             c # p, c # Null, ChildOK(t, pos, lo, hi, c, m, l, h)
      PROVE  /\ c \in Procs /\ pos2[c] > 0 /\ r.pParent[c] = m
             /\ lo2[c] = IF l > j THEN l + 1 ELSE l
             /\ hi2[c] = IF h >= j THEN h + 1 ELSE h
  <2>1. c \in Procs /\ pos[c] > 0 /\ t.pParent[c] = m /\ lo[c] = l /\ hi[c] = h
    BY <1>8 DEF ChildOK, Ptr
  <2>2. QED
    BY <1>2, <1>4, <1>6, <1>8, <2>1
<1>9. ASSUME NEW m \in Procs, pos[m] > 0
      PROVE  /\ 1 <= lo[m] /\ lo[m] <= pos[m] /\ pos[m] <= hi[m] /\ hi[m] <= Len(s)
             /\ ChildOK(t, pos, lo, hi, t.left[m], m, lo[m], pos[m] - 1)
             /\ ChildOK(t, pos, lo, hi, t.right[m], m, pos[m] + 1, hi[m])
             /\ IF t.pParent[m] = Null THEN m = t.root
                ELSE /\ pos[t.pParent[m]] > 0
                     /\ m = t.left[t.pParent[m]] \/ m = t.right[t.pParent[m]]
  BY <1>0, <1>9 DEF Shape, NodeOK
<1>10. ASSUME NEW m \in Procs, pos[m] > 0, m # n
       PROVE  /\ ChildOK(r, pos2, lo2, hi2, r.left[m], m, lo2[m], pos2[m] - 1)
              /\ ChildOK(r, pos2, lo2, hi2, r.right[m], m, pos2[m] + 1, hi2[m])
  <2>0. m # p /\ pos[m] # j /\ r.left[m] = t.left[m] /\ r.right[m] = t.right[m]
        /\ t.left[m] # p /\ t.right[m] # p /\ t.left[m] \in Ptr /\ t.right[m] \in Ptr
    BY <1>0, <1>2, <1>5, <1>10
  <2>1. /\ pos2[m] = IF pos[m] > k THEN pos[m] + 1 ELSE pos[m]
        /\ lo2[m] = IF lo[m] > j THEN lo[m] + 1 ELSE lo[m]
        /\ hi2[m] = IF hi[m] >= j THEN hi[m] + 1 ELSE hi[m]
        /\ pos[m] \in Nat /\ lo[m] \in Int /\ hi[m] \in Int
    BY <1>4, <1>5, <2>0
  <2>2. ChildOK(r, pos2, lo2, hi2, r.left[m], m, lo2[m], pos2[m] - 1)
    <3>1. CASE t.left[m] = Null
      <4>1. lo[m] = pos[m]
        BY <1>9, <1>10, <2>1, <3>1 DEF ChildOK
      <4>2. lo2[m] = pos2[m]
        BY <1>a, <2>0, <2>1, <4>1
      <4>3. pos2[m] \in Int
        BY <1>3
      <4>4. QED
        BY <2>0, <3>1, <4>2, <4>3 DEF ChildOK
    <3>2. CASE t.left[m] # Null
      <4>1. /\ pos2[t.left[m]] > 0 /\ r.pParent[t.left[m]] = m
            /\ lo2[t.left[m]] = IF lo[m] > j THEN lo[m] + 1 ELSE lo[m]
            /\ hi2[t.left[m]] = IF pos[m] - 1 >= j THEN (pos[m] - 1) + 1 ELSE pos[m] - 1
        BY <1>8, <1>9, <1>10, <2>0, <3>2
      <4>2. hi2[t.left[m]] = pos2[m] - 1
        BY <1>a, <2>0, <2>1, <4>1
      <4>3. QED
        BY <2>0, <2>1, <3>2, <4>1, <4>2 DEF ChildOK
    <3>3. QED
      BY <3>1, <3>2
  <2>3. ChildOK(r, pos2, lo2, hi2, r.right[m], m, pos2[m] + 1, hi2[m])
    <3>1. CASE t.right[m] = Null
      <4>1. hi[m] = pos[m]
        BY <1>9, <1>10, <2>1, <3>1 DEF ChildOK
      <4>2. hi2[m] = pos2[m]
        BY <1>a, <2>0, <2>1, <4>1
      <4>3. QED
        BY <2>0, <3>1, <4>2 DEF ChildOK
    <3>2. CASE t.right[m] # Null
      <4>1. /\ pos2[t.right[m]] > 0 /\ r.pParent[t.right[m]] = m
            /\ lo2[t.right[m]] = IF pos[m] + 1 > j THEN (pos[m] + 1) + 1 ELSE pos[m] + 1
            /\ hi2[t.right[m]] = IF hi[m] >= j THEN hi[m] + 1 ELSE hi[m]
        BY <1>8, <1>9, <1>10, <2>0, <3>2
      <4>2. lo2[t.right[m]] = pos2[m] + 1
        BY <1>a, <2>0, <2>1, <4>1
      <4>3. QED
        BY <2>0, <2>1, <3>2, <4>1, <4>2 DEF ChildOK
    <3>3. QED
      BY <3>1, <3>2
  <2>4. QED
    BY <2>2, <2>3
<1>11. /\ ChildOK(r, pos2, lo2, hi2, r.left[n], n, lo2[n], pos2[n] - 1)
       /\ ChildOK(r, pos2, lo2, hi2, r.right[n], n, pos2[n] + 1, hi2[n])
  <2>0. pos[n] = j /\ t.left[n] # p /\ t.right[n] # p /\ t.left[n] \in Ptr /\ t.right[n] \in Ptr /\ p # Null
    BY <1>0, <1>2 DEF j
  <2>1. /\ pos2[n] = IF pos[n] > k THEN pos[n] + 1 ELSE pos[n]
        /\ lo2[n] = IF lo[n] > j THEN lo[n] + 1 ELSE lo[n]
        /\ hi2[n] = IF hi[n] >= j THEN hi[n] + 1 ELSE hi[n]
        /\ pos[n] \in Nat /\ lo[n] \in Int /\ hi[n] \in Int
        /\ lo[n] <= pos[n] /\ pos[n] <= hi[n]
    BY <1>0, <1>2, <1>4, <1>5, <1>9
  <2>2. CASE k = j /\ t.right[n] = Null /\ r.left[n] = t.left[n] /\ r.right[n] = p
    <3>1. hi[n] = pos[n] /\ pos2[n] = j /\ hi2[n] = j + 1 /\ lo2[n] = lo[n]
      BY <1>0, <1>9, <2>0, <2>1, <2>2 DEF ChildOK
    <3>2. ChildOK(r, pos2, lo2, hi2, r.right[n], n, pos2[n] + 1, hi2[n])
      BY <1>2, <1>3, <1>a, <2>0, <2>2, <3>1 DEF ChildOK
    <3>3. CASE t.left[n] = Null
      <4>1. lo[n] = pos[n]
        BY <1>0, <1>9, <2>1, <3>3 DEF ChildOK
      <4>2. QED
        BY <1>a, <2>0, <2>2, <3>1, <3>2, <3>3, <4>1 DEF ChildOK
    <3>4. CASE t.left[n] # Null
      <4>1. /\ pos2[t.left[n]] > 0 /\ r.pParent[t.left[n]] = n
            /\ lo2[t.left[n]] = IF lo[n] > j THEN lo[n] + 1 ELSE lo[n]
            /\ hi2[t.left[n]] = IF pos[n] - 1 >= j THEN (pos[n] - 1) + 1 ELSE pos[n] - 1
        BY SMTT(30), <1>0, <1>8, <1>9, <2>0, <3>4
      <4>2. QED
        BY <1>a, <2>0, <2>1, <2>2, <3>1, <3>2, <3>4, <4>1 DEF ChildOK
    <3>5. QED
      BY <3>3, <3>4
  <2>3. CASE k = j - 1 /\ t.left[n] = Null /\ r.right[n] = t.right[n] /\ r.left[n] = p
    <3>1. lo[n] = pos[n] /\ pos2[n] = j + 1 /\ lo2[n] = j /\ hi2[n] = hi[n] + 1
      BY <1>0, <1>9, <1>a, <2>0, <2>1, <2>3 DEF ChildOK
    <3>2. ChildOK(r, pos2, lo2, hi2, r.left[n], n, lo2[n], pos2[n] - 1)
      BY <1>2, <1>3, <1>a, <2>0, <2>3, <3>1 DEF ChildOK
    <3>3. CASE t.right[n] = Null
      <4>1. hi[n] = pos[n]
        BY <1>0, <1>9, <2>1, <3>3 DEF ChildOK
      <4>2. QED
        BY <1>a, <2>0, <2>3, <3>1, <3>2, <3>3, <4>1 DEF ChildOK
    <3>4. CASE t.right[n] # Null
      <4>1. /\ pos2[t.right[n]] > 0 /\ r.pParent[t.right[n]] = n
            /\ lo2[t.right[n]] = IF pos[n] + 1 > j THEN (pos[n] + 1) + 1 ELSE pos[n] + 1
            /\ hi2[t.right[n]] = IF hi[n] >= j THEN hi[n] + 1 ELSE hi[n]
        BY SMTT(30), <1>0, <1>8, <1>9, <2>0, <3>4
      <4>2. QED
        BY <1>a, <2>0, <2>1, <2>3, <3>1, <3>2, <3>4, <4>1 DEF ChildOK
    <3>5. QED
      BY <3>3, <3>4
  <2>4. QED
    BY <1>2, <2>2, <2>3
<1>12. NodeOK(r, Len(s) + 1, pos2, lo2, hi2, p)
  <2>1. r.pParent[p] # Null /\ pos2[n] > 0 /\ (p = r.left[n] \/ p = r.right[n])
    BY <1>0, <1>2, <1>6
  <2>2. 1 <= k + 1 /\ k + 1 <= Len(s) + 1
    BY <1>0, <1>a
  <2>3. QED
    BY <1>2, <1>3, <1>a, <2>1, <2>2 DEF NodeOK, ChildOK
<1>13. ASSUME NEW m \in Procs, pos[m] > 0
       PROVE  NodeOK(r, Len(s) + 1, pos2, lo2, hi2, m)
  <2>0. m # p
    BY <1>2, <1>13
  <2>1. 1 <= lo2[m] /\ lo2[m] <= pos2[m] /\ pos2[m] <= hi2[m] /\ hi2[m] <= Len(s) + 1
    <3>1. /\ 1 <= lo[m] /\ lo[m] <= pos[m] /\ pos[m] <= hi[m] /\ hi[m] <= Len(s)
      BY <1>9, <1>13
    <3>2. /\ pos2[m] = IF pos[m] > k THEN pos[m] + 1 ELSE pos[m]
          /\ lo2[m] = IF lo[m] > j THEN lo[m] + 1 ELSE lo[m]
          /\ hi2[m] = IF hi[m] >= j THEN hi[m] + 1 ELSE hi[m]
          /\ pos[m] \in Nat /\ lo[m] \in Int /\ hi[m] \in Int /\ Len(s) \in Nat
      BY <1>0, <1>4, <1>5, <2>0
    <3>3. QED
      BY <1>a, <3>1, <3>2
  <2>2. /\ ChildOK(r, pos2, lo2, hi2, r.left[m], m, lo2[m], pos2[m] - 1)
        /\ ChildOK(r, pos2, lo2, hi2, r.right[m], m, pos2[m] + 1, hi2[m])
    BY <1>10, <1>11, <1>13
  <2>3. IF r.pParent[m] = Null THEN m = r.root
        ELSE /\ pos2[r.pParent[m]] > 0
             /\ m = r.left[r.pParent[m]] \/ m = r.right[r.pParent[m]]
    <3>1. r.pParent[m] = t.pParent[m]
      BY <1>2, <2>0
    <3>2. CASE t.pParent[m] = Null
      BY <1>0, <1>9, <1>13, <3>1, <3>2
    <3>3. CASE t.pParent[m] # Null
      <4>1. PICK u \in Procs : u = t.pParent[m]
        BY <1>0, <3>3 DEF Ptr
      <4>2. pos[u] > 0 /\ u # p /\ (m = t.left[u] \/ m = t.right[u])
        BY <1>2, <1>9, <1>13, <3>3, <4>1
      <4>3. m = r.left[u] \/ m = r.right[u]
        <5>0. m # Null
          BY <1>0, <1>13
        <5>1. CASE u = n
          BY <1>2, <4>2, <5>0, <5>1
        <5>2. CASE u # n
          <6>1. r.left[u] = t.left[u] /\ r.right[u] = t.right[u]
            BY <1>2, <4>2, <5>2
          <6>2. QED
            BY <4>2, <6>1
        <5>3. QED
          BY <5>1, <5>2
      <4>4. QED
        BY <1>6, <3>1, <3>3, <4>1, <4>2, <4>3
    <3>4. QED
      BY <3>2, <3>3
  <2>4. QED
    BY <2>1, <2>2, <2>3 DEF NodeOK
<1>14. Shape(r, Len(s2), pos2, lo2, hi2)
  <2>1. \A m \in Procs : pos2[m] > 0 => NodeOK(r, Len(s) + 1, pos2, lo2, hi2, m)
    BY <1>6, <1>12, <1>13
  <2>2. QED
    BY SMTT(30), <1>0, <1>1, <1>3, <1>7, <2>1 DEF Shape
<1>15. Outside(r, pos2, Null)
  <2> SUFFICES ASSUME NEW m \in Procs, pos2[m] = 0
               PROVE  r.left[m] = Null /\ r.right[m] = Null /\ r.pParent[m] = Null
    BY DEF Outside
  <2>1. m # p /\ m # n /\ pos[m] = 0
    <3>1. m # p
      BY <1>3, <1>a
    <3>2. pos[m] = 0
      BY <1>5, <1>6, <3>1
    <3>3. m # n
      BY <1>0, <3>2
    <3>4. QED
      BY <3>1, <3>2, <3>3
  <2>2. t.left[m] = Null /\ t.right[m] = Null /\ t.pParent[m] = Null
    BY <1>0, <2>1 DEF Outside
  <2>3. QED
    BY <1>2, <2>1, <2>2
<1>16. QED
  BY <1>1, <1>14, <1>15 DEF Layout, s2, pos2, lo2, hi2, j

\* The new leaf adds no black node and has the only red parent that is new.
LEMMA HungColours ==
  ASSUME NEW t, NEW r, NEW s, NEW pos, NEW lo, NEW hi, Layout(t, s, pos, lo, hi, Null),
         NEW p \in Procs, pos[p] = 0, NEW n, NEW k \in 0..Len(s), Hung(t, r, pos, n, p, k),
         NEW bh, Heights(t, pos, bh, Null), RedRule(t, pos, Null, Null)
  PROVE  /\ Heights(r, InsertedPos(pos, k, p), [bh EXCEPT ![p] = 0], Null)
         /\ RedRule(r, InsertedPos(pos, k, p), Null, p)
<1> DEFINE pos2 == InsertedPos(pos, k, p)
           bh2 == [bh EXCEPT ![p] = 0]
<1>0. /\ pos \in [Procs -> 0..Len(s)] /\ Len(s) \in Nat /\ Null \notin Procs /\ p # Null
      /\ n \in Procs /\ pos[n] > 0
      /\ t.left \in [Procs -> Ptr] /\ t.right \in [Procs -> Ptr]
  BY NullAssumption DEF Layout, Shape, Seats, Trees, Hung
<1>1. \A m \in Procs : pos2[m] > 0 => m = p \/ pos[m] > 0
  BY <1>0 DEF InsertedPos
<1> HIDE DEF pos2
<1>2. /\ p # n /\ r.left[p] = Null /\ r.right[p] = Null /\ r.color[p] = RED
      /\ \A m \in Procs \ {n, p} : r.left[m] = t.left[m] /\ r.right[m] = t.right[m]
      /\ \A m \in Procs \ {p} : r.color[m] = t.color[m]
      /\ \A m \in Procs : pos[m] > 0 => t.left[m] # p /\ t.right[m] # p /\ m # p
      /\ \/ t.right[n] = Null /\ r.left[n] = t.left[n] /\ r.right[n] = p
         \/ t.left[n] = Null /\ r.right[n] = t.right[n] /\ r.left[n] = p
  BY HungLinks
<1>3. /\ bh \in [Ptr -> Nat] /\ bh[Null] = 0
      /\ \A m \in Procs : pos[m] > 0 => HeightOK(t, bh, Null, m)
  BY DEF Heights
<1>4. /\ bh2 \in [Ptr -> Nat] /\ bh2[Null] = 0 /\ bh2[p] = 0
      /\ \A m \in Ptr : m # p => bh2[m] = bh[m]
  BY <1>0, <1>3 DEF Ptr
<1> HIDE DEF bh2
<1>5. HeightOK(r, bh2, Null, p)
  BY <1>0, <1>2, <1>4 DEF HeightOK, BlackBit, Lacks, RED, BLACK
<1>6. ASSUME NEW m \in Procs, pos[m] > 0
      PROVE  HeightOK(r, bh2, Null, m)
  <2>1. m # p /\ t.left[m] # p /\ t.right[m] # p /\ t.left[m] \in Ptr /\ t.right[m] \in Ptr /\ m \in Ptr
    BY <1>0, <1>2, <1>6 DEF Ptr
  <2>2. bh2[m] = bh[m] /\ bh2[t.left[m]] = bh[t.left[m]] /\ bh2[t.right[m]] = bh[t.right[m]]
    BY <1>4, <2>1
  <2>3. BlackBit(r, m) = BlackBit(t, m)
    BY <1>2, <2>1 DEF BlackBit
  <2>4. bh2[r.left[m]] = bh[t.left[m]] /\ bh2[r.right[m]] = bh[t.right[m]]
    BY SMTT(30), <1>2, <1>3, <1>4, <2>1, <2>2
  <2>5. HeightOK(t, bh, Null, m)
    BY <1>3, <1>6
  <2>6. QED
    BY <2>2, <2>3, <2>4, <2>5 DEF HeightOK
<1>7. Heights(r, pos2, bh2, Null)
  BY <1>1, <1>4, <1>5, <1>6 DEF Heights
<1>8. ASSUME NEW m \in Procs, pos[m] > 0
      PROVE  RedOK(r, Null, p, m)
  <2>1. m # p /\ t.left[m] # p /\ t.right[m] # p /\ t.left[m] \in Ptr /\ t.right[m] \in Ptr
    BY <1>0, <1>2, <1>8
  <2>2. \A c \in Ptr : c # p /\ IsRed(r, c) => IsRed(t, c)
    BY <1>2 DEF IsRed, Ptr
  <2>3. RedOK(t, Null, Null, m) /\ r.color[m] = t.color[m]
    BY <1>2, <1>8, <2>1 DEF RedRule
  <2>4. /\ r.left[m] = t.left[m] \/ r.left[m] = p
        /\ r.right[m] = t.right[m] \/ r.right[m] = p
    BY <1>2, <2>1
  <2>5. QED
    BY <2>1, <2>2, <2>3, <2>4 DEF RedOK, IsRed
<1>9. RedOK(r, Null, p, p)
  BY <1>2 DEF RedOK, IsRed
<1>10. RedRule(r, pos2, Null, p)
  BY <1>1, <1>8, <1>9 DEF RedRule
<1>11. QED
  BY <1>7, <1>10 DEF pos2, bh2

\* A leaf that becomes the first one hangs to the left of the cached minimum.
LEMMA HungMin ==
  ASSUME NEW t, NEW r, NEW s, NEW pos, NEW lo, NEW hi, Layout(t, s, pos, lo, hi, Null),
         NEW p \in Procs, pos[p] = 0, NEW n, NEW k \in 0..Len(s), Hung(t, r, pos, n, p, k)
  PROVE  MinSeat(r, InsertedPos(pos, k, p), s[1])
<1>0. /\ Seats(s, pos) /\ pos \in [Procs -> 0..Len(s)] /\ Len(s) \in Nat /\ p # Null
      /\ n \in Procs /\ pos[n] > 0 /\ s \in Seq(Procs)
  BY NullAssumption DEF Layout, Seats, Hung
<1>1. pos[n] \in 1..Len(s) /\ 1 \in 1..Len(s)
  BY <1>0
<1>2. pos[s[1]] = 1 /\ s[1] \in Procs
  BY <1>0, <1>1 DEF Seats
<1>3. s[1] # p
  BY <1>2
<1>4. InsertedPos(pos, k, p)[s[1]] = IF 1 > k THEN 2 ELSE 1
  BY <1>0, <1>2, <1>3 DEF InsertedPos
<1>5. CASE k = 0
  <2>1. pos[n] = 1 /\ r.left[n] = p
    <3>1. \/ k = pos[n] /\ t.right[n] = Null /\ r.left[n] = t.left[n] /\ r.right[n] = p
          \/ k = pos[n] - 1 /\ t.left[n] = Null /\ r.right[n] = t.right[n] /\ r.left[n] = p
      BY HungLinks
    <3>2. QED
      BY <1>0, <1>5, <3>1
  <2>2. n = s[1]
    BY <1>0, <1>2, <2>1 DEF Seats
  <2>3. QED
    BY <1>0, <1>4, <1>5, <2>1, <2>2 DEF MinSeat
<1>6. CASE k # 0
  BY <1>4, <1>6 DEF MinSeat
<1>7. QED
  BY <1>5, <1>6

\* The first process of an empty tree.
LEMMA FirstCase ==
  ASSUME NEW t, NEW r, NEW s, NEW pos, NEW lo, NEW hi, Layout(t, s, pos, lo, hi, Null),
         t.root = Null, NEW p \in Procs,
         r \in Trees, r.root = p, r.left = t.left, r.right = t.right,
         r.pParent = [t.pParent EXCEPT ![p] = Null], r.color = [t.color EXCEPT ![p] = RED]
  PROVE  \E lo2, hi2, bh2 :
           CaseOK(r, InsertedAt(s, 0, p), InsertedPos(pos, 0, p), lo2, hi2, bh2, "case1", p, Null)
<1> DEFINE s2 == InsertedAt(s, 0, p)
           pos2 == InsertedPos(pos, 0, p)
           lo2 == [m \in Procs |-> 1]
           bh2 == [m \in Ptr |-> 0]
<1>0. /\ Seats(s, pos) /\ Len(s) = 0 /\ pos \in [Procs -> 0..0] /\ Null \notin Procs
      /\ t.left \in [Procs -> Ptr] /\ t.right \in [Procs -> Ptr] /\ t.pParent \in [Procs -> Ptr]
      /\ t.color \in [Procs -> {RED, BLACK}]
  BY NullAssumption DEF Layout, Shape, Seats, RootOK, Trees
<1>1. \A m \in Procs : pos[m] = 0
  BY <1>0
<1>2. \A m \in Procs : t.left[m] = Null /\ t.right[m] = Null /\ t.pParent[m] = Null
  BY <1>0, <1>1 DEF Layout, Outside
<1>3. \A m \in Procs : r.left[m] = Null /\ r.right[m] = Null /\ r.pParent[m] = Null
  BY <1>0, <1>2
<1>4. r.color[p] = RED
  BY <1>0
<1>5. Seats(s2, pos2) /\ Len(s2) = 1
  <2>0. Seats(s, pos) /\ pos[p] = 0
    BY <1>0, <1>1
  <2>1. 0 \in 0..Len(s)
    BY <1>0
  <2>2. \A k \in 0..Len(s) : /\ Seats(InsertedAt(s, k, p), InsertedPos(pos, k, p))
                             /\ Len(InsertedAt(s, k, p)) = Len(s) + 1
    BY <2>0, InsertedSeats
  <2>3. QED
    BY <1>0, <2>1, <2>2
<1>6. pos2 \in [Procs -> 0..1] /\ pos2[p] = 1 /\ \A m \in Procs : m # p => pos2[m] = 0
  BY <1>0, <1>1 DEF InsertedPos
<1>7. /\ lo2 \in [Procs -> Int] /\ lo2[p] = 1
      /\ bh2 \in [Ptr -> Nat] /\ bh2[Null] = 0 /\ bh2[p] = 0
  BY DEF Ptr
<1> HIDE DEF s2, pos2, lo2, bh2
<1>8. NodeOK(r, 1, pos2, lo2, lo2, p)
  BY <1>3, <1>6, <1>7 DEF NodeOK, ChildOK
<1>9. RootOK(r, 1, pos2, lo2, lo2)
  BY <1>0, <1>3, <1>6, <1>7 DEF RootOK
<1>10. \A m \in Procs : pos2[m] > 0 => m = p
  BY <1>6
<1>11. Shape(r, 1, pos2, lo2, lo2)
  BY <1>6, <1>7, <1>8, <1>9, <1>10 DEF Shape
<1>12. Outside(r, pos2, Null)
  BY <1>3 DEF Outside
<1>13. HeightOK(r, bh2, Null, p)
  BY <1>0, <1>3, <1>4, <1>7 DEF HeightOK, BlackBit, Lacks, RED, BLACK
<1>14. RedOK(r, Null, p, p)
  BY <1>3 DEF RedOK, IsRed
<1>15. Layout(r, s2, pos2, lo2, lo2, Null) /\ Heights(r, pos2, bh2, Null) /\ RedRule(r, pos2, Null, p)
  BY <1>5, <1>7, <1>10, <1>11, <1>12, <1>13, <1>14 DEF Layout, Heights, RedRule
<1>16. RootBlack(r, "case1", p)
  BY DEF RootBlack
<1>17. InsertOK(r, pos2, "case1", p)
  BY <1>0, <1>4, <1>6 DEF InsertOK, Cases
<1>18. MinSeat(r, pos2, Null)
  BY DEF MinSeat
<1>19. CaseOK(r, s2, pos2, lo2, lo2, bh2, "case1", p, Null)
  BY <1>15, <1>16, <1>17, <1>18 DEF CaseOK, Cases
<1>20. QED
  BY <1>19 DEF s2, pos2

\* A further process.
LEMMA HungCase ==
  ASSUME NEW t, NEW r, NEW s, NEW pos, NEW lo, NEW hi, Layout(t, s, pos, lo, hi, Null),
         NEW p \in Procs, pos[p] = 0, NEW n, NEW k \in 0..Len(s), Hung(t, r, pos, n, p, k),
         NEW bh, Heights(t, pos, bh, Null), RedRule(t, pos, Null, Null), IsBlack(t, t.root)
  PROVE  \E lo2, hi2, bh2 :
           CaseOK(r, InsertedAt(s, k, p), InsertedPos(pos, k, p), lo2, hi2, bh2, "case1", p, s[1])
<1> DEFINE pos2 == InsertedPos(pos, k, p)
           bh2 == [bh EXCEPT ![p] = 0]
           lo2 == InsertedLo(lo, pos[n], k, p)
           hi2 == InsertedHi(hi, pos[n], k, p)
<1>1. Layout(r, InsertedAt(s, k, p), pos2, lo2, hi2, Null)
  BY HungLayout
<1>2. Heights(r, pos2, bh2, Null) /\ RedRule(r, pos2, Null, p)
  BY HungColours
<1>3. MinSeat(r, pos2, s[1])
  BY HungMin
<1>4. r.color[p] = RED /\ \A m \in Procs \ {p} : r.color[m] = t.color[m]
  BY DEF Hung, Layout, Shape, Trees
<1>5. r.root = t.root /\ t.root \in Ptr /\ p # Null /\ k \in Nat
  BY NullAssumption DEF Hung, Layout, Shape, Trees
<1>6. t.root # p
  BY <1>5 DEF Layout, Shape, RootOK
<1>7. RootBlack(r, "case1", p)
  BY <1>4, <1>5, <1>6 DEF RootBlack, IsBlack, Ptr
<1>8. pos2[p] > 0
  BY <1>5 DEF InsertedPos
<1>9. InsertOK(r, pos2, "case1", p)
  BY <1>4, <1>5, <1>8 DEF InsertOK, Cases
<1> HIDE DEF pos2, bh2, lo2, hi2
<1>10. CaseOK(r, InsertedAt(s, k, p), pos2, lo2, hi2, bh2, "case1", p, s[1])
  BY <1>1, <1>2, <1>3, <1>7, <1>9 DEF CaseOK, Cases
<1>11. QED
  BY <1>10 DEF pos2

\* The tree between two operations.
IdleOK(t, s, pos, lo, hi, bh, m) ==
  /\ Layout(t, s, pos, lo, hi, Null) /\ Heights(t, pos, bh, Null)
  /\ RedRule(t, pos, Null, Null) /\ IsBlack(t, t.root)
  /\ m = IF Len(s) = 0 THEN Null ELSE s[1]

\* What the invariant says between two operations.
LEMMA IdleFacts ==
  ASSUME NEW s, NEW pos, NEW lo, NEW hi, NEW bh, TreeInv(s, pos, lo, hi, bh), op = Idle
  PROVE  /\ IdleOK(tree, s, pos, lo, hi, bh, minvRuntime) /\ count = Len(s)
         /\ OpTypes /\ Sorted(s, virtualRuntime)
<1>1. op.at = "idle" /\ op.node = Null
  BY DEF Idle
<1>2. ~Unlinking /\ Gone = Null /\ Deficient = Null /\ Above = Null /\ Below = Null
  BY <1>1 DEF Unlinking, Gone, Deficient, Above, Below, Cases
<1>3. IsBlack(tree, tree.root)
  BY <1>1 DEF TreeInv, RootBlack
<1>4. QED
  BY <1>1, <1>2, <1>3 DEF TreeInv, IdleOK, MinOK, CountOK

\* insertProc hangs the process in the place of its key.
LEMMA InsertCase ==
  ASSUME NEW t, NEW s, NEW pos, NEW lo, NEW hi, NEW bh, NEW m, IdleOK(t, s, pos, lo, hi, bh, m),
         NEW p \in Procs, pos[p] = 0, NEW vr \in [Procs -> Nat], Sorted(s, vr)
  PROVE  \E k, lo2, hi2, bh2 :
           /\ Splits(s, vr, p, k)
           /\ CaseOK(IF Len(s) = 0 THEN SetParent(insertProc(t, p, vr), insertProc(t, p, vr).root, Null)
                     ELSE insertProc(t, p, vr),
                     InsertedAt(s, k, p), InsertedPos(pos, k, p), lo2, hi2, bh2, "case1", p, m)
<1> DEFINE r == insertProc(t, p, vr)
           t1 == SetColor(t, p, RED)
<1>0. /\ Layout(t, s, pos, lo, hi, Null) /\ Heights(t, pos, bh, Null)
      /\ RedRule(t, pos, Null, Null) /\ IsBlack(t, t.root)
      /\ m = IF Len(s) = 0 THEN Null ELSE s[1]
  BY DEF IdleOK
<1>1. Seats(s, pos) /\ Shape(t, Len(s), pos, lo, hi) /\ Outside(t, pos, Null) /\ t \in Trees
  BY <1>0 DEF Layout, Shape
<1>2. /\ t1 \in Trees /\ t1.root = t.root /\ t1.left = t.left /\ t1.right = t.right
      /\ t1.pParent = t.pParent /\ t1.color = [t.color EXCEPT ![p] = RED]
  BY <1>1, SetColorFields
<1>3. CASE Len(s) = 0
  <2>1. t.root = Null
    <3>1. pos[t.root] \in 0..0 \/ t.root \notin Procs
      BY <1>1, <1>3 DEF Seats
    <3>2. QED
      BY <1>1, <3>1 DEF Shape, RootOK, Trees, Ptr
  <2>2. r = [t1 EXCEPT !.root = p]
    BY <2>1 DEF insertProc
  <2> HIDE DEF r, t1
  <2>3. /\ r \in Trees /\ r.root = p /\ r.left = t.left /\ r.right = t.right
        /\ r.pParent = t.pParent /\ r.color = [t.color EXCEPT ![p] = RED]
    <3>1. p \in Ptr
      BY DEF Ptr
    <3>2. QED
      BY <1>2, <2>2, <3>1, SetRootFields
  <2> DEFINE r2 == SetParent(r, r.root, Null)
  <2>4. /\ r2 \in Trees /\ r2.root = p /\ r2.left = t.left /\ r2.right = t.right
        /\ r2.pParent = [t.pParent EXCEPT ![p] = Null] /\ r2.color = [t.color EXCEPT ![p] = RED]
    <3>1. Null \in Ptr
      BY DEF Ptr
    <3>2. QED
      BY <2>3, <3>1, SetParentFields
  <2> HIDE DEF r2
  <2>5. \E lo2, hi2, bh2 :
          CaseOK(r2, InsertedAt(s, 0, p), InsertedPos(pos, 0, p), lo2, hi2, bh2, "case1", p, Null)
    BY <1>0, <2>1, <2>4, FirstCase
  <2>6. Splits(s, vr, p, 0)
    BY <1>3 DEF Splits
  <2>7. m = Null
    BY <1>0, <1>3
  <2>8. QED
    BY <1>3, <2>5, <2>6, <2>7 DEF r2, r
<1>4. CASE Len(s) # 0
  <2>1. t.root # Null
    BY <1>1, <1>4 DEF Shape, RootOK
  <2>a. LeafOf(t, s, pos, vr, p)
    BY <1>1, <2>1, LeafLayout
  <2>2. PICK n \in Procs, k \in 0..Len(s) :
          /\ pos[n] > 0
          /\ \A i \in 1..k : vr[s[i]] <= vr[p]
          /\ \A i \in (k+1)..Len(s) : vr[p] < vr[s[i]]
          /\ \/ /\ k = pos[n] /\ t.right[n] = Null
                /\ r = SetRight(SetParent(t1, p, n), n, p)
             \/ /\ k = pos[n] - 1 /\ t.left[n] = Null
                /\ r = SetLeft(SetParent(t1, p, n), n, p)
    BY <2>a DEF LeafOf
  <2> DEFINE t2 == SetParent(t1, p, n)
  <2> HIDE DEF r, t1
  <2>3. /\ t2 \in Trees /\ t2.root = t.root /\ t2.left = t.left /\ t2.right = t.right
        /\ t2.pParent = [t.pParent EXCEPT ![p] = n] /\ t2.color = [t.color EXCEPT ![p] = RED]
    <3>1. n \in Ptr
      BY DEF Ptr
    <3>2. QED
      BY <1>2, <3>1, SetParentFields
  <2>4. p \in Ptr
    BY DEF Ptr
  <2>5. \/ r = SetRight(t2, n, p) /\ k = pos[n] /\ t.right[n] = Null
        \/ r = SetLeft(t2, n, p) /\ k = pos[n] - 1 /\ t.left[n] = Null
    BY <2>2
  <2> HIDE DEF t2
  <2>6. Hung(t, r, pos, n, p, k)
    <3>1. CASE r = SetRight(t2, n, p) /\ k = pos[n] /\ t.right[n] = Null
      <4>1. /\ r \in Trees /\ r.root = t.root /\ r.left = t.left /\ r.right = [t.right EXCEPT ![n] = p]
            /\ r.pParent = t2.pParent /\ r.color = t2.color
        BY <2>3, <2>4, <3>1, SetRightFields
      <4>2. QED
        BY <2>2, <2>3, <3>1, <4>1 DEF Hung
    <3>2. CASE r = SetLeft(t2, n, p) /\ k = pos[n] - 1 /\ t.left[n] = Null
      <4>1. /\ r \in Trees /\ r.root = t.root /\ r.right = t.right /\ r.left = [t.left EXCEPT ![n] = p]
            /\ r.pParent = t2.pParent /\ r.color = t2.color
        BY <2>3, <2>4, <3>2, SetLeftFields
      <4>2. QED
        BY <2>2, <2>3, <3>2, <4>1 DEF Hung
    <3>3. QED
      BY <2>5, <3>1, <3>2
  <2>7. Splits(s, vr, p, k)
    BY <2>2 DEF Splits
  <2>8. \E lo2, hi2, bh2 :
          CaseOK(r, InsertedAt(s, k, p), InsertedPos(pos, k, p), lo2, hi2, bh2, "case1", p, s[1])
    BY <1>0, <2>6, HungCase
  <2>9. m = s[1]
    BY <1>0, <1>4
  <2>10. QED
    BY <1>4, <2>7, <2>8, <2>9 DEF r
<1>5. QED
  BY <1>3, <1>4

\* insertProcess: the process takes the seat of its key, and the cases are due.
LEMMA InsertProcessInv ==
  ASSUME NEW s, NEW pos, NEW lo, NEW hi, NEW bh, TreeInv(s, pos, lo, hi, bh),
         NEW p \in Procs \ InTree(tree), NEW v \in 0..MaxRuntime, insertProcess(p, v)
  PROVE  \E k, lo2, hi2, bh2 :
           /\ Splits(s, virtualRuntime', p, k)
           /\ TreeInv(InsertedAt(s, k, p), InsertedPos(pos, k, p), lo2, hi2, bh2)'
<1>0. op = Idle /\ count # NPROC
  BY DEF insertProcess
<1>1. /\ IdleOK(tree, s, pos, lo, hi, bh, minvRuntime) /\ count = Len(s)
      /\ OpTypes /\ Sorted(s, virtualRuntime)
  BY <1>0, IdleFacts
<1>2. Layout(tree, s, pos, lo, hi, Null) /\ Seats(s, pos)
  BY <1>1 DEF IdleOK, Layout
<1>3. pos[p] = 0
  <2>1. InTree(tree) = {n \in Procs : pos[n] > 0}
    BY <1>2, InTreeLayout
  <2>2. QED
    BY <1>2, <2>1 DEF Seats
<1>4. virtualRuntime' = [virtualRuntime EXCEPT ![p] = v] /\ virtualRuntime \in [Procs -> Nat] /\ v \in Nat
  BY <1>1, MaxRuntimeAssumption DEF insertProcess, OpTypes
<1>5. virtualRuntime' \in [Procs -> Nat] /\ \A n \in Procs : n # p => virtualRuntime'[n] = virtualRuntime[n]
  BY <1>4
<1>6. Sorted(s, virtualRuntime')
  <2>1. \A i \in 1..Len(s) : s[i] \in Procs /\ s[i] # p
    <3>1. \A i \in 1..Len(s) : s[i] \in Procs /\ pos[s[i]] = i
      BY <1>2, ElementOfSeq DEF Seats
    <3>2. QED
      BY <1>3, <3>1
  <2>2. QED
    BY <1>1, <1>5, <2>1 DEF Sorted
<1>7. PICK vr, m : vr = virtualRuntime' /\ m = minvRuntime
  OBVIOUS
<1> DEFINE t1 == insertProc(tree, p, vr)
<1>8. /\ tree' = IF Len(s) = 0 THEN SetParent(t1, t1.root, Null) ELSE t1
      /\ count' = count + 1 /\ minvRuntime' = m
      /\ op' = [at |-> "case1", proc |-> p, node |-> p, parent |-> Null]
  BY <1>1, <1>4, <1>7 DEF insertProcess
<1>9. PICK k, lo2, hi2, bh2 :
           /\ Splits(s, vr, p, k)
           /\ CaseOK(tree', InsertedAt(s, k, p), InsertedPos(pos, k, p), lo2, hi2, bh2, "case1", p, m)
  <2>1. vr \in [Procs -> Nat] /\ Sorted(s, vr) /\ IdleOK(tree, s, pos, lo, hi, bh, m)
    BY <1>1, <1>5, <1>6, <1>7
  <2>2. \E k, lo2, hi2, bh2 :
           /\ Splits(s, vr, p, k)
           /\ CaseOK(IF Len(s) = 0 THEN SetParent(insertProc(tree, p, vr), insertProc(tree, p, vr).root, Null)
                     ELSE insertProc(tree, p, vr),
                     InsertedAt(s, k, p), InsertedPos(pos, k, p), lo2, hi2, bh2, "case1", p, m)
    BY <1>3, <2>1, InsertCase
  <2>3. QED
    BY <1>8, <2>2
<1> HIDE DEF t1
<1>10. PICK s2, pos2 : s2 = InsertedAt(s, k, p) /\ pos2 = InsertedPos(pos, k, p)
  OBVIOUS
<1>11. CaseOK(tree', s2, pos2, lo2, hi2, bh2, "case1", p, m) /\ Len(s2) = Len(s) + 1
  <2>1. k \in 0..Len(s)
    BY <1>9 DEF Splits
  <2>2. QED
    BY <1>2, <1>3, <1>9, <1>10, <2>1, InsertedSeats
<1>12. Sorted(s2, virtualRuntime')
  BY <1>2, <1>3, <1>5, <1>6, <1>7, <1>9, <1>10, InsertedSorted
<1>13. op'.at = "case1" /\ op'.node = p
  BY <1>8
<1>14. ~Unlinking' /\ Gone' = Null /\ Deficient' = Null /\ Above' = Null /\ Below' = p
  BY <1>13 DEF Unlinking, Gone, Deficient, Above, Below, Cases
<1>15. count' \in 0..NPROC
  <2>1. NPROC \in Nat
    BY ProcsAssumption, FS_CardinalityType DEF NPROC
  <2>2. QED
    BY <1>0, <1>1, <1>8, <2>1 DEF OpTypes
<1>16. OpTypes'
  <2>1. op' \in [at : Cases \cup {"idle", "min", "rebalance", "finish"},
                 proc : Ptr, node : Ptr, parent : Ptr]
    BY <1>8 DEF Ptr, Cases
  <2>2. QED
    BY <1>1, <1>5, <1>7, <1>8, <1>13, <1>15, <2>1 DEF OpTypes
<1>17. CountOK(s2)' /\ MinOK(s2, pos2)'
  BY <1>1, <1>7, <1>8, <1>11, <1>13, <1>14 DEF CountOK, MinOK, CaseOK
<1>18. RebalanceOK(pos2, lo2)' /\ RetrieveOK(pos2)'
  BY <1>13, <1>14 DEF RebalanceOK, RetrieveOK
<1>19. /\ Layout(tree', s2, pos2, lo2, hi2, Null) /\ Heights(tree', pos2, bh2, Null)
       /\ RedRule(tree', pos2, Null, p) /\ RootBlack(tree', "case1", p)
       /\ InsertOK(tree', pos2, "case1", p)
  BY <1>11 DEF CaseOK, Cases
<1>20. TreeInv(s2, pos2, lo2, hi2, bh2)'
  BY <1>12, <1>13, <1>14, <1>16, <1>17, <1>18, <1>19 DEF TreeInv
<1>21. QED
  BY <1>7, <1>9, <1>10, <1>20

-----------------------------------------------------------------------------
(* retrieveProcess takes the first process out of the tree.                *)

\* The ghosts without the first seat.
TailPos(pos) == [m \in Procs |-> IF pos[m] = 0 THEN 0 ELSE pos[m] - 1]
TailLo(lo) == [m \in Procs |-> IF lo[m] = 1 THEN 1 ELSE lo[m] - 1]
TailHi(hi) == [m \in Procs |-> hi[m] - 1]

\* Every process of the shorter sequence has its seat.
LEMMA TailSeats ==
  ASSUME NEW s, NEW pos, Seats(s, pos), Len(s) # 0
  PROVE  /\ Seats(Tail(s), TailPos(pos)) /\ Len(Tail(s)) = Len(s) - 1
         /\ \A i \in 1..(Len(s) - 1) : Tail(s)[i] = s[i + 1]
<1> DEFINE pos2 == TailPos(pos)
           s2 == Tail(s)
<1>1. s \in Seq(Procs) /\ Len(s) \in Nat /\ pos \in [Procs -> 0..Len(s)] /\ s # << >>
  BY DEF Seats
<1>2. s2 \in Seq(Procs) /\ Len(s2) = Len(s) - 1 /\ \A i \in 1..(Len(s) - 1) : s2[i] = s[i + 1]
  BY <1>1
<1> HIDE DEF s2
<1>3. /\ pos2 \in [Procs -> 0..(Len(s) - 1)]
      /\ \A m \in Procs : pos2[m] = IF pos[m] = 0 THEN 0 ELSE pos[m] - 1
  BY <1>1 DEF TailPos
<1> HIDE DEF pos2
<1>4. ASSUME NEW i \in 1..(Len(s) - 1)
      PROVE  pos2[s2[i]] = i
  <2>1. i + 1 \in 1..Len(s) /\ s2[i] = s[i + 1]
    BY <1>1, <1>2
  <2>2. pos[s[i + 1]] = i + 1 /\ s[i + 1] \in Procs
    BY <1>1, <2>1 DEF Seats
  <2>3. QED
    BY <1>3, <2>1, <2>2
<1>5. ASSUME NEW m \in Procs, pos2[m] > 0
      PROVE  s2[pos2[m]] = m
  <2>1. pos[m] \in Nat /\ pos[m] > 1 /\ pos2[m] = pos[m] - 1 /\ pos[m] <= Len(s)
    BY <1>1, <1>3, <1>5
  <2>2. pos2[m] \in 1..(Len(s) - 1) /\ pos2[m] + 1 = pos[m] /\ s[pos[m]] = m
    BY <1>1, <2>1 DEF Seats
  <2>3. QED
    BY <1>2, <2>2
<1>6. Seats(s2, pos2)
  BY <1>2, <1>3, <1>4, <1>5 DEF Seats
<1>7. QED
  BY <1>2, <1>6 DEF s2, pos2

\* The rest of an ordered sequence is ordered.
LEMMA TailSorted ==
  ASSUME NEW s, NEW pos, Seats(s, pos), Len(s) # 0, NEW vr, Sorted(s, vr)
  PROVE  Sorted(Tail(s), vr)
<1>1. Len(Tail(s)) = Len(s) - 1 /\ Len(s) \in Nat /\ \A i \in 1..(Len(s) - 1) : Tail(s)[i] = s[i + 1]
  BY TailSeats DEF Seats
<1>2. ASSUME NEW i \in 1..(Len(s) - 1), NEW j \in 1..(Len(s) - 1), i <= j
      PROVE  vr[Tail(s)[i]] <= vr[Tail(s)[j]]
  <2>1. i + 1 \in 1..Len(s) /\ j + 1 \in 1..Len(s) /\ i + 1 <= j + 1
    BY <1>1, <1>2
  <2>2. vr[s[i + 1]] <= vr[s[j + 1]]
    BY <2>1 DEF Sorted
  <2>3. QED
    BY <1>1, <2>2
<1>3. QED
  BY <1>1, <1>2 DEF Sorted

\* p is the first process: it has no left child and is a left child, or the root.
First(t, pos, lo, hi, p) ==
  LET up == t.pParent[p]
      child == t.right[p]
  IN  /\ p \in Procs /\ pos[p] = 1 /\ lo[p] = 1 /\ t.left[p] = Null
      /\ up \in Ptr /\ child \in Ptr
      /\ p = t.root <=> up = Null
      /\ up # Null => /\ up \in Procs /\ pos[up] > 1 /\ up # p /\ t.left[up] = p
                      /\ lo[up] = 1 /\ hi[p] = pos[up] - 1
      /\ child = Null => hi[p] = 1
      /\ child # Null => /\ child \in Procs /\ pos[child] > 1 /\ child # p /\ child # up
                         /\ t.pParent[child] = p /\ lo[child] = 2 /\ hi[child] = hi[p]

\* The process in the first seat.
LEMMA FirstFacts ==
  ASSUME NEW t, NEW s, NEW pos, NEW lo, NEW hi, NEW g, Layout(t, s, pos, lo, hi, g), Len(s) # 0
  PROVE  First(t, pos, lo, hi, s[1])
<1> DEFINE p == s[1]
           up == t.pParent[p]
           child == t.right[p]
<1>1. /\ Seats(s, pos) /\ Shape(t, Len(s), pos, lo, hi) /\ s \in Seq(Procs) /\ Len(s) \in Nat
      /\ pos \in [Procs -> 0..Len(s)] /\ lo \in [Procs -> Int] /\ hi \in [Procs -> Int]
      /\ t.left \in [Procs -> Ptr] /\ t.right \in [Procs -> Ptr] /\ t.pParent \in [Procs -> Ptr]
      /\ t.root \in Ptr /\ Null \notin Procs
  BY NullAssumption DEF Layout, Seats, Shape, Trees
<1>2. 1 \in 1..Len(s)
  BY <1>1
<1>3. p \in Procs /\ pos[p] = 1
  BY <1>1, <1>2 DEF Seats
<1> HIDE DEF p
<1>4. \A m \in Procs : pos[m] > 0 => NodeOK(t, Len(s), pos, lo, hi, m)
  BY <1>1 DEF Shape
<1>5. \A m \in Procs : pos[m] > 0 => 1 <= lo[m] /\ lo[m] <= pos[m] /\ pos[m] <= hi[m]
  BY <1>4 DEF NodeOK
<1>6. \A m \in Procs : m # p /\ pos[m] > 0 => pos[m] > 1
  BY <1>1, <1>3, SeatsDiffer
<1>7. lo[p] = 1
  <2>1. lo[p] \in Int /\ 1 <= lo[p] /\ lo[p] <= 1
    BY <1>1, <1>3, <1>5
  <2>2. QED
    BY <2>1
<1>8. t.left[p] = Null
  <2>1. ASSUME t.left[p] # Null
        PROVE  FALSE
    <3>1. t.left[p] \in Procs
      BY <1>1, <1>3, <2>1 DEF Ptr
    <3>2. pos[t.left[p]] > 0 /\ lo[t.left[p]] = 1 /\ hi[t.left[p]] = 0
      BY <1>3, <1>4, <1>7, <2>1 DEF NodeOK, ChildOK
    <3>3. QED
      BY SMTT(30), <1>1, <1>5, <3>1, <3>2
  <2>2. QED
    BY <2>1
<1>9. up = Null => p = t.root
  BY <1>3, <1>4 DEF NodeOK
<1>10. p = t.root => up = Null
  BY <1>1, <1>3 DEF Shape, RootOK
<1>11. ASSUME up # Null
       PROVE  up \in Procs /\ pos[up] > 1 /\ up # p /\ t.left[up] = p /\ lo[up] = 1 /\ hi[p] = pos[up] - 1
  <2>1. up \in Procs
    BY <1>1, <1>3, <1>11 DEF Ptr
  <2>2. pos[up] > 0 /\ (p = t.left[up] \/ p = t.right[up])
    BY <1>3, <1>4, <1>11 DEF NodeOK
  <2>3. p # Null
    BY <1>1, <1>3
  <2>4. p # t.right[up]
    <3>1. ASSUME p = t.right[up]
          PROVE  FALSE
      <4>1. lo[p] = pos[up] + 1
        BY <1>4, <2>1, <2>2, <2>3, <3>1 DEF NodeOK, ChildOK
      <4>2. QED
        BY SMTT(30), <1>1, <1>7, <2>1, <2>2, <4>1
    <3>2. QED
      BY <3>1
  <2>5. lo[p] = lo[up] /\ hi[p] = pos[up] - 1 /\ p = t.left[up]
    BY <1>4, <2>1, <2>2, <2>3, <2>4 DEF NodeOK, ChildOK
  <2>6. up # p
    BY <1>8, <2>3, <2>5
  <2>7. QED
    BY <1>6, <1>7, <2>1, <2>2, <2>5, <2>6
<1>12. ChildOK(t, pos, lo, hi, child, p, 2, hi[p]) /\ hi[p] \in Int /\ child \in Ptr
  <2>1. hi[p] \in Int /\ child \in Ptr
    BY <1>1, <1>3
  <2>2. ChildOK(t, pos, lo, hi, child, p, pos[p] + 1, hi[p])
    BY <1>3, <1>4 DEF NodeOK
  <2>3. pos[p] + 1 = 2
    BY <1>3
  <2>4. QED
    BY <2>1, <2>2, <2>3
<1>13. child = Null => hi[p] = 1
  BY <1>12 DEF ChildOK
<1>14. ASSUME child # Null
       PROVE  /\ child \in Procs /\ pos[child] > 1 /\ child # p /\ child # up
              /\ t.pParent[child] = p /\ lo[child] = 2 /\ hi[child] = hi[p]
  <2>1. child \in Procs /\ pos[child] > 0 /\ t.pParent[child] = p /\ lo[child] = 2 /\ hi[child] = hi[p]
    BY <1>12, <1>14 DEF ChildOK, Ptr
  <2>2. child # p
    BY <1>7, <2>1
  <2>3. pos[child] > 1
    BY <1>6, <2>1, <2>2
  <2>4. child # up
    <3>1. ASSUME child = up
          PROVE  FALSE
      <4>1. hi[p] = pos[child] - 1 /\ pos[child] <= hi[p] /\ pos[child] \in Int
        BY <1>1, <1>5, <1>11, <1>14, <2>1, <3>1
      <4>2. QED
        BY <1>12, <4>1
    <3>2. QED
      BY <3>1
  <2>5. QED
    BY <2>1, <2>2, <2>3, <2>4
<1>15. up \in Ptr
  BY <1>1, <1>3
<1> HIDE DEF up, child
<1>16. First(t, pos, lo, hi, p)
  BY <1>3, <1>7, <1>8, <1>9, <1>10, <1>11, <1>12, <1>13, <1>14, <1>15 DEF First, up, child
<1>17. QED
  BY <1>16 DEF p

\* r is t with the right child of p, which has no left child, in the place of p.
Unhung(t, r, p) ==
  LET up == t.pParent[p]
      child == t.right[p]
  IN  /\ r \in Trees
      /\ r.root = IF up = Null THEN child ELSE t.root
      /\ r.right = t.right
      /\ r.left = IF up = Null THEN t.left ELSE [t.left EXCEPT ![up] = child]
      /\ r.pParent = IF child = Null THEN t.pParent ELSE [t.pParent EXCEPT ![child] = up]
      /\ r.color = IF child = Null THEN t.color ELSE [t.color EXCEPT ![child] = BLACK]

\* The links and colours node by node.
LEMMA UnhungLinks ==
  ASSUME NEW t \in Trees, NEW r, NEW pos, NEW lo, NEW hi, NEW p, First(t, pos, lo, hi, p),
         Unhung(t, r, p)
  PROVE  /\ r.root = IF t.pParent[p] = Null THEN t.right[p] ELSE t.root
         /\ \A m \in Procs :
              /\ r.right[m] = t.right[m]
              /\ r.left[m] = IF m = t.pParent[p] THEN t.right[p] ELSE t.left[m]
              /\ r.pParent[m] = IF m = t.right[p] THEN t.pParent[p] ELSE t.pParent[m]
              /\ r.color[m] = IF m = t.right[p] THEN BLACK ELSE t.color[m]
<1>1. /\ t.left \in [Procs -> Ptr] /\ t.right \in [Procs -> Ptr] /\ t.pParent \in [Procs -> Ptr]
      /\ t.color \in [Procs -> {RED, BLACK}] /\ Null \notin Procs
  BY NullAssumption DEF Trees
<1>2. /\ t.pParent[p] # Null => t.pParent[p] \in Procs
      /\ t.right[p] # Null => t.right[p] \in Procs
  BY DEF First
<1>3. \A m \in Procs : r.right[m] = t.right[m]
  BY DEF Unhung
<1>4. \A m \in Procs : r.left[m] = IF m = t.pParent[p] THEN t.right[p] ELSE t.left[m]
  BY <1>1, <1>2 DEF Unhung
<1>5. \A m \in Procs : r.pParent[m] = IF m = t.right[p] THEN t.pParent[p] ELSE t.pParent[m]
  BY <1>1, <1>2 DEF Unhung
<1>6. \A m \in Procs : r.color[m] = IF m = t.right[p] THEN BLACK ELSE t.color[m]
  BY <1>1, <1>2 DEF Unhung
<1>7. QED
  BY <1>3, <1>4, <1>5, <1>6 DEF Unhung

\* Unhanging the first process keeps the layout of the others.
LEMMA UnhungLayout ==
  ASSUME NEW t, NEW r, NEW s, NEW pos, NEW lo, NEW hi, Layout(t, s, pos, lo, hi, Null),
         NEW p, Len(s) # 0, p = s[1], Unhung(t, r, p)
  PROVE  Layout(r, Tail(s), TailPos(pos), TailLo(lo), TailHi(hi), p)
<1> DEFINE s2 == Tail(s)
           len == Len(s)
           pos2 == TailPos(pos)
           lo2 == TailLo(lo)
           hi2 == TailHi(hi)
           up == t.pParent[p]
           child == t.right[p]
<1>0. /\ Seats(s, pos) /\ Shape(t, Len(s), pos, lo, hi) /\ Outside(t, pos, Null)
      /\ t \in Trees /\ r \in Trees /\ len \in Nat
      /\ pos \in [Procs -> 0..len] /\ lo \in [Procs -> Int] /\ hi \in [Procs -> Int]
      /\ t.left \in [Procs -> Ptr] /\ t.right \in [Procs -> Ptr] /\ t.pParent \in [Procs -> Ptr]
      /\ t.root \in Ptr /\ Null \notin Procs
  BY NullAssumption DEF Layout, Seats, Shape, Trees, Unhung
<1>1. Seats(s2, pos2) /\ Len(s2) = len - 1
  BY <1>0, TailSeats
<1>f. First(t, pos, lo, hi, p)
  BY FirstFacts
<1>2. /\ r.root = IF up = Null THEN child ELSE t.root
      /\ \A m \in Procs :
           /\ r.right[m] = t.right[m]
           /\ r.left[m] = IF m = up THEN child ELSE t.left[m]
           /\ r.pParent[m] = IF m = child THEN up ELSE t.pParent[m]
  BY <1>0, <1>f, UnhungLinks
<1>3. /\ p \in Procs /\ pos[p] = 1 /\ lo[p] = 1 /\ t.left[p] = Null
      /\ up \in Ptr /\ child \in Ptr
      /\ p = t.root <=> up = Null
      /\ up # Null => /\ up \in Procs /\ pos[up] > 1 /\ up # p /\ t.left[up] = p
                      /\ lo[up] = 1 /\ hi[p] = pos[up] - 1
      /\ child = Null => hi[p] = 1
      /\ child # Null => /\ child \in Procs /\ pos[child] > 1 /\ child # p /\ child # up
                         /\ t.pParent[child] = p /\ lo[child] = 2 /\ hi[child] = hi[p]
  BY <1>f DEF First
<1>4. /\ pos2 \in [Procs -> 0..(len - 1)] /\ lo2 \in [Procs -> Int] /\ hi2 \in [Procs -> Int]
      /\ \A m \in Procs : /\ pos2[m] = IF pos[m] = 0 THEN 0 ELSE pos[m] - 1
                          /\ lo2[m] = IF lo[m] = 1 THEN 1 ELSE lo[m] - 1
                          /\ hi2[m] = hi[m] - 1
  BY <1>0 DEF TailPos, TailLo, TailHi
<1>5. \A m \in Procs : /\ pos[m] \in Nat /\ lo[m] \in Int /\ hi[m] \in Int
                       /\ pos[m] <= len /\ t.left[m] \in Ptr /\ t.right[m] \in Ptr /\ t.pParent[m] \in Ptr
  BY <1>0
<1>6. \A m \in Procs : m # p /\ pos[m] > 0 => pos[m] > 1
  BY <1>0, <1>3, <1>5, SeatsDiffer
<1>7. \A m \in Procs : pos2[m] > 0 <=> pos[m] > 1
  BY <1>4, <1>5
<1>8. ASSUME NEW m \in Procs, pos[m] > 0
      PROVE  /\ 1 <= lo[m] /\ lo[m] <= pos[m] /\ pos[m] <= hi[m] /\ hi[m] <= len
             /\ ChildOK(t, pos, lo, hi, t.left[m], m, lo[m], pos[m] - 1)
             /\ ChildOK(t, pos, lo, hi, t.right[m], m, pos[m] + 1, hi[m])
             /\ IF t.pParent[m] = Null THEN m = t.root
                ELSE /\ pos[t.pParent[m]] > 0
                     /\ m = t.left[t.pParent[m]] \/ m = t.right[t.pParent[m]]
  BY <1>0, <1>8 DEF Shape, NodeOK
<1> HIDE DEF s2, len, pos2, lo2, hi2, up, child
<1>9. RootOK(r, len - 1, pos2, lo2, hi2)
  <2>1. t.root # Null /\ t.root \in Procs /\ pos[t.root] > 0 /\ t.pParent[t.root] = Null
        /\ lo[t.root] = 1 /\ hi[t.root] = len
    BY <1>0 DEF Shape, RootOK, Ptr, len
  <2>2. CASE up = Null
    <3>1. r.root = child /\ hi[p] = len
      BY <1>2, <1>3, <2>1, <2>2
    <3>2. CASE child = Null
      BY <1>3, <3>1, <3>2 DEF RootOK
    <3>3. CASE child # Null
      <4>1. pos2[child] > 0 /\ r.pParent[child] = Null /\ lo2[child] = 1 /\ hi2[child] = len - 1
        BY <1>2, <1>3, <1>4, <1>7, <2>2, <3>1, <3>3
      <4>2. QED
        BY <3>1, <3>3, <4>1 DEF RootOK
    <3>4. QED
      BY <3>2, <3>3
  <2>3. CASE up # Null
    <3>1. r.root = t.root /\ t.root # p /\ t.root # child
      BY <1>0, <1>2, <1>3, <2>1, <2>3
    <3>2. pos2[t.root] > 0 /\ r.pParent[t.root] = Null /\ lo2[t.root] = 1 /\ hi2[t.root] = len - 1
      BY <1>2, <1>4, <1>6, <1>7, <2>1, <3>1
    <3>3. QED
      BY <2>1, <3>1, <3>2 DEF RootOK
  <2>4. QED
    BY <2>2, <2>3
<1>10. ASSUME NEW m \in Procs, pos[m] > 1
       PROVE  ChildOK(r, pos2, lo2, hi2, r.left[m], m, lo2[m], pos2[m] - 1)
  <2>0. /\ pos2[m] = pos[m] - 1 /\ pos[m] \in Nat /\ lo[m] \in Int /\ 1 <= lo[m] /\ lo[m] <= pos[m]
        /\ lo2[m] = IF lo[m] = 1 THEN 1 ELSE lo[m] - 1
    BY <1>4, <1>5, <1>8, <1>10
  <2>1. CASE m = up
    <3>1. r.left[m] = child /\ lo2[m] = 1 /\ hi[p] = pos[m] - 1
      BY <1>0, <1>2, <1>3, <2>0, <2>1
    <3>2. CASE child = Null
      BY <1>3, <2>0, <3>1, <3>2 DEF ChildOK
    <3>3. CASE child # Null
      <4>1. /\ pos2[child] > 0 /\ r.pParent[child] = m /\ lo2[child] = 1
            /\ hi2[child] = pos2[m] - 1
        BY SMTT(30), <1>2, <1>3, <1>4, <1>7, <2>0, <2>1, <3>1, <3>3
      <4>2. QED
        BY <3>1, <3>3, <4>1 DEF ChildOK
    <3>4. QED
      BY <3>2, <3>3
  <2>2. CASE m # up
    <3>1. r.left[m] = t.left[m] /\ ChildOK(t, pos, lo, hi, t.left[m], m, lo[m], pos[m] - 1)
      BY <1>2, <1>8, <1>10, <2>0, <2>2
    <3>2. CASE t.left[m] = Null
      <4>1. lo[m] = pos[m]
        BY <2>0, <3>1, <3>2 DEF ChildOK
      <4>2. QED
        BY <1>10, <2>0, <3>1, <3>2, <4>1 DEF ChildOK
    <3>3. CASE t.left[m] # Null
      <4>1. PICK c \in Procs : c = t.left[m]
        BY <1>5, <3>3 DEF Ptr
      <4>2. pos[c] > 0 /\ t.pParent[c] = m /\ lo[c] = lo[m] /\ hi[c] = pos[m] - 1
        BY <3>1, <3>3, <4>1 DEF ChildOK
      <4>a. c # p
        BY <2>2, <4>2 DEF up
      <4>b. c # child
        BY <1>0, <1>3, <1>10, <4>2
      <4>3. c # p /\ c # child
        BY <4>a, <4>b
      <4>4. pos2[c] > 0 /\ r.pParent[c] = m /\ lo2[c] = lo2[m] /\ hi2[c] = pos2[m] - 1
        BY SMTT(30), <1>2, <1>4, <1>6, <1>7, <2>0, <4>2, <4>3
      <4>5. QED
        BY <3>1, <3>3, <4>1, <4>4 DEF ChildOK
    <3>4. QED
      BY <3>2, <3>3
  <2>3. QED
    BY <2>1, <2>2
<1>11. ASSUME NEW m \in Procs, pos[m] > 1
       PROVE  ChildOK(r, pos2, lo2, hi2, r.right[m], m, pos2[m] + 1, hi2[m])
  <2>0. pos2[m] = pos[m] - 1 /\ pos[m] \in Nat /\ hi[m] \in Int /\ hi2[m] = hi[m] - 1
    BY <1>4, <1>5, <1>11
  <2>1. r.right[m] = t.right[m] /\ ChildOK(t, pos, lo, hi, t.right[m], m, pos[m] + 1, hi[m])
    BY <1>2, <1>8, <1>11, <2>0
  <2>2. CASE t.right[m] = Null
    <3>1. hi[m] = pos[m]
      BY <2>0, <2>1, <2>2 DEF ChildOK
    <3>2. QED
      BY <2>0, <2>1, <2>2, <3>1 DEF ChildOK
  <2>3. CASE t.right[m] # Null
    <3>1. PICK c \in Procs : c = t.right[m]
      BY <1>5, <2>3 DEF Ptr
    <3>2. pos[c] > 0 /\ t.pParent[c] = m /\ lo[c] = pos[m] + 1 /\ hi[c] = hi[m]
      BY <2>1, <2>3, <3>1 DEF ChildOK
    <3>a. c # p
      BY <1>3, <1>11, <2>0, <3>2
    <3>b. c # child
      BY <1>0, <1>3, <1>11, <3>2
    <3>3. pos2[c] > 0 /\ r.pParent[c] = m
      BY <1>2, <1>6, <1>7, <3>2, <3>a, <3>b
    <3>c. lo2[c] = pos2[m] + 1 /\ hi2[c] = hi2[m]
      <4>1. lo2[c] = (IF lo[c] = 1 THEN 1 ELSE lo[c] - 1) /\ hi2[c] = hi[c] - 1
        BY <1>4
      <4>2. QED
        BY <1>11, <2>0, <3>2, <4>1
    <3>4. pos2[c] > 0 /\ r.pParent[c] = m /\ lo2[c] = pos2[m] + 1 /\ hi2[c] = hi2[m]
      BY <3>3, <3>c
    <3>5. QED
      BY <2>1, <2>3, <3>1, <3>4 DEF ChildOK
  <2>4. QED
    BY <2>2, <2>3
<1>12. ASSUME NEW m \in Procs, pos[m] > 1
       PROVE  IF r.pParent[m] = Null THEN m = r.root
              ELSE /\ pos2[r.pParent[m]] > 0
                   /\ m = r.left[r.pParent[m]] \/ m = r.right[r.pParent[m]]
  <2>0. m # p /\ pos[m] > 0 /\ m # Null
    BY <1>0, <1>3, <1>5, <1>12
  <2>1. CASE m = child
    <3>1. r.pParent[m] = up
      BY <1>2, <2>1
    <3>2. CASE up = Null
      BY <1>2, <2>1, <3>1, <3>2
    <3>3. CASE up # Null
      <4>1. up \in Procs /\ pos2[up] > 0 /\ r.left[up] = m
        BY <1>2, <1>3, <1>7, <2>1, <3>3
      <4>2. QED
        BY <3>1, <3>3, <4>1
    <3>4. QED
      BY <3>2, <3>3
  <2>2. CASE m # child
    <3>1. r.pParent[m] = t.pParent[m]
      BY <1>2, <2>2
    <3>2. CASE t.pParent[m] = Null
      <4>1. m = t.root
        BY <1>8, <2>0, <3>2
      <4>2. QED
        BY <1>2, <1>3, <2>0, <3>1, <3>2, <4>1
    <3>3. CASE t.pParent[m] # Null
      <4>1. PICK u \in Procs : u = t.pParent[m]
        BY <1>5, <3>3 DEF Ptr
      <4>2. pos[u] > 0 /\ (m = t.left[u] \/ m = t.right[u])
        BY <1>8, <2>0, <3>3, <4>1
      <4>3. u # p
        BY <1>3, <2>0, <2>2, <4>2 DEF child
      <4>4. pos2[u] > 0
        BY <1>6, <1>7, <4>2, <4>3
      <4>5. m = r.left[u] \/ m = r.right[u]
        BY <1>0, <1>2, <1>3, <2>0, <4>1, <4>2
      <4>6. QED
        BY <3>1, <3>3, <4>1, <4>4, <4>5
    <3>4. QED
      BY <3>2, <3>3
  <2>3. QED
    BY <2>1, <2>2
<1>13. ASSUME NEW m \in Procs, pos[m] > 1
       PROVE  1 <= lo2[m] /\ lo2[m] <= pos2[m] /\ pos2[m] <= hi2[m] /\ hi2[m] <= len - 1
  <2>1. /\ pos[m] \in Nat /\ lo[m] \in Int /\ hi[m] \in Int /\ len \in Nat
        /\ 1 <= lo[m] /\ lo[m] <= pos[m] /\ pos[m] <= hi[m] /\ hi[m] <= len
    BY <1>0, <1>5, <1>8, <1>13
  <2>2. /\ pos2[m] = pos[m] - 1 /\ hi2[m] = hi[m] - 1
        /\ lo2[m] = IF lo[m] = 1 THEN 1 ELSE lo[m] - 1
    BY <1>4, <1>13, <2>1
  <2>3. QED
    BY <1>13, <2>1, <2>2
<1>14. Shape(r, len - 1, pos2, lo2, hi2)
  <2>1. \A m \in Procs : pos2[m] > 0 => NodeOK(r, len - 1, pos2, lo2, hi2, m)
    BY <1>7, <1>10, <1>11, <1>12, <1>13 DEF NodeOK
  <2>2. len - 1 \in Nat
    BY <1>0 DEF len
  <2>3. QED
    BY <1>0, <1>4, <1>9, <2>1, <2>2 DEF Shape
<1>15. Outside(r, pos2, p)
  <2> SUFFICES ASSUME NEW m \in Procs, pos2[m] = 0
               PROVE  /\ r.left[m] = Null
                      /\ r.right[m] # Null => m = p /\ pos2[r.right[m]] > 0
                      /\ r.pParent[m] # Null => m = p /\ pos2[r.pParent[m]] > 0
    BY DEF Outside
  <2>1. CASE pos[m] = 0
    <3>1. t.left[m] = Null /\ t.right[m] = Null /\ t.pParent[m] = Null
      BY <1>0, <2>1 DEF Outside
    <3>2. m # up /\ m # child
      BY <1>0, <1>3, <2>1
    <3>3. QED
      BY <1>2, <3>1, <3>2
  <2>2. CASE pos[m] # 0
    <3>1. m = p
      BY <1>5, <1>6, <1>7, <2>2
    <3>2. m # up /\ m # child
      BY <1>0, <1>3, <3>1
    <3>3. r.left[m] = Null /\ r.right[m] = child /\ r.pParent[m] = up
      BY <1>2, <1>3, <3>1, <3>2 DEF up, child
    <3>4. QED
      BY <1>3, <1>7, <3>1, <3>3
  <2>3. QED
    BY <2>1, <2>2
<1>16. QED
  BY <1>1, <1>14, <1>15 DEF Layout, s2, pos2, lo2, hi2, len

\* A right child of the first process is red, since there is nothing on its left.
LEMMA FirstColours ==
  ASSUME NEW t, NEW s, NEW pos, NEW lo, NEW hi, Layout(t, s, pos, lo, hi, Null),
         NEW p, First(t, pos, lo, hi, p),
         NEW bh, Heights(t, pos, bh, Null), RedRule(t, pos, Null, Null)
  PROVE  /\ bh[p] = BlackBit(t, p) /\ bh[t.right[p]] = 0
         /\ t.right[p] # Null => t.color[p] = BLACK /\ t.color[t.right[p]] = RED
<1> DEFINE child == t.right[p]
<1>1. /\ p \in Procs /\ pos[p] > 0 /\ t.left[p] = Null /\ p # Null
      /\ child # Null => child \in Procs /\ pos[child] > 0
  <2>1. /\ p \in Procs /\ pos[p] = 1 /\ t.left[p] = Null
        /\ child # Null => child \in Procs /\ pos[child] > 1
    BY DEF First
  <2>2. pos \in [Procs -> Nat]
    BY DEF Layout, Shape
  <2>3. QED
    BY <2>1, <2>2, NullAssumption
<1>2. bh \in [Ptr -> Nat] /\ bh[Null] = 0 /\ HeightOK(t, bh, Null, p)
  BY <1>1 DEF Heights
<1>3. bh[child] = 0 /\ bh[p] = BlackBit(t, p)
  BY <1>1, <1>2 DEF HeightOK, Lacks, BlackBit
<1>4. ASSUME child # Null
      PROVE  t.color[p] = BLACK /\ t.color[child] = RED
  <2>1. HeightOK(t, bh, Null, child) /\ child \in Procs /\ child \in Ptr
    BY <1>1, <1>4 DEF Heights, Ptr
  <2>2. t.color \in [Procs -> {RED, BLACK}] /\ t.right \in [Procs -> Ptr]
    BY DEF Layout, Shape, Trees
  <2>3. t.color[child] # BLACK
    <3>1. t.right[child] \in Ptr
      BY <2>1, <2>2
    <3>2. bh[t.right[child]] \in Nat
      BY <1>2, <3>1
    <3>3. QED
      BY <1>3, <2>1, <3>2 DEF HeightOK, BlackBit
  <2>4. t.color[child] = RED
    BY <2>1, <2>2, <2>3
  <2>5. IsRed(t, child)
    BY <1>4, <2>4 DEF IsRed
  <2>6. RedOK(t, Null, Null, p)
    BY <1>1 DEF RedRule
  <2>7. t.color[p] # RED
    BY <1>1, <1>4, <2>5, <2>6 DEF RedOK
  <2>8. QED
    BY <1>1, <2>2, <2>4, <2>7
<1>5. QED
  BY <1>3, <1>4

\* retrievingCases unhangs the process, and balances the tree if that took a black
\* node away.
LEMMA RetrievingCase1 ==
  ASSUME NEW t \in Trees, NEW pos, NEW lo, NEW hi, NEW p, First(t, pos, lo, hi, p),
         t.right[p] # Null => t.color[p] = BLACK /\ t.color[t.right[p]] = RED
  PROVE  /\ Unhung(t, retrievingCase1(t, p).tree, p)
         /\ retrievingCase1(t, p).at =
              IF t.right[p] = Null /\ t.pParent[p] # Null /\ t.color[p] = BLACK
              THEN "rebalance" ELSE "finish"
<1> DEFINE up == t.pParent[p]
           child == t.right[p]
           r == retrievingCase1(t, p).tree
           at == retrievingCase1(t, p).at
<1>1. /\ p \in Procs /\ up \in Ptr /\ child \in Ptr /\ (p = t.root <=> up = Null)
      /\ up # Null => up \in Procs
      /\ child # Null => child \in Procs
      /\ Null \in Ptr /\ t.color \in [Procs -> {RED, BLACK}]
  BY DEF First, Ptr, Trees
<1>c. BLACK \in {RED, BLACK} /\ RED # BLACK
  BY DEF RED, BLACK
<1>2. CASE up = Null /\ child = Null
  <2>1. r = [t EXCEPT !.root = child] /\ at = "finish"
    BY <1>1, <1>2 DEF retrievingCase1
  <2> HIDE DEF r, at, up, child
  <2>2. /\ r \in Trees /\ r.root = child /\ r.left = t.left /\ r.right = t.right
        /\ r.pParent = t.pParent /\ r.color = t.color
    BY <1>1, <2>1, SetRootFields
  <2>3. QED
    BY <1>2, <2>1, <2>2 DEF Unhung, r, at, up, child
<1>3. CASE up = Null /\ child # Null
  <2> DEFINE t1 == SetParent(t, child, Null)
             t2 == SetColor(t1, child, BLACK)
  <2>1. r = [t2 EXCEPT !.root = child] /\ at = "finish"
    BY <1>1, <1>3 DEF retrievingCase1
  <2> HIDE DEF r, at, up, child
  <2>2. /\ t1 \in Trees /\ t1.root = t.root /\ t1.left = t.left /\ t1.right = t.right
        /\ t1.pParent = [t.pParent EXCEPT ![child] = Null] /\ t1.color = t.color
    BY <1>1, <1>3, SetParentFields
  <2> HIDE DEF t1
  <2>a. /\ t2 \in Trees /\ t2.root = t1.root /\ t2.left = t1.left /\ t2.right = t1.right
        /\ t2.pParent = t1.pParent /\ t2.color = [t1.color EXCEPT ![child] = BLACK]
    <3>1. child \in Procs
      BY <1>1, <1>3
    <3>2. QED
      BY <1>c, <2>2, <3>1, SetColorFields
  <2>3. /\ t2 \in Trees /\ t2.root = t.root /\ t2.left = t.left /\ t2.right = t.right
        /\ t2.pParent = [t.pParent EXCEPT ![child] = Null]
        /\ t2.color = [t.color EXCEPT ![child] = BLACK]
    BY <2>2, <2>a
  <2> HIDE DEF t2
  <2>4. /\ r \in Trees /\ r.root = child /\ r.left = t2.left /\ r.right = t2.right
        /\ r.pParent = t2.pParent /\ r.color = t2.color
    BY <1>1, <2>1, <2>3, SetRootFields
  <2>5. QED
    BY <1>3, <2>1, <2>3, <2>4 DEF Unhung, r, at, up, child
<1>4. CASE up # Null /\ child # Null
  <2> DEFINE t1 == SetParent(t, child, up)
             t2 == SetColor(t1, child, BLACK)
  <2>1. r = SetLeft(t2, up, child) /\ at = "finish"
    BY <1>1, <1>c, <1>4 DEF retrievingCase1
  <2> HIDE DEF r, at, up, child
  <2>2. /\ t1 \in Trees /\ t1.root = t.root /\ t1.left = t.left /\ t1.right = t.right
        /\ t1.pParent = [t.pParent EXCEPT ![child] = up] /\ t1.color = t.color
    BY <1>1, <1>4, SetParentFields
  <2> HIDE DEF t1
  <2>a. /\ t2 \in Trees /\ t2.root = t1.root /\ t2.left = t1.left /\ t2.right = t1.right
        /\ t2.pParent = t1.pParent /\ t2.color = [t1.color EXCEPT ![child] = BLACK]
    <3>1. child \in Procs
      BY <1>1, <1>4
    <3>2. QED
      BY <1>c, <2>2, <3>1, SetColorFields
  <2>3. /\ t2 \in Trees /\ t2.root = t.root /\ t2.left = t.left /\ t2.right = t.right
        /\ t2.pParent = [t.pParent EXCEPT ![child] = up]
        /\ t2.color = [t.color EXCEPT ![child] = BLACK]
    BY <2>2, <2>a
  <2> HIDE DEF t2
  <2>4. /\ r \in Trees /\ r.root = t2.root /\ r.left = [t2.left EXCEPT ![up] = child]
        /\ r.right = t2.right /\ r.pParent = t2.pParent /\ r.color = t2.color
    BY <1>1, <1>4, <2>1, <2>3, SetLeftFields
  <2>5. QED
    BY <1>4, <2>1, <2>3, <2>4 DEF Unhung, r, at, up, child
<1>5. CASE up # Null /\ child = Null
  <2>1. /\ r = SetLeft(t, up, child)
        /\ at = IF t.color[p] = BLACK THEN "rebalance" ELSE "finish"
    BY <1>1, <1>c, <1>5 DEF retrievingCase1
  <2> HIDE DEF r, at, up, child
  <2>2. /\ r \in Trees /\ r.root = t.root /\ r.left = [t.left EXCEPT ![up] = child]
        /\ r.right = t.right /\ r.pParent = t.pParent /\ r.color = t.color
    BY <1>1, <1>5, <2>1, SetLeftFields
  <2>3. QED
    BY <1>5, <2>1, <2>2 DEF Unhung, r, at, up, child
<1>6. QED
  BY <1>2, <1>3, <1>4, <1>5

\* Only the parent of a black leaf loses a black node.
LEMMA UnhungColours ==
  ASSUME NEW t, NEW r, NEW s, NEW pos, NEW lo, NEW hi, Layout(t, s, pos, lo, hi, Null),
         NEW p, First(t, pos, lo, hi, p), Unhung(t, r, p), NEW bh, Heights(t, pos, bh, Null),
         RedRule(t, pos, Null, Null), IsBlack(t, t.root), NEW d,
         d = IF t.right[p] = Null /\ t.color[p] = BLACK THEN t.pParent[p] ELSE Null
  PROVE  /\ \E bh2 : Heights(r, TailPos(pos), bh2, d)
         /\ RedRule(r, TailPos(pos), Null, Null) /\ IsBlack(r, r.root)
<1> DEFINE up == t.pParent[p]
           child == t.right[p]
           pos2 == TailPos(pos)
           bh2 == [m \in Ptr |-> IF m = Null THEN 0 ELSE IF m = child THEN 1 ELSE bh[m]]
<1>0. /\ t \in Trees /\ pos \in [Procs -> Nat] /\ Null \notin Procs
      /\ t.left \in [Procs -> Ptr] /\ t.right \in [Procs -> Ptr] /\ t.pParent \in [Procs -> Ptr]
      /\ t.color \in [Procs -> {RED, BLACK}] /\ t.root \in Ptr
  BY NullAssumption DEF Layout, Shape, Trees
<1>1. /\ r.root = IF up = Null THEN child ELSE t.root
      /\ \A m \in Procs :
              /\ r.right[m] = t.right[m]
              /\ r.left[m] = IF m = up THEN child ELSE t.left[m]
              /\ r.pParent[m] = IF m = child THEN up ELSE t.pParent[m]
              /\ r.color[m] = IF m = child THEN BLACK ELSE t.color[m]
  BY <1>0, UnhungLinks
<1>2. /\ p \in Procs /\ t.left[p] = Null /\ up \in Ptr /\ child \in Ptr
      /\ p = t.root <=> up = Null
      /\ up # Null => up \in Procs /\ pos[up] > 1 /\ up # p /\ t.left[up] = p
      /\ child # Null => /\ child \in Procs /\ pos[child] > 1 /\ child # p /\ child # up
                         /\ t.pParent[child] = p
  BY DEF First
<1>3. /\ bh[p] = BlackBit(t, p) /\ bh[child] = 0
      /\ child # Null => t.color[p] = BLACK /\ t.color[child] = RED
  BY FirstColours
<1>4. \A m \in Procs : pos2[m] > 0 => pos[m] > 0 /\ pos[m] > 1
  BY <1>0 DEF TailPos
<1>5. /\ bh \in [Ptr -> Nat] /\ bh[Null] = 0
      /\ \A m \in Procs : pos[m] > 0 => HeightOK(t, bh, Null, m)
  BY DEF Heights
<1>6. /\ bh2 \in [Ptr -> Nat] /\ bh2[Null] = 0 /\ (child # Null => bh2[child] = 1)
      /\ \A m \in Ptr : m # child => bh2[m] = bh[m]
  BY <1>2, <1>5 DEF Ptr
<1> HIDE DEF pos2, bh2, up, child
<1>a. pos[p] = 1
  BY DEF First
\* The links of the nodes that stay.
<1>7. ASSUME NEW m \in Procs, pos[m] > 1
      PROVE  /\ m # p /\ pos[m] > 0 /\ m # Null
             /\ t.right[m] # Null => t.right[m] # p /\ t.right[m] # child
             /\ m # up /\ t.left[m] # Null => t.left[m] # p /\ t.left[m] # child
  <2>1. m # p /\ pos[m] > 0 /\ m # Null
    BY <1>0, <1>7, <1>a
  <2>2. NodeOK(t, Len(s), pos, lo, hi, m)
    BY <2>1 DEF Layout, Shape
  <2>3. /\ t.left[m] # Null => t.pParent[t.left[m]] = m
        /\ t.right[m] # Null => t.pParent[t.right[m]] = m /\ lo[t.right[m]] = pos[m] + 1
    BY <2>2 DEF NodeOK, ChildOK
  <2>4. lo[p] = 1 /\ pos[m] \in Nat
    BY <1>0 DEF First
  <2>5. t.right[m] # Null => t.right[m] # p
    BY <1>7, <2>3, <2>4
  <2>6. t.right[m] # Null => t.right[m] # child
    BY <1>2, <2>1, <2>3
  <2>7. m # up /\ t.left[m] # Null => t.left[m] # p
    BY <2>3 DEF up
  <2>8. t.left[m] # Null => t.left[m] # child
    BY <1>2, <2>1, <2>3
  <2>9. QED
    BY <2>1, <2>5, <2>6, <2>7, <2>8
<1>b. d = IF child = Null /\ t.color[p] = BLACK THEN up ELSE Null
  BY DEF up, child
<1>8. ASSUME NEW m \in Procs, pos[m] > 1
      PROVE  HeightOK(r, bh2, d, m)
  <2>0. /\ m \in Ptr /\ m # Null /\ t.left[m] \in Ptr /\ t.right[m] \in Ptr
        /\ bh[t.left[m]] \in Nat /\ bh[t.right[m]] \in Nat /\ bh[p] \in Nat
    BY <1>0, <1>2, <1>5, <1>7, <1>8 DEF Ptr
  <2>1. /\ bh[m] = bh[t.right[m]] + BlackBit(t, m)
        /\ bh[t.right[m]] = bh[t.left[m]]
    <3>1. HeightOK(t, bh, Null, m)
      BY <1>5, <1>7, <1>8
    <3>2. QED
      BY <2>0, <3>1 DEF HeightOK, Lacks
  <2>2. r.right[m] = t.right[m] /\ bh2[t.right[m]] = bh[t.right[m]]
    BY <1>1, <1>5, <1>6, <1>7, <1>8, <2>0
  <2>3. m # up => r.left[m] = t.left[m] /\ bh2[t.left[m]] = bh[t.left[m]]
    BY <1>1, <1>5, <1>6, <1>7, <1>8, <2>0
  <2>4. CASE m = child
    <3>1. child # Null /\ m # up /\ d = Null /\ bh2[m] = 1 /\ bh[m] = 0
      BY <1>2, <1>3, <1>6, <1>b, <2>0, <2>4
    <3>2. bh[t.right[m]] = 0 /\ bh[t.left[m]] = 0
      BY <2>0, <2>1, <3>1 DEF BlackBit
    <3>3. BlackBit(r, m) = 1 /\ Lacks(m, d) = 0
      BY <1>1, <2>0, <2>4, <3>1 DEF BlackBit, Lacks
    <3>4. QED
      BY <2>2, <2>3, <3>1, <3>2, <3>3 DEF HeightOK
  <2>5. CASE m # child
    <3>1. bh2[m] = bh[m] /\ BlackBit(r, m) = BlackBit(t, m)
      BY <1>1, <1>6, <2>0, <2>5 DEF BlackBit
    <3>2. bh2[r.right[m]] = bh2[r.left[m]] + Lacks(m, d)
      <4>1. CASE m # up
        <5>1. Lacks(m, d) = 0
          BY <1>b, <2>0, <4>1 DEF Lacks
        <5>2. QED
          BY <2>0, <2>1, <2>2, <2>3, <4>1, <5>1
      <4>2. CASE m = up
        <5>1. r.left[m] = child /\ bh[t.left[m]] = BlackBit(t, p)
          BY <1>1, <1>2, <1>3, <2>0, <4>2
        <5>2. CASE child = Null
          <6>1. Lacks(m, d) = BlackBit(t, p)
            BY <1>b, <2>0, <4>2, <5>2 DEF Lacks, BlackBit
          <6>2. QED
            BY <1>6, <2>0, <2>1, <2>2, <5>1, <5>2, <6>1
        <5>3. CASE child # Null
          <6>1. Lacks(m, d) = 0 /\ BlackBit(t, p) = 1
            BY <1>3, <1>b, <2>0, <5>3 DEF Lacks, BlackBit
          <6>2. QED
            BY <1>6, <2>0, <2>1, <2>2, <5>1, <5>3, <6>1
        <5>4. QED
          BY <5>2, <5>3
      <4>3. QED
        BY <4>1, <4>2
    <3>3. QED
      BY <2>1, <2>2, <3>1, <3>2 DEF HeightOK
  <2>6. QED
    BY <2>4, <2>5
<1>9. Heights(r, pos2, bh2, d)
  BY <1>4, <1>6, <1>8 DEF Heights
<1>10. \A c \in Ptr : IsRed(r, c) => IsRed(t, c) /\ c # child
  BY <1>1 DEF IsRed, Ptr, RED, BLACK
<1>11. ASSUME NEW m \in Procs, pos[m] > 1
       PROVE  RedOK(r, Null, Null, m)
  <2>1. RedOK(t, Null, Null, m) /\ t.left[m] \in Ptr /\ t.right[m] \in Ptr
    BY <1>0, <1>7, <1>11 DEF RedRule
  <2>2. r.color[m] = RED => t.color[m] = RED
    BY <1>1 DEF RED, BLACK
  <2>3. r.right[m] = t.right[m] /\ (r.left[m] = t.left[m] \/ r.left[m] = child)
    BY <1>1
  <2>4. ~IsRed(r, child)
    BY <1>2, <1>10
  <2>5. QED
    BY <1>10, <2>1, <2>2, <2>3, <2>4, <1>7, <1>11 DEF RedOK
<1>12. RedRule(r, pos2, Null, Null)
  BY <1>4, <1>11 DEF RedRule
<1>13. IsBlack(r, r.root)
  <2>1. CASE up = Null
    BY <1>1, <1>2, <2>1 DEF IsBlack
  <2>2. CASE up # Null
    BY <1>0, <1>1, <2>2 DEF IsBlack, Ptr
  <2>3. QED
    BY <2>1, <2>2
<1>14. QED
  BY <1>9, <1>12, <1>13 DEF pos2

\* retrieveProcess unlinks the first process.
LEMMA RetrieveProcessInv ==
  ASSUME NEW s, NEW pos, NEW lo, NEW hi, NEW bh, TreeInv(s, pos, lo, hi, bh), retrieveProcess
  PROVE  /\ Len(s) # 0 /\ minvRuntime = s[1] /\ op'.proc = s[1] /\ Unlinking'
         /\ \E lo2, hi2, bh2 : TreeInv(Tail(s), TailPos(pos), lo2, hi2, bh2)'
<1>0. PICK t, p : t = tree /\ p = minvRuntime
  OBVIOUS
<1>1. /\ op = Idle /\ count # 0
      /\ tree' = retrievingCase1(t, p).tree
      /\ op' = [at |-> retrievingCase1(t, p).at, proc |-> p, node |-> t.right[p],
                parent |-> t.pParent[p]]
      /\ count' = count /\ minvRuntime' = p /\ virtualRuntime' = virtualRuntime
  BY <1>0 DEF retrieveProcess
<1>2. /\ IdleOK(t, s, pos, lo, hi, bh, p) /\ count = Len(s)
      /\ OpTypes /\ Sorted(s, virtualRuntime)
  BY <1>0, <1>1, IdleFacts
<1>3. /\ Layout(t, s, pos, lo, hi, Null) /\ Heights(t, pos, bh, Null)
      /\ RedRule(t, pos, Null, Null) /\ IsBlack(t, t.root)
      /\ p = s[1] /\ Len(s) # 0
  BY <1>1, <1>2 DEF IdleOK
<1>4. t \in Trees /\ Seats(s, pos) /\ pos \in [Procs -> Nat]
  BY <1>3 DEF Layout, Shape
<1>5. First(t, pos, lo, hi, p)
  BY <1>3, FirstFacts
<1>6. t.right[p] # Null => t.color[p] = BLACK /\ t.color[t.right[p]] = RED
  BY <1>3, <1>5, FirstColours
<1>7. /\ Unhung(t, tree', p)
      /\ op'.at = IF t.right[p] = Null /\ t.pParent[p] # Null /\ t.color[p] = BLACK
                  THEN "rebalance" ELSE "finish"
  BY <1>1, <1>4, <1>5, <1>6, RetrievingCase1
<1>8. op'.proc = p /\ op'.node = t.right[p] /\ op'.parent = t.pParent[p]
  BY <1>1
<1>9. PICK r, d, lo2, hi2, pos2, s2 :
        /\ r = tree' /\ lo2 = TailLo(lo) /\ hi2 = TailHi(hi) /\ pos2 = TailPos(pos) /\ s2 = Tail(s)
        /\ d = IF t.right[p] = Null /\ t.color[p] = BLACK THEN t.pParent[p] ELSE Null
  OBVIOUS
<1>10. Layout(r, s2, pos2, lo2, hi2, p)
  BY <1>3, <1>7, <1>9, UnhungLayout
<1>11. /\ \E bh2 : Heights(r, pos2, bh2, d)
       /\ RedRule(r, pos2, Null, Null) /\ IsBlack(r, r.root)
  <2>1. Unhung(t, r, p) /\ d = IF t.right[p] = Null /\ t.color[p] = BLACK THEN t.pParent[p] ELSE Null
    BY <1>7, <1>9
  <2>2. /\ \E bh2 : Heights(r, TailPos(pos), bh2, d)
        /\ RedRule(r, TailPos(pos), Null, Null) /\ IsBlack(r, r.root)
    BY <1>3, <1>5, <2>1, UnhungColours
  <2>3. QED
    BY <1>9, <2>2
<1>12. PICK bh2 : Heights(r, pos2, bh2, d)
  BY <1>11
<1>13. /\ r.root = IF t.pParent[p] = Null THEN t.right[p] ELSE t.root
       /\ \A m \in Procs : r.left[m] = IF m = t.pParent[p] THEN t.right[p] ELSE t.left[m]
  BY <1>4, <1>5, <1>7, <1>9, UnhungLinks
<1>14. Len(s2) = Len(s) - 1 /\ Sorted(s2, virtualRuntime')
  BY <1>1, <1>2, <1>3, <1>4, <1>9, TailSeats, TailSorted
<1>15. op'.at \in {"rebalance", "finish"} /\ Unlinking' /\ op'.at \notin Cases /\ op'.at # "idle"
       /\ op'.at # "min" /\ op'.at # "case1"
  BY <1>7 DEF Unlinking, Cases
<1>16. /\ p \in Procs /\ p # Null /\ pos[p] = 1
       /\ t.pParent[p] \in Ptr /\ t.right[p] \in Ptr /\ (p = t.root <=> t.pParent[p] = Null)
       /\ t.pParent[p] # Null => t.pParent[p] \in Procs /\ pos[t.pParent[p]] > 1 /\ lo[t.pParent[p]] = 1
  BY <1>5, NullAssumption DEF First
<1>17. t.root # Null
  BY <1>3 DEF Layout, Shape, RootOK
<1>18. Deficient' = d
  BY <1>7, <1>8, <1>9, <1>13, <1>17 DEF Deficient
<1>19. Gone' = p /\ Above' = Null /\ Below' = Null
  BY <1>7, <1>8, <1>15 DEF Gone, Above, Below
<1>20. OpTypes'
  <2>1. op' \in [at : Cases \cup {"idle", "min", "rebalance", "finish"},
                 proc : Ptr, node : Ptr, parent : Ptr]
    <3>1. retrievingCase1(t, p).at = op'.at
      BY <1>1
    <3>2. retrievingCase1(t, p).at \in Cases \cup {"idle", "min", "rebalance", "finish"}
      BY <1>15, <3>1
    <3>3. p \in Ptr
      BY <1>16 DEF Ptr
    <3>4. QED
      BY <1>1, <1>16, <3>2, <3>3
  <2>2. p \in Ptr
    BY <1>16 DEF Ptr
  <2>3. QED
    BY <1>1, <1>2, <1>15, <2>1, <2>2 DEF OpTypes
<1>21. RebalanceOK(pos2, lo2)'
  <2> SUFFICES ASSUME op'.at = "rebalance"
               PROVE  /\ op'.parent # Null /\ pos2[op'.parent] > 0 /\ lo2[op'.parent] = 1
                      /\ tree'.left[op'.parent] = op'.node
    BY DEF RebalanceOK
  <2>1. t.pParent[p] # Null
    BY <1>7
  <2>2. lo2[t.pParent[p]] = 1 /\ pos2[t.pParent[p]] > 0
    BY <1>4, <1>9, <1>16, <2>1 DEF TailLo, TailPos
  <2>3. QED
    BY <1>8, <1>9, <1>13, <1>16, <2>1, <2>2
<1>22. RetrieveOK(pos2)'
  <2>1. pos2[p] = 0
    BY <1>9, <1>16 DEF TailPos
  <2>2. QED
    BY <1>8, <1>16, <2>1 DEF RetrieveOK
<1>23. MinOK(s2, pos2)' /\ CountOK(s2)'
  <2>1. Len(s) \in Nat /\ Len(s2) = Len(s) - 1
    BY <1>4, <1>14 DEF Seats
  <2>2. QED
    BY <1>1, <1>2, <1>15, <2>1 DEF MinOK, CountOK
<1>24. RootBlack(r, op'.at, op'.node) /\ InsertOK(r, pos2, op'.at, op'.node)
  BY <1>11, <1>15 DEF RootBlack, InsertOK, Cases
<1>25. TreeInv(s2, pos2, lo2, hi2, bh2)'
  BY <1>9, <1>10, <1>11, <1>12, <1>14, <1>18, <1>19, <1>20, <1>21, <1>22, <1>23, <1>24 DEF TreeInv
<1>26. QED
  BY <1>0, <1>3, <1>8, <1>9, <1>15, <1>25

-----------------------------------------------------------------------------
(* The loop of retrievingCases.                                            *)

\* The tree t when the loop is about to look at node n with the parent u, while p is
\* unlinked.
LoopOK(t, s, pos, lo, hi, bh, n, u, p) ==
  /\ Layout(t, s, pos, lo, hi, p) /\ Heights(t, pos, bh, IF n # t.root THEN u ELSE Null)
  /\ RedRule(t, pos, n, Null) /\ IsBlack(t, t.root) /\ n \in Ptr /\ u \in Ptr
  /\ \/ n = t.root /\ n # Null
     \/ u # Null /\ pos[u] > 0 /\ lo[u] = 1 /\ t.left[u] = n

\* Within an iteration: the left child n of u is black and lacks a black node.
Lacking(t, s, pos, lo, hi, bh, n, u, p) ==
  /\ Layout(t, s, pos, lo, hi, p) /\ Heights(t, pos, bh, u) /\ RedRule(t, pos, Null, Null)
  /\ IsBlack(t, t.root) /\ IsBlack(t, n) /\ n # t.root
  /\ u \in Procs /\ pos[u] > 0 /\ lo[u] = 1 /\ t.left[u] = n

\* The sibling w of n, its children, and the black heights there.
LackOK(t, pos, lo, bh, n, u, w) ==
  /\ u \in Procs /\ w \in Procs /\ n \in Ptr /\ u # w /\ n # u /\ n # w /\ u # Null /\ w # Null
  /\ w = t.right[u] /\ t.pParent[w] = u /\ t.left[u] = n
  /\ pos[u] > 0 /\ pos[w] > 0 /\ lo[u] = 1
  /\ t.left[w] \in Ptr /\ t.right[w] \in Ptr /\ (t.left[w] # Null => t.left[w] # t.right[w])
  /\ \A c \in Ptr : c = t.left[w] \/ c = t.right[w] =>
       c # u /\ c # w /\ (c # Null => c # n /\ c \in Procs /\ pos[c] > 0 /\ t.pParent[c] = w)
  /\ bh \in [Ptr -> Nat] /\ bh[Null] = 0
  /\ bh[u] = bh[w] + BlackBit(t, u) /\ bh[w] = bh[n] + 1
  /\ bh[w] = bh[t.right[w]] + BlackBit(t, w) /\ bh[t.left[w]] = bh[t.right[w]]

\* An iteration starts there.
LEMMA LoopFacts ==
  ASSUME NEW t, NEW s, NEW pos, NEW lo, NEW hi, NEW bh, NEW n, NEW u, NEW p,
         LoopOK(t, s, pos, lo, hi, bh, n, u, p), n # t.root, IsBlack(t, n)
  PROVE  Lacking(t, s, pos, lo, hi, bh, n, u, p)
<1>1. /\ Layout(t, s, pos, lo, hi, p) /\ Heights(t, pos, bh, u)
      /\ RedRule(t, pos, n, Null) /\ IsBlack(t, t.root)
      /\ u \in Procs /\ pos[u] > 0 /\ lo[u] = 1 /\ t.left[u] = n
  BY DEF LoopOK, Ptr
<1>2. RedRule(t, pos, Null, Null)
  <2> SUFFICES ASSUME NEW m \in Procs, pos[m] > 0
               PROVE  RedOK(t, Null, Null, m)
    BY DEF RedRule
  <2>1. RedOK(t, n, Null, m) /\ m # Null
    BY <1>1, NullAssumption DEF RedRule
  <2>2. m = n => t.color[m] # RED
    BY <2>1 DEF IsBlack, RED, BLACK
  <2>3. QED
    BY <2>1, <2>2 DEF RedOK
<1>3. QED
  BY <1>1, <1>2 DEF Lacking

\* What is around n.
LEMMA LackFacts ==
  ASSUME NEW t, NEW s, NEW pos, NEW lo, NEW hi, NEW bh, NEW n, NEW u, NEW p,
         Lacking(t, s, pos, lo, hi, bh, n, u, p)
  PROVE  LackOK(t, pos, lo, bh, n, u, t.right[u])
<1> DEFINE w == t.right[u]
<1>1. /\ Shape(t, Len(s), pos, lo, hi) /\ Heights(t, pos, bh, u)
      /\ u \in Procs /\ pos[u] > 0 /\ lo[u] = 1 /\ t.left[u] = n
  BY DEF Lacking, Layout
<1>2. /\ t.left \in [Procs -> Ptr] /\ t.right \in [Procs -> Ptr] /\ t.pParent \in [Procs -> Ptr]
      /\ pos \in [Procs -> Nat] /\ Null \notin Procs /\ u # Null
      /\ lo \in [Procs -> Int] /\ hi \in [Procs -> Int]
  BY <1>1, NullAssumption DEF Shape, Trees
<1>3. /\ bh \in [Ptr -> Nat] /\ bh[Null] = 0
      /\ \A m \in Procs : pos[m] > 0 => HeightOK(t, bh, u, m)
  BY <1>1 DEF Heights
<1>4. n \in Ptr /\ w \in Ptr /\ bh[n] \in Nat /\ bh[w] \in Nat
  BY <1>1, <1>2, <1>3
<1>5. bh[u] = bh[w] + BlackBit(t, u) /\ bh[w] = bh[n] + 1
  BY <1>1, <1>3 DEF HeightOK, Lacks
<1>6. w # Null
  BY <1>3, <1>4, <1>5
<1>7. w \in Procs /\ pos[w] > 0 /\ t.pParent[w] = u
  BY <1>1, <1>6, DownFacts
<1>8. UpOK(t, Len(s), pos, lo, hi, w, u)
  BY <1>1, <1>2, <1>7, UpFacts
<1>9. u # w /\ n # w /\ pos[u] < pos[w] /\ lo[w] = pos[u] + 1
  BY <1>1, <1>2, <1>7, <1>8 DEF UpOK
<1>10. n # Null => n \in Procs /\ pos[n] > 0 /\ t.pParent[n] = u /\ n # u
  <2> SUFFICES ASSUME n # Null
               PROVE  n \in Procs /\ pos[n] > 0 /\ t.pParent[n] = u /\ n # u
    OBVIOUS
  <2>1. n \in Procs /\ pos[n] > 0 /\ t.pParent[n] = u
    BY <1>1, DownFacts
  <2>2. UpOK(t, Len(s), pos, lo, hi, n, u)
    BY <1>1, <1>2, <2>1, UpFacts
  <2>3. QED
    BY <2>1, <2>2 DEF UpOK
<1>a. n # u
  BY <1>2, <1>10
<1> HIDE DEF w
<1>11. ASSUME NEW c \in Ptr, c = t.left[w] \/ c = t.right[w]
       PROVE  c # u /\ c # w /\ (c # Null => c # n /\ c \in Procs /\ pos[c] > 0 /\ t.pParent[c] = w)
  <2>1. CASE c = Null
    BY <1>2, <1>7, <2>1
  <2>2. CASE c # Null
    <3>1. c \in Procs /\ pos[c] > 0 /\ t.pParent[c] = w
      BY <1>1, <1>7, <1>11, <2>2, DownFacts
    <3>2. UpOK(t, Len(s), pos, lo, hi, c, w)
      BY <1>1, <1>2, <1>6, <3>1, UpFacts
    <3>3. c # w /\ lo[c] >= lo[w]
      <4>1. NodeOK(t, Len(s), pos, lo, hi, w)
        BY <3>2 DEF UpOK
      <4>2. lo[w] <= pos[w] /\ lo[w] \in Int /\ pos[w] \in Nat /\ lo[c] \in Int
        BY <1>2, <1>7, <3>1, <4>1 DEF NodeOK
      <4>3. c # w /\ (lo[c] = lo[w] \/ lo[c] = pos[w] + 1)
        BY <3>2 DEF UpOK
      <4>4. QED
        BY <4>2, <4>3
    <3>4. c # u
      <4>1. pos[u] \in Nat /\ lo[c] \in Int
        BY <1>1, <1>2, <3>1
      <4>2. lo[c] >= pos[u] + 1
        BY <1>9, <3>3
      <4>3. lo[c] # 1
        BY <1>1, <4>1, <4>2
      <4>4. QED
        BY <1>1, <4>3
    <3>5. c # n
      BY <1>9, <1>10, <2>2, <3>1
    <3>6. QED
      BY <3>1, <3>3, <3>4, <3>5
  <2>3. QED
    BY <2>1, <2>2
<1>12. t.left[w] # Null => t.left[w] # t.right[w]
  <2>1. ASSUME t.left[w] # Null
        PROVE  t.left[w] # t.right[w]
    <3>1. t.left[w] \in Ptr
      BY <1>2, <1>7
    <3>2. t.left[w] \in Procs /\ pos[t.left[w]] > 0 /\ t.pParent[t.left[w]] = w
      BY <1>11, <2>1, <3>1
    <3>3. UpOK(t, Len(s), pos, lo, hi, t.left[w], w)
      BY <1>1, <1>2, <1>6, <3>2, UpFacts
    <3>4. QED
      BY <3>3 DEF UpOK
  <2>2. QED
    BY <2>1
<1>13. bh[w] = bh[t.right[w]] + BlackBit(t, w) /\ bh[t.left[w]] = bh[t.right[w]]
  <2>1. HeightOK(t, bh, u, w) /\ Lacks(w, u) = 0
    BY <1>3, <1>7, <1>9 DEF Lacks
  <2>2. bh[t.left[w]] \in Nat
    BY <1>2, <1>3, <1>7
  <2>3. QED
    BY <2>1, <2>2 DEF HeightOK
<1>14. t.left[w] \in Ptr /\ t.right[w] \in Ptr
  BY <1>2, <1>7
<1>15. QED
  BY <1>1, <1>2, <1>3, <1>4, <1>5, <1>6, <1>7, <1>9, <1>a, <1>11, <1>12, <1>13, <1>14 DEF LackOK, w

\* A red sibling is rotated up, and n gets a black one.
LEMMA RedSibling ==
  ASSUME NEW t, NEW s, NEW pos, NEW lo, NEW hi, NEW bh, NEW n, NEW u, NEW p, NEW w,
         Lacking(t, s, pos, lo, hi, bh, n, u, p), LackOK(t, pos, lo, bh, n, u, w),
         t.color[w] = RED,
         NEW q, Recoloured(t, q), q.color[w] = BLACK, q.color[u] = RED,
         \A c \in Procs \ {u, w} : q.color[c] = t.color[c]
  PROVE  \E lo2, hi2, bh2 :
           /\ Lacking(rotateLeft(q, u), s, pos, lo2, hi2, bh2, n, u, p)
           /\ IsBlack(rotateLeft(q, u), rotateLeft(q, u).right[u])
<1> DEFINE inner == t.left[w]
           outer == t.right[w]
           r == rotateLeft(q, u)
           lo2 == LeftLo(pos, lo, u, w)
           hi2 == LeftHi(pos, hi, u, w)
           bh2 == [bh EXCEPT ![u] = bh[w], ![w] = bh[u]]
<1>1. /\ Layout(t, s, pos, lo, hi, p) /\ Shape(t, Len(s), pos, lo, hi)
      /\ Heights(t, pos, bh, u) /\ RedRule(t, pos, Null, Null)
      /\ IsBlack(t, t.root) /\ IsBlack(t, n) /\ n # t.root
  BY DEF Lacking, Layout
<1>2. /\ u \in Procs /\ w \in Procs /\ n \in Ptr /\ u # w /\ n # u /\ n # w /\ u # Null /\ w # Null
      /\ w = t.right[u] /\ t.pParent[w] = u /\ t.left[u] = n
      /\ pos[u] > 0 /\ pos[w] > 0 /\ lo[u] = 1 /\ inner \in Ptr /\ outer \in Ptr
      /\ inner # u /\ inner # w /\ outer # u /\ outer # w
  BY DEF LackOK
<1>3. /\ bh \in [Ptr -> Nat] /\ bh[Null] = 0
      /\ bh[u] = bh[w] + BlackBit(t, u) /\ bh[w] = bh[n] + 1
      /\ bh[w] = bh[outer] + BlackBit(t, w) /\ bh[inner] = bh[outer]
  BY DEF LackOK
<1>4. t.color \in [Procs -> {RED, BLACK}] /\ t.root \in Ptr /\ lo \in [Procs -> Int]
  BY <1>1 DEF Shape, Trees
<1>5. /\ Layout(r, s, pos, lo2, hi2, p) /\ LeftRotated(t, r, u) /\ r.color = q.color
      /\ LeftTurn(t, Len(s), pos, lo, hi, u)
  BY <1>1, <1>2, LeftTurnLayout
<1>6. lo2[u] = 1
  BY <1>2, <1>4 DEF LeftLo
<1> HIDE DEF r, lo2, hi2
<1>7. /\ r.root = IF t.pParent[u] = Null THEN w ELSE t.root
      /\ r.left[u] = n /\ r.right[u] = inner /\ r.left[w] = u /\ r.right[w] = outer
  <2>1. t.pParent[u] # u /\ t.pParent[u] # w
    BY <1>2, <1>5 DEF LeftTurn
  <2>2. QED
    BY <1>2, <1>5, <2>1 DEF LeftRotated
<1>8. /\ r.color[w] = BLACK /\ r.color[u] = RED /\ \A c \in Procs \ {u, w} : r.color[c] = t.color[c]
  BY <1>5
<1>9. t.color[u] = BLACK /\ ~IsRed(t, inner) /\ ~IsRed(t, outer)
  <2>1. RedOK(t, Null, Null, u) /\ RedOK(t, Null, Null, w)
    BY <1>1, <1>2 DEF RedRule
  <2>2. IsRed(t, w)
    BY <1>2 DEF IsRed
  <2>3. t.color[u] # RED
    BY <1>2, <2>1, <2>2 DEF RedOK
  <2>4. QED
    BY <1>2, <1>4, <2>1, <2>3 DEF RedOK, IsRed
<1>10. Heights(r, pos, bh2, u)
  <2>1. /\ BlackBit(t, u) = 1 /\ BlackBit(t, w) = 0 /\ BlackBit(r, u) = 0 /\ BlackBit(r, w) = 1
        /\ Lacks(u, u) = 1 /\ Lacks(w, u) = 0
    BY <1>2, <1>8, <1>9 DEF BlackBit, Lacks, RED, BLACK
  <2>2. /\ bh[u] \in Nat /\ bh[w] \in Nat /\ bh[n] \in Nat /\ bh[inner] \in Nat /\ bh[outer] \in Nat
    BY <1>2, <1>3 DEF Ptr
  <2>3. /\ bh2 \in [Ptr -> Nat] /\ bh2[Null] = 0 /\ bh2[u] = bh[w] /\ bh2[w] = bh[u]
        /\ \A c \in Ptr : c # u /\ c # w => bh2[c] = bh[c]
    <3>1. u \in Ptr /\ w \in Ptr /\ Null \in Ptr
      BY <1>2 DEF Ptr
    <3>2. QED
      BY <1>2, <1>3, <2>2, <3>1
  <2> HIDE DEF bh2
  <2>4. bh2[n] = bh[n] /\ bh2[inner] = bh[inner] /\ bh2[outer] = bh[outer]
    BY <1>2, <2>3
  <2> HIDE DEF inner, outer
  <2>5. HeightOK(r, bh2, u, u) /\ HeightOK(r, bh2, u, w)
    BY <1>3, <1>7, <2>1, <2>2, <2>3, <2>4 DEF HeightOK
  <2>6. LeftHeights(t, r, u, Null, bh, u, bh2, u)
    BY <1>2, <1>8, <2>3, <2>5 DEF LeftHeights, Ptr
  <2>7. QED
    BY <1>1, <1>5, <2>6, LeftTurnHeights
<1>11. IsBlack(r, n) /\ ~IsRed(r, inner)
  BY <1>1, <1>2, <1>8, <1>9 DEF IsBlack, IsRed, Ptr
<1>12. RedRule(r, pos, Null, Null)
  <2>1. RedOK(r, Null, Null, w)
    BY <1>8 DEF RedOK, RED, BLACK
  <2>2. RedOK(r, Null, Null, u)
    BY <1>7, <1>11 DEF RedOK, IsRed, IsBlack, RED, BLACK
  <2>3. LeftRed(t, r, u, Null, Null, Null)
    BY <1>2, <1>8, <2>1, <2>2 DEF LeftRed, Ptr, RED, BLACK
  <2>4. QED
    BY <1>1, <1>5, <2>3, LeftTurnRed
<1>13. IsBlack(r, r.root)
  <2>1. CASE t.pParent[u] = Null
    BY <1>7, <1>8, <2>1 DEF IsBlack
  <2>2. CASE t.pParent[u] # Null
    <3>1. t.root # u
      BY <1>1, <1>2, <2>2 DEF Shape, RootOK
    <3>2. QED
      BY <1>1, <1>4, <1>7, <1>8, <2>2, <3>1 DEF IsBlack, Ptr
  <2>3. QED
    BY <2>1, <2>2
<1>14. n # r.root
  BY <1>1, <1>2, <1>7
<1>15. IsBlack(r, r.right[u])
  <2>1. inner # Null => r.color[inner] = t.color[inner] /\ t.color[inner] \in {RED, BLACK}
    BY <1>2, <1>4, <1>8 DEF Ptr
  <2>2. QED
    BY <1>7, <1>9, <2>1 DEF IsBlack, IsRed
<1> HIDE DEF bh2
<1>16. Lacking(r, s, pos, lo2, hi2, bh2, n, u, p)
  BY <1>2, <1>5, <1>6, <1>7, <1>10, <1>11, <1>12, <1>13, <1>14 DEF Lacking
<1>17. QED
  BY <1>15, <1>16 DEF r

\* A black sibling w with black children is painted red, and the loop goes on with u.
LEMMA BlackNephews ==
  ASSUME NEW t, NEW s, NEW pos, NEW lo, NEW hi, NEW bh, NEW n, NEW u, NEW p, NEW w,
         Lacking(t, s, pos, lo, hi, bh, n, u, p), LackOK(t, pos, lo, bh, n, u, w),
         IsBlack(t, w), IsBlack(t, t.left[w]), IsBlack(t, t.right[w])
  PROVE  \E bh2 : LoopOK(SetColor(t, w, RED), s, pos, lo, hi, bh2, u, t.pParent[u], p)
<1> DEFINE inner == t.left[w]
           outer == t.right[w]
           r == SetColor(t, w, RED)
           g == t.pParent[u]
           bh2 == [bh EXCEPT ![w] = bh[w] - 1, ![u] = bh[u] - 1]
<1>1. /\ Layout(t, s, pos, lo, hi, p) /\ Shape(t, Len(s), pos, lo, hi)
      /\ Heights(t, pos, bh, u) /\ RedRule(t, pos, Null, Null)
      /\ IsBlack(t, t.root) /\ IsBlack(t, n) /\ n # t.root
  BY DEF Lacking, Layout
<1>2. /\ u \in Procs /\ w \in Procs /\ n \in Ptr /\ u # w /\ n # u /\ n # w /\ u # Null /\ w # Null
      /\ w = t.right[u] /\ t.pParent[w] = u /\ t.left[u] = n
      /\ pos[u] > 0 /\ pos[w] > 0 /\ lo[u] = 1 /\ inner \in Ptr /\ outer \in Ptr
      /\ inner # u /\ inner # w /\ outer # u /\ outer # w
  BY DEF LackOK
<1>3. /\ bh \in [Ptr -> Nat] /\ bh[Null] = 0
      /\ bh[u] = bh[w] + BlackBit(t, u) /\ bh[w] = bh[n] + 1
      /\ bh[w] = bh[outer] + BlackBit(t, w) /\ bh[inner] = bh[outer]
  BY DEF LackOK
<1>4. /\ t \in Trees /\ t.color \in [Procs -> {RED, BLACK}] /\ t.root \in Ptr /\ g \in Ptr
      /\ lo \in [Procs -> Int] /\ hi \in [Procs -> Int] /\ pos \in [Procs -> Nat]
      /\ t.right \in [Procs -> Ptr]
  BY <1>1, <1>2 DEF Shape, Trees
<1>5. Recoloured(t, r) /\ \A m \in Procs : r.color[m] = IF m = w THEN RED ELSE t.color[m]
  BY <1>2, <1>4, PaintFacts
<1>6. Layout(r, s, pos, lo, hi, p)
  BY <1>1, <1>5, RecolouredLayout
<1> HIDE DEF r
<1>7. /\ r.root = t.root /\ r.left = t.left /\ r.right = t.right /\ r.pParent = t.pParent
  BY <1>5 DEF Recoloured
<1>8. g = Null <=> u = t.root
  BY <1>1, <1>2 DEF Shape, RootOK, NodeOK
\* u is itself a left child.
<1>9. ASSUME g # Null
      PROVE  /\ g \in Procs /\ pos[g] > 0 /\ lo[g] = 1 /\ t.left[g] = u /\ g # u /\ g # w /\ g # n
             /\ t.right[g] \in Ptr /\ t.right[g] # u /\ t.right[g] # w
  <2>1. UpOK(t, Len(s), pos, lo, hi, u, g)
    BY <1>1, <1>2, <1>9, UpFacts
  <2>2. g \in Procs /\ pos[g] > 0 /\ u # g /\ NodeOK(t, Len(s), pos, lo, hi, g) /\ pos[g] \in Nat
    BY <1>4, <2>1 DEF UpOK
  <2>3. ~(lo[u] = pos[g] + 1)
    BY <1>2, <2>2
  <2>4. u = t.left[g] /\ u # t.right[g] /\ lo[u] = lo[g] /\ hi[u] = pos[g] - 1
    BY <2>1, <2>3 DEF UpOK
  <2>5. UpOK(t, Len(s), pos, lo, hi, w, u)
    BY <1>1, <1>2, UpFacts
  <2>6. hi[w] <= hi[u] /\ pos[w] <= hi[w] /\ NodeOK(t, Len(s), pos, lo, hi, w)
    <3>1. NodeOK(t, Len(s), pos, lo, hi, w) /\ NodeOK(t, Len(s), pos, lo, hi, u)
      BY <1>1, <1>2 DEF Shape
    <3>2. pos[u] <= hi[u] /\ hi[u] \in Int /\ pos[u] \in Int /\ hi[w] \in Int
      BY <1>2, <1>4, <3>1 DEF NodeOK
    <3>3. hi[w] = hi[u]
      BY <1>2, <2>5 DEF UpOK
    <3>4. QED
      BY <3>1, <3>2, <3>3 DEF NodeOK
  <2>7. g # w
    BY <1>2, <1>4, <2>2, <2>4, <2>6
  <2>8. g # n
    <3>1. ASSUME g = n
          PROVE  FALSE
      <4>1. n # Null /\ n \in Procs /\ pos[n] > 0 /\ t.pParent[n] = u
        BY <1>1, <1>2, <1>9, <3>1, DownFacts
      <4>2. UpOK(t, Len(s), pos, lo, hi, n, u)
        BY <1>1, <1>2, <4>1, UpFacts
      <4>3. pos[n] < pos[u] /\ NodeOK(t, Len(s), pos, lo, hi, u)
        BY <1>2, <4>2 DEF UpOK
      <4>4. pos[u] <= hi[u] /\ hi[u] = pos[n] - 1 /\ pos[u] \in Nat /\ pos[n] \in Nat /\ hi[u] \in Int
        BY <1>2, <1>4, <2>4, <3>1, <4>1, <4>3 DEF NodeOK
      <4>5. QED
        BY <4>3, <4>4
    <3>2. QED
      BY <3>1
  <2>9. t.right[g] # w
    <3>1. t.right[g] # Null => t.pParent[t.right[g]] = g
      BY <1>1, <2>2, DownFacts
    <3>2. QED
      BY <1>2, <2>2, <3>1
  <2>10. QED
    BY <1>2, <1>4, <2>2, <2>4, <2>7, <2>8, <2>9
<1>a. t.color[w] = BLACK
  BY <1>2 DEF IsBlack
<1> DEFINE d2 == IF u # t.root THEN g ELSE Null
           X == IF g = Null THEN {w, u} ELSE {w, u, g}
<1>10. /\ bh[u] \in Nat /\ bh[w] \in Nat /\ bh[n] \in Nat /\ bh[inner] \in Nat /\ bh[outer] \in Nat
       /\ bh[u] - 1 \in Nat /\ bh[w] - 1 \in Nat
  <2>1. bh[u] \in Nat /\ bh[w] \in Nat /\ bh[n] \in Nat /\ bh[inner] \in Nat /\ bh[outer] \in Nat
    BY <1>2, <1>3 DEF Ptr
  <2>2. QED
    BY <1>3, <2>1 DEF BlackBit
<1>11. /\ bh2 \in [Ptr -> Nat] /\ bh2[Null] = 0 /\ bh2[u] = bh[u] - 1 /\ bh2[w] = bh[w] - 1
       /\ \A c \in Ptr : c # u /\ c # w => bh2[c] = bh[c]
  <2>1. u \in Ptr /\ w \in Ptr /\ Null \in Ptr
    BY <1>2 DEF Ptr
  <2>2. QED
    BY <1>2, <1>3, <1>10, <2>1
<1> HIDE DEF bh2
<1>12. bh2[n] = bh[n] /\ bh2[inner] = bh[inner] /\ bh2[outer] = bh[outer]
  BY <1>2, <1>11
<1>13. /\ BlackBit(t, w) = 1 /\ BlackBit(r, w) = 0 /\ BlackBit(r, u) = BlackBit(t, u)
       /\ BlackBit(t, u) \in Nat
  BY <1>2, <1>5, <1>a DEF BlackBit, RED, BLACK
<1>14. Heights(r, pos, bh2, d2)
  <2>1. Lacks(w, d2) = 0 /\ Lacks(u, d2) = 0
    BY <1>2, <1>9 DEF Lacks
  <2>2. HeightOK(r, bh2, d2, w)
    <3>1. r.left[w] = inner /\ r.right[w] = outer
      BY <1>7
    <3> HIDE DEF inner, outer
    <3>2. QED
      BY <1>3, <1>10, <1>11, <1>12, <1>13, <2>1, <3>1 DEF HeightOK
  <2>3. HeightOK(r, bh2, d2, u)
    <3>1. r.left[u] = n /\ r.right[u] = w
      BY <1>2, <1>7
    <3>2. QED
      BY <1>3, <1>10, <1>11, <1>12, <1>13, <2>1, <3>1 DEF HeightOK
  <2>4. ASSUME g # Null
        PROVE  HeightOK(r, bh2, d2, g) /\ bh2[g] = bh[g]
    <3>1. /\ g \in Procs /\ g \in Ptr /\ pos[g] > 0 /\ t.left[g] = u /\ g # u /\ g # w
          /\ t.right[g] \in Ptr /\ t.right[g] # u /\ t.right[g] # w
      BY <1>9, <2>4 DEF Ptr
    <3>2. HeightOK(t, bh, u, g) /\ Lacks(g, u) = 0 /\ Lacks(g, d2) = 1 /\ BlackBit(r, g) = BlackBit(t, g)
      BY <1>1, <1>5, <1>8, <2>4, <3>1 DEF Heights, Lacks, BlackBit
    <3>3. bh2[g] = bh[g] /\ bh2[t.right[g]] = bh[t.right[g]]
      BY <1>11, <3>1
    <3>4. bh[g] = bh[t.right[g]] + BlackBit(t, g) /\ bh[t.right[g]] = bh[u]
      BY <1>10, <3>1, <3>2 DEF HeightOK
    <3>5. bh2[r.left[g]] = bh[u] - 1 /\ r.right[g] = t.right[g]
      BY <1>7, <1>11, <3>1
    <3>6. QED
      BY <1>10, <3>2, <3>3, <3>4, <3>5 DEF HeightOK
  <2>5. HeightsIn(t, r, bh, u, bh2, d2, X)
    <3>1. \A m \in Procs \ X : /\ bh2[m] = bh[m] /\ r.color[m] = t.color[m]
                               /\ Lacks(m, d2) = Lacks(m, u)
      <4>1. \A m \in Procs \ X : m # w /\ m # u /\ m # d2 /\ m \in Ptr
        BY NullAssumption DEF Ptr
      <4> HIDE DEF d2, X
      <4>2. QED
        BY <1>5, <1>11, <4>1 DEF Lacks
    <3>2. \A m \in X : HeightOK(r, bh2, d2, m)
      <4> HIDE DEF d2
      <4>1. QED
        BY <2>2, <2>3, <2>4
    <3>3. \A c \in X : bh2[c] = bh[c] \/ t.pParent[c] \in X \cup {Null}
      <4>1. t.pParent[w] \in X /\ t.pParent[u] \in X \cup {Null}
        BY <1>2
      <4>2. \A c \in X : c = w \/ c = u \/ (c = g /\ g # Null)
        OBVIOUS
      <4> HIDE DEF X
      <4>3. QED
        BY <2>4, <4>1, <4>2
    <3> HIDE DEF X, d2
    <3>4. QED
      BY <1>11, <3>1, <3>2, <3>3 DEF HeightsIn
  <2> HIDE DEF X, d2
  <2>6. QED
    BY <1>1, <1>5, <2>5, RecolouredHeights
<1>15. RedRule(r, pos, u, Null)
  <2> DEFINE Y == {w, u}
  <2>1. inner # Null => r.color[inner] = BLACK
    BY <1>2, <1>5 DEF IsBlack, Ptr
  <2>2. outer # Null => r.color[outer] = BLACK
    BY <1>2, <1>5 DEF IsBlack, Ptr
  <2>3. RedOK(r, u, Null, w)
    <3>1. r.left[w] = inner /\ r.right[w] = outer
      BY <1>7
    <3>2. QED
      BY <2>1, <2>2, <3>1 DEF RedOK, IsRed, RED, BLACK
  <2>4. RedOK(r, u, Null, u)
    BY DEF RedOK
  <2>5. RedIn(t, r, Null, Null, u, Null, Y)
    BY <1>2, <1>5, <2>3, <2>4 DEF RedIn
  <2>6. QED
    BY <1>1, <1>5, <2>5, RecolouredRed
<1>16. IsBlack(r, r.root)
  <2>1. t.root # w
    BY <1>1, <1>2 DEF Shape, RootOK
  <2>2. QED
    BY <1>1, <1>4, <1>5, <1>7, <2>1 DEF IsBlack, Ptr
<1>17. \/ u = r.root /\ u # Null
       \/ g # Null /\ pos[g] > 0 /\ lo[g] = 1 /\ r.left[g] = u
  BY <1>2, <1>7, <1>8, <1>9
<1>18. u \in Ptr
  BY <1>2 DEF Ptr
<1>19. d2 = IF u # r.root THEN g ELSE Null
  BY <1>7
<1> HIDE DEF d2, g
<1>20. LoopOK(r, s, pos, lo, hi, bh2, u, g, p)
  BY <1>4, <1>6, <1>14, <1>15, <1>16, <1>17, <1>18, <1>19 DEF LoopOK
<1>21. QED
  BY <1>20 DEF r, g

\* The red inner child c of the sibling w is rotated up to become the sibling.
LEMMA InnerNephew ==
  ASSUME NEW t, NEW s, NEW pos, NEW lo, NEW hi, NEW bh, NEW n, NEW u, NEW p, NEW w, NEW c,
         Lacking(t, s, pos, lo, hi, bh, n, u, p), LackOK(t, pos, lo, bh, n, u, w),
         t.color[w] = BLACK, c = t.left[w], IsRed(t, c), IsBlack(t, t.right[w]),
         NEW q, Recoloured(t, q), q.color[c] = BLACK, q.color[w] = RED,
         \A m \in Procs \ {c, w} : q.color[m] = t.color[m]
  PROVE  \E lo2, hi2, bh2 :
           /\ Lacking(rotateRight(q, w), s, pos, lo2, hi2, bh2, n, u, p)
           /\ rotateRight(q, w).right[u] = c /\ rotateRight(q, w).color[c] = BLACK
           /\ IsRed(rotateRight(q, w), rotateRight(q, w).right[c])
<1> DEFINE inner == t.right[c]
           left == t.left[c]
           outer == t.right[w]
           r == rotateRight(q, w)
           lo2 == RightLo(pos, lo, w, c)
           hi2 == RightHi(pos, hi, w, c)
           bh2 == [bh EXCEPT ![w] = bh[c], ![c] = bh[w]]
<1>1. /\ Layout(t, s, pos, lo, hi, p) /\ Shape(t, Len(s), pos, lo, hi)
      /\ Heights(t, pos, bh, u) /\ RedRule(t, pos, Null, Null)
      /\ IsBlack(t, t.root) /\ IsBlack(t, n) /\ n # t.root
  BY DEF Lacking, Layout
<1>2. /\ u \in Procs /\ w \in Procs /\ n \in Ptr /\ u # w /\ n # u /\ n # w /\ u # Null /\ w # Null
      /\ w = t.right[u] /\ t.pParent[w] = u /\ t.left[u] = n
      /\ pos[u] > 0 /\ pos[w] > 0 /\ lo[u] = 1 /\ outer \in Ptr /\ c \in Ptr
      /\ outer # u /\ outer # w /\ c # u /\ c # w
  BY DEF LackOK
<1>3. c # Null /\ c \in Procs /\ pos[c] > 0 /\ t.pParent[c] = w /\ c # n /\ t.color[c] = RED /\ c # outer
  BY <1>2 DEF LackOK, IsRed
<1>4. /\ bh \in [Ptr -> Nat] /\ bh[Null] = 0
      /\ bh[w] = bh[outer] + BlackBit(t, w) /\ bh[c] = bh[outer]
  BY DEF LackOK
<1>5. /\ t.color \in [Procs -> {RED, BLACK}] /\ t.root \in Ptr /\ lo \in [Procs -> Int]
      /\ t.left \in [Procs -> Ptr] /\ t.right \in [Procs -> Ptr]
  BY <1>1 DEF Shape, Trees
<1>6. /\ Layout(r, s, pos, lo2, hi2, p) /\ RightRotated(t, r, w) /\ r.color = q.color
      /\ RightTurn(t, Len(s), pos, lo, hi, w)
  BY <1>1, <1>2, <1>3, RightTurnLayout
<1>7. lo2[u] = 1
  BY SMTT(30), <1>2, <1>5 DEF RightLo
<1> HIDE DEF r, lo2, hi2
<1>8. inner \in Ptr /\ left \in Ptr /\ inner # w /\ inner # c /\ left # w /\ left # c
  <2>1. inner \in Ptr /\ left \in Ptr
    BY <1>3, <1>5
  <2>2. inner # w /\ inner # c
    BY <1>6 DEF RightTurn
  <2>3. left # Null => t.pParent[left] = c
    BY SMTT(30), <1>1, <1>3, DownFacts
  <2>4. QED
    BY <1>2, <1>3, <2>1, <2>2, <2>3
<1>9. /\ r.root = t.root /\ r.left[u] = n /\ r.right[u] = c
      /\ r.left[w] = inner /\ r.right[w] = outer /\ r.left[c] = left /\ r.right[c] = w
  BY <1>2, <1>3, <1>6 DEF RightRotated
<1>10. /\ r.color[c] = BLACK /\ r.color[w] = RED /\ \A m \in Procs \ {c, w} : r.color[m] = t.color[m]
  BY <1>6
<1>11. ~IsRed(t, inner)
  <2>1. RedOK(t, Null, Null, c)
    BY SMTT(30), <1>1, <1>3 DEF RedRule
  <2>2. QED
    BY <1>3, <2>1 DEF RedOK, IsRed
<1>12. ~IsRed(r, inner) /\ ~IsRed(r, outer)
  BY <1>2, <1>3, <1>8, <1>10, <1>11 DEF IsRed, IsBlack, Ptr, RED, BLACK
<1>13. Heights(r, pos, bh2, u)
  <2>1. /\ BlackBit(t, w) = 1 /\ BlackBit(t, c) = 0 /\ BlackBit(r, w) = 0 /\ BlackBit(r, c) = 1
        /\ Lacks(w, u) = 0 /\ Lacks(c, u) = 0
    BY SMTT(30), <1>2, <1>3, <1>10 DEF BlackBit, Lacks, RED, BLACK
  <2>2. /\ bh[w] \in Nat /\ bh[c] \in Nat /\ bh[inner] \in Nat /\ bh[outer] \in Nat /\ bh[left] \in Nat
    BY <1>2, <1>4, <1>8 DEF Ptr
  <2>3. bh[c] = bh[inner] /\ bh[inner] = bh[left]
    <3>1. HeightOK(t, bh, u, c)
      BY <1>1, <1>3 DEF Heights
    <3>2. QED
      BY <2>1, <2>2, <3>1 DEF HeightOK
  <2>4. /\ bh2 \in [Ptr -> Nat] /\ bh2[Null] = 0 /\ bh2[w] = bh[c] /\ bh2[c] = bh[w]
        /\ \A m \in Ptr : m # c /\ m # w => bh2[m] = bh[m]
    <3>1. c \in Ptr /\ w \in Ptr /\ Null \in Ptr
      BY SMTT(30), <1>2 DEF Ptr
    <3>2. QED
      BY ZenonT(30), <1>2, <1>3, <1>4, <2>2, <3>1
  <2> HIDE DEF bh2
  <2>5. bh2[left] = bh[left] /\ bh2[inner] = bh[inner] /\ bh2[outer] = bh[outer]
    BY ZenonT(30), <1>2, <1>3, <1>8, <2>4
  <2> HIDE DEF inner, outer, left
  <2>a. bh[w] = bh[c] + 1 /\ bh[outer] = bh[c]
    BY <1>4, <2>1
  <2>b. bh2[r.right[w]] = bh[c] /\ bh2[r.left[w]] = bh[c]
    BY <1>9, <2>3, <2>5, <2>a
  <2>c. bh2[r.right[c]] = bh[c] /\ bh2[r.left[c]] = bh[c]
    BY <1>9, <2>3, <2>4, <2>5
  <2>6. HeightOK(r, bh2, u, w) /\ HeightOK(r, bh2, u, c)
    <3>1. HeightOK(r, bh2, u, w)
      BY <2>1, <2>2, <2>4, <2>b DEF HeightOK
    <3>2. HeightOK(r, bh2, u, c)
      BY SMTT(30), <2>1, <2>2, <2>4, <2>a, <2>c DEF HeightOK
    <3>3. QED
      BY <3>1, <3>2
  <2>7. RightHeights(t, r, w, Null, bh, u, bh2, u)
    BY <1>2, <1>10, <2>4, <2>6 DEF RightHeights, Ptr
  <2>8. QED
    BY <1>1, <1>6, <2>7, RightTurnHeights
<1>14. RedRule(r, pos, Null, Null)
  <2>1. RedOK(r, Null, Null, c)
    BY <1>10 DEF RedOK, RED, BLACK
  <2>2. RedOK(r, Null, Null, w)
    BY <1>9, <1>12 DEF RedOK
  <2>3. RightRed(t, r, w, Null, Null, Null)
    BY <1>2, <1>10, <2>1, <2>2 DEF RightRed, Ptr, RED, BLACK
  <2>4. QED
    BY <1>1, <1>6, <2>3, RightTurnRed
<1>15. IsBlack(r, r.root) /\ n # r.root
  <2>1. t.root # w
    BY <1>1, <1>2 DEF Shape, RootOK
  <2>2. QED
    BY <1>1, <1>5, <1>9, <1>10, <2>1 DEF IsBlack, Ptr
<1>16. IsBlack(r, n)
  BY SMTT(30), <1>1, <1>2, <1>3, <1>10 DEF IsBlack, Ptr
<1>17. IsRed(r, r.right[c])
  BY SMTT(30), <1>2, <1>9, <1>10 DEF IsRed
<1> HIDE DEF bh2
<1>18. Lacking(r, s, pos, lo2, hi2, bh2, n, u, p)
  BY <1>2, <1>6, <1>7, <1>9, <1>13, <1>14, <1>15, <1>16 DEF Lacking
<1>19. QED
  BY <1>9, <1>10, <1>17, <1>18 DEF r

\* With a red outer child e the sibling w takes the place of u, and the tree is balanced.
LEMMA OuterNephew ==
  ASSUME NEW t, NEW s, NEW pos, NEW lo, NEW hi, NEW bh, NEW n, NEW u, NEW p, NEW w, NEW e,
         Lacking(t, s, pos, lo, hi, bh, n, u, p), LackOK(t, pos, lo, bh, n, u, w),
         t.color[w] = BLACK, e = t.right[w], IsRed(t, e),
         NEW q, Recoloured(t, q), q.color[w] = t.color[u], q.color[u] = BLACK, q.color[e] = BLACK,
         \A m \in Procs \ {u, w, e} : q.color[m] = t.color[m]
  PROVE  \E lo2, hi2, bh2 :
           LoopOK(rotateLeft(q, u), s, pos, lo2, hi2, bh2, rotateLeft(q, u).root, u, p)
<1> DEFINE inner == t.left[w]
           r == rotateLeft(q, u)
           lo2 == LeftLo(pos, lo, u, w)
           hi2 == LeftHi(pos, hi, u, w)
           bh2 == [bh EXCEPT ![u] = bh[w], ![w] = bh[u], ![e] = bh[e] + 1]
<1>1. /\ Layout(t, s, pos, lo, hi, p) /\ Shape(t, Len(s), pos, lo, hi)
      /\ Heights(t, pos, bh, u) /\ RedRule(t, pos, Null, Null)
      /\ IsBlack(t, t.root) /\ IsBlack(t, n) /\ n # t.root
  BY DEF Lacking, Layout
<1>2. /\ u \in Procs /\ w \in Procs /\ n \in Ptr /\ u # w /\ n # u /\ n # w /\ u # Null /\ w # Null
      /\ w = t.right[u] /\ t.pParent[w] = u /\ t.left[u] = n
      /\ pos[u] > 0 /\ pos[w] > 0 /\ lo[u] = 1 /\ inner \in Ptr /\ e \in Ptr
      /\ inner # u /\ inner # w /\ e # u /\ e # w
  BY DEF LackOK
<1>3. /\ e # Null /\ e \in Procs /\ pos[e] > 0 /\ t.pParent[e] = w /\ e # n /\ t.color[e] = RED
      /\ inner # e
  BY <1>2 DEF LackOK, IsRed
<1>4. /\ bh \in [Ptr -> Nat] /\ bh[Null] = 0
      /\ bh[u] = bh[w] + BlackBit(t, u) /\ bh[w] = bh[n] + 1
      /\ bh[w] = bh[e] + BlackBit(t, w) /\ bh[inner] = bh[e]
  BY DEF LackOK
<1>5. /\ t.color \in [Procs -> {RED, BLACK}] /\ t.root \in Ptr
      /\ t.left \in [Procs -> Ptr] /\ t.right \in [Procs -> Ptr] /\ pos \in [Procs -> Nat]
      /\ lo \in [Procs -> Int] /\ hi \in [Procs -> Int] /\ t.pParent \in [Procs -> Ptr]
  BY <1>1 DEF Shape, Trees
<1>6. /\ Layout(r, s, pos, lo2, hi2, p) /\ LeftRotated(t, r, u) /\ r.color = q.color
      /\ LeftTurn(t, Len(s), pos, lo, hi, u)
  BY <1>1, <1>2, LeftTurnLayout
<1> HIDE DEF r, lo2, hi2
<1>7. /\ r.root = IF t.pParent[u] = Null THEN w ELSE t.root
      /\ r.left[u] = n /\ r.right[u] = inner /\ r.left[w] = u /\ r.right[w] = e
  <2>1. t.pParent[u] # u /\ t.pParent[u] # w
    BY <1>2, <1>6 DEF LeftTurn
  <2>2. QED
    BY SMTT(30), <1>2, <1>6, <2>1 DEF LeftRotated
\* The seats below e are to the right of u and of w.
<1>8. ASSUME NEW c \in Ptr, c = t.left[e] \/ c = t.right[e]
      PROVE  c # u /\ c # w /\ c # e
  <2>1. CASE c = Null
    BY <1>2, <1>3, <2>1
  <2>2. CASE c # Null
    <3>1. c \in Procs /\ pos[c] > 0 /\ t.pParent[c] = e
      BY <1>1, <1>3, <1>8, <2>2, DownFacts
    <3>2. UpOK(t, Len(s), pos, lo, hi, c, e) /\ UpOK(t, Len(s), pos, lo, hi, e, w)
      BY <1>1, <1>2, <1>3, <3>1, UpFacts
    <3>3. lo[e] = pos[w] + 1 /\ NodeOK(t, Len(s), pos, lo, hi, e)
      BY SMTT(30), <1>2, <1>3, <3>2 DEF UpOK
    <3>4. lo[e] <= pos[e] /\ (lo[c] = lo[e] \/ lo[c] = pos[e] + 1) /\ c # e
      BY <3>2, <3>3 DEF UpOK, NodeOK
    <3>5. lo[c] > 1 /\ lo[c] \in Int /\ lo[e] \in Int /\ pos[e] \in Nat /\ pos[w] \in Nat
      BY SMTT(30), <1>2, <1>3, <1>5, <3>1, <3>3, <3>4
    <3>6. c # w
      BY <1>2, <1>3, <3>1
    <3>7. QED
      BY <1>2, <3>4, <3>5, <3>6
  <2>3. QED
    BY <2>1, <2>2
<1>9. /\ r.color[w] = t.color[u] /\ r.color[u] = BLACK /\ r.color[e] = BLACK
      /\ \A m \in Procs \ {u, w, e} : r.color[m] = t.color[m]
  BY SMTT(30), <1>6
<1>a. r.left[e] = t.left[e] /\ r.right[e] = t.right[e] /\ t.left[e] \in Ptr /\ t.right[e] \in Ptr
  <2>1. t.pParent[u] # e
    <3>1. ASSUME t.pParent[u] = e
          PROVE  FALSE
      <4>1. u = t.left[e] \/ u = t.right[e]
        BY <1>1, <1>2, <1>3, <3>1 DEF Shape, NodeOK
      <4>2. QED
        BY <1>3, <1>5, <1>8, <4>1
    <3>2. QED
      BY <3>1
  <2>2. QED
    BY <1>2, <1>3, <1>5, <1>6, <2>1 DEF LeftRotated
<1>10. Heights(r, pos, bh2, Null)
  <2>1. /\ BlackBit(t, w) = 1 /\ BlackBit(t, e) = 0 /\ BlackBit(r, u) = 1 /\ BlackBit(r, e) = 1
        /\ BlackBit(r, w) = BlackBit(t, u) /\ Lacks(e, u) = 0
        /\ Lacks(u, Null) = 0 /\ Lacks(w, Null) = 0 /\ Lacks(e, Null) = 0 /\ BlackBit(t, u) \in Nat
    BY SMTT(30), <1>2, <1>3, <1>9 DEF BlackBit, Lacks, RED, BLACK
  <2>2. /\ bh[u] \in Nat /\ bh[w] \in Nat /\ bh[n] \in Nat /\ bh[inner] \in Nat /\ bh[e] \in Nat
        /\ bh[t.left[e]] \in Nat /\ bh[t.right[e]] \in Nat
    BY <1>2, <1>4, <1>a DEF Ptr
  <2>3. bh[e] = bh[t.right[e]] /\ bh[e] = bh[t.left[e]]
    <3>1. HeightOK(t, bh, u, e)
      BY SMTT(30), <1>1, <1>3 DEF Heights
    <3>2. QED
      BY <2>1, <2>2, <3>1 DEF HeightOK
  <2>4. /\ bh2 \in [Ptr -> Nat] /\ bh2[Null] = 0 /\ bh2[u] = bh[w] /\ bh2[w] = bh[u]
        /\ bh2[e] = bh[e] + 1
        /\ \A m \in Ptr : m # u /\ m # w /\ m # e => bh2[m] = bh[m]
    <3>1. u \in Ptr /\ w \in Ptr /\ e \in Ptr /\ Null \in Ptr
      BY <1>2 DEF Ptr
    <3>2. bh2 \in [Ptr -> Nat]
      BY SMTT(30), <1>4, <2>2, <3>1
    <3>3. QED
      BY <1>2, <1>3, <1>4, <3>1, <3>2
  <2> HIDE DEF bh2
  <2>5. /\ bh2[n] = bh[n] /\ bh2[inner] = bh[inner]
        /\ bh2[t.left[e]] = bh[t.left[e]] /\ bh2[t.right[e]] = bh[t.right[e]]
    BY <1>2, <1>3, <1>8, <1>a, <2>4
  <2> HIDE DEF inner
  <2>6. HeightOK(r, bh2, Null, u)
    BY <1>4, <1>7, <2>1, <2>2, <2>4, <2>5 DEF HeightOK
  <2>7. HeightOK(r, bh2, Null, w)
    BY <1>4, <1>7, <2>1, <2>2, <2>4 DEF HeightOK
  <2>8. HeightOK(r, bh2, Null, e)
    <3>1. bh2[r.right[e]] = bh[e] /\ bh2[r.left[e]] = bh[e]
      BY <1>a, <2>3, <2>5
    <3>2. QED
      BY <2>1, <2>2, <2>4, <3>1 DEF HeightOK
  <2>9. \A m \in Procs \ {u, w, e} :
           bh2[m] = bh[m] /\ r.color[m] = t.color[m] /\ Lacks(m, Null) = Lacks(m, u)
    BY <1>9, <2>4, NullAssumption DEF Lacks, Ptr
  <2>10. LeftHeights(t, r, u, e, bh, u, bh2, Null)
    BY SMTT(30), <1>2, <1>3, <2>4, <2>6, <2>7, <2>8, <2>9 DEF LeftHeights
  <2>11. QED
    BY SMTT(30), <1>1, <1>6, <2>10, LeftTurnHeights
<1>11. RedRule(r, pos, Null, Null)
  <2>1. RedOK(r, Null, Null, u) /\ RedOK(r, Null, Null, e)
    BY <1>9 DEF RedOK, RED, BLACK
  <2>2. RedOK(r, Null, Null, w)
    BY <1>7, <1>9 DEF RedOK, IsRed, RED, BLACK
  <2>3. LeftRed(t, r, u, e, Null, Null)
    BY <1>2, <1>3, <1>9, <2>1, <2>2 DEF LeftRed
  <2>4. QED
    BY <1>1, <1>6, <2>3, LeftTurnRed
<1>12. RedRule(r, pos, r.root, Null)
  BY <1>11, NullAssumption DEF RedRule, RedOK
<1>13. IsBlack(r, r.root) /\ r.root # Null
  <2>1. CASE t.pParent[u] = Null
    <3>1. u = t.root
      BY <1>1, <1>2, <2>1 DEF Shape, NodeOK
    <3>2. QED
      BY <1>1, <1>2, <1>7, <1>9, <2>1, <3>1 DEF IsBlack
  <2>2. CASE t.pParent[u] # Null
    <3>1. t.root # u /\ t.root # w /\ t.root # e
      BY <1>1, <1>2, <1>3, <2>2 DEF Shape, RootOK
    <3>2. t.root # Null
      BY <1>1, <1>2, <1>5 DEF Shape, RootOK
    <3>3. QED
      BY <1>1, <1>5, <1>7, <1>9, <2>2, <3>1, <3>2 DEF IsBlack, Ptr
  <2>3. QED
    BY SMTT(30), <2>1, <2>2
<1>14. r.root \in Ptr /\ u \in Ptr
  BY <1>2, <1>5, <1>7 DEF Ptr
<1> HIDE DEF bh2
<1>15. LoopOK(r, s, pos, lo2, hi2, bh2, r.root, u, p)
  BY <1>6, <1>10, <1>12, <1>13, <1>14 DEF LoopOK
<1>16. QED
  BY <1>15 DEF r

\* The three parts of an iteration: the red sibling is turned up, the inner nephew is
\* turned up, and the sibling takes the place of the parent.
SiblingUp(t, u) ==
  IF IsRed(t, t.right[u])
  THEN rotateLeft(SetColor(SetColor(t, t.right[u], BLACK), u, RED), u)
  ELSE t
NephewUp(t, u) ==
  LET w == t.right[u]
      c == t.left[w]
  IN  IF IsBlack(t, t.right[w])
      THEN rotateRight(SetColor(IF c # Null THEN SetColor(t, c, BLACK) ELSE t, w, RED), w)
      ELSE t
ParentDown(t, u) ==
  LET w == t.right[u]
  IN  rotateLeft(SetColor(SetColor(SetColor(t, w, t.color[u]), u, BLACK), t.right[w], BLACK), u)

\* After the first part the sibling is black.
LEMMA SiblingUpOK ==
  ASSUME NEW t, NEW s, NEW pos, NEW lo, NEW hi, NEW bh, NEW n, NEW u, NEW p,
         Lacking(t, s, pos, lo, hi, bh, n, u, p)
  PROVE  \E lo2, hi2, bh2 : /\ Lacking(SiblingUp(t, u), s, pos, lo2, hi2, bh2, n, u, p)
                            /\ IsBlack(SiblingUp(t, u), SiblingUp(t, u).right[u])
<1> DEFINE w == t.right[u]
           q1 == SetColor(t, w, BLACK)
           q == SetColor(q1, u, RED)
<1>1. LackOK(t, pos, lo, bh, n, u, w)
  BY LackFacts
<1>2. t \in Trees /\ u \in Procs /\ w \in Procs /\ u # w /\ t.color \in [Procs -> {RED, BLACK}]
  <2>1. t \in Trees
    BY DEF Lacking, Layout, Shape
  <2>2. QED
    BY <1>1, <2>1 DEF LackOK, Trees
<1>3. CASE IsRed(t, w)
  <2>1. SiblingUp(t, u) = rotateLeft(q, u)
    BY <1>3 DEF SiblingUp
  <2>2. t.color[w] = RED
    BY <1>3 DEF IsRed
  <2> HIDE DEF w
  <2>3. Recoloured(t, q1) /\ \A m \in Procs : q1.color[m] = IF m = w THEN BLACK ELSE t.color[m]
    BY <1>2, PaintFacts
  <2>4. q1 \in Trees
    BY <2>3 DEF Recoloured
  <2> HIDE DEF q1
  <2>5. Recoloured(q1, q) /\ \A m \in Procs : q.color[m] = IF m = u THEN RED ELSE q1.color[m]
    BY <1>2, <2>4, PaintFacts
  <2> HIDE DEF q
  <2>6. /\ Recoloured(t, q) /\ q.color[w] = BLACK /\ q.color[u] = RED
        /\ \A c \in Procs \ {u, w} : q.color[c] = t.color[c]
    BY <1>2, <2>3, <2>5 DEF Recoloured
  <2>7. \E lo2, hi2, bh2 : /\ Lacking(rotateLeft(q, u), s, pos, lo2, hi2, bh2, n, u, p)
                           /\ IsBlack(rotateLeft(q, u), rotateLeft(q, u).right[u])
    BY <1>1, <2>2, <2>6, RedSibling
  <2>8. QED
    BY <2>1, <2>7
<1>4. CASE ~IsRed(t, w)
  <2>1. SiblingUp(t, u) = t
    BY <1>4 DEF SiblingUp
  <2>2. IsBlack(t, w)
    BY <1>2, <1>4 DEF IsRed, IsBlack
  <2>3. QED
    BY <2>1, <2>2
<1>5. QED
  BY <1>3, <1>4

\* After the second part it has a red outer child.
LEMMA NephewUpOK ==
  ASSUME NEW t, NEW s, NEW pos, NEW lo, NEW hi, NEW bh, NEW n, NEW u, NEW p,
         Lacking(t, s, pos, lo, hi, bh, n, u, p), IsBlack(t, t.right[u]),
         ~(IsBlack(t, t.left[t.right[u]]) /\ IsBlack(t, t.right[t.right[u]]))
  PROVE  \E lo2, hi2, bh2 : /\ Lacking(NephewUp(t, u), s, pos, lo2, hi2, bh2, n, u, p)
                            /\ IsBlack(NephewUp(t, u), NephewUp(t, u).right[u])
                            /\ IsRed(NephewUp(t, u), NephewUp(t, u).right[NephewUp(t, u).right[u]])
<1> DEFINE w == t.right[u]
           c == t.left[w]
           q1 == SetColor(t, c, BLACK)
           q == SetColor(q1, w, RED)
<1>1. LackOK(t, pos, lo, bh, n, u, w)
  BY LackFacts
<1>2. /\ t \in Trees /\ u \in Procs /\ w \in Procs /\ u # w /\ w # Null /\ t.color \in [Procs -> {RED, BLACK}]
      /\ t.right[w] \in Ptr /\ c \in Ptr /\ c # w /\ t.color[w] = BLACK
  <2>1. t \in Trees
    BY DEF Lacking, Layout, Shape
  <2>2. QED
    BY <1>1, <2>1 DEF LackOK, Trees, IsBlack
<1>3. CASE IsBlack(t, t.right[w])
  <2>1. IsRed(t, c) /\ c # Null /\ c \in Procs
    BY <1>2, <1>3 DEF IsRed, IsBlack, Ptr
  <2>2. NephewUp(t, u) = rotateRight(q, w)
    BY <1>3, <2>1 DEF NephewUp
  <2>c. c = t.left[w]
    OBVIOUS
  <2> HIDE DEF w, c
  <2>3. Recoloured(t, q1) /\ \A m \in Procs : q1.color[m] = IF m = c THEN BLACK ELSE t.color[m]
    BY <1>2, <2>1, PaintFacts
  <2>4. q1 \in Trees
    BY <2>3 DEF Recoloured
  <2> HIDE DEF q1
  <2>5. Recoloured(q1, q) /\ \A m \in Procs : q.color[m] = IF m = w THEN RED ELSE q1.color[m]
    BY <1>2, <2>4, PaintFacts
  <2> HIDE DEF q
  <2>6. /\ Recoloured(t, q) /\ q.color[c] = BLACK /\ q.color[w] = RED
        /\ \A m \in Procs \ {c, w} : q.color[m] = t.color[m]
    BY <1>2, <2>1, <2>3, <2>5 DEF Recoloured
  <2>7. \E lo2, hi2, bh2 :
           /\ Lacking(rotateRight(q, w), s, pos, lo2, hi2, bh2, n, u, p)
           /\ rotateRight(q, w).right[u] = c /\ rotateRight(q, w).color[c] = BLACK
           /\ IsRed(rotateRight(q, w), rotateRight(q, w).right[c])
    BY <1>1, <1>2, <1>3, <2>1, <2>c, <2>6, InnerNephew
  <2>8. QED
    BY <2>2, <2>7 DEF IsBlack
<1>4. CASE ~IsBlack(t, t.right[w])
  <2>1. NephewUp(t, u) = t
    BY <1>4 DEF NephewUp
  <2>2. IsRed(t, t.right[w])
    BY <1>2, <1>4 DEF IsRed, IsBlack, Ptr
  <2>3. QED
    BY <2>1, <2>2
<1>5. QED
  BY <1>3, <1>4

\* The third part balances the tree.
LEMMA ParentDownOK ==
  ASSUME NEW t, NEW s, NEW pos, NEW lo, NEW hi, NEW bh, NEW n, NEW u, NEW p,
         Lacking(t, s, pos, lo, hi, bh, n, u, p), IsBlack(t, t.right[u]),
         IsRed(t, t.right[t.right[u]])
  PROVE  \E lo2, hi2, bh2 :
           LoopOK(ParentDown(t, u), s, pos, lo2, hi2, bh2, ParentDown(t, u).root, u, p)
<1> DEFINE w == t.right[u]
           e == t.right[w]
           q1 == SetColor(t, w, t.color[u])
           q2 == SetColor(q1, u, BLACK)
           q == SetColor(q2, e, BLACK)
<1>1. LackOK(t, pos, lo, bh, n, u, w)
  BY LackFacts
<1>2. /\ t \in Trees /\ u \in Procs /\ w \in Procs /\ u # w /\ w # Null /\ t.color \in [Procs -> {RED, BLACK}]
      /\ e \in Procs /\ e # w /\ e # u /\ t.color[w] = BLACK /\ t.color[u] \in {RED, BLACK}
      /\ IsRed(t, e)
  <2>1. t \in Trees /\ t.color \in [Procs -> {RED, BLACK}]
    BY DEF Lacking, Layout, Shape, Trees
  <2>2. u \in Procs /\ w \in Procs /\ u # w /\ w # Null /\ e \in Ptr /\ e # w /\ e # u
    BY <1>1 DEF LackOK
  <2>3. QED
    BY <2>1, <2>2 DEF IsBlack, IsRed, Ptr
<1>3. ParentDown(t, u) = rotateLeft(q, u)
  BY DEF ParentDown
<1>4. e = t.right[w]
  OBVIOUS
<1> HIDE DEF w, e
<1>5. Recoloured(t, q1) /\ \A m \in Procs : q1.color[m] = IF m = w THEN t.color[u] ELSE t.color[m]
  BY <1>2, PaintFacts
<1>6. q1 \in Trees
  BY <1>5 DEF Recoloured
<1> HIDE DEF q1
<1>7. Recoloured(q1, q2) /\ \A m \in Procs : q2.color[m] = IF m = u THEN BLACK ELSE q1.color[m]
  BY <1>2, <1>6, PaintFacts
<1>8. q2 \in Trees
  BY <1>7 DEF Recoloured
<1> HIDE DEF q2
<1>9. Recoloured(q2, q) /\ \A m \in Procs : q.color[m] = IF m = e THEN BLACK ELSE q2.color[m]
  BY <1>2, <1>8, PaintFacts
<1> HIDE DEF q
<1>10. /\ Recoloured(t, q) /\ q.color[w] = t.color[u] /\ q.color[u] = BLACK /\ q.color[e] = BLACK
       /\ \A m \in Procs \ {u, w, e} : q.color[m] = t.color[m]
  BY <1>2, <1>5, <1>7, <1>9 DEF Recoloured
<1>11. \E lo2, hi2, bh2 :
           LoopOK(rotateLeft(q, u), s, pos, lo2, hi2, bh2, rotateLeft(q, u).root, u, p)
  BY <1>1, <1>2, <1>4, <1>10, OuterNephew
<1>12. QED
  BY <1>3, <1>11

\* The loop of the invariant.
LEMMA LoopInv ==
  ASSUME NEW s, NEW pos, NEW lo, NEW hi, NEW bh, TreeInv(s, pos, lo, hi, bh), op.at = "rebalance"
  PROVE  LoopOK(tree, s, pos, lo, hi, bh, op.node, op.parent, op.proc)
<1>1. Gone = op.proc /\ Above = op.node /\ Below = Null
      /\ Deficient = IF op.node # tree.root THEN op.parent ELSE Null
  BY DEF Gone, Unlinking, Above, Below, Deficient, Cases
<1>2. op.node \in Ptr /\ op.parent \in Ptr
  BY DEF TreeInv, OpTypes
<1>3. IsBlack(tree, tree.root)
  BY DEF TreeInv, RootBlack
<1>4. QED
  BY <1>1, <1>2, <1>3 DEF TreeInv, LoopOK, RebalanceOK

\* What is left to show for a step of the loop.
LEMMA NextLoopInv ==
  ASSUME NEW s, NEW pos, NEW lo, NEW hi, NEW bh, TreeInv(s, pos, lo, hi, bh), op.at = "rebalance",
         UNCHANGED restOfRetrieve, NEW node, NEW parent,
         op' = [op EXCEPT !.node = node, !.parent = parent],
         NEW lo2, NEW hi2, NEW bh2, LoopOK(tree', s, pos, lo2, hi2, bh2, node, parent, op.proc)
  PROVE  TreeInv(s, pos, lo2, hi2, bh2)'
<1>1. PICK r, p : r = tree' /\ p = op.proc
  OBVIOUS
<1>2. /\ op \in [at : Cases \cup {"idle", "min", "rebalance", "finish"},
                 proc : Ptr, node : Ptr, parent : Ptr]
      /\ virtualRuntime \in [Procs -> Nat] /\ minvRuntime \in Ptr /\ count \in 0..NPROC
      /\ CountOK(s) /\ Sorted(s, virtualRuntime) /\ RetrieveOK(pos)
  BY DEF TreeInv, OpTypes
<1>3. /\ count' = count /\ minvRuntime' = minvRuntime /\ virtualRuntime' = virtualRuntime
  BY DEF restOfRetrieve
<1>4. op'.at = "rebalance" /\ op'.node = node /\ op'.parent = parent /\ op'.proc = p
  BY <1>1, <1>2
<1>5. /\ Layout(r, s, pos, lo2, hi2, p) /\ Heights(r, pos, bh2, IF node # r.root THEN parent ELSE Null)
      /\ RedRule(r, pos, node, Null) /\ IsBlack(r, r.root) /\ node \in Ptr /\ parent \in Ptr
      /\ \/ node = r.root /\ node # Null
         \/ parent # Null /\ pos[parent] > 0 /\ lo2[parent] = 1 /\ r.left[parent] = node
  BY <1>1 DEF LoopOK
<1>6. /\ Gone' = p /\ Above' = node /\ Below' = Null
      /\ Deficient' = IF node # r.root THEN parent ELSE Null
  BY <1>1, <1>4 DEF Gone, Unlinking, Above, Below, Deficient, Cases
<1>7. OpTypes'
  <2>1. op' \in [at : Cases \cup {"idle", "min", "rebalance", "finish"},
                 proc : Ptr, node : Ptr, parent : Ptr]
    BY <1>2, <1>5
  <2>2. QED
    BY <1>2, <1>3, <1>4, <2>1 DEF OpTypes
<1>8. Unlinking /\ Unlinking'
  BY <1>4 DEF Unlinking
<1>9. CountOK(s)' /\ MinOK(s, pos)' /\ RetrieveOK(pos)'
  BY <1>1, <1>2, <1>3, <1>4, <1>8 DEF CountOK, MinOK, RetrieveOK, Cases
<1>10. RebalanceOK(pos, lo2)'
  BY <1>1, <1>4, <1>5 DEF RebalanceOK
<1>11. RootBlack(r, op'.at, op'.node) /\ InsertOK(r, pos, op'.at, op'.node)
  BY <1>4, <1>5 DEF RootBlack, InsertOK, Cases
<1>12. Sorted(s, virtualRuntime')
  BY <1>2, <1>3
<1>13. QED
  BY <1>1, <1>5, <1>6, <1>7, <1>9, <1>10, <1>11, <1>12 DEF TreeInv

\* The case that an iteration ends with.
LEMMA RebalanceCases ==
  ASSUME rebalance
  PROVE  LET t1 == SiblingUp(tree, op.parent)
             w == t1.right[op.parent]
             t4 == ParentDown(NephewUp(t1, op.parent), op.parent)
         IN  /\ op.at = "rebalance" /\ op.node # tree.root /\ IsBlack(tree, op.node)
             /\ UNCHANGED restOfRetrieve
             /\ IF IsBlack(t1, t1.left[w]) /\ IsBlack(t1, t1.right[w])
                THEN /\ tree' = SetColor(t1, w, RED)
                     /\ op' = [op EXCEPT !.node = op.parent, !.parent = t1.pParent[op.parent]]
                ELSE /\ tree' = t4
                     /\ op' = [op EXCEPT !.node = t4.root]
BY ZenonT(30) DEF rebalance, SiblingUp, NephewUp, ParentDown

\* An iteration of the loop keeps the invariant.
LEMMA RebalanceInv ==
  ASSUME NEW s, NEW pos, NEW lo, NEW hi, NEW bh, TreeInv(s, pos, lo, hi, bh), rebalance
  PROVE  \E lo2, hi2, bh2 : TreeInv(s, pos, lo2, hi2, bh2)'
<1>0. PICK t, n, u, p : t = tree /\ n = op.node /\ u = op.parent /\ p = op.proc
  OBVIOUS
<1> DEFINE t1 == SiblingUp(t, u)
           w == t1.right[u]
           t2 == NephewUp(t1, u)
           t4 == ParentDown(t2, u)
<1>1. /\ op.at = "rebalance" /\ n # t.root /\ IsBlack(t, n)
      /\ UNCHANGED restOfRetrieve
      /\ IF IsBlack(t1, t1.left[w]) /\ IsBlack(t1, t1.right[w])
         THEN /\ tree' = SetColor(t1, w, RED)
              /\ op' = [op EXCEPT !.node = u, !.parent = t1.pParent[u]]
         ELSE /\ tree' = t4
              /\ op' = [op EXCEPT !.node = t4.root]
  BY <1>0, RebalanceCases
<1>2. LoopOK(t, s, pos, lo, hi, bh, n, u, p)
  BY <1>0, <1>1, LoopInv
<1>3. Lacking(t, s, pos, lo, hi, bh, n, u, p)
  BY <1>1, <1>2, LoopFacts
<1>4. PICK lo1, hi1, bh1 : Lacking(t1, s, pos, lo1, hi1, bh1, n, u, p) /\ IsBlack(t1, w)
  BY <1>3, SiblingUpOK
<1> HIDE DEF t1
<1>5. LackOK(t1, pos, lo1, bh1, n, u, w)
  BY <1>4, LackFacts
<1>6. CASE IsBlack(t1, t1.left[w]) /\ IsBlack(t1, t1.right[w])
  <2>1. PICK bh2 : LoopOK(SetColor(t1, w, RED), s, pos, lo1, hi1, bh2, u, t1.pParent[u], p)
    BY <1>4, <1>5, <1>6, BlackNephews
  <2>2. PICK v : v = t1.pParent[u]
    OBVIOUS
  <2>3. LoopOK(tree', s, pos, lo1, hi1, bh2, u, v, op.proc) /\ op' = [op EXCEPT !.node = u, !.parent = v]
    BY <1>0, <1>1, <1>6, <2>1, <2>2
  <2>4. TreeInv(s, pos, lo1, hi1, bh2)'
    BY ZenonT(30), <1>1, <2>3, NextLoopInv
  <2>5. QED
    BY <2>4
<1>7. CASE ~(IsBlack(t1, t1.left[w]) /\ IsBlack(t1, t1.right[w]))
  <2>1. PICK lo2, hi2, bh2 : /\ Lacking(t2, s, pos, lo2, hi2, bh2, n, u, p)
                             /\ IsBlack(t2, t2.right[u])
                             /\ IsRed(t2, t2.right[t2.right[u]])
    BY <1>4, <1>7, NephewUpOK
  <2> HIDE DEF t2
  <2>2. PICK lo3, hi3, bh3 : LoopOK(t4, s, pos, lo3, hi3, bh3, t4.root, u, p)
    BY <2>1, ParentDownOK
  <2>3. PICK v : v = t4.root
    OBVIOUS
  <2>4. LoopOK(tree', s, pos, lo3, hi3, bh3, v, u, op.proc)
    BY <1>0, <1>1, <1>7, <2>2, <2>3
  <2>5. op' = [op EXCEPT !.node = v, !.parent = u]
    <3>1. op \in [at : Cases \cup {"idle", "min", "rebalance", "finish"},
                  proc : Ptr, node : Ptr, parent : Ptr]
      BY DEF TreeInv, OpTypes
    <3>2. op' = [op EXCEPT !.node = v]
      BY <1>1, <1>7, <2>3
    <3>3. QED
      BY <1>0, <3>1, <3>2
  <2>6. TreeInv(s, pos, lo3, hi3, bh3)'
    BY ZenonT(30), <1>1, <2>4, <2>5, NextLoopInv
  <2>7. QED
    BY <2>6
<1>8. QED
  BY <1>6, <1>7

\* A child is another node, and so are its children.
LEMMA ChildApart ==
  ASSUME NEW t, NEW len, NEW pos, NEW lo, NEW hi, Shape(t, len, pos, lo, hi),
         NEW n \in Procs, pos[n] > 0
  PROVE  t.left[n] \in Ptr /\ t.right[n] \in Ptr /\ t.left[n] # n /\ t.right[n] # n
<1>1. t.left[n] \in Ptr /\ t.right[n] \in Ptr
  BY DEF Shape, Trees
<1>2. ASSUME t.pParent[n] = n
      PROVE  FALSE
  <2>1. UpOK(t, len, pos, lo, hi, n, t.pParent[n])
    BY <1>2, NullAssumption, UpFacts
  <2>2. QED
    BY <1>2, <2>1 DEF UpOK
<1>3. n # Null
  BY NullAssumption
<1>4. t.left[n] # n
  BY <1>2, <1>3, DownFacts
<1>5. t.right[n] # n
  BY <1>2, <1>3, DownFacts
<1>6. QED
  BY <1>1, <1>4, <1>5

\* What is left when the loop has ended: p is unlinked, and nothing else is amiss.
EndOK(t, s, pos, lo, hi, bh, p) ==
  /\ Layout(t, s, pos, lo, hi, p) /\ Heights(t, pos, bh, Null)
  /\ RedRule(t, pos, Null, Null) /\ IsBlack(t, t.root)

\* Painting the last node of the loop black makes up for the black node that was lost.
LEMMA LoopExit ==
  ASSUME NEW t, NEW s, NEW pos, NEW lo, NEW hi, NEW bh, NEW n, NEW u, NEW p,
         LoopOK(t, s, pos, lo, hi, bh, n, u, p), n = t.root \/ IsRed(t, n)
  PROVE  n \in Procs /\ \E bh2 : EndOK(SetColor(t, n, BLACK), s, pos, lo, hi, bh2, p)
<1> DEFINE r == SetColor(t, n, BLACK)
           d == IF n # t.root THEN u ELSE Null
<1>1. /\ Layout(t, s, pos, lo, hi, p) /\ Shape(t, Len(s), pos, lo, hi) /\ Heights(t, pos, bh, d)
      /\ RedRule(t, pos, n, Null) /\ IsBlack(t, t.root) /\ n \in Ptr /\ u \in Ptr
      /\ \/ n = t.root /\ n # Null
         \/ u # Null /\ pos[u] > 0 /\ lo[u] = 1 /\ t.left[u] = n
  BY DEF LoopOK, Layout
<1>2. t \in Trees /\ bh \in [Ptr -> Nat] /\ bh[Null] = 0 /\ pos \in [Procs -> 0..Len(s)]
  BY <1>1 DEF Shape, Heights
<1>3. n \in Procs /\ n # Null
  <2>1. CASE n = t.root
    <3>1. ASSUME n = Null
          PROVE  FALSE
      <4>1. u \in Procs /\ pos[u] > 0 /\ Len(s) = 0
        BY <1>1, <2>1, <3>1 DEF Ptr, Shape, RootOK
      <4>2. QED
        BY <1>2, <4>1
    <3>2. QED
      BY <1>1, <3>1 DEF Ptr
  <2>2. CASE IsRed(t, n)
    BY <1>1, <2>2 DEF IsRed, Ptr
  <2>3. QED
    BY <2>1, <2>2
<1>4. /\ Recoloured(t, r)
      /\ \A m \in Procs : r.color[m] = IF m = n THEN BLACK ELSE t.color[m]
  BY <1>2, <1>3, PaintFacts
<1> HIDE DEF r
<1>5. Layout(r, s, pos, lo, hi, p)
  BY <1>1, <1>4, RecolouredLayout
<1>6. RedRule(r, pos, Null, Null)
  <2> DEFINE X == {n}
  <2>1. RedOK(r, Null, Null, n) /\ r.color[n] # RED
    BY <1>3, <1>4 DEF RedOK, RED, BLACK
  <2>2. /\ \A m \in X : RedOK(r, Null, Null, m)
        /\ \A m \in Procs \ X : r.color[m] = t.color[m]
        /\ n \in X \cup {Null, Null}
        /\ \A c \in X : r.color[c] = RED => t.color[c] = RED
    BY <1>4, <2>1
  <2> HIDE DEF X
  <2>3. RedIn(t, r, n, Null, Null, Null, X)
    BY <2>2 DEF RedIn
  <2>4. QED
    BY <1>1, <1>4, <2>3, RecolouredRed
<1>7. IsBlack(r, r.root)
  <2>1. r.root = t.root /\ t.root \in Ptr
    BY <1>2, <1>4 DEF Recoloured, Trees
  <2>2. QED
    BY <1>1, <1>4, <2>1 DEF IsBlack, Ptr
<1>8. \E bh2 : Heights(r, pos, bh2, Null)
  <2>1. CASE n = t.root
    <3> DEFINE X == {}
    <3>1. d = Null /\ t.color[n] = BLACK
      BY <1>1, <1>3, <2>1 DEF IsBlack
    <3>2. \A m \in Procs \ X : r.color[m] = t.color[m]
      BY <1>4, <3>1
    <3>3. HeightsIn(t, r, bh, Null, bh, Null, X)
      BY <1>2, <3>2 DEF HeightsIn
    <3>4. Heights(t, pos, bh, Null)
      BY <1>1, <3>1
    <3> HIDE DEF X
    <3>5. Heights(r, pos, bh, Null)
      BY <1>1, <1>4, <3>3, <3>4, RecolouredHeights
    <3>6. QED
      BY <3>5
  <2>2. CASE n # t.root
    <3> DEFINE bh2 == [bh EXCEPT ![n] = bh[n] + 1]
               X == {n, u}
    <3>1. /\ d = u /\ u \in Procs /\ u # Null /\ pos[u] > 0 /\ t.left[u] = n /\ t.color[n] = RED
          /\ Heights(t, pos, bh, u)
      BY <1>1, <2>2 DEF Ptr, IsRed
    <3>2. pos[n] > 0 /\ t.pParent[n] = u
      BY <1>1, <1>3, <3>1, DownFacts
    <3>3. n # t.right[u] /\ n # u
      <4>1. UpOK(t, Len(s), pos, lo, hi, n, u)
        BY <1>1, <1>3, <3>1, <3>2, UpFacts
      <4>2. QED
        BY <3>1, <4>1 DEF UpOK
    <3>4. /\ bh2 \in [Ptr -> Nat] /\ bh2[Null] = 0 /\ bh2[n] = bh[n] + 1
          /\ \A m \in Ptr : m # n => bh2[m] = bh[m]
      BY <1>2, <1>3 DEF Ptr
    <3> HIDE DEF bh2
    <3>5. HeightOK(r, bh2, Null, n)
      <4>1. t.left[n] \in Ptr /\ t.right[n] \in Ptr /\ t.left[n] # n /\ t.right[n] # n
        BY <1>1, <1>3, <3>2, ChildApart
      <4>2. r.left[n] = t.left[n] /\ r.right[n] = t.right[n] /\ r.color[n] = BLACK
        BY <1>3, <1>4 DEF Recoloured
      <4>3. bh2[r.left[n]] = bh[t.left[n]] /\ bh2[r.right[n]] = bh[t.right[n]]
        BY <3>4, <4>1, <4>2
      <4>4. bh[n] = bh[t.right[n]] + 0 /\ bh[t.right[n]] = bh[t.left[n]] + 0
        BY <1>3, <3>1, <3>2, <3>3 DEF Heights, HeightOK, BlackBit, Lacks, RED, BLACK
      <4>5. bh[t.right[n]] \in Nat /\ bh[t.left[n]] \in Nat
        BY <1>2, <4>1
      <4>6. BlackBit(r, n) = 1 /\ Lacks(n, Null) = 0
        BY <1>3, <4>2 DEF BlackBit, Lacks
      <4>7. QED
        BY <3>4, <4>3, <4>4, <4>5, <4>6 DEF HeightOK
    <3>6. HeightOK(r, bh2, Null, u)
      <4>1. t.right[u] \in Ptr
        BY <1>1, <3>1, ChildApart
      <4>2. r.left[u] = n /\ r.right[u] = t.right[u] /\ r.color[u] = t.color[u]
        BY <1>4, <3>1, <3>3 DEF Recoloured
      <4>3. bh2[r.left[u]] = bh[n] + 1 /\ bh2[r.right[u]] = bh[t.right[u]] /\ bh2[u] = bh[u]
        BY <3>1, <3>3, <3>4, <4>1, <4>2 DEF Ptr
      <4>4. bh[u] = bh[t.right[u]] + BlackBit(t, u) /\ bh[t.right[u]] = bh[n] + 1
        BY <3>1 DEF Heights, HeightOK, Lacks
      <4>5. bh[n] \in Nat
        BY <1>1, <1>2
      <4>6. BlackBit(r, u) = BlackBit(t, u) /\ Lacks(u, Null) = 0
        BY <3>1, <4>2 DEF BlackBit, Lacks
      <4>7. QED
        BY <4>3, <4>4, <4>5, <4>6 DEF HeightOK
    <3>7. \A m \in Procs \ X : /\ bh2[m] = bh[m] /\ r.color[m] = t.color[m]
                                /\ Lacks(m, Null) = Lacks(m, u)
      BY <1>4, <3>4, NullAssumption DEF Lacks, Ptr
    <3>8. /\ \A m \in X : HeightOK(r, bh2, Null, m)
          /\ \A c \in X : bh2[c] = bh[c] \/ t.pParent[c] \in X \cup {Null}
      BY <3>1, <3>2, <3>3, <3>4, <3>5, <3>6 DEF Ptr
    <3> HIDE DEF X
    <3>9. HeightsIn(t, r, bh, u, bh2, Null, X)
      BY <3>4, <3>7, <3>8 DEF HeightsIn
    <3>10. Heights(r, pos, bh2, Null)
      BY <1>1, <1>4, <3>1, <3>9, RecolouredHeights
    <3>11. QED
      BY <3>10
  <2>3. QED
    BY <2>1, <2>2
<1>9. QED
  BY <1>3, <1>5, <1>6, <1>7, <1>8 DEF EndOK, r

\* The end of the loop keeps the invariant.
LEMMA RebalancedInv ==
  ASSUME NEW s, NEW pos, NEW lo, NEW hi, NEW bh, TreeInv(s, pos, lo, hi, bh), rebalanced
  PROVE  \E lo2, hi2, bh2 : TreeInv(s, pos, lo2, hi2, bh2)'
<1>0. PICK t, n, u, p : t = tree /\ n = op.node /\ u = op.parent /\ p = op.proc
  OBVIOUS
<1>1. /\ op.at = "rebalance" /\ (n = t.root \/ IsRed(t, n))
      /\ tree' = IF n # Null THEN SetColor(t, n, BLACK) ELSE t
      /\ op' = [op EXCEPT !.at = "finish"]
      /\ UNCHANGED restOfRetrieve
  BY <1>0 DEF rebalanced
<1>2. LoopOK(t, s, pos, lo, hi, bh, n, u, p)
  BY <1>0, <1>1, LoopInv
<1>3. PICK bh2 : n \in Procs /\ EndOK(SetColor(t, n, BLACK), s, pos, lo, hi, bh2, p)
  BY <1>1, <1>2, LoopExit
<1>4. PICK r : r = tree' /\ EndOK(r, s, pos, lo, hi, bh2, p)
  BY <1>1, <1>3, NullAssumption
<1>5. /\ op \in [at : Cases \cup {"idle", "min", "rebalance", "finish"},
                 proc : Ptr, node : Ptr, parent : Ptr]
      /\ virtualRuntime \in [Procs -> Nat] /\ minvRuntime \in Ptr /\ count \in 0..NPROC
      /\ CountOK(s) /\ Sorted(s, virtualRuntime) /\ RetrieveOK(pos)
  BY DEF TreeInv, OpTypes
<1>6. /\ count' = count /\ minvRuntime' = minvRuntime /\ virtualRuntime' = virtualRuntime
  BY <1>1 DEF restOfRetrieve
<1>7. op'.at = "finish" /\ op'.node = n /\ op'.proc = p /\ op.proc = p
  BY <1>0, <1>1, <1>5
<1>8. Gone' = p /\ Above' = Null /\ Below' = Null /\ Deficient' = Null
  BY <1>7 DEF Gone, Unlinking, Above, Below, Deficient, Cases
<1>9. OpTypes'
  <2>1. op' \in [at : Cases \cup {"idle", "min", "rebalance", "finish"},
                 proc : Ptr, node : Ptr, parent : Ptr]
    BY <1>1, <1>5
  <2>2. QED
    BY <1>5, <1>6, <1>7, <2>1 DEF OpTypes
<1>10. Unlinking /\ Unlinking'
  BY <1>1, <1>7 DEF Unlinking
<1>11. CountOK(s)' /\ MinOK(s, pos)' /\ RetrieveOK(pos)'
  BY <1>5, <1>6, <1>7, <1>10 DEF CountOK, MinOK, RetrieveOK, Cases
<1>12. RebalanceOK(pos, lo)'
  BY <1>7 DEF RebalanceOK
<1>13. RootBlack(r, op'.at, op'.node) /\ InsertOK(r, pos, op'.at, op'.node)
  BY <1>4, <1>7 DEF EndOK, RootBlack, InsertOK, Cases
<1>14. Sorted(s, virtualRuntime')
  BY <1>5, <1>6
<1>15. TreeInv(s, pos, lo, hi, bh2)'
  BY <1>4, <1>8, <1>9, <1>11, <1>12, <1>13, <1>14 DEF TreeInv, EndOK
<1>16. QED
  BY <1>15

-----------------------------------------------------------------------------
(* The end of retrieveProcess.                                             *)

\* Clearing the links of the unlinked process changes nothing in the tree.
LEMMA CutLinks ==
  ASSUME NEW t, NEW s, NEW pos, NEW lo, NEW hi, NEW bh, NEW p \in Procs, pos[p] = 0,
         EndOK(t, s, pos, lo, hi, bh, p)
  PROVE  EndOK(SetRight(SetLeft(SetParent(t, p, Null), p, Null), p, Null), s, pos, lo, hi, bh, Null)
<1> DEFINE r == SetRight(SetLeft(SetParent(t, p, Null), p, Null), p, Null)
<1>1. /\ Seats(s, pos) /\ Shape(t, Len(s), pos, lo, hi) /\ Outside(t, pos, p)
      /\ Heights(t, pos, bh, Null) /\ RedRule(t, pos, Null, Null) /\ IsBlack(t, t.root)
  BY DEF EndOK, Layout
<1>2. /\ t \in Trees /\ t.left \in [Procs -> Ptr] /\ t.right \in [Procs -> Ptr]
      /\ t.pParent \in [Procs -> Ptr] /\ Null \in Ptr
  BY <1>1 DEF Shape, Trees, Ptr
<1>3. /\ r \in Trees /\ r.root = t.root /\ r.color = t.color
      /\ r.left = [t.left EXCEPT ![p] = Null] /\ r.right = [t.right EXCEPT ![p] = Null]
      /\ r.pParent = [t.pParent EXCEPT ![p] = Null]
  <2> DEFINE t1 == SetParent(t, p, Null)
             t2 == SetLeft(t1, p, Null)
  <2>1. /\ t1 \in Trees /\ t1.root = t.root /\ t1.color = t.color /\ t1.left = t.left
        /\ t1.right = t.right /\ t1.pParent = [t.pParent EXCEPT ![p] = Null]
    BY <1>2, SetParentFields
  <2> HIDE DEF t1
  <2>2. /\ t2 \in Trees /\ t2.root = t.root /\ t2.color = t.color
        /\ t2.left = [t.left EXCEPT ![p] = Null]
        /\ t2.right = t.right /\ t2.pParent = [t.pParent EXCEPT ![p] = Null]
    BY <1>2, <2>1, SetLeftFields
  <2> HIDE DEF t2
  <2>3. r = SetRight(t2, p, Null)
    BY DEF t1, t2
  <2> HIDE DEF r
  <2>4. QED
    BY <1>2, <2>2, <2>3, SetRightFields
<1> HIDE DEF r
<1>4. \A m \in Procs : m # p => /\ r.left[m] = t.left[m] /\ r.right[m] = t.right[m]
                                 /\ r.pParent[m] = t.pParent[m]
  BY <1>2, <1>3
<1>5. r.left[p] = Null /\ r.right[p] = Null /\ r.pParent[p] = Null
  BY <1>2, <1>3
<1>6. \A m \in Procs : pos[m] > 0 => m # p
  OBVIOUS
<1>7. Shape(r, Len(s), pos, lo, hi)
  <2>1. RootOK(r, Len(s), pos, lo, hi)
    <3>1. t.root \in Ptr
      BY <1>2 DEF Trees
    <3>2. QED
      BY <1>1, <1>3, <1>4, <1>6, <3>1 DEF Shape, RootOK, Ptr
  <2>2. ASSUME NEW m \in Procs, pos[m] > 0
        PROVE  NodeOK(r, Len(s), pos, lo, hi, m)
    <3>1. NodeOK(t, Len(s), pos, lo, hi, m) /\ m # p
      BY <1>1, <2>2 DEF Shape
    <3>2. r.left[m] = t.left[m] /\ r.right[m] = t.right[m] /\ r.pParent[m] = t.pParent[m]
      BY <1>4, <3>1
    <3>3. t.left[m] \in Ptr /\ t.right[m] \in Ptr /\ t.pParent[m] \in Ptr
      BY <1>2
    <3>4. ASSUME NEW c \in Ptr, NEW l, NEW h, ChildOK(t, pos, lo, hi, c, m, l, h)
          PROVE  ChildOK(r, pos, lo, hi, c, m, l, h)
      BY <1>4, <1>6, <3>4 DEF ChildOK, Ptr
    <3>5. /\ ChildOK(r, pos, lo, hi, r.left[m], m, lo[m], pos[m] - 1)
          /\ ChildOK(r, pos, lo, hi, r.right[m], m, pos[m] + 1, hi[m])
      <4>1. /\ ChildOK(t, pos, lo, hi, t.left[m], m, lo[m], pos[m] - 1)
            /\ ChildOK(t, pos, lo, hi, t.right[m], m, pos[m] + 1, hi[m])
        BY <3>1 DEF NodeOK
      <4>2. QED
        BY <3>2, <3>3, <3>4, <4>1
    <3>6. IF r.pParent[m] = Null THEN m = r.root
          ELSE /\ pos[r.pParent[m]] > 0
               /\ m = r.left[r.pParent[m]] \/ m = r.right[r.pParent[m]]
      <4>1. IF t.pParent[m] = Null THEN m = t.root
            ELSE /\ pos[t.pParent[m]] > 0
                 /\ m = t.left[t.pParent[m]] \/ m = t.right[t.pParent[m]]
        BY <3>1 DEF NodeOK
      <4>2. t.pParent[m] # Null => t.pParent[m] \in Procs
        BY <3>3 DEF Ptr
      <4>3. QED
        BY <1>3, <1>4, <1>6, <3>2, <4>1, <4>2
    <3>7. QED
      BY <3>1, <3>5, <3>6 DEF NodeOK
  <2>3. QED
    BY <1>1, <1>3, <2>1, <2>2 DEF Shape
<1>8. Outside(r, pos, Null)
  <2> SUFFICES ASSUME NEW m \in Procs, pos[m] = 0
               PROVE  r.left[m] = Null /\ r.right[m] = Null /\ r.pParent[m] = Null
    BY DEF Outside
  <2>1. CASE m = p
    BY <1>5, <2>1
  <2>2. CASE m # p
    BY <1>1, <1>4, <2>2 DEF Outside
  <2>3. QED
    BY <2>1, <2>2
<1>9. Heights(r, pos, bh, Null)
  <2> SUFFICES ASSUME NEW m \in Procs, pos[m] > 0
               PROVE  HeightOK(r, bh, Null, m)
    BY <1>1 DEF Heights
  <2>1. /\ HeightOK(t, bh, Null, m) /\ r.left[m] = t.left[m] /\ r.right[m] = t.right[m]
        /\ BlackBit(r, m) = BlackBit(t, m)
    BY <1>1, <1>3, <1>4 DEF Heights, BlackBit
  <2>2. QED
    BY <2>1 DEF HeightOK
<1>10. RedRule(r, pos, Null, Null)
  <2> SUFFICES ASSUME NEW m \in Procs, pos[m] > 0
               PROVE  RedOK(r, Null, Null, m)
    BY DEF RedRule
  <2>1. /\ RedOK(t, Null, Null, m) /\ r.left[m] = t.left[m] /\ r.right[m] = t.right[m]
        /\ r.color = t.color
    BY <1>1, <1>3, <1>4 DEF RedRule
  <2>2. QED
    BY <2>1 DEF RedOK, IsRed
<1>11. IsBlack(r, r.root)
  BY <1>1, <1>3 DEF IsBlack
<1>12. EndOK(r, s, pos, lo, hi, bh, Null)
  BY <1>1, <1>7, <1>8, <1>9, <1>10, <1>11 DEF EndOK, Layout
<1>13. QED
  BY <1>12 DEF r

\* The last step of a retrieval: the process has no links left, count and the cached
\* minimum are right again.
LEMMA RetrieveDoneInv ==
  ASSUME NEW s, NEW pos, NEW lo, NEW hi, NEW bh, TreeInv(s, pos, lo, hi, bh), retrieveDone
  PROVE  TreeInv(s, pos, lo, hi, bh)'
<1>0. PICK t, p : t = tree /\ p = op.proc
  OBVIOUS
<1> DEFINE r0 == SetRight(SetLeft(SetParent(t, p, Null), p, Null), p, Null)
<1>1. /\ op.at = "finish" /\ tree' = r0 /\ count' = count - 1
      /\ minvRuntime' = setMinimumVRuntimeproc(r0, r0.root) /\ op' = Idle
      /\ virtualRuntime' = virtualRuntime
  BY <1>0 DEF retrieveDone
<1>2. Unlinking /\ Gone = p /\ Deficient = Null /\ Above = Null /\ Below = Null
  BY <1>0, <1>1 DEF Unlinking, Gone, Deficient, Above, Below, Cases
<1>3. op'.at = "idle" /\ op'.node = Null /\ op'.proc = Null /\ op' = Idle
  BY <1>1 DEF Idle
<1>4. ~Unlinking' /\ Gone' = Null /\ Deficient' = Null /\ Above' = Null /\ Below' = Null
  BY <1>3 DEF Unlinking, Gone, Deficient, Above, Below, Cases
<1>5. p \in Procs /\ pos[p] = 0
  BY <1>0, <1>2 DEF TreeInv, RetrieveOK, OpTypes, Ptr
<1>6. IsBlack(t, t.root)
  BY <1>0, <1>1 DEF TreeInv, RootBlack
<1>7. EndOK(t, s, pos, lo, hi, bh, p)
  BY <1>0, <1>2, <1>6 DEF TreeInv, EndOK
<1>8. EndOK(r0, s, pos, lo, hi, bh, Null)
  BY <1>5, <1>7, CutLinks
<1> HIDE DEF r0
<1>9. Layout(r0, s, pos, lo, hi, Null) /\ Seats(s, pos) /\ s \in Seq(Procs) /\ Len(s) \in Nat
  BY <1>8 DEF EndOK, Layout, Seats
<1>10. minvRuntime' = IF Len(s) = 0 THEN Null ELSE s[1]
  BY <1>1, <1>9, MinimumLayout
<1>11. minvRuntime' \in Ptr
  BY <1>9, <1>10 DEF Ptr
<1>12. count = Len(s) + 1 /\ count \in 0..NPROC /\ virtualRuntime \in [Procs -> Nat]
  BY <1>2 DEF TreeInv, CountOK, OpTypes
<1>13. NPROC \in Nat
  BY ProcsAssumption, FS_CardinalityType DEF NPROC
<1>14. count' = Len(s) /\ count' \in 0..NPROC
  BY <1>1, <1>9, <1>12, <1>13
<1>15. OpTypes'
  <2>1. Idle \in [at : Cases \cup {"idle", "min", "rebalance", "finish"},
                  proc : Ptr, node : Ptr, parent : Ptr]
    BY DEF Idle, Ptr
  <2>2. QED
    BY <1>1, <1>3, <1>11, <1>12, <1>14, <2>1 DEF OpTypes
<1>16. MinOK(s, pos)' /\ CountOK(s)'
  BY <1>3, <1>4, <1>10, <1>14 DEF MinOK, CountOK, Cases
<1>17. RootBlack(r0, op'.at, op'.node) /\ InsertOK(r0, pos, op'.at, op'.node)
  BY <1>3, <1>8 DEF RootBlack, InsertOK, Cases, EndOK
<1>18. RebalanceOK(pos, lo)' /\ RetrieveOK(pos)'
  BY <1>3, <1>4 DEF RebalanceOK, RetrieveOK
<1>19. Sorted(s, virtualRuntime')
  BY <1>1 DEF TreeInv
<1>20. QED
  BY <1>1, <1>4, <1>8, <1>15, <1>16, <1>17, <1>18, <1>19 DEF TreeInv, EndOK

-----------------------------------------------------------------------------
(* The invariant and the theorems.                                         *)

\* The empty tree.
LEMMA InitInv == Init => RBInv
<1> SUFFICES ASSUME Init
             PROVE  RBInv
  OBVIOUS
<1>1. PICK s, pos, lo, hi, bh :
        /\ s = << >> /\ pos = [p \in Procs |-> 0] /\ lo = [p \in Procs |-> 0]
        /\ hi = [p \in Procs |-> 0] /\ bh = [p \in Ptr |-> 0]
  OBVIOUS
<1>2. /\ s \in Seq(Procs) /\ Len(s) = 0 /\ pos \in [Procs -> 0..0]
      /\ lo \in [Procs -> Int] /\ hi \in [Procs -> Int] /\ bh \in [Ptr -> Nat] /\ bh[Null] = 0
      /\ \A n \in Procs : pos[n] = 0
  BY <1>1 DEF Ptr
<1>3. op = Idle /\ op.at = "idle" /\ op.node = Null /\ op.proc = Null
  BY DEF Init, Idle
<1>4. ~Unlinking /\ Gone = Null /\ Deficient = Null /\ Above = Null /\ Below = Null
  BY <1>3 DEF Unlinking, Gone, Deficient, Above, Below, Cases
<1>5. /\ tree \in Trees /\ tree.root = Null
      /\ \A n \in Procs : tree.left[n] = Null /\ tree.right[n] = Null /\ tree.pParent[n] = Null
  BY DEF Init, Trees, Ptr, RED, BLACK
<1>6. Layout(tree, s, pos, lo, hi, Null)
  <2>1. Seats(s, pos)
    BY <1>2 DEF Seats
  <2>2. Shape(tree, Len(s), pos, lo, hi)
    BY <1>2, <1>5 DEF Shape, RootOK
  <2>3. Outside(tree, pos, Null)
    BY <1>5 DEF Outside
  <2>4. QED
    BY <2>1, <2>2, <2>3 DEF Layout
<1>7. Sorted(s, virtualRuntime) /\ Heights(tree, pos, bh, Null) /\ RedRule(tree, pos, Null, Null)
  BY <1>2 DEF Sorted, Heights, RedRule
<1>8. RootBlack(tree, op.at, op.node) /\ InsertOK(tree, pos, op.at, op.node)
  BY <1>3, <1>5 DEF RootBlack, IsBlack, InsertOK, Cases
<1>9. RebalanceOK(pos, lo) /\ RetrieveOK(pos)
  BY <1>3, <1>4 DEF RebalanceOK, RetrieveOK
<1>10. MinOK(s, pos) /\ CountOK(s)
  BY <1>2, <1>3, <1>4 DEF MinOK, CountOK, Cases, Init
<1>11. OpTypes
  <2>1. NPROC \in Nat
    BY ProcsAssumption, FS_CardinalityType DEF NPROC
  <2>2. Idle \in [at : Cases \cup {"idle", "min", "rebalance", "finish"},
                  proc : Ptr, node : Ptr, parent : Ptr]
    BY DEF Idle, Ptr
  <2>3. virtualRuntime \in [Procs -> Nat] /\ minvRuntime \in Ptr /\ count = 0
    BY DEF Init, Ptr
  <2>4. QED
    BY <1>3, <2>1, <2>2, <2>3 DEF OpTypes
<1>12. TreeInv(s, pos, lo, hi, bh)
  BY <1>4, <1>6, <1>7, <1>8, <1>9, <1>10, <1>11 DEF TreeInv
<1>13. QED
  BY <1>12 DEF RBInv

\* A step of an operation that has begun keeps the sequence.
LEMMA ContinueInv ==
  ASSUME NEW s, NEW pos, NEW lo, NEW hi, NEW bh, TreeInv(s, pos, lo, hi, bh), Continue
  PROVE  \E lo2, hi2, bh2 : TreeInv(s, pos, lo2, hi2, bh2)'
<1>1. CASE insertionCase1
  BY <1>1, Case1Inv
<1>2. CASE insertionCase2
  BY <1>2, Case2Inv
<1>3. CASE insertionCase3
  BY <1>3, Case3Inv
<1>4. CASE insertionCase4
  BY <1>4, Case4Inv
<1>5. CASE insertionCase5
  BY <1>5, Case5Inv
<1>6. CASE insertDone
  <2>1. TreeInv(s, pos, lo, hi, bh)'
    BY <1>6, InsertDoneInv
  <2>2. QED
    BY <2>1
<1>7. CASE rebalance
  BY <1>7, RebalanceInv
<1>8. CASE rebalanced
  BY <1>8, RebalancedInv
<1>9. CASE retrieveDone
  <2>1. TreeInv(s, pos, lo, hi, bh)'
    BY <1>9, RetrieveDoneInv
  <2>2. QED
    BY <2>1
<1>10. QED
  BY <1>1, <1>2, <1>3, <1>4, <1>5, <1>6, <1>7, <1>8, <1>9 DEF Continue

\* Nothing changes when no step is taken.
LEMMA StutterInv ==
  ASSUME NEW s, NEW pos, NEW lo, NEW hi, NEW bh, TreeInv(s, pos, lo, hi, bh), UNCHANGED vars
  PROVE  TreeInv(s, pos, lo, hi, bh)'
<1>1. /\ tree' = tree /\ op' = op /\ count' = count /\ minvRuntime' = minvRuntime
      /\ virtualRuntime' = virtualRuntime
  BY DEF vars
<1>2. Gone' = Gone /\ Deficient' = Deficient /\ Above' = Above /\ Below' = Below
  BY <1>1 DEF Gone, Unlinking, Deficient, Above, Below
<1>3. OpTypes' /\ RebalanceOK(pos, lo)' /\ RetrieveOK(pos)' /\ MinOK(s, pos)' /\ CountOK(s)'
  BY <1>1 DEF TreeInv, OpTypes, RebalanceOK, RetrieveOK, MinOK, CountOK, Unlinking
<1>4. QED
  BY <1>1, <1>2, <1>3 DEF TreeInv

\* Every step keeps the invariant.
LEMMA NextInv == RBInv /\ [Next]_vars => RBInv'
<1> SUFFICES ASSUME RBInv, [Next]_vars
             PROVE  RBInv'
  OBVIOUS
<1>1. PICK s, pos, lo, hi, bh : TreeInv(s, pos, lo, hi, bh)
  BY DEF RBInv
<1>2. ASSUME NEW p \in Procs \ InTree(tree), NEW v \in 0..MaxRuntime, insertProcess(p, v)
      PROVE  RBInv'
  <2>1. PICK k, lo2, hi2, bh2 : TreeInv(InsertedAt(s, k, p), InsertedPos(pos, k, p), lo2, hi2, bh2)'
    BY <1>1, <1>2, InsertProcessInv
  <2>2. QED
    BY <2>1 DEF RBInv
<1>3. CASE retrieveProcess
  <2>1. PICK lo2, hi2, bh2 : TreeInv(Tail(s), TailPos(pos), lo2, hi2, bh2)'
    BY <1>1, <1>3, RetrieveProcessInv
  <2>2. QED
    BY <2>1 DEF RBInv
<1>4. CASE Continue
  <2>1. PICK lo2, hi2, bh2 : TreeInv(s, pos, lo2, hi2, bh2)'
    BY <1>1, <1>4, ContinueInv
  <2>2. QED
    BY <2>1 DEF RBInv
<1>5. CASE UNCHANGED vars
  <2>1. TreeInv(s, pos, lo, hi, bh)'
    BY <1>1, <1>5, StutterInv
  <2>2. QED
    BY <2>1 DEF RBInv
<1>6. QED
  BY <1>2, <1>3, <1>4, <1>5 DEF Next

\* The tree of proc.c has a layout at every step: it is one search tree whose balance
\* is disturbed only where the operation under way is about to repair it.
THEOREM RBInvariant == Spec => []RBInv
<1>1. QED
  BY InitInv, NextInv, PTL DEF Spec

\* RBTypeOK: the pointers point to processes, count stays within NPROC.
THEOREM RBTypeCorrect == Spec => []RBTypeOK
<1>1. RBInv => RBTypeOK
  <2> SUFFICES ASSUME NEW s, NEW pos, NEW lo, NEW hi, NEW bh, TreeInv(s, pos, lo, hi, bh)
               PROVE  RBTypeOK
    BY DEF RBInv
  <2>1. OpTypes /\ tree \in Trees
    BY DEF TreeInv, Layout, Shape
  <2>2. op.at \in Cases \cup {"idle", "min", "rebalance", "finish"}
    BY <2>1 DEF OpTypes
  <2>3. QED
    BY <2>1, <2>2 DEF RBTypeOK, OpTypes, Trees, Ptr, Cases
<1>2. QED
  BY <1>1, RBInvariant, PTL

\* SearchTree: at every step of an operation the links make up one search tree, and
\* between two operations count is exact and no process outside it has links.
THEOREM SearchTreeAlways == Spec => []SearchTree
<1>1. RBInv => SearchTree
  <2> SUFFICES ASSUME NEW s, NEW pos, NEW lo, NEW hi, NEW bh, TreeInv(s, pos, lo, hi, bh)
               PROVE  SearchTree
    BY DEF RBInv
  <2>1. /\ Layout(tree, s, pos, lo, hi, Gone) /\ Seats(s, pos) /\ Shape(tree, Len(s), pos, lo, hi)
        /\ Sorted(s, virtualRuntime)
    BY DEF TreeInv, Layout
  <2>2. InOrder(tree) = s
    BY <2>1, InOrderLayout
  <2>3. InTree(tree) = {n \in Procs : pos[n] > 0}
    BY <2>1, InTreeLayout
  <2>4. Len(s) \in Nat /\ pos \in [Procs -> Nat] /\ tree.root \in Ptr
    BY <2>1 DEF Seats, Shape, Trees
  <2>5. \A i \in 1..(Len(s) - 1) : virtualRuntime[s[i]] <= virtualRuntime[s[i + 1]]
    BY <2>1, <2>4 DEF Sorted
  <2>6. tree.root # Null => tree.pParent[tree.root] = Null
    BY <2>1 DEF Shape, RootOK
  <2>7. ASSUME NEW n \in InTree(tree)
        PROVE  /\ tree.left[n] # Null => tree.pParent[tree.left[n]] = n
               /\ tree.right[n] # Null => tree.pParent[tree.right[n]] = n
    BY <2>1, <2>3, DownFacts
  <2>8. ASSUME op = Idle
        PROVE  /\ count = Len(s)
               /\ \A n \in Procs \ InTree(tree) :
                    tree.left[n] = Null /\ tree.right[n] = Null /\ tree.pParent[n] = Null
    <3>1. IdleOK(tree, s, pos, lo, hi, bh, minvRuntime) /\ count = Len(s)
      BY <2>8, IdleFacts
    <3>2. Outside(tree, pos, Null)
      BY <3>1 DEF IdleOK, Layout
    <3>3. \A n \in Procs \ InTree(tree) : pos[n] = 0 /\ n # Null
      BY <2>3, <2>4, NullAssumption
    <3>4. QED
      BY <3>1, <3>2, <3>3 DEF Outside
  <2>9. QED
    BY <2>2, <2>5, <2>6, <2>7, <2>8 DEF SearchTree
<1>2. QED
  BY <1>1, RBInvariant, PTL

\* MinCached: between two operations minvRuntime is the leftmost node, although
\* insertProcess looks it up again only when it has gained a left child.
THEOREM MinimumCached == Spec => []MinCached
<1>1. RBInv => MinCached
  <2> SUFFICES ASSUME NEW s, NEW pos, NEW lo, NEW hi, NEW bh, TreeInv(s, pos, lo, hi, bh), op = Idle
               PROVE  minvRuntime = IF count = 0 THEN Null ELSE InOrder(tree)[1]
    BY DEF RBInv, MinCached
  <2>1. IdleOK(tree, s, pos, lo, hi, bh, minvRuntime) /\ count = Len(s)
    BY IdleFacts
  <2>2. InOrder(tree) = s
    BY <2>1, InOrderLayout DEF IdleOK
  <2>3. QED
    BY <2>1, <2>2 DEF IdleOK
<1>2. QED
  BY <1>1, RBInvariant, PTL

\* RedBlack: after every insertion and every removal of the minimum the tree is a
\* red-black tree again.
THEOREM RedBlackAlways == Spec => []RedBlack
<1>1. RBInv => RedBlack
  <2> SUFFICES ASSUME NEW s, NEW pos, NEW lo, NEW hi, NEW bh, TreeInv(s, pos, lo, hi, bh)
               PROVE  RedBlack
    BY DEF RBInv
  <2>1. CASE op = Idle
    <3>1. IdleOK(tree, s, pos, lo, hi, bh, minvRuntime)
      BY <2>1, IdleFacts
    <3>2. QED
      BY <3>1, HeightLayout DEF IdleOK, Layout
  <2>2. CASE op # Idle
    BY <2>2 DEF RedBlack
  <2>3. QED
    BY <2>1, <2>2
<1>2. QED
  BY <1>1, RBInvariant, PTL

-----------------------------------------------------------------------------
(* The tree implements the ready set.                                      *)

\* The variables of the ready set that are not variables of the tree.
WeightShown == IF Unlinking THEN treeWeight - Weight ELSE treeWeight
SliceShown ==
  IF Unlinking
  THEN [maxExecutionTime EXCEPT ![op.proc] = (period * Weight) \div treeWeight]
  ELSE maxExecutionTime

\* The place that the ready set chooses is the one where the tree is split.
LEMMA SplitUnique ==
  ASSUME NEW s \in Seq(Procs), NEW vr \in [Procs -> Nat], NEW vr0, NEW p \in Procs, NEW k,
         Splits(s, vr, p, k), \A i \in 1..Len(s) : vr0[s[i]] = vr[s[i]]
  PROVE  RQ!Inserted(s, vr0, p, vr[p]) = InsertedAt(s, k, p)
<1> DEFINE v == vr[p]
           P(j) == /\ \A i \in 1..j : vr0[s[i]] <= v
                   /\ \A i \in (j+1)..Len(s) : v < vr0[s[i]]
<1>1. Len(s) \in Nat /\ k \in 0..Len(s) /\ v \in Nat /\ \A i \in 1..Len(s) : vr[s[i]] \in Nat
  BY DEF Splits
<1>2. P(k)
  BY <1>1 DEF Splits
<1>3. ASSUME NEW j \in 0..Len(s), P(j)
      PROVE  j = k
  <2>1. CASE j < k
    <3>1. j + 1 \in (j+1)..Len(s) /\ j + 1 \in 1..k /\ j + 1 \in 1..Len(s)
      BY <1>1, <2>1
    <3>2. vr0[s[j+1]] <= v
      BY <1>2, <3>1
    <3>3. v < vr0[s[j+1]]
      BY <1>3, <3>1
    <3>4. vr0[s[j+1]] \in Nat
      BY <1>1, <3>1
    <3> HIDE DEF v, P
    <3>5. QED
      BY <1>1, <3>2, <3>3, <3>4
  <2>2. CASE k < j
    <3>1. k + 1 \in (k+1)..Len(s) /\ k + 1 \in 1..j /\ k + 1 \in 1..Len(s)
      BY <1>1, <2>2
    <3>2. vr0[s[k+1]] <= v
      BY <1>3, <3>1
    <3>3. v < vr0[s[k+1]]
      BY <1>2, <3>1
    <3>4. vr0[s[k+1]] \in Nat
      BY <1>1, <3>1
    <3> HIDE DEF v, P
    <3>5. QED
      BY <1>1, <3>2, <3>3, <3>4
  <2>3. QED
    BY <1>1, <2>1, <2>2
<1> HIDE DEF P
<1>4. (CHOOSE j \in 0..Len(s) : P(j)) = k
  BY <1>1, <1>2, <1>3
<1>5. RQ!InsertionPoint(s, vr0, v) = k
  BY <1>4 DEF RQ!InsertionPoint, P
<1> HIDE DEF v
<1>6. RQ!Inserted(s, vr0, p, v) = InsertedAt(s, k, p)
  BY <1>5 DEF RQ!Inserted, InsertedAt
<1>7. QED
  BY <1>6 DEF v

\* The empty tree is the empty ready set.
LEMMA RefinesInit == Init => RQ!RQInit
<1> SUFFICES ASSUME Init
             PROVE  RQ!RQInit
  OBVIOUS
<1>1. ~Unlinking
  BY DEF Init, Unlinking, Idle
<1>2. InOrder(tree) = << >>
  <2>1. PICK s, pos, lo, hi, bh : TreeInv(s, pos, lo, hi, bh)
    BY InitInv DEF RBInv
  <2>2. op = Idle /\ count = 0 /\ Layout(tree, s, pos, lo, hi, Gone) /\ s \in Seq(Procs)
    BY <2>1 DEF Init, TreeInv, Layout, Seats
  <2>3. Len(s) = 0
    BY <2>1, <2>2, IdleFacts
  <2>4. InOrder(tree) = s
    BY <2>2, InOrderLayout
  <2>5. QED
    BY <2>2, <2>3, <2>4, EmptySeq
<1>3. QED
  BY <1>1, <1>2 DEF Init, RQ!RQInit

\* insertProcess of the tree is insertProcess of the ready set.
LEMMA RefinesInsert ==
  ASSUME RBInv, NEW p \in Procs \ InTree(tree), NEW v \in 0..MaxRuntime, insertProcess(p, v)
  PROVE  RQ!RQNext
<1>1. PICK s, pos, lo, hi, bh : TreeInv(s, pos, lo, hi, bh)
  BY DEF RBInv
<1>2. PICK k, lo2, hi2, bh2 :
           /\ Splits(s, virtualRuntime', p, k)
           /\ TreeInv(InsertedAt(s, k, p), InsertedPos(pos, k, p), lo2, hi2, bh2)'
  BY <1>1, InsertProcessInv
<1>3. /\ op = Idle /\ count # NPROC /\ virtualRuntime' = [virtualRuntime EXCEPT ![p] = v]
      /\ treeWeight' = treeWeight + Weight /\ period' = period
      /\ maxExecutionTime' = maxExecutionTime /\ op'.at = "case1"
  BY DEF insertProcess
<1>4. ~Unlinking /\ ~Unlinking'
  BY <1>3 DEF Unlinking, Idle
<1>5. /\ Layout(tree, s, pos, lo, hi, Gone) /\ Seats(s, pos) /\ count = Len(s)
      /\ virtualRuntime \in [Procs -> Nat]
  BY <1>1, <1>4 DEF TreeInv, Layout, CountOK, OpTypes
<1>6. InOrder(tree) = s /\ InTree(tree) = {n \in Procs : pos[n] > 0}
  BY <1>5, InOrderLayout, InTreeLayout
<1>7. InOrder(tree)' = InsertedAt(s, k, p)
  <2>1. PICK s2, pos2 : s2 = InsertedAt(s, k, p) /\ pos2 = InsertedPos(pos, k, p)
    OBVIOUS
  <2>2. Layout(tree', s2, pos2, lo2, hi2, Gone')
    BY <1>2, <2>1 DEF TreeInv
  <2>3. InOrder(tree') = s2
    BY <2>2, InOrderLayout
  <2>4. QED
    BY ZenonT(30), <2>1, <2>3 DEF InOrder
<1>8. s \in Seq(Procs) /\ v \in Nat /\ virtualRuntime' \in [Procs -> Nat] /\ virtualRuntime'[p] = v
  BY <1>3, <1>5, MaxRuntimeAssumption DEF Seats
<1>9. \A i \in 1..Len(s) : s[i] \in Procs /\ s[i] # p
  BY <1>5, <1>6, <1>8 DEF Seats
<1>10. \A i \in 1..Len(s) : virtualRuntime[s[i]] = virtualRuntime'[s[i]]
  BY <1>3, <1>5, <1>9
<1>11. RQ!Inserted(s, virtualRuntime, p, v) = InsertedAt(s, k, p)
  <2>1. PICK vr, vr0 : vr = virtualRuntime' /\ vr0 = virtualRuntime
    OBVIOUS
  <2>2. /\ s \in Seq(Procs) /\ p \in Procs
        /\ vr \in [Procs -> Nat] /\ Splits(s, vr, p, k) /\ vr[p] = v
        /\ \A i \in 1..Len(s) : vr0[s[i]] = vr[s[i]]
    BY <1>2, <1>8, <1>10, <2>1
  <2>3. RQ!Inserted(s, vr0, p, vr[p]) = InsertedAt(s, k, p)
    BY SMTT(30), <2>2, SplitUnique
  <2>4. QED
    BY <2>1, <2>2, <2>3
<1>12. p \in Procs \ RQ!Queued(InOrder(tree))
  <2>1. RQ!Queued(s) = {s[i] : i \in 1..Len(s)}
    BY <1>8 DEF RQ!Queued
  <2>2. QED
    BY <1>6, <1>9, <2>1
<1>13. RQ!insertProcess(p, v)
  <2>1. Len(InOrder(tree)) # RQ!NPROC
    <3>1. RQ!NPROC = NPROC
      BY DEF NPROC, RQ!NPROC, Cardinality, RQ!Cardinality
    <3>2. QED
      BY <1>3, <1>5, <1>6, <3>1
  <2>2. InOrder(tree)' = RQ!Inserted(InOrder(tree), virtualRuntime, p, v)
    BY <1>6, <1>7, <1>11
  <2>3. RQ!Weight = Weight
    BY DEF Weight, RQ!Weight
  <2>4. QED
    BY <1>3, <1>4, <2>1, <2>2, <2>3 DEF RQ!insertProcess
<1>14. QED
  BY <1>12, <1>13 DEF RQ!RQNext

\* Unlinking the minimum is retrieveProcess of the ready set.
LEMMA RefinesRetrieve ==
  ASSUME RBInv, retrieveProcess
  PROVE  RQ!RQNext
<1>1. PICK s, pos, lo, hi, bh : TreeInv(s, pos, lo, hi, bh)
  BY DEF RBInv
<1>2. PICK lo2, hi2, bh2 : TreeInv(Tail(s), TailPos(pos), lo2, hi2, bh2)'
  BY <1>1, RetrieveProcessInv
<1>3. Len(s) # 0 /\ op'.proc = s[1] /\ Unlinking'
  BY <1>1, RetrieveProcessInv
<1>4. /\ op = Idle /\ treeWeight' = treeWeight /\ virtualRuntime' = virtualRuntime
      /\ maxExecutionTime' = maxExecutionTime
      /\ period' = IF count > LatencyProcs THEN count * MinGranularity ELSE period
  BY DEF retrieveProcess
<1>5. ~Unlinking
  BY <1>4 DEF Unlinking, Idle
<1>6. Layout(tree, s, pos, lo, hi, Gone) /\ Seats(s, pos) /\ count = Len(s)
  BY <1>1, <1>5 DEF TreeInv, Layout, CountOK
<1>7. InOrder(tree) = s /\ s \in Seq(Procs)
  BY <1>6, InOrderLayout DEF Seats
<1>8. InOrder(tree)' = Tail(s)
  <2>1. PICK s2, pos2 : s2 = Tail(s) /\ pos2 = TailPos(pos)
    OBVIOUS
  <2>2. Layout(tree', s2, pos2, lo2, hi2, Gone')
    BY <1>2, <2>1 DEF TreeInv
  <2>3. InOrder(tree') = s2
    BY <2>2, InOrderLayout
  <2>4. QED
    BY ZenonT(30), <2>1, <2>3 DEF InOrder
<1>9. s # << >> /\ Head(s) = s[1]
  BY <1>3, <1>7
<1>10. RQ!PeriodFor(Len(s), period) = period'
  BY <1>4, <1>6 DEF RQ!PeriodFor, RQ!LatencyProcs, LatencyProcs
<1>11. RQ!Weight = Weight
  BY DEF Weight, RQ!Weight
<1>12. RQ!TimeSlice(period', treeWeight) = (period' * Weight) \div treeWeight
  BY <1>11 DEF RQ!TimeSlice
<1>13. RQ!retrieveProcess
  BY <1>3, <1>4, <1>5, <1>7, <1>8, <1>9, <1>10, <1>11, <1>12 DEF RQ!retrieveProcess
<1>14. QED
  BY <1>13 DEF RQ!RQNext

\* The other steps change nothing of the ready set.
LEMMA RefinesContinue ==
  ASSUME RBInv, Continue
  PROVE  UNCHANGED RQ!rqVars
<1>1. PICK s, pos, lo, hi, bh : TreeInv(s, pos, lo, hi, bh)
  BY DEF RBInv
<1>2. PICK lo2, hi2, bh2 : TreeInv(s, pos, lo2, hi2, bh2)'
  BY <1>1, ContinueInv
<1>3. InOrder(tree) = s
  BY <1>1, InOrderLayout DEF TreeInv
<1>4. InOrder(tree)' = s
  <2>1. Layout(tree', s, pos, lo2, hi2, Gone')
    BY <1>2 DEF TreeInv
  <2>2. InOrder(tree') = s
    BY <2>1, InOrderLayout
  <2>3. QED
    BY ZenonT(30), <2>2 DEF InOrder
<1>5. op \in [at : Cases \cup {"idle", "min", "rebalance", "finish"},
              proc : Ptr, node : Ptr, parent : Ptr]
  BY <1>1 DEF TreeInv, OpTypes
<1>6. /\ period' = period /\ virtualRuntime' = virtualRuntime
      /\ WeightShown' = WeightShown /\ SliceShown' = SliceShown
  <2>1. CASE insertionCase1 \/ insertionCase2 \/ insertionCase3 \/ insertionCase4 \/ insertionCase5
    <3>1. op.at \in Cases
      BY <2>1 DEF insertionCase1, insertionCase2, insertionCase3, insertionCase4, insertionCase5, Cases
    <3>2. PICK t, at, n : NextCase(t, at, n) /\ at \in Cases \cup {"min"}
      BY <2>1, Zenon DEF insertionCase1, insertionCase2, insertionCase3, insertionCase4, insertionCase5, Cases
    <3>3. /\ op'.at \in Cases \cup {"min"} /\ period' = period /\ virtualRuntime' = virtualRuntime
          /\ treeWeight' = treeWeight /\ maxExecutionTime' = maxExecutionTime
      BY <1>5, <3>2 DEF NextCase, restOfInsert
    <3>4. ~Unlinking /\ ~Unlinking'
      BY <3>1, <3>3 DEF Unlinking, Cases
    <3>5. QED
      BY <3>3, <3>4 DEF WeightShown, SliceShown
  <2>2. CASE insertDone
    <3>1. /\ op.at = "min" /\ op'.at = "idle" /\ period' = period /\ virtualRuntime' = virtualRuntime
          /\ treeWeight' = treeWeight /\ maxExecutionTime' = maxExecutionTime
      BY <2>2 DEF insertDone, Idle
    <3>2. ~Unlinking /\ ~Unlinking'
      BY <3>1 DEF Unlinking
    <3>3. QED
      BY <3>1, <3>2 DEF WeightShown, SliceShown
  <2>3. CASE rebalance \/ rebalanced
    <3>1. UNCHANGED restOfRetrieve /\ op.at = "rebalance"
      BY ZenonT(30), <2>3 DEF rebalance, rebalanced
    <3>2. op'.proc = op.proc /\ op'.at \in {"rebalance", "finish"}
      <4>1. CASE rebalance
        <5>1. \/ \E n, u : op' = [op EXCEPT !.node = n, !.parent = u]
              \/ \E n : op' = [op EXCEPT !.node = n]
          BY <4>1, Zenon DEF rebalance
        <5>2. QED
          BY ZenonT(30), <1>5, <3>1, <5>1
      <4>2. CASE rebalanced
        BY <1>5, <4>2 DEF rebalanced
      <4>3. QED
        BY <2>3, <4>1, <4>2
    <3>3. /\ period' = period /\ virtualRuntime' = virtualRuntime
          /\ treeWeight' = treeWeight /\ maxExecutionTime' = maxExecutionTime
      BY <3>1 DEF restOfRetrieve
    <3>4. Unlinking /\ Unlinking'
      BY <3>1, <3>2 DEF Unlinking
    <3>5. QED
      BY <3>2, <3>3, <3>4 DEF WeightShown, SliceShown
  <2>4. CASE retrieveDone
    <3>1. /\ op.at = "finish" /\ op'.at = "idle" /\ period' = period /\ virtualRuntime' = virtualRuntime
          /\ treeWeight' = treeWeight - Weight
          /\ maxExecutionTime' = [maxExecutionTime EXCEPT ![op.proc] = (period * Weight) \div treeWeight]
      BY <2>4 DEF retrieveDone, Idle
    <3>2. Unlinking /\ ~Unlinking'
      BY <3>1 DEF Unlinking
    <3>3. QED
      BY <3>1, <3>2 DEF WeightShown, SliceShown
  <2>5. QED
    BY <2>1, <2>2, <2>3, <2>4 DEF Continue
<1>7. QED
  BY <1>3, <1>4, <1>6 DEF RQ!rqVars, WeightShown, SliceShown

\* Every step of the tree is a step of the ready set or changes nothing of it.
LEMMA RefinesNext == RBInv /\ [Next]_vars => [RQ!RQNext]_(RQ!rqVars)
<1> SUFFICES ASSUME RBInv, [Next]_vars
             PROVE  RQ!RQNext \/ UNCHANGED RQ!rqVars
  OBVIOUS
<1>1. ASSUME NEW p \in Procs \ InTree(tree), NEW v \in 0..MaxRuntime, insertProcess(p, v)
      PROVE  RQ!RQNext
  BY <1>1, RefinesInsert
<1>2. CASE retrieveProcess
  BY <1>2, RefinesRetrieve
<1>3. CASE Continue
  BY <1>3, RefinesContinue
<1>4. CASE UNCHANGED vars
  BY <1>4 DEF vars, RQ!rqVars, InOrder, Unlinking
<1>5. QED
  BY <1>1, <1>2, <1>3, <1>4 DEF Next

\* ImplementsRunQueue: the pointer structure, rebalanced step by step, is the ordered
\* sequence that the scheduler relies on.
THEOREM TreeImplementsRunQueue == Spec => ImplementsRunQueue
<1>1. RQ!RQInit /\ [][RQ!RQNext]_(RQ!rqVars) => RQ!RQSpec
  BY PTL DEF RQ!RQSpec
<1>2. QED
  BY <1>1, RBInvariant, RefinesInit, RefinesNext, PTL DEF Spec, ImplementsRunQueue

-----------------------------------------------------------------------------
(* Rebalancing ends.                                                       *)

\* The number of nodes above a node, the function that Rank uses.
Depth(t) ==
  LET depth[n \in Procs] ==
        IF t.pParent[n] = Null THEN 0 ELSE 1 + depth[t.pParent[n]]
  IN  depth
DepthOK(t) ==
  /\ t.pParent \in [Procs -> Ptr] /\ Depth(t) \in [Procs -> Nat]
  /\ \A n \in Procs :
       Depth(t)[n] = IF t.pParent[n] = Null THEN 0 ELSE 1 + Depth(t)[t.pParent[n]]

\* It is defined: the subtrees grow on the way up.
LEMMA DepthLayout ==
  ASSUME NEW t, NEW s, NEW pos, NEW lo, NEW hi, NEW p, Layout(t, s, pos, lo, hi, p)
  PROVE  DepthOK(t)
<1> DEFINE depth[n \in Procs] ==
             IF t.pParent[n] = Null THEN 0 ELSE 1 + depth[t.pParent[n]]
           Eqn(f) == f = [n \in Procs |-> IF t.pParent[n] = Null THEN 0 ELSE 1 + f[t.pParent[n]]]
           B == Len(s) + 1
           r == [n \in Procs |-> IF pos[n] = 0 THEN B ELSE Len(s) - (hi[n] - lo[n])]
<1>1. Shape(t, Len(s), pos, lo, hi) /\ Outside(t, pos, p)
  BY DEF Layout
<1>2. /\ t.pParent \in [Procs -> Ptr] /\ Null \notin Procs /\ Len(s) \in Nat
      /\ pos \in [Procs -> Nat] /\ lo \in [Procs -> Int] /\ hi \in [Procs -> Int]
  BY <1>1, NullAssumption DEF Shape, Trees
<1>3. \A n \in Procs : pos[n] > 0 => 1 <= lo[n] /\ lo[n] <= hi[n] /\ hi[n] <= Len(s)
  BY <1>1, <1>2 DEF Shape, NodeOK
<1>4. B \in Nat /\ r \in [Procs -> 0..B]
  <2>1. ASSUME NEW n \in Procs
        PROVE  (IF pos[n] = 0 THEN B ELSE Len(s) - (hi[n] - lo[n])) \in 0..B
    <3>1. pos[n] \in Nat /\ lo[n] \in Int /\ hi[n] \in Int
      BY <1>2
    <3>2. CASE pos[n] = 0
      BY <1>2, <3>2
    <3>3. CASE pos[n] # 0
      <4>1. 1 <= lo[n] /\ lo[n] <= hi[n] /\ hi[n] <= Len(s)
        BY <1>3, <3>1, <3>3
      <4>2. QED
        BY <1>2, <3>1, <3>3, <4>1
    <3>4. QED
      BY <3>2, <3>3
  <2>2. QED
    BY <1>2, <2>1
<1>5. ASSUME NEW n \in Procs, t.pParent[n] # Null
      PROVE  r[t.pParent[n]] < r[n]
  <2> DEFINE u == t.pParent[n]
  <2>1. u \in Procs
    BY <1>2, <1>5 DEF Ptr
  <2>2. CASE pos[n] = 0
    <3>1. pos[u] > 0
      BY <1>1, <1>5, <2>2 DEF Outside
    <3>2. r[n] = B /\ r[u] = Len(s) - (hi[u] - lo[u])
      BY <2>1, <2>2, <3>1
    <3>3. QED
      BY <1>2, <1>3, <2>1, <3>1, <3>2
  <2>3. CASE pos[n] # 0
    <3>1. UpOK(t, Len(s), pos, lo, hi, n, u) /\ pos[n] > 0
      BY SMTT(30), <1>1, <1>2, <1>5, <2>3, UpFacts
    <3>2. /\ pos[u] > 0 /\ lo[u] <= pos[u] /\ pos[u] <= hi[u]
          /\ \/ lo[n] = lo[u] /\ hi[n] = pos[u] - 1
             \/ lo[n] = pos[u] + 1 /\ hi[n] = hi[u]
      BY <3>1 DEF UpOK, NodeOK
    <3>3. r[n] = Len(s) - (hi[n] - lo[n]) /\ r[u] = Len(s) - (hi[u] - lo[u])
      BY <2>1, <2>3, <3>2
    <3>4. /\ lo[u] \in Int /\ hi[u] \in Int /\ pos[u] \in Int /\ lo[n] \in Int /\ hi[n] \in Int
      BY <1>2, <2>1
    <3> HIDE DEF u, r, depth, Eqn
    <3>5. Len(s) - (hi[u] - lo[u]) < Len(s) - (hi[n] - lo[n])
      <4>1. hi[n] - lo[n] < hi[u] - lo[u]
        BY <3>2, <3>4
      <4>2. QED
        BY <1>2, <3>4, <4>1
    <3>6. QED
      BY <3>3, <3>5 DEF u
  <2>4. QED
    BY <2>2, <2>3
<1> HIDE DEF B, r
<1>6. PICK f \in [Procs -> Nat] :
           \A n \in Procs : f[n] = IF t.pParent[n] = Null THEN 0 ELSE 1 + f[t.pParent[n]]
  BY <1>2, <1>4, <1>5, DepthExists
<1>7. Eqn(f)
  BY <1>6
<1>8. Eqn(depth)
  BY <1>7 DEF depth
<1>9. Depth(t) = depth
  BY DEF Depth
<1> HIDE DEF depth
<1>10. \A n \in Procs : depth[n] = IF t.pParent[n] = Null THEN 0 ELSE 1 + depth[t.pParent[n]]
  BY <1>8
<1>11. depth = [n \in Procs |-> depth[n]]
  BY <1>8
<1>12. \A n \in Procs : depth[n] \in Nat
  <2> DEFINE Bad == {n \in Procs : depth[n] \notin Nat}
             Ranks == {r[n] : n \in Bad}
  <2>1. ASSUME Bad # {}
        PROVE  FALSE
    <3>1. Ranks \in SUBSET Nat /\ Ranks # {}
      BY <1>4, <2>1
    <3>2. PICK k \in Ranks : \A e \in Ranks : k <= e
      <4> HIDE DEF Ranks
      <4>1. QED
        BY <3>1, LeastNat
    <3>3. PICK n \in Bad : k = r[n]
      BY <3>2
    <3>4. n \in Procs /\ depth[n] \notin Nat
      BY <3>3
    <3>5. t.pParent[n] # Null
      BY <1>10, <3>4
    <3>6. t.pParent[n] \in Procs /\ r[t.pParent[n]] < r[n]
      BY <1>2, <1>5, <3>4, <3>5 DEF Ptr
    <3>7. depth[t.pParent[n]] \notin Nat
      BY <1>10, <3>4, <3>5
    <3>8. r[t.pParent[n]] \in Ranks
      BY <3>6, <3>7
    <3> HIDE DEF Ranks, Bad
    <3>9. r[n] \in Nat /\ r[t.pParent[n]] \in Nat
      BY <1>4, <3>4, <3>6
    <3>10. QED
      BY <3>2, <3>3, <3>6, <3>8, <3>9
  <2>2. QED
    BY <2>1
<1>13. depth \in [Procs -> Nat]
  BY <1>11, <1>12
<1>14. QED
  BY <1>2, <1>9, <1>10, <1>13 DEF DepthOK

\* Nodes whose way to the root is the same have the same depth.
LEMMA SameDepth ==
  ASSUME NEW t, NEW r, DepthOK(t), DepthOK(r), NEW A \in SUBSET Procs,
         \A a \in A : /\ r.pParent[a] = t.pParent[a]
                      /\ t.pParent[a] # Null => t.pParent[a] \in A
  PROVE  \A a \in A : Depth(r)[a] = Depth(t)[a]
<1> DEFINE Bad == {a \in A : Depth(r)[a] # Depth(t)[a]}
           Depths == {Depth(t)[a] : a \in Bad}
<1>0. /\ Depth(t) \in [Procs -> Nat]
      /\ \A n \in Procs :
           Depth(t)[n] = IF t.pParent[n] = Null THEN 0 ELSE 1 + Depth(t)[t.pParent[n]]
      /\ \A n \in Procs :
           Depth(r)[n] = IF r.pParent[n] = Null THEN 0 ELSE 1 + Depth(r)[r.pParent[n]]
  BY DEF DepthOK
<1>1. ASSUME Bad # {}
      PROVE  FALSE
  <2>1. Depths \in SUBSET Nat /\ Depths # {}
    BY <1>0, <1>1
  <2>2. PICK k \in Depths : \A e \in Depths : k <= e
    <3> HIDE DEF Depths
    <3>1. QED
      BY <2>1, LeastNat
  <2>3. PICK a \in Bad : k = Depth(t)[a]
    BY <2>2
  <2>4. a \in A /\ a \in Procs /\ Depth(r)[a] # Depth(t)[a] /\ r.pParent[a] = t.pParent[a]
    BY <2>3
  <2>5. t.pParent[a] # Null
    BY <1>0, <2>4
  <2>6. t.pParent[a] \in A /\ Depth(t)[a] = 1 + Depth(t)[t.pParent[a]]
        /\ Depth(r)[a] = 1 + Depth(r)[t.pParent[a]]
    BY <1>0, <2>4, <2>5
  <2>7. t.pParent[a] \in Bad
    BY <2>4, <2>6
  <2>8. Depth(t)[t.pParent[a]] \in Depths
    BY <2>7
  <2>9. Depth(t)[t.pParent[a]] \in Nat
    BY <1>0, <2>6
  <2> HIDE DEF Depths, Bad
  <2>10. QED
    BY <2>2, <2>3, <2>6, <2>8, <2>9
<1>2. QED
  BY <1>1

\* A rotation at x takes its child y up and x down by one.
LEMMA TurnDepth ==
  ASSUME NEW t, NEW r, DepthOK(t), DepthOK(r), NEW x \in Procs, NEW y \in Procs, NEW inner \in Ptr,
         x # y, t.pParent[y] = x, inner # Null => t.pParent[inner] = y,
         \A m \in Procs : r.pParent[m] = IF m = x THEN y ELSE IF m = y THEN t.pParent[x]
                                         ELSE IF m = inner THEN x ELSE t.pParent[m]
  PROVE  Depth(r)[y] = Depth(t)[x] /\ Depth(r)[x] = Depth(t)[y] /\ Depth(t)[y] = 1 + Depth(t)[x]
<1> DEFINE A == {a \in Procs : Depth(t)[a] < Depth(t)[x]}
           u == t.pParent[x]
<1>0. /\ Depth(t) \in [Procs -> Nat] /\ t.pParent \in [Procs -> Ptr] /\ Null \notin Procs
      /\ \A n \in Procs :
           Depth(t)[n] = IF t.pParent[n] = Null THEN 0 ELSE 1 + Depth(t)[t.pParent[n]]
      /\ \A n \in Procs :
           Depth(r)[n] = IF r.pParent[n] = Null THEN 0 ELSE 1 + Depth(r)[r.pParent[n]]
  BY NullAssumption DEF DepthOK
<1>1. Depth(t)[y] = 1 + Depth(t)[x] /\ Depth(t)[x] \in Nat
  BY <1>0
<1>2. inner \in Procs => Depth(t)[inner] = 2 + Depth(t)[x]
  BY <1>0, <1>1
<1>3. ASSUME NEW a \in A
      PROVE  /\ r.pParent[a] = t.pParent[a]
             /\ t.pParent[a] # Null => t.pParent[a] \in A
  <2>1. a \in Procs /\ Depth(t)[a] < Depth(t)[x] /\ Depth(t)[a] \in Nat
    BY <1>0, <1>3
  <2>2. a # x /\ a # y /\ a # inner
    BY <1>1, <1>2, <2>1
  <2>3. r.pParent[a] = t.pParent[a]
    BY <2>1, <2>2
  <2>4. t.pParent[a] # Null => t.pParent[a] \in Procs /\ Depth(t)[a] = 1 + Depth(t)[t.pParent[a]]
    BY <1>0, <2>1 DEF Ptr
  <2>5. QED
    BY <1>0, <1>1, <2>1, <2>3, <2>4
<1>4. \A a \in A : Depth(r)[a] = Depth(t)[a]
  <2>1. A \in SUBSET Procs
    OBVIOUS
  <2> HIDE DEF A
  <2>2. QED
    BY <1>3, <2>1, SameDepth
<1>5. r.pParent[y] = u /\ r.pParent[x] = y
  OBVIOUS
<1>6. Depth(r)[y] = Depth(t)[x]
  <2>1. CASE u = Null
    BY <1>0, <1>5, <2>1
  <2>2. CASE u # Null
    <3>1. u \in Procs /\ Depth(t)[x] = 1 + Depth(t)[u] /\ Depth(t)[u] \in Nat
      BY <1>0, <2>2 DEF Ptr
    <3>2. Depth(r)[u] = Depth(t)[u]
      BY <1>4, <3>1
    <3>3. Depth(r)[y] = 1 + Depth(r)[u]
      BY <1>0, <1>5, <2>2
    <3>4. QED
      BY <3>1, <3>2, <3>3
  <2>3. QED
    BY <2>1, <2>2
<1>7. Depth(r)[x] = 1 + Depth(r)[y]
  BY <1>0, <1>5
<1>8. QED
  BY <1>1, <1>6, <1>7

\* What Rank says of an operation at the step at, with the locals n and u, on the tree t.
NodeDepth(t, n, u) ==
  IF n # Null THEN Depth(t)[n] ELSE IF u # Null THEN 1 + Depth(t)[u] ELSE 0
Stage(t, at, n) ==
  CASE at = "case1" -> 5 [] at = "case2" -> 4
    [] at = "case3" -> 3 [] at = "case4" -> 2
    [] at = "case5" -> 1
    [] OTHER -> IF IsBlack(t, n) THEN 1 ELSE 0
RankOf(t, at, n, u) ==
  IF at \in {"min", "finish"} THEN 0 ELSE 10 * (1 + NodeDepth(t, n, u)) + Stage(t, at, n)

\* It is the rank of the model.
LEMMA RankIs ==
  /\ Rank = RankOf(tree, op.at, op.node, op.parent)
  /\ Rank' = RankOf(tree', op'.at, op'.node, op'.parent)
<1>1. Rank = RankOf(tree, op.at, op.node, op.parent)
  BY DEF Rank, RankOf, Stage, NodeDepth, Depth
<1>2. Rank' = RankOf(tree', op'.at, op'.node, op'.parent)
  BY DEF Rank, RankOf, Stage, NodeDepth, Depth, IsBlack
<1>3. QED
  BY <1>1, <1>2

\* The rank in the two loops.
LEMMA RankFacts ==
  ASSUME NEW t, DepthOK(t), NEW n \in Ptr, NEW u \in Ptr, NEW at
  PROVE  /\ NodeDepth(t, n, u) \in Nat
         /\ at \in {"min", "finish"} => RankOf(t, at, n, u) = 0
         /\ at \in Cases \cup {"rebalance"} =>
              /\ RankOf(t, at, n, u) = 10 * (1 + NodeDepth(t, n, u)) + Stage(t, at, n)
              /\ Stage(t, at, n) \in 0..5
         /\ at = "case1" => Stage(t, at, n) = 5
         /\ at = "case2" => Stage(t, at, n) = 4
         /\ at = "case3" => Stage(t, at, n) = 3
         /\ at = "case4" => Stage(t, at, n) = 2
         /\ at = "case5" => Stage(t, at, n) = 1
         /\ at = "rebalance" => Stage(t, at, n) = IF IsBlack(t, n) THEN 1 ELSE 0
<1>1. NodeDepth(t, n, u) \in Nat
  BY DEF NodeDepth, DepthOK, Ptr
<1>2. at \in {"min", "finish"} => RankOf(t, at, n, u) = 0
  BY DEF RankOf
<1>3. at \in Cases \cup {"rebalance"} =>
        /\ RankOf(t, at, n, u) = 10 * (1 + NodeDepth(t, n, u)) + Stage(t, at, n)
        /\ Stage(t, at, n) \in 0..5
  <2>1. at \in Cases \cup {"rebalance"} => at \notin {"min", "finish"}
    BY DEF Cases
  <2>2. Stage(t, at, n) \in 0..5
    BY DEF Stage
  <2>3. QED
    BY <2>1, <2>2 DEF RankOf
<1>4. /\ at = "case1" => Stage(t, at, n) = 5
      /\ at = "case2" => Stage(t, at, n) = 4
      /\ at = "case3" => Stage(t, at, n) = 3
      /\ at = "case4" => Stage(t, at, n) = 2
      /\ at = "case5" => Stage(t, at, n) = 1
  BY DEF Stage
<1>5. at = "rebalance" => Stage(t, at, n) = IF IsBlack(t, n) THEN 1 ELSE 0
  BY DEF Stage
<1>6. QED
  BY <1>1, <1>2, <1>3, <1>4, <1>5

\* The depths are defined before and after a step.
LEMMA StepDepths ==
  ASSUME NEW s, NEW pos, NEW lo, NEW hi, NEW bh, TreeInv(s, pos, lo, hi, bh),
         NEW lo2, NEW hi2, NEW bh2, TreeInv(s, pos, lo2, hi2, bh2)'
  PROVE  /\ DepthOK(tree) /\ op.node \in Ptr /\ op.parent \in Ptr
         /\ DepthOK(tree') /\ op'.node \in Ptr /\ op'.parent \in Ptr
<1>1. Layout(tree, s, pos, lo, hi, Gone) /\ Layout(tree', s, pos, lo2, hi2, Gone')
  BY DEF TreeInv
<1>2. DepthOK(tree) /\ DepthOK(tree')
  BY <1>1, DepthLayout
<1>3. op.node \in Ptr /\ op.parent \in Ptr
  BY DEF TreeInv, OpTypes
<1>4. op'.node \in Ptr /\ op'.parent \in Ptr
  BY DEF TreeInv, OpTypes
<1>5. QED
  BY <1>2, <1>3, <1>4

\* The step that leaves a loop.
LEMMA EndRank ==
  ASSUME DepthOK(tree), op.node \in Ptr, op.parent \in Ptr, op'.node \in Ptr, op'.parent \in Ptr,
         DepthOK(tree'), op.at \in Cases \cup {"rebalance"}, op'.at \in {"min", "finish"}
  PROVE  Rank' < Rank
<1>1. PICK t, n, u, at : t = tree /\ n = op.node /\ u = op.parent /\ at = op.at
  OBVIOUS
<1>2. PICK t2, n2, u2, at2 : t2 = tree' /\ n2 = op'.node /\ u2 = op'.parent /\ at2 = op'.at
  OBVIOUS
<1>3. RankOf(t2, at2, n2, u2) = 0
  BY <1>2, RankFacts
<1>4. /\ NodeDepth(t, n, u) \in Nat /\ Stage(t, at, n) \in 0..5
      /\ RankOf(t, at, n, u) = 10 * (1 + NodeDepth(t, n, u)) + Stage(t, at, n)
  BY <1>1, RankFacts
<1>5. RankOf(t2, at2, n2, u2) < RankOf(t, at, n, u)
  BY <1>3, <1>4
<1>6. QED
  BY <1>1, <1>2, <1>5, RankIs

\* The step from a case to another.
LEMMA CaseRank ==
  ASSUME DepthOK(tree), op.node \in Procs, op.parent \in Ptr, op'.node \in Procs, op'.parent \in Ptr,
         DepthOK(tree'), op.at \in Cases, op'.at \in Cases,
         10 * Depth(tree')[op'.node] + Stage(tree', op'.at, op'.node)
           < 10 * Depth(tree)[op.node] + Stage(tree, op.at, op.node)
  PROVE  Rank' < Rank
<1>1. PICK t, n, u, at : t = tree /\ n = op.node /\ u = op.parent /\ at = op.at
  OBVIOUS
<1>2. PICK t2, n2, u2, at2 : t2 = tree' /\ n2 = op'.node /\ u2 = op'.parent /\ at2 = op'.at
  OBVIOUS
<1>3. /\ n \in Ptr /\ n # Null /\ n2 \in Ptr /\ n2 # Null
      /\ 10 * Depth(t2)[n2] + Stage(t2, at2, n2) < 10 * Depth(t)[n] + Stage(t, at, n)
  BY <1>1, <1>2, NullAssumption DEF Ptr
<1>4. /\ NodeDepth(t, n, u) \in Nat /\ Stage(t, at, n) \in 0..5
      /\ RankOf(t, at, n, u) = 10 * (1 + NodeDepth(t, n, u)) + Stage(t, at, n)
  BY <1>1, <1>3, RankFacts
<1>5. /\ NodeDepth(t2, n2, u2) \in Nat /\ Stage(t2, at2, n2) \in 0..5
      /\ RankOf(t2, at2, n2, u2) = 10 * (1 + NodeDepth(t2, n2, u2)) + Stage(t2, at2, n2)
  BY <1>2, <1>3, RankFacts
<1>6. NodeDepth(t, n, u) = Depth(t)[n] /\ NodeDepth(t2, n2, u2) = Depth(t2)[n2]
  BY <1>3 DEF NodeDepth
<1>7. RankOf(t2, at2, n2, u2) < RankOf(t, at, n, u)
  BY <1>3, <1>4, <1>5, <1>6
<1>8. QED
  BY <1>1, <1>2, <1>7, RankIs

\* The stages of the cases.
LEMMA CaseStages ==
  ASSUME NEW t, NEW n, NEW at
  PROVE  /\ at = "case1" => Stage(t, at, n) = 5
         /\ at = "case2" => Stage(t, at, n) = 4
         /\ at = "case3" => Stage(t, at, n) = 3
         /\ at = "case4" => Stage(t, at, n) = 2
         /\ at = "case5" => Stage(t, at, n) = 1
BY DEF Stage

\* A case that goes on with the same node and the same tree.
LEMMA NextCaseRank ==
  ASSUME NEW s, NEW pos, NEW lo, NEW hi, NEW bh, TreeInv(s, pos, lo, hi, bh), op.at \in Cases,
         NEW at, NextCase(tree, at, op.node), NEW lo2, NEW hi2, NEW bh2,
         TreeInv(s, pos, lo2, hi2, bh2)',
         \/ at = "min"
         \/ op.at = "case1" /\ at = "case2"
         \/ op.at = "case2" /\ at = "case3"
         \/ op.at = "case3" /\ at = "case4"
         \/ op.at = "case4" /\ at = "case5"
  PROVE  Rank' < Rank
<1>1. /\ DepthOK(tree) /\ op.node \in Ptr /\ op.parent \in Ptr
      /\ DepthOK(tree') /\ op'.node \in Ptr /\ op'.parent \in Ptr
  BY StepDepths
<1>2. op.node \in Procs
  BY InsertFacts
<1>3. op \in [at : Cases \cup {"idle", "min", "rebalance", "finish"},
              proc : Ptr, node : Ptr, parent : Ptr]
  BY DEF TreeInv, OpTypes
<1>4. op'.at = at /\ op'.node = op.node /\ tree' = tree
  BY <1>3 DEF NextCase
<1>5. CASE at = "min"
  BY <1>1, <1>4, <1>5, EndRank
<1>6. CASE at # "min"
  <2>1. op'.at \in Cases
    BY <1>4, <1>6 DEF Cases
  <2>2. Depth(tree)[op.node] \in Nat
    BY <1>1, <1>2 DEF DepthOK
  <2>3. PICK k, k2 : k = Stage(tree, op.at, op.node) /\ k2 = Stage(tree', op'.at, op'.node)
    OBVIOUS
  <2>4. k2 = k - 1 /\ k \in 2..5
    <3>1. PICK a, b, t, n : a = op.at /\ b = op'.at /\ t = tree /\ n = op.node
      OBVIOUS
    <3>2. k = Stage(t, a, n) /\ k2 = Stage(t, b, n)
      BY <1>4, <2>3, <3>1
    <3>3. \/ a = "case1" /\ b = "case2"
          \/ a = "case2" /\ b = "case3"
          \/ a = "case3" /\ b = "case4"
          \/ a = "case4" /\ b = "case5"
      BY <1>4, <1>6, <3>1
    <3>4. QED
      BY <3>2, <3>3, CaseStages
  <2>5. 10 * Depth(tree')[op'.node] + k2 < 10 * Depth(tree)[op.node] + k
    BY <1>4, <2>2, <2>4
  <2>6. QED
    BY <1>1, <1>2, <1>4, <2>1, <2>3, <2>5, CaseRank
<1>7. QED
  BY <1>5, <1>6

\* Case 3 goes on two levels higher.
LEMMA Case3Rank ==
  ASSUME NEW s, NEW pos, NEW lo, NEW hi, NEW bh, TreeInv(s, pos, lo, hi, bh), insertionCase3,
         NEW lo2, NEW hi2, NEW bh2, TreeInv(s, pos, lo2, hi2, bh2)'
  PROVE  Rank' < Rank
<1>0. PICK t, n : t = tree /\ n = op.node
  OBVIOUS
<1> DEFINE up == t.pParent[n]
           g == t.pParent[up]
           uncle == getUncleProc(t, n)
           r == [t EXCEPT !.color[up] = BLACK, !.color[uncle] = BLACK,
                          !.color[getGrandparentProc(t, n)] = RED]
<1>1. /\ op.at = "case3" /\ op.at \in Cases
      /\ IF IsRed(t, uncle) THEN NextCase(r, "case1", getGrandparentProc(t, n))
         ELSE NextCase(t, "case4", n)
  BY <1>0 DEF insertionCase3, Cases
<1>2. /\ CaseOK(t, s, pos, lo, hi, bh, "case3", n, minvRuntime) /\ Shape(t, Len(s), pos, lo, hi)
      /\ RedRule(t, pos, Null, n) /\ RootBlack(t, "case3", n) /\ InsertOK(t, pos, "case3", n)
      /\ n \in Procs /\ pos[n] > 0 /\ t.color[n] = RED
  BY <1>0, <1>1, InsertFacts
<1>3. up # Null /\ t.color[up] = RED /\ IsBlack(t, t.root)
  BY <1>1, <1>2 DEF InsertOK, RootBlack
<1>4. Grand(t, Len(s), pos, lo, hi, n)
  BY SMTT(30), <1>2, <1>3, GrandFacts
<1>5. getGrandparentProc(t, n) = g /\ up \in Procs /\ g \in Procs
  BY <1>4 DEF Grand
<1>6. /\ DepthOK(t) /\ op.node \in Ptr /\ op.parent \in Ptr
      /\ DepthOK(tree') /\ op'.node \in Ptr /\ op'.parent \in Ptr
  BY <1>0, StepDepths
<1>7. CASE IsRed(t, uncle)
  <2>1. op \in [at : Cases \cup {"idle", "min", "rebalance", "finish"},
                proc : Ptr, node : Ptr, parent : Ptr]
    BY DEF TreeInv, OpTypes
  <2>2. tree' = r /\ op'.at = "case1" /\ op'.node = g /\ op'.at \in Cases
    BY <1>1, <1>5, <1>7, <2>1 DEF NextCase, Cases
  <2>3. r.pParent = t.pParent
    <3>1. t \in Trees
      BY <1>2 DEF Shape
    <3>2. QED
      BY <3>1 DEF Trees
  <2>4. PICK q : q = tree'
    OBVIOUS
  <2> HIDE DEF r
  <2>5. DepthOK(q) /\ q.pParent = t.pParent
    BY <1>6, <2>2, <2>3, <2>4
  <2>6. \A a \in Procs : Depth(q)[a] = Depth(t)[a]
    <3>1. \A a \in Procs : /\ q.pParent[a] = t.pParent[a]
                           /\ t.pParent[a] # Null => t.pParent[a] \in Procs
      BY <1>6, <2>5 DEF DepthOK, Ptr
    <3>2. QED
      BY <1>6, <2>5, <3>1, SameDepth
  <2>7. Depth(t)[n] = 1 + Depth(t)[up] /\ Depth(t)[up] = 1 + Depth(t)[g] /\ Depth(t)[g] \in Nat
    BY <1>2, <1>3, <1>5, <1>6, NullAssumption DEF DepthOK
  <2>8. Depth(tree')[op'.node] = Depth(t)[g] /\ Depth(tree)[op.node] = 2 + Depth(t)[g]
    BY <1>0, <1>5, <2>2, <2>4, <2>6, <2>7
  <2>9. PICK k, k2 : k = Stage(tree, op.at, op.node) /\ k2 = Stage(tree', op'.at, op'.node)
    OBVIOUS
  <2>10. k = 3 /\ k2 = 5
    BY <1>1, <2>2, <2>9, CaseStages
  <2>11. 10 * Depth(tree')[op'.node] + k2 < 10 * Depth(tree)[op.node] + k
    BY <2>7, <2>8, <2>10
  <2>12. QED
    BY <1>0, <1>1, <1>2, <1>5, <1>6, <2>2, <2>9, <2>11, CaseRank
<1>8. CASE ~IsRed(t, uncle)
  <2>1. NextCase(tree, "case4", op.node)
    BY <1>0, <1>1, <1>8
  <2>2. QED
    BY <1>1, <2>1, NextCaseRank
<1>9. QED
  BY <1>7, <1>8

\* The parent takes the depth of n when n is rotated up in its place.
LEMMA TurnUpRank ==
  ASSUME NEW s, NEW pos, NEW lo, NEW hi, NEW bh, TreeInv(s, pos, lo, hi, bh), op.at = "case4",
         NEW lo2, NEW hi2, NEW bh2, TreeInv(s, pos, lo2, hi2, bh2)',
         NEW r, NEW up \in Procs, NextCase(r, "case5", up), up = tree.pParent[op.node],
         op.node # up, NEW inner \in Ptr, inner # Null => tree.pParent[inner] = op.node,
         \A m \in Procs : r.pParent[m] = IF m = up THEN op.node
                                         ELSE IF m = op.node THEN tree.pParent[up]
                                         ELSE IF m = inner THEN up ELSE tree.pParent[m]
  PROVE  Rank' < Rank
<1>0. PICK t, n : t = tree /\ n = op.node
  OBVIOUS
<1>1. /\ DepthOK(t) /\ op.node \in Ptr /\ op.parent \in Ptr
      /\ DepthOK(tree') /\ op'.node \in Ptr /\ op'.parent \in Ptr
  BY <1>0, StepDepths
<1>2. op.at \in Cases
  BY DEF Cases
<1>3. n \in Procs
  BY <1>0, <1>2, InsertFacts
<1>4. op \in [at : Cases \cup {"idle", "min", "rebalance", "finish"},
              proc : Ptr, node : Ptr, parent : Ptr]
  BY DEF TreeInv, OpTypes
<1>5. tree' = r /\ op'.at = "case5" /\ op'.node = up /\ op'.at \in Cases
  BY <1>4 DEF NextCase, Cases
<1>6. Depth(r)[up] = Depth(t)[n]
  BY SMTT(30), <1>0, <1>1, <1>3, <1>5, TurnDepth
<1>7. Depth(t)[n] \in Nat
  BY <1>1, <1>3 DEF DepthOK
<1>8. PICK k, k2 : k = Stage(tree, op.at, op.node) /\ k2 = Stage(tree', op'.at, op'.node)
  OBVIOUS
<1>9. k = 2 /\ k2 = 1
  BY <1>5, <1>8, CaseStages
<1>10. 10 * Depth(tree')[op'.node] + k2 < 10 * Depth(tree)[op.node] + k
  BY <1>0, <1>5, <1>6, <1>7, <1>9
<1>11. QED
  BY <1>0, <1>1, <1>2, <1>3, <1>5, <1>8, <1>10, CaseRank

\* Case 4 goes on at the same depth.
LEMMA Case4Rank ==
  ASSUME NEW s, NEW pos, NEW lo, NEW hi, NEW bh, TreeInv(s, pos, lo, hi, bh), insertionCase4,
         NEW lo2, NEW hi2, NEW bh2, TreeInv(s, pos, lo2, hi2, bh2)'
  PROVE  Rank' < Rank
<1>0. PICK t, n : t = tree /\ n = op.node
  OBVIOUS
<1> DEFINE up == t.pParent[n]
           g == t.pParent[up]
<1>1. op.at = "case4" /\ op.at \in Cases
  BY DEF insertionCase4, Cases
<1>2. /\ CaseOK(t, s, pos, lo, hi, bh, "case4", n, minvRuntime) /\ Shape(t, Len(s), pos, lo, hi)
      /\ RedRule(t, pos, Null, n) /\ RootBlack(t, "case4", n) /\ InsertOK(t, pos, "case4", n)
      /\ n \in Procs /\ pos[n] > 0 /\ t.color[n] = RED /\ Layout(t, s, pos, lo, hi, Null)
  BY <1>0, <1>1, InsertFacts
<1>3. up # Null /\ t.color[up] = RED /\ IsBlack(t, t.root)
  BY <1>1, <1>2 DEF InsertOK, RootBlack
<1>4. Grand(t, Len(s), pos, lo, hi, n)
  BY SMTT(30), <1>2, <1>3, GrandFacts
<1>5. getGrandparentProc(t, n) = g /\ up \in Procs /\ pos[up] > 0 /\ n # up
  BY <1>4 DEF Grand, UpOK
<1>6. t \in Trees /\ n # Null /\ Recoloured(t, t) /\ t.left \in [Procs -> Ptr] /\ t.right \in [Procs -> Ptr]
  BY <1>2, NullAssumption, RecolouredSame DEF Shape, Trees
<1>7. CASE n = t.right[up] /\ up = t.left[g]
  <2> DEFINE r == rotateLeft(t, up)
             inner == t.left[n]
  <2>1. NextCase(r, "case5", up)
    BY <1>0, <1>5, <1>7 DEF insertionCase4
  <2>2. LeftRotated(t, r, up)
    BY <1>2, <1>5, <1>6, <1>7, LeftTurnLayout
  <2> HIDE DEF r
  <2>3. inner \in Ptr /\ (inner # Null => t.pParent[inner] = n)
    BY <1>2, <1>6, DownFacts
  <2>4. \A m \in Procs : r.pParent[m] = IF m = up THEN n ELSE IF m = n THEN t.pParent[up]
                                        ELSE IF m = inner THEN up ELSE t.pParent[m]
    BY <1>7, <2>2 DEF LeftRotated
  <2> HIDE DEF inner
  <2>5. PICK u : u = up
    OBVIOUS
  <2>6. QED
    BY <1>0, <1>1, <1>5, <2>1, <2>3, <2>4, <2>5, TurnUpRank
<1>8. CASE n = t.left[up] /\ up = t.right[g]
  <2> DEFINE r == rotateRight(t, up)
             inner == t.right[n]
  <2>0. ~(n = t.right[up] /\ up = t.left[g])
    BY <1>4, <1>8 DEF Grand, UpOK
  <2>1. NextCase(r, "case5", up)
    BY <1>0, <1>5, <1>8, <2>0 DEF insertionCase4
  <2>2. RightRotated(t, r, up)
    BY <1>2, <1>5, <1>6, <1>8, RightTurnLayout
  <2> HIDE DEF r
  <2>3. inner \in Ptr /\ (inner # Null => t.pParent[inner] = n)
    BY SMTT(30), <1>2, <1>6, DownFacts
  <2>4. \A m \in Procs : r.pParent[m] = IF m = up THEN n ELSE IF m = n THEN t.pParent[up]
                                        ELSE IF m = inner THEN up ELSE t.pParent[m]
    BY <1>8, <2>2 DEF RightRotated
  <2> HIDE DEF inner
  <2>5. QED
    BY SMTT(30), <1>0, <1>1, <1>5, <2>1, <2>3, <2>4, TurnUpRank
<1>9. CASE ~(n = t.right[up] /\ up = t.left[g]) /\ ~(n = t.left[up] /\ up = t.right[g])
  <2>1. NextCase(tree, "case5", op.node)
    BY <1>0, <1>5, <1>9 DEF insertionCase4
  <2>2. QED
    BY <1>1, <2>1, NextCaseRank
<1>10. QED
  BY <1>7, <1>8, <1>9

\* The red sibling goes up and the parent, now red, goes down by one.
LEMMA SiblingUpDepth ==
  ASSUME NEW t, NEW s, NEW pos, NEW lo, NEW hi, NEW bh, NEW n, NEW u, NEW p,
         Lacking(t, s, pos, lo, hi, bh, n, u, p), IsRed(t, t.right[u]),
         DepthOK(t), NEW r, DepthOK(r), r.pParent = SiblingUp(t, u).pParent
  PROVE  SiblingUp(t, u).color[u] = RED /\ Depth(r)[u] = 1 + Depth(t)[u]
<1> DEFINE w == t.right[u]
           q1 == SetColor(t, w, BLACK)
           q == SetColor(q1, u, RED)
           t1 == rotateLeft(q, u)
           inner == t.left[w]
<1>0. Layout(t, s, pos, lo, hi, p) /\ Shape(t, Len(s), pos, lo, hi)
  BY DEF Lacking, Layout
<1>1. LackOK(t, pos, lo, bh, n, u, w)
  BY LackFacts
<1>2. /\ u \in Procs /\ w \in Procs /\ u # w /\ t.pParent[w] = u /\ pos[u] > 0 /\ pos[w] > 0 /\ w # Null
      /\ inner \in Ptr /\ w = t.right[u]
  BY <1>1 DEF LackOK
<1>3. t \in Trees
  BY <1>0 DEF Shape
<1>4. SiblingUp(t, u) = t1
  BY DEF SiblingUp
<1>5. inner # Null => t.pParent[inner] = w
  BY <1>0, <1>2, DownFacts
<1> HIDE DEF w
<1>6. Recoloured(t, q1)
  BY <1>2, <1>3, PaintFacts
<1>7. q1 \in Trees
  BY <1>6 DEF Recoloured
<1> HIDE DEF q1
<1>8. Recoloured(q1, q) /\ \A m \in Procs : q.color[m] = IF m = u THEN RED ELSE q1.color[m]
  BY <1>2, <1>7, PaintFacts
<1> HIDE DEF q
<1>9. Recoloured(t, q) /\ q.color[u] = RED
  BY <1>2, <1>6, <1>8 DEF Recoloured
<1>10. LeftRotated(t, t1, u) /\ t1.color = q.color
  BY <1>0, <1>2, <1>9, LeftTurnLayout
<1> HIDE DEF t1
<1>11. \A m \in Procs : r.pParent[m] = IF m = u THEN w ELSE IF m = w THEN t.pParent[u]
                                       ELSE IF m = inner THEN u ELSE t.pParent[m]
  BY <1>2, <1>4, <1>10 DEF LeftRotated
<1> HIDE DEF inner
<1>12. Depth(r)[u] = Depth(t)[w] /\ Depth(t)[w] = 1 + Depth(t)[u]
  BY SMTT(30), <1>2, <1>5, <1>11, TurnDepth
<1>13. QED
  BY <1>4, <1>9, <1>10, <1>12

\* The rank within the loop.
LEMMA LoopRank ==
  ASSUME NEW t, NEW s, NEW pos, NEW lo, NEW hi, NEW bh, NEW n, NEW u, NEW p,
         Lacking(t, s, pos, lo, hi, bh, n, u, p), DepthOK(t)
  PROVE  /\ Depth(t)[u] \in Nat
         /\ RankOf(t, "rebalance", n, u) = 10 * (2 + Depth(t)[u]) + 1
<1>1. /\ Shape(t, Len(s), pos, lo, hi) /\ u \in Procs /\ pos[u] > 0 /\ t.left[u] = n /\ IsBlack(t, n)
  BY DEF Lacking, Layout
<1>2. Depth(t)[u] \in Nat /\ u # Null /\ u \in Ptr /\ n \in Ptr
  BY <1>1, NullAssumption DEF DepthOK, Ptr, Shape, Trees
<1>3. NodeDepth(t, n, u) = 1 + Depth(t)[u]
  <2>1. CASE n = Null
    BY <1>2, <2>1 DEF NodeDepth
  <2>2. CASE n # Null
    <3>1. n \in Procs /\ t.pParent[n] = u
      BY <1>1, <2>2, DownFacts
    <3>2. Depth(t)[n] = 1 + Depth(t)[u]
      BY <1>2, <3>1 DEF DepthOK
    <3>3. QED
      BY <2>2, <3>2 DEF NodeDepth
  <2>3. QED
    BY <2>1, <2>2
<1>4. Stage(t, "rebalance", n) = 1
  BY <1>1, <1>2, RankFacts
<1>5. RankOf(t, "rebalance", n, u) = 10 * (1 + NodeDepth(t, n, u)) + Stage(t, "rebalance", n)
  BY DEF RankOf
<1>6. QED
  BY <1>2, <1>3, <1>4, <1>5

\* An iteration goes up, or ends at the root, or finds a red node.
LEMMA RebalanceRank ==
  ASSUME NEW s, NEW pos, NEW lo, NEW hi, NEW bh, TreeInv(s, pos, lo, hi, bh), rebalance,
         NEW lo2, NEW hi2, NEW bh2, TreeInv(s, pos, lo2, hi2, bh2)'
  PROVE  Rank' < Rank
<1>0. PICK t, n, u, p, t9, n9, u9 :
        /\ t = tree /\ n = op.node /\ u = op.parent /\ p = op.proc
        /\ t9 = tree' /\ n9 = op'.node /\ u9 = op'.parent
  OBVIOUS
<1> DEFINE t1 == SiblingUp(t, u)
           w == t1.right[u]
           t4 == ParentDown(NephewUp(t1, u), u)
           Black == IsBlack(t1, t1.left[w]) /\ IsBlack(t1, t1.right[w])
<1>1. /\ op.at = "rebalance" /\ n # t.root /\ IsBlack(t, n)
      /\ IF Black
         THEN t9 = SetColor(t1, w, RED) /\ op' = [op EXCEPT !.node = u, !.parent = t1.pParent[u]]
         ELSE t9 = t4 /\ op' = [op EXCEPT !.node = t4.root]
  BY <1>0, RebalanceCases
<1>2. Lacking(t, s, pos, lo, hi, bh, n, u, p)
  <2>1. LoopOK(t, s, pos, lo, hi, bh, n, u, p)
    BY <1>0, <1>1, LoopInv
  <2>2. QED
    BY <1>1, <2>1, LoopFacts
<1>3. /\ DepthOK(t) /\ n \in Ptr /\ u \in Ptr /\ DepthOK(t9) /\ n9 \in Ptr /\ u9 \in Ptr
  BY <1>0, StepDepths
<1>4. op \in [at : Cases \cup {"idle", "min", "rebalance", "finish"},
              proc : Ptr, node : Ptr, parent : Ptr]
  BY DEF TreeInv, OpTypes
<1>5. op'.at = "rebalance" /\ n9 = IF Black THEN u ELSE t4.root
  BY <1>0, <1>1, <1>4
<1>6. Depth(t)[u] \in Nat /\ RankOf(t, "rebalance", n, u) = 10 * (2 + Depth(t)[u]) + 1
  BY <1>2, <1>3, LoopRank
<1>7. /\ RankOf(t9, "rebalance", n9, u9) = 10 * (1 + NodeDepth(t9, n9, u9)) + Stage(t9, "rebalance", n9)
      /\ NodeDepth(t9, n9, u9) \in Nat
      /\ Stage(t9, "rebalance", n9) = IF IsBlack(t9, n9) THEN 1 ELSE 0
  BY SMTT(30), <1>3, RankFacts
<1>8. Rank = RankOf(t, "rebalance", n, u) /\ Rank' = RankOf(t9, "rebalance", n9, u9)
  BY <1>0, <1>1, <1>5, RankIs
<1>9. Layout(t, s, pos, lo, hi, p) /\ Shape(t9, Len(s), pos, lo2, hi2) /\ u \in Procs /\ u # Null /\ pos[u] > 0
  BY SMTT(30), <1>0, <1>2, NullAssumption DEF Lacking, TreeInv, Layout
<1>10. CASE Black
  <2>1. PICK lo1, hi1, bh1 : Lacking(t1, s, pos, lo1, hi1, bh1, n, u, p)
    BY <1>2, SiblingUpOK
  <2>2. LackOK(t1, pos, lo1, bh1, n, u, w)
    BY <2>1, LackFacts
  <2>3. t1 \in Trees /\ w \in Procs /\ u # w
    BY <2>1, <2>2 DEF Lacking, Layout, Shape, LackOK
  <2>4. t9 = SetColor(t1, w, RED) /\ n9 = u
    BY <1>1, <1>5, <1>10
  <2> HIDE DEF w
  <2>5. t9.pParent = t1.pParent /\ t9.color[u] = t1.color[u]
    <3>1. t9.pParent = t1.pParent
      BY <2>3, <2>4, SetColorFields
    <3>2. \A m \in Procs : t9.color[m] = IF m = w THEN RED ELSE t1.color[m]
      BY <2>3, <2>4, PaintFacts
    <3>3. QED
      BY <1>9, <2>3, <3>1, <3>2
  <2>6. NodeDepth(t9, n9, u9) = Depth(t9)[u]
    BY <1>9, <2>4 DEF NodeDepth
  <2>7. CASE IsRed(t, t.right[u])
    <3>1. t1.color[u] = RED /\ Depth(t9)[u] = 1 + Depth(t)[u]
      BY <1>2, <1>3, <2>5, <2>7, SiblingUpDepth
    <3>2. ~IsBlack(t9, n9)
      BY <1>9, <2>4, <2>5, <3>1 DEF IsBlack, RED, BLACK
    <3> HIDE DEF t1
    <3>3. QED
      BY <1>6, <1>7, <1>8, <2>6, <3>1, <3>2
  <2>8. CASE ~IsRed(t, t.right[u])
    <3>1. t1 = t
      BY <2>8 DEF SiblingUp
    <3>2. \A a \in Procs : /\ t9.pParent[a] = t.pParent[a]
                           /\ t.pParent[a] # Null => t.pParent[a] \in Procs
      BY <1>3, <2>5, <3>1 DEF DepthOK, Ptr
    <3> HIDE DEF t1
    <3>3. Depth(t9)[u] = Depth(t)[u]
      BY <1>3, <1>9, <3>2, SameDepth
    <3>4. QED
      BY <1>6, <1>7, <1>8, <2>6, <3>3
  <2>9. QED
    BY <2>7, <2>8
<1>11. CASE ~Black
  <2>1. n9 = t9.root
    BY <1>1, <1>5, <1>11
  <2> HIDE DEF t1, t4, Black
  <2>2. t9.root \in Procs /\ t9.pParent[t9.root] = Null /\ t9.root # Null
    <3>1. /\ t9.root \in Ptr /\ pos \in [Procs -> 0..Len(s)] /\ Len(s) \in Nat
          /\ RootOK(t9, Len(s), pos, lo2, hi2)
      BY <1>9 DEF Shape, Trees
    <3>2. Len(s) # 0
      BY <1>9, <3>1
    <3>3. QED
      BY <3>1, <3>2 DEF RootOK, Ptr
  <2>3. NodeDepth(t9, n9, u9) = 0
    BY <1>3, <2>1, <2>2 DEF NodeDepth, DepthOK
  <2>4. QED
    BY <1>6, <1>7, <1>8, <2>3
<1>12. QED
  BY <1>10, <1>11

\* A step of an operation that does not end it lowers its rank.
LEMMA ContinueRank ==
  ASSUME RBInv, Continue, op' # Idle
  PROVE  Rank' < Rank
<1>1. PICK s, pos, lo, hi, bh : TreeInv(s, pos, lo, hi, bh)
  BY DEF RBInv
<1>2. PICK lo2, hi2, bh2 : TreeInv(s, pos, lo2, hi2, bh2)'
  BY <1>1, ContinueInv
<1>3. /\ DepthOK(tree) /\ op.node \in Ptr /\ op.parent \in Ptr
      /\ DepthOK(tree') /\ op'.node \in Ptr /\ op'.parent \in Ptr
  BY <1>1, <1>2, StepDepths
<1>4. op \in [at : Cases \cup {"idle", "min", "rebalance", "finish"},
              proc : Ptr, node : Ptr, parent : Ptr]
  BY <1>1 DEF TreeInv, OpTypes
<1>5. CASE insertionCase1
  <2>1. op.at = "case1" /\ op.at \in Cases
    BY <1>5 DEF insertionCase1, Cases
  <2>2. CASE tree.pParent[op.node] = Null
    <3>1. op'.at = "min"
      BY <1>4, <1>5, <2>2 DEF insertionCase1, NextCase
    <3>2. QED
      BY <1>3, <2>1, <3>1, EndRank
  <2>3. CASE tree.pParent[op.node] # Null
    <3>1. NextCase(tree, "case2", op.node)
      BY <1>5, <2>3 DEF insertionCase1
    <3>2. QED
      BY <1>1, <1>2, <2>1, <3>1, NextCaseRank
  <2>4. QED
    BY <2>2, <2>3
<1>6. CASE insertionCase2
  <2>1. op.at = "case2" /\ op.at \in Cases
    BY <1>6 DEF insertionCase2, Cases
  <2>2. NextCase(tree, "case3", op.node) \/ NextCase(tree, "min", op.node)
    BY <1>6 DEF insertionCase2
  <2>3. QED
    BY <1>1, <1>2, <2>1, <2>2, NextCaseRank
<1>7. CASE insertionCase3
  BY <1>1, <1>2, <1>7, Case3Rank
<1>8. CASE insertionCase4
  BY <1>1, <1>2, <1>8, Case4Rank
<1>9. CASE insertionCase5
  <2>1. op.at = "case5" /\ op.at \in Cases
    BY <1>9 DEF insertionCase5, Cases
  <2>2. PICK t, n : NextCase(t, "min", n)
    BY <1>9, Zenon DEF insertionCase5
  <2>3. op'.at = "min"
    BY <1>4, <2>2 DEF NextCase
  <2>4. QED
    BY <1>3, <2>1, <2>3, EndRank
<1>10. CASE insertDone \/ retrieveDone
  BY <1>10 DEF insertDone, retrieveDone
<1>11. CASE rebalance
  BY <1>1, <1>2, <1>11, RebalanceRank
<1>12. CASE rebalanced
  <2>1. op.at = "rebalance" /\ op'.at = "finish"
    BY <1>4, <1>12 DEF rebalanced
  <2>2. QED
    BY <1>3, <2>1, EndRank
<1>13. QED
  BY <1>5, <1>6, <1>7, <1>8, <1>9, <1>10, <1>11, <1>12 DEF Continue

\* RebalancingEnds: the cases of an insertion and the loop of a retrieval come nearer to
\* their end with every step, so that tree->lock is not held for ever.
THEOREM RebalancingTerminates == Spec => RebalancingEnds
<1>1. RBInv /\ [Next]_vars => [op # Idle /\ op' # Idle => Rank' < Rank]_vars
  <2> SUFFICES ASSUME RBInv, Next, op # Idle, op' # Idle
               PROVE  Rank' < Rank
    OBVIOUS
  <2>1. Continue
    BY DEF Next, insertProcess, retrieveProcess
  <2>2. QED
    BY <2>1, ContinueRank
<1>2. QED
  BY <1>1, RBInvariant, PTL DEF Spec, RebalancingEnds

\* In the loop of retrievingCases the node is the root, or red, or a left child: the
\* body, which does nothing for a right child, never spins.
LoopNodeOK ==
  op.at = "rebalance" =>
    \/ op.node = tree.root
    \/ IsRed(tree, op.node)
    \/ op.parent # Null /\ op.node = tree.left[op.parent]

\* LoopNodeOK holds at every step.
THEOREM LoopNeverSpins == Spec => []LoopNodeOK
<1>1. RBInv => LoopNodeOK
  <2> SUFFICES ASSUME NEW s, NEW pos, NEW lo, NEW hi, NEW bh, TreeInv(s, pos, lo, hi, bh),
                      op.at = "rebalance"
               PROVE  op.node = tree.root \/ (op.parent # Null /\ op.node = tree.left[op.parent])
    BY DEF RBInv, LoopNodeOK
  <2>1. QED
    BY DEF TreeInv, RebalanceOK
<1>2. QED
  BY <1>1, RBInvariant, PTL
=============================================================================
