--------------------------- MODULE RunQueueProofs ---------------------------
(***************************************************************************)
(* Proofs about the ready set, for every table size, latency, granularity  *)
(* and virtual runtime.                                                    *)
(***************************************************************************)
EXTENDS RunQueue, TLAPS, WellFoundedInduction, SequenceTheorems

\* Every non-empty set of naturals has a least element.
LEMMA LeastNat ==
  ASSUME NEW T \in SUBSET Nat, T # {}
  PROVE  \E x \in T : \A y \in T : x <= y
<1> DEFINE R == OpToRel(<, Nat)
<1>1. \A x, y \in Nat : <<y, x>> \in R <=> y < x
  BY DEF OpToRel
<1>2. IsWellFoundedOn(R, Nat)
  BY NatLessThanWellFounded
<1> HIDE DEF R
<1>3. PICK x \in T : \A y \in T : ~ (<<y, x>> \in R)
  BY <1>2, WFMin
<1>4. ASSUME NEW y \in T
      PROVE  x <= y
  <2>1. ~ (y < x)
    BY <1>1, <1>3
  <2>2. QED
    BY <2>1
<1>5. QED
  BY <1>4

\* In an ordered queue insertProc has a place for every key: all keys up to it
\* are no larger and all keys after it are larger.
LEMMA InsertionPointExists ==
  ASSUME NEW q \in Seq(Procs), NEW vr \in [Procs -> Nat], NEW v \in Nat,
         \A i, j \in DOMAIN q : i <= j => vr[q[i]] <= vr[q[j]]
  PROVE  LET k == InsertionPoint(q, vr, v)
         IN  /\ k \in 0..Len(q)
             /\ \A i \in 1..k : vr[q[i]] <= v
             /\ \A i \in (k+1)..Len(q) : v < vr[q[i]]
<1> DEFINE Larger == {i \in 1..Len(q) : v < vr[q[i]]}
<1>0. Len(q) \in Nat /\ DOMAIN q = 1..Len(q) /\ \A i \in 1..Len(q) : vr[q[i]] \in Nat
  OBVIOUS
<1>1. \E k \in 0..Len(q) : /\ \A i \in 1..k : vr[q[i]] <= v
                           /\ \A i \in (k+1)..Len(q) : v < vr[q[i]]
  <2>1. CASE Larger = {}
    <3>1. \A i \in 1..Len(q) : vr[q[i]] <= v
      BY <1>0, <2>1
    <3>2. QED
      BY <1>0, <3>1
  <2>2. CASE Larger # {}
    <3>0. Larger \in SUBSET Nat
      BY <1>0
    <3> HIDE DEF Larger
    <3>1. PICK m \in Larger : \A y \in Larger : m <= y
      BY <3>0, <2>2, LeastNat
    <3> USE DEF Larger
    <3>2. m - 1 \in 0..Len(q)
      BY <1>0, <3>1
    <3>3. \A i \in 1..(m - 1) : vr[q[i]] <= v
      BY <1>0, <3>1
    <3>4. \A i \in ((m - 1) + 1)..Len(q) : v < vr[q[i]]
      BY <1>0, <3>1
    <3>5. QED
      BY <3>2, <3>3, <3>4
  <2>3. QED
    BY <2>1, <2>2
<1>2. QED
  BY <1>1 DEF InsertionPoint

\* What insertProcess does to an ordered queue without duplicates: it stays
\* one, grows by one, and gains exactly the process inserted.
LEMMA InsertedProperties ==
  ASSUME NEW q \in Seq(Procs), NEW vr \in [Procs -> Nat], NEW v \in Nat,
         NEW p \in Procs, p \notin Queued(q),
         \A i, j \in DOMAIN q : q[i] = q[j] => i = j,
         \A i, j \in DOMAIN q : i <= j => vr[q[i]] <= vr[q[j]]
  PROVE  LET r == Inserted(q, vr, p, v)
             ur == [vr EXCEPT ![p] = v]
         IN  /\ r \in Seq(Procs)
             /\ Len(r) = Len(q) + 1
             /\ Queued(r) = Queued(q) \cup {p}
             /\ \A i, j \in DOMAIN r : r[i] = r[j] => i = j
             /\ \A i, j \in DOMAIN r : i <= j => ur[r[i]] <= ur[r[j]]
<1> DEFINE k == InsertionPoint(q, vr, v)
           r == Inserted(q, vr, p, v)
           ur == [vr EXCEPT ![p] = v]
<1>1. /\ k \in 0..Len(q)
      /\ \A i \in 1..k : vr[q[i]] <= v
      /\ \A i \in (k+1)..Len(q) : v < vr[q[i]]
  BY InsertionPointExists
<1>2. r = [i \in 1..(Len(q) + 1) |-> IF i <= k THEN q[i]
                                     ELSE IF i = k + 1 THEN p ELSE q[i - 1]]
  BY DEF Inserted
<1> HIDE DEF k, r
<1>3. Len(q) \in Nat /\ DOMAIN q = 1..Len(q) /\ \A i \in 1..Len(q) : q[i] \in Procs
  OBVIOUS
<1>4. r \in [1..(Len(q) + 1) -> Procs]
  BY <1>1, <1>2, <1>3
<1>5. r \in Seq(Procs) /\ Len(r) = Len(q) + 1 /\ DOMAIN r = 1..(Len(q) + 1)
  BY <1>3, <1>4
<1>6. \A i \in 1..Len(q) : q[i] # p
  BY <1>3 DEF Queued
<1>7. Queued(r) = Queued(q) \cup {p}
  <2>1. Queued(r) \subseteq Queued(q) \cup {p}
    BY <1>1, <1>2, <1>3, <1>5 DEF Queued
  <2>2. p \in Queued(r)
    <3>1. k + 1 \in DOMAIN r /\ r[k + 1] = p
      BY <1>1, <1>2, <1>3, <1>5
    <3>2. QED
      BY <3>1 DEF Queued
  <2>3. ASSUME NEW i \in 1..Len(q)
        PROVE  q[i] \in Queued(r)
    <3>1. CASE i <= k
      <4>1. i \in DOMAIN r /\ r[i] = q[i]
        BY <3>1, <1>1, <1>2, <1>3, <1>5
      <4>2. QED
        BY <4>1 DEF Queued
    <3>2. CASE i > k
      <4>1. i + 1 \in DOMAIN r /\ r[i + 1] = q[i]
        BY <3>2, <1>1, <1>2, <1>3, <1>5
      <4>2. QED
        BY <4>1 DEF Queued
    <3>3. QED
      BY <1>1, <1>3, <3>1, <3>2
  <2>4. QED
    BY <2>1, <2>2, <2>3, <1>3 DEF Queued
<1>8. \A i, j \in DOMAIN r : r[i] = r[j] => i = j
  <2> DEFINE src(i) == IF i <= k THEN i ELSE i - 1
  <2>1. \A i \in DOMAIN r : i # k + 1 => src(i) \in 1..Len(q) /\ r[i] = q[src(i)]
    BY <1>1, <1>2, <1>3, <1>5
  <2>2. r[k + 1] = p /\ k \in Nat
    BY <1>1, <1>2, <1>3
  <2>3. \A i, j \in Int : i # k + 1 /\ j # k + 1 /\ src(i) = src(j) => i = j
    BY <2>2
  <2>6. \A i \in DOMAIN r : i \in Int
    BY <1>3, <1>5
  <2>4. \A i, j \in 1..Len(q) : q[i] = q[j] => i = j
    BY <1>3
  <2> HIDE DEF src
  <2>5. QED
    BY <2>1, <2>2, <2>3, <2>4, <2>6, <1>6
<1>9. \A i \in 1..Len(q) : ur[q[i]] = vr[q[i]] /\ vr[q[i]] \in Nat
  BY <1>3, <1>6
<1>10. ur[p] = v
  OBVIOUS
<1>11. \A i, j \in DOMAIN r : i <= j => ur[r[i]] <= ur[r[j]]
  <2> HIDE DEF ur
  <2> SUFFICES ASSUME NEW i \in DOMAIN r, NEW j \in DOMAIN r, i <= j
               PROVE  ur[r[i]] <= ur[r[j]]
    OBVIOUS
  <2>0. i \in 1..(Len(q) + 1) /\ j \in 1..(Len(q) + 1)
    BY <1>5
  <2>1. CASE j <= k
    BY <2>0, <2>1, <1>1, <1>2, <1>3, <1>9
  <2>2. CASE j = k + 1
    BY <2>0, <2>2, <1>1, <1>2, <1>3, <1>9, <1>10
  <2>3. CASE j > k + 1
    <3>0. r[j] = q[j - 1] /\ j - 1 \in (k+1)..Len(q)
      BY <2>0, <2>3, <1>1, <1>2, <1>3
    <3>1. CASE i <= k
      BY <3>0, <3>1, <2>0, <1>1, <1>2, <1>3, <1>9
    <3>2. CASE i = k + 1
      BY <3>0, <3>2, <2>0, <1>1, <1>2, <1>3, <1>9, <1>10
    <3>3. CASE i > k + 1
      <4>1. r[i] = q[i - 1] /\ i - 1 \in 1..Len(q) /\ i - 1 <= j - 1
        BY <3>3, <2>0, <1>1, <1>2, <1>3
      <4>2. j - 1 \in 1..Len(q)
        BY <3>0, <1>1, <1>3
      <4>3. QED
        BY <3>0, <4>1, <4>2, <1>3, <1>9
    <3>4. QED
      BY <3>1, <3>2, <3>3, <2>0, <1>1, <1>3
  <2>4. QED
    BY <2>0, <2>1, <2>2, <2>3, <1>1, <1>3
<1>12. QED
  BY <1>5, <1>7, <1>8, <1>11 DEF r

\* What retrieveProcess does to an ordered queue without duplicates: it stays
\* one, shrinks by one, and loses exactly its head.
LEMMA TailProperties ==
  ASSUME NEW q \in Seq(Procs), q # << >>, NEW vr \in [Procs -> Nat],
         \A i, j \in DOMAIN q : q[i] = q[j] => i = j,
         \A i, j \in DOMAIN q : i <= j => vr[q[i]] <= vr[q[j]]
  PROVE  /\ Head(q) \in Queued(q)
         /\ Tail(q) \in Seq(Procs)
         /\ Len(Tail(q)) = Len(q) - 1
         /\ Queued(Tail(q)) = Queued(q) \ {Head(q)}
         /\ \A i, j \in DOMAIN Tail(q) : Tail(q)[i] = Tail(q)[j] => i = j
         /\ \A i, j \in DOMAIN Tail(q) :
              i <= j => vr[Tail(q)[i]] <= vr[Tail(q)[j]]
<1> DEFINE n == Len(q)
           t == Tail(q)
<1>1. /\ n \in Nat \ {0} /\ DOMAIN q = 1..n
      /\ t \in Seq(Procs) /\ Len(t) = n - 1 /\ DOMAIN t = 1..(n - 1)
      /\ \A i \in 1..(n - 1) : t[i] = q[i + 1]
      /\ Head(q) = q[1]
  OBVIOUS
<1> HIDE DEF n, t
<1>2. ASSUME NEW i \in DOMAIN t
      PROVE  i \in Nat /\ i + 1 \in DOMAIN q /\ i + 1 # 1 /\ t[i] = q[i + 1]
  BY <1>1
<1>3. 1 \in DOMAIN q
  BY <1>1
<1>4. Queued(t) = Queued(q) \ {Head(q)}
  <2>1. ASSUME NEW x \in Queued(t)
        PROVE  x \in Queued(q) /\ x # Head(q)
    <3>1. PICK i \in DOMAIN t : x = t[i]
      BY DEF Queued
    <3>2. QED
      BY <1>1, <1>2, <1>3, <3>1 DEF Queued
  <2>2. ASSUME NEW x \in Queued(q), x # Head(q)
        PROVE  x \in Queued(t)
    <3>1. PICK i \in DOMAIN q : x = q[i]
      BY DEF Queued
    <3>2. i - 1 \in DOMAIN t /\ t[i - 1] = x
      BY <1>1, <2>2, <3>1
    <3>3. QED
      BY <3>2 DEF Queued
  <2>3. QED
    BY <2>1, <2>2
<1>5. \A i, j \in DOMAIN t : t[i] = t[j] => i = j
  <2> SUFFICES ASSUME NEW i \in DOMAIN t, NEW j \in DOMAIN t, t[i] = t[j]
               PROVE  i = j
    OBVIOUS
  <2>1. i + 1 = j + 1 /\ i \in Nat /\ j \in Nat
    BY <1>2
  <2>2. QED
    BY <2>1
<1>6. \A i, j \in DOMAIN t : i <= j => vr[t[i]] <= vr[t[j]]
  <2> SUFFICES ASSUME NEW i \in DOMAIN t, NEW j \in DOMAIN t, i <= j
               PROVE  vr[t[i]] <= vr[t[j]]
    OBVIOUS
  <2>1. i + 1 <= j + 1
    BY <1>2
  <2>2. QED
    BY <1>2, <2>1
<1>7. QED
  BY <1>1, <1>3, <1>4, <1>5, <1>6 DEF n, t, Queued

-----------------------------------------------------------------------------
(* The arithmetic of retrieveProcess.                                      *)

\* What calculateWight(0) returns: (int)(1024 / 1.25).
LEMMA WeightIs819 == Weight = 819
BY DEF Weight

\* Integer division truncates: the quotient is the largest fitting multiple.
LEMMA QuotientBounds ==
  ASSUME NEW a \in Nat, NEW b \in Nat \ {0}
  PROVE  /\ a \div b \in Nat
         /\ b * (a \div b) <= a
         /\ a < b * ((a \div b) + 1)
OBVIOUS

\* LatencyProcs granules make up the latency exactly.
LEMMA LatencyIsMultiple ==
  LatencyProcs \in Nat /\ LatencyProcs * MinGranularity = Latency
<1>1. Latency = MinGranularity * (Latency \div MinGranularity) + (Latency % MinGranularity)
  BY GranularityAssumption
<1>2. Latency \div MinGranularity \in Nat
  BY GranularityAssumption, QuotientBounds
<1>3. QED
  BY <1>1, <1>2, GranularityAssumption DEF LatencyProcs

\* With n equal weights in the tree the slice is the n-th part of the period.
LEMMA SliceOfPeriod ==
  ASSUME NEW n \in Nat \ {0}, NEW per \in Nat
  PROVE  LET s == TimeSlice(per, n * Weight)
         IN  s \in Nat /\ n * s <= per /\ per < n * (s + 1)
<1> DEFINE s == TimeSlice(per, n * Weight)
           a == per * 819
           b == n * 819
<1>1. s = a \div b
  BY WeightIs819 DEF TimeSlice
<1>2. a \in Nat /\ b \in Nat \ {0}
  OBVIOUS
<1> HIDE DEF s, a, b
<1>3. s \in Nat /\ b * s <= a /\ a < b * (s + 1)
  BY <1>1, <1>2, QuotientBounds
<1> USE DEF a, b
<1>4. /\ (n * 819) * s = 819 * (n * s)
      /\ (n * 819) * (s + 1) = 819 * (n * (s + 1))
      /\ n * s \in Nat
      /\ n * (s + 1) \in Nat
  BY <1>3
<1>5. QED
  BY <1>3, <1>4 DEF s

\* A slice taken from a period that follows the load is between one granule
\* and one granule more than the latency.
LEMMA SliceInRange ==
  ASSUME NEW n \in Nat \ {0}, NEW per \in Nat,
         Latency <= per,
         per <= Latency + MinGranularity \/ per <= (n + 1) * MinGranularity
  PROVE  LET np == PeriodFor(n, per)
         IN  /\ np \in Nat
             /\ Latency <= np
             /\ np <= Latency + MinGranularity \/ np = n * MinGranularity
             /\ TimeSlice(np, n * Weight) \in MinGranularity..(Latency + MinGranularity)
<1> DEFINE np == PeriodFor(n, per)
           s == TimeSlice(np, n * Weight)
           G == MinGranularity
           K == LatencyProcs
<1>1. G \in Nat \ {0} /\ Latency \in Nat /\ K \in Nat /\ Latency = K * G
  BY GranularityAssumption, LatencyIsMultiple
<1>2. np = IF n > K THEN n * G ELSE per
  BY DEF PeriodFor
<1>3. ASSUME NEW i \in Nat, NEW j \in Nat, i <= j
      PROVE  i * G <= j * G
  BY <1>1, <1>3
<1>4. n * G \in Nat /\ (n + 1) * G = n * G + G /\ (K + 1) * G = Latency + G
  BY <1>1
<1> HIDE DEF np, s, G, K
<1>5. np \in Nat /\ Latency <= np /\ (np <= Latency + G \/ np = n * G)
  <2>1. CASE n > K
    BY <1>1, <1>2, <1>3, <1>4, <2>1
  <2>2. CASE n <= K
    <3>1. (n + 1) * G <= (K + 1) * G
      BY <1>1, <1>3, <2>2
    <3>2. np = per
      BY <1>1, <1>2, <2>2
    <3>3. QED
      BY <1>1, <1>4, <3>1, <3>2 DEF G
  <2>3. QED
    BY <1>1, <2>1, <2>2
<1>6. n * G <= np
  <2>1. CASE n > K
    BY <1>1, <1>2, <1>4, <2>1
  <2>2. CASE n <= K
    BY <1>1, <1>3, <1>5, <2>2
  <2>3. QED
    BY <1>1, <2>1, <2>2
<1>7. s \in Nat /\ n * s <= np /\ np < n * (s + 1)
  BY <1>5, SliceOfPeriod DEF s
<1>8. G <= s
  <2>1. SUFFICES ASSUME s + 1 <= G PROVE FALSE
    BY <1>1, <1>7
  <2>2. n * (s + 1) <= n * G
    BY <1>1, <1>7, <2>1
  <2>3. QED
    BY <1>1, <1>4, <1>5, <1>6, <1>7, <2>2
<1>9. s <= Latency + G
  <2>1. CASE np = n * G
    <3>1. SUFFICES ASSUME G + 1 <= s PROVE FALSE
      BY <1>1, <1>7
    <3>2. n * (G + 1) <= n * s /\ n * (G + 1) = n * G + n
      BY <1>1, <1>7, <3>1
    <3>3. QED
      BY <1>1, <1>4, <1>7, <2>1, <3>2
  <2>2. CASE np <= Latency + G
    <3>1. s <= n * s
      BY <1>7
    <3>2. n * s \in Nat
      BY <1>7
    <3>3. QED
      BY <1>1, <1>5, <1>7, <2>2, <3>1, <3>2
  <2>3. QED
    BY <1>5, <2>1, <2>2
<1>10. QED
  BY <1>1, <1>5, <1>7, <1>8, <1>9 DEF np, s, G

-----------------------------------------------------------------------------
(* The inductive invariant of the ready set.                               *)

RQInv ==
  /\ RQTypeOK
  /\ NoDuplicates
  /\ QueueOrdered
  /\ WeightIsSum
  /\ PeriodFollowsLoad
  /\ SliceBounded

\* Linking in a process that is not queued keeps the invariant: the sequence
\* grows by one, in order, and the weight by one Weight.
LEMMA InsertPreservesRQInv ==
  ASSUME RQInv, NEW p \in Procs \ Queued(queue), NEW v \in Nat, insertProcess(p, v)
  PROVE  RQInv'
<1> USE DEF RQInv, RQTypeOK
<1>1. virtualRuntime' \in [Procs -> Nat] /\ UNCHANGED <<period, maxExecutionTime>>
  BY DEF insertProcess
<1>2. \A i \in DOMAIN queue : queue[i] # p /\ virtualRuntime'[queue[i]] = virtualRuntime[queue[i]]
  BY DEF insertProcess, Queued
<1>3. CASE Len(queue) = NPROC
  <2>1. UNCHANGED <<queue, treeWeight>>
    BY <1>3 DEF insertProcess
  <2>2. QED
    BY <1>1, <1>2, <2>1 DEF NoDuplicates, QueueOrdered, WeightIsSum, PeriodFollowsLoad, SliceBounded
<1>4. CASE Len(queue) # NPROC
  <2>1. /\ queue' = Inserted(queue, virtualRuntime, p, v)
        /\ treeWeight' = treeWeight + Weight
        /\ virtualRuntime' = [virtualRuntime EXCEPT ![p] = v]
    BY <1>4 DEF insertProcess
  <2>2. /\ queue' \in Seq(Procs)
        /\ Len(queue') = Len(queue) + 1
        /\ NoDuplicates'
        /\ QueueOrdered'
    BY <2>1, InsertedProperties DEF NoDuplicates, QueueOrdered
  <2>3. treeWeight' \in Nat /\ WeightIsSum'
    BY <2>1, <2>2, WeightIs819 DEF WeightIsSum
  <2>4. PeriodFollowsLoad'
    <3>1. (Len(queue) + 1) * MinGranularity <= (Len(queue') + 1) * MinGranularity
      BY <2>2, GranularityAssumption
    <3>2. QED
      BY <1>1, <2>2, <3>1, GranularityAssumption DEF PeriodFollowsLoad
  <2>5. SliceBounded'
    BY <1>1 DEF SliceBounded
  <2>6. QED
    BY <1>1, <2>2, <2>3, <2>4, <2>5
<1>5. QED
  BY <1>3, <1>4

\* Handing out the head keeps the invariant: the stretched period and the
\* slice computed from it are within the bounds of SliceInRange.
LEMMA RetrievePreservesRQInv ==
  ASSUME RQInv, retrieveProcess
  PROVE  RQInv'
<1> USE DEF RQInv, RQTypeOK
<1> DEFINE n == Len(queue)
           np == PeriodFor(n, period)
           s == TimeSlice(np, n * Weight)
<1>1. n \in Nat \ {0} /\ Head(queue) \in Procs /\ queue # << >>
  BY DEF retrieveProcess
<1>2. /\ period' = np
      /\ maxExecutionTime' = [maxExecutionTime EXCEPT ![Head(queue)] = s]
      /\ queue' = Tail(queue)
      /\ treeWeight' = treeWeight - Weight
      /\ virtualRuntime' = virtualRuntime
  BY DEF retrieveProcess, WeightIsSum
<1>3. /\ np \in Nat
      /\ Latency <= np
      /\ np <= Latency + MinGranularity \/ np = n * MinGranularity
      /\ s \in MinGranularity..(Latency + MinGranularity)
  BY <1>1, SliceInRange DEF PeriodFollowsLoad
<1> HIDE DEF np, s
<1>4. /\ queue' \in Seq(Procs)
      /\ Len(queue') = n - 1
      /\ NoDuplicates'
      /\ QueueOrdered'
  BY <1>1, <1>2, TailProperties DEF NoDuplicates, QueueOrdered
<1>7. treeWeight' \in Nat /\ WeightIsSum'
  BY <1>1, <1>2, <1>4, WeightIs819 DEF WeightIsSum
<1>8. PeriodFollowsLoad'
  BY <1>1, <1>2, <1>3, <1>4 DEF PeriodFollowsLoad
<1>9. s \in Nat
  BY <1>3, GranularityAssumption
<1>10. SliceBounded' /\ maxExecutionTime' \in [Procs -> Nat]
  BY <1>1, <1>2, <1>3, <1>9 DEF SliceBounded
<1>11. QED
  BY <1>2, <1>3, <1>4, <1>7, <1>8, <1>10

\* Insertions and retrievals in any order keep the ready set sorted and free
\* of duplicates, its weight exact, its period within a granule of what the
\* load calls for, and every time slice they hand out within its bounds.
THEOREM RunQueueCorrect == RQSpec => []RQInv
<1>1. RQInit => RQInv
  BY GranularityAssumption, WeightIs819
     DEF RQInit, RQInv, RQTypeOK, NoDuplicates, QueueOrdered, WeightIsSum,
         PeriodFollowsLoad, SliceBounded
<1>2. RQInv /\ [RQNext]_rqVars => RQInv'
  <2> SUFFICES ASSUME RQInv, [RQNext]_rqVars PROVE RQInv'
    OBVIOUS
  <2>1. ASSUME NEW p \in Procs \ Queued(queue), NEW v \in 0..MaxRuntime,
               insertProcess(p, v)
        PROVE  RQInv'
    BY <2>1, InsertPreservesRQInv, MaxRuntimeAssumption
  <2>2. CASE retrieveProcess
    BY <2>2, RetrievePreservesRQInv
  <2>3. CASE UNCHANGED rqVars
    BY <2>3 DEF rqVars, RQInv, RQTypeOK, NoDuplicates, QueueOrdered, WeightIsSum,
                PeriodFollowsLoad, SliceBounded
  <2>4. QED
    BY <2>1, <2>2, <2>3 DEF RQNext
<1>3. QED
  BY <1>1, <1>2, PTL DEF RQSpec

\* The slice bound on its own: no load history starves a process of its
\* granule or hands it more than the latency and a granule.
THEOREM SlicesBounded == RQSpec => []SliceBounded
<1>1. RQInv => SliceBounded
  BY DEF RQInv
<1>2. QED
  BY <1>1, RunQueueCorrect, PTL

\* retrieveProcess always hands out a process of least virtual runtime.
THEOREM ReadySetOrdered == RQSpec => []QueueOrdered
<1>1. RQInv => QueueOrdered
  BY DEF RQInv
<1>2. QED
  BY <1>1, RunQueueCorrect, PTL

\* treeWeight never drifts from the weights of the queued processes, so the
\* division of retrieveProcess is never by zero.
THEOREM WeightExact == RQSpec => []WeightIsSum
<1>1. RQInv => WeightIsSum
  BY DEF RQInv
<1>2. QED
  BY <1>1, RunQueueCorrect, PTL

\* Although the period is never set back to Latency, it never stays more than
\* a granule above what Latency and the current load ask for.
THEOREM PeriodBounded == RQSpec => []PeriodFollowsLoad
<1>1. RQInv => PeriodFollowsLoad
  BY DEF RQInv
<1>2. QED
  BY <1>1, RunQueueCorrect, PTL

\* Types of the ready set.
THEOREM RunQueueTypes == RQSpec => []RQTypeOK
<1>1. RQInv => RQTypeOK
  BY DEF RQInv
<1>2. QED
  BY <1>1, RunQueueCorrect, PTL

\* An insertion leaves the order of those already waiting as it is, and puts
\* the newcomer behind all whose key is not larger.
LEMMA InsertedKeepsOrder ==
  ASSUME NEW q \in Seq(Procs), NEW vr \in [Procs -> Nat], NEW v \in Nat,
         NEW p \in Procs,
         \A i, j \in DOMAIN q : i <= j => vr[q[i]] <= vr[q[j]]
  PROVE  LET r == Inserted(q, vr, p, v)
         IN  /\ \A a, b \in Procs : Before(q, a, b) => Before(r, a, b)
             /\ \A a \in Queued(q) : vr[a] <= v => Before(r, a, p)
<1> DEFINE k == InsertionPoint(q, vr, v)
           r == Inserted(q, vr, p, v)
           n == Len(q)
           shift(i) == IF i <= k THEN i ELSE i + 1
<1>1. /\ k \in 0..n
      /\ \A i \in 1..k : vr[q[i]] <= v
      /\ \A i \in (k+1)..n : v < vr[q[i]]
  BY InsertionPointExists
<1>2. r = [i \in 1..(n + 1) |-> IF i <= k THEN q[i]
                                 ELSE IF i = k + 1 THEN p ELSE q[i - 1]]
  BY DEF Inserted
<1>3. n \in Nat /\ DOMAIN q = 1..n
  OBVIOUS
<1> HIDE DEF k, r, n
<1>4. DOMAIN r = 1..(n + 1)
  BY <1>2
<1>5. ASSUME NEW i \in 1..n
      PROVE  shift(i) \in DOMAIN r /\ r[shift(i)] = q[i]
  BY <1>1, <1>2, <1>3, <1>4
<1>6. ASSUME NEW a \in Procs, NEW b \in Procs, Before(q, a, b)
      PROVE  Before(r, a, b)
  <2>1. PICK i, j \in 1..n : i < j /\ q[i] = a /\ q[j] = b
    BY <1>3, <1>6 DEF Before
  <2>2. shift(i) < shift(j)
    BY <1>1, <1>3, <2>1
  <2>3. QED
    BY <1>5, <2>1, <2>2 DEF Before
<1>7. ASSUME NEW a \in Queued(q), vr[a] <= v
      PROVE  Before(r, a, p)
  <2>1. PICK i \in 1..n : q[i] = a
    BY <1>3, <1>7 DEF Queued
  <2>2. vr[q[i]] \in Nat
    BY <1>3
  <2>3. i <= k
    BY <1>1, <1>3, <1>7, <2>1, <2>2
  <2>4. /\ i \in DOMAIN r /\ r[i] = a
        /\ k + 1 \in DOMAIN r /\ r[k + 1] = p
        /\ i < k + 1
    BY <1>1, <1>2, <1>3, <1>4, <2>1, <2>3
  <2>5. QED
    BY <2>4 DEF Before
<1>8. QED
  BY <1>6, <1>7 DEF r

\* Taking out the head leaves the order of the others as it is.
LEMMA TailKeepsOrder ==
  ASSUME NEW q \in Seq(Procs), q # << >>,
         \A i, j \in DOMAIN q : q[i] = q[j] => i = j
  PROVE  \A a, b \in Procs :
           Before(q, a, b) /\ a \in Queued(Tail(q)) => Before(Tail(q), a, b)
<1> DEFINE n == Len(q)
           r == Tail(q)
<1>1. n \in Nat /\ DOMAIN q = 1..n /\ n >= 1
  OBVIOUS
<1>2. DOMAIN r = 1..(n - 1) /\ \A i \in 1..(n - 1) : r[i] = q[i + 1]
  OBVIOUS
<1> HIDE DEF n, r
<1>3. ASSUME NEW a \in Procs, NEW b \in Procs, Before(q, a, b), a \in Queued(r)
      PROVE  Before(r, a, b)
  <2>1. PICK i, j \in 1..n : i < j /\ q[i] = a /\ q[j] = b
    BY <1>1, <1>3 DEF Before
  <2>2. PICK m \in 1..(n - 1) : q[m + 1] = a
    BY <1>2, <1>3 DEF Queued
  <2>3. i = m + 1
    BY <1>1, <2>1, <2>2
  <2>4. j - 1 \in DOMAIN r /\ r[j - 1] = b /\ m \in DOMAIN r /\ r[m] = a /\ m < j - 1
    BY <1>1, <1>2, <2>1, <2>2, <2>3
  <2>5. QED
    BY <2>4 DEF Before
<1>4. QED
  BY <1>3 DEF r

\* Nobody is overtaken: ties are served in the order of arrival, for every table
\* size and every sequence of insertions and retrievals.
THEOREM NobodyOvertaken == RQSpec => NoOvertaking
<1> DEFINE Kept(p, q) ==
      /\ p \in Queued(queue) /\ p \in Queued(queue')
      /\ q \in Queued(queue') /\ q # p
      => /\ (q \in Queued(queue) /\ Before(queue, p, q)) => Before(queue', p, q)
         /\ (q \notin Queued(queue) /\ virtualRuntime[p] <= virtualRuntime'[q])
              => Before(queue', p, q)
<1>1. RQInv /\ [RQNext]_rqVars => [\A p, q \in Procs : Kept(p, q)]_rqVars
  <2> SUFFICES ASSUME RQInv, [RQNext]_rqVars, NEW p \in Procs, NEW q \in Procs,
                      ~ UNCHANGED rqVars
               PROVE  Kept(p, q)
    OBVIOUS
  <2>0. /\ queue \in Seq(Procs) /\ virtualRuntime \in [Procs -> Nat]
        /\ \A i, j \in DOMAIN queue : queue[i] = queue[j] => i = j
        /\ \A i, j \in DOMAIN queue :
             i <= j => virtualRuntime[queue[i]] <= virtualRuntime[queue[j]]
    BY DEF RQInv, RQTypeOK, NoDuplicates, QueueOrdered
  <2>1. ASSUME NEW x \in Procs \ Queued(queue), NEW v \in 0..MaxRuntime,
               insertProcess(x, v)
        PROVE  Kept(p, q)
    <3>1. v \in Nat
      BY MaxRuntimeAssumption
    <3>2. CASE Len(queue) = NPROC
      BY <2>1, <3>2 DEF insertProcess
    <3>3. CASE Len(queue) # NPROC
      <4>1. /\ queue' = Inserted(queue, virtualRuntime, x, v)
            /\ virtualRuntime' = [virtualRuntime EXCEPT ![x] = v]
        BY <2>1, <3>3 DEF insertProcess
      <4>2. Queued(queue') = Queued(queue) \cup {x}
        <5>2. Queued(Inserted(queue, virtualRuntime, x, v)) = Queued(queue) \cup {x}
          BY <2>0, <3>1, InsertedProperties
        <5>3. QED
          BY <4>1, <5>2 DEF Queued
      <4>3. /\ \A a, b \in Procs : Before(queue, a, b) => Before(queue', a, b)
            /\ \A a \in Queued(queue) : virtualRuntime[a] <= v => Before(queue', a, x)
        BY <2>0, <3>1, <4>1, InsertedKeepsOrder
      <4>4. QED
        BY <2>0, <4>1, <4>2, <4>3
    <3>4. QED
      BY <3>2, <3>3
  <2>2. CASE retrieveProcess
    <3>1. queue # << >> /\ queue' = Tail(queue)
      BY <2>2 DEF retrieveProcess
    <3>2. Queued(Tail(queue)) \subseteq Queued(queue)
      BY <2>0, <3>1, TailProperties
    <3>3. QED
      BY <2>0, <3>1, <3>2, TailKeepsOrder
  <2>3. QED
    BY <2>1, <2>2 DEF RQNext
<1>2. QED
  BY <1>1, RunQueueCorrect, PTL DEF RQSpec, NoOvertaking
=============================================================================
