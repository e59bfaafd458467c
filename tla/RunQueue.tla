------------------------------ MODULE RunQueue ------------------------------
(***************************************************************************)
(* What the ready set of proc.c promises: the processes waiting for a CPU, *)
(* kept in the order in which they will be handed out.  The kernel keeps   *)
(* them in a red-black tree (module RBTree shows that the tree implements  *)
(* this module); here the tree is its in-order sequence.                   *)
(*                                                                         *)
(* tree->lock is a leaf lock: no other lock is taken while it is held, so  *)
(* insertProcess and retrieveProcess are single steps.                     *)
(***************************************************************************)
EXTENDS Integers, Sequences, FiniteSets

CONSTANTS
  Procs,            \* the slots of the process table proc[NPROC]
  Latency,          \* static int latency = NPROC / 2
  MinGranularity,   \* static int min_granularity = 2
  MaxRuntime        \* bound of the model on a virtual runtime

NPROC == Cardinality(Procs)

ASSUME ProcsAssumption == IsFiniteSet(Procs) /\ Procs # {}
ASSUME GranularityAssumption ==
  /\ Latency \in Nat \ {0}
  /\ MinGranularity \in Nat \ {0}
  \* "Latency must be multiples of min_granularity"
  /\ Latency % MinGranularity = 0
ASSUME MaxRuntimeAssumption == MaxRuntime \in Nat

VARIABLES
  queue,            \* the in-order sequence of the tree
  treeWeight,       \* tree->treeWeight
  period,           \* tree->period
  virtualRuntime,   \* p->virtualRuntime, the key of the tree
  maxExecutionTime  \* p->maxExecutionTime, the time slice of p

treeVars == <<queue, treeWeight, period>>
rqVars == <<queue, treeWeight, period, virtualRuntime, maxExecutionTime>>

-----------------------------------------------------------------------------
(* Pure parts.                                                             *)

\* calculateWight(0): the only nice value the kernel ever stores is 0, for
\* which the loop is not entered and the result is (int)(1024 / 1.25).
Weight == (1024 * 4) \div 5

\* The processes of a queue.
Queued(q) == {q[i] : i \in DOMAIN q}

\* Mutants: equal keys overtake; the last to come is the first to go.
InsertionPoint_BeforeEquals(q, vr, v) ==
  CHOOSE k \in 0..Len(q) :
    /\ \A i \in 1..k : vr[q[i]] < v
    /\ \A i \in (k+1)..Len(q) : v <= vr[q[i]]
InsertionPoint_Front(q, vr, v) == 0

\* insertProc goes right on <=, so a key is placed after its equals.
InsertionPoint(q, vr, v) ==
  CHOOSE k \in 0..Len(q) :
    /\ \A i \in 1..k : vr[q[i]] <= v
    /\ \A i \in (k+1)..Len(q) : v < vr[q[i]]

\* The queue q with process p, whose key is v, linked in.
Inserted(q, vr, p, v) ==
  LET k == InsertionPoint(q, vr, v)
  IN  [i \in 1..(Len(q) + 1) |-> IF i <= k THEN q[i]
                                 ELSE IF i = k + 1 THEN p
                                 ELSE q[i - 1]]

\* The number of processes that fit in one period of Latency ticks.
LatencyProcs == Latency \div MinGranularity

\* Mutants: the period is not stretched; it never shrinks.
PeriodFor_Constant(n, per) == per
PeriodFor_Monotone(n, per) ==
  IF n * MinGranularity > per THEN n * MinGranularity ELSE per

\* The period that retrieveProcess uses when n processes are in the tree.
\* It is stretched under load and never set back to Latency.
PeriodFor(n, per) == IF n > LatencyProcs THEN n * MinGranularity ELSE per

TimeSlice(per, total) == (per * Weight) \div total

-----------------------------------------------------------------------------
(* The two operations on the tree.                                         *)

\* insertProcess(procTree, p) for a process whose virtual runtime is v.
insertProcess(p, v) ==
  /\ IF Len(queue) = NPROC
     THEN UNCHANGED <<queue, treeWeight>>
     ELSE /\ queue' = Inserted(queue, virtualRuntime, p, v)
          /\ treeWeight' = treeWeight + Weight
  /\ virtualRuntime' = [virtualRuntime EXCEPT ![p] = v]
  /\ UNCHANGED <<period, maxExecutionTime>>

\* Mutant: the weight of the process is subtracted twice.
retrieveProcess_TwiceWeight ==
  /\ queue # << >>
  /\ LET newPeriod == PeriodFor(Len(queue), period)
     IN  /\ period' = newPeriod
         /\ maxExecutionTime' = [maxExecutionTime EXCEPT
              ![Head(queue)] = TimeSlice(newPeriod, treeWeight)]
  /\ queue' = Tail(queue)
  /\ treeWeight' = treeWeight - 2 * Weight
  /\ UNCHANGED virtualRuntime

\* retrieveProcess(procTree) when it returns a process: the head.
retrieveProcess ==
  /\ queue # << >>
  /\ LET p == Head(queue)
         newPeriod == PeriodFor(Len(queue), period)
     IN  /\ period' = newPeriod
         /\ maxExecutionTime' =
              [maxExecutionTime EXCEPT ![p] = TimeSlice(newPeriod, treeWeight)]
  /\ queue' = Tail(queue)
  /\ treeWeight' = treeWeight - Weight
  /\ UNCHANGED virtualRuntime

\* rbinit, and the fields allocproc clears.
RQInit ==
  /\ queue = << >>
  /\ treeWeight = 0
  /\ period = Latency
  /\ virtualRuntime = [p \in Procs |-> 0]
  /\ maxExecutionTime = [p \in Procs |-> 0]

\* The callers insert a process only while it is not in the tree (module
\* Kernel shows that they do), with a runtime it has accumulated, or 0 when
\* its slot has been allocated again.
RQNext ==
  \/ \E p \in Procs \ Queued(queue), v \in 0..MaxRuntime : insertProcess(p, v)
  \/ retrieveProcess

RQSpec == RQInit /\ [][RQNext]_rqVars

-----------------------------------------------------------------------------
(* Properties.                                                             *)

\* The type invariant of the ready set.
RQTypeOK ==
  /\ queue \in Seq(Procs)
  /\ treeWeight \in Nat
  /\ period \in Nat
  /\ virtualRuntime \in [Procs -> Nat]
  /\ maxExecutionTime \in [Procs -> Nat]

\* No process is in the tree twice, so isFull never turns an insertion away.
NoDuplicates ==
  \A i, j \in DOMAIN queue : queue[i] = queue[j] => i = j

\* The process handed out next has the smallest virtual runtime.
QueueOrdered ==
  \A i, j \in DOMAIN queue :
    i <= j => virtualRuntime[queue[i]] <= virtualRuntime[queue[j]]

\* treeWeight is the sum of the weights of the queued processes: insertions
\* and retrievals never drift, and the division in retrieveProcess is by a
\* positive number.
WeightIsSum == treeWeight = Len(queue) * Weight

\* The period is stretched by retrieveProcess and never reset; it still comes
\* back to within one granule of Latency whenever the load does.
PeriodFollowsLoad ==
  /\ Latency <= period
  /\ \/ period <= Latency + MinGranularity
     \/ period <= (Len(queue) + 1) * MinGranularity

\* Whatever the load was, a dispatched process gets at least min_granularity
\* ticks and at most one granule more than the scheduling latency.
SliceBounded ==
  \A p \in Procs :
    \/ maxExecutionTime[p] = 0
    \/ maxExecutionTime[p] \in MinGranularity..(Latency + MinGranularity)

\* p is ahead of q in the sequence s.
Before(s, p, q) ==
  \E i, j \in DOMAIN s : i < j /\ s[i] = p /\ s[j] = q

\* A process that is waiting is never overtaken by one that arrives later
\* with the same or a larger virtual runtime, and rebalancing never reorders
\* two waiting processes.
NoOvertaking ==
  [][\A p, q \in Procs :
       /\ p \in Queued(queue) /\ p \in Queued(queue')
       /\ q \in Queued(queue') /\ q # p
       => /\ (q \in Queued(queue) /\ Before(queue, p, q)) => Before(queue', p, q)
          /\ (q \notin Queued(queue) /\ virtualRuntime[p] <= virtualRuntime'[q])
               => Before(queue', p, q)]_rqVars
=============================================================================
