---------------------------- MODULE KernelProofs ----------------------------
(***************************************************************************)
(* Proofs about the kernel, for every table size, number of CPUs, bound on *)
(* runtimes and pids, and every set of traps: who holds which lock, which  *)
(* CPU is on which kernel stack, and where a runnable process is.          *)
(***************************************************************************)
EXTENDS Kernel, RunQueueProofs, FiniteSetTheorems

-----------------------------------------------------------------------------
(* The inductive invariant.                                                *)

\* The labels at which a thread on a CPU holds its own p->lock, and those at which
\* one with locals x holds wait_lock or tickslock.
HoldsOwn == {"check", "yielded", "slept", "forkret", "dead"}
HoldsWait(l, x) ==
  l \in {"reparent", "zombie", "waitscan"} \/ (l = "sleep" /\ x.lk = "wait_lock")
HoldsTicks(l, x) == l = "sleepcheck" \/ (l = "sleep" /\ x.lk = "tickslock")

\* CPU c runs the thread of p; c is about to switch to p, or runs it.
Runs(c, p) == spc[c] = "running" /\ sproc[c] = p
Dispatches(c, p) == spc[c] \in {"lock", "start"} /\ sproc[c] = p

\* c->proc, the locals of scheduler() and the state of its process fit together.
SchedulerLocals ==
  \A c \in CPUs :
    /\ IF spc[c] \in {"pick", "wfi"} THEN sproc[c] = Null ELSE sproc[c] \in Procs
    /\ cproc[c] = IF spc[c] \in {"running", "after"} THEN sproc[c] ELSE Null
    /\ spc[c] = "running" => state[sproc[c]] = "RUNNING"
    /\ spc[c] \in {"lock", "start"} => state[sproc[c]] = "RUNNABLE"
    /\ spc[c] = "after" => state[sproc[c]] \in {"RUNNABLE", "SLEEPING", "ZOMBIE"}

\* A process is in the hands of one scheduler, and RUNNING means run by one.
OneScheduler ==
  /\ \A c, d \in CPUs :
       /\ spc[c] \in {"lock", "start", "running"} /\ spc[d] \in {"lock", "start", "running"}
       /\ sproc[c] = sproc[d] /\ sproc[c] # Null
       => c = d
  /\ \A p \in Procs : state[p] = "RUNNING" => \E c \in CPUs : Runs(c, p)

\* Who holds p->lock, wait_lock and tickslock.
ProcLocks ==
  \A c \in CPUs, p \in Procs :
    plock[p] = c <=> /\ sproc[c] = p
                     /\ spc[c] \in {"start", "after"} \/ (spc[c] = "running" /\ pc[p] \in HoldsOwn)
WaitLock ==
  \A c \in CPUs :
    wait_lock = c <=> spc[c] = "running" /\ HoldsWait(pc[sproc[c]], loc[sproc[c]])
TicksLock ==
  \A c \in CPUs :
    tickslock = c <=> \/ wk[c].idx # 0 /\ wk[c].chan = TicksChan
                      \/ spc[c] = "running" /\ HoldsTicks(pc[sproc[c]], loc[sproc[c]])

\* Where wakeup() is called: by clockintr, which holds no other lock, and by exit.
WakeupCallers ==
  \A c \in CPUs :
    /\ wk[c].idx = 0 => wk[c] = NoWake
    /\ wk[c].idx # 0 =>
         IF wk[c].chan = TicksChan
         THEN \/ spc[c] \in {"pick", "lock"}
              \/ spc[c] = "running" /\ pc[sproc[c]] \in {"trapout", "yield"}
         ELSE spc[c] = "running" /\ pc[sproc[c]] \in {"reparent", "zombie"}

\* The labels a thread can be at in each state of its process.
LabelsOf(s) ==
  CASE s = "UNUSED" -> {"forkret", "dead"}
    [] s = "USED" -> {"forkret"}
    [] s = "RUNNABLE" -> {"yielded", "slept", "forkret"}
    [] s = "RUNNING" -> Labels \ {"dead"}
    [] s = "SLEEPING" -> {"slept"}
    [] s = "ZOMBIE" -> {"dead"}

\* What the locals and the interrupted label of a thread hold where they are used.
ThreadOK(p, l, i, x) ==
  /\ l = "sleep" => x.lk # "none"
  /\ i # "none" => l \in {"yield", "check", "yielded"} /\ i \in Unlocked
  /\ (IF i # "none" THEN i ELSE l) \in {"alloc", "kill"} => x.idx \in Procs
  /\ l \in {"reparent", "zombie", "dead"} => p # initproc

Threads ==
  \A p \in Procs : /\ pc[p] \in LabelsOf(state[p])
                   /\ ThreadOK(p, pc[p], ipc[p], loc[p])

\* A fork under way owns the slot of its child, until it has inserted it.
Forking == {"forkparent", "forkrun", "forkinsert"}
ForkOwnsChild ==
  /\ \A q \in Procs : At(q) \in Forking =>
       /\ loc[q].np \in Procs
       /\ state[loc[q].np] = IF At(q) = "forkinsert" THEN "RUNNABLE" ELSE "USED"
       /\ loc[q].np \notin Queued(queue)
       /\ \A c \in CPUs : ~Dispatches(c, loc[q].np)
  /\ \A q, r \in Procs :
       At(q) \in Forking /\ At(r) \in Forking /\ loc[q].np = loc[r].np => q = r

\* A runnable process is in the tree, in a fork or in a scheduler.
ReadyPlaces ==
  /\ \A p \in Procs : state[p] = "RUNNABLE" =>
       \/ p \in Queued(queue)
       \/ \E q \in Procs : At(q) = "forkinsert" /\ loc[q].np = p
       \/ \E c \in CPUs : Dispatches(c, p)
  /\ \A p \in Queued(queue) :
       state[p] = "RUNNABLE" /\ \A c \in CPUs : ~Dispatches(c, p)

\* The types of the variables that RunQueue does not have.
KernelTypes ==
  /\ state \in [Procs -> States]
  /\ chan \in [Procs -> Procs \cup {Null, TicksChan}]
  /\ killed \in [Procs -> BOOLEAN]
  /\ currentRuntime \in [Procs -> Nat]
  /\ pid \in [Procs -> Nat] /\ parent \in [Procs -> Procs \cup {Null}]
  /\ nextpid \in Nat
  /\ ticks \in 0..(TickModulus - 1)
  /\ plock \in [Procs -> Holders] /\ tickslock \in Holders /\ wait_lock \in Holders
  /\ cproc \in [CPUs -> Procs \cup {Null}] /\ sproc \in [CPUs -> Procs \cup {Null}]
  /\ spc \in [CPUs -> {"pick", "wfi", "lock", "start", "running", "after"}]
  /\ found \in [CPUs -> BOOLEAN]
  /\ wk \in [CPUs -> [idx : Procs \cup {0}, chan : Procs \cup {Null, TicksChan}]]
  /\ pc \in [Procs -> Labels] /\ ipc \in [Procs -> Labels \cup {"none"}]
  /\ intrOn \in [Procs -> BOOLEAN] /\ again \in [Procs -> BOOLEAN]
  /\ loc \in [Procs -> LocalsType]
  /\ panicked \in {"no", "init exiting"}

KernelInv ==
  /\ KernelTypes
  /\ RQInv
  /\ SchedulerLocals /\ OneScheduler
  /\ ProcLocks /\ WaitLock /\ TicksLock
  /\ WakeupCallers /\ Threads
  /\ ForkOwnsChild /\ ReadyPlaces

-----------------------------------------------------------------------------
(* Facts about the constants, and what is known of a running thread.       *)

\* The table, its slots and the CPUs are numbered; the null pointer, the channel
\* of the clock and the holder of a free lock are none of them.
LEMMA Numbers ==
  /\ NPROC \in Nat /\ NPROC >= 1
  /\ \A p : p \in Procs <=> p \in Nat /\ 1 <= p /\ p <= NPROC
  /\ initproc \in Procs /\ Null \notin Procs /\ TicksChan \notin Procs
  /\ 0 \in CPUs /\ NoCPU \notin CPUs /\ \A c \in CPUs : c \in Nat
<1>1. NPROC \in Nat
  BY ProcsAssumption, FS_CardinalityType DEF NPROC
<1>2. NPROC # 0
  BY ProcsAssumption, FS_EmptySet DEF NPROC
<1>3. NCPU \in Nat /\ NCPU >= 1
  BY CPUAssumption
<1>4. Procs = 1..NPROC
  BY TableAssumption
<1>5. QED
  BY <1>1, <1>2, <1>3, <1>4 DEF initproc, Null, TicksChan, CPUs, NoCPU

\* Where the thread that CPU c runs is: its process is RUNNING and in the hands
\* of c alone, and it holds the locks its label says.
LEMMA RunningThread ==
  ASSUME KernelInv, NEW c \in CPUs, NEW p \in Procs, OnCPU(c, p)
  PROVE  /\ panicked = "no" /\ wk[c] = NoWake
         /\ spc[c] = "running" /\ sproc[c] = p /\ cproc[c] = p
         /\ state[p] = "RUNNING"
         /\ \A d \in CPUs : d # c => cproc[d] # p /\ sproc[d] # p
         /\ plock[p] = c <=> pc[p] \in HoldsOwn
         /\ wait_lock = c <=> HoldsWait(pc[p], loc[p])
         /\ tickslock = c <=> HoldsTicks(pc[p], loc[p])
         /\ pc[p] \in Labels /\ pc[p] # "dead"
         /\ ThreadOK(p, pc[p], ipc[p], loc[p])
<1>1. /\ panicked = "no" /\ wk[c] = NoWake
      /\ spc[c] = "running" /\ sproc[c] = p /\ cproc[c] = p
      /\ state[p] = "RUNNING"
  BY DEF OnCPU, KernelInv, SchedulerLocals
<1>2. ASSUME NEW d \in CPUs, d # c
      PROVE  cproc[d] # p /\ sproc[d] # p
  <2>1. spc[d] \in {"pick", "wfi", "lock", "start", "running", "after"}
    BY DEF KernelInv, KernelTypes
  <2>2. p # Null
    BY Numbers
  <2>3. QED
    BY <1>1, <1>2, <2>1, <2>2 DEF KernelInv, SchedulerLocals, OneScheduler
<1>3. plock[p] = c <=> pc[p] \in HoldsOwn
  BY <1>1 DEF KernelInv, ProcLocks
<1>4. wait_lock = c <=> HoldsWait(pc[p], loc[p])
  BY <1>1 DEF KernelInv, WaitLock
<1>5. tickslock = c <=> HoldsTicks(pc[p], loc[p])
  BY <1>1 DEF KernelInv, TicksLock, NoWake
<1>6. /\ pc[p] \in Labels /\ pc[p] # "dead"
      /\ ThreadOK(p, pc[p], ipc[p], loc[p])
  BY <1>1 DEF KernelInv, Threads, LabelsOf
<1>7. QED
  BY <1>1, <1>2, <1>3, <1>4, <1>5, <1>6

-----------------------------------------------------------------------------
(* A thread moves: from its label and locals to l and x, with the locks it *)
(* takes and releases on the way, while no CPU switches.                   *)

\* The threads that other CPUs run stay where they are.
OthersStay(c) ==
  \A d \in CPUs : d # c /\ spc[d] = "running" =>
    pc'[sproc[d]] = pc[sproc[d]] /\ loc'[sproc[d]] = loc[sproc[d]]

\* How p->lock, wait_lock and tickslock follow the move of the thread of p on c.
PlockMove(c, p, l) ==
  \/ plock' = plock /\ (l \in HoldsOwn <=> pc[p] \in HoldsOwn)
  \/ plock' = Lock(plock, p, c) /\ l \in HoldsOwn
  \/ plock' = Unlock(plock, p) /\ l \notin HoldsOwn
WaitMove(c, p, l, x) ==
  \/ wait_lock' = wait_lock /\ (HoldsWait(l, x) <=> HoldsWait(pc[p], loc[p]))
  \/ wait_lock = NoCPU /\ wait_lock' = c /\ HoldsWait(l, x)
  \/ wait_lock' = NoCPU /\ HoldsWait(pc[p], loc[p]) /\ ~HoldsWait(l, x)
TicksMove(c, p, l, x) ==
  \/ tickslock' = tickslock /\ (HoldsTicks(l, x) <=> HoldsTicks(pc[p], loc[p]))
  \/ tickslock = NoCPU /\ tickslock' = c /\ HoldsTicks(l, x)
  \/ tickslock' = NoCPU /\ HoldsTicks(pc[p], loc[p]) /\ ~HoldsTicks(l, x)

\* The call of wakeup that the thread of p makes on c, if any.
WakeMove(c, p, l, x) ==
  \/ wk' = wk /\ TicksMove(c, p, l, x)
  \/ /\ wk' = [wk EXCEPT ![c] = [idx |-> 1, chan |-> TicksChan]]
     /\ tickslock = NoCPU /\ tickslock' = c
     /\ l \in {"trapout", "yield"}
  \/ /\ \E ch \in Procs \cup {Null} : wk' = [wk EXCEPT ![c] = [idx |-> 1, chan |-> ch]]
     /\ l \in {"reparent", "zombie"}
     /\ TicksMove(c, p, l, x)

\* All locks follow the move.
LocksMove(c, p, l, x) == PlockMove(c, p, l) /\ WaitMove(c, p, l, x) /\ WakeMove(c, p, l, x)

\* A thread that moves on takes and gives p->lock as its labels say.
LEMMA MovedProcLocks ==
  ASSUME KernelInv, NEW c \in CPUs, NEW p \in Procs, OnCPU(c, p), NEW l,
         UNCHANGED <<spc, sproc>>, KernelTypes', pc'[p] = l,
         \A d \in CPUs : d # c /\ spc[d] = "running" => pc'[sproc[d]] = pc[sproc[d]],
         PlockMove(c, p, l)
  PROVE  ProcLocks'
<1>1. /\ spc[c] = "running" /\ sproc[c] = p
      /\ \A d \in CPUs : d # c => sproc[d] # p
      /\ plock[p] = c <=> pc[p] \in HoldsOwn
  BY RunningThread
<1>2. plock \in [Procs -> Holders] /\ ProcLocks /\ NoCPU \notin CPUs
  BY Numbers DEF KernelInv, KernelTypes
<1>3. SUFFICES ASSUME NEW d \in CPUs, NEW q \in Procs
               PROVE  plock'[q] = d <=>
                        /\ sproc[d] = q
                        /\ spc[d] \in {"start", "after"} \/ (spc[d] = "running" /\ pc'[q] \in HoldsOwn)
  BY DEF ProcLocks
<1>4. CASE d = c
  BY <1>1, <1>2, <1>4 DEF PlockMove, ProcLocks, Lock, Unlock
<1>5. CASE d # c
  BY <1>1, <1>2, <1>5 DEF PlockMove, ProcLocks, Lock, Unlock
<1>6. QED
  BY <1>4, <1>5

\* The same for wait_lock.
LEMMA MovedWaitLock ==
  ASSUME KernelInv, NEW c \in CPUs, NEW p \in Procs, OnCPU(c, p), NEW l, NEW x,
         UNCHANGED <<spc, sproc>>, pc'[p] = l, loc'[p] = x,
         OthersStay(c), WaitMove(c, p, l, x)
  PROVE  WaitLock'
<1>1. /\ spc[c] = "running" /\ sproc[c] = p
      /\ wait_lock = c <=> HoldsWait(pc[p], loc[p])
  BY RunningThread
<1>2. wait_lock \in Holders /\ WaitLock /\ NoCPU \notin CPUs
  BY Numbers DEF KernelInv, KernelTypes
<1>3. SUFFICES ASSUME NEW d \in CPUs
               PROVE  wait_lock' = d <=>
                        spc[d] = "running" /\ HoldsWait(pc'[sproc[d]], loc'[sproc[d]])
  BY DEF WaitLock, HoldsWait
<1>4. CASE d = c
  BY <1>1, <1>2, <1>4 DEF WaitMove
<1>5. CASE d # c
  BY <1>1, <1>2, <1>5 DEF WaitMove, WaitLock, OthersStay
<1>6. QED
  BY <1>4, <1>5

\* The same for tickslock.
LEMMA MovedTicksLock ==
  ASSUME KernelInv, NEW c \in CPUs, NEW p \in Procs, OnCPU(c, p), NEW l, NEW x,
         UNCHANGED <<spc, sproc>>, pc'[p] = l, loc'[p] = x,
         OthersStay(c), WakeMove(c, p, l, x)
  PROVE  TicksLock' /\ WakeupCallers'
<1>1. /\ spc[c] = "running" /\ sproc[c] = p /\ wk[c] = NoWake
      /\ tickslock = c <=> HoldsTicks(pc[p], loc[p])
  BY RunningThread
<1>2. /\ tickslock \in Holders /\ TicksLock /\ WakeupCallers /\ NoCPU \notin CPUs
      /\ wk \in [CPUs -> [idx : Procs \cup {0}, chan : Procs \cup {Null, TicksChan}]]
  BY Numbers DEF KernelInv, KernelTypes
<1>0. TicksChan \notin Procs \cup {Null}
  BY Numbers DEF TicksChan, Null
<1> DEFINE Calls(d) == wk'[d].idx # 0 /\ wk'[d].chan = TicksChan
<1>3. \A d \in CPUs : d # c => wk'[d] = wk[d] /\ pc'[sproc[d]] = IF spc[d] = "running" THEN pc[sproc[d]] ELSE pc'[sproc[d]]
  BY <1>2 DEF WakeMove, OthersStay
<1>4. ASSUME NEW d \in CPUs
      PROVE  tickslock' = d <=> \/ Calls(d)
                                \/ spc[d] = "running" /\ HoldsTicks(pc'[sproc[d]], loc'[sproc[d]])
  <2>1. CASE wk' = wk /\ TicksMove(c, p, l, x)
    <3>1. CASE d = c
      BY <1>1, <1>2, <2>1, <3>1 DEF TicksMove, NoWake
    <3>2. CASE d # c
      BY <1>1, <1>2, <2>1, <3>2 DEF TicksMove, TicksLock, OthersStay
    <3>3. QED
      BY <3>1, <3>2
  <2>2. CASE /\ wk' = [wk EXCEPT ![c] = [idx |-> 1, chan |-> TicksChan]]
             /\ tickslock = NoCPU /\ tickslock' = c
             /\ l \in {"trapout", "yield"}
    <3>1. CASE d = c
      BY <1>1, <1>2, <2>2, <3>1
    <3>2. CASE d # c
      BY <1>1, <1>2, <2>2, <3>2 DEF TicksLock, OthersStay
    <3>3. QED
      BY <3>1, <3>2
  <2>3. CASE /\ \E ch \in Procs \cup {Null} : wk' = [wk EXCEPT ![c] = [idx |-> 1, chan |-> ch]]
             /\ l \in {"reparent", "zombie"}
             /\ TicksMove(c, p, l, x)
    <3>1. PICK ch \in Procs \cup {Null} : wk' = [wk EXCEPT ![c] = [idx |-> 1, chan |-> ch]]
      BY <2>3
    <3>2. wk'[c].chan # TicksChan
      BY <1>0, <1>2, <3>1
    <3>3. CASE d = c
      BY <1>1, <1>2, <2>3, <3>2, <3>3 DEF TicksMove
    <3>4. CASE d # c
      BY <1>1, <1>2, <1>3, <2>3, <3>4 DEF TicksMove, TicksLock, OthersStay
    <3>5. QED
      BY <3>3, <3>4
  <2>4. QED
    BY <2>1, <2>2, <2>3 DEF WakeMove
<1>5. TicksLock'
  BY <1>4 DEF TicksLock, HoldsTicks
<1>6. ASSUME NEW d \in CPUs
      PROVE  /\ wk'[d].idx = 0 => wk'[d] = NoWake
             /\ wk'[d].idx # 0 =>
                  IF wk'[d].chan = TicksChan
                  THEN \/ spc[d] \in {"pick", "lock"}
                       \/ spc[d] = "running" /\ pc'[sproc[d]] \in {"trapout", "yield"}
                  ELSE spc[d] = "running" /\ pc'[sproc[d]] \in {"reparent", "zombie"}
  <2>1. CASE d # c
    BY <1>2, <1>3, <2>1 DEF WakeupCallers
  <2>2. CASE d = c /\ wk'[c] = wk[c]
    BY <1>1, <2>2 DEF NoWake
  <2>3. CASE d = c /\ wk'[c] # wk[c]
    <3>1. \/ wk' = [wk EXCEPT ![c] = [idx |-> 1, chan |-> TicksChan]] /\ l \in {"trapout", "yield"}
          \/ /\ \E ch \in Procs \cup {Null} : wk' = [wk EXCEPT ![c] = [idx |-> 1, chan |-> ch]]
             /\ l \in {"reparent", "zombie"}
      BY <2>3 DEF WakeMove
    <3>2. QED
      BY <1>0, <1>1, <1>2, <2>3, <3>1
  <2>4. QED
    BY <2>1, <2>2, <2>3
<1>7. WakeupCallers'
  BY <1>6 DEF WakeupCallers, NoWake
<1>8. QED
  BY <1>5, <1>7

\* Where a thread at label l, interrupted at i, is: At of the new state.
AtLabel(l, i) == IF i # "none" THEN i ELSE l

\* A fork goes on with the child it has, or none is under way before and after.
ForkStays(p, l, i, x) ==
  /\ AtLabel(l, i) \in Forking =>
       /\ At(p) \in Forking /\ x.np = loc[p].np
       /\ AtLabel(l, i) = "forkinsert" <=> At(p) = "forkinsert"
  /\ At(p) = "forkinsert" => AtLabel(l, i) = "forkinsert"

\* While no process changes its state and the tree is left alone, a thread that
\* moves keeps what is known of schedulers, threads and forks.
LEMMA MovedPlaces ==
  ASSUME KernelInv, NEW c \in CPUs, NEW p \in Procs, OnCPU(c, p), NEW l, NEW i, NEW x,
         UNCHANGED <<spc, sproc, cproc, state, queue>>,
         pc' = [pc EXCEPT ![p] = l], ipc' = [ipc EXCEPT ![p] = i],
         loc' = [loc EXCEPT ![p] = x],
         l \in Labels \ {"dead"}, ThreadOK(p, l, i, x), ForkStays(p, l, i, x)
  PROVE  /\ SchedulerLocals' /\ OneScheduler' /\ Threads'
         /\ ForkOwnsChild' /\ ReadyPlaces'
<1>1. SchedulerLocals' /\ OneScheduler'
  BY DEF KernelInv, SchedulerLocals, OneScheduler, Runs
<1>2. /\ pc \in [Procs -> Labels] /\ ipc \in [Procs -> Labels \cup {"none"}]
      /\ loc \in [Procs -> LocalsType] /\ state[p] = "RUNNING"
  BY RunningThread DEF KernelInv, KernelTypes
<1>3. \A q \in Procs :
        /\ pc'[q] = (IF q = p THEN l ELSE pc[q]) /\ ipc'[q] = (IF q = p THEN i ELSE ipc[q])
        /\ loc'[q] = (IF q = p THEN x ELSE loc[q])
  BY <1>2
<1>4. Threads'
  <2>1. ASSUME NEW q \in Procs
        PROVE  pc'[q] \in LabelsOf(state[q]) /\ ThreadOK(q, pc'[q], ipc'[q], loc'[q])
    <3>1. CASE q = p
      BY <1>2, <1>3, <3>1 DEF LabelsOf
    <3>2. CASE q # p
      BY <1>3, <3>2 DEF KernelInv, Threads
    <3>3. QED
      BY <3>1, <3>2
  <2>2. QED
    BY <2>1 DEF Threads, ThreadOK, LabelsOf
<1>5. \A q \in Procs : At(q)' = IF q = p THEN AtLabel(l, i) ELSE At(q)
  BY <1>3 DEF At, AtLabel
<1>6. ForkOwnsChild'
  BY <1>3, <1>5 DEF KernelInv, ForkOwnsChild, ForkStays, Dispatches, Forking
<1>7. ASSUME NEW q \in Procs
      PROVE  (At(q)' = "forkinsert" <=> At(q) = "forkinsert")
              /\ (At(q) = "forkinsert" => loc'[q].np = loc[q].np)
  BY <1>3, <1>5 DEF ForkStays, Forking
<1>8. ReadyPlaces'
  BY <1>7 DEF KernelInv, ReadyPlaces, Dispatches
<1>9. QED
  BY <1>1, <1>4, <1>6, <1>8

\* The step of a thread that changes no state and leaves the tree alone.
LEMMA ThreadMoves ==
  ASSUME KernelInv, NEW c \in CPUs, NEW p \in Procs, OnCPU(c, p),
         NEW l \in Labels \ {"dead"}, NEW i, NEW x,
         UNCHANGED <<spc, sproc, cproc, state, queue>>,
         pc' = [pc EXCEPT ![p] = l], ipc' = [ipc EXCEPT ![p] = i],
         loc' = [loc EXCEPT ![p] = x],
         KernelTypes', RQInv',
         LocksMove(c, p, l, x),
         ThreadOK(p, l, i, x), ForkStays(p, l, i, x)
  PROVE  KernelInv'
<1>1. /\ pc \in [Procs -> Labels] /\ loc \in [Procs -> LocalsType]
      /\ \A d \in CPUs : spc[d] = "running" => sproc[d] \in Procs
  BY DEF KernelInv, KernelTypes, SchedulerLocals
<1>2. \A d \in CPUs : d # c => sproc[d] # p
  BY RunningThread
<1>3. OthersStay(c) /\ pc'[p] = l /\ loc'[p] = x
  BY <1>1, <1>2 DEF OthersStay
<1>4. ProcLocks'
  BY <1>3, MovedProcLocks DEF OthersStay, LocksMove
<1>5. WaitLock'
  BY <1>3, MovedWaitLock DEF LocksMove
<1>6. TicksLock' /\ WakeupCallers'
  BY <1>3, MovedTicksLock DEF LocksMove
<1>7. /\ SchedulerLocals' /\ OneScheduler' /\ Threads'
      /\ ForkOwnsChild' /\ ReadyPlaces'
  BY MovedPlaces
<1>8. QED
  BY <1>4, <1>5, <1>6, <1>7 DEF KernelInv

\* The locals that the system calls build.
LEMMA LocalsTypes ==
  /\ NoLocals \in LocalsType
  /\ \A x \in LocalsType :
       /\ \A k \in Procs \cup {0} : [x EXCEPT !.idx = k] \in LocalsType
       /\ \A t \in 0..(TickModulus - 1) : [x EXCEPT !.t0 = t] \in LocalsType
       /\ \A k \in {"tickslock", "wait_lock"} : [x EXCEPT !.lk = k] \in LocalsType
       /\ \A m \in Procs \cup {Null} : [x EXCEPT !.minp = m] \in LocalsType
       /\ [x EXCEPT !.lk = "none", !.idx = 0] \in LocalsType
  /\ \A k \in Procs : [NoLocals EXCEPT !.np = k] \in LocalsType
  /\ \A t \in Nat : [NoLocals EXCEPT !.tmp = t] \in LocalsType
  /\ \A k \in Procs, m \in KillPids : [NoLocals EXCEPT !.idx = k, !.pid = m] \in LocalsType
  /\ \A k \in Procs : [NoLocals EXCEPT !.idx = k] \in LocalsType
  /\ \A n \in SleepTimes : [NoLocals EXCEPT !.n = n] \in LocalsType
<1>1. 0 \in 0..(TickModulus - 1)
  BY TickAssumption
<1>2. NoLocals \in LocalsType
  BY <1>1 DEF NoLocals, LocalsType, Null
<1>3. \A x \in LocalsType :
        /\ \A k \in Procs \cup {0} : [x EXCEPT !.idx = k] \in LocalsType
        /\ \A t \in 0..(TickModulus - 1) : [x EXCEPT !.t0 = t] \in LocalsType
        /\ \A k \in {"tickslock", "wait_lock"} : [x EXCEPT !.lk = k] \in LocalsType
        /\ \A m \in Procs \cup {Null} : [x EXCEPT !.minp = m] \in LocalsType
        /\ [x EXCEPT !.lk = "none", !.idx = 0] \in LocalsType
  <2> SUFFICES ASSUME NEW x \in LocalsType
               PROVE  /\ \A k \in Procs \cup {0} : [x EXCEPT !.idx = k] \in LocalsType
                      /\ \A t \in 0..(TickModulus - 1) : [x EXCEPT !.t0 = t] \in LocalsType
                      /\ \A k \in {"tickslock", "wait_lock"} : [x EXCEPT !.lk = k] \in LocalsType
                      /\ \A m \in Procs \cup {Null} : [x EXCEPT !.minp = m] \in LocalsType
                      /\ [x EXCEPT !.lk = "none", !.idx = 0] \in LocalsType
    OBVIOUS
  <2>1. \A k \in Procs \cup {0} : [x EXCEPT !.idx = k] \in LocalsType
    BY DEF LocalsType
  <2>2. \A t \in 0..(TickModulus - 1) : [x EXCEPT !.t0 = t] \in LocalsType
    BY DEF LocalsType
  <2>3. \A k \in {"tickslock", "wait_lock"} : [x EXCEPT !.lk = k] \in LocalsType
    BY DEF LocalsType
  <2>4. \A m \in Procs \cup {Null} : [x EXCEPT !.minp = m] \in LocalsType
    BY DEF LocalsType
  <2>5. [x EXCEPT !.lk = "none", !.idx = 0] \in LocalsType
    BY DEF LocalsType
  <2>6. QED
    BY <2>1, <2>2, <2>3, <2>4, <2>5
<1>4. \A k \in Procs : [NoLocals EXCEPT !.np = k] \in LocalsType
  BY <1>2 DEF LocalsType
<1>5. \A t \in Nat : [NoLocals EXCEPT !.tmp = t] \in LocalsType
  BY <1>2 DEF LocalsType
<1>6. \A k \in Procs, m \in KillPids : [NoLocals EXCEPT !.idx = k, !.pid = m] \in LocalsType
  BY <1>2 DEF LocalsType
<1>7. \A n \in SleepTimes : [NoLocals EXCEPT !.n = n] \in LocalsType
  BY <1>2 DEF LocalsType
<1>8. \A k \in Procs : [NoLocals EXCEPT !.idx = k] \in LocalsType
  BY <1>2, <1>3
<1>9. QED
  BY <1>2, <1>3, <1>4, <1>5, <1>6, <1>7, <1>8

\* What is not touched stays in order.
LEMMA ReadySetStays ==
  ASSUME KernelInv, UNCHANGED rqVars
  PROVE  RQInv' /\ queue' = queue
<1>1. QED
  BY DEF KernelInv, rqVars, RQInv, RQTypeOK, NoDuplicates, QueueOrdered, WeightIsSum,
         PeriodFollowsLoad, SliceBounded

\* The step of a thread that no interrupt handler runs on top of.
LEMMA CallMoves ==
  ASSUME KernelInv, NEW c \in CPUs, NEW p \in Procs, OnCPU(c, p),
         pc[p] \notin {"yield", "check", "yielded", "forkinsert"},
         NEW l \in Labels \ {"dead", "forkinsert"}, NEW x,
         UNCHANGED <<spc, sproc, cproc, state, queue, ipc>>,
         pc' = [pc EXCEPT ![p] = l], loc' = [loc EXCEPT ![p] = x],
         KernelTypes', RQInv',
         LocksMove(c, p, l, x),
         l = "sleep" => x.lk # "none",
         l \in {"alloc", "kill"} => x.idx \in Procs,
         l \in {"reparent", "zombie"} => p # initproc,
         l \in Forking => pc[p] \in Forking /\ x.np = loc[p].np
  PROVE  KernelInv'
<1>1. ipc[p] = "none" /\ ipc' = [ipc EXCEPT ![p] = "none"]
  <2>1. ipc[p] = "none"
    BY RunningThread DEF ThreadOK
  <2>2. ipc \in [Procs -> Labels \cup {"none"}]
    BY DEF KernelInv, KernelTypes
  <2>3. QED
    BY <2>1, <2>2
<1>2. ThreadOK(p, l, "none", x)
  BY DEF ThreadOK
<1>3. ForkStays(p, l, "none", x)
  BY <1>1 DEF ForkStays, AtLabel, At, Forking
<1>4. QED
  BY <1>1, <1>2, <1>3, ThreadMoves

-----------------------------------------------------------------------------
(* sleep, wakeup and kill                                                  *)

\* sleep comes back from sched and gives up p->lock.
LEMMA sleptStep ==
  ASSUME KernelInv, NEW c \in CPUs, NEW p \in Procs, slept(c, p)
  PROVE  KernelInv'
<1>1. /\ OnCPU(c, p) /\ pc[p] = "slept"
      /\ chan' = [chan EXCEPT ![p] = Null] /\ plock' = Unlock(plock, p)
      /\ pc' = [pc EXCEPT ![p] = "relock"] /\ UNCHANGED <<ipc, intrOn, again, loc>>
      /\ UNCHANGED <<state, killed, currentRuntime, pid, parent, nextpid, tickslock,
                     wait_lock, cproc, spc, sproc, found, wk, ticks, panicked>>
      /\ UNCHANGED rqVars
  BY DEF slept, Goto, idVars, cpuVars
<1>2. KernelTypes
  BY DEF KernelInv
<1>3. KernelTypes'
  BY <1>1, <1>2 DEF KernelTypes, Unlock, Holders, Labels
<1>4. loc' = [loc EXCEPT ![p] = loc[p]]
  BY <1>1, <1>2 DEF KernelTypes
<1>5. LocksMove(c, p, "relock", loc[p])
  BY <1>1 DEF LocksMove, PlockMove, WaitMove, WakeMove, TicksMove, HoldsOwn, HoldsWait, HoldsTicks
<1>6. QED
  BY <1>1, <1>3, <1>4, <1>5, ReadySetStays, CallMoves DEF Labels, Forking

\* sleep takes the lock of its caller again.
LEMMA relockStep ==
  ASSUME KernelInv, NEW c \in CPUs, NEW p \in Procs, relock(c, p)
  PROVE  KernelInv'
<1> DEFINE x == [loc[p] EXCEPT !.lk = "none", !.idx = 0]
<1>1. /\ OnCPU(c, p) /\ pc[p] = "relock"
      /\ UNCHANGED rqVars
      /\ UNCHANGED <<state, chan, killed, currentRuntime, pid, parent, nextpid, plock,
                     cproc, spc, sproc, found, wk, ticks, panicked, ipc, intrOn, again>>
  BY DEF relock, GotoWith, idVars, cpuVars, procVars
<1>2. KernelTypes
  BY DEF KernelInv
<1>3. x \in LocalsType
  BY <1>2, LocalsTypes DEF KernelTypes
<1> HIDE DEF x
<1>4. CASE loc[p].lk = "tickslock"
  <2>1. /\ tickslock = NoCPU /\ tickslock' = c /\ wait_lock' = wait_lock
        /\ pc' = [pc EXCEPT ![p] = "sleepcheck"] /\ loc' = [loc EXCEPT ![p] = x]
    BY <1>4 DEF relock, GotoWith, x
  <2>2. KernelTypes'
    BY <1>1, <1>2, <1>3, <2>1 DEF KernelTypes, Holders, Labels
  <2>3. LocksMove(c, p, "sleepcheck", x)
    BY <1>1, <2>1 DEF LocksMove, PlockMove, WaitMove, WakeMove, TicksMove, HoldsOwn, HoldsWait, HoldsTicks
  <2>4. QED
    BY <1>1, <2>1, <2>2, <2>3, ReadySetStays, CallMoves DEF Labels, Forking
<1>5. CASE loc[p].lk # "tickslock"
  <2>1. /\ wait_lock = NoCPU /\ wait_lock' = c /\ tickslock' = tickslock
        /\ pc' = [pc EXCEPT ![p] = "waitscan"] /\ loc' = [loc EXCEPT ![p] = x]
    BY <1>5 DEF relock, GotoWith, x
  <2>2. KernelTypes'
    BY <1>1, <1>2, <1>3, <2>1 DEF KernelTypes, Holders, Labels
  <2>3. LocksMove(c, p, "waitscan", x)
    BY <1>1, <2>1 DEF LocksMove, PlockMove, WaitMove, WakeMove, TicksMove, HoldsOwn, HoldsWait, HoldsTicks
  <2>4. QED
    BY <1>1, <2>1, <2>2, <2>3, ReadySetStays, CallMoves DEF Labels, Forking
<1>6. QED
  BY <1>4, <1>5

\* sys_sleep reads the clock under tickslock.
LEMMA sys_sleepStep ==
  ASSUME KernelInv, NEW c \in CPUs, NEW p \in Procs, sys_sleep(c, p)
  PROVE  KernelInv'
<1> DEFINE x == [loc[p] EXCEPT !.t0 = ticks]
<1>1. /\ OnCPU(c, p) /\ pc[p] = "sys_sleep"
      /\ UNCHANGED rqVars
      /\ tickslock = NoCPU /\ tickslock' = c
      /\ pc' = [pc EXCEPT ![p] = "sleepcheck"] /\ loc' = [loc EXCEPT ![p] = x]
      /\ UNCHANGED <<state, chan, killed, currentRuntime, pid, parent, nextpid, plock, wait_lock,
                     cproc, spc, sproc, found, wk, ticks, panicked, ipc, intrOn, again>>
  BY DEF sys_sleep, GotoWith, idVars, cpuVars, procVars
<1>2. KernelTypes
  BY DEF KernelInv
<1>3. x \in LocalsType
  BY <1>2, LocalsTypes DEF KernelTypes
<1> HIDE DEF x
<1>4. KernelTypes'
  BY <1>1, <1>2, <1>3 DEF KernelTypes, Holders, Labels
<1>5. LocksMove(c, p, "sleepcheck", x)
  BY <1>1 DEF LocksMove, PlockMove, WaitMove, WakeMove, TicksMove, HoldsOwn, HoldsWait, HoldsTicks
<1>6. QED
  BY <1>1, <1>4, <1>5, ReadySetStays, CallMoves DEF Labels, Forking

\* sys_sleep looks whether its time has come.
LEMMA sleepcheckStep ==
  ASSUME KernelInv, NEW c \in CPUs, NEW p \in Procs, sleepcheck(c, p)
  PROVE  KernelInv'
<1> DEFINE x == [loc[p] EXCEPT !.lk = "tickslock"]
<1>1. /\ OnCPU(c, p) /\ pc[p] = "sleepcheck"
      /\ UNCHANGED rqVars
      /\ UNCHANGED <<state, chan, killed, currentRuntime, pid, parent, nextpid, plock, wait_lock,
                     cproc, spc, sproc, found, wk, ticks, panicked, ipc, intrOn, again>>
  BY DEF sleepcheck, GotoWith, SyscallReturn, idVars, cpuVars, procVars
<1>2. KernelTypes
  BY DEF KernelInv
<1>3. x \in LocalsType /\ x.lk = "tickslock" /\ NoLocals \in LocalsType
  <2>1. loc[p] \in LocalsType
    BY <1>2 DEF KernelTypes
  <2>2. x.lk = "tickslock"
    BY <2>1 DEF LocalsType
  <2>3. QED
    BY <2>1, <2>2, LocalsTypes
<1> HIDE DEF x
<1>4. CASE stillWaiting(p) /\ ~killed[p]
  <2>1. /\ tickslock' = tickslock
        /\ pc' = [pc EXCEPT ![p] = "sleep"] /\ loc' = [loc EXCEPT ![p] = x]
    BY <1>4 DEF sleepcheck, GotoWith, x
  <2>2. KernelTypes'
    BY <1>1, <1>2, <1>3, <2>1 DEF KernelTypes, Holders, Labels
  <2>3. LocksMove(c, p, "sleep", x)
    BY <1>1, <1>3, <2>1 DEF LocksMove, PlockMove, WaitMove, WakeMove, TicksMove, HoldsOwn, HoldsWait, HoldsTicks
  <2>4. QED
    BY <1>1, <1>3, <2>1, <2>2, <2>3, ReadySetStays, CallMoves DEF Labels, Forking
<1>5. CASE ~(stillWaiting(p) /\ ~killed[p])
  <2>1. /\ tickslock' = NoCPU
        /\ pc' = [pc EXCEPT ![p] = "trapout"] /\ loc' = [loc EXCEPT ![p] = NoLocals]
    BY <1>5 DEF sleepcheck, GotoWith, SyscallReturn
  <2>2. KernelTypes'
    BY <1>1, <1>2, <1>3, <2>1 DEF KernelTypes, Holders, Labels
  <2>3. LocksMove(c, p, "trapout", NoLocals)
    BY <1>1, <2>1 DEF LocksMove, PlockMove, WaitMove, WakeMove, TicksMove, HoldsOwn, HoldsWait, HoldsTicks
  <2>4. QED
    BY <1>1, <2>1, <2>2, <2>3, ReadySetStays, CallMoves DEF Labels, Forking
<1>6. QED
  BY <1>4, <1>5

-----------------------------------------------------------------------------
(* fork, exit and wait                                                     *)

\* allocproc looks at a slot.
LEMMA allocprocStep ==
  ASSUME KernelInv, NEW c \in CPUs, NEW p \in Procs, allocproc(c, p)
  PROVE  KernelInv'
<1> DEFINE x == [loc[p] EXCEPT !.idx = loc[p].idx + 1]
<1>1. /\ OnCPU(c, p) /\ pc[p] = "alloc"
      /\ UNCHANGED rqVars
      /\ UNCHANGED <<state, chan, killed, currentRuntime, pid, parent, nextpid, plock, wait_lock, tickslock,
                     cproc, spc, sproc, found, wk, ticks, panicked, ipc, intrOn, again>>
  BY DEF allocproc, GotoWith, SyscallReturn, idVars, cpuVars, procVars, lockVars
<1>2. KernelTypes
  BY DEF KernelInv
<1>3. loc[p].idx \in Procs /\ loc[p] \in LocalsType /\ NoLocals \in LocalsType
  <2>1. ThreadOK(p, pc[p], ipc[p], loc[p])
    BY <1>1, RunningThread
  <2>2. QED
    BY <1>1, <1>2, <2>1, LocalsTypes DEF ThreadOK, KernelTypes
<1>4. CASE loc[p].idx = NPROC
  <2>1. /\ pc' = [pc EXCEPT ![p] = "trapout"] /\ loc' = [loc EXCEPT ![p] = NoLocals]
    BY <1>4 DEF allocproc, GotoWith, SyscallReturn
  <2>2. KernelTypes'
    BY <1>1, <1>2, <1>3, <2>1 DEF KernelTypes, Labels
  <2>3. LocksMove(c, p, "trapout", NoLocals)
    BY <1>1, <2>1 DEF LocksMove, PlockMove, WaitMove, WakeMove, TicksMove, HoldsOwn, HoldsWait, HoldsTicks
  <2>4. QED
    BY <1>1, <2>1, <2>2, <2>3, ReadySetStays, CallMoves DEF Labels, Forking
<1>5. CASE loc[p].idx # NPROC
  <2>0. loc[p].idx + 1 \in Procs /\ x \in LocalsType /\ x.idx \in Procs
    <3>1. loc[p].idx + 1 \in Procs
      BY <1>3, <1>5, Numbers
    <3>2. QED
      BY <1>3, <3>1, LocalsTypes DEF LocalsType
  <2> HIDE DEF x
  <2>1. /\ pc' = [pc EXCEPT ![p] = "alloc"] /\ loc' = [loc EXCEPT ![p] = x]
    BY <1>5 DEF allocproc, GotoWith, x
  <2>2. KernelTypes'
    BY <1>1, <1>2, <2>0, <2>1 DEF KernelTypes, Labels
  <2>3. LocksMove(c, p, "alloc", x)
    BY <1>1, <2>1 DEF LocksMove, PlockMove, WaitMove, WakeMove, TicksMove, HoldsOwn, HoldsWait, HoldsTicks
  <2>4. QED
    BY <1>1, <2>0, <2>1, <2>2, <2>3, ReadySetStays, CallMoves DEF Labels, Forking
<1>6. QED
  BY <1>4, <1>5

\* fork sets the parent under wait_lock.
LEMMA forkParentStep ==
  ASSUME KernelInv, NEW c \in CPUs, NEW p \in Procs, forkParent(c, p)
  PROVE  KernelInv'
<1>1. /\ OnCPU(c, p) /\ pc[p] = "forkparent"
      /\ UNCHANGED rqVars
      /\ parent' = [parent EXCEPT ![loc[p].np] = p]
      /\ pc' = [pc EXCEPT ![p] = "forkrun"]
      /\ UNCHANGED <<state, chan, killed, currentRuntime, pid, nextpid, plock, wait_lock, tickslock,
                     cproc, spc, sproc, found, wk, ticks, panicked, ipc, intrOn, again, loc>>
  BY DEF forkParent, Goto, idVars, cpuVars, procVars, lockVars
<1>2. KernelTypes
  BY DEF KernelInv
<1>3. loc' = [loc EXCEPT ![p] = loc[p]]
  BY <1>1, <1>2 DEF KernelTypes
<1>4. KernelTypes'
  BY <1>1, <1>2 DEF KernelTypes, Labels
<1>5. LocksMove(c, p, "forkrun", loc[p])
  BY <1>1 DEF LocksMove, PlockMove, WaitMove, WakeMove, TicksMove, HoldsOwn, HoldsWait, HoldsTicks
<1>6. QED
  BY <1>1, <1>3, <1>4, <1>5, ReadySetStays, CallMoves DEF Labels, Forking

\* A new process gives up the p->lock that the scheduler took.
LEMMA forkretStep ==
  ASSUME KernelInv, NEW c \in CPUs, NEW p \in Procs, forkret(c, p)
  PROVE  KernelInv'
<1>1. /\ OnCPU(c, p) /\ pc[p] = "forkret"
      /\ UNCHANGED rqVars
      /\ plock' = Unlock(plock, p)
      /\ pc' = [pc EXCEPT ![p] = "user"]
      /\ UNCHANGED <<state, chan, killed, currentRuntime, pid, parent, nextpid, wait_lock, tickslock,
                     cproc, spc, sproc, found, wk, ticks, panicked, ipc, intrOn, again, loc>>
  BY DEF forkret, Goto, idVars, cpuVars, procVars
<1>2. KernelTypes
  BY DEF KernelInv
<1>3. loc' = [loc EXCEPT ![p] = loc[p]]
  BY <1>1, <1>2 DEF KernelTypes
<1>4. KernelTypes'
  BY <1>1, <1>2 DEF KernelTypes, Labels, Unlock, Holders
<1>5. LocksMove(c, p, "user", loc[p])
  BY <1>1 DEF LocksMove, PlockMove, WaitMove, WakeMove, TicksMove, HoldsOwn, HoldsWait, HoldsTicks
<1>6. QED
  BY <1>1, <1>3, <1>4, <1>5, ReadySetStays, CallMoves DEF Labels, Forking

\* exit takes wait_lock.
LEMMA exitStep ==
  ASSUME KernelInv, NEW c \in CPUs, NEW p \in Procs, exit(c, p)
  PROVE  KernelInv'
<1>1. /\ OnCPU(c, p) /\ pc[p] = "exit"
      /\ UNCHANGED rqVars
      /\ UNCHANGED <<state, chan, killed, currentRuntime, pid, parent, nextpid, plock, tickslock,
                     cproc, spc, sproc, found, wk, ticks, ipc, intrOn, again>>
  BY DEF exit, GotoWith, idVars, cpuVars, procVars, threadVars
<1>2. KernelTypes
  BY DEF KernelInv
<1>3. CASE p = initproc
  <2>1. panicked' = "init exiting" /\ UNCHANGED <<wait_lock, pc, loc>>
    BY <1>3 DEF exit, threadVars
  <2>2. pc' = [pc EXCEPT ![p] = "exit"] /\ loc' = [loc EXCEPT ![p] = loc[p]]
    BY <1>1, <1>2, <2>1 DEF KernelTypes
  <2>3. KernelTypes'
    BY <1>1, <1>2, <2>1 DEF KernelTypes
  <2>4. LocksMove(c, p, "exit", loc[p])
    BY <1>1, <2>1 DEF LocksMove, PlockMove, WaitMove, WakeMove, TicksMove, HoldsOwn, HoldsWait, HoldsTicks
  <2>5. QED
    BY <1>1, <2>2, <2>3, <2>4, ReadySetStays, CallMoves DEF Labels, Forking
<1>4. CASE p # initproc
  <2>1. /\ wait_lock = NoCPU /\ wait_lock' = c /\ panicked' = panicked
        /\ pc' = [pc EXCEPT ![p] = "reparent"] /\ loc' = [loc EXCEPT ![p] = NoLocals]
    BY <1>4 DEF exit, GotoWith
  <2>2. KernelTypes'
    BY <1>1, <1>2, <2>1, LocalsTypes DEF KernelTypes, Labels, Holders
  <2>3. LocksMove(c, p, "reparent", NoLocals)
    BY <1>1, <2>1 DEF LocksMove, PlockMove, WaitMove, WakeMove, TicksMove, HoldsOwn, HoldsWait, HoldsTicks
  <2>4. QED
    BY <1>1, <1>4, <2>1, <2>2, <2>3, ReadySetStays, CallMoves DEF Labels, Forking
<1>5. QED
  BY <1>3, <1>4

\* exit gives its children away.
LEMMA reparentStep ==
  ASSUME KernelInv, NEW c \in CPUs, NEW p \in Procs, reparent(c, p)
  PROVE  KernelInv'
<1>1. /\ OnCPU(c, p) /\ pc[p] = "reparent"
      /\ UNCHANGED rqVars
      /\ UNCHANGED <<state, chan, killed, currentRuntime, pid, nextpid, plock, tickslock, wait_lock,
                     cproc, spc, sproc, found, ticks, ipc, intrOn, again, loc, panicked>>
  BY DEF reparent, Goto, lockVars, procVars, threadVars
<1>2. KernelTypes
  BY DEF KernelInv
<1>3. loc' = [loc EXCEPT ![p] = loc[p]] /\ parent[p] \in Procs \cup {Null}
  BY <1>1, <1>2 DEF KernelTypes
<1>4. p # initproc
  BY <1>1, RunningThread DEF ThreadOK
<1>5. 1 \in Procs /\ initproc \in Procs
  BY Numbers
<1>6. CASE Children(p) # {}
  <2>1. /\ parent' = [parent EXCEPT ![Least(Children(p))] = initproc]
        /\ wk' = [wk EXCEPT ![c] = [idx |-> 1, chan |-> initproc]]
        /\ pc' = pc
    BY <1>6 DEF reparent, callWakeup, threadVars
  <2>2. pc' = [pc EXCEPT ![p] = "reparent"]
    BY <1>1, <1>2, <2>1 DEF KernelTypes
  <2>3. KernelTypes'
    BY <1>1, <1>2, <1>5, <2>1 DEF KernelTypes
  <2>4. LocksMove(c, p, "reparent", loc[p])
    BY <1>1, <1>5, <2>1 DEF LocksMove, PlockMove, WaitMove, WakeMove, TicksMove, HoldsOwn, HoldsWait, HoldsTicks
  <2>5. QED
    BY <1>1, <1>3, <1>4, <2>2, <2>3, <2>4, ReadySetStays, CallMoves DEF Labels, Forking
<1>7. CASE Children(p) = {}
  <2>1. /\ parent' = parent
        /\ wk' = [wk EXCEPT ![c] = [idx |-> 1, chan |-> parent[p]]]
        /\ pc' = [pc EXCEPT ![p] = "zombie"]
    BY <1>7 DEF reparent, callWakeup, Goto
  <2>2. KernelTypes'
    BY <1>1, <1>2, <1>3, <1>5, <2>1 DEF KernelTypes, Labels
  <2>3. LocksMove(c, p, "zombie", loc[p])
    BY <1>1, <1>3, <2>1 DEF LocksMove, PlockMove, WaitMove, WakeMove, TicksMove, HoldsOwn, HoldsWait, HoldsTicks
  <2>4. QED
    BY <1>1, <1>3, <1>4, <2>1, <2>2, <2>3, ReadySetStays, CallMoves DEF Labels, Forking
<1>8. QED
  BY <1>6, <1>7

\* wait takes wait_lock and begins to look at the slots.
LEMMA waitStep ==
  ASSUME KernelInv, NEW c \in CPUs, NEW p \in Procs, wait(c, p)
  PROVE  KernelInv'
<1>1. /\ OnCPU(c, p) /\ pc[p] = "wait"
      /\ UNCHANGED rqVars
      /\ wait_lock = NoCPU /\ wait_lock' = c
      /\ pc' = [pc EXCEPT ![p] = "waitscan"] /\ loc' = [loc EXCEPT ![p] = NoLocals]
      /\ UNCHANGED <<state, chan, killed, currentRuntime, pid, parent, nextpid, plock, tickslock,
                     cproc, spc, sproc, found, wk, ticks, panicked, ipc, intrOn, again>>
  BY DEF wait, GotoWith, idVars, cpuVars, procVars
<1>2. KernelTypes
  BY DEF KernelInv
<1>3. KernelTypes'
  BY <1>1, <1>2, LocalsTypes DEF KernelTypes, Labels, Holders
<1>4. LocksMove(c, p, "waitscan", NoLocals)
  BY <1>1 DEF LocksMove, PlockMove, WaitMove, WakeMove, TicksMove, HoldsOwn, HoldsWait, HoldsTicks
<1>5. QED
  BY <1>1, <1>3, <1>4, ReadySetStays, CallMoves DEF Labels, Forking

\* wait has found no zombie, and sleeps or returns.
LEMMA waitSleepStep ==
  ASSUME KernelInv, NEW c \in CPUs, NEW p \in Procs, waitSleep(c, p)
  PROVE  KernelInv'
<1> DEFINE x == [loc[p] EXCEPT !.lk = "wait_lock"]
<1>1. /\ OnCPU(c, p) /\ pc[p] = "waitscan"
      /\ UNCHANGED rqVars
      /\ UNCHANGED <<state, chan, killed, currentRuntime, pid, parent, nextpid, plock, tickslock,
                     cproc, spc, sproc, found, wk, ticks, panicked, ipc, intrOn, again>>
  BY DEF waitSleep, GotoWith, SyscallReturn, idVars, cpuVars, procVars
<1>2. KernelTypes
  BY DEF KernelInv
<1>3. x \in LocalsType /\ x.lk = "wait_lock" /\ NoLocals \in LocalsType
  <2>1. loc[p] \in LocalsType
    BY <1>2 DEF KernelTypes
  <2>2. x.lk = "wait_lock"
    BY <2>1 DEF LocalsType
  <2>3. QED
    BY <2>1, <2>2, LocalsTypes
<1> HIDE DEF x
<1>4. CASE Children(p) = {} \/ killed[p]
  <2>1. /\ wait_lock' = NoCPU
        /\ pc' = [pc EXCEPT ![p] = "trapout"] /\ loc' = [loc EXCEPT ![p] = NoLocals]
    BY <1>4 DEF waitSleep, GotoWith, SyscallReturn
  <2>2. KernelTypes'
    BY <1>1, <1>2, <1>3, <2>1 DEF KernelTypes, Holders, Labels
  <2>3. LocksMove(c, p, "trapout", NoLocals)
    BY <1>1, <2>1 DEF LocksMove, PlockMove, WaitMove, WakeMove, TicksMove, HoldsOwn, HoldsWait, HoldsTicks
  <2>4. QED
    BY <1>1, <2>1, <2>2, <2>3, ReadySetStays, CallMoves DEF Labels, Forking
<1>5. CASE ~(Children(p) = {} \/ killed[p])
  <2>1. /\ wait_lock' = wait_lock
        /\ pc' = [pc EXCEPT ![p] = "sleep"] /\ loc' = [loc EXCEPT ![p] = x]
    BY <1>5 DEF waitSleep, GotoWith, x
  <2>2. KernelTypes'
    BY <1>1, <1>2, <1>3, <2>1 DEF KernelTypes, Holders, Labels
  <2>3. LocksMove(c, p, "sleep", x)
    BY <1>1, <1>3, <2>1 DEF LocksMove, PlockMove, WaitMove, WakeMove, TicksMove, HoldsOwn, HoldsWait, HoldsTicks
  <2>4. QED
    BY <1>1, <1>3, <2>1, <2>2, <2>3, ReadySetStays, CallMoves DEF Labels, Forking
<1>6. QED
  BY <1>4, <1>5

-----------------------------------------------------------------------------
(* Traps.                                                                  *)

\* A trap ends.
LEMMA trapoutStep ==
  ASSUME KernelInv, NEW c \in CPUs, NEW p \in Procs, trapout(c, p)
  PROVE  KernelInv'
<1>1. /\ OnCPU(c, p) /\ pc[p] = "trapout"
      /\ UNCHANGED rqVars
      /\ UNCHANGED <<state, chan, killed, currentRuntime, pid, parent, nextpid, plock, tickslock, wait_lock,
                     cproc, spc, sproc, found, wk, ticks, panicked, ipc, intrOn, again>>
  BY DEF trapout, Goto, GotoWith, idVars, cpuVars, procVars, lockVars
<1>2. KernelTypes
  BY DEF KernelInv
<1>3. PICK l \in {"exit", "charge"}, x \in {NoLocals, loc[p]} :
        pc' = [pc EXCEPT ![p] = l] /\ loc' = [loc EXCEPT ![p] = x]
  BY <1>2 DEF trapout, Goto, GotoWith, KernelTypes
<1>4. KernelTypes'
  BY <1>1, <1>2, <1>3, LocalsTypes DEF KernelTypes, Labels
<1>5. LocksMove(c, p, l, x)
  BY <1>1, <1>3 DEF LocksMove, PlockMove, WaitMove, WakeMove, TicksMove, HoldsOwn, HoldsWait, HoldsTicks
<1>6. QED
  BY <1>1, <1>3, <1>4, <1>5, ReadySetStays, CallMoves DEF Labels, Forking

\* usertrap reads the runtime that it will add to.
LEMMA chargeStep ==
  ASSUME KernelInv, NEW c \in CPUs, NEW p \in Procs, charge(c, p)
  PROVE  KernelInv'
<1> DEFINE x == [NoLocals EXCEPT !.tmp = currentRuntime[p]]
<1>1. /\ OnCPU(c, p) /\ pc[p] = "charge"
      /\ UNCHANGED rqVars
      /\ UNCHANGED <<state, chan, killed, currentRuntime, pid, parent, nextpid, plock, tickslock, wait_lock,
                     cproc, spc, sproc, found, wk, ticks, panicked, ipc, intrOn>>
  BY DEF charge, GotoWith, idVars, cpuVars, procVars, lockVars
<1>2. KernelTypes
  BY DEF KernelInv
<1>3. x \in LocalsType
  BY <1>2, LocalsTypes DEF KernelTypes
<1> HIDE DEF x
<1>4. pc' = [pc EXCEPT ![p] = "incr"] /\ loc' = [loc EXCEPT ![p] = x] /\ again' = again
  BY <1>1, RunningThread DEF charge, GotoWith, x
<1>5. KernelTypes'
  BY <1>1, <1>2, <1>3, <1>4 DEF KernelTypes, Labels
<1>6. LocksMove(c, p, "incr", x)
  BY <1>1 DEF LocksMove, PlockMove, WaitMove, WakeMove, TicksMove, HoldsOwn, HoldsWait, HoldsTicks
<1>7. QED
  BY <1>1, <1>4, <1>5, <1>6, ReadySetStays, CallMoves DEF Labels, Forking

\* usertrap adds to it.
LEMMA incrStep ==
  ASSUME KernelInv, NEW c \in CPUs, NEW p \in Procs, incr(c, p)
  PROVE  KernelInv'
<1>1. /\ OnCPU(c, p) /\ pc[p] = "incr"
      /\ UNCHANGED rqVars
      /\ currentRuntime' = [currentRuntime EXCEPT ![p] = loc[p].tmp + 1]
      /\ pc' = [pc EXCEPT ![p] = "yield"] /\ loc' = [loc EXCEPT ![p] = NoLocals]
      /\ UNCHANGED <<state, chan, killed, pid, parent, nextpid, plock, tickslock, wait_lock,
                     cproc, spc, sproc, found, wk, ticks, panicked, ipc, intrOn, again>>
  BY DEF incr, GotoWith, idVars, cpuVars, lockVars
<1>2. KernelTypes
  BY DEF KernelInv
<1>3. loc[p].tmp + 1 \in Nat
  <2>1. loc[p].tmp \in Nat
    BY <1>2 DEF KernelTypes, LocalsType
  <2>2. QED
    BY <2>1
<1>4. KernelTypes'
  BY <1>1, <1>2, <1>3, LocalsTypes DEF KernelTypes, Labels
<1>5. LocksMove(c, p, "yield", NoLocals)
  BY <1>1 DEF LocksMove, PlockMove, WaitMove, WakeMove, TicksMove, HoldsOwn, HoldsWait, HoldsTicks
<1>6. QED
  BY <1>1, <1>4, <1>5, ReadySetStays, CallMoves DEF Labels, Forking

\* A system call starts with locals that fit its label.
LEMMA DispatchOK ==
  ASSUME NEW p \in Procs, Dispatch(p)
  PROVE  \E l \in {"alloc", "exit", "wait", "kill", "sys_sleep", "trapout"}, x \in LocalsType :
           /\ EnterTrap(p, l, x, TRUE, FALSE)
           /\ l \in {"alloc", "kill"} => x.idx \in Procs
<1>0. 1 \in Procs
  BY Numbers
<1>1. \A k \in KillPids : [NoLocals EXCEPT !.idx = 1, !.pid = k].idx = 1
  BY DEF NoLocals
<1>2. [NoLocals EXCEPT !.idx = 1].idx = 1
  BY DEF NoLocals
<1>3. QED
  BY <1>0, <1>1, <1>2, LocalsTypes DEF Dispatch

\* A process traps into a system call.
LEMMA syscallStep ==
  ASSUME KernelInv, NEW c \in CPUs, NEW p \in Procs, syscall(c, p)
  PROVE  KernelInv'
<1>1. /\ OnCPU(c, p) /\ pc[p] = "user"
      /\ UNCHANGED rqVars
      /\ UNCHANGED <<state, chan, killed, currentRuntime, pid, parent, nextpid, plock, tickslock, wait_lock,
                     cproc, spc, sproc, found, wk, ticks, panicked, ipc>>
  BY DEF syscall, Dispatch, FromUser, EnterTrap, idVars, cpuVars, procVars, lockVars
<1>2. KernelTypes
  BY DEF KernelInv
<1>3. \E l \in {"alloc", "exit", "wait", "kill", "sys_sleep", "trapout"}, x \in LocalsType, b \in BOOLEAN :
        /\ l \in {"alloc", "kill"} => x.idx \in Procs
        /\ pc' = [pc EXCEPT ![p] = l] /\ loc' = [loc EXCEPT ![p] = x]
        /\ intrOn' = [intrOn EXCEPT ![p] = b] /\ again' = [again EXCEPT ![p] = FALSE]
  <2>1. CASE killed[p]
    BY <2>1, LocalsTypes DEF syscall, EnterTrap
  <2>2. CASE ~killed[p]
    <3>1. PICK l \in {"alloc", "exit", "wait", "kill", "sys_sleep", "trapout"}, x \in LocalsType :
            /\ EnterTrap(p, l, x, TRUE, FALSE)
            /\ l \in {"alloc", "kill"} => x.idx \in Procs
      BY <2>2, DispatchOK DEF syscall
    <3>2. QED
      BY <3>1 DEF EnterTrap
  <2>3. QED
    BY <2>1, <2>2
<1>4. PICK l \in {"alloc", "exit", "wait", "kill", "sys_sleep", "trapout"}, x \in LocalsType, b \in BOOLEAN :
        /\ l \in {"alloc", "kill"} => x.idx \in Procs
        /\ pc' = [pc EXCEPT ![p] = l] /\ loc' = [loc EXCEPT ![p] = x]
        /\ intrOn' = [intrOn EXCEPT ![p] = b] /\ again' = [again EXCEPT ![p] = FALSE]
  BY <1>3
<1>5. KernelTypes'
  BY <1>1, <1>2, <1>4 DEF KernelTypes, Labels
<1>6. LocksMove(c, p, l, x)
  BY <1>1 DEF LocksMove, PlockMove, WaitMove, WakeMove, TicksMove, HoldsOwn, HoldsWait, HoldsTicks
<1>7. QED
  BY <1>1, <1>4, <1>5, <1>6, ReadySetStays, CallMoves DEF Labels, Forking

\* A process is interrupted by a device, or faults.
LEMMA userDeviceStep ==
  ASSUME KernelInv, NEW c \in CPUs, NEW p \in Procs, userDevice(c, p) \/ userFault(c, p)
  PROVE  KernelInv'
<1>1. /\ OnCPU(c, p) /\ pc[p] = "user"
      /\ UNCHANGED rqVars
      /\ killed' \in {killed, [killed EXCEPT ![p] = TRUE]}
      /\ pc' = [pc EXCEPT ![p] = "trapout"] /\ loc' = [loc EXCEPT ![p] = NoLocals]
      /\ intrOn' = [intrOn EXCEPT ![p] = FALSE] /\ again' = [again EXCEPT ![p] = FALSE]
      /\ UNCHANGED <<state, chan, currentRuntime, pid, parent, nextpid, plock, tickslock, wait_lock,
                     cproc, spc, sproc, found, wk, ticks, panicked, ipc>>
  BY DEF userDevice, userFault, FromUser, EnterTrap, idVars, cpuVars, procVars, lockVars
<1>2. KernelTypes
  BY DEF KernelInv
<1>3. KernelTypes'
  BY <1>1, <1>2, LocalsTypes DEF KernelTypes, Labels
<1>4. LocksMove(c, p, "trapout", NoLocals)
  BY <1>1 DEF LocksMove, PlockMove, WaitMove, WakeMove, TicksMove, HoldsOwn, HoldsWait, HoldsTicks
<1>5. QED
  BY <1>1, <1>3, <1>4, ReadySetStays, CallMoves DEF Labels, Forking

\* A timer interrupt at most takes tickslock for the wakeup it begins.
LEMMA ClockTypes ==
  ASSUME KernelTypes, NEW c \in CPUs, clockintr(c)
  PROVE  /\ ticks' \in 0..(TickModulus - 1) /\ tickslock' \in Holders
         /\ wk' \in [CPUs -> [idx : Procs \cup {0}, chan : Procs \cup {Null, TicksChan}]]
         /\ \/ UNCHANGED <<tickslock, wk>>
            \/ /\ tickslock = NoCPU /\ tickslock' = c
               /\ wk' = [wk EXCEPT ![c] = [idx |-> 1, chan |-> TicksChan]]
<1>1. 1 \in Procs
  BY Numbers
<1>2. (ticks + 1) % TickModulus \in 0..(TickModulus - 1)
  <2>0. ticks \in 0..(TickModulus - 1)
    BY DEF KernelTypes
  <2>1. ticks + 1 \in Nat
    BY <2>0, TickAssumption
  <2>2. \A t \in Nat : t % TickModulus \in 0..(TickModulus - 1)
    BY TickAssumption
  <2>3. QED
    BY <2>1, <2>2
<1>3. CASE c = 0
  <2>1. /\ ticks' = (ticks + 1) % TickModulus
        /\ tickslock = NoCPU /\ tickslock' = c
        /\ wk' = [wk EXCEPT ![c] = [idx |-> 1, chan |-> TicksChan]]
    BY <1>3 DEF clockintr, callWakeup
  <2>2. wk \in [CPUs -> [idx : Procs \cup {0}, chan : Procs \cup {Null, TicksChan}]]
    BY DEF KernelTypes
  <2>3. QED
    BY <1>1, <1>2, <2>1, <2>2 DEF Holders
<1>4. CASE c # 0
  BY <1>4 DEF KernelTypes, clockintr
<1>5. QED
  BY <1>3, <1>4

\* A process is interrupted by the timer.
LEMMA userTimerStep ==
  ASSUME KernelInv, NEW c \in CPUs, NEW p \in Procs, userTimer(c, p)
  PROVE  KernelInv'
<1>1. /\ OnCPU(c, p) /\ pc[p] = "user"
      /\ UNCHANGED rqVars /\ clockintr(c)
      /\ pc' = [pc EXCEPT ![p] = "trapout"] /\ loc' = [loc EXCEPT ![p] = NoLocals]
      /\ intrOn' = [intrOn EXCEPT ![p] = FALSE] /\ again' = [again EXCEPT ![p] = TRUE]
      /\ UNCHANGED <<state, chan, killed, currentRuntime, pid, parent, nextpid, plock, wait_lock,
                     cproc, spc, sproc, found, panicked, ipc>>
  BY DEF userTimer, FromUser, EnterTrap, idVars, procVars
<1>2. KernelTypes
  BY DEF KernelInv
<1>3. /\ ticks' \in 0..(TickModulus - 1) /\ tickslock' \in Holders
      /\ wk' \in [CPUs -> [idx : Procs \cup {0}, chan : Procs \cup {Null, TicksChan}]]
      /\ \/ UNCHANGED <<tickslock, wk>>
         \/ /\ tickslock = NoCPU /\ tickslock' = c
            /\ wk' = [wk EXCEPT ![c] = [idx |-> 1, chan |-> TicksChan]]
  BY <1>1, <1>2, ClockTypes
<1>4. KernelTypes'
  BY <1>1, <1>2, <1>3, LocalsTypes DEF KernelTypes, Labels
<1>5. LocksMove(c, p, "trapout", NoLocals)
  BY <1>1, <1>3 DEF LocksMove, PlockMove, WaitMove, WakeMove, TicksMove, HoldsOwn, HoldsWait, HoldsTicks
<1>6. QED
  BY <1>1, <1>4, <1>5, ReadySetStays, CallMoves DEF Labels, Forking

\* A thread in the kernel is interrupted by the timer.
LEMMA kernelTimerStep ==
  ASSUME KernelInv, NEW c \in CPUs, NEW p \in Procs, kernelTimer(c, p)
  PROVE  KernelInv'
<1>1. /\ OnCPU(c, p) /\ pc[p] \in Unlocked /\ ipc[p] = "none"
      /\ UNCHANGED rqVars /\ clockintr(c)
      /\ pc' = [pc EXCEPT ![p] = "yield"] /\ ipc' = [ipc EXCEPT ![p] = pc[p]]
      /\ UNCHANGED <<state, chan, killed, currentRuntime, pid, parent, nextpid, plock, wait_lock,
                     cproc, spc, sproc, found, panicked, intrOn, again, loc>>
  BY DEF kernelTimer, idVars, procVars
<1>2. KernelTypes
  BY DEF KernelInv
<1>3. /\ ticks' \in 0..(TickModulus - 1) /\ tickslock' \in Holders
      /\ wk' \in [CPUs -> [idx : Procs \cup {0}, chan : Procs \cup {Null, TicksChan}]]
      /\ \/ UNCHANGED <<tickslock, wk>>
         \/ /\ tickslock = NoCPU /\ tickslock' = c
            /\ wk' = [wk EXCEPT ![c] = [idx |-> 1, chan |-> TicksChan]]
  BY <1>1, <1>2, ClockTypes
<1>4. loc' = [loc EXCEPT ![p] = loc[p]]
  BY <1>1, <1>2 DEF KernelTypes
<1>5. KernelTypes'
  BY <1>1, <1>2, <1>3 DEF KernelTypes, Labels
<1>6. LocksMove(c, p, "yield", loc[p])
  BY <1>1, <1>3 DEF LocksMove, PlockMove, WaitMove, WakeMove, TicksMove, HoldsOwn, HoldsWait, HoldsTicks, Unlocked
<1>7. ThreadOK(p, "yield", pc[p], loc[p])
  <2>1. ThreadOK(p, pc[p], ipc[p], loc[p])
    BY <1>1, RunningThread
  <2>2. QED
    BY <1>1, <2>1 DEF ThreadOK, Unlocked
<1>8. ForkStays(p, "yield", pc[p], loc[p])
  BY <1>1 DEF ForkStays, At, AtLabel, Unlocked
<1>9. QED
  BY <1>1, <1>4, <1>5, <1>6, <1>7, <1>8, ReadySetStays, ThreadMoves DEF Labels

-----------------------------------------------------------------------------
(* yield, when the thread keeps the CPU.                                   *)

\* yield puts the process back among the ready ones and switches.
LEMMA yieldStep ==
  ASSUME KernelInv, NEW c \in CPUs, NEW p \in Procs, yield(c, p)
  PROVE  KernelInv'
<1> DEFINE m == IF queue = << >> THEN Null ELSE Head(queue)
           x == [loc[p] EXCEPT !.minp = m]
<1>1. /\ OnCPU(c, p) /\ pc[p] = "yield"
      /\ UNCHANGED rqVars /\ plock' = Lock(plock, p, c)
      /\ pc' = [pc EXCEPT ![p] = "check"] /\ loc' = [loc EXCEPT ![p] = x]
      /\ UNCHANGED <<state, chan, killed, currentRuntime, pid, parent, nextpid, tickslock, wait_lock,
                     cproc, spc, sproc, found, wk, ticks, panicked, ipc, intrOn, again>>
  BY DEF yield, GotoWith, idVars, cpuVars, procVars
<1>2. KernelTypes
  BY DEF KernelInv
<1>3. m \in Procs \cup {Null}
  BY DEF KernelInv, RQInv, RQTypeOK
<1> HIDE DEF m
<1>4. x \in LocalsType /\ x.np = loc[p].np /\ x.idx = loc[p].idx
  <2>1. loc[p] \in LocalsType
    BY <1>2 DEF KernelTypes
  <2>2. x.np = loc[p].np /\ x.idx = loc[p].idx
    BY <2>1 DEF LocalsType
  <2>3. QED
    BY <1>3, <2>1, <2>2, LocalsTypes
<1> HIDE DEF x
<1>5. KernelTypes'
  BY <1>1, <1>2, <1>4 DEF KernelTypes, Labels, Lock, Holders
<1>6. LocksMove(c, p, "check", x)
  BY <1>1 DEF LocksMove, PlockMove, WaitMove, WakeMove, TicksMove, HoldsOwn, HoldsWait, HoldsTicks
<1>7. ThreadOK(p, "check", ipc[p], x) /\ ForkStays(p, "check", ipc[p], x)
  <2>1. ThreadOK(p, pc[p], ipc[p], loc[p])
    BY <1>1, RunningThread
  <2>2. QED
    BY <1>1, <1>4, <2>1 DEF ThreadOK, ForkStays, At, AtLabel, Forking
<1>8. ipc' = [ipc EXCEPT ![p] = ipc[p]]
  BY <1>1, <1>2 DEF KernelTypes
<1>9. QED
  BY <1>1, <1>5, <1>6, <1>7, <1>8, ReadySetStays, ThreadMoves DEF Labels

\* yield returns to the code it interrupted, to a second yield or to user space.
LEMMA YieldReturns ==
  ASSUME KernelInv, NEW c \in CPUs, NEW p \in Procs, OnCPU(c, p),
         pc[p] \in {"check", "yielded"}, UNCHANGED rqVars,
         plock' = Unlock(plock, p), yieldReturns(p),
         NEW x \in LocalsType, loc' = [loc EXCEPT ![p] = x],
         x.np = loc[p].np, x.idx = loc[p].idx,
         UNCHANGED <<state, chan, killed, currentRuntime, pid, parent, nextpid, tickslock, wait_lock,
                     cproc, spc, sproc, found, wk, ticks, panicked, intrOn>>
  PROVE  KernelInv'
<1> DEFINE l == afterYield(p)
<1>1. /\ pc' = [pc EXCEPT ![p] = l] /\ ipc' = [ipc EXCEPT ![p] = "none"]
      /\ again' = [again EXCEPT ![p] = FALSE]
  BY DEF yieldReturns
<1>2. KernelTypes
  BY DEF KernelInv
<1>3. ThreadOK(p, pc[p], ipc[p], loc[p])
  BY RunningThread
<1>4. \/ ipc[p] # "none" /\ l = ipc[p] /\ l \in Unlocked
      \/ ipc[p] = "none" /\ l \in {"yield", "user"}
  BY <1>3 DEF afterYield, ThreadOK
<1> HIDE DEF l
<1>5. l \in Labels \ {"dead"}
  BY <1>4 DEF Unlocked, Labels
<1>6. KernelTypes'
  BY <1>1, <1>2, <1>5 DEF KernelTypes, Unlock, Holders
<1>7. LocksMove(c, p, l, x)
  BY <1>4 DEF LocksMove, PlockMove, WaitMove, WakeMove, TicksMove, HoldsOwn, HoldsWait, HoldsTicks, Unlocked
<1>8. ThreadOK(p, l, "none", x) /\ ForkStays(p, l, "none", x)
  BY <1>3, <1>4 DEF ThreadOK, ForkStays, At, AtLabel, Forking, Unlocked
<1>9. QED
  BY <1>1, <1>5, <1>6, <1>7, <1>8, ReadySetStays, ThreadMoves

\* yield returns.
LEMMA yieldedStep ==
  ASSUME KernelInv, NEW c \in CPUs, NEW p \in Procs, yielded(c, p)
  PROVE  KernelInv'
<1>1. /\ OnCPU(c, p) /\ pc[p] = "yielded" /\ yieldReturns(p)
      /\ UNCHANGED rqVars /\ plock' = Unlock(plock, p)
      /\ UNCHANGED <<state, chan, killed, currentRuntime, pid, parent, nextpid, tickslock, wait_lock,
                     cproc, spc, sproc, found, wk, ticks, panicked, intrOn, loc>>
  BY DEF yielded, idVars, cpuVars, procVars
<1>2. loc' = [loc EXCEPT ![p] = loc[p]] /\ loc[p] \in LocalsType
  BY <1>1 DEF KernelInv, KernelTypes
<1>3. QED
  BY <1>1, <1>2, YieldReturns

\* The else branch of yield(): checkPreemption lets the process go on.
LEMMA KeepsCPU ==
  ASSUME KernelInv, NEW c \in CPUs, NEW p \in Procs, preempt(c, p),
         ~checkPreemption(p, loc[p].minp)
  PROVE  KernelInv'
<1> DEFINE x == [loc[p] EXCEPT !.minp = Null]
<1>1. /\ OnCPU(c, p) /\ pc[p] = "check" /\ yieldReturns(p)
      /\ UNCHANGED rqVars /\ plock' = Unlock(plock, p)
      /\ loc' = [loc EXCEPT ![p].minp = Null]
      /\ UNCHANGED <<state, chan, killed, currentRuntime, pid, parent, nextpid, tickslock, wait_lock,
                     cproc, spc, sproc, found, wk, ticks, panicked, intrOn>>
  BY DEF preempt, idVars
<1>2. loc[p] \in LocalsType
  BY DEF KernelInv, KernelTypes
<1>3. loc' = [loc EXCEPT ![p] = x]
  BY <1>1
<1>4. x \in LocalsType /\ x.np = loc[p].np /\ x.idx = loc[p].idx
  <2>1. x.np = loc[p].np /\ x.idx = loc[p].idx
    BY <1>2 DEF LocalsType
  <2>2. QED
    BY <1>2, <2>1, LocalsTypes
<1> HIDE DEF x
<1>5. QED
  BY <1>1, <1>3, <1>4, YieldReturns

-----------------------------------------------------------------------------
(* Processes that become runnable.                                         *)

\* The tree holds as many processes as its sequence is long.
LEMMA QueueLength ==
  ASSUME RQInv
  PROVE  /\ Queued(queue) \subseteq Procs /\ IsFiniteSet(Queued(queue))
         /\ Len(queue) = Cardinality(Queued(queue))
<1> DEFINE n == Len(queue)
           f == [i \in 1..n |-> queue[i]]
<1>1. n \in Nat /\ DOMAIN queue = 1..n /\ \A i \in 1..n : queue[i] \in Procs
  BY DEF RQInv, RQTypeOK
<1>2. \A i, j \in 1..n : queue[i] = queue[j] => i = j
  BY <1>1 DEF RQInv, NoDuplicates
<1>3. Queued(queue) = {queue[i] : i \in 1..n}
  BY <1>1 DEF Queued
<1> HIDE DEF n
<1>4. f \in [1..n -> Queued(queue)] /\ \A t \in Queued(queue) : \E i \in 1..n : f[i] = t
  BY <1>3
<1>5. \A i, j \in 1..n : f[i] = f[j] => i = j
  BY <1>2
<1> HIDE DEF f
<1>6. f \in Bijection(1..n, Queued(queue))
  BY <1>4, <1>5 DEF Bijection, Injection, Surjection, IsInjective
<1>7. IsFiniteSet(1..n) /\ Cardinality(1..n) = n
  <2>1. /\ IsFiniteSet(1..n)
        /\ Cardinality(1..n) = IF 1 > n THEN 0 ELSE n - 1 + 1
    BY <1>1, FS_Interval
  <2>2. QED
    BY <1>1, <2>1
<1>8. IsFiniteSet(Queued(queue)) /\ Cardinality(Queued(queue)) = Cardinality(1..n)
  BY <1>6, <1>7, FS_Bijection DEF ExistsBijection
<1>9. QED
  BY <1>1, <1>3, <1>7, <1>8 DEF n

\* A process that is not in the tree is never turned away by isFull.
LEMMA Inserting ==
  ASSUME KernelInv, NEW k \in Procs, k \notin Queued(queue), NEW v \in Nat,
         insertProcess(k, v)
  PROVE  RQInv' /\ Queued(queue') = Queued(queue) \cup {k}
<1>1. RQInv
  BY DEF KernelInv
<1>2. Len(queue) # NPROC
  <2>1. IsFiniteSet(Procs \ {k}) /\ Cardinality(Procs \ {k}) = NPROC - 1
    BY ProcsAssumption, FS_RemoveElement DEF NPROC
  <2>2. Queued(queue) \in SUBSET (Procs \ {k})
    BY <1>1, QueueLength
  <2>3. Cardinality(Queued(queue)) <= Cardinality(Procs \ {k})
    BY <2>1, <2>2, FS_Subset
  <2>4. QED
    BY <1>1, <2>1, <2>3, QueueLength, Numbers DEF RQInv, RQTypeOK
<1>3. RQInv'
  BY <1>1, InsertPreservesRQInv
<1>4. queue' = Inserted(queue, virtualRuntime, k, v)
  BY <1>2 DEF insertProcess
<1>5. Queued(queue') = Queued(queue) \cup {k}
  <2>1. /\ queue \in Seq(Procs) /\ virtualRuntime \in [Procs -> Nat]
        /\ \A i, j \in DOMAIN queue : queue[i] = queue[j] => i = j
        /\ \A i, j \in DOMAIN queue :
             i <= j => virtualRuntime[queue[i]] <= virtualRuntime[queue[j]]
    BY <1>1 DEF RQInv, RQTypeOK, NoDuplicates, QueueOrdered
  <2>2. Queued(Inserted(queue, virtualRuntime, k, v)) = Queued(queue) \cup {k}
    BY <2>1, InsertedProperties
  <2>3. QED
    BY <1>4, <2>2
<1>6. QED
  BY <1>3, <1>5

\* A process that neither runs nor can run, and whose lock is free, is in no
\* scheduler: it is off its stack.
LEMMA OffStage ==
  ASSUME KernelInv, NEW k \in Procs, plock[k] = NoCPU,
         state[k] \notin {"RUNNING", "RUNNABLE"}
  PROVE  \A d \in CPUs : sproc[d] # k /\ cproc[d] # k
<1> SUFFICES ASSUME NEW d \in CPUs
             PROVE  sproc[d] # k /\ cproc[d] # k
  OBVIOUS
<1>1. spc[d] \in {"pick", "wfi", "lock", "start", "running", "after"} /\ k # Null /\ NoCPU # d
  BY Numbers DEF KernelInv, KernelTypes
<1>2. sproc[d] # k
  BY <1>1 DEF KernelInv, SchedulerLocals, ProcLocks
<1>3. QED
  BY <1>1, <1>2 DEF KernelInv, SchedulerLocals

\* A process that is in no scheduler and does not become RUNNING may change its
\* state.
LEMMA StateChange ==
  ASSUME KernelInv, NEW k \in Procs, \A d \in CPUs : sproc[d] # k,
         NEW s, s # "RUNNING", state' = [state EXCEPT ![k] = s],
         UNCHANGED <<spc, sproc, cproc>>
  PROVE  SchedulerLocals' /\ OneScheduler'
<1>1. state \in [Procs -> States] /\ \A d \in CPUs : sproc[d] \in Procs \cup {Null}
  BY DEF KernelInv, KernelTypes
<1>2. SchedulerLocals'
  BY <1>1 DEF KernelInv, SchedulerLocals
<1>3. OneScheduler'
  BY <1>1 DEF KernelInv, OneScheduler, Runs
<1>4. QED
  BY <1>2, <1>3

\* Waking a sleeper k keeps every runnable process in one place, whatever the
\* thread does that calls wakeup or kill, as long as it is no part of a fork.
LEMMA Waking ==
  ASSUME KernelInv, NEW k \in Procs, state[k] = "SLEEPING",
         \A d \in CPUs : sproc[d] # k, wake(k), UNCHANGED <<spc, sproc, cproc>>,
         \A q \in Procs : /\ At(q)' \in Forking <=> At(q) \in Forking
                          /\ At(q) \in Forking => At(q)' = At(q) /\ loc'[q].np = loc[q].np
  PROVE  /\ RQInv' /\ SchedulerLocals' /\ OneScheduler'
         /\ ForkOwnsChild' /\ ReadyPlaces'
         /\ state' \in [Procs -> States] /\ currentRuntime' \in [Procs -> Nat]
<1> DEFINE v == virtualRuntime[k] + currentRuntime[k]
<1>1. /\ state' = [state EXCEPT ![k] = "RUNNABLE"]
      /\ currentRuntime' = [currentRuntime EXCEPT ![k] = 0]
      /\ insertProcess(k, v)
  BY DEF wake
<1>2. /\ state \in [Procs -> States] /\ currentRuntime \in [Procs -> Nat]
      /\ v \in Nat
  <2>1. /\ state \in [Procs -> States] /\ currentRuntime \in [Procs -> Nat]
        /\ virtualRuntime \in [Procs -> Nat]
    BY DEF KernelInv, KernelTypes, RQInv, RQTypeOK
  <2>2. QED
    BY <2>1
<1> HIDE DEF v
<1>3. k \notin Queued(queue)
  BY DEF KernelInv, ReadyPlaces
<1>4. RQInv' /\ Queued(queue') = Queued(queue) \cup {k}
  BY <1>1, <1>2, <1>3, Inserting
<1>5. SchedulerLocals' /\ OneScheduler'
  BY <1>1, StateChange
<1>6. \A q \in Procs : state'[q] = IF q = k THEN "RUNNABLE" ELSE state[q]
  BY <1>1, <1>2
<1>7. \A c \in CPUs, p \in Procs : Dispatches(c, p)' <=> Dispatches(c, p)
  BY DEF Dispatches
<1>8. \A q \in Procs : At(q) \in Forking => loc[q].np \in Procs /\ loc[q].np # k
  BY DEF KernelInv, ForkOwnsChild
<1>9. ForkOwnsChild'
  BY <1>4, <1>6, <1>7, <1>8 DEF KernelInv, ForkOwnsChild
<1>10. ReadyPlaces'
  <2>1. \A p \in Procs : state'[p] = "RUNNABLE" =>
          \/ p \in Queued(queue')
          \/ \E q \in Procs : At(q)' = "forkinsert" /\ loc'[q].np = p
          \/ \E c \in CPUs : Dispatches(c, p)'
    BY <1>4, <1>6, <1>7 DEF KernelInv, ReadyPlaces, Forking
  <2>2. \A p \in Queued(queue') : state'[p] = "RUNNABLE" /\ \A c \in CPUs : ~Dispatches(c, p)'
    <3>1. \A c \in CPUs : ~Dispatches(c, k)'
      BY <1>7 DEF Dispatches
    <3>2. \A p \in Queued(queue) : p \in Procs
      BY QueueLength DEF KernelInv
    <3>3. QED
      BY <1>4, <1>6, <1>7, <3>1, <3>2 DEF KernelInv, ReadyPlaces
  <2>3. QED
    BY <2>1, <2>2 DEF ReadyPlaces
<1>11. QED
  BY <1>1, <1>2, <1>4, <1>5, <1>9, <1>10 DEF States

\* The locks after a move of the thread of p on c, in one lemma.
LEMMA MovedLocks ==
  ASSUME KernelInv, NEW c \in CPUs, NEW p \in Procs, OnCPU(c, p), NEW l, NEW x,
         UNCHANGED <<spc, sproc>>, KernelTypes', pc'[p] = l, loc'[p] = x,
         OthersStay(c), LocksMove(c, p, l, x)
  PROVE  ProcLocks' /\ WaitLock' /\ TicksLock' /\ WakeupCallers'
<1>1. ProcLocks'
  BY MovedProcLocks DEF OthersStay, LocksMove
<1>2. WaitLock'
  BY MovedWaitLock DEF LocksMove
<1>3. TicksLock' /\ WakeupCallers'
  BY MovedTicksLock DEF LocksMove
<1>4. QED
  BY <1>1, <1>2, <1>3

\* The threads after a move of the thread of p on c that changes the state of
\* another process k to one its label fits.
LEMMA MovedThreads ==
  ASSUME KernelInv, NEW c \in CPUs, NEW p \in Procs, OnCPU(c, p),
         NEW k \in Procs, k # p, NEW s, state' = [state EXCEPT ![k] = s],
         pc[k] \in LabelsOf(s),
         NEW l \in Labels \ {"dead"}, NEW x, UNCHANGED ipc, ipc[p] = "none",
         pc' = [pc EXCEPT ![p] = l], loc' = [loc EXCEPT ![p] = x],
         l = "sleep" => x.lk # "none",
         l \in {"alloc", "kill"} => x.idx \in Procs,
         l \in {"reparent", "zombie"} => p # initproc
  PROVE  Threads'
<1>1. /\ pc \in [Procs -> Labels] /\ loc \in [Procs -> LocalsType]
      /\ state \in [Procs -> States]
      /\ state[p] = "RUNNING"
  BY RunningThread DEF KernelInv, KernelTypes
<1>2. ThreadOK(p, l, "none", x)
  BY DEF ThreadOK
<1>3. ASSUME NEW q \in Procs
      PROVE  pc'[q] \in LabelsOf(state'[q]) /\ ThreadOK(q, pc'[q], ipc'[q], loc'[q])
  <2>1. CASE q = p
    <3>1. l \in LabelsOf("RUNNING")
      BY DEF LabelsOf
    <3>2. QED
      BY <1>1, <1>2, <2>1, <3>1
  <2>2. CASE q # p /\ q = k
    BY <1>1, <2>2 DEF KernelInv, Threads
  <2>3. CASE q # p /\ q # k
    BY <1>1, <2>3 DEF KernelInv, Threads
  <2>4. QED
    BY <2>1, <2>2, <2>3
<1>4. QED
  BY <1>3 DEF Threads, ThreadOK, LabelsOf

\* kill looks at a slot, and wakes the process that it kills.
LEMMA killStep ==
  ASSUME KernelInv, NEW c \in CPUs, NEW p \in Procs, kill(c, p)
  PROVE  KernelInv'
<1> DEFINE k == loc[p].idx
           y == [loc[p] EXCEPT !.idx = k + 1]
<1>1. /\ OnCPU(c, p) /\ pc[p] = "kill" /\ plock[k] = NoCPU
      /\ killed' \in {killed, [killed EXCEPT ![k] = TRUE]}
      /\ UNCHANGED <<chan, pid, parent, nextpid, plock, wait_lock, tickslock,
                     cproc, spc, sproc, found, wk, ticks, panicked, ipc, intrOn, again>>
  BY DEF kill, GotoWith, SyscallReturn, idVars, cpuVars, lockVars
<1>2. KernelTypes /\ RQInv
  BY DEF KernelInv
<1>3. k \in Procs /\ loc[p] \in LocalsType /\ NoLocals \in LocalsType /\ ipc[p] = "none"
  <2>1. ThreadOK(p, pc[p], ipc[p], loc[p])
    BY <1>1, RunningThread
  <2>2. QED
    BY <1>1, <1>2, <2>1, LocalsTypes DEF ThreadOK, KernelTypes
<1>4. PICK l \in {"kill", "trapout"}, x \in LocalsType :
        /\ pc' = [pc EXCEPT ![p] = l] /\ loc' = [loc EXCEPT ![p] = x]
        /\ l = "kill" => x.idx \in Procs
  <2>1. CASE pid[k] = loc[p].pid \/ k = NPROC
    BY <1>3, <2>1 DEF kill, SyscallReturn, GotoWith
  <2>2. CASE ~(pid[k] = loc[p].pid \/ k = NPROC)
    <3>1. k + 1 \in Procs
      BY <1>3, <2>2, Numbers
    <3>2. y \in LocalsType /\ y.idx = k + 1
      <4>1. y.idx = k + 1
        BY <1>3 DEF LocalsType
      <4>2. QED
        BY <1>3, <3>1, <4>1, LocalsTypes
    <3>3. QED
      BY <2>2, <3>1, <3>2 DEF kill, GotoWith
  <2>3. QED
    BY <2>1, <2>2
<1> HIDE DEF k, y
<1>5. LocksMove(c, p, l, x)
  BY <1>1 DEF LocksMove, PlockMove, WaitMove, WakeMove, TicksMove, HoldsOwn, HoldsWait, HoldsTicks
<1>6. CASE UNCHANGED <<rqVars, state, currentRuntime>>
  <2>1. KernelTypes'
    BY <1>1, <1>2, <1>4, <1>6 DEF KernelTypes, Labels
  <2>2. QED
    BY <1>1, <1>4, <1>5, <1>6, <2>1, ReadySetStays, CallMoves DEF Labels, Forking
<1>7. CASE state[k] = "SLEEPING" /\ wake(k)
  <2>1. \A d \in CPUs : sproc[d] # k
    BY <1>1, <1>3, <1>7, OffStage
  <2>2. k # p /\ \A d \in CPUs : d # c => sproc[d] # p
    BY <1>1, <1>7, RunningThread
  <2>3. \A q \in Procs : /\ pc'[q] = (IF q = p THEN l ELSE pc[q]) /\ ipc'[q] = ipc[q]
                         /\ loc'[q] = (IF q = p THEN x ELSE loc[q])
    BY <1>1, <1>2, <1>4 DEF KernelTypes
  <2>4. \A q \in Procs : /\ At(q)' \in Forking <=> At(q) \in Forking
                         /\ At(q) \in Forking => At(q)' = At(q) /\ loc'[q].np = loc[q].np
    BY <1>1, <1>3, <2>3 DEF At, Forking
  <2>5. /\ RQInv' /\ SchedulerLocals' /\ OneScheduler'
        /\ ForkOwnsChild' /\ ReadyPlaces'
        /\ state' \in [Procs -> States] /\ currentRuntime' \in [Procs -> Nat]
    BY <1>1, <1>3, <1>7, <2>1, <2>4, Waking
  <2>6. KernelTypes'
    BY <1>1, <1>2, <1>4, <2>5 DEF KernelTypes, Labels
  <2>7. OthersStay(c) /\ pc'[p] = l /\ loc'[p] = x
    <3>1. \A d \in CPUs : spc[d] = "running" => sproc[d] \in Procs
      BY DEF KernelInv, SchedulerLocals
    <3>2. QED
      BY <2>2, <2>3, <3>1 DEF OthersStay
  <2>8. ProcLocks' /\ WaitLock' /\ TicksLock' /\ WakeupCallers'
    BY <1>1, <1>5, <2>6, <2>7, MovedLocks
  <2>9. Threads'
    <3>1. state' = [state EXCEPT ![k] = "RUNNABLE"]
      BY <1>7 DEF wake
    <3>2. pc[k] \in LabelsOf("RUNNABLE")
      BY <1>3, <1>7 DEF KernelInv, Threads, LabelsOf
    <3>3. QED
      BY <1>1, <1>3, <1>4, <2>2, <3>1, <3>2, MovedThreads DEF Labels
  <2>10. QED
    BY <2>5, <2>6, <2>8, <2>9 DEF KernelInv
<1>8. QED
  BY <1>6, <1>7 DEF kill, killWakes, k

-----------------------------------------------------------------------------
(* fork and wait, where they change the state of another process.          *)

\* What is known of the child of a fork.
LEMMA ForkChild ==
  ASSUME KernelInv, NEW c \in CPUs, NEW p \in Procs, OnCPU(c, p), pc[p] \in Forking
  PROVE  LET k == loc[p].np
         IN  /\ ipc[p] = "none" /\ At(p) = pc[p]
             /\ k \in Procs /\ k # p /\ k \notin Queued(queue)
             /\ state[k] = IF pc[p] = "forkinsert" THEN "RUNNABLE" ELSE "USED"
             /\ \A d \in CPUs : ~Dispatches(d, k)
             /\ \A q \in Procs : At(q) \in Forking /\ loc[q].np = k => q = p
<1>1. /\ state[p] = "RUNNING" /\ ThreadOK(p, pc[p], ipc[p], loc[p])
  BY RunningThread
<1>2. ipc[p] = "none" /\ At(p) = pc[p]
  BY <1>1 DEF ThreadOK, Forking, At
<1>3. QED
  BY <1>1, <1>2 DEF KernelInv, ForkOwnsChild

\* The threads other than that of p, after a step of p that moves no other.
LEMMA Elsewhere ==
  ASSUME KernelInv, NEW c \in CPUs, NEW p \in Procs, OnCPU(c, p), NEW l, NEW x,
         UNCHANGED ipc, ipc[p] = "none",
         pc' = [pc EXCEPT ![p] = l], loc' = [loc EXCEPT ![p] = x]
  PROVE  /\ OthersStay(c) /\ pc'[p] = l /\ loc'[p] = x
         /\ At(p)' = l
         /\ \A q \in Procs : q # p => At(q)' = At(q) /\ loc'[q] = loc[q]
<1>1. /\ pc \in [Procs -> Labels] /\ loc \in [Procs -> LocalsType]
      /\ \A d \in CPUs : spc[d] = "running" => sproc[d] \in Procs
  BY DEF KernelInv, KernelTypes, SchedulerLocals
<1>2. \A d \in CPUs : d # c => sproc[d] # p
  BY RunningThread
<1>3. QED
  BY <1>1, <1>2 DEF OthersStay, At

\* fork makes the child RUNNABLE.
LEMMA forkRunnableStep ==
  ASSUME KernelInv, NEW c \in CPUs, NEW p \in Procs, forkRunnable(c, p)
  PROVE  KernelInv'
<1> DEFINE k == loc[p].np
<1>1. /\ OnCPU(c, p) /\ pc[p] = "forkrun" /\ plock[k] = NoCPU
      /\ UNCHANGED rqVars
      /\ state' = [state EXCEPT ![k] = "RUNNABLE"]
      /\ pc' = [pc EXCEPT ![p] = "forkinsert"]
      /\ UNCHANGED <<chan, killed, currentRuntime, pid, parent, nextpid, plock, wait_lock, tickslock,
                     cproc, spc, sproc, found, wk, ticks, panicked, ipc, intrOn, again, loc>>
  BY DEF forkRunnable, Goto, idVars, cpuVars, lockVars
<1>2. KernelTypes
  BY DEF KernelInv
<1>3. /\ ipc[p] = "none" /\ At(p) = pc[p]
      /\ k \in Procs /\ k # p /\ k \notin Queued(queue) /\ state[k] = "USED"
      /\ \A d \in CPUs : ~Dispatches(d, k)
      /\ \A q \in Procs : At(q) \in Forking /\ loc[q].np = k => q = p
  BY <1>1, ForkChild DEF Forking
<1> HIDE DEF k
<1>4. loc' = [loc EXCEPT ![p] = loc[p]]
  BY <1>1, <1>2 DEF KernelTypes
<1>5. KernelTypes' /\ RQInv' /\ queue' = queue
  <2>1. KernelTypes'
    BY <1>1, <1>2 DEF KernelTypes, Labels, States
  <2>2. QED
    BY <1>1, <2>1, ReadySetStays
<1>6. \A d \in CPUs : sproc[d] # k
  BY <1>1, <1>3, OffStage
<1>7. SchedulerLocals' /\ OneScheduler'
  BY <1>1, <1>3, <1>6, StateChange
<1>8. /\ OthersStay(c) /\ pc'[p] = "forkinsert" /\ loc'[p] = loc[p]
      /\ At(p)' = "forkinsert"
      /\ \A q \in Procs : q # p => At(q)' = At(q) /\ loc'[q] = loc[q]
  <2>1. /\ OnCPU(c, p) /\ ipc' = ipc /\ pc' = [pc EXCEPT ![p] = "forkinsert"]
        /\ loc' = [loc EXCEPT ![p] = loc[p]]
    BY <1>1, <1>4
  <2>2. QED
    BY <1>3, <2>1, Elsewhere
<1>9. LocksMove(c, p, "forkinsert", loc[p])
  BY <1>1 DEF LocksMove, PlockMove, WaitMove, WakeMove, TicksMove, HoldsOwn, HoldsWait, HoldsTicks
<1>10. ProcLocks' /\ WaitLock' /\ TicksLock' /\ WakeupCallers'
  BY <1>1, <1>5, <1>8, <1>9, MovedLocks
<1>11. Threads'
  <2>1. pc[k] \in LabelsOf("RUNNABLE")
    BY <1>3 DEF KernelInv, Threads, LabelsOf
  <2>2. QED
    BY <1>1, <1>3, <1>4, <2>1, MovedThreads DEF Labels
<1>12. /\ \A q \in Procs : state'[q] = IF q = k THEN "RUNNABLE" ELSE state[q]
       /\ \A d \in CPUs, q \in Procs : Dispatches(d, q)' <=> Dispatches(d, q)
  BY <1>1, <1>2 DEF KernelTypes, Dispatches
<1>13. ForkOwnsChild'
  <2>1. ASSUME NEW q \in Procs, At(q)' \in Forking
        PROVE  /\ loc'[q].np \in Procs
               /\ state'[loc'[q].np] = IF At(q)' = "forkinsert" THEN "RUNNABLE" ELSE "USED"
               /\ loc'[q].np \notin Queued(queue')
               /\ \A d \in CPUs : ~Dispatches(d, loc'[q].np)
    <3>1. CASE q = p
      BY <1>3, <1>5, <1>8, <1>12, <3>1 DEF k
    <3>2. CASE q # p
      BY <1>1, <1>3, <1>5, <1>8, <1>12, <2>1, <3>2 DEF KernelInv, ForkOwnsChild
    <3>3. QED
      BY <3>1, <3>2
  <2>2. \A q, r \in Procs :
          At(q)' \in Forking /\ At(r)' \in Forking /\ loc'[q].np = loc'[r].np => q = r
    BY <1>1, <1>3, <1>8 DEF KernelInv, ForkOwnsChild, Forking
  <2>3. QED
    BY <1>1, <2>1, <2>2 DEF ForkOwnsChild, Dispatches
<1>14. ReadyPlaces'
  <2>1. \A q \in Procs : state'[q] = "RUNNABLE" =>
          \/ q \in Queued(queue')
          \/ \E r \in Procs : At(r)' = "forkinsert" /\ loc'[r].np = q
          \/ \E d \in CPUs : Dispatches(d, q)'
    <3>1. At(p)' = "forkinsert" /\ loc'[p].np = k
      BY <1>8 DEF k
    <3>2. QED
      BY <1>1, <1>3, <1>5, <1>8, <1>12, <3>1 DEF KernelInv, ReadyPlaces
  <2>2. \A q \in Queued(queue') : state'[q] = "RUNNABLE" /\ \A d \in CPUs : ~Dispatches(d, q)'
    <3>1. \A q \in Queued(queue) : q \in Procs
      BY QueueLength DEF KernelInv
    <3>2. QED
      BY <1>3, <1>5, <1>12, <3>1 DEF KernelInv, ReadyPlaces
  <2>3. QED
    BY <2>1, <2>2 DEF ReadyPlaces
<1>15. QED
  BY <1>5, <1>7, <1>10, <1>11, <1>13, <1>14 DEF KernelInv

\* fork inserts the child into the ready set.
LEMMA forkInsertStep ==
  ASSUME KernelInv, NEW c \in CPUs, NEW p \in Procs, forkInsert(c, p)
  PROVE  KernelInv'
<1> DEFINE k == loc[p].np
<1>1. /\ OnCPU(c, p) /\ pc[p] = "forkinsert"
      /\ insertProcess(k, virtualRuntime[k])
      /\ pc' = [pc EXCEPT ![p] = "trapout"] /\ loc' = [loc EXCEPT ![p] = NoLocals]
      /\ UNCHANGED <<state, chan, killed, currentRuntime, pid, parent, nextpid, plock, wait_lock, tickslock,
                     cproc, spc, sproc, found, wk, ticks, panicked, ipc, intrOn, again>>
  BY DEF forkInsert, SyscallReturn, GotoWith, idVars, cpuVars, lockVars, procVars
<1>2. KernelTypes /\ virtualRuntime \in [Procs -> Nat]
  BY DEF KernelInv, RQInv, RQTypeOK
<1>3. /\ ipc[p] = "none" /\ At(p) = pc[p]
      /\ k \in Procs /\ k # p /\ k \notin Queued(queue) /\ state[k] = "RUNNABLE"
      /\ \A d \in CPUs : ~Dispatches(d, k)
      /\ \A q \in Procs : At(q) \in Forking /\ loc[q].np = k => q = p
  BY <1>1, ForkChild DEF Forking
<1> HIDE DEF k
<1>4. RQInv' /\ Queued(queue') = Queued(queue) \cup {k}
  BY <1>1, <1>2, <1>3, Inserting
<1>5. KernelTypes'
  BY <1>1, <1>2, LocalsTypes DEF KernelTypes, Labels
<1>6. SchedulerLocals' /\ OneScheduler'
  BY <1>1 DEF KernelInv, SchedulerLocals, OneScheduler, Runs
<1>7. /\ OthersStay(c) /\ pc'[p] = "trapout" /\ loc'[p] = NoLocals
      /\ At(p)' = "trapout"
      /\ \A q \in Procs : q # p => At(q)' = At(q) /\ loc'[q] = loc[q]
  BY <1>1, <1>3, Elsewhere
<1>8. LocksMove(c, p, "trapout", NoLocals)
  BY <1>1 DEF LocksMove, PlockMove, WaitMove, WakeMove, TicksMove, HoldsOwn, HoldsWait, HoldsTicks
<1>9. ProcLocks' /\ WaitLock' /\ TicksLock' /\ WakeupCallers'
  BY <1>1, <1>5, <1>7, <1>8, MovedLocks
<1>10. Threads'
  <2>1. pc[k] \in LabelsOf("RUNNABLE")
    BY <1>3 DEF KernelInv, Threads
  <2>2. state' = [state EXCEPT ![k] = "RUNNABLE"]
    BY <1>1, <1>2, <1>3 DEF KernelTypes
  <2>3. QED
    BY <1>1, <1>3, <2>1, <2>2, MovedThreads DEF Labels
<1>11. \A d \in CPUs, q \in Procs : Dispatches(d, q)' <=> Dispatches(d, q)
  BY <1>1 DEF Dispatches
<1>12. ForkOwnsChild'
  <2>1. ASSUME NEW q \in Procs, At(q)' \in Forking
        PROVE  /\ loc'[q].np \in Procs
               /\ state'[loc'[q].np] = IF At(q)' = "forkinsert" THEN "RUNNABLE" ELSE "USED"
               /\ loc'[q].np \notin Queued(queue')
               /\ \A d \in CPUs : ~Dispatches(d, loc'[q].np)
    <3>1. q # p
      BY <1>7, <2>1 DEF Forking
    <3>2. QED
      BY <1>1, <1>3, <1>4, <1>7, <1>11, <2>1, <3>1 DEF KernelInv, ForkOwnsChild
  <2>2. \A q, r \in Procs :
          At(q)' \in Forking /\ At(r)' \in Forking /\ loc'[q].np = loc'[r].np => q = r
    BY <1>7 DEF KernelInv, ForkOwnsChild, Forking
  <2>3. QED
    BY <1>1, <2>1, <2>2 DEF ForkOwnsChild, Dispatches
<1>13. ReadyPlaces'
  <2>1. \A q \in Procs : state'[q] = "RUNNABLE" =>
          \/ q \in Queued(queue')
          \/ \E r \in Procs : At(r)' = "forkinsert" /\ loc'[r].np = q
          \/ \E d \in CPUs : Dispatches(d, q)'
    <3>1. ASSUME NEW q \in Procs, state[q] = "RUNNABLE", q # k
          PROVE  \/ q \in Queued(queue)
                 \/ \E r \in Procs : r # p /\ At(r) = "forkinsert" /\ loc[r].np = q
                 \/ \E d \in CPUs : Dispatches(d, q)
      BY <3>1 DEF KernelInv, ReadyPlaces, k
    <3>2. QED
      BY <1>1, <1>4, <1>7, <1>11, <3>1
  <2>2. \A q \in Queued(queue') : state'[q] = "RUNNABLE" /\ \A d \in CPUs : ~Dispatches(d, q)'
    <3>1. \A q \in Queued(queue) : q \in Procs
      BY QueueLength DEF KernelInv
    <3>2. QED
      BY <1>1, <1>3, <1>4, <1>11, <3>1 DEF KernelInv, ReadyPlaces
  <2>3. QED
    BY <2>1, <2>2 DEF ReadyPlaces
<1>14. QED
  BY <1>4, <1>5, <1>6, <1>9, <1>10, <1>12, <1>13 DEF KernelInv

\* The scan of wait looks at a child of p that it has not looked at.
LEMMA NextChild ==
  ASSUME NEW p \in Procs, NotScanned(p) # {}
  PROVE  Least(NotScanned(p)) \in NotScanned(p)
<1>1. NotScanned(p) \in SUBSET Nat
  BY Numbers DEF NotScanned, Children
<1>2. \E k \in NotScanned(p) : \A j \in NotScanned(p) : k <= j
  BY <1>1, LeastNat
<1>3. QED
  BY <1>2 DEF Least

\* freeproc leaves fields of the right types.
LEMMA FreedTypes ==
  ASSUME KernelTypes, NEW k \in Procs,
         freeproc(k) \/ UNCHANGED <<state, pid, parent, chan, killed>>
  PROVE  /\ state' \in [Procs -> States] /\ pid' \in [Procs -> Nat]
         /\ parent' \in [Procs -> Procs \cup {Null}]
         /\ chan' \in [Procs -> Procs \cup {Null, TicksChan}]
         /\ killed' \in [Procs -> BOOLEAN]
<1>1. /\ state \in [Procs -> States] /\ pid \in [Procs -> Nat]
      /\ parent \in [Procs -> Procs \cup {Null}]
      /\ chan \in [Procs -> Procs \cup {Null, TicksChan}]
      /\ killed \in [Procs -> BOOLEAN] /\ "UNUSED" \in States
  BY DEF KernelTypes, States
<1>2. CASE freeproc(k)
  BY <1>1, <1>2 DEF freeproc
<1>3. QED
  BY <1>1, <1>2

\* wait looks at a child, and frees it if it is a zombie.
LEMMA waitChildStep ==
  ASSUME KernelInv, NEW c \in CPUs, NEW p \in Procs, waitChild(c, p)
  PROVE  KernelInv'
<1> DEFINE k == Least(NotScanned(p))
           y == [loc[p] EXCEPT !.idx = k]
<1>1. /\ OnCPU(c, p) /\ pc[p] = "waitscan" /\ plock[k] = NoCPU
      /\ UNCHANGED rqVars
      /\ UNCHANGED <<currentRuntime, nextpid, plock, tickslock,
                     cproc, spc, sproc, found, wk, ticks, panicked, ipc, intrOn, again>>
  BY DEF waitChild, childLocked, SyscallReturn, GotoWith, cpuVars
<1>2. KernelTypes
  BY DEF KernelInv
<1>3. k \in Procs /\ ipc[p] = "none" /\ state[p] = "RUNNING"
  <2>1. k \in Procs
    BY NextChild DEF waitChild, NotScanned, Children
  <2>2. state[p] = "RUNNING" /\ ThreadOK(p, pc[p], ipc[p], loc[p])
    BY <1>1, RunningThread
  <2>3. QED
    BY <1>1, <2>1, <2>2 DEF ThreadOK
<1>4. CASE state[k] # "ZOMBIE"
  <2>1. /\ UNCHANGED <<state, pid, parent, chan, killed, wait_lock>>
        /\ pc' = [pc EXCEPT ![p] = "waitscan"] /\ loc' = [loc EXCEPT ![p] = y]
    BY <1>4 DEF waitChild, GotoWith
  <2>2. y \in LocalsType
    BY <1>2, <1>3, LocalsTypes DEF KernelTypes
  <2> HIDE DEF k, y
  <2>3. KernelTypes'
    BY <1>1, <1>2, <2>1, <2>2 DEF KernelTypes, Labels
  <2>4. LocksMove(c, p, "waitscan", y)
    BY <1>1, <2>1 DEF LocksMove, PlockMove, WaitMove, WakeMove, TicksMove, HoldsOwn, HoldsWait, HoldsTicks
  <2>5. QED
    BY <1>1, <2>1, <2>3, <2>4, ReadySetStays, CallMoves DEF Labels, Forking
<1>5. CASE state[k] = "ZOMBIE"
  <2>1. /\ freeproc(k) \/ UNCHANGED <<state, pid, parent, chan, killed>>
        /\ wait_lock' = NoCPU
        /\ pc' = [pc EXCEPT ![p] = "trapout"] /\ loc' = [loc EXCEPT ![p] = NoLocals]
    BY <1>5 DEF waitChild, GotoWith, SyscallReturn
  <2> HIDE DEF k, y
  <2>2. KernelTypes'
    <3>1. /\ state' \in [Procs -> States] /\ pid' \in [Procs -> Nat]
          /\ parent' \in [Procs -> Procs \cup {Null}]
          /\ chan' \in [Procs -> Procs \cup {Null, TicksChan}]
          /\ killed' \in [Procs -> BOOLEAN]
      BY <1>2, <1>3, <2>1, FreedTypes
    <3>2. QED
      BY <1>1, <1>2, <2>1, <3>1, LocalsTypes DEF KernelTypes, Labels, Holders
  <2>3. LocksMove(c, p, "trapout", NoLocals)
    BY <1>1, <2>1 DEF LocksMove, PlockMove, WaitMove, WakeMove, TicksMove, HoldsOwn, HoldsWait, HoldsTicks
  <2>4. CASE state' = state
    BY <1>1, <2>1, <2>2, <2>3, <2>4, ReadySetStays, CallMoves DEF Labels, Forking
  <2>5. CASE freeproc(k)
    <3>1. state' = [state EXCEPT ![k] = "UNUSED"] /\ k # p
      BY <1>3, <1>5, <2>5 DEF freeproc
    <3>2. \A d \in CPUs : sproc[d] # k
      BY <1>1, <1>3, <1>5, OffStage
    <3>3. SchedulerLocals' /\ OneScheduler'
      BY <1>1, <1>3, <3>1, <3>2, StateChange
    <3>4. /\ OthersStay(c) /\ pc'[p] = "trapout" /\ loc'[p] = NoLocals
          /\ At(p)' = "trapout"
          /\ \A q \in Procs : q # p => At(q)' = At(q) /\ loc'[q] = loc[q]
      BY <1>1, <1>3, <2>1, Elsewhere
    <3>5. ProcLocks' /\ WaitLock' /\ TicksLock' /\ WakeupCallers'
      BY <1>1, <2>2, <2>3, <3>4, MovedLocks
    <3>6. Threads'
      <4>1. pc[k] \in LabelsOf("UNUSED")
        BY <1>3, <1>5 DEF KernelInv, Threads, LabelsOf
      <4>2. QED
        BY <1>1, <1>3, <2>1, <3>1, <4>1, MovedThreads DEF Labels
    <3>7. /\ \A q \in Procs : state'[q] = IF q = k THEN "UNUSED" ELSE state[q]
          /\ \A d \in CPUs, q \in Procs : Dispatches(d, q)' <=> Dispatches(d, q)
      BY <1>1, <1>2, <3>1 DEF KernelTypes, Dispatches
    <3>8. RQInv' /\ queue' = queue
      BY <1>1, ReadySetStays
    <3>9. At(p) = "waitscan"
      BY <1>1, <1>3 DEF At
    <3>10. ForkOwnsChild'
      <4>1. ASSUME NEW q \in Procs, At(q)' \in Forking
            PROVE  /\ loc'[q].np \in Procs
                   /\ state'[loc'[q].np] = IF At(q)' = "forkinsert" THEN "RUNNABLE" ELSE "USED"
                   /\ loc'[q].np \notin Queued(queue')
                   /\ \A d \in CPUs : ~Dispatches(d, loc'[q].np)
        <5>1. q # p
          BY <3>4, <4>1 DEF Forking
        <5>2. QED
          BY <1>5, <3>4, <3>7, <3>8, <4>1, <5>1 DEF KernelInv, ForkOwnsChild
      <4>2. \A q, r \in Procs :
              At(q)' \in Forking /\ At(r)' \in Forking /\ loc'[q].np = loc'[r].np => q = r
        BY <3>4 DEF KernelInv, ForkOwnsChild, Forking
      <4>3. QED
        BY <1>1, <4>1, <4>2 DEF ForkOwnsChild, Dispatches
    <3>11. ReadyPlaces'
      <4>1. \A q \in Queued(queue) : q \in Procs /\ q # k
        BY <1>5, QueueLength DEF KernelInv, ReadyPlaces
      <4>2. QED
        BY <1>5, <3>4, <3>7, <3>8, <3>9, <4>1 DEF KernelInv, ReadyPlaces
    <3>12. QED
      BY <2>2, <3>3, <3>5, <3>6, <3>8, <3>10, <3>11 DEF KernelInv
  <2>6. QED
    BY <2>1, <2>4, <2>5
<1>6. QED
  BY <1>4, <1>5

\* The runtime fields of a process that is not in the tree may be reset.
LEMMA FieldsReset ==
  ASSUME RQInv, NEW k \in Procs, k \notin Queued(queue), UNCHANGED treeVars,
         virtualRuntime' = [virtualRuntime EXCEPT ![k] = 0],
         maxExecutionTime' = [maxExecutionTime EXCEPT ![k] = 0]
  PROVE  RQInv' /\ queue' = queue
<1>1. /\ queue' = queue /\ treeWeight' = treeWeight /\ period' = period
      /\ virtualRuntime \in [Procs -> Nat] /\ maxExecutionTime \in [Procs -> Nat]
      /\ queue \in Seq(Procs) /\ treeWeight \in Nat /\ period \in Nat
  BY DEF treeVars, RQInv, RQTypeOK
<1>2. virtualRuntime' \in [Procs -> Nat] /\ maxExecutionTime' \in [Procs -> Nat]
  BY <1>1
<1>3. \A i \in DOMAIN queue : virtualRuntime'[queue[i]] = virtualRuntime[queue[i]]
  BY <1>1 DEF Queued
<1>4. QueueOrdered'
  BY <1>1, <1>3 DEF RQInv, QueueOrdered
<1>5. SliceBounded'
  BY <1>1 DEF RQInv, SliceBounded
<1>6. QED
  BY <1>1, <1>2, <1>4, <1>5 DEF RQInv, RQTypeOK, NoDuplicates, WeightIsSum, PeriodFollowsLoad

\* fork frees the slot when memory runs out.
LEMMA forkFailStep ==
  ASSUME KernelInv, NEW c \in CPUs, NEW p \in Procs, forkFail(c, p)
  PROVE  KernelInv'
<1> DEFINE k == loc[p].idx
<1>1. /\ OnCPU(c, p) /\ pc[p] = "alloc" /\ state[k] = "UNUSED"
      /\ freeproc(k) /\ nextpid' = nextpid + 1
      /\ pc' = [pc EXCEPT ![p] = "trapout"] /\ loc' = [loc EXCEPT ![p] = NoLocals]
      /\ UNCHANGED <<plock, wait_lock, tickslock,
                     cproc, spc, sproc, found, wk, ticks, panicked, ipc, intrOn, again>>
      /\ UNCHANGED treeVars
      /\ \/ UNCHANGED <<virtualRuntime, currentRuntime, maxExecutionTime>>
         \/ /\ virtualRuntime' = [virtualRuntime EXCEPT ![k] = 0]
            /\ currentRuntime' = [currentRuntime EXCEPT ![k] = 0]
            /\ maxExecutionTime' = [maxExecutionTime EXCEPT ![k] = 0]
  BY DEF forkFail, SyscallReturn, GotoWith, cpuVars, lockVars
<1>2. KernelTypes /\ RQInv
  BY DEF KernelInv
<1>3. k \in Procs
  BY <1>1, RunningThread DEF ThreadOK
<1> HIDE DEF k
<1>4. state' = state
  BY <1>1, <1>2 DEF freeproc, KernelTypes
<1>5. KernelTypes'
  <2>1. /\ state' \in [Procs -> States] /\ pid' \in [Procs -> Nat]
        /\ parent' \in [Procs -> Procs \cup {Null}]
        /\ chan' \in [Procs -> Procs \cup {Null, TicksChan}]
        /\ killed' \in [Procs -> BOOLEAN]
    BY <1>1, <1>2, <1>3, FreedTypes
  <2>2. nextpid' \in Nat /\ currentRuntime' \in [Procs -> Nat]
    <3>1. nextpid \in Nat /\ currentRuntime \in [Procs -> Nat]
      BY <1>2 DEF KernelTypes
    <3>2. QED
      BY <1>1, <3>1
  <2>3. QED
    BY <1>1, <1>2, <2>1, <2>2, LocalsTypes DEF KernelTypes, Labels
<1>6. RQInv' /\ queue' = queue
  <2>1. k \notin Queued(queue)
    BY <1>1 DEF KernelInv, ReadyPlaces
  <2>2. CASE UNCHANGED <<virtualRuntime, maxExecutionTime>>
    BY <1>1, <2>2, ReadySetStays DEF treeVars, rqVars
  <2>3. QED
    BY <1>1, <1>2, <1>3, <2>1, <2>2, FieldsReset
<1>7. LocksMove(c, p, "trapout", NoLocals)
  BY <1>1 DEF LocksMove, PlockMove, WaitMove, WakeMove, TicksMove, HoldsOwn, HoldsWait, HoldsTicks
<1>8. QED
  BY <1>1, <1>4, <1>5, <1>6, <1>7, CallMoves DEF Labels, Forking

\* allocproc fills the slot that it has found.
LEMMA forkAllocStep ==
  ASSUME KernelInv, NEW c \in CPUs, NEW p \in Procs, forkAlloc(c, p)
  PROVE  KernelInv'
<1>0. OnCPU(c, p) /\ pc[p] = "alloc" /\ loc[p].idx \in Procs
  <2>1. OnCPU(c, p) /\ pc[p] = "alloc"
    BY DEF forkAlloc
  <2>2. QED
    BY <2>1, RunningThread DEF ThreadOK
<1> PICK k \in Procs : k = loc[p].idx
  BY <1>0
<1> DEFINE x == [NoLocals EXCEPT !.np = k]
<1>1. /\ OnCPU(c, p) /\ pc[p] = "alloc" /\ plock[k] = NoCPU /\ state[k] = "UNUSED"
      /\ nextpid' = nextpid + 1 /\ pid' = [pid EXCEPT ![k] = nextpid]
      /\ state' = [state EXCEPT ![k] = "USED"]
      /\ virtualRuntime' = [virtualRuntime EXCEPT ![k] = 0]
      /\ currentRuntime' = [currentRuntime EXCEPT ![k] = 0]
      /\ maxExecutionTime' = [maxExecutionTime EXCEPT ![k] = 0]
      /\ pc' = [pc EXCEPT ![p] = "forkparent", ![k] = "forkret"]
      /\ loc' = [loc EXCEPT ![p] = x, ![k] = NoLocals]
      /\ ipc' = [ipc EXCEPT ![k] = "none"]
      /\ intrOn' = [intrOn EXCEPT ![k] = FALSE]
      /\ again' = [again EXCEPT ![k] = FALSE]
      /\ UNCHANGED treeVars
      /\ UNCHANGED <<chan, killed, parent, plock, wait_lock, tickslock,
                     cproc, spc, sproc, found, wk, ticks, panicked>>
  BY DEF forkAlloc, allocFields, cpuVars, lockVars
<1>2. KernelTypes /\ RQInv
  BY DEF KernelInv
<1>3. k \in Procs /\ k # p /\ ipc[p] = "none" /\ state[p] = "RUNNING"
  <2>1. state[p] = "RUNNING" /\ ThreadOK(p, pc[p], ipc[p], loc[p])
    BY <1>1, RunningThread
  <2>2. QED
    BY <1>1, <2>1 DEF ThreadOK
<1>4. x \in LocalsType /\ x.np = k /\ NoLocals \in LocalsType
  <2>1. x.np = k
    BY DEF NoLocals
  <2>2. QED
    BY <1>3, <2>1, LocalsTypes
<1> HIDE DEF x
<1>5. KernelTypes'
  <2>1. /\ pid \in [Procs -> Nat] /\ nextpid \in Nat /\ currentRuntime \in [Procs -> Nat]
        /\ state \in [Procs -> States] /\ "USED" \in States
        /\ pc \in [Procs -> Labels] /\ {"forkparent", "forkret"} \subseteq Labels
        /\ loc \in [Procs -> LocalsType] /\ ipc \in [Procs -> Labels \cup {"none"}]
        /\ intrOn \in [Procs -> BOOLEAN] /\ again \in [Procs -> BOOLEAN]
    BY <1>2 DEF KernelTypes, States, Labels
  <2>2. /\ pid' \in [Procs -> Nat] /\ nextpid' \in Nat /\ currentRuntime' \in [Procs -> Nat]
        /\ state' \in [Procs -> States]
        /\ pc' \in [Procs -> Labels]
        /\ loc' \in [Procs -> LocalsType] /\ ipc' \in [Procs -> Labels \cup {"none"}]
        /\ intrOn' \in [Procs -> BOOLEAN] /\ again' \in [Procs -> BOOLEAN]
    <3>1. /\ pid' \in [Procs -> Nat] /\ nextpid' \in Nat /\ currentRuntime' \in [Procs -> Nat]
          /\ state' \in [Procs -> States]
      BY <1>1, <2>1
    <3>2. /\ pc' \in [Procs -> Labels] /\ loc' \in [Procs -> LocalsType]
      BY <1>1, <1>4, <2>1
    <3>3. /\ ipc' \in [Procs -> Labels \cup {"none"}]
          /\ intrOn' \in [Procs -> BOOLEAN] /\ again' \in [Procs -> BOOLEAN]
      BY <1>1, <2>1
    <3>4. QED
      BY <3>1, <3>2, <3>3
  <2>3. QED
    BY <1>1, <1>2, <2>2 DEF KernelTypes
<1>6. k \notin Queued(queue) /\ \A d \in CPUs : sproc[d] # k
  <2>1. k \notin Queued(queue)
    BY <1>1 DEF KernelInv, ReadyPlaces
  <2>2. QED
    BY <1>1, <1>3, <2>1, OffStage
<1>7. RQInv' /\ queue' = queue
  BY <1>1, <1>2, <1>3, <1>6, FieldsReset
<1>8. SchedulerLocals' /\ OneScheduler'
  BY <1>1, <1>3, <1>6, StateChange
<1>9. \A q \in Procs :
        /\ pc'[q] = (IF q = p THEN "forkparent" ELSE IF q = k THEN "forkret" ELSE pc[q])
        /\ loc'[q] = (IF q = p THEN x ELSE IF q = k THEN NoLocals ELSE loc[q])
        /\ ipc'[q] = (IF q = k THEN "none" ELSE ipc[q])
        /\ state'[q] = (IF q = k THEN "USED" ELSE state[q])
  BY <1>1, <1>2, <1>3 DEF KernelTypes
<1>10. OthersStay(c) /\ pc'[p] = "forkparent" /\ loc'[p] = x
  <2>1. \A d \in CPUs : spc[d] = "running" => sproc[d] \in Procs
    BY DEF KernelInv, SchedulerLocals
  <2>2. \A d \in CPUs : d # c => sproc[d] # p
    BY <1>1, RunningThread
  <2>3. QED
    BY <1>3, <1>6, <1>9, <2>1, <2>2 DEF OthersStay
<1>11. LocksMove(c, p, "forkparent", x)
  BY <1>1 DEF LocksMove, PlockMove, WaitMove, WakeMove, TicksMove, HoldsOwn, HoldsWait, HoldsTicks
<1>12. ProcLocks' /\ WaitLock' /\ TicksLock' /\ WakeupCallers'
  BY <1>1, <1>5, <1>10, <1>11, MovedLocks
<1>13. Threads'
  <2>1. ASSUME NEW q \in Procs
        PROVE  pc'[q] \in LabelsOf(state'[q]) /\ ThreadOK(q, pc'[q], ipc'[q], loc'[q])
    <3>1. CASE q = p
      <4>1. "forkparent" \in LabelsOf("RUNNING") /\ ThreadOK(p, "forkparent", "none", x)
        BY DEF LabelsOf, Labels, ThreadOK
      <4>2. QED
        BY <1>3, <1>9, <3>1, <4>1
    <3>2. CASE q = k
      <4>1. "forkret" \in LabelsOf("USED") /\ ThreadOK(k, "forkret", "none", NoLocals)
        BY DEF LabelsOf, Labels, ThreadOK
      <4>2. QED
        BY <1>3, <1>9, <3>2, <4>1
    <3>3. CASE q # p /\ q # k
      BY <1>9, <3>3 DEF KernelInv, Threads
    <3>4. QED
      BY <3>1, <3>2, <3>3
  <2>2. QED
    BY <2>1 DEF Threads, ThreadOK, LabelsOf
<1>14. /\ At(p) = "alloc" /\ At(p)' = "forkparent" /\ At(k)' = "forkret"
       /\ \A q \in Procs : q # p /\ q # k => At(q)' = At(q)
       /\ At(k) \notin Forking
  <2>1. pc[k] \in {"forkret", "dead"} /\ ThreadOK(k, pc[k], ipc[k], loc[k])
    BY <1>1, <1>3 DEF KernelInv, Threads, LabelsOf
  <2>2. At(k) \notin Forking
    BY <2>1 DEF At, ThreadOK, Forking
  <2>3. At(p) = "alloc" /\ At(p)' = "forkparent"
    BY <1>1, <1>3, <1>9 DEF At
  <2>4. At(k)' = "forkret"
    BY <1>3, <1>9 DEF At
  <2>5. \A q \in Procs : q # p /\ q # k => At(q)' = At(q)
    BY <1>9 DEF At
  <2>6. QED
    BY <2>2, <2>3, <2>4, <2>5
<1>15. \A d \in CPUs, q \in Procs : Dispatches(d, q)' <=> Dispatches(d, q)
  BY <1>1 DEF Dispatches
<1>16. \A q \in Procs : At(q) \in Forking => loc[q].np # k
  BY <1>1 DEF KernelInv, ForkOwnsChild
<1>17. ForkOwnsChild'
  <2>1. ASSUME NEW q \in Procs, At(q)' \in Forking
        PROVE  /\ loc'[q].np \in Procs
               /\ state'[loc'[q].np] = IF At(q)' = "forkinsert" THEN "RUNNABLE" ELSE "USED"
               /\ loc'[q].np \notin Queued(queue')
               /\ \A d \in CPUs : ~Dispatches(d, loc'[q].np)
    <3>1. CASE q = p
      BY <1>3, <1>4, <1>6, <1>7, <1>9, <1>10, <1>14, <3>1 DEF Dispatches
    <3>2. CASE q # p
      <4>1. q # k
        BY <1>14, <2>1 DEF Forking
      <4>2. At(q)' = At(q) /\ loc'[q] = loc[q]
        BY <1>9, <1>14, <3>2, <4>1
      <4>3. QED
        BY <1>7, <1>9, <1>16, <2>1, <4>2 DEF KernelInv, ForkOwnsChild
    <3>3. QED
      BY <3>1, <3>2
  <2>2. ASSUME NEW q \in Procs, NEW r \in Procs,
               At(q)' \in Forking, At(r)' \in Forking, loc'[q].np = loc'[r].np
        PROVE  q = r
    <3>1. \A s \in Procs : s # p /\ At(s)' \in Forking =>
            At(s) \in Forking /\ loc'[s] = loc[s] /\ loc'[s].np # k
      BY <1>9, <1>14, <1>16 DEF Forking
    <3>2. loc'[p].np = k
      BY <1>4, <1>10
    <3>3. QED
      BY <2>2, <3>1, <3>2 DEF KernelInv, ForkOwnsChild
  <2>3. QED
    BY <1>1, <2>1, <2>2 DEF ForkOwnsChild, Dispatches
<1>18. ReadyPlaces'
  <2>1. \A q \in Procs : At(q)' = "forkinsert" <=> At(q) = "forkinsert"
    BY <1>14 DEF Forking
  <2>2. \A q \in Procs : At(q) = "forkinsert" => loc'[q] = loc[q]
    BY <1>9, <1>14 DEF Forking
  <2>3. \A q \in Queued(queue) : q \in Procs
    BY QueueLength DEF KernelInv
  <2>4. QED
    BY <1>6, <1>7, <1>9, <1>15, <2>1, <2>2, <2>3 DEF KernelInv, ReadyPlaces
<1>19. QED
  BY <1>5, <1>7, <1>8, <1>12, <1>13, <1>17, <1>18 DEF KernelInv

-----------------------------------------------------------------------------
(* The loop of wakeup.                                                     *)

\* wakeup looks at a slot, and makes its sleeper RUNNABLE.
LEMMA wakeupStep ==
  ASSUME KernelInv, NEW c \in CPUs, wakeup(c)
  PROVE  KernelInv'
<1>0. KernelTypes /\ wk[c].idx # 0
  BY DEF KernelInv, wakeup
<1> PICK k \in Procs : k = wk[c].idx
  BY <1>0 DEF KernelTypes
<1> DEFINE last == k = NPROC
           w == IF last THEN NoWake ELSE [wk[c] EXCEPT !.idx = k + 1]
<1>1. /\ k # cproc[c] => plock[k] = NoCPU
      /\ wk' = [wk EXCEPT ![c] = w]
      /\ tickslock' = IF last /\ wk[c].chan = TicksChan THEN NoCPU ELSE tickslock
      /\ UNCHANGED <<chan, killed, pid, parent, nextpid, plock, wait_lock, cproc, spc, sproc, found,
                     pc, ipc, intrOn, again, loc, ticks, panicked>>
      /\ \/ k # cproc[c] /\ state[k] = "SLEEPING" /\ wake(k)
         \/ UNCHANGED <<rqVars, state, currentRuntime>>
  BY DEF wakeup, idVars, threadVars
<1>2. /\ wk[c] \in [idx : Procs \cup {0}, chan : Procs \cup {Null, TicksChan}]
      /\ w \in [idx : Procs \cup {0}, chan : Procs \cup {Null, TicksChan}]
      /\ ~last => w.idx = k + 1 /\ w.chan = wk[c].chan /\ w.idx # 0
      /\ last => w = NoWake
  <2>1. wk[c] \in [idx : Procs \cup {0}, chan : Procs \cup {Null, TicksChan}]
    BY <1>0 DEF KernelTypes
  <2>2. ~last => k + 1 \in Procs /\ k + 1 # 0
    BY Numbers
  <2>3. QED
    BY <2>1, <2>2 DEF NoWake
<1> HIDE DEF w
<1>3. /\ RQInv' /\ SchedulerLocals' /\ OneScheduler' /\ ForkOwnsChild' /\ ReadyPlaces'
      /\ state' \in [Procs -> States] /\ currentRuntime' \in [Procs -> Nat]
      /\ Threads'
  <2>1. CASE k # cproc[c] /\ state[k] = "SLEEPING" /\ wake(k)
    <3>1. \A d \in CPUs : sproc[d] # k
      BY <1>1, <2>1, OffStage
    <3>2. \A q \in Procs : /\ At(q)' \in Forking <=> At(q) \in Forking
                           /\ At(q) \in Forking => At(q)' = At(q) /\ loc'[q].np = loc[q].np
      BY <1>1 DEF At
    <3>3. Threads'
      <4>1. \A q \in Procs : state'[q] = IF q = k THEN "RUNNABLE" ELSE state[q]
        BY <1>0, <2>1 DEF wake, KernelTypes
      <4>2. pc[k] \in LabelsOf("RUNNABLE")
        BY <2>1 DEF KernelInv, Threads, LabelsOf
      <4>3. ASSUME NEW q \in Procs
            PROVE  pc'[q] \in LabelsOf(state'[q]) /\ ThreadOK(q, pc'[q], ipc'[q], loc'[q])
        BY <1>1, <4>1, <4>2 DEF KernelInv, Threads
      <4>4. QED
        BY <4>3 DEF Threads, ThreadOK, LabelsOf
    <3>4. QED
      BY <1>1, <2>1, <3>1, <3>2, <3>3, Waking
  <2>2. CASE UNCHANGED <<rqVars, state, currentRuntime>>
    <3>1. RQInv' /\ queue' = queue
      BY <2>2, ReadySetStays
    <3>2. SchedulerLocals' /\ OneScheduler'
      BY <1>1, <2>2 DEF KernelInv, SchedulerLocals, OneScheduler, Runs
    <3>3. ForkOwnsChild' /\ ReadyPlaces' /\ Threads'
      <4>1. \A q \in Procs : At(q)' = At(q)
        BY <1>1 DEF At
      <4>2. ForkOwnsChild'
        BY <1>1, <2>2, <3>1, <4>1 DEF KernelInv, ForkOwnsChild, Dispatches
      <4>3. ReadyPlaces'
        BY <1>1, <2>2, <3>1, <4>1 DEF KernelInv, ReadyPlaces, Dispatches
      <4>4. Threads'
        BY <1>1, <2>2 DEF KernelInv, Threads, ThreadOK, LabelsOf
      <4>5. QED
        BY <4>2, <4>3, <4>4
    <3>4. QED
      BY <1>0, <2>2, <3>1, <3>2, <3>3 DEF KernelTypes
  <2>3. QED
    BY <1>1, <2>1, <2>2
<1>4. KernelTypes'
  <2>1. /\ wk' \in [CPUs -> [idx : Procs \cup {0}, chan : Procs \cup {Null, TicksChan}]]
        /\ tickslock' \in Holders
    BY <1>0, <1>1, <1>2 DEF KernelTypes, Holders
  <2>2. QED
    BY <1>0, <1>1, <1>3, <2>1 DEF KernelTypes
<1>5. ProcLocks' /\ WaitLock'
  BY <1>1 DEF KernelInv, ProcLocks, WaitLock, HoldsWait
<1>6. \A d \in CPUs : wk'[d] = IF d = c THEN w ELSE wk[d]
  BY <1>0, <1>1 DEF KernelTypes
<1>7. WakeupCallers'
  <2>1. ASSUME NEW d \in CPUs
        PROVE  /\ wk'[d].idx = 0 => wk'[d] = NoWake
               /\ wk'[d].idx # 0 => wk[d].idx # 0 /\ wk'[d].chan = wk[d].chan
    <3>1. CASE d = c /\ last
      BY <1>0, <1>2, <1>6, <3>1 DEF NoWake
    <3>2. CASE d = c /\ ~last
      BY <1>0, <1>2, <1>6, <3>2
    <3>3. CASE d # c
      BY <1>6, <3>3 DEF KernelInv, WakeupCallers
    <3>4. QED
      BY <3>1, <3>2, <3>3
  <2>2. QED
    BY <1>1, <2>1 DEF KernelInv, WakeupCallers, NoWake
<1>8. TicksLock'
  <2>1. ASSUME NEW d \in CPUs
        PROVE  tickslock' = d <=>
                 \/ wk'[d].idx # 0 /\ wk'[d].chan = TicksChan
                 \/ spc[d] = "running" /\ HoldsTicks(pc[sproc[d]], loc[sproc[d]])
    <3>0. /\ tickslock = d <=> \/ wk[d].idx # 0 /\ wk[d].chan = TicksChan
                               \/ spc[d] = "running" /\ HoldsTicks(pc[sproc[d]], loc[sproc[d]])
          /\ tickslock = c <=> \/ wk[c].idx # 0 /\ wk[c].chan = TicksChan
                               \/ spc[c] = "running" /\ HoldsTicks(pc[sproc[c]], loc[sproc[c]])
          /\ NoCPU # d
      BY Numbers DEF KernelInv, TicksLock
    <3>1. CASE d # c
      BY <1>0, <1>1, <1>6, <3>0, <3>1
    <3>2. CASE d = c /\ wk[c].chan = TicksChan
      <4>1. ~(spc[c] = "running" /\ HoldsTicks(pc[sproc[c]], loc[sproc[c]]))
        BY <1>0, <3>2 DEF KernelInv, WakeupCallers, HoldsTicks
      <4>2. CASE last
        BY <1>1, <1>2, <1>6, <3>0, <3>2, <4>1, <4>2 DEF NoWake
      <4>3. CASE ~last
        BY <1>0, <1>1, <1>2, <1>6, <3>0, <3>2, <4>1, <4>3
      <4>4. QED
        BY <4>2, <4>3
    <3>3. CASE d = c /\ wk[c].chan # TicksChan
      BY <1>0, <1>1, <1>2, <1>6, <3>0, <3>3 DEF NoWake
    <3>4. QED
      BY <3>1, <3>2, <3>3
  <2>2. QED
    BY <1>1, <2>1 DEF TicksLock, HoldsTicks
<1>9. QED
  BY <1>3, <1>4, <1>5, <1>7, <1>8 DEF KernelInv

-----------------------------------------------------------------------------
(* The scheduler thread.                                                   *)

\* What is known of a CPU that executes its scheduler thread.
LEMMA SchedulerThread ==
  ASSUME KernelInv, NEW c \in CPUs, InScheduler(c)
  PROVE  /\ wk[c] = NoWake /\ spc[c] # "running"
         /\ tickslock # c /\ wait_lock # c
         /\ spc[c] \in {"lock", "start", "after"} => sproc[c] \in Procs
<1>1. wk[c] = NoWake /\ spc[c] # "running"
  BY DEF InScheduler
<1>2. tickslock # c /\ wait_lock # c
  BY <1>1 DEF KernelInv, TicksLock, WaitLock, NoWake
<1>3. QED
  BY <1>1, <1>2 DEF KernelInv, SchedulerLocals

\* The scheduler thread of c moves from spc[c] to s with process r and takes or
\* releases p->lock, or does not.
SchedulerMove(c, s, r) ==
  /\ spc' = [spc EXCEPT ![c] = s] /\ sproc' = [sproc EXCEPT ![c] = r]
  /\ UNCHANGED <<pc, loc, wait_lock, tickslock, wk>>
  /\ \A q \in Procs : plock'[q] = c <=>
       r = q /\ (s \in {"start", "after"} \/ (s = "running" /\ pc[q] \in HoldsOwn))
  /\ \A q \in Procs, d \in CPUs : d # c => (plock'[q] = d <=> plock[q] = d)
  /\ s = "running" => ~HoldsWait(pc[r], loc[r]) /\ ~HoldsTicks(pc[r], loc[r])

\* A scheduler that moves on disturbs no lock of a thread.
LEMMA SchedulerLocks ==
  ASSUME KernelInv, NEW c \in CPUs, InScheduler(c), KernelTypes',
         NEW s, NEW r, SchedulerMove(c, s, r)
  PROVE  ProcLocks' /\ WaitLock' /\ TicksLock' /\ WakeupCallers'
<1>1. /\ wk[c] = NoWake /\ spc[c] # "running"
      /\ tickslock # c /\ wait_lock # c
  BY SchedulerThread
<1>2. \A d \in CPUs : /\ spc'[d] = (IF d = c THEN s ELSE spc[d])
                      /\ sproc'[d] = (IF d = c THEN r ELSE sproc[d])
  <2>1. spc' = [spc EXCEPT ![c] = s] /\ sproc' = [sproc EXCEPT ![c] = r]
    BY DEF SchedulerMove
  <2>2. /\ spc \in [CPUs -> {"pick", "wfi", "lock", "start", "running", "after"}]
        /\ sproc \in [CPUs -> Procs \cup {Null}]
    BY DEF KernelInv, KernelTypes
  <2>3. QED
    BY <2>1, <2>2
<1>3. ProcLocks'
  BY <1>2 DEF SchedulerMove, KernelInv, ProcLocks
<1>4. WaitLock'
  <2>1. ASSUME NEW d \in CPUs
        PROVE  wait_lock = d <=> spc'[d] = "running" /\ HoldsWait(pc[sproc'[d]], loc[sproc'[d]])
    BY <1>1, <1>2 DEF KernelInv, WaitLock, SchedulerMove
  <2>2. QED
    BY <2>1 DEF WaitLock, HoldsWait, SchedulerMove
<1>5. TicksLock'
  <2>1. ASSUME NEW d \in CPUs
        PROVE  tickslock = d <=>
                 \/ wk[d].idx # 0 /\ wk[d].chan = TicksChan
                 \/ spc'[d] = "running" /\ HoldsTicks(pc[sproc'[d]], loc[sproc'[d]])
    <3>1. CASE d = c
      BY <1>1, <1>2, <3>1 DEF NoWake, SchedulerMove
    <3>2. CASE d # c
      BY <1>2, <3>2 DEF KernelInv, TicksLock
    <3>3. QED
      BY <3>1, <3>2
  <2>2. QED
    BY <2>1 DEF TicksLock, HoldsTicks, SchedulerMove
<1>6. WakeupCallers'
  <2>1. ASSUME NEW d \in CPUs, wk[d].idx # 0
        PROVE  spc'[d] = spc[d] /\ sproc'[d] = sproc[d]
    BY <1>1, <1>2, <2>1 DEF NoWake
  <2>2. QED
    BY <2>1 DEF KernelInv, WakeupCallers, NoWake, SchedulerMove
<1>7. QED
  BY <1>3, <1>4, <1>5, <1>6

\* The scheduler takes the leftmost process, or none.
LEMMA pickStep ==
  ASSUME KernelInv, NEW c \in CPUs, pick(c)
  PROVE  KernelInv'
<1>1. /\ InScheduler(c) /\ spc[c] = "pick"
      /\ UNCHANGED <<state, chan, killed, currentRuntime, pid, parent, nextpid, plock, tickslock,
                     wait_lock, cproc, wk, pc, ipc, intrOn, again, loc, ticks, panicked>>
  BY DEF pick, idVars, threadVars, procVars, lockVars
<1>2. KernelTypes /\ RQInv /\ sproc[c] = Null /\ cproc[c] = Null
  BY <1>1 DEF KernelInv, SchedulerLocals
<1>3. \A q \in Procs : plock[q] # c
  BY <1>1 DEF KernelInv, ProcLocks
<1>4. \A q \in Procs : At(q)' = At(q)
  BY <1>1 DEF At
<1>5. CASE queue = << >>
  <2>1. /\ spc' = [spc EXCEPT ![c] = IF found[c] THEN "pick" ELSE "wfi"]
        /\ found' = [found EXCEPT ![c] = FALSE]
        /\ period' = PeriodFor(0, period)
        /\ UNCHANGED <<queue, treeWeight, virtualRuntime, maxExecutionTime, sproc>>
    BY <1>5 DEF pick
  <2>2. UNCHANGED rqVars
    BY <2>1, LatencyIsMultiple DEF PeriodFor, rqVars
  <2>3. RQInv' /\ queue' = queue
    BY <2>2, ReadySetStays
  <2>4. PICK s \in {"pick", "wfi"} : spc' = [spc EXCEPT ![c] = s]
    BY <2>1
  <2>5. KernelTypes'
    BY <1>1, <1>2, <2>1, <2>4 DEF KernelTypes
  <2>6. sproc' = [sproc EXCEPT ![c] = Null]
    BY <1>2, <2>1 DEF KernelTypes
  <2>7. \A d \in CPUs : spc'[d] = IF d = c THEN s ELSE spc[d]
    BY <1>2, <2>4 DEF KernelTypes
  <2>8. ProcLocks' /\ WaitLock' /\ TicksLock' /\ WakeupCallers'
    <3>1. SchedulerMove(c, s, Null)
      BY <1>1, <1>3, <2>4, <2>6 DEF SchedulerMove
    <3>2. QED
      BY <1>1, <2>5, <3>1, SchedulerLocks
  <2>9. SchedulerLocals'
    BY <1>1, <1>2, <2>1, <2>7 DEF KernelInv, SchedulerLocals
  <2>10. OneScheduler'
    BY <1>1, <1>2, <2>1, <2>7 DEF KernelInv, OneScheduler, Runs
  <2>11. \A d \in CPUs, q \in Procs : Dispatches(d, q)' <=> Dispatches(d, q)
    BY <1>1, <2>1, <2>7 DEF Dispatches
  <2>12. Threads'
    BY <1>1 DEF KernelInv, Threads, ThreadOK, LabelsOf
  <2>13. ReadyPlaces'
    <3>1. \A q \in Queued(queue) : q \in Procs
      BY QueueLength DEF KernelInv
    <3>2. QED
      BY <1>1, <1>4, <2>3, <2>11, <3>1 DEF KernelInv, ReadyPlaces
  <2>14. ForkOwnsChild'
    BY <1>1, <1>4, <2>3, <2>1, <2>7 DEF KernelInv, ForkOwnsChild, Dispatches
  <2>15. QED
    BY <2>3, <2>5, <2>8, <2>9, <2>10, <2>12, <2>13, <2>14 DEF KernelInv
<1>6. CASE queue # << >>
  <2>0. queue \in Seq(Procs) /\ Head(queue) \in Procs
    BY <1>2, <1>6 DEF RQInv, RQTypeOK
  <2> PICK p \in Procs : p = Head(queue)
    BY <2>0
  <2>1. p \in Queued(queue) /\ Queued(Tail(queue)) = Queued(queue) \ {p}
    BY <1>2, <1>6, TailProperties DEF RQInv, RQTypeOK, NoDuplicates, QueueOrdered
  <2>2. state[p] = "RUNNABLE" /\ \A d \in CPUs : ~Dispatches(d, p)
    BY <2>1 DEF KernelInv, ReadyPlaces
  <2>3. /\ retrieveProcess /\ found' = found
        /\ spc' = [spc EXCEPT ![c] = "lock"] /\ sproc' = [sproc EXCEPT ![c] = p]
    BY <1>6, <2>2 DEF pick
  <2>4. RQInv' /\ Queued(queue') = Queued(queue) \ {p}
    BY <1>2, <2>1, <2>3, RetrievePreservesRQInv DEF retrieveProcess
  <2>5. KernelTypes'
    BY <1>1, <1>2, <2>3 DEF KernelTypes
  <2>6. \A d \in CPUs : /\ spc'[d] = (IF d = c THEN "lock" ELSE spc[d])
                        /\ sproc'[d] = (IF d = c THEN p ELSE sproc[d])
    BY <1>2, <2>3 DEF KernelTypes
  <2>7. ProcLocks' /\ WaitLock' /\ TicksLock' /\ WakeupCallers'
    <3> DEFINE s == "lock"
    <3>0. /\ InScheduler(c) /\ spc' = [spc EXCEPT ![c] = s] /\ sproc' = [sproc EXCEPT ![c] = p]
          /\ UNCHANGED <<pc, loc, wait_lock, tickslock, wk>> /\ s # "running"
      BY <1>1, <2>3
    <3>1. \A q \in Procs : plock'[q] = c <=>
            p = q /\ (s \in {"start", "after"} \/ (s = "running" /\ pc[q] \in HoldsOwn))
      BY <1>1, <1>3
    <3>2. \A q \in Procs, d \in CPUs : d # c => (plock'[q] = d <=> plock[q] = d)
      BY <1>1
    <3>3. SchedulerMove(c, s, p)
      BY <3>0, <3>1, <3>2 DEF SchedulerMove
    <3> HIDE DEF s
    <3>4. QED
      BY <2>5, <3>0, <3>3, SchedulerLocks
  <2>8. SchedulerLocals'
    BY <1>1, <1>2, <2>2, <2>6 DEF KernelInv, SchedulerLocals
  <2>9. \A d \in CPUs : d # c /\ spc[d] \in {"lock", "start", "running"} => sproc[d] # p
    BY <2>2 DEF Dispatches, KernelInv, SchedulerLocals
  <2>10. OneScheduler'
    BY <1>1, <2>6, <2>9 DEF KernelInv, OneScheduler, Runs
  <2>11. \A d \in CPUs, q \in Procs : Dispatches(d, q)' <=> Dispatches(d, q) \/ (d = c /\ q = p)
    BY <1>1, <2>6 DEF Dispatches
  <2>12. Threads'
    BY <1>1 DEF KernelInv, Threads, ThreadOK, LabelsOf
  <2>13. ReadyPlaces'
    <3>1. \A q \in Queued(queue) : q \in Procs
      BY QueueLength DEF KernelInv
    <3>2. QED
      BY <1>1, <1>4, <2>4, <2>11, <3>1 DEF KernelInv, ReadyPlaces
  <2>14. ForkOwnsChild'
    <3>1. ASSUME NEW q \in Procs, At(q) \in Forking
          PROVE  /\ loc[q].np \notin Queued(queue')
                 /\ \A d \in CPUs : ~(spc'[d] \in {"lock", "start"} /\ sproc'[d] = loc[q].np)
      BY <2>1, <2>4, <2>6, <3>1 DEF KernelInv, ForkOwnsChild, Dispatches
    <3>2. QED
      BY <1>1, <1>4, <3>1 DEF KernelInv, ForkOwnsChild, Dispatches
  <2>15. QED
    BY <2>4, <2>5, <2>7, <2>8, <2>10, <2>12, <2>13, <2>14 DEF KernelInv
<1>7. QED
  BY <1>5, <1>6

\* The scheduler locks what it has picked.
LEMMA lockPickedStep ==
  ASSUME KernelInv, NEW c \in CPUs, lockPicked(c)
  PROVE  KernelInv'
<1>0. InScheduler(c) /\ spc[c] = "lock" /\ sproc[c] \in Procs /\ cproc[c] = Null
  BY DEF lockPicked, KernelInv, SchedulerLocals
<1> PICK p \in Procs : p = sproc[c]
  BY <1>0
<1>1. /\ plock[p] = NoCPU /\ plock' = Lock(plock, p, c)
      /\ spc' = [spc EXCEPT ![c] = "start"] /\ UNCHANGED sproc
      /\ UNCHANGED rqVars
      /\ UNCHANGED <<state, chan, killed, currentRuntime, pid, parent, nextpid, tickslock,
                     wait_lock, cproc, found, wk, pc, ipc, intrOn, again, loc, ticks, panicked>>
  <2>1. state[p] = "RUNNABLE"
    BY <1>0 DEF KernelInv, SchedulerLocals
  <2>2. QED
    BY <2>1 DEF lockPicked, idVars, threadVars, procVars
<1>2. KernelTypes /\ RQInv' /\ queue' = queue
  BY <1>1, ReadySetStays DEF KernelInv
<1>3. KernelTypes'
  BY <1>1, <1>2 DEF KernelTypes, Lock, Holders
<1>4. \A d \in CPUs : spc'[d] = (IF d = c THEN "start" ELSE spc[d]) /\ sproc'[d] = sproc[d]
  BY <1>1, <1>2 DEF KernelTypes
<1>5. ProcLocks' /\ WaitLock' /\ TicksLock' /\ WakeupCallers'
  <2> DEFINE s == "start"
  <2>1. /\ InScheduler(c) /\ spc' = [spc EXCEPT ![c] = s] /\ sproc' = [sproc EXCEPT ![c] = p]
        /\ UNCHANGED <<pc, loc, wait_lock, tickslock, wk>> /\ s # "running"
    BY <1>0, <1>1, <1>2 DEF KernelTypes
  <2>2. \A q \in Procs : plock'[q] = (IF q = p THEN c ELSE plock[q])
    BY <1>1, <1>2 DEF KernelTypes, Lock
  <2>3. \A q \in Procs : plock[q] # c
    BY <1>0 DEF KernelInv, ProcLocks
  <2>4. \A q \in Procs : plock'[q] = c <=>
          p = q /\ (s \in {"start", "after"} \/ (s = "running" /\ pc[q] \in HoldsOwn))
    BY <2>2, <2>3
  <2>5. \A q \in Procs, d \in CPUs : d # c => (plock'[q] = d <=> plock[q] = d)
    BY <1>1, <2>2, Numbers
  <2>6. SchedulerMove(c, s, p)
    BY <2>1, <2>4, <2>5 DEF SchedulerMove
  <2> HIDE DEF s
  <2>7. QED
    BY <1>3, <2>1, <2>6, SchedulerLocks
<1>6. SchedulerLocals'
  BY <1>0, <1>1, <1>4 DEF KernelInv, SchedulerLocals
<1>7. OneScheduler'
  BY <1>0, <1>1, <1>4 DEF KernelInv, OneScheduler, Runs
<1>8. Threads'
  BY <1>1 DEF KernelInv, Threads, ThreadOK, LabelsOf
<1>9. \A q \in Procs : At(q)' = At(q)
  BY <1>1 DEF At
<1>10. \A d \in CPUs : \A q : spc'[d] \in {"lock", "start"} /\ sproc'[d] = q <=> Dispatches(d, q)
  BY <1>0, <1>4 DEF Dispatches
<1>11. ForkOwnsChild'
  BY <1>1, <1>2, <1>9, <1>10 DEF KernelInv, ForkOwnsChild, Dispatches
<1>12. ReadyPlaces'
  BY <1>1, <1>2, <1>9, <1>10 DEF KernelInv, ReadyPlaces, Dispatches
<1>13. QED
  BY <1>2, <1>3, <1>5, <1>6, <1>7, <1>8, <1>11, <1>12 DEF KernelInv

\* The scheduler switches to a process that is on no other CPU.
LEMMA switchToStep ==
  ASSUME KernelInv, NEW c \in CPUs, switchTo(c)
  PROVE  KernelInv'
<1>0. InScheduler(c) /\ spc[c] = "start" /\ sproc[c] \in Procs
  BY DEF switchTo, KernelInv, SchedulerLocals
<1> PICK p \in Procs : p = sproc[c]
  BY <1>0
<1>1. /\ state' = [state EXCEPT ![p] = "RUNNING"] /\ cproc' = [cproc EXCEPT ![c] = p]
      /\ spc' = [spc EXCEPT ![c] = "running"] /\ UNCHANGED sproc
      /\ UNCHANGED rqVars
      /\ UNCHANGED <<chan, killed, currentRuntime, pid, parent, nextpid, tickslock, plock,
                     wait_lock, found, wk, pc, ipc, intrOn, again, loc, ticks, panicked>>
  BY DEF switchTo, idVars, threadVars, lockVars
<1>2. KernelTypes /\ RQInv' /\ queue' = queue
  BY <1>1, ReadySetStays DEF KernelInv
<1>3. KernelTypes'
  BY <1>1, <1>2 DEF KernelTypes, States
<1>4. /\ \A d \in CPUs : /\ spc'[d] = (IF d = c THEN "running" ELSE spc[d]) /\ sproc'[d] = sproc[d]
                         /\ cproc'[d] = (IF d = c THEN p ELSE cproc[d])
      /\ \A q \in Procs : state'[q] = IF q = p THEN "RUNNING" ELSE state[q]
  BY <1>1, <1>2 DEF KernelTypes
<1>5. /\ state[p] = "RUNNABLE" /\ pc[p] \in {"yielded", "slept", "forkret"}
      /\ plock[p] = c /\ p # Null
  BY <1>0, Numbers DEF KernelInv, SchedulerLocals, Threads, LabelsOf, ProcLocks
<1>6. ProcLocks' /\ WaitLock' /\ TicksLock' /\ WakeupCallers'
  <2> DEFINE s == "running"
  <2>1. /\ InScheduler(c) /\ spc' = [spc EXCEPT ![c] = s] /\ sproc' = [sproc EXCEPT ![c] = p]
        /\ UNCHANGED <<pc, loc, wait_lock, tickslock, wk>>
    BY <1>0, <1>1, <1>2 DEF KernelTypes
  <2>2. \A q \in Procs : plock'[q] = c <=>
          p = q /\ (s \in {"start", "after"} \/ (s = "running" /\ pc[q] \in HoldsOwn))
    BY <1>0, <1>1, <1>5 DEF KernelInv, ProcLocks, HoldsOwn
  <2>3. \A q \in Procs, d \in CPUs : d # c => (plock'[q] = d <=> plock[q] = d)
    BY <1>1
  <2>4. ~HoldsWait(pc[p], loc[p]) /\ ~HoldsTicks(pc[p], loc[p])
    BY <1>5 DEF HoldsWait, HoldsTicks
  <2>5. SchedulerMove(c, s, p)
    BY <2>1, <2>2, <2>3, <2>4 DEF SchedulerMove
  <2> HIDE DEF s
  <2>6. QED
    BY <1>3, <2>1, <2>5, SchedulerLocks
<1>7. \A d \in CPUs : d # c => sproc[d] # p
  <2>1. ASSUME NEW d \in CPUs, d # c, sproc[d] = p
        PROVE  FALSE
    <3>1. spc[d] \in {"pick", "wfi", "lock", "start", "running", "after"}
      BY <1>2 DEF KernelTypes
    <3>2. spc[d] \notin {"lock", "start", "running"}
      BY <1>0, <1>5, <2>1 DEF KernelInv, OneScheduler
    <3>3. spc[d] # "after"
      BY <1>5, <2>1 DEF KernelInv, ProcLocks
    <3>4. QED
      BY <1>5, <2>1, <3>1, <3>2, <3>3 DEF KernelInv, SchedulerLocals
  <2>2. QED
    BY <2>1
<1>8. SchedulerLocals'
  BY <1>0, <1>4, <1>7 DEF KernelInv, SchedulerLocals
<1>9. OneScheduler'
  <2>1. \A q \in Procs : state'[q] = "RUNNING" => \E d \in CPUs : spc'[d] = "running" /\ sproc'[d] = q
    BY <1>0, <1>4 DEF KernelInv, OneScheduler, Runs
  <2>2. QED
    BY <1>0, <1>4, <1>7, <2>1 DEF KernelInv, OneScheduler, Runs
<1>10. Threads'
  <2>1. ASSUME NEW q \in Procs
        PROVE  pc'[q] \in LabelsOf(state'[q]) /\ ThreadOK(q, pc'[q], ipc'[q], loc'[q])
    <3>1. pc[p] \in LabelsOf("RUNNING")
      BY <1>5 DEF LabelsOf, Labels
    <3>2. QED
      BY <1>1, <1>4, <3>1 DEF KernelInv, Threads
  <2>2. QED
    BY <2>1 DEF Threads, ThreadOK, LabelsOf
<1>11. \A q \in Procs : At(q)' = At(q)
  BY <1>1 DEF At
<1>12. \A d \in CPUs : \A q : spc'[d] \in {"lock", "start"} /\ sproc'[d] = q <=> d # c /\ Dispatches(d, q)
  BY <1>0, <1>4 DEF Dispatches
<1>13. Dispatches(c, p)
  BY <1>0 DEF Dispatches
<1>14. ForkOwnsChild'
  <2>1. \A q \in Procs : At(q) \in Forking => loc[q].np # p
    BY <1>13 DEF KernelInv, ForkOwnsChild
  <2>2. QED
    BY <1>1, <1>2, <1>4, <1>11, <1>12, <2>1 DEF KernelInv, ForkOwnsChild, Dispatches
<1>15. ReadyPlaces'
  <2>1. \A q \in Queued(queue) : q \in Procs /\ q # p
    BY <1>13, QueueLength DEF KernelInv, ReadyPlaces
  <2>2. ASSUME NEW q \in Procs, q # p, NEW d \in CPUs, Dispatches(d, q)
        PROVE  d # c
    BY <2>2 DEF Dispatches
  <2>3. \A q \in Procs : state'[q] = "RUNNABLE" =>
          \/ q \in Queued(queue)
          \/ \E r \in Procs : At(r) = "forkinsert" /\ loc[r].np = q
          \/ \E d \in CPUs : d # c /\ Dispatches(d, q)
    BY <1>4, <2>2 DEF KernelInv, ReadyPlaces
  <2>4. \A q \in Queued(queue) :
          state'[q] = "RUNNABLE" /\ \A d \in CPUs : ~Dispatches(d, q)
    BY <1>4, <2>1 DEF KernelInv, ReadyPlaces
  <2>5. QED
    BY <1>1, <1>2, <1>11, <1>12, <2>3, <2>4 DEF ReadyPlaces, Dispatches
<1>16. QED
  BY <1>2, <1>3, <1>6, <1>8, <1>9, <1>10, <1>14, <1>15 DEF KernelInv

\* A process has switched back; the scheduler lets go of it.
LEMMA switchedBackStep ==
  ASSUME KernelInv, NEW c \in CPUs, switchedBack(c)
  PROVE  KernelInv'
<1>0. InScheduler(c) /\ spc[c] = "after" /\ sproc[c] \in Procs
  BY DEF switchedBack, KernelInv, SchedulerLocals
<1> PICK p \in Procs : p = sproc[c]
  BY <1>0
<1>1. /\ plock' = Unlock(plock, p) /\ cproc' = [cproc EXCEPT ![c] = Null]
      /\ found' = [found EXCEPT ![c] = TRUE]
      /\ spc' = [spc EXCEPT ![c] = "pick"] /\ sproc' = [sproc EXCEPT ![c] = Null]
      /\ UNCHANGED rqVars
      /\ UNCHANGED <<state, chan, killed, currentRuntime, pid, parent, nextpid, tickslock,
                     wait_lock, wk, pc, ipc, intrOn, again, loc, ticks, panicked>>
  BY DEF switchedBack, idVars, threadVars, procVars
<1>2. KernelTypes /\ RQInv' /\ queue' = queue
  BY <1>1, ReadySetStays DEF KernelInv
<1>3. KernelTypes'
  BY <1>1, <1>2 DEF KernelTypes, Unlock, Holders
<1>4. \A d \in CPUs : /\ spc'[d] = (IF d = c THEN "pick" ELSE spc[d])
                      /\ sproc'[d] = (IF d = c THEN Null ELSE sproc[d])
                      /\ cproc'[d] = (IF d = c THEN Null ELSE cproc[d])
  BY <1>1, <1>2 DEF KernelTypes
<1>5. plock[p] = c
  BY <1>0 DEF KernelInv, ProcLocks
<1>6. ProcLocks' /\ WaitLock' /\ TicksLock' /\ WakeupCallers'
  <2> DEFINE s == "pick"
  <2>0. /\ InScheduler(c) /\ spc' = [spc EXCEPT ![c] = s] /\ sproc' = [sproc EXCEPT ![c] = Null]
        /\ UNCHANGED <<pc, loc, wait_lock, tickslock, wk>> /\ s # "running"
    BY <1>0, <1>1
  <2>1. \A q \in Procs : plock'[q] = (IF q = p THEN NoCPU ELSE plock[q])
    BY <1>1, <1>2 DEF KernelTypes, Unlock
  <2>2. \A q \in Procs : q # p => plock[q] # c
    BY DEF KernelInv, ProcLocks
  <2>3. \A q \in Procs : plock'[q] = c <=>
          Null = q /\ (s \in {"start", "after"} \/ (s = "running" /\ pc[q] \in HoldsOwn))
    BY <2>1, <2>2, Numbers
  <2>4. \A q \in Procs, d \in CPUs : d # c => (plock'[q] = d <=> plock[q] = d)
    BY <1>5, <2>1, Numbers
  <2>5. SchedulerMove(c, s, Null)
    BY <2>0, <2>3, <2>4 DEF SchedulerMove
  <2> HIDE DEF s
  <2>6. QED
    BY <1>3, <2>0, <2>5, SchedulerLocks
<1>7. SchedulerLocals'
  BY <1>0, <1>1, <1>4 DEF KernelInv, SchedulerLocals
<1>8. OneScheduler'
  BY <1>0, <1>1, <1>4 DEF KernelInv, OneScheduler, Runs
<1>9. Threads'
  BY <1>1 DEF KernelInv, Threads, ThreadOK, LabelsOf
<1>10. \A q \in Procs : At(q)' = At(q)
  BY <1>1 DEF At
<1>11. \A d \in CPUs : \A q : spc'[d] \in {"lock", "start"} /\ sproc'[d] = q <=> Dispatches(d, q)
  BY <1>0, <1>4 DEF Dispatches
<1>12. ForkOwnsChild'
  BY <1>1, <1>2, <1>10, <1>11 DEF KernelInv, ForkOwnsChild, Dispatches
<1>13. ReadyPlaces'
  BY <1>1, <1>2, <1>10, <1>11 DEF KernelInv, ReadyPlaces, Dispatches
<1>14. QED
  BY <1>2, <1>3, <1>6, <1>7, <1>8, <1>9, <1>12, <1>13 DEF KernelInv

\* The timer interrupts a scheduler.
LEMMA schedTimerStep ==
  ASSUME KernelInv, NEW c \in CPUs, schedTimer(c)
  PROVE  KernelInv'
<1>1. /\ InScheduler(c) /\ clockintr(c) /\ UNCHANGED rqVars
      /\ spc[c] \in {"pick", "lock", "wfi"}
      /\ spc' = [spc EXCEPT ![c] = IF spc[c] = "wfi" THEN "pick" ELSE spc[c]]
      /\ UNCHANGED <<state, chan, killed, currentRuntime, pid, parent, nextpid, plock, wait_lock,
                     cproc, sproc, found, pc, ipc, intrOn, again, loc, panicked>>
  BY DEF schedTimer, idVars, threadVars, procVars
<1>2. KernelTypes /\ RQInv' /\ queue' = queue
  BY <1>1, ReadySetStays DEF KernelInv
<1>3. /\ ticks' \in 0..(TickModulus - 1) /\ tickslock' \in Holders
      /\ wk' \in [CPUs -> [idx : Procs \cup {0}, chan : Procs \cup {Null, TicksChan}]]
      /\ \/ UNCHANGED <<tickslock, wk>>
         \/ /\ tickslock = NoCPU /\ tickslock' = c
            /\ wk' = [wk EXCEPT ![c] = [idx |-> 1, chan |-> TicksChan]]
  BY <1>1, <1>2, ClockTypes
<1>4. PICK s \in {"pick", "lock"} :
        /\ spc' = [spc EXCEPT ![c] = s]
        /\ s = "lock" <=> spc[c] = "lock"
  BY <1>1
<1>5. KernelTypes'
  BY <1>1, <1>2, <1>3, <1>4 DEF KernelTypes
<1>6. \A d \in CPUs : spc'[d] = IF d = c THEN s ELSE spc[d]
  BY <1>2, <1>4 DEF KernelTypes
<1>7. SchedulerLocals'
  BY <1>1, <1>4, <1>6 DEF KernelInv, SchedulerLocals
<1>8. OneScheduler'
  BY <1>1, <1>4, <1>6 DEF KernelInv, OneScheduler, Runs
<1>9. ProcLocks'
  BY <1>1, <1>4, <1>6 DEF KernelInv, ProcLocks
<1>10. WaitLock'
  BY <1>1, <1>4, <1>6 DEF KernelInv, WaitLock, HoldsWait
<1>11. /\ wk[c] = NoWake /\ tickslock # c /\ NoCPU \notin CPUs
  BY <1>1, SchedulerThread, Numbers
<1>12. \A d \in CPUs : d # c => wk'[d] = wk[d]
  BY <1>2, <1>3 DEF KernelTypes
<1>13. \/ wk'[c] = NoWake /\ tickslock' = tickslock
       \/ /\ wk'[c] = [idx |-> 1, chan |-> TicksChan]
          /\ tickslock = NoCPU /\ tickslock' = c
  BY <1>2, <1>3, <1>11 DEF KernelTypes
<1>14. TicksLock'
  <2>1. ASSUME NEW d \in CPUs
        PROVE  tickslock' = d <=>
                 \/ wk'[d].idx # 0 /\ wk'[d].chan = TicksChan
                 \/ spc'[d] = "running" /\ HoldsTicks(pc[sproc[d]], loc[sproc[d]])
    <3>1. CASE d = c
      BY <1>4, <1>6, <1>11, <1>13, <3>1 DEF NoWake
    <3>2. CASE d # c
      <4>1. tickslock = d <=>
              \/ wk[d].idx # 0 /\ wk[d].chan = TicksChan
              \/ spc[d] = "running" /\ HoldsTicks(pc[sproc[d]], loc[sproc[d]])
        BY DEF KernelInv, TicksLock
      <4>2. QED
        BY <1>6, <1>11, <1>12, <1>13, <3>2, <4>1
    <3>3. QED
      BY <3>1, <3>2
  <2>2. QED
    BY <1>1, <2>1 DEF TicksLock, HoldsTicks
<1>15. WakeupCallers'
  <2>1. ASSUME NEW d \in CPUs
        PROVE  /\ wk'[d].idx = 0 => wk'[d] = NoWake
               /\ wk'[d].idx # 0 =>
                    IF wk'[d].chan = TicksChan
                    THEN \/ spc'[d] \in {"pick", "lock"}
                         \/ spc'[d] = "running" /\ pc[sproc[d]] \in {"trapout", "yield"}
                    ELSE spc'[d] = "running" /\ pc[sproc[d]] \in {"reparent", "zombie"}
    <3>1. CASE d = c
      BY <1>4, <1>6, <1>13, <3>1 DEF NoWake
    <3>2. CASE d # c
      BY <1>6, <1>12, <3>2 DEF KernelInv, WakeupCallers
    <3>3. QED
      BY <3>1, <3>2
  <2>2. QED
    BY <1>1, <2>1 DEF WakeupCallers, NoWake
<1>16. Threads'
  BY <1>1 DEF KernelInv, Threads, ThreadOK, LabelsOf
<1>17. \A q \in Procs : At(q)' = At(q)
  BY <1>1 DEF At
<1>18. \A d \in CPUs : \A q : spc'[d] \in {"lock", "start"} /\ sproc[d] = q <=> Dispatches(d, q)
  BY <1>1, <1>4, <1>6 DEF Dispatches
<1>19. ForkOwnsChild'
  BY <1>1, <1>2, <1>17, <1>18 DEF KernelInv, ForkOwnsChild, Dispatches
<1>20. ReadyPlaces'
  BY <1>1, <1>2, <1>17, <1>18 DEF KernelInv, ReadyPlaces, Dispatches
<1>21. QED
  BY <1>2, <1>5, <1>7, <1>8, <1>9, <1>10, <1>14, <1>15, <1>16, <1>19, <1>20 DEF KernelInv

-----------------------------------------------------------------------------
(* A thread gives up its CPU: sched().                                     *)

\* The tests of sched() hold: the thread of p holds p->lock and no other lock, and
\* its process is no longer RUNNING.  Its CPU is on its way to the scheduler.
LEMMA SchedOut ==
  ASSUME KernelInv, NEW c \in CPUs, NEW p \in Procs, OnCPU(c, p),
         NEW l, NEW s \in {"RUNNABLE", "SLEEPING", "ZOMBIE"},
         state' = [state EXCEPT ![p] = s], sched(c, p, l),
         plock' = Lock(plock, p, c), UNCHANGED <<sproc, cproc, wk>>,
         OthersStay(c),
         \/ wait_lock' = wait_lock /\ ~HoldsWait(pc[p], loc[p])
         \/ wait_lock' = NoCPU /\ HoldsWait(pc[p], loc[p]),
         \/ tickslock' = tickslock /\ ~HoldsTicks(pc[p], loc[p])
         \/ tickslock' = NoCPU /\ HoldsTicks(pc[p], loc[p])
  PROVE  /\ panicked' = "no"
         /\ SchedulerLocals' /\ OneScheduler'
         /\ ProcLocks' /\ WaitLock' /\ TicksLock' /\ WakeupCallers'
         /\ \A d \in CPUs : \A q : spc'[d] \in {"lock", "start"} /\ sproc'[d] = q <=> Dispatches(d, q)
<1>1. /\ panicked = "no" /\ wk[c] = NoWake
      /\ spc[c] = "running" /\ sproc[c] = p /\ cproc[c] = p /\ state[p] = "RUNNING"
      /\ \A d \in CPUs : d # c => cproc[d] # p /\ sproc[d] # p
      /\ wait_lock = c <=> HoldsWait(pc[p], loc[p])
      /\ tickslock = c <=> HoldsTicks(pc[p], loc[p])
  BY RunningThread
<1>2. KernelTypes /\ NoCPU \notin CPUs
  BY Numbers DEF KernelInv
<1>3. /\ \A d \in CPUs : spc'[d] = IF d = c THEN "after" ELSE spc[d]
      /\ \A q \in Procs : /\ plock'[q] = (IF q = p THEN c ELSE plock[q])
                          /\ state'[q] = (IF q = p THEN s ELSE state[q])
  BY <1>2 DEF sched, Lock, KernelTypes
<1>4. \A q \in Procs : q # p => plock[q] # c
  BY <1>1 DEF KernelInv, ProcLocks
<1>5. wait_lock' # c /\ tickslock' # c
  BY <1>1, <1>2
<1>6. panicked' = "no"
  <2>1. {q \in Procs : plock'[q] = c} = {p}
    BY <1>3, <1>4
  <2>2. Cardinality({p}) = 1
    BY FS_Singleton
  <2>3. noff(c)' = 1
    BY <1>5, <2>1, <2>2 DEF noff
  <2>4. plock'[p] = c /\ state'[p] # "RUNNING"
    BY <1>3
  <2>5. QED
    BY <1>1, <2>3, <2>4 DEF sched
<1>7. SchedulerLocals'
  BY <1>1, <1>3 DEF KernelInv, SchedulerLocals
<1>8. OneScheduler'
  BY <1>1, <1>3 DEF KernelInv, OneScheduler, Runs
<1>9. \A d \in CPUs : d # c /\ spc[d] = "running" =>
        /\ sproc[d] \in Procs /\ sproc[d] # p
        /\ pc'[sproc[d]] = pc[sproc[d]] /\ loc'[sproc[d]] = loc[sproc[d]]
  BY <1>1 DEF OthersStay, KernelInv, SchedulerLocals
<1>10. ProcLocks'
  <2>1. ASSUME NEW d \in CPUs, NEW q \in Procs
        PROVE  plock'[q] = d <=>
                 /\ sproc[d] = q
                 /\ spc'[d] \in {"start", "after"} \/ (spc'[d] = "running" /\ pc'[q] \in HoldsOwn)
    <3>1. CASE d = c
      BY <1>1, <1>3, <1>4, <3>1
    <3>2. CASE d # c
      <4>1. plock[q] = d <=>
              /\ sproc[d] = q
              /\ spc[d] \in {"start", "after"} \/ (spc[d] = "running" /\ pc[q] \in HoldsOwn)
        BY DEF KernelInv, ProcLocks
      <4>2. QED
        BY <1>1, <1>3, <1>9, <3>2, <4>1
    <3>3. QED
      BY <3>1, <3>2
  <2>2. QED
    BY <2>1 DEF ProcLocks
<1>11. WaitLock'
  <2>1. ASSUME NEW d \in CPUs
        PROVE  wait_lock' = d <=> spc'[d] = "running" /\ HoldsWait(pc'[sproc[d]], loc'[sproc[d]])
    <3>1. wait_lock = d <=> spc[d] = "running" /\ HoldsWait(pc[sproc[d]], loc[sproc[d]])
      BY DEF KernelInv, WaitLock
    <3>2. QED
      BY <1>1, <1>2, <1>3, <1>5, <1>9, <3>1
  <2>2. QED
    BY <2>1 DEF WaitLock, HoldsWait
<1>12. TicksLock'
  <2>1. ASSUME NEW d \in CPUs
        PROVE  tickslock' = d <=>
                 \/ wk[d].idx # 0 /\ wk[d].chan = TicksChan
                 \/ spc'[d] = "running" /\ HoldsTicks(pc'[sproc[d]], loc'[sproc[d]])
    <3>1. tickslock = d <=>
            \/ wk[d].idx # 0 /\ wk[d].chan = TicksChan
            \/ spc[d] = "running" /\ HoldsTicks(pc[sproc[d]], loc[sproc[d]])
      BY DEF KernelInv, TicksLock
    <3>2. CASE d = c
      BY <1>1, <1>3, <1>5, <3>2 DEF NoWake
    <3>3. CASE d # c
      BY <1>1, <1>2, <1>3, <1>9, <3>1, <3>3
    <3>4. QED
      BY <3>2, <3>3
  <2>2. QED
    BY <2>1 DEF TicksLock, HoldsTicks
<1>13. WakeupCallers'
  <2>1. ASSUME NEW d \in CPUs, wk[d].idx # 0
        PROVE  d # c /\ spc'[d] = spc[d]
    BY <1>1, <1>3, <2>1 DEF NoWake
  <2>2. QED
    BY <1>9, <2>1 DEF KernelInv, WakeupCallers, NoWake
<1>14. \A d \in CPUs : \A q : spc'[d] \in {"lock", "start"} /\ sproc'[d] = q <=> Dispatches(d, q)
  BY <1>1, <1>3 DEF Dispatches
<1>15. QED
  BY <1>6, <1>7, <1>8, <1>10, <1>11, <1>12, <1>13, <1>14

\* The other threads are where they were, and a process that gives up its CPU is
\* in the tree exactly if it can still run.
LEMMA SchedPlaces ==
  ASSUME KernelInv, NEW c \in CPUs, NEW p \in Procs, OnCPU(c, p),
         NEW l, NEW x, NEW s \in {"RUNNABLE", "SLEEPING", "ZOMBIE"},
         state' = [state EXCEPT ![p] = s],
         pc' = [pc EXCEPT ![p] = l], loc' = [loc EXCEPT ![p] = x], UNCHANGED ipc,
         l \in LabelsOf(s), ThreadOK(p, l, ipc[p], x), x.np = loc[p].np,
         pc[p] \notin Forking, l \notin Forking,
         Queued(queue') = IF s = "RUNNABLE" THEN Queued(queue) \cup {p} ELSE Queued(queue),
         \A d \in CPUs : \A q : spc'[d] \in {"lock", "start"} /\ sproc'[d] = q <=> Dispatches(d, q)
  PROVE  Threads' /\ ForkOwnsChild' /\ ReadyPlaces'
<1>1. /\ spc[c] = "running" /\ sproc[c] = p /\ state[p] = "RUNNING"
      /\ \A d \in CPUs : d # c => sproc[d] # p
  BY RunningThread
<1>2. KernelTypes
  BY DEF KernelInv
<1>3. \A q \in Procs :
        /\ state'[q] = (IF q = p THEN s ELSE state[q])
        /\ pc'[q] = (IF q = p THEN l ELSE pc[q])
        /\ loc'[q].np = loc[q].np
        /\ loc'[q] = (IF q = p THEN x ELSE loc[q])
  <2>1. /\ state \in [Procs -> States] /\ pc \in [Procs -> Labels]
        /\ loc \in [Procs -> LocalsType]
    BY <1>2 DEF KernelTypes
  <2>2. QED
    BY <2>1
<1>4. ASSUME NEW q \in Procs
      PROVE  /\ At(q)' \in Forking <=> At(q) \in Forking
             /\ At(q) \in Forking => At(q)' = At(q)
  BY <1>3 DEF At
<1>5. Threads'
  <2>1. ASSUME NEW q \in Procs
        PROVE  pc'[q] \in LabelsOf(state'[q]) /\ ThreadOK(q, pc'[q], ipc[q], loc'[q])
    BY <1>3 DEF KernelInv, Threads
  <2>2. QED
    BY <2>1 DEF Threads, ThreadOK, LabelsOf
<1>6. ~\E d \in CPUs : Dispatches(d, p)
  BY <1>1 DEF Dispatches
<1>7. p \notin Queued(queue) /\ \A q \in Queued(queue) : q \in Procs
  BY <1>1, QueueLength DEF KernelInv, ReadyPlaces
<1>8. ForkOwnsChild'
  <2>1. ASSUME NEW q \in Procs, At(q) \in Forking
        PROVE  /\ loc[q].np \in Procs
               /\ state'[loc[q].np] = IF At(q) = "forkinsert" THEN "RUNNABLE" ELSE "USED"
               /\ loc[q].np \notin Queued(queue')
               /\ \A d \in CPUs : ~(spc'[d] \in {"lock", "start"} /\ sproc'[d] = loc[q].np)
    <3>1. /\ loc[q].np \in Procs
          /\ state[loc[q].np] = IF At(q) = "forkinsert" THEN "RUNNABLE" ELSE "USED"
          /\ loc[q].np \notin Queued(queue)
          /\ \A d \in CPUs : ~Dispatches(d, loc[q].np)
      BY <2>1 DEF KernelInv, ForkOwnsChild
    <3>2. loc[q].np # p
      BY <1>1, <3>1
    <3>3. QED
      BY <1>3, <3>1, <3>2
  <2>2. \A q, r \in Procs :
          At(q) \in Forking /\ At(r) \in Forking /\ loc[q].np = loc[r].np => q = r
    BY DEF KernelInv, ForkOwnsChild
  <2>3. QED
    BY <1>3, <1>4, <2>1, <2>2 DEF ForkOwnsChild, Dispatches
<1>9. ReadyPlaces'
  <2>1. ASSUME NEW q \in Procs, state'[q] = "RUNNABLE"
        PROVE  \/ q \in Queued(queue')
               \/ \E r \in Procs : At(r)' = "forkinsert" /\ loc'[r].np = q
               \/ \E d \in CPUs : spc'[d] \in {"lock", "start"} /\ sproc'[d] = q
    <3>1. CASE q = p
      BY <1>3, <2>1, <3>1
    <3>2. CASE q # p
      <4>1. \/ q \in Queued(queue)
            \/ \E r \in Procs : At(r) = "forkinsert" /\ loc[r].np = q
            \/ \E d \in CPUs : Dispatches(d, q)
        BY <1>3, <2>1, <3>2 DEF KernelInv, ReadyPlaces
      <4>2. QED
        BY <1>3, <1>4, <4>1 DEF Forking
    <3>3. QED
      BY <3>1, <3>2
  <2>2. ASSUME NEW q \in Queued(queue')
        PROVE  /\ state'[q] = "RUNNABLE"
               /\ \A d \in CPUs : ~(spc'[d] \in {"lock", "start"} /\ sproc'[d] = q)
    <3>1. CASE q = p
      BY <1>3, <1>6, <1>7, <3>1
    <3>2. CASE q # p
      BY <1>3, <1>7, <3>2 DEF KernelInv, ReadyPlaces
    <3>3. QED
      BY <3>1, <3>2
  <2>3. QED
    BY <2>1, <2>2 DEF ReadyPlaces, Dispatches
<1>10. QED
  BY <1>5, <1>8, <1>9

\* yield() that puts p back into the tree.
LEMMA preemptStep ==
  ASSUME KernelInv, NEW c \in CPUs, NEW p \in Procs, preempt(c, p)
  PROVE  KernelInv'
<1>1. CASE ~checkPreemption(p, loc[p].minp)
  BY <1>1, KeepsCPU
<1>2. CASE checkPreemption(p, loc[p].minp)
  <2> DEFINE v == virtualRuntime[p] + currentRuntime[p]
             x == [loc[p] EXCEPT !.minp = Null]
  <2>1. /\ OnCPU(c, p) /\ pc[p] = "check" /\ sched(c, p, "yielded")
        /\ state' = [state EXCEPT ![p] = "RUNNABLE"]
        /\ currentRuntime' = [currentRuntime EXCEPT ![p] = 0]
        /\ insertProcess(p, v)
        /\ loc' = [loc EXCEPT ![p].minp = Null]
        /\ UNCHANGED <<plock, wait_lock, tickslock, chan, killed, pid, parent, nextpid, cproc,
                       sproc, found, wk, ipc, intrOn, again, ticks>>
    BY <1>2 DEF preempt, requeue, idVars, lockVars
  <2>2. KernelTypes /\ RQInv
    BY DEF KernelInv
  <2>3. /\ loc[p] \in LocalsType /\ x \in LocalsType /\ x.np = loc[p].np /\ x.idx = loc[p].idx
        /\ loc' = [loc EXCEPT ![p] = x]
    <3>1. loc \in [Procs -> LocalsType]
      BY <2>2 DEF KernelTypes
    <3>2. QED
      BY <2>1, <3>1 DEF LocalsType
  <2>4. v \in Nat
    <3>1. virtualRuntime \in [Procs -> Nat] /\ currentRuntime \in [Procs -> Nat]
      BY <2>2 DEF KernelTypes, RQInv, RQTypeOK
    <3>2. QED
      BY <3>1
  <2> HIDE DEF v, x
  <2>5. /\ state[p] = "RUNNING" /\ plock[p] = c /\ ThreadOK(p, "check", ipc[p], loc[p])
        /\ \A d \in CPUs : d # c => sproc[d] # p
    BY <2>1, RunningThread DEF HoldsOwn
  <2>6. plock' = Lock(plock, p, c)
    BY <2>1, <2>2, <2>5 DEF Lock, KernelTypes
  <2>7. OthersStay(c)
    <3>1. \A d \in CPUs : spc[d] = "running" => sproc[d] \in Procs
      BY DEF KernelInv, SchedulerLocals
    <3>2. QED
      BY <2>1, <2>2, <2>3, <2>5, <3>1 DEF OthersStay, sched, KernelTypes
  <2>8. ~HoldsWait(pc[p], loc[p]) /\ ~HoldsTicks(pc[p], loc[p])
    BY <2>1 DEF HoldsWait, HoldsTicks
  <2>9. /\ panicked' = "no"
        /\ SchedulerLocals' /\ OneScheduler'
        /\ ProcLocks' /\ WaitLock' /\ TicksLock' /\ WakeupCallers'
        /\ \A d \in CPUs : \A q : spc'[d] \in {"lock", "start"} /\ sproc'[d] = q <=> Dispatches(d, q)
    BY <2>1, <2>6, <2>7, <2>8, SchedOut
  <2>10. p \notin Queued(queue)
    BY <2>5 DEF KernelInv, ReadyPlaces
  <2>11. RQInv' /\ Queued(queue') = Queued(queue) \cup {p}
    BY <2>1, <2>4, <2>10, Inserting
  <2>12. KernelTypes'
    <3>1. /\ spc' = [spc EXCEPT ![c] = "after"] /\ pc' = [pc EXCEPT ![p] = "yielded"]
          /\ panicked' = "no"
      BY <2>1, <2>9 DEF sched
    <3>2. loc' \in [Procs -> LocalsType]
      BY <2>2, <2>3 DEF KernelTypes
    <3>3. "yielded" \in Labels /\ "RUNNABLE" \in States
      BY DEF Labels, States
    <3>4. currentRuntime' \in [Procs -> Nat] /\ state' \in [Procs -> States]
      BY <2>1, <2>2, <3>3 DEF KernelTypes
    <3>5. QED
      BY <2>1, <2>2, <3>1, <3>2, <3>3, <3>4 DEF KernelTypes
  <2>13. ThreadOK(p, "yielded", ipc[p], x)
    BY <2>3, <2>5 DEF ThreadOK
  <2>14. Threads' /\ ForkOwnsChild' /\ ReadyPlaces'
    <3>1. "yielded" \in LabelsOf("RUNNABLE") /\ "yielded" \notin Forking /\ pc[p] \notin Forking
      BY <2>1 DEF LabelsOf, Forking
    <3>2. pc' = [pc EXCEPT ![p] = "yielded"]
      BY <2>1 DEF sched
    <3>3. QED
      BY <2>1, <2>3, <2>9, <2>11, <2>13, <3>1, <3>2, SchedPlaces
  <2>15. QED
    BY <2>9, <2>11, <2>12, <2>14 DEF KernelInv
<1>3. QED
  BY <1>1, <1>2

\* sleep() and the end of exit(): p goes to the scheduler with no lock but its own.
LEMMA Leaving ==
  ASSUME KernelInv, NEW c \in CPUs, NEW p \in Procs, OnCPU(c, p),
         NEW l \in {"slept", "dead"}, NEW s \in {"SLEEPING", "ZOMBIE"},
         l \in LabelsOf(s), l = "dead" => p # initproc,
         pc[p] \in {"sleep", "zombie"},
         plock' = Lock(plock, p, c), state' = [state EXCEPT ![p] = s], sched(c, p, l),
         chan' \in [Procs -> Procs \cup {Null, TicksChan}],
         UNCHANGED rqVars,
         UNCHANGED <<killed, currentRuntime, pid, parent, nextpid, cproc, sproc, found, wk, ipc,
                     intrOn, again, loc, ticks>>,
         \/ wait_lock' = wait_lock /\ ~HoldsWait(pc[p], loc[p])
         \/ wait_lock' = NoCPU /\ HoldsWait(pc[p], loc[p]),
         \/ tickslock' = tickslock /\ ~HoldsTicks(pc[p], loc[p])
         \/ tickslock' = NoCPU /\ HoldsTicks(pc[p], loc[p])
  PROVE  KernelInv'
<1>1. KernelTypes /\ RQInv' /\ queue' = queue
  BY ReadySetStays DEF KernelInv
<1>2. pc' = [pc EXCEPT ![p] = l] /\ loc' = [loc EXCEPT ![p] = loc[p]]
  BY <1>1 DEF sched, KernelTypes
<1>3. /\ \A d \in CPUs : d # c => sproc[d] # p
      /\ ThreadOK(p, pc[p], ipc[p], loc[p])
  BY RunningThread
<1>4. OthersStay(c)
  <2>1. \A d \in CPUs : spc[d] = "running" => sproc[d] \in Procs
    BY DEF KernelInv, SchedulerLocals
  <2>2. QED
    BY <1>1, <1>2, <1>3, <2>1 DEF OthersStay, KernelTypes
<1>5. /\ panicked' = "no"
      /\ SchedulerLocals' /\ OneScheduler'
      /\ ProcLocks' /\ WaitLock' /\ TicksLock' /\ WakeupCallers'
      /\ \A d \in CPUs : \A q : spc'[d] \in {"lock", "start"} /\ sproc'[d] = q <=> Dispatches(d, q)
  BY <1>4, SchedOut
<1>6. KernelTypes'
  <2>1. wait_lock' \in Holders /\ tickslock' \in Holders
    BY <1>1 DEF KernelTypes, Holders
  <2>2. spc' = [spc EXCEPT ![c] = "after"] /\ pc' = [pc EXCEPT ![p] = l] /\ panicked' = "no"
    BY <1>5 DEF sched
  <2>3. s \in States /\ l \in Labels
    BY DEF States, Labels
  <2>4. QED
    BY <1>1, <2>1, <2>2, <2>3 DEF KernelTypes, Lock, Holders
<1>7. ThreadOK(p, l, ipc[p], loc[p])
  BY <1>3 DEF ThreadOK
<1>8. Threads' /\ ForkOwnsChild' /\ ReadyPlaces'
  <2>1. l \notin Forking /\ pc[p] \notin Forking
    BY DEF Forking
  <2>2. Queued(queue') = IF s = "RUNNABLE" THEN Queued(queue) \cup {p} ELSE Queued(queue)
    BY <1>1
  <2>3. QED
    BY <1>2, <1>5, <1>7, <2>1, <2>2, SchedPlaces
<1>9. QED
  BY <1>1, <1>5, <1>6, <1>8 DEF KernelInv

\* sleep() releases the lock it was given, and only that one.
LEMMA sleepStep ==
  ASSUME KernelInv, NEW c \in CPUs, NEW p \in Procs, sleep(c, p)
  PROVE  KernelInv'
<1>1. /\ OnCPU(c, p) /\ pc[p] = "sleep" /\ plock' = Lock(plock, p, c)
      /\ IF loc[p].lk = "tickslock" THEN tickslock' = NoCPU /\ UNCHANGED wait_lock
                                    ELSE wait_lock' = NoCPU /\ UNCHANGED tickslock
      /\ chan' = [chan EXCEPT ![p] = IF loc[p].lk = "tickslock" THEN TicksChan ELSE p]
      /\ state' = [state EXCEPT ![p] = "SLEEPING"] /\ sched(c, p, "slept")
      /\ UNCHANGED rqVars
      /\ UNCHANGED <<killed, currentRuntime, pid, parent, nextpid, cproc, sproc, found, wk, ipc,
                     intrOn, again, loc, ticks>>
  BY DEF sleep, idVars
<1>2. chan' \in [Procs -> Procs \cup {Null, TicksChan}]
  BY <1>1 DEF KernelInv, KernelTypes
<1>3. loc[p].lk \in {"tickslock", "wait_lock"}
  <2>1. loc[p].lk # "none"
    BY <1>1, RunningThread DEF ThreadOK
  <2>2. loc[p] \in LocalsType
    BY DEF KernelInv, KernelTypes
  <2>3. QED
    BY <2>1, <2>2 DEF LocalsType
<1>4. /\ \/ wait_lock' = wait_lock /\ ~HoldsWait(pc[p], loc[p])
         \/ wait_lock' = NoCPU /\ HoldsWait(pc[p], loc[p])
      /\ \/ tickslock' = tickslock /\ ~HoldsTicks(pc[p], loc[p])
         \/ tickslock' = NoCPU /\ HoldsTicks(pc[p], loc[p])
  BY <1>1, <1>3 DEF HoldsWait, HoldsTicks
<1>5. "slept" \in LabelsOf("SLEEPING")
  BY DEF LabelsOf
<1>6. QED
  BY <1>1, <1>2, <1>4, <1>5, Leaving

\* The end of exit() releases wait_lock and keeps p->lock.
LEMMA zombieStep ==
  ASSUME KernelInv, NEW c \in CPUs, NEW p \in Procs, zombie(c, p)
  PROVE  KernelInv'
<1>1. /\ OnCPU(c, p) /\ pc[p] = "zombie" /\ plock' = Lock(plock, p, c)
      /\ wait_lock' = NoCPU /\ UNCHANGED tickslock
      /\ state' = [state EXCEPT ![p] = "ZOMBIE"] /\ sched(c, p, "dead")
      /\ UNCHANGED rqVars /\ chan' = chan
      /\ UNCHANGED <<killed, currentRuntime, pid, parent, nextpid, cproc, sproc, found, wk, ipc,
                     intrOn, again, loc, ticks>>
  BY DEF zombie, idVars
<1>2. chan' \in [Procs -> Procs \cup {Null, TicksChan}]
  BY <1>1 DEF KernelInv, KernelTypes
<1>3. p # initproc
  BY <1>1, RunningThread DEF ThreadOK
<1>4. /\ wait_lock' = NoCPU /\ HoldsWait(pc[p], loc[p])
      /\ tickslock' = tickslock /\ ~HoldsTicks(pc[p], loc[p])
  BY <1>1 DEF HoldsWait, HoldsTicks
<1>5. "dead" \in LabelsOf("ZOMBIE")
  BY DEF LabelsOf
<1>6. QED
  BY <1>1, <1>2, <1>3, <1>4, <1>5, Leaving

-----------------------------------------------------------------------------
(* Every step keeps the invariant.                                         *)

\* The state that procinit and userinit leave behind.
LEMMA InitOK == Init => KernelInv
<1> SUFFICES ASSUME Init
             PROVE  KernelInv
  OBVIOUS
<1>0. /\ 1 \in Procs /\ initproc = 1 /\ Null = 0 /\ Null \notin Procs
      /\ NoCPU \notin CPUs /\ Latency \in Nat /\ Latency >= 1 /\ Weight = 819
      /\ TickModulus \in Nat /\ TickModulus >= 2
      /\ MinGranularity \in Nat /\ MinGranularity >= 1
  BY Numbers, GranularityAssumption, TickAssumption, WeightIs819 DEF initproc, Null
<1>1. /\ period = Latency /\ queue = <<1>> /\ treeWeight = 819
      /\ virtualRuntime = [p \in Procs |-> 0] /\ maxExecutionTime = [p \in Procs |-> 0]
  BY <1>0 DEF Init, procinit, userinit
<1>2. RQInv
  BY <1>0, <1>1 DEF RQInv, RQTypeOK, NoDuplicates, QueueOrdered, WeightIsSum,
                    PeriodFollowsLoad, SliceBounded
<1>3. /\ state = [p \in Procs |-> IF p = initproc THEN "RUNNABLE" ELSE "UNUSED"]
      /\ chan = [p \in Procs |-> Null] /\ killed = [p \in Procs |-> FALSE]
      /\ currentRuntime = [p \in Procs |-> 0] /\ parent = [p \in Procs |-> Null]
      /\ pid = [p \in Procs |-> IF p = initproc THEN 1 ELSE 0] /\ nextpid = 2
      /\ ticks = 0
      /\ plock = [p \in Procs |-> NoCPU] /\ tickslock = NoCPU /\ wait_lock = NoCPU
      /\ cproc = [c \in CPUs |-> Null] /\ spc = [c \in CPUs |-> "pick"]
      /\ sproc = [c \in CPUs |-> Null] /\ found = [c \in CPUs |-> FALSE]
      /\ wk = [c \in CPUs |-> NoWake]
      /\ pc = [p \in Procs |-> "forkret"] /\ ipc = [p \in Procs |-> "none"]
      /\ intrOn = [p \in Procs |-> FALSE] /\ again = [p \in Procs |-> FALSE]
      /\ loc = [p \in Procs |-> NoLocals] /\ panicked = "no"
  BY DEF Init, procinit, userinit
<1>4. /\ NoLocals \in LocalsType
      /\ NoWake \in [idx : Procs \cup {0}, chan : Procs \cup {Null, TicksChan}]
      /\ NoWake.idx = 0
  BY LocalsTypes DEF NoWake
<1>5. KernelTypes
  BY <1>0, <1>3, <1>4 DEF KernelTypes, States, Holders, Labels
<1>6. SchedulerLocals /\ OneScheduler
  BY <1>0, <1>3 DEF SchedulerLocals, OneScheduler, Runs
<1>7. ProcLocks /\ WaitLock /\ TicksLock /\ WakeupCallers
  BY <1>0, <1>3, <1>4 DEF ProcLocks, WaitLock, TicksLock, WakeupCallers
<1>8. Threads
  BY <1>3 DEF Threads, ThreadOK, LabelsOf
<1>9. \A q \in Procs : At(q) = "forkret"
  BY <1>3 DEF At
<1>10. ForkOwnsChild
  BY <1>9 DEF ForkOwnsChild, Forking
<1>11. ReadyPlaces
  <2>1. Queued(queue) = {1}
    BY <1>1 DEF Queued
  <2>2. QED
    BY <1>0, <1>3, <2>1 DEF ReadyPlaces, Dispatches
<1>12. QED
  BY <1>2, <1>5, <1>6, <1>7, <1>8, <1>10, <1>11 DEF KernelInv

\* A step that changes nothing.
LEMMA StutterOK ==
  ASSUME KernelInv, UNCHANGED vars
  PROVE  KernelInv'
<1>1. /\ UNCHANGED rqVars
      /\ UNCHANGED <<state, chan, killed, currentRuntime, pid, parent, nextpid, ticks, plock,
                     tickslock, wait_lock, cproc, spc, sproc, found, wk, pc, ipc, intrOn, again,
                     loc, panicked>>
  BY DEF vars, procVars, idVars, lockVars, cpuVars, threadVars
<1>2. RQInv' /\ queue' = queue
  BY <1>1, ReadySetStays
<1>3. KernelTypes'
  BY <1>1 DEF KernelInv, KernelTypes
<1>4. SchedulerLocals' /\ OneScheduler'
  BY <1>1 DEF KernelInv, SchedulerLocals, OneScheduler, Runs
<1>5. ProcLocks' /\ WaitLock' /\ TicksLock' /\ WakeupCallers'
  BY <1>1 DEF KernelInv, ProcLocks, WaitLock, TicksLock, WakeupCallers, HoldsWait, HoldsTicks
<1>6. Threads'
  BY <1>1 DEF KernelInv, Threads, ThreadOK, LabelsOf
<1>7. ForkOwnsChild' /\ ReadyPlaces'
  BY <1>1, <1>2 DEF KernelInv, ForkOwnsChild, ReadyPlaces, Dispatches, At
<1>8. QED
  BY <1>2, <1>3, <1>4, <1>5, <1>6, <1>7 DEF KernelInv

\* A step of a kernel thread.
LEMMA ThreadStepOK ==
  ASSUME KernelInv, NEW c \in CPUs, NEW p \in Procs, ThreadStep(c, p) \/ YieldStep(c, p)
  PROVE  KernelInv'
<1>1. CASE SleepStep(c, p)
  BY <1>1, sleepStep, sleptStep, relockStep, sys_sleepStep, sleepcheckStep, killStep DEF SleepStep
<1>2. CASE LifecycleStep(c, p)
  <2>1. CASE allocproc(c, p) \/ forkAlloc(c, p) \/ forkFail(c, p) \/ forkParent(c, p)
             \/ forkRunnable(c, p) \/ forkInsert(c, p) \/ forkret(c, p)
    BY <2>1, allocprocStep, forkAllocStep, forkFailStep, forkParentStep, forkRunnableStep,
       forkInsertStep, forkretStep
  <2>2. CASE exit(c, p) \/ reparent(c, p) \/ zombie(c, p)
             \/ wait(c, p) \/ waitChild(c, p) \/ waitSleep(c, p)
    BY <2>2, exitStep, reparentStep, zombieStep, waitStep, waitChildStep, waitSleepStep
  <2>3. QED
    BY <1>2, <2>1, <2>2 DEF LifecycleStep
<1>3. CASE TrapStep(c, p)
  BY <1>3, trapoutStep, chargeStep, incrStep DEF TrapStep
<1>4. CASE YieldStep(c, p)
  BY <1>4, yieldStep, preemptStep, yieldedStep DEF YieldStep
<1>5. QED
  BY <1>1, <1>2, <1>3, <1>4 DEF ThreadStep

\* Any step.
LEMMA NextOK ==
  ASSUME KernelInv, [Next]_vars
  PROVE  KernelInv'
<1>1. ASSUME NEW c \in CPUs, KernelStep(c)
      PROVE  KernelInv'
  <2>1. CASE SchedulerStep(c)
    BY <2>1, pickStep, lockPickedStep, switchToStep, switchedBackStep DEF SchedulerStep
  <2>2. CASE wakeup(c)
    BY <2>2, wakeupStep
  <2>3. CASE \E p \in Procs : YieldStep(c, p) \/ ThreadStep(c, p)
    BY <2>3, ThreadStepOK
  <2>4. QED
    BY <1>1, <2>1, <2>2, <2>3 DEF KernelStep
<1>2. ASSUME NEW c \in CPUs, Timer(c)
      PROVE  KernelInv'
  BY <1>2, schedTimerStep, userTimerStep, kernelTimerStep DEF Timer
<1>3. ASSUME NEW c \in CPUs, NEW p \in Procs, UserTrap(c, p)
      PROVE  KernelInv'
  BY <1>3, syscallStep, userDeviceStep DEF UserTrap
<1>4. CASE Stay \/ UNCHANGED vars
  BY <1>4, StutterOK DEF Stay
<1>5. QED
  BY <1>1, <1>2, <1>3, <1>4 DEF Next

-----------------------------------------------------------------------------
(* The theorems.                                                           *)

\* Locks, stacks, threads and the ready set stay consistent in every execution of
\* the kernel, whatever the CPUs, traps and timer interrupts do and in whatever
\* order: KernelInv is inductive.
THEOREM KernelInvariant == Spec => []KernelInv
<1>1. Init => KernelInv
  BY InitOK
<1>2. KernelInv /\ [Next]_vars => KernelInv'
  BY NextOK
<1>3. QED
  BY <1>1, <1>2, PTL DEF Spec

\* Every field of the process table, of the CPUs and of the threads keeps its type;
\* in particular no runtime, weight or tick count becomes negative.
THEOREM KernelTypeCorrect == Spec => []KTypeOK
<1>1. KernelInv => KTypeOK
  BY DEF KernelInv, KernelTypes, RQInv, RQTypeOK, KTypeOK
<1>2. QED
  BY <1>1, KernelInvariant, PTL

\* No kernel stack is used by two CPUs, none is freed while a CPU is on it, and a
\* process is RUNNING exactly while a CPU runs it.
THEOREM StacksExclusive == Spec => []StackExclusive
<1>1. KernelInv => StackExclusive
  <2> SUFFICES ASSUME KernelInv
               PROVE  StackExclusive
    OBVIOUS
  <2>1. KernelTypes /\ SchedulerLocals /\ OneScheduler /\ ProcLocks /\ Null \notin Procs
    BY Numbers DEF KernelInv
  <2>2. ASSUME NEW c \in CPUs, NEW d \in CPUs, cproc[c] = cproc[d], cproc[c] # Null
        PROVE  c = d
    <3>1. /\ spc[c] \in {"running", "after"} /\ spc[d] \in {"running", "after"}
          /\ sproc[c] = sproc[d] /\ sproc[c] \in Procs /\ sproc[c] # Null
      BY <2>1, <2>2 DEF SchedulerLocals
    <3>2. CASE spc[c] = "after" /\ spc[d] = "after"
      BY <2>1, <3>1, <3>2 DEF ProcLocks
    <3>3. CASE spc[c] = "running" /\ spc[d] = "running"
      BY <2>1, <3>1, <3>3 DEF OneScheduler
    <3>4. QED
      BY <2>1, <3>1, <3>2, <3>3 DEF SchedulerLocals
  <2>3. ASSUME NEW c \in CPUs, cproc[c] # Null
        PROVE  state[cproc[c]] \notin {"UNUSED", "USED"}
    BY <2>1, <2>3 DEF SchedulerLocals
  <2>4. \A p \in Procs :
          state[p] = "RUNNING" <=> \E c \in CPUs : cproc[c] = p /\ spc[c] = "running"
    BY <2>1 DEF SchedulerLocals, OneScheduler, Runs
  <2>5. QED
    BY <2>2, <2>3, <2>4 DEF StackExclusive
<1>2. QED
  BY <1>1, KernelInvariant, PTL

\* sched() is always called with p->lock as the only lock and the process not
\* RUNNING, so that none of its panics fires, and no zombie is ever resumed.
THEOREM SchedNeverPanics == Spec => []NoSchedPanic
<1>1. KernelInv => NoSchedPanic
  <2>1. ASSUME KernelInv, NEW c \in CPUs, NEW p \in Procs, OnCPU(c, p)
        PROVE  pc[p] # "dead"
    BY <2>1, RunningThread
  <2>2. KernelInv => panicked \in {"no", "init exiting"}
    BY DEF KernelInv, KernelTypes
  <2>3. QED
    BY <2>1, <2>2 DEF NoSchedPanic
<1>2. QED
  BY <1>1, KernelInvariant, PTL

\* A runnable process is in the tree, in the fork that made it or in the scheduler
\* that has picked it, and in one of them only; nothing else is there.
THEOREM NoneIsLost == Spec => []RunnableNotLost
<1>1. KernelInv => RunnableNotLost
  <2> SUFFICES ASSUME KernelInv
               PROVE  RunnableNotLost
    OBVIOUS
  <2>1. SchedulerLocals /\ ForkOwnsChild /\ ReadyPlaces
    BY DEF KernelInv
  <2>2. /\ \A p \in Queued(queue) : p \in Procs
        /\ Len(queue) = Cardinality(Queued(queue))
    BY QueueLength DEF KernelInv
  <2>3. ASSUME NEW p
        PROVE  p \in InFork <=> \E q \in Procs : At(q) = "forkinsert" /\ loc[q].np = p
    BY DEF InFork
  <2>4. ASSUME NEW p
        PROVE  p \in InDispatch <=> \E c \in CPUs : Dispatches(c, p)
    BY DEF InDispatch, Dispatches
  <2>5. ASSUME NEW p \in InFork
        PROVE  /\ p \in Procs /\ state[p] = "RUNNABLE" /\ p \notin Queued(queue)
               /\ p \notin InDispatch
    BY <2>1, <2>3, <2>4 DEF ForkOwnsChild, Forking
  <2>6. ASSUME NEW p \in InDispatch
        PROVE  p \in Procs /\ state[p] = "RUNNABLE"
    BY <2>1, <2>4 DEF SchedulerLocals, Dispatches
  <2>7. ASSUME NEW p \in Queued(queue)
        PROVE  p \in Procs /\ state[p] = "RUNNABLE" /\ p \notin InDispatch
    BY <2>1, <2>2, <2>4 DEF ReadyPlaces
  <2>8. ASSUME NEW p \in Procs, state[p] = "RUNNABLE"
        PROVE  p \in Queued(queue) \/ p \in InFork \/ p \in InDispatch
    BY <2>1, <2>3, <2>4, <2>8 DEF ReadyPlaces
  <2>9. QED
    BY <2>2, <2>5, <2>6, <2>7, <2>8 DEF RunnableNotLost
<1>2. QED
  BY <1>1, KernelInvariant, PTL
=============================================================================
