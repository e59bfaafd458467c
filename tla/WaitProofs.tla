----------------------------- MODULE WaitProofs -----------------------------
(***************************************************************************)
(* Proofs about parents and children and about sleepers and their wakeups, *)
(* from the invariant of KernelProofs: nobody is orphaned, no wakeup is    *)
(* lost, and sys_sleep returns at the right time.                          *)
(***************************************************************************)
EXTENDS KernelProofs, SleepTime

-----------------------------------------------------------------------------
(* The inductive invariants.                                               *)

\* A process in one of these states has not begun or has ended.
Absent == {"UNUSED", "USED", "ZOMBIE"}

\* What makes NoOrphans inductive: init is always there and has no parent, a child
\* that fork has yet to give a parent has none, and an exit that has handed over
\* its children gets no new ones.
ParentInv ==
  /\ parent[initproc] = Null /\ state[initproc] \notin Absent
  /\ \A p \in Procs : /\ At(p) = "forkparent" => parent[loc[p].np] = Null
                      /\ pc[p] = "zombie" => Children(p) = {}
  /\ NoOrphans

\* The children of p are all alive, and there is one.
AllAlive(p) == Children(p) # {} /\ \A k \in Children(p) : state[k] # "ZOMBIE"

\* What a sleeper waits for has not happened, or its wakeup is on its way.
SleeperOK(p) ==
  state[p] = "SLEEPING" /\ ~WakeupPending(p, chan[p]) =>
    /\ chan[p] = TicksChan => stillWaiting(p)
    /\ chan[p] = p => AllAlive(p)

\* What a process that is about to sleep, or is scanning the table for a zombie,
\* has found out still holds, because it holds the lock that protects it.
WaiterOK(p) ==
  /\ pc[p] = "sleep" /\ loc[p].lk = "tickslock" => stillWaiting(p)
  /\ pc[p] = "sleep" /\ loc[p].lk = "wait_lock" => AllAlive(p)
  /\ pc[p] = "waitscan" => \A k \in Children(p) : k <= loc[p].idx => state[k] # "ZOMBIE"

\* An exit that is about to make k a zombie has woken the parent of k, or its
\* wakeup has yet to get there.
ExiterOK(c, k) ==
  Runs(c, k) /\ pc[k] = "zombie" =>
    \A q \in Procs : parent[k] = q /\ state[q] = "SLEEPING" /\ chan[q] = q =>
      wk[c].chan = q /\ wk[c].idx \in 1..q

WakeInv ==
  /\ \A p \in Procs : SleeperOK(p) /\ WaiterOK(p)
  /\ \A c \in CPUs, k \in Procs : ExiterOK(c, k)

-----------------------------------------------------------------------------
(* The steps that concern neither families nor sleepers.                   *)

\* Process q is woken, dispatched or preempted at most; it starts no wait but one
\* that has seen nothing yet or that has reason to sleep; and its fork goes on.
Ordinary(q) ==
  /\ \/ state'[q] = state[q]
     \/ state[q] \in {"SLEEPING", "USED", "RUNNING"} /\ state'[q] = "RUNNABLE"
     \/ state[q] = "RUNNABLE" /\ state'[q] = "RUNNING"
  /\ state'[q] = "SLEEPING" => chan'[q] = chan[q] /\ loc'[q] = loc[q]
  /\ \/ pc'[q] \notin {"sleep", "waitscan", "zombie"}
     \/ pc'[q] = pc[q] /\ loc'[q] = loc[q]
     \/ pc'[q] = "waitscan" /\ loc'[q].idx = 0
     \/ pc'[q] = "sleep" /\ loc'[q].lk = "tickslock" /\ stillWaiting(q)'
  /\ At(q)' = "forkparent" <=> At(q) = "forkparent"
  /\ At(q) = "forkparent" => loc'[q].np = loc[q].np
  /\ \A d \in CPUs : spc'[d] = "running" /\ sproc'[d] = q /\ pc'[q] = "zombie" =>
                       spc[d] = "running" /\ sproc[d] = q

AllOrdinary == UNCHANGED parent /\ \A q \in Procs : Ordinary(q)

\* Nobody appears or disappears, no fork or exit gets to where it concerns others.
FamilyStays ==
  /\ UNCHANGED parent
  /\ \A q \in Procs : /\ state'[q] = "UNUSED" <=> state[q] = "UNUSED"
                      /\ state[q] \notin Absent => state'[q] \notin Absent
                      /\ pc'[q] = "zombie" => pc[q] = "zombie" \/ Children(q) = {}
                      /\ At(q)' = "forkparent" <=> At(q) = "forkparent"
                      /\ At(q) = "forkparent" => loc'[q].np = loc[q].np

\* Families are left alone.
LEMMA FamiliesStay ==
  ASSUME KernelInv, ParentInv, FamilyStays
  PROVE  ParentInv'
<1>1. /\ parent' = parent
      /\ \A q \in Procs : /\ state'[q] = "UNUSED" <=> state[q] = "UNUSED"
                          /\ state[q] \notin Absent => state'[q] \notin Absent
                          /\ pc'[q] = "zombie" => pc[q] = "zombie" \/ Children(q) = {}
                          /\ At(q)' = "forkparent" <=> At(q) = "forkparent"
                          /\ At(q) = "forkparent" => loc'[q].np = loc[q].np
  BY DEF FamilyStays
<1>2. Newborns \subseteq Newborns'
  BY <1>1 DEF Newborns
<1>3. \A q \in Procs : Children(q)' = Children(q)
  BY <1>1 DEF Children
<1>4. /\ initproc \in Procs /\ Null \notin Procs
      /\ parent \in [Procs -> Procs \cup {Null}]
  BY Numbers DEF KernelInv, KernelTypes
<1>5. NoOrphans'
  <2> SUFFICES ASSUME NEW p \in Procs, p # initproc
               PROVE  /\ state'[p] # "UNUSED" /\ p \notin Newborns' => parent[p] # Null
                      /\ parent[p] # Null =>
                           state'[p] # "UNUSED" /\ state'[parent[p]] \notin Absent
    BY <1>1 DEF NoOrphans, Absent, initproc
  <2>1. /\ state[p] # "UNUSED" /\ p \notin Newborns => parent[p] # Null
        /\ parent[p] # Null => state[p] # "UNUSED" /\ state[parent[p]] \notin Absent
    BY DEF ParentInv, NoOrphans, Absent
  <2>2. QED
    BY <1>1, <1>2, <1>4, <2>1
<1>6. \A q \in Procs : /\ At(q)' = "forkparent" => parent'[loc'[q].np] = Null
                       /\ pc'[q] = "zombie" => Children(q)' = {}
  <2>1. \A q \in Procs : /\ At(q) = "forkparent" => parent[loc[q].np] = Null
                         /\ pc[q] = "zombie" => Children(q) = {}
    BY DEF ParentInv
  <2>2. QED
    BY <1>1, <1>3, <2>1
<1>7. parent'[initproc] = Null /\ state'[initproc] \notin Absent
  BY <1>1, <1>4 DEF ParentInv
<1>8. QED
  BY <1>5, <1>6, <1>7 DEF ParentInv, initproc, Absent, Null

\* Such a step keeps the families together.
LEMMA OrdinaryFamilies ==
  ASSUME KernelInv, ParentInv, AllOrdinary
  PROVE  ParentInv'
<1>1. FamilyStays
  BY DEF FamilyStays, AllOrdinary, Ordinary, Absent
<1>2. QED
  BY <1>1, FamiliesStay

\* Sleepers and waiters need not notice what happens to q: it neither falls asleep nor
\* becomes a zombie, and gets at most a parent, from the fork that makes it.
Unnoticed(q) ==
  /\ \/ parent'[q] = parent[q]
     \/ parent[q] = Null /\ state'[q] = "USED" /\ pc'[q] = "forkret"
  /\ state'[q] = "ZOMBIE" => state[q] = "ZOMBIE"
  /\ state'[q] = "SLEEPING" => state[q] = "SLEEPING" /\ chan'[q] = chan[q] /\ loc'[q] = loc[q]
  /\ \/ pc'[q] \notin {"sleep", "waitscan", "zombie"}
     \/ pc'[q] = pc[q] /\ loc'[q] = loc[q]
     \/ pc'[q] = "waitscan" /\ loc'[q].idx = 0
     \/ pc'[q] = "sleep" /\ loc'[q].lk = "tickslock" /\ stillWaiting(q)'
  /\ \A d \in CPUs : spc'[d] = "running" /\ sproc'[d] = q /\ pc'[q] = "zombie" =>
                       spc[d] = "running" /\ sproc[d] = q

AllUnnoticed == \A q \in Procs : Unnoticed(q)

\* Sleepers sleep on, and what they wait for does not happen.
LEMMA UnnoticedSleepers ==
  ASSUME KernelInv, WakeInv, AllUnnoticed, UNCHANGED <<ticks, wk>>
  PROVE  WakeInv'
<1>0. Null \notin Procs
  BY Numbers
<1>1. \A q \in Procs : \A k \in Children(q)' :
        k \in Procs /\ (k \in Children(q) \/ state'[k] # "ZOMBIE")
  BY DEF AllUnnoticed, Unnoticed, Children
<1>2. \A q \in Procs : Children(q) \subseteq Children(q)'
  BY <1>0 DEF AllUnnoticed, Unnoticed, Children
<1>3. \A q \in Procs : AllAlive(q) => AllAlive(q)'
  BY <1>1, <1>2 DEF AllAlive, AllUnnoticed, Unnoticed
<1>4. ASSUME NEW q \in Procs, state'[q] = "SLEEPING"
      PROVE  state[q] = "SLEEPING" /\ chan'[q] = chan[q] /\ loc'[q] = loc[q]
  BY <1>4 DEF AllUnnoticed, Unnoticed
<1>5. ASSUME NEW p \in Procs
      PROVE  SleeperOK(p)'
  <2>1. SleeperOK(p)
    BY DEF WakeInv
  <2>2. QED
    BY <1>3, <1>4, <2>1 DEF SleeperOK, WakeupPending, stillWaiting
<1>6. ASSUME NEW p \in Procs
      PROVE  WaiterOK(p)'
  <2>1. WaiterOK(p) /\ Unnoticed(p)
    BY DEF WakeInv, AllUnnoticed
  <2>2. CASE pc'[p] \notin {"sleep", "waitscan"}
    BY <2>2 DEF WaiterOK
  <2>3. CASE pc'[p] = pc[p] /\ loc'[p] = loc[p]
    <3>1. \A k \in Procs : state'[k] = "ZOMBIE" => state[k] = "ZOMBIE"
      BY DEF AllUnnoticed, Unnoticed
    <3>2. QED
      BY <1>1, <1>3, <2>1, <2>3, <3>1 DEF WaiterOK, stillWaiting
  <2>4. CASE pc'[p] = "waitscan" /\ loc'[p].idx = 0
    <3>1. \A k \in Children(p)' : ~(k <= 0)
      BY <1>1, Numbers
    <3>2. QED
      BY <2>4, <3>1 DEF WaiterOK
  <2>5. CASE pc'[p] = "sleep" /\ loc'[p].lk = "tickslock" /\ stillWaiting(p)'
    BY <2>5 DEF WaiterOK
  <2>6. QED
    BY <2>1, <2>2, <2>3, <2>4, <2>5 DEF Unnoticed
<1>7. ASSUME NEW c \in CPUs, NEW k \in Procs
      PROVE  ExiterOK(c, k)'
  <2>1. ExiterOK(c, k) /\ Unnoticed(k)
    BY DEF WakeInv, AllUnnoticed
  <2>2. QED
    BY <1>4, <2>1 DEF ExiterOK, Unnoticed, Runs
<1>8. QED
  BY <1>5, <1>6, <1>7 DEF WakeInv

\* Ordinary steps go unnoticed.
LEMMA OrdinarySleepers ==
  ASSUME KernelInv, WakeInv, AllOrdinary, UNCHANGED <<ticks, wk>>
  PROVE  WakeInv'
<1>1. AllUnnoticed
  BY DEF AllOrdinary, Ordinary, AllUnnoticed, Unnoticed
<1>2. QED
  BY <1>1, UnnoticedSleepers

\* The clock ticks: the wakeup of those that wait for it begins, and nobody can be
\* about to sleep on it, since the tick is counted under tickslock.
LEMMA ClockSleepers ==
  ASSUME KernelInv, WakeInv, AllOrdinary, NEW c \in CPUs, clockintr(c), wk[c] = NoWake,
         \A q \in Procs : pc'[q] \in {"sleep", "waitscan", "zombie"} =>
                            pc'[q] = pc[q] /\ loc'[q] = loc[q]
  PROVE  WakeInv'
<1>1. CASE UNCHANGED <<ticks, wk>>
  BY <1>1, OrdinarySleepers
<1>2. CASE /\ tickslock = NoCPU
           /\ wk' = [wk EXCEPT ![c] = [idx |-> 1, chan |-> TicksChan]]
  <2>0. /\ wk \in [CPUs -> [idx : Procs \cup {0}, chan : Procs \cup {Null, TicksChan}]]
        /\ TicksChan \notin Procs /\ NoCPU \notin CPUs
        /\ \A q \in Procs : q \in Nat /\ 1 \in 1..q
    <3>1. \A q \in Procs : q \in Nat /\ 1 <= q
      BY Numbers
    <3>2. \A q \in Procs : 1 \in 1..q
      BY <3>1
    <3>3. QED
      BY <3>1, <3>2, Numbers DEF KernelInv, KernelTypes
  <2>1. /\ \A q \in Procs : Children(q)' = Children(q)
        /\ \A q \in Procs : state'[q] = "ZOMBIE" => state[q] = "ZOMBIE"
    BY DEF AllOrdinary, Ordinary, Children
  <2>2. \A q \in Procs : AllAlive(q) => AllAlive(q)'
    BY <2>1 DEF AllAlive, Children
  <2>3. /\ wk'[c] = [idx |-> 1, chan |-> TicksChan]
        /\ \A d \in CPUs : d # c => wk'[d] = wk[d]
    BY <1>2, <2>0
  <2>4. ASSUME NEW p \in Procs
        PROVE  SleeperOK(p)'
    <3>1. WakeupPending(p, TicksChan)'
      BY <2>0, <2>3 DEF WakeupPending
    <3>2. WakeupPending(p, p) => WakeupPending(p, p)'
      BY <2>0, <2>3 DEF WakeupPending, NoWake
    <3>3. SleeperOK(p) /\ Ordinary(p)
      BY DEF WakeInv, AllOrdinary
    <3>4. state'[p] = "SLEEPING" => state[p] = "SLEEPING" /\ chan'[p] = chan[p]
      BY <3>3 DEF Ordinary
    <3>5. CASE chan'[p] = TicksChan
      BY <2>0, <3>1, <3>5 DEF SleeperOK, WakeupPending
    <3>6. CASE chan'[p] = p
      BY <2>0, <2>2, <3>2, <3>3, <3>4, <3>6 DEF SleeperOK, WakeupPending
    <3>7. QED
      BY <3>5, <3>6 DEF SleeperOK
  <2>5. ASSUME NEW p \in Procs
        PROVE  WaiterOK(p)'
    <3>1. WaiterOK(p)
      BY DEF WakeInv
    <3>2. CASE pc'[p] \notin {"sleep", "waitscan"}
      BY <3>2 DEF WaiterOK
    <3>3. CASE pc'[p] = pc[p] /\ loc'[p] = loc[p] /\ pc[p] \in {"sleep", "waitscan"}
      <4>1. pc[p] = "sleep" => loc[p].lk # "tickslock"
        <5>1. ASSUME pc[p] = "sleep", loc[p].lk = "tickslock"
              PROVE  FALSE
          <6>1. state[p] = "RUNNING"
            <7>1. pc[p] \in LabelsOf(state[p]) /\ state[p] \in States
              BY DEF KernelInv, Threads, KernelTypes
            <7>2. QED
              BY <5>1, <7>1 DEF LabelsOf, States
          <6>2. PICK d \in CPUs : Runs(d, p)
            BY <6>1 DEF KernelInv, OneScheduler
          <6>3. tickslock = d
            BY <5>1, <6>2 DEF KernelInv, TicksLock, HoldsTicks, Runs
          <6>4. QED
            BY <1>2, <2>0, <6>3
        <5>2. QED
          BY <5>1
      <4>2. \A k \in Children(p) : k \in Procs
        BY DEF Children
      <4>3. QED
        BY <2>1, <2>2, <3>1, <3>3, <4>1, <4>2 DEF WaiterOK
    <3>4. QED
      BY <3>2, <3>3
  <2>6. ASSUME NEW d \in CPUs, NEW k \in Procs
        PROVE  ExiterOK(d, k)'
    <3>1. ExiterOK(d, k) /\ Ordinary(k) /\ parent' = parent
      BY DEF WakeInv, AllOrdinary
    <3>2. \A q \in Procs : state'[q] = "SLEEPING" => state[q] = "SLEEPING" /\ chan'[q] = chan[q]
      BY DEF AllOrdinary, Ordinary
    <3>3. ASSUME spc'[d] = "running", sproc'[d] = k, pc'[k] = "zombie", NEW q \in Procs,
                 parent[k] = q, state'[q] = "SLEEPING", chan'[q] = q
          PROVE  wk'[d].chan = q /\ wk'[d].idx \in 1..q
      <4>1. Runs(d, k) /\ pc[k] = "zombie"
        BY <3>1, <3>3 DEF Ordinary, Runs
      <4>2. wk[d].chan = q /\ wk[d].idx \in 1..q
        BY <3>1, <3>2, <3>3, <4>1 DEF ExiterOK
      <4>3. QED
        BY <2>0, <2>3, <4>2 DEF NoWake
    <3>4. QED
      BY <3>1, <3>3 DEF ExiterOK, Runs
  <2>7. QED
    BY <2>4, <2>5, <2>6 DEF WakeInv
<1>3. QED
  BY <1>1, <1>2 DEF clockintr, callWakeup

\* The thread of p goes from its label to l, interrupted at i; others may be woken.
PlainMove(p, l, i) ==
  /\ pc' = [pc EXCEPT ![p] = l] /\ ipc' = [ipc EXCEPT ![p] = i]
  /\ UNCHANGED <<parent, spc, sproc>>
  /\ \A q \in Procs : q # p => loc'[q] = loc[q] /\ chan'[q] = chan[q]
  /\ \A q \in Procs : \/ state'[q] = state[q]
                      \/ /\ q # p /\ state[q] \in {"SLEEPING", "USED"}
                         /\ state'[q] = "RUNNABLE"
  /\ \/ l \notin {"sleep", "waitscan", "zombie"}
     \/ l = "waitscan" /\ loc'[p].idx = 0
     \/ l = "sleep" /\ loc'[p].lk = "tickslock" /\ stillWaiting(p)'
  /\ AtLabel(l, i) = "forkparent" <=> At(p) = "forkparent"
  /\ At(p) = "forkparent" => loc'[p].np = loc[p].np

\* A plain move is ordinary for everybody.
LEMMA PlainMoves ==
  ASSUME KernelInv, NEW c \in CPUs, NEW p \in Procs, OnCPU(c, p), NEW l, NEW i,
         PlainMove(p, l, i)
  PROVE  AllOrdinary
<1>1. /\ state[p] = "RUNNING" /\ pc \in [Procs -> Labels]
      /\ ipc \in [Procs -> Labels \cup {"none"}]
  BY RunningThread DEF KernelInv, KernelTypes
<1>2. \A q \in Procs : /\ pc'[q] = (IF q = p THEN l ELSE pc[q])
                       /\ ipc'[q] = (IF q = p THEN i ELSE ipc[q])
  BY <1>1 DEF PlainMove
<1>3. ASSUME NEW q \in Procs
      PROVE  Ordinary(q)
  <2>1. CASE q = p
    BY <1>1, <1>2, <2>1 DEF PlainMove, Ordinary, At, AtLabel
  <2>2. CASE q # p
    BY <1>1, <1>2, <2>2 DEF PlainMove, Ordinary, At
  <2>3. QED
    BY <2>1, <2>2
<1>4. QED
  BY <1>3 DEF AllOrdinary, PlainMove

\* Waking k, or nobody, as a state change.
LEMMA WakeStates ==
  ASSUME KernelInv, NEW k \in Procs,
         (wake(k) /\ state[k] = "SLEEPING") \/ UNCHANGED <<rqVars, state, currentRuntime>>
  PROVE  \A q \in Procs : \/ state'[q] = state[q]
                          \/ q = k /\ state[q] = "SLEEPING" /\ state'[q] = "RUNNABLE"
<1>1. state \in [Procs -> States]
  BY DEF KernelInv, KernelTypes
<1>2. QED
  BY <1>1 DEF wake

\* The system calls, where they only concern the thread that makes them.
LEMMA CallsOrdinary ==
  ASSUME KernelInv, NEW c \in CPUs, NEW p \in Procs,
         \/ slept(c, p) \/ relock(c, p) \/ sys_sleep(c, p) \/ sleepcheck(c, p) \/ kill(c, p)
         \/ allocproc(c, p) \/ forkRunnable(c, p) \/ forkInsert(c, p) \/ forkret(c, p)
         \/ wait(c, p) \/ exit(c, p) \/ trapout(c, p) \/ charge(c, p) \/ incr(c, p)
         \/ yield(c, p) \/ syscall(c, p) \/ userDevice(c, p) \/ userFault(c, p)
  PROVE  AllOrdinary /\ UNCHANGED <<ticks, wk>>
<1>0. /\ pc \in [Procs -> Labels] /\ ipc \in [Procs -> Labels \cup {"none"}]
      /\ loc \in [Procs -> LocalsType] /\ chan \in [Procs -> Procs \cup {Null, TicksChan}]
      /\ state \in [Procs -> States]
      /\ ipc = [ipc EXCEPT ![p] = ipc[p]]
  BY DEF KernelInv, KernelTypes
<1>1. OnCPU(c, p)
  BY DEF slept, relock, sys_sleep, sleepcheck, kill, allocproc, forkRunnable, forkInsert, forkret,
     wait, exit, trapout, charge, incr, yield, syscall, userDevice, userFault, FromUser
<1>2. ThreadOK(p, pc[p], ipc[p], loc[p]) /\ state[p] = "RUNNING"
  BY <1>1, RunningThread
<1>3. UNCHANGED <<ticks, wk>>
  BY DEF slept, relock, sys_sleep, sleepcheck, kill, allocproc, forkRunnable, forkInsert, forkret,
     wait, exit, trapout, charge, incr, yield, syscall, userDevice, userFault, cpuVars
<1>4. CASE slept(c, p)
  <2>1. PlainMove(p, "relock", ipc[p])
    BY <1>0, <1>2, <1>4 DEF slept, Goto, cpuVars, idVars, PlainMove, At, AtLabel, ThreadOK
  <2>2. QED
    BY <1>1, <1>3, <2>1, PlainMoves
<1>5. CASE relock(c, p)
  <2> DEFINE x == [loc[p] EXCEPT !.lk = "none", !.idx = 0]
  <2>1. x.idx = 0
    BY <1>0 DEF LocalsType
  <2>2. \/ PlainMove(p, "sleepcheck", ipc[p])
        \/ PlainMove(p, "waitscan", ipc[p])
    <3> HIDE DEF x
    <3>1. /\ loc' = [loc EXCEPT ![p] = x] /\ ipc' = ipc /\ UNCHANGED <<state, chan, parent, spc, sproc>>
          /\ pc[p] = "relock"
          /\ pc' = [pc EXCEPT ![p] = "sleepcheck"] \/ pc' = [pc EXCEPT ![p] = "waitscan"]
      BY <1>5 DEF relock, GotoWith, cpuVars, idVars, procVars, x
    <3>2. QED
      BY <1>0, <1>2, <2>1, <3>1 DEF PlainMove, At, AtLabel, ThreadOK
  <2>3. QED
    BY <1>1, <1>3, <2>2, PlainMoves
<1>6. CASE sys_sleep(c, p)
  <2>1. PlainMove(p, "sleepcheck", ipc[p])
    BY <1>0, <1>2, <1>6 DEF sys_sleep, GotoWith, cpuVars, idVars, procVars, PlainMove, At, AtLabel, ThreadOK
  <2>2. QED
    BY <1>1, <1>3, <2>1, PlainMoves
<1>7. CASE sleepcheck(c, p)
  <2> DEFINE x == [loc[p] EXCEPT !.lk = "tickslock"]
  <2>1. x.lk = "tickslock" /\ x.t0 = loc[p].t0 /\ x.n = loc[p].n
    BY <1>0 DEF LocalsType
  <2>2. CASE stillWaiting(p) /\ ~killed[p]
    <3> HIDE DEF x
    <3>1. /\ loc' = [loc EXCEPT ![p] = x] /\ ipc' = ipc /\ UNCHANGED <<state, chan, parent, spc, sproc>>
          /\ pc[p] = "sleepcheck" /\ pc' = [pc EXCEPT ![p] = "sleep"]
      BY <1>7, <2>2 DEF sleepcheck, GotoWith, cpuVars, idVars, procVars, x
    <3>2. loc'[p] = x
      BY <1>0, <3>1
    <3>3. loc'[p].lk = "tickslock" /\ stillWaiting(p)'
      BY <1>3, <2>1, <2>2, <3>2 DEF stillWaiting
    <3>4. PlainMove(p, "sleep", ipc[p])
      BY <1>0, <1>2, <3>1, <3>3 DEF PlainMove, At, AtLabel, ThreadOK
    <3>5. QED
      BY <1>1, <1>3, <3>4, PlainMoves
  <2>3. CASE ~(stillWaiting(p) /\ ~killed[p])
    <3>1. PlainMove(p, "trapout", ipc[p])
      BY <1>0, <1>2, <1>7, <2>3 DEF sleepcheck, SyscallReturn, GotoWith, cpuVars, idVars, procVars,
         PlainMove, At, AtLabel, ThreadOK
    <3>2. QED
      BY <1>1, <1>3, <3>1, PlainMoves
  <2>4. QED
    BY <2>2, <2>3
<1>8. CASE kill(c, p)
  <2>1. pc[p] = "kill" /\ loc[p].idx \in Procs
    BY <1>2, <1>8 DEF kill, ThreadOK
  <2> PICK k \in Procs : k = loc[p].idx
    BY <2>1
  <2>2. (wake(k) /\ state[k] = "SLEEPING") \/ UNCHANGED <<rqVars, state, currentRuntime>>
    BY <1>8 DEF kill, killWakes
  <2>3. \A q \in Procs : \/ state'[q] = state[q]
                         \/ q = k /\ state[q] = "SLEEPING" /\ state'[q] = "RUNNABLE"
    BY <2>2, WakeStates
  <2>4. /\ \A q \in Procs : q # p => loc'[q] = loc[q]
        /\ UNCHANGED <<ipc, chan, parent, spc, sproc>>
        /\ \E l \in {"trapout", "kill"} : pc' = [pc EXCEPT ![p] = l]
    BY <1>0, <1>8 DEF kill, SyscallReturn, GotoWith, cpuVars, idVars
  <2>5. \E l \in {"trapout", "kill"} : PlainMove(p, l, ipc[p])
    BY <1>0, <1>2, <2>1, <2>3, <2>4 DEF PlainMove, At, AtLabel, ThreadOK
  <2>6. QED
    BY <1>1, <1>3, <2>5, PlainMoves
<1>9. CASE allocproc(c, p)
  <2>1. \E l \in {"trapout", "alloc"} : PlainMove(p, l, ipc[p])
    BY <1>0, <1>2, <1>9 DEF allocproc, SyscallReturn, GotoWith, cpuVars, idVars, procVars, PlainMove,
       At, AtLabel, ThreadOK
  <2>2. QED
    BY <1>1, <1>3, <2>1, PlainMoves
<1>10. CASE forkRunnable(c, p)
  <2>0. pc[p] = "forkrun" /\ pc[p] \in Forking
    BY <1>10 DEF forkRunnable, Forking
  <2>1. /\ loc[p].np \in Procs /\ loc[p].np # p /\ state[loc[p].np] = "USED"
    BY <1>1, <2>0, ForkChild
  <2>2. PlainMove(p, "forkinsert", ipc[p])
    BY <1>0, <1>2, <1>10, <2>1 DEF forkRunnable, Goto, cpuVars, idVars, PlainMove, At, AtLabel, ThreadOK
  <2>3. QED
    BY <1>1, <1>3, <2>2, PlainMoves
<1>11. CASE forkInsert(c, p)
  <2>1. PlainMove(p, "trapout", ipc[p])
    BY <1>0, <1>2, <1>11 DEF forkInsert, SyscallReturn, GotoWith, cpuVars, idVars, procVars, PlainMove,
       At, AtLabel, ThreadOK
  <2>2. QED
    BY <1>1, <1>3, <2>1, PlainMoves
<1>12. CASE forkret(c, p)
  <2>1. PlainMove(p, "user", ipc[p])
    BY <1>0, <1>2, <1>12 DEF forkret, Goto, cpuVars, idVars, procVars, PlainMove, At, AtLabel, ThreadOK
  <2>2. QED
    BY <1>1, <1>3, <2>1, PlainMoves
<1>13. CASE wait(c, p)
  <2>1. NoLocals.idx = 0
    BY DEF NoLocals
  <2>2. PlainMove(p, "waitscan", ipc[p])
    BY <1>0, <1>2, <1>13, <2>1 DEF wait, GotoWith, cpuVars, idVars, procVars, PlainMove, At, AtLabel, ThreadOK
  <2>3. QED
    BY <1>1, <1>3, <2>2, PlainMoves
<1>14. CASE exit(c, p) /\ p = initproc
  <2>1. UNCHANGED <<pc, ipc, loc, chan, state, parent, spc, sproc>>
    BY <1>14 DEF exit, threadVars, cpuVars, idVars, procVars
  <2>2. QED
    BY <1>3, <2>1 DEF AllOrdinary, Ordinary, At
<1>15. CASE exit(c, p) /\ p # initproc
  <2>1. PlainMove(p, "reparent", ipc[p])
    BY <1>0, <1>2, <1>15 DEF exit, GotoWith, cpuVars, idVars, procVars, PlainMove, At, AtLabel, ThreadOK
  <2>2. QED
    BY <1>1, <1>3, <2>1, PlainMoves
<1>16. CASE trapout(c, p)
  <2>1. \E l \in {"exit", "charge"} : PlainMove(p, l, ipc[p])
    BY <1>0, <1>2, <1>16 DEF trapout, Goto, GotoWith, cpuVars, idVars, procVars, PlainMove, At, AtLabel, ThreadOK
  <2>2. QED
    BY <1>1, <1>3, <2>1, PlainMoves
<1>17. CASE charge(c, p) \/ incr(c, p)
  <2>1. \E l \in {"incr", "yield"} : PlainMove(p, l, ipc[p])
    BY <1>0, <1>2, <1>17 DEF charge, incr, GotoWith, cpuVars, idVars, procVars, PlainMove, At, AtLabel, ThreadOK
  <2>2. QED
    BY <1>1, <1>3, <2>1, PlainMoves
<1>18. CASE yield(c, p)
  <2> DEFINE x == [loc[p] EXCEPT !.minp = IF queue = << >> THEN Null ELSE Head(queue)]
  <2>1. x.np = loc[p].np
    BY <1>0 DEF LocalsType
  <2> HIDE DEF x
  <2>2. /\ loc' = [loc EXCEPT ![p] = x] /\ ipc' = ipc /\ UNCHANGED <<state, chan, parent, spc, sproc>>
        /\ pc[p] = "yield" /\ pc' = [pc EXCEPT ![p] = "check"]
    BY <1>18 DEF yield, GotoWith, cpuVars, idVars, procVars, x
  <2>3. PlainMove(p, "check", ipc[p])
    BY <1>0, <1>2, <2>1, <2>2 DEF PlainMove, At, AtLabel, ThreadOK
  <2>4. QED
    BY <1>1, <1>3, <2>3, PlainMoves
<1>19. CASE syscall(c, p)
  <2>1. \E l \in {"alloc", "exit", "wait", "kill", "sys_sleep", "trapout"} :
          pc' = [pc EXCEPT ![p] = l]
    BY <1>19 DEF syscall, Dispatch, EnterTrap
  <2>2. /\ \A q \in Procs : q # p => loc'[q] = loc[q]
        /\ ipc' = ipc /\ pc[p] = "user" /\ UNCHANGED <<state, chan, parent, spc, sproc>>
    BY <1>0, <1>19 DEF syscall, FromUser, Dispatch, EnterTrap, cpuVars, idVars, procVars
  <2>3. \E l \in {"alloc", "exit", "wait", "kill", "sys_sleep", "trapout"} : PlainMove(p, l, ipc[p])
    BY <1>0, <1>2, <2>1, <2>2 DEF PlainMove, At, AtLabel, ThreadOK
  <2>4. QED
    BY <1>1, <1>3, <2>3, PlainMoves
<1>20. CASE userDevice(c, p) \/ userFault(c, p)
  <2>1. PlainMove(p, "trapout", ipc[p])
    BY <1>0, <1>2, <1>20 DEF userDevice, userFault, FromUser, EnterTrap, cpuVars, idVars, procVars,
       PlainMove, At, AtLabel, ThreadOK
  <2>2. QED
    BY <1>1, <1>3, <2>1, PlainMoves
<1>21. QED
  BY <1>4, <1>5, <1>6, <1>7, <1>8, <1>9, <1>10, <1>11, <1>12, <1>13, <1>14, <1>15, <1>16, <1>17,
     <1>18, <1>19, <1>20

\* yield(), whether it gives up the CPU or not.
LEMMA YieldsOrdinary ==
  ASSUME KernelInv, NEW c \in CPUs, NEW p \in Procs, preempt(c, p) \/ yielded(c, p)
  PROVE  AllOrdinary /\ UNCHANGED <<ticks, wk>>
<1>0. /\ pc \in [Procs -> Labels] /\ ipc \in [Procs -> Labels \cup {"none"}]
      /\ loc \in [Procs -> LocalsType] /\ state \in [Procs -> States]
      /\ spc \in [CPUs -> {"pick", "wfi", "lock", "start", "running", "after"}]
  BY DEF KernelInv, KernelTypes
<1>1. OnCPU(c, p) /\ pc[p] \in {"check", "yielded"}
  BY DEF preempt, yielded
<1>2. ThreadOK(p, pc[p], ipc[p], loc[p]) /\ state[p] = "RUNNING"
  BY <1>1, RunningThread
<1>3. UNCHANGED <<ticks, wk, chan, parent, sproc>>
  BY DEF preempt, yielded, cpuVars, procVars, idVars
<1>4. \A q \in Procs : (q # p => loc'[q] = loc[q]) /\ loc'[q].np = loc[q].np
  <2>1. loc' = loc \/ loc' = [loc EXCEPT ![p].minp = Null]
    BY DEF preempt, yielded
  <2>2. QED
    BY <1>0, <2>1 DEF LocalsType
<1>5. CASE preempt(c, p) /\ checkPreemption(p, loc[p].minp)
  <2>1. /\ state' = [state EXCEPT ![p] = "RUNNABLE"] /\ pc' = [pc EXCEPT ![p] = "yielded"]
        /\ spc' = [spc EXCEPT ![c] = "after"] /\ ipc' = ipc
    BY <1>5 DEF preempt, requeue, sched
  <2>2. ASSUME NEW q \in Procs
        PROVE  Ordinary(q)
    BY <1>0, <1>1, <1>2, <1>3, <1>4, <2>1 DEF Ordinary, At
  <2>3. QED
    BY <1>3, <2>2 DEF AllOrdinary
<1>6. CASE \/ preempt(c, p) /\ ~checkPreemption(p, loc[p].minp)
           \/ yielded(c, p)
  <2>1. /\ pc' = [pc EXCEPT ![p] = afterYield(p)] /\ ipc' = [ipc EXCEPT ![p] = "none"]
        /\ UNCHANGED <<state, spc>>
    BY <1>6 DEF preempt, yielded, yieldReturns, procVars, cpuVars
  <2>2. afterYield(p) \notin {"sleep", "waitscan", "zombie"}
    BY <1>2 DEF afterYield, ThreadOK, Unlocked
  <2>3. At(p) = "forkparent" <=> AtLabel(afterYield(p), "none") = "forkparent"
    BY <1>1 DEF At, AtLabel, afterYield
  <2>4. PlainMove(p, afterYield(p), "none")
    BY <1>3, <1>4, <2>1, <2>2, <2>3 DEF PlainMove
  <2>5. QED
    BY <1>1, <1>3, <2>4, PlainMoves
<1>7. QED
  BY <1>5, <1>6

\* The scheduler.
LEMMA SchedulerOrdinary ==
  ASSUME KernelInv, NEW c \in CPUs, SchedulerStep(c)
  PROVE  AllOrdinary /\ UNCHANGED <<ticks, wk>>
<1>0. /\ state \in [Procs -> States]
      /\ spc \in [CPUs -> {"pick", "wfi", "lock", "start", "running", "after"}]
      /\ sproc \in [CPUs -> Procs \cup {Null}]
  BY DEF KernelInv, KernelTypes
<1>1. UNCHANGED <<ticks, wk, chan, parent, pc, ipc, loc>>
  BY DEF SchedulerStep, pick, lockPicked, switchTo, switchedBack, procVars, idVars, threadVars
<1>2. CASE switchTo(c)
  <2>1. spc[c] = "start" /\ sproc[c] \in Procs
    BY <1>2 DEF switchTo, KernelInv, SchedulerLocals
  <2> PICK p \in Procs : p = sproc[c]
    BY <2>1
  <2>2. /\ state' = [state EXCEPT ![p] = "RUNNING"] /\ spc' = [spc EXCEPT ![c] = "running"]
        /\ sproc' = sproc
    BY <1>2 DEF switchTo
  <2>3. state[p] = "RUNNABLE" /\ pc[p] # "zombie"
    BY <2>1 DEF KernelInv, SchedulerLocals, Threads, LabelsOf
  <2>4. ASSUME NEW q \in Procs
        PROVE  Ordinary(q)
    BY <1>0, <1>1, <2>2, <2>3 DEF Ordinary, At
  <2>5. QED
    BY <1>1, <2>4 DEF AllOrdinary
<1>3. CASE pick(c) \/ lockPicked(c) \/ switchedBack(c)
  <2>1. /\ state' = state
        /\ \A d \in CPUs : spc'[d] = "running" => spc[d] = "running" /\ sproc'[d] = sproc[d]
    BY <1>0, <1>3 DEF pick, lockPicked, switchedBack, procVars
  <2>2. ASSUME NEW q \in Procs
        PROVE  Ordinary(q)
    BY <1>1, <2>1 DEF Ordinary, At
  <2>3. QED
    BY <1>1, <2>2 DEF AllOrdinary
<1>4. QED
  BY <1>2, <1>3 DEF SchedulerStep

\* The timer interrupts.
LEMMA TimersOK ==
  ASSUME KernelInv, WakeInv, NEW c \in CPUs, Timer(c)
  PROVE  AllOrdinary /\ WakeInv'
<1>0. /\ pc \in [Procs -> Labels] /\ ipc \in [Procs -> Labels \cup {"none"}]
      /\ loc \in [Procs -> LocalsType]
      /\ spc \in [CPUs -> {"pick", "wfi", "lock", "start", "running", "after"}]
  BY DEF KernelInv, KernelTypes
<1>1. CASE schedTimer(c)
  <2>1. /\ clockintr(c) /\ wk[c] = NoWake
        /\ UNCHANGED <<state, chan, parent, sproc, pc, ipc, loc>>
        /\ \A d \in CPUs : spc'[d] = "running" => spc[d] = "running"
    BY <1>0, <1>1 DEF schedTimer, InScheduler, procVars, idVars, threadVars
  <2>2. AllOrdinary
    BY <2>1 DEF AllOrdinary, Ordinary, At
  <2>3. QED
    BY <2>1, <2>2, ClockSleepers
<1>2. ASSUME NEW p \in Procs, userTimer(c, p) \/ kernelTimer(c, p)
      PROVE  AllOrdinary /\ WakeInv'
  <2>1. /\ OnCPU(c, p) /\ clockintr(c) /\ wk[c] = NoWake
        /\ UNCHANGED <<state, chan, parent, spc, sproc>>
        /\ \A q \in Procs : q # p => loc'[q] = loc[q]
    BY <1>0, <1>2 DEF userTimer, kernelTimer, FromUser, OnCPU, EnterTrap, procVars, idVars
  <2>2. ThreadOK(p, pc[p], ipc[p], loc[p])
    BY <2>1, RunningThread
  <2>3. \E l \in {"trapout", "yield"}, i \in Labels \cup {"none"} : PlainMove(p, l, i)
    <3>1. CASE userTimer(c, p)
      <4>1. /\ pc[p] = "user" /\ pc' = [pc EXCEPT ![p] = "trapout"]
            /\ ipc' = [ipc EXCEPT ![p] = ipc[p]]
        BY <1>0, <3>1 DEF userTimer, FromUser, EnterTrap
      <4>2. PlainMove(p, "trapout", ipc[p])
        BY <2>1, <2>2, <4>1 DEF PlainMove, At, AtLabel, ThreadOK
      <4>3. QED
        BY <1>0, <4>2
    <3>2. CASE kernelTimer(c, p)
      <4>1. /\ pc' = [pc EXCEPT ![p] = "yield"] /\ ipc' = [ipc EXCEPT ![p] = pc[p]]
            /\ ipc[p] = "none" /\ loc' = loc /\ pc[p] \in Unlocked
        BY <3>2 DEF kernelTimer
      <4>2. PlainMove(p, "yield", pc[p])
        BY <2>1, <4>1 DEF PlainMove, At, AtLabel, Unlocked
      <4>3. QED
        BY <1>0, <4>2
    <3>3. QED
      BY <1>2, <3>1, <3>2
  <2>4. AllOrdinary
    BY <2>1, <2>3, PlainMoves
  <2>5. \A q \in Procs : pc'[q] \in {"sleep", "waitscan", "zombie"} =>
                           pc'[q] = pc[q] /\ loc'[q] = loc[q]
    BY <1>0, <2>1, <2>3 DEF PlainMove
  <2>6. QED
    BY <2>1, <2>4, <2>5, ClockSleepers
<1>3. QED
  BY <1>1, <1>2 DEF Timer

-----------------------------------------------------------------------------
(* The loop of wakeup.                                                     *)

\* The process that wakeup leaves behind is not one that should have been woken.
LEMMA wakeupOK ==
  ASSUME KernelInv, WakeInv, NEW c \in CPUs, wakeup(c)
  PROVE  AllOrdinary /\ WakeInv'
<1>0. /\ wk \in [CPUs -> [idx : Procs \cup {0}, chan : Procs \cup {Null, TicksChan}]]
      /\ wk[c].idx # 0
  BY DEF KernelInv, KernelTypes, wakeup
<1> PICK k \in Procs : k = wk[c].idx
  BY <1>0
<1> PICK ch : ch = wk[c].chan
  OBVIOUS
<1>1. /\ UNCHANGED <<chan, parent, spc, sproc, pc, ipc, loc, ticks>>
      /\ wk' = [wk EXCEPT ![c] = IF k = NPROC THEN NoWake ELSE [wk[c] EXCEPT !.idx = k + 1]]
      /\ k # cproc[c] /\ state[k] = "SLEEPING" /\ chan[k] = ch => wake(k)
      /\ \/ wake(k) /\ state[k] = "SLEEPING"
         \/ UNCHANGED <<rqVars, state, currentRuntime>>
  BY DEF wakeup, idVars, threadVars
<1>2. \A q \in Procs : \/ state'[q] = state[q]
                       \/ q = k /\ state[q] = "SLEEPING" /\ state'[q] = "RUNNABLE"
  BY <1>1, WakeStates
<1>3. AllOrdinary
  BY <1>1, <1>2 DEF AllOrdinary, Ordinary, At
<1>4. cproc[c] = k => state[k] # "SLEEPING"
  <2>1. spc[c] \in {"pick", "lock", "running"}
    BY <1>0 DEF KernelInv, WakeupCallers
  <2>2. QED
    BY <2>1, Numbers DEF KernelInv, SchedulerLocals
<1>5. state'[k] = "SLEEPING" => chan[k] # ch
  <2>1. state \in [Procs -> States]
    BY DEF KernelInv, KernelTypes
  <2>2. wake(k) => state'[k] = "RUNNABLE"
    BY <2>1 DEF wake
  <2>3. QED
    BY <1>1, <1>2, <1>4, <2>2
<1>6. /\ NPROC \in Nat /\ \A q \in Procs : q \in Nat /\ 1 <= q /\ q <= NPROC
  BY Numbers
<1>7. /\ \A d \in CPUs : d # c => wk'[d] = wk[d]
      /\ k = NPROC => wk'[c] = NoWake
      /\ k # NPROC => wk'[c].idx = k + 1 /\ wk'[c].chan = ch
  <2>1. wk[c] \in [idx : Procs \cup {0}, chan : Procs \cup {Null, TicksChan}]
    BY <1>0
  <2>2. [wk[c] EXCEPT !.idx = k + 1].idx = k + 1 /\ [wk[c] EXCEPT !.idx = k + 1].chan = ch
    BY <2>1
  <2>3. QED
    BY <1>0, <1>1, <2>2
<1>8. \A q \in Procs : /\ Children(q)' = Children(q)
                       /\ state'[q] = "ZOMBIE" => state[q] = "ZOMBIE"
                       /\ AllAlive(q) => AllAlive(q)'
  BY <1>1, <1>2 DEF Children, AllAlive
\* Only the place of k in the call is lost.
<1>9. ASSUME NEW q \in Procs, NEW h, q # k \/ h # ch, WakeupPending(q, h)
      PROVE  WakeupPending(q, h)'
  <2>1. PICK d \in CPUs : wk[d].idx \in 1..q /\ wk[d].chan = h
    BY <1>9 DEF WakeupPending
  <2>2. CASE d # c
    BY <1>7, <2>1, <2>2 DEF WakeupPending
  <2>3. CASE d = c
    <3>1. k \in 1..q /\ h = ch /\ q # k
      BY <1>9, <2>1, <2>3
    <3>2. k # NPROC /\ k + 1 \in 1..q
      <4>1. q \in Nat /\ q <= NPROC /\ k \in Nat /\ 1 <= k
        BY <1>6
      <4>2. k <= q /\ k # q
        BY <3>1, <4>1
      <4>3. QED
        BY <1>6, <4>1, <4>2
    <3>3. wk'[c].idx \in 1..q /\ wk'[c].chan = h
      BY <1>7, <3>1, <3>2
    <3>4. QED
      BY <3>3 DEF WakeupPending
  <2>4. QED
    BY <2>2, <2>3
<1>10. ASSUME NEW p \in Procs
       PROVE  SleeperOK(p)'
  <2>1. state'[p] = "SLEEPING" => state[p] = "SLEEPING" /\ (p # k \/ chan[p] # ch)
    BY <1>2, <1>5
  <2>2. state'[p] = "SLEEPING" /\ ~WakeupPending(p, chan[p])' => ~WakeupPending(p, chan[p])
    BY <1>1, <1>9, <2>1 DEF WakeupPending
  <2>3. SleeperOK(p)
    BY DEF WakeInv
  <2>4. QED
    BY <1>1, <1>8, <2>1, <2>2, <2>3 DEF SleeperOK, stillWaiting, WakeupPending
<1>11. ASSUME NEW p \in Procs
       PROVE  WaiterOK(p)'
  <2>1. WaiterOK(p) /\ \A j \in Children(p) : j \in Procs
    BY DEF WakeInv, Children
  <2>2. QED
    BY <1>1, <1>8, <2>1 DEF WaiterOK, stillWaiting
<1>12. ASSUME NEW d \in CPUs, NEW j \in Procs
       PROVE  ExiterOK(d, j)'
  <2>1. ExiterOK(d, j)
    BY DEF WakeInv
  <2>2. ASSUME spc[d] = "running", sproc[d] = j, pc[j] = "zombie", NEW q \in Procs,
               parent[j] = q, state'[q] = "SLEEPING", chan[q] = q
        PROVE  wk'[d].chan = q /\ wk'[d].idx \in 1..q
    <3>1. state[q] = "SLEEPING"
      BY <1>2, <2>2
    <3>2. wk[d].chan = q /\ wk[d].idx \in 1..q
      BY <2>1, <2>2, <3>1 DEF ExiterOK, Runs
    <3>3. CASE d # c
      BY <1>7, <3>2, <3>3
    <3>4. CASE d = c
      <4>1. ch = q /\ k \in 1..q /\ k # q
        BY <1>5, <2>2, <3>2, <3>4
      <4>2. k # NPROC /\ k + 1 \in 1..q
        BY <1>6, <4>1
      <4>3. QED
        BY <1>7, <3>4, <4>1, <4>2
    <3>5. QED
      BY <3>3, <3>4
  <2>3. QED
    BY <1>1, <2>2 DEF ExiterOK, Runs
<1>13. QED
  BY <1>3, <1>10, <1>11, <1>12 DEF WakeInv

-----------------------------------------------------------------------------
(* The steps of the holder of wait_lock.                                   *)

\* Nobody but the holder of wait_lock is at a place that needs it.
LEMMA OneHolder ==
  ASSUME KernelInv, NEW c \in CPUs, NEW p \in Procs, OnCPU(c, p), HoldsWait(pc[p], loc[p]),
         NEW q \in Procs, q # p
  PROVE  /\ pc[q] \notin {"reparent", "zombie", "waitscan"}
         /\ pc[q] = "sleep" => loc[q].lk # "wait_lock"
<1>1. SUFFICES ASSUME HoldsWait(pc[q], loc[q])
               PROVE  FALSE
  BY DEF HoldsWait
<1>2. state[q] = "RUNNING"
  <2>1. pc[q] \in LabelsOf(state[q]) /\ state[q] \in States
    BY DEF KernelInv, Threads, KernelTypes
  <2>2. QED
    BY <1>1, <2>1 DEF LabelsOf, States, HoldsWait
<1>3. PICK d \in CPUs : Runs(d, q)
  BY <1>2 DEF KernelInv, OneScheduler
<1>4. wait_lock = d
  BY <1>1, <1>3 DEF KernelInv, WaitLock, Runs
<1>5. wait_lock = c /\ sproc[c] = p
  BY RunningThread
<1>6. QED
  BY <1>3, <1>4, <1>5 DEF Runs

\* The holder p of wait_lock makes a step on CPU c that may begin a wakeup.  The others
\* stay where they are, and a sleeper with living children keeps them or is being woken.
HolderMove(c, p) ==
  /\ UNCHANGED ticks
  /\ \A d \in CPUs : d # c => wk'[d] = wk[d]
  /\ \A q \in Procs : q # p =>
       /\ pc'[q] = pc[q] /\ loc'[q] = loc[q]
       /\ state'[q] = "SLEEPING" => state[q] = "SLEEPING" /\ chan'[q] = chan[q]
       /\ state[q] = "SLEEPING" /\ chan[q] = q /\ AllAlive(q) =>
            AllAlive(q)' \/ WakeupPending(q, q)'

\* Then only p itself needs a look.
LEMMA HolderMoves ==
  ASSUME KernelInv, WakeInv, NEW c \in CPUs, NEW p \in Procs, OnCPU(c, p),
         HoldsWait(pc[p], loc[p]), HolderMove(c, p),
         SleeperOK(p)', WaiterOK(p)', \A d \in CPUs : ExiterOK(d, p)'
  PROVE  WakeInv'
<1>1. \A q \in Procs : q # p => /\ pc[q] \notin {"reparent", "zombie", "waitscan"}
                                /\ pc[q] = "sleep" => loc[q].lk # "wait_lock"
  BY OneHolder
<1>2. wk[c].idx = 0
  BY RunningThread DEF NoWake
<1>3. ASSUME NEW q \in Procs, NEW h, WakeupPending(q, h)
      PROVE  WakeupPending(q, h)'
  <2>1. PICK d \in CPUs : wk[d].idx \in 1..q /\ wk[d].chan = h
    BY <1>3 DEF WakeupPending
  <2>2. d # c
    BY <1>2, <2>1, Numbers
  <2>3. QED
    BY <2>1, <2>2 DEF HolderMove, WakeupPending
<1>4. ASSUME NEW q \in Procs, q # p
      PROVE  SleeperOK(q)' /\ WaiterOK(q)' /\ \A d \in CPUs : ExiterOK(d, q)'
  <2>1. /\ pc'[q] = pc[q] /\ loc'[q] = loc[q] /\ ticks' = ticks
        /\ state'[q] = "SLEEPING" => state[q] = "SLEEPING" /\ chan'[q] = chan[q]
        /\ state[q] = "SLEEPING" /\ chan[q] = q /\ AllAlive(q) =>
             AllAlive(q)' \/ WakeupPending(q, q)'
    BY <1>4 DEF HolderMove
  <2>2. SleeperOK(q) /\ WaiterOK(q)
    BY DEF WakeInv
  <2>3. state'[q] = "SLEEPING" /\ ~WakeupPending(q, chan[q])' => ~WakeupPending(q, chan[q])
    BY <1>3, <2>1 DEF WakeupPending
  <2>4. SleeperOK(q)'
    <3>1. SUFFICES ASSUME state'[q] = "SLEEPING", ~WakeupPending(q, chan[q])', chan'[q] = chan[q]
                   PROVE  /\ chan[q] = TicksChan => stillWaiting(q)'
                          /\ chan[q] = q => AllAlive(q)'
      BY <2>1 DEF SleeperOK, WakeupPending
    <3>2. /\ chan[q] = TicksChan => stillWaiting(q)
          /\ chan[q] = q => AllAlive(q)
      BY <2>1, <2>2, <2>3, <3>1 DEF SleeperOK
    <3>3. chan[q] = TicksChan => stillWaiting(q)'
      BY <2>1, <3>2 DEF stillWaiting
    <3>4. chan[q] = q => AllAlive(q)'
      BY <2>1, <3>1, <3>2 DEF WakeupPending
    <3>5. QED
      BY <3>3, <3>4
  <2>5. WaiterOK(q)'
    BY <1>1, <1>4, <2>1, <2>2 DEF WaiterOK, stillWaiting
  <2>6. \A d \in CPUs : ExiterOK(d, q)'
    BY <1>1, <1>4, <2>1 DEF ExiterOK
  <2>7. QED
    BY <2>4, <2>5, <2>6
<1>5. QED
  BY <1>4 DEF WakeInv

\* sleep(), under either lock.
LEMMA sleepOK ==
  ASSUME KernelInv, ParentInv, WakeInv, NEW c \in CPUs, NEW p \in Procs, sleep(c, p)
  PROVE  ParentInv' /\ WakeInv'
<1>0. /\ pc \in [Procs -> Labels] /\ state \in [Procs -> States]
      /\ chan \in [Procs -> Procs \cup {Null, TicksChan}] /\ TicksChan \notin Procs
      /\ spc \in [CPUs -> {"pick", "wfi", "lock", "start", "running", "after"}]
  BY Numbers DEF KernelInv, KernelTypes
<1>1. /\ OnCPU(c, p) /\ pc[p] = "sleep"
      /\ chan' = [chan EXCEPT ![p] = IF loc[p].lk = "tickslock" THEN TicksChan ELSE p]
      /\ state' = [state EXCEPT ![p] = "SLEEPING"]
      /\ pc' = [pc EXCEPT ![p] = "slept"] /\ spc' = [spc EXCEPT ![c] = "after"]
      /\ UNCHANGED <<parent, wk, ipc, loc, ticks, sproc>>
  BY DEF sleep, sched, idVars
<1>2. /\ state[p] = "RUNNING" /\ ThreadOK(p, pc[p], ipc[p], loc[p]) /\ loc[p].lk # "none"
      /\ sproc[c] = p /\ loc[p] \in LocalsType
  BY <1>1, RunningThread DEF ThreadOK, KernelInv, KernelTypes
<1>3. /\ state'[p] = "SLEEPING" /\ pc'[p] = "slept"
      /\ chan'[p] = IF loc[p].lk = "tickslock" THEN TicksChan ELSE p
      /\ \A q \in Procs : q # p => state'[q] = state[q] /\ pc'[q] = pc[q] /\ chan'[q] = chan[q]
  BY <1>0, <1>1
<1>4. /\ \A q \in Procs : Children(q)' = Children(q)
      /\ \A q \in Procs : state'[q] = "ZOMBIE" <=> state[q] = "ZOMBIE"
  BY <1>1, <1>2, <1>3 DEF Children
<1>5. \A q \in Procs : AllAlive(q) => AllAlive(q)'
  BY <1>4 DEF AllAlive, Children
<1>6. ParentInv'
  <2>1. FamilyStays
    BY <1>1, <1>2, <1>3 DEF FamilyStays, Absent, At, ThreadOK
  <2>2. QED
    BY <2>1, FamiliesStay
<1>7. WaiterOK(p)' /\ \A d \in CPUs : ExiterOK(d, p)'
  BY <1>3 DEF WaiterOK, ExiterOK
<1>8. CASE loc[p].lk = "wait_lock"
  <2>1. HoldsWait(pc[p], loc[p])
    BY <1>1, <1>8 DEF HoldsWait
  <2>2. HolderMove(c, p)
    BY <1>1, <1>3, <1>5 DEF HolderMove
  <2>3. AllAlive(p)
    BY <1>1, <1>8 DEF WakeInv, WaiterOK
  <2>4. SleeperOK(p)'
    BY <1>0, <1>3, <1>5, <1>8, <2>3 DEF SleeperOK
  <2>5. QED
    BY <1>1, <1>6, <1>7, <2>1, <2>2, <2>4, HolderMoves
<1>9. CASE loc[p].lk = "tickslock"
  <2>1. stillWaiting(p)
    BY <1>1, <1>9 DEF WakeInv, WaiterOK
  <2>2. SleeperOK(p)'
    BY <1>0, <1>1, <1>3, <1>9, <2>1 DEF SleeperOK, stillWaiting
  <2>3. ASSUME NEW q \in Procs, q # p
        PROVE  SleeperOK(q)' /\ WaiterOK(q)'
    <3>1. SleeperOK(q) /\ WaiterOK(q) /\ \A k \in Children(q) : k \in Procs
      BY DEF WakeInv, Children
    <3>2. /\ state'[q] = state[q] /\ pc'[q] = pc[q] /\ chan'[q] = chan[q]
          /\ loc' = loc /\ ticks' = ticks /\ wk' = wk
      BY <1>1, <1>3, <2>3
    <3>3. SleeperOK(q)'
      BY <1>5, <3>1, <3>2 DEF SleeperOK, WakeupPending, stillWaiting
    <3>4. WaiterOK(q)'
      BY <1>4, <1>5, <3>1, <3>2 DEF WaiterOK, stillWaiting
    <3>5. QED
      BY <3>3, <3>4
  <2>4. ASSUME NEW d \in CPUs, NEW k \in Procs, k # p
        PROVE  ExiterOK(d, k)'
    <3>1. ExiterOK(d, k)
      BY DEF WakeInv
    <3>2. \A q \in Procs : state'[q] = "SLEEPING" /\ chan'[q] = q =>
                             state[q] = "SLEEPING" /\ chan[q] = q
      BY <1>0, <1>3, <1>9
    <3>3. spc'[d] = "running" => spc[d] = "running"
      BY <1>0, <1>1
    <3>4. QED
      BY <1>1, <1>3, <2>4, <3>1, <3>2, <3>3 DEF ExiterOK, Runs
  <2>5. QED
    BY <1>6, <1>7, <2>2, <2>3, <2>4 DEF WakeInv
<1>10. QED
  BY <1>2, <1>8, <1>9 DEF LocalsType

\* wait() found no zombie: every child has been looked at under wait_lock, which no
\* exiting child has had since.
LEMMA waitSleepOK ==
  ASSUME KernelInv, ParentInv, WakeInv, NEW c \in CPUs, NEW p \in Procs, waitSleep(c, p)
  PROVE  ParentInv' /\ WakeInv'
<1>0. /\ pc \in [Procs -> Labels] /\ loc \in [Procs -> LocalsType]
  BY DEF KernelInv, KernelTypes
<1>1. /\ OnCPU(c, p) /\ pc[p] = "waitscan" /\ NotScanned(p) = {}
      /\ UNCHANGED <<parent, state, chan, wk, ipc, ticks, spc, sproc>>
  BY DEF waitSleep, idVars, procVars, cpuVars, SyscallReturn, GotoWith
<1>2. state[p] = "RUNNING" /\ ThreadOK(p, pc[p], ipc[p], loc[p])
  BY <1>1, RunningThread
<1>3. /\ \A q \in Procs : q # p => pc'[q] = pc[q] /\ loc'[q] = loc[q]
      /\ \/ pc'[p] = "trapout"
         \/ pc'[p] = "sleep" /\ loc'[p].lk = "wait_lock" /\ Children(p) # {}
  BY <1>0 DEF waitSleep, SyscallReturn, GotoWith, LocalsType
<1>4. \A q \in Procs : Children(q)' = Children(q) /\ AllAlive(q)' = AllAlive(q)
  BY <1>1 DEF Children, AllAlive
<1>5. ParentInv'
  <2>1. FamilyStays
    BY <1>1, <1>2, <1>3 DEF FamilyStays, Absent, At, ThreadOK
  <2>2. QED
    BY <2>1, FamiliesStay
<1>6. HoldsWait(pc[p], loc[p]) /\ HolderMove(c, p)
  BY <1>1, <1>3, <1>4 DEF HoldsWait, HolderMove
<1>7. SleeperOK(p)' /\ \A d \in CPUs : ExiterOK(d, p)'
  BY <1>1, <1>2, <1>3 DEF SleeperOK, ExiterOK
<1>8. \A k \in Children(p) : state[k] # "ZOMBIE"
  <2>1. WaiterOK(p)
    BY DEF WakeInv
  <2>2. \A k \in Children(p) : k \in Nat /\ ~(k > loc[p].idx)
    BY <1>1, Numbers DEF NotScanned, Children
  <2>3. loc[p].idx \in Nat
    BY <1>0, Numbers DEF LocalsType
  <2>4. QED
    BY <1>1, <2>1, <2>2, <2>3 DEF WaiterOK
<1>9. WaiterOK(p)'
  <2>1. pc'[p] = "sleep" => AllAlive(p)'
    BY <1>3, <1>4, <1>8 DEF AllAlive
  <2>2. QED
    BY <1>3, <2>1 DEF WaiterOK
<1>10. QED
  BY <1>1, <1>5, <1>6, <1>7, <1>9, HolderMoves

\* The scan looks at the children in the order of the table.
LEMMA ScanOrder ==
  ASSUME NEW p \in Procs, NotScanned(p) # {}
  PROVE  /\ Least(NotScanned(p)) \in NotScanned(p)
         /\ \A j \in NotScanned(p) : Least(NotScanned(p)) <= j
<1>1. NotScanned(p) \in SUBSET Nat
  BY Numbers DEF NotScanned, Children
<1>2. \E k \in NotScanned(p) : \A j \in NotScanned(p) : k <= j
  BY <1>1, LeastNat
<1>3. QED
  BY <1>2 DEF Least

\* wait() examines a child: it passes over one that is alive, and frees a zombie, which
\* is nobody's parent.
LEMMA waitChildOK ==
  ASSUME KernelInv, ParentInv, WakeInv, NEW c \in CPUs, NEW p \in Procs, waitChild(c, p)
  PROVE  ParentInv' /\ WakeInv'
<1>0. /\ pc \in [Procs -> Labels] /\ loc \in [Procs -> LocalsType]
      /\ state \in [Procs -> States] /\ chan \in [Procs -> Procs \cup {Null, TicksChan}]
      /\ parent \in [Procs -> Procs \cup {Null}]
      /\ initproc \in Procs /\ Null \notin Procs
  BY Numbers DEF KernelInv, KernelTypes
<1>1. /\ OnCPU(c, p) /\ pc[p] = "waitscan" /\ NotScanned(p) # {}
      /\ UNCHANGED <<wk, ipc, ticks, spc, sproc>>
  BY DEF waitChild, cpuVars, freeproc, SyscallReturn, GotoWith
<1>2. state[p] = "RUNNING" /\ ThreadOK(p, pc[p], ipc[p], loc[p]) /\ ipc[p] = "none"
  BY <1>1, RunningThread DEF ThreadOK
<1>3. PICK k \in Procs : k = Least(NotScanned(p)) /\ parent[k] = p
  BY <1>1, ScanOrder DEF NotScanned, Children
<1>4. HoldsWait(pc[p], loc[p])
  BY <1>1 DEF HoldsWait
<1>5. CASE /\ state[k] # "ZOMBIE" \/ UNCHANGED <<state, parent, chan>>
  <2>1. /\ UNCHANGED <<state, parent, chan>>
        /\ \A q \in Procs : q # p => pc'[q] = pc[q] /\ loc'[q] = loc[q]
        /\ \/ pc'[p] = "trapout"
           \/ pc'[p] = "waitscan" /\ loc'[p].idx = k /\ state[k] # "ZOMBIE"
    BY <1>0, <1>3, <1>5 DEF waitChild, SyscallReturn, GotoWith, LocalsType
  <2>2. \A q \in Procs : Children(q)' = Children(q) /\ AllAlive(q)' = AllAlive(q)
    BY <2>1 DEF Children, AllAlive
  <2>3. FamilyStays
    BY <1>1, <1>2, <2>1 DEF FamilyStays, Absent, At
  <2>4. HolderMove(c, p)
    BY <1>1, <2>1, <2>2 DEF HolderMove
  <2>5. SleeperOK(p)' /\ \A d \in CPUs : ExiterOK(d, p)'
    BY <1>2, <2>1 DEF SleeperOK, ExiterOK
  <2>6. WaiterOK(p)'
    <3>1. CASE pc'[p] = "trapout"
      BY <3>1 DEF WaiterOK
    <3>2. CASE pc'[p] = "waitscan" /\ loc'[p].idx = k /\ state[k] # "ZOMBIE"
      <4>1. ASSUME NEW j \in Children(p), j <= k
            PROVE  state[j] # "ZOMBIE"
        <5>1. j \in Nat /\ k \in Nat /\ loc[p].idx \in Nat
          BY <1>0, Numbers DEF Children, LocalsType
        <5>2. CASE j <= loc[p].idx
          BY <1>1, <5>2 DEF WakeInv, WaiterOK
        <5>3. CASE ~(j <= loc[p].idx)
          <6>1. j \in NotScanned(p)
            BY <5>1, <5>3 DEF NotScanned
          <6>2. k <= j
            BY <1>1, <1>3, <6>1, ScanOrder
          <6>3. QED
            BY <3>2, <4>1, <5>1, <6>2
        <5>4. QED
          BY <5>2, <5>3
      <4>2. QED
        BY <2>1, <2>2, <3>2, <4>1 DEF WaiterOK
    <3>3. QED
      BY <2>1, <3>1, <3>2
  <2>7. QED
    BY <1>1, <1>4, <2>3, <2>4, <2>5, <2>6, FamiliesStay, HolderMoves
<1>6. CASE state[k] = "ZOMBIE" /\ ~UNCHANGED <<state, parent, chan>>
  <2>1. /\ state' = [state EXCEPT ![k] = "UNUSED"]
        /\ parent' = [parent EXCEPT ![k] = Null]
        /\ chan' = [chan EXCEPT ![k] = Null]
        /\ pc' = [pc EXCEPT ![p] = "trapout"] /\ loc' = [loc EXCEPT ![p] = NoLocals]
    BY <1>3, <1>6 DEF waitChild, freeproc, SyscallReturn, GotoWith
  <2>2. k # p /\ k # initproc
    BY <1>0, <1>2, <1>3, <1>6 DEF ParentInv
  <2>3. /\ state'[k] = "UNUSED" /\ parent'[k] = Null
        /\ \A q \in Procs : q # k =>
             state'[q] = state[q] /\ parent'[q] = parent[q] /\ chan'[q] = chan[q]
        /\ pc'[p] = "trapout"
        /\ \A q \in Procs : q # p => pc'[q] = pc[q] /\ loc'[q] = loc[q]
    BY <1>0, <2>1
  <2>4. \A q \in Procs : Children(q)' = IF q = p THEN Children(q) \ {k} ELSE Children(q)
    BY <1>0, <1>3, <2>3 DEF Children
  <2>5. ASSUME NEW q \in Procs, q # p, AllAlive(q)
        PROVE  AllAlive(q)'
    <3>1. \A j \in Children(q) : j \in Procs /\ j # k
      BY <1>3, <2>5 DEF Children
    <3>2. QED
      BY <2>3, <2>4, <2>5, <3>1 DEF AllAlive
  <2>6. HolderMove(c, p)
    BY <1>1, <2>3, <2>5 DEF HolderMove
  <2>7. SleeperOK(p)' /\ WaiterOK(p)' /\ \A d \in CPUs : ExiterOK(d, p)'
    BY <1>2, <2>2, <2>3 DEF SleeperOK, WaiterOK, ExiterOK
  <2>8. \A q \in Procs : At(q)' = "forkparent" <=> At(q) = "forkparent"
    BY <1>1, <1>2, <2>3 DEF At
  <2>9. At(p) # "forkparent"
    BY <1>1, <1>2 DEF At
  <2>10. Newborns' = Newborns
    BY <2>3, <2>8, <2>9 DEF Newborns
  <2>11. ASSUME NEW q \in Procs
         PROVE  /\ At(q)' = "forkparent" => parent'[loc'[q].np] = Null
                /\ pc'[q] = "zombie" => Children(q)' = {}
    <3>1. At(q) = "forkparent" => loc[q].np \in Procs /\ parent[loc[q].np] = Null
      BY DEF ParentInv, KernelInv, ForkOwnsChild, Forking
    <3>2. pc[q] = "zombie" => Children(q) = {}
      BY DEF ParentInv
    <3>3. QED
      BY <2>3, <2>4, <2>8, <2>9, <3>1, <3>2
  <2>12. NoOrphans'
    <3>1. SUFFICES ASSUME NEW x \in Procs, x # initproc
                   PROVE  /\ state'[x] # "UNUSED" /\ x \notin Newborns => parent'[x] # Null
                          /\ parent'[x] # Null =>
                               state'[x] # "UNUSED" /\ state'[parent'[x]] \notin Absent
      BY <2>10 DEF NoOrphans, Absent, initproc
    <3>2. /\ state[x] # "UNUSED" /\ x \notin Newborns => parent[x] # Null
          /\ parent[x] # Null => state[x] # "UNUSED" /\ state[parent[x]] \notin Absent
      BY <3>1 DEF ParentInv, NoOrphans, Absent
    <3>3. parent[x] # Null => parent[x] \in Procs /\ parent[x] # k
      BY <1>0, <1>6, <3>2 DEF Absent
    <3>4. QED
      BY <2>3, <3>2, <3>3
  <2>13. ParentInv'
    BY <1>0, <2>2, <2>3, <2>11, <2>12 DEF ParentInv, Absent, initproc
  <2>14. QED
    BY <1>1, <1>4, <2>6, <2>7, <2>13, HolderMoves
<1>7. QED
  BY <1>5, <1>6

\* reparent() hands a child, dead or alive, to init and wakes init; then exit wakes the
\* parent.
LEMMA reparentOK ==
  ASSUME KernelInv, ParentInv, WakeInv, NEW c \in CPUs, NEW p \in Procs, reparent(c, p)
  PROVE  ParentInv' /\ WakeInv'
<1>0. /\ pc \in [Procs -> Labels]
      /\ wk \in [CPUs -> [idx : Procs \cup {0}, chan : Procs \cup {Null, TicksChan}]]
      /\ parent \in [Procs -> Procs \cup {Null}]
      /\ initproc \in Procs /\ Null \notin Procs
      /\ \A q \in Procs : q \in Nat /\ 1 <= q
  BY Numbers DEF KernelInv, KernelTypes
<1>1. /\ OnCPU(c, p) /\ pc[p] = "reparent"
      /\ UNCHANGED <<state, chan, ipc, loc, ticks, spc, sproc>>
  BY DEF reparent, procVars, threadVars, Goto
<1>2. /\ state[p] = "RUNNING" /\ ThreadOK(p, pc[p], ipc[p], loc[p]) /\ ipc[p] = "none"
      /\ p # initproc /\ sproc[c] = p /\ \A d \in CPUs : d # c => sproc[d] # p
  BY <1>1, RunningThread DEF ThreadOK
<1>3. HoldsWait(pc[p], loc[p])
  BY <1>1 DEF HoldsWait
<1>4. CASE Children(p) # {}
  <2>1. PICK k \in Procs : k = Least(Children(p)) /\ parent[k] = p
    <3>1. Children(p) \in SUBSET Nat
      BY Numbers DEF Children
    <3>2. \E j \in Children(p) : \A i \in Children(p) : j <= i
      BY <1>4, <3>1, LeastNat
    <3>3. Least(Children(p)) \in Children(p)
      BY <3>2 DEF Least
    <3>4. QED
      BY <3>3 DEF Children
  <2>2. /\ parent' = [parent EXCEPT ![k] = initproc] /\ pc' = pc
        /\ wk' = [wk EXCEPT ![c] = [idx |-> 1, chan |-> initproc]]
    BY <1>4, <2>1 DEF reparent, callWakeup, threadVars
  <2>3. /\ parent'[k] = initproc /\ \A q \in Procs : q # k => parent'[q] = parent[q]
        /\ wk'[c] = [idx |-> 1, chan |-> initproc] /\ \A d \in CPUs : d # c => wk'[d] = wk[d]
    BY <1>0, <2>2
  <2>4. \A q \in Procs : q # initproc => Children(q)' = Children(q) \ {k}
    BY <2>3 DEF Children
  <2>5. ASSUME NEW q \in Procs, q # p, AllAlive(q)
        PROVE  AllAlive(q)' \/ WakeupPending(q, q)'
    <3>1. CASE q = initproc
      <4>1. 1 \in 1..q
        BY <1>0
      <4>2. QED
        BY <2>3, <3>1, <4>1 DEF WakeupPending
    <3>2. CASE q # initproc
      <4>1. k \notin Children(q)
        BY <2>1, <2>5 DEF Children
      <4>2. Children(q)' = Children(q)
        BY <2>4, <3>2, <4>1
      <4>3. QED
        BY <1>1, <2>5, <4>2 DEF AllAlive
    <3>3. QED
      BY <3>1, <3>2
  <2>6. HolderMove(c, p)
    BY <1>1, <2>2, <2>3, <2>5 DEF HolderMove
  <2>7. SleeperOK(p)' /\ WaiterOK(p)' /\ \A d \in CPUs : ExiterOK(d, p)'
    BY <1>1, <1>2, <2>2 DEF SleeperOK, WaiterOK, ExiterOK
  <2>8. k # initproc
    BY <1>0, <2>1 DEF ParentInv
  <2>9. \A q \in Procs : At(q)' = At(q)
    BY <1>1, <2>2 DEF At
  <2>10. Newborns' = Newborns
    BY <1>1, <2>9 DEF Newborns
  <2>11. ASSUME NEW q \in Procs
         PROVE  /\ At(q)' = "forkparent" => parent'[loc'[q].np] = Null
                /\ pc'[q] = "zombie" => Children(q)' = {}
    <3>1. At(q) = "forkparent" => loc[q].np \in Procs /\ parent[loc[q].np] = Null
      BY DEF ParentInv, KernelInv, ForkOwnsChild, Forking
    <3>2. pc[q] = "zombie" => Children(q) = {} /\ q # initproc
      BY DEF ParentInv, KernelInv, Threads, ThreadOK
    <3>3. QED
      BY <1>0, <1>1, <2>1, <2>2, <2>3, <2>4, <2>9, <3>1, <3>2
  <2>12. NoOrphans'
    <3>1. SUFFICES ASSUME NEW x \in Procs, x # initproc
                   PROVE  /\ state[x] # "UNUSED" /\ x \notin Newborns => parent'[x] # Null
                          /\ parent'[x] # Null =>
                               state[x] # "UNUSED" /\ state[parent'[x]] \notin Absent
      BY <1>1, <2>10 DEF NoOrphans, Absent, initproc
    <3>2. /\ state[x] # "UNUSED" /\ x \notin Newborns => parent[x] # Null
          /\ parent[x] # Null => state[x] # "UNUSED" /\ state[parent[x]] \notin Absent
      BY <3>1 DEF ParentInv, NoOrphans, Absent
    <3>3. state[initproc] \notin Absent /\ p # Null /\ initproc # Null
      BY <1>0 DEF ParentInv
    <3>4. CASE x = k
      BY <2>1, <2>3, <3>2, <3>3, <3>4
    <3>5. CASE x # k
      BY <2>3, <3>2, <3>5
    <3>6. QED
      BY <3>4, <3>5
  <2>13. ParentInv'
    BY <1>0, <1>1, <2>3, <2>8, <2>11, <2>12 DEF ParentInv, Absent, initproc
  <2>14. QED
    BY <1>1, <1>3, <2>6, <2>7, <2>13, HolderMoves
<1>5. CASE Children(p) = {}
  <2>1. /\ parent' = parent /\ pc' = [pc EXCEPT ![p] = "zombie"]
        /\ wk' = [wk EXCEPT ![c] = [idx |-> 1, chan |-> parent[p]]]
    BY <1>5 DEF reparent, callWakeup, Goto
  <2>2. /\ pc'[p] = "zombie" /\ \A q \in Procs : q # p => pc'[q] = pc[q]
        /\ wk'[c] = [idx |-> 1, chan |-> parent[p]] /\ \A d \in CPUs : d # c => wk'[d] = wk[d]
    BY <1>0, <2>1
  <2>3. \A q \in Procs : AllAlive(q)' = AllAlive(q)
    BY <1>1, <2>1 DEF AllAlive, Children
  <2>4. FamilyStays
    BY <1>1, <1>2, <1>5, <2>1, <2>2 DEF FamilyStays, Absent, At
  <2>5. HolderMove(c, p)
    BY <1>1, <2>2, <2>3 DEF HolderMove
  <2>6. SleeperOK(p)' /\ WaiterOK(p)'
    BY <1>1, <1>2, <2>2 DEF SleeperOK, WaiterOK
  <2>7. ASSUME NEW d \in CPUs
        PROVE  ExiterOK(d, p)'
    <3>1. \A q \in Procs : 1 \in 1..q
      BY <1>0
    <3>2. CASE d = c
      BY <1>1, <2>1, <2>2, <3>1, <3>2 DEF ExiterOK
    <3>3. CASE d # c
      BY <1>1, <1>2, <3>3 DEF ExiterOK, Runs
    <3>4. QED
      BY <3>2, <3>3
  <2>8. QED
    BY <1>1, <1>3, <2>4, <2>5, <2>6, <2>7, FamiliesStay, HolderMoves
<1>6. QED
  BY <1>4, <1>5

\* exit() ends: the zombie has no children left, and its parent is awake or about to be
\* woken by a call that has not got to it.
LEMMA zombieOK ==
  ASSUME KernelInv, ParentInv, WakeInv, NEW c \in CPUs, NEW p \in Procs, zombie(c, p)
  PROVE  ParentInv' /\ WakeInv'
<1>0. /\ pc \in [Procs -> Labels] /\ state \in [Procs -> States]
      /\ parent \in [Procs -> Procs \cup {Null}]
      /\ initproc \in Procs /\ Null \notin Procs
  BY Numbers DEF KernelInv, KernelTypes
<1>1. /\ OnCPU(c, p) /\ pc[p] = "zombie"
      /\ state' = [state EXCEPT ![p] = "ZOMBIE"] /\ pc' = [pc EXCEPT ![p] = "dead"]
      /\ UNCHANGED <<chan, parent, ipc, loc, ticks, wk, sproc>>
  BY DEF zombie, sched, idVars
<1>2. /\ state[p] = "RUNNING" /\ ThreadOK(p, pc[p], ipc[p], loc[p]) /\ ipc[p] = "none"
      /\ p # initproc /\ Runs(c, p) /\ wk[c] = NoWake
  BY <1>1, RunningThread DEF ThreadOK, Runs
<1>3. HoldsWait(pc[p], loc[p]) /\ Children(p) = {}
  BY <1>1 DEF HoldsWait, ParentInv
<1>4. /\ state'[p] = "ZOMBIE" /\ pc'[p] = "dead"
      /\ \A q \in Procs : q # p => state'[q] = state[q] /\ pc'[q] = pc[q]
      /\ \A q \in Procs : Children(q)' = Children(q)
  BY <1>0, <1>1 DEF Children
<1>5. ASSUME NEW q \in Procs, q # p, state[q] = "SLEEPING", chan[q] = q, AllAlive(q)
      PROVE  AllAlive(q)'
  <2>1. parent[p] # q
    <3>1. SUFFICES ASSUME parent[p] = q
                   PROVE  FALSE
      OBVIOUS
    <3>2. ExiterOK(c, p)
      BY DEF WakeInv
    <3>3. wk[c].chan = q
      BY <1>1, <1>2, <1>5, <3>1, <3>2 DEF ExiterOK
    <3>4. QED
      BY <1>0, <1>2, <3>3 DEF NoWake
  <2>2. \A j \in Children(q) : j \in Procs /\ j # p
    BY <2>1 DEF Children
  <2>3. QED
    BY <1>4, <1>5, <2>2 DEF AllAlive
<1>6. HolderMove(c, p)
  BY <1>1, <1>4, <1>5 DEF HolderMove
<1>7. SleeperOK(p)' /\ WaiterOK(p)' /\ \A d \in CPUs : ExiterOK(d, p)'
  BY <1>4 DEF SleeperOK, WaiterOK, ExiterOK
<1>8. \A q \in Procs : At(q)' = "forkparent" <=> At(q) = "forkparent"
  BY <1>1, <1>2, <1>4 DEF At
<1>9. Newborns' = Newborns
  BY <1>1, <1>8 DEF Newborns
<1>10. \A q \in Procs : /\ At(q)' = "forkparent" => parent'[loc'[q].np] = Null
                        /\ pc'[q] = "zombie" => Children(q)' = {}
  BY <1>1, <1>4, <1>8 DEF ParentInv
<1>11. NoOrphans'
  <2>1. SUFFICES ASSUME NEW x \in Procs, x # initproc
                 PROVE  /\ state'[x] # "UNUSED" /\ x \notin Newborns => parent[x] # Null
                        /\ parent[x] # Null =>
                             state'[x] # "UNUSED" /\ state'[parent[x]] \notin Absent
    BY <1>1, <1>9 DEF NoOrphans, Absent, initproc
  <2>2. /\ state[x] # "UNUSED" /\ x \notin Newborns => parent[x] # Null
        /\ parent[x] # Null => state[x] # "UNUSED" /\ state[parent[x]] \notin Absent
    BY <2>1 DEF ParentInv, NoOrphans, Absent
  <2>3. parent[x] # p /\ (parent[x] # Null => parent[x] \in Procs)
    BY <1>0, <1>3 DEF Children
  <2>4. QED
    BY <1>2, <1>4, <2>2, <2>3
<1>12. ParentInv'
  BY <1>0, <1>1, <1>2, <1>4, <1>10, <1>11 DEF ParentInv, Absent, initproc
<1>13. QED
  BY <1>1, <1>3, <1>6, <1>7, <1>12, HolderMoves

-----------------------------------------------------------------------------
(* fork.                                                                   *)

\* A slot that is free is not init's, has no parent and is nobody's parent.
LEMMA FreeSlot ==
  ASSUME KernelInv, ParentInv, NEW k \in Procs, state[k] = "UNUSED"
  PROVE  /\ k # initproc /\ parent[k] = Null
         /\ \A q \in Procs : parent[q] # k
         /\ pc[k] \in {"forkret", "dead"} /\ ipc[k] = "none"
<1>1. k # initproc /\ parent[initproc] = Null /\ Null \notin Procs
  BY Numbers DEF ParentInv, Absent
<1>2. parent[k] = Null
  BY <1>1 DEF ParentInv, NoOrphans
<1>3. ASSUME NEW q \in Procs
      PROVE  parent[q] # k
  BY <1>1 DEF ParentInv, NoOrphans
<1>4. pc[k] \in {"forkret", "dead"} /\ ipc[k] = "none"
  BY DEF KernelInv, Threads, LabelsOf, ThreadOK
<1>5. QED
  BY <1>1, <1>2, <1>3, <1>4

\* fork fails: the slot that it gives back had no parent.
LEMMA forkFailOK ==
  ASSUME KernelInv, ParentInv, NEW c \in CPUs, NEW p \in Procs, forkFail(c, p)
  PROVE  AllOrdinary /\ UNCHANGED <<ticks, wk>>
<1>0. /\ pc \in [Procs -> Labels] /\ state \in [Procs -> States]
      /\ loc \in [Procs -> LocalsType] /\ chan \in [Procs -> Procs \cup {Null, TicksChan}]
      /\ parent \in [Procs -> Procs \cup {Null}]
  BY DEF KernelInv, KernelTypes
<1>1. OnCPU(c, p) /\ pc[p] = "alloc" /\ UNCHANGED <<ticks, wk, spc, sproc, ipc>>
  BY DEF forkFail, cpuVars, SyscallReturn, GotoWith
<1>2. /\ state[p] = "RUNNING" /\ ThreadOK(p, pc[p], ipc[p], loc[p])
  BY <1>1, RunningThread
<1>3. loc[p].idx \in Procs /\ ipc[p] = "none"
  BY <1>1, <1>2 DEF ThreadOK
<1> PICK k \in Procs : k = loc[p].idx
  BY <1>3
<1>4. state[k] = "UNUSED"
  BY DEF forkFail
<1>5. parent[k] = Null /\ k # p
  BY <1>2, <1>4, FreeSlot
<1>6. /\ state' = [state EXCEPT ![k] = "UNUSED"] /\ parent' = [parent EXCEPT ![k] = Null]
      /\ chan' = [chan EXCEPT ![k] = Null]
      /\ pc' = [pc EXCEPT ![p] = "trapout"] /\ loc' = [loc EXCEPT ![p] = NoLocals]
  BY DEF forkFail, freeproc, SyscallReturn, GotoWith
<1>7. /\ state' = state /\ parent' = parent
      /\ \A q \in Procs : q # p => pc'[q] = pc[q] /\ loc'[q] = loc[q]
      /\ \A q \in Procs : q # k => chan'[q] = chan[q]
      /\ pc'[p] = "trapout"
  BY <1>0, <1>4, <1>5, <1>6
<1>8. ASSUME NEW q \in Procs
      PROVE  Ordinary(q)
  BY <1>1, <1>2, <1>3, <1>4, <1>7 DEF Ordinary, At
<1>9. QED
  BY <1>1, <1>7, <1>8 DEF AllOrdinary

\* fork takes a slot: the new process has no parent for now, and is a newborn.
LEMMA forkAllocOK ==
  ASSUME KernelInv, ParentInv, WakeInv, NEW c \in CPUs, NEW p \in Procs, forkAlloc(c, p)
  PROVE  ParentInv' /\ WakeInv'
<1>0. /\ pc \in [Procs -> Labels] /\ ipc \in [Procs -> Labels \cup {"none"}]
      /\ state \in [Procs -> States] /\ loc \in [Procs -> LocalsType]
      /\ parent \in [Procs -> Procs \cup {Null}]
      /\ initproc \in Procs /\ Null \notin Procs
  BY Numbers DEF KernelInv, KernelTypes
<1>1. OnCPU(c, p) /\ pc[p] = "alloc" /\ UNCHANGED <<ticks, wk, spc, sproc, chan, parent>>
  BY DEF forkAlloc, cpuVars
<1>2. /\ state[p] = "RUNNING" /\ ThreadOK(p, pc[p], ipc[p], loc[p])
  BY <1>1, RunningThread
<1>3. loc[p].idx \in Procs /\ ipc[p] = "none"
  BY <1>1, <1>2 DEF ThreadOK
<1> PICK k \in Procs : k = loc[p].idx
  BY <1>3
<1>4. state[k] = "UNUSED"
  BY DEF forkAlloc
<1>5. /\ k # initproc /\ parent[k] = Null /\ k # p
      /\ \A q \in Procs : parent[q] # k
      /\ pc[k] \in {"forkret", "dead"} /\ ipc[k] = "none"
  BY <1>2, <1>4, FreeSlot
<1>6. /\ state' = [state EXCEPT ![k] = "USED"]
      /\ pc' = [pc EXCEPT ![p] = "forkparent", ![k] = "forkret"]
      /\ loc' = [loc EXCEPT ![p] = [NoLocals EXCEPT !.np = k], ![k] = NoLocals]
      /\ ipc' = [ipc EXCEPT ![k] = "none"]
  BY DEF forkAlloc, allocFields
<1>7. /\ state'[k] = "USED" /\ pc'[k] = "forkret" /\ pc'[p] = "forkparent" /\ loc'[p].np = k
      /\ ipc' = ipc
      /\ \A q \in Procs : q # k => state'[q] = state[q]
      /\ \A q \in Procs \ {p, k} : pc'[q] = pc[q] /\ loc'[q] = loc[q]
  BY <1>0, <1>5, <1>6 DEF NoLocals
<1>8. AllUnnoticed
  <2>1. ASSUME NEW q \in Procs
        PROVE  Unnoticed(q)
    BY <1>1, <1>2, <1>4, <1>7 DEF Unnoticed
  <2>2. QED
    BY <2>1 DEF AllUnnoticed
<1>9. WakeInv'
  BY <1>1, <1>8, UnnoticedSleepers
<1>10. /\ At(p) # "forkparent" /\ At(k) # "forkparent"
       /\ At(p)' = "forkparent" /\ At(k)' # "forkparent"
       /\ \A q \in Procs \ {p, k} : At(q)' = At(q)
  BY <1>1, <1>3, <1>5, <1>7 DEF At
<1>11. Newborns \subseteq Newborns' /\ k \in Newborns'
  BY <1>7, <1>10 DEF Newborns
<1>12. NoOrphans'
  <2>1. SUFFICES ASSUME NEW x \in Procs, x # initproc
                 PROVE  /\ state'[x] # "UNUSED" /\ x \notin Newborns' => parent[x] # Null
                        /\ parent[x] # Null =>
                             state'[x] # "UNUSED" /\ state'[parent[x]] \notin Absent
    BY <1>1 DEF NoOrphans, Absent, initproc
  <2>2. /\ state[x] # "UNUSED" /\ x \notin Newborns => parent[x] # Null
        /\ parent[x] # Null => state[x] # "UNUSED" /\ state[parent[x]] \notin Absent
    BY <2>1 DEF ParentInv, NoOrphans, Absent
  <2>3. parent[x] # k /\ (parent[x] # Null => parent[x] \in Procs)
    BY <1>0, <1>5
  <2>4. QED
    BY <1>5, <1>7, <1>11, <2>2, <2>3
<1>13. ASSUME NEW q \in Procs
       PROVE  /\ At(q)' = "forkparent" => parent'[loc'[q].np] = Null
              /\ pc'[q] = "zombie" => Children(q)' = {}
  <2>1. /\ At(q) = "forkparent" => parent[loc[q].np] = Null
        /\ pc[q] = "zombie" => Children(q) = {}
        /\ Children(q)' = Children(q)
    BY <1>1 DEF ParentInv, Children
  <2>2. QED
    BY <1>1, <1>5, <1>7, <1>10, <2>1
<1>14. ParentInv'
  BY <1>0, <1>1, <1>5, <1>7, <1>12, <1>13 DEF ParentInv, Absent, initproc
<1>15. QED
  BY <1>9, <1>14

\* fork makes p the parent of its child, which is alive and no longer a newborn.
LEMMA forkParentOK ==
  ASSUME KernelInv, ParentInv, WakeInv, NEW c \in CPUs, NEW p \in Procs, forkParent(c, p)
  PROVE  ParentInv' /\ WakeInv'
<1>0. /\ pc \in [Procs -> Labels] /\ parent \in [Procs -> Procs \cup {Null}]
      /\ initproc \in Procs /\ Null \notin Procs
  BY Numbers DEF KernelInv, KernelTypes
<1>1. /\ OnCPU(c, p) /\ pc[p] = "forkparent" /\ pc[p] \in Forking
      /\ UNCHANGED <<state, ticks, wk, spc, sproc, chan, ipc, loc>>
  BY DEF forkParent, cpuVars, procVars, Goto, Forking
<1>2. state[p] = "RUNNING"
  BY <1>1, RunningThread
<1>3. /\ ipc[p] = "none" /\ At(p) = "forkparent"
      /\ loc[p].np \in Procs /\ state[loc[p].np] = "USED" /\ loc[p].np # p
      /\ \A q \in Procs : At(q) = "forkparent" /\ loc[q].np = loc[p].np => q = p
  BY <1>1, ForkChild DEF Forking
<1> PICK k \in Procs : k = loc[p].np
  BY <1>3
<1>4. parent' = [parent EXCEPT ![k] = p] /\ pc' = [pc EXCEPT ![p] = "forkrun"]
  BY DEF forkParent, Goto
<1>5. /\ parent'[k] = p /\ pc'[p] = "forkrun"
      /\ \A q \in Procs : q # k => parent'[q] = parent[q]
      /\ \A q \in Procs : q # p => pc'[q] = pc[q]
  BY <1>0, <1>4
<1>6. parent[k] = Null /\ pc[k] = "forkret" /\ k # initproc
  <2>1. parent[k] = Null /\ k # initproc
    BY <1>3 DEF ParentInv, Absent
  <2>2. pc[k] = "forkret"
    BY <1>3 DEF KernelInv, Threads, LabelsOf
  <2>3. QED
    BY <2>1, <2>2
<1>7. AllUnnoticed
  <2>1. ASSUME NEW q \in Procs
        PROVE  Unnoticed(q)
    BY <1>1, <1>3, <1>5, <1>6 DEF Unnoticed
  <2>2. QED
    BY <2>1 DEF AllUnnoticed
<1>8. WakeInv'
  BY <1>1, <1>7, UnnoticedSleepers
<1>9. At(p)' # "forkparent" /\ \A q \in Procs : q # p => At(q)' = At(q)
  BY <1>1, <1>3, <1>5 DEF At
<1>10. Newborns \subseteq Newborns' \cup {k}
  BY <1>1, <1>9 DEF Newborns
<1>11. NoOrphans'
  <2>1. SUFFICES ASSUME NEW x \in Procs, x # initproc
                 PROVE  /\ state[x] # "UNUSED" /\ x \notin Newborns' => parent'[x] # Null
                        /\ parent'[x] # Null =>
                             state[x] # "UNUSED" /\ state[parent'[x]] \notin Absent
    BY <1>1 DEF NoOrphans, Absent, initproc
  <2>2. /\ state[x] # "UNUSED" /\ x \notin Newborns => parent[x] # Null
        /\ parent[x] # Null => state[x] # "UNUSED" /\ state[parent[x]] \notin Absent
    BY <2>1 DEF ParentInv, NoOrphans, Absent
  <2>3. CASE x = k
    BY <1>0, <1>2, <1>3, <1>5, <2>3 DEF Absent
  <2>4. CASE x # k
    BY <1>5, <1>10, <2>2, <2>4
  <2>5. QED
    BY <2>3, <2>4
<1>12. ASSUME NEW q \in Procs
       PROVE  /\ At(q)' = "forkparent" => parent'[loc'[q].np] = Null
              /\ pc'[q] = "zombie" => Children(q)' = {}
  <2>1. At(q) = "forkparent" => loc[q].np \in Procs /\ parent[loc[q].np] = Null
    BY DEF ParentInv, KernelInv, ForkOwnsChild, Forking
  <2>2. pc[q] = "zombie" => Children(q) = {}
    BY DEF ParentInv
  <2>3. q # p => Children(q)' \subseteq Children(q)
    BY <1>5 DEF Children
  <2>4. QED
    BY <1>1, <1>3, <1>5, <1>9, <2>1, <2>2, <2>3
<1>13. ParentInv'
  BY <1>0, <1>1, <1>5, <1>6, <1>11, <1>12 DEF ParentInv, Absent, initproc
<1>14. QED
  BY <1>8, <1>13

-----------------------------------------------------------------------------
(* Every step.                                                             *)

\* Initially there is only init, which is not asleep.
LEMMA FamilyInit ==
  ASSUME Init
  PROVE  ParentInv /\ WakeInv
<1>1. /\ state = [p \in Procs |-> IF p = initproc THEN "RUNNABLE" ELSE "UNUSED"]
      /\ parent = [p \in Procs |-> Null] /\ pc = [p \in Procs |-> "forkret"]
      /\ ipc = [p \in Procs |-> "none"]
  BY DEF Init, procinit, userinit
<1>2. initproc \in Procs
  BY Numbers
<1>3. ParentInv
  BY <1>1, <1>2 DEF ParentInv, NoOrphans, Absent, At
<1>4. WakeInv
  BY <1>1 DEF WakeInv, SleeperOK, WaiterOK, ExiterOK
<1>5. QED
  BY <1>3, <1>4

\* The steps of kernel threads.
LEMMA FamilyThreads ==
  ASSUME KernelInv, ParentInv, WakeInv, NEW c \in CPUs, NEW p \in Procs,
         ThreadStep(c, p) \/ YieldStep(c, p) \/ UserTrap(c, p)
  PROVE  ParentInv' /\ WakeInv'
<1>1. CASE \/ slept(c, p) \/ relock(c, p) \/ sys_sleep(c, p) \/ sleepcheck(c, p) \/ kill(c, p)
           \/ allocproc(c, p) \/ forkRunnable(c, p) \/ forkInsert(c, p) \/ forkret(c, p)
           \/ wait(c, p) \/ exit(c, p) \/ trapout(c, p) \/ charge(c, p) \/ incr(c, p)
           \/ yield(c, p) \/ syscall(c, p) \/ userDevice(c, p) \/ userFault(c, p)
  <2>1. AllOrdinary /\ UNCHANGED <<ticks, wk>>
    BY <1>1, CallsOrdinary
  <2>2. QED
    BY <2>1, OrdinaryFamilies, OrdinarySleepers
<1>2. CASE preempt(c, p) \/ yielded(c, p)
  <2>1. AllOrdinary /\ UNCHANGED <<ticks, wk>>
    BY <1>2, YieldsOrdinary
  <2>2. QED
    BY <2>1, OrdinaryFamilies, OrdinarySleepers
<1>3. CASE forkFail(c, p)
  <2>1. AllOrdinary /\ UNCHANGED <<ticks, wk>>
    BY <1>3, forkFailOK
  <2>2. QED
    BY <2>1, OrdinaryFamilies, OrdinarySleepers
<1>4. CASE sleep(c, p) \/ waitSleep(c, p) \/ waitChild(c, p) \/ reparent(c, p) \/ zombie(c, p)
           \/ forkAlloc(c, p) \/ forkParent(c, p)
  BY <1>4, sleepOK, waitSleepOK, waitChildOK, reparentOK, zombieOK, forkAllocOK, forkParentOK
<1>5. QED
  BY <1>1, <1>2, <1>3, <1>4
     DEF ThreadStep, SleepStep, LifecycleStep, TrapStep, YieldStep, UserTrap

\* Any step.
LEMMA FamilyNext ==
  ASSUME KernelInv, ParentInv, WakeInv, [Next]_vars
  PROVE  ParentInv' /\ WakeInv'
<1>1. ASSUME NEW c \in CPUs, SchedulerStep(c)
      PROVE  ParentInv' /\ WakeInv'
  <2>1. AllOrdinary /\ UNCHANGED <<ticks, wk>>
    BY <1>1, SchedulerOrdinary
  <2>2. QED
    BY <2>1, OrdinaryFamilies, OrdinarySleepers
<1>2. ASSUME NEW c \in CPUs, wakeup(c) \/ Timer(c)
      PROVE  ParentInv' /\ WakeInv'
  <2>1. AllOrdinary /\ WakeInv'
    BY <1>2, wakeupOK, TimersOK
  <2>2. QED
    BY <2>1, OrdinaryFamilies
<1>3. CASE Stay \/ UNCHANGED vars
  <2>1. UNCHANGED <<state, chan, parent, ticks, wk, spc, sproc, pc, ipc, loc>>
    BY <1>3 DEF Stay, vars, procVars, idVars, cpuVars, threadVars
  <2>2. AllOrdinary
    BY <2>1 DEF AllOrdinary, Ordinary, At
  <2>3. QED
    BY <2>1, <2>2, OrdinaryFamilies, OrdinarySleepers
<1>4. QED
  BY <1>1, <1>2, <1>3, FamilyThreads DEF Next, KernelStep

-----------------------------------------------------------------------------
(* The time that sys_sleep takes.                                          *)

\* q has read ticks0.
Clocked(q) == InSysSleep(q) /\ At(q) # "sys_sleep"

\* What a step does to q in sys_sleep: ticks0 stays, or is read now; and the loop ends
\* if the process is killed or need not wait any longer.
SleepFrame(q) ==
  /\ Clocked(q)' => \/ Clocked(q) /\ loc'[q].t0 = loc[q].t0
                    \/ At(q) = "sys_sleep" /\ loc'[q].t0 = ticks /\ ticks' = ticks
  /\ pc[q] = "sleepcheck" /\ pc'[q] # "sleepcheck" =>
       (pc'[q] = "trapout" <=> killed[q] \/ ~stillWaiting(q))
AllFramed == \A q \in Procs : SleepFrame(q)

\* The labels outside the loop of sys_sleep.
Away == Labels \ {"sleepcheck", "sleep", "slept", "relock"}

\* Nobody but p moves, and p goes to label l.
MovesTo(p, l) ==
  /\ pc' = [pc EXCEPT ![p] = l] /\ ipc' = ipc
  /\ \A q \in Procs : q # p => loc'[q] = loc[q]

\* Threads that do not move.
LEMMA StaysFramed ==
  ASSUME NEW q \in Procs, pc'[q] = pc[q], ipc'[q] = ipc[q],
         loc'[q].t0 = loc[q].t0, loc'[q].lk = loc[q].lk
  PROVE  SleepFrame(q)
  BY DEF SleepFrame, Clocked, InSysSleep, At

\* A thread that goes about something else.
LEMMA AwayFramed ==
  ASSUME KernelInv, NEW p \in Procs, NEW l \in Away, MovesTo(p, l), ipc[p] = "none",
         pc[p] # "sleepcheck"
  PROVE  AllFramed
<1>0. pc \in [Procs -> Labels] /\ ipc \in [Procs -> Labels \cup {"none"}]
  BY DEF KernelInv, KernelTypes
<1>1. pc'[p] = l /\ ipc'[p] = "none" /\ \A q \in Procs : q # p => pc'[q] = pc[q]
  BY <1>0 DEF MovesTo
<1>2. SleepFrame(p)
  BY <1>1 DEF SleepFrame, Clocked, InSysSleep, At, Away
<1>3. ASSUME NEW q \in Procs, q # p
      PROVE  SleepFrame(q)
  BY <1>1, <1>3, StaysFramed DEF MovesTo
<1>4. QED
  BY <1>2, <1>3 DEF AllFramed

\* The system calls and traps that are not sys_sleep.
LEMMA CallsFramed ==
  ASSUME KernelInv, NEW c \in CPUs, NEW p \in Procs,
         \/ kill(c, p) \/ allocproc(c, p) \/ forkFail(c, p) \/ forkParent(c, p)
         \/ forkRunnable(c, p) \/ forkInsert(c, p) \/ forkret(c, p) \/ exit(c, p)
         \/ reparent(c, p) \/ zombie(c, p) \/ wait(c, p) \/ waitChild(c, p)
         \/ trapout(c, p) \/ charge(c, p) \/ incr(c, p)
         \/ syscall(c, p) \/ userDevice(c, p) \/ userFault(c, p) \/ userTimer(c, p)
  PROVE  AllFramed
<1>0. /\ pc \in [Procs -> Labels] /\ loc \in [Procs -> LocalsType]
      /\ \A x : \A q \in Procs : q # p => [loc EXCEPT ![p] = x][q] = loc[q]
  BY DEF KernelInv, KernelTypes
<1>1. /\ OnCPU(c, p)
      /\ pc[p] \in {"kill", "alloc", "forkparent", "forkrun", "forkinsert", "forkret", "exit", "reparent",
                    "zombie", "wait", "waitscan", "trapout", "charge", "incr", "user"}
  BY DEF kill, allocproc, forkFail, forkParent, forkRunnable, forkInsert, forkret, exit, reparent, zombie,
     wait, waitChild, trapout, charge, incr, syscall, userDevice, userFault, userTimer, FromUser
<1>2. ipc[p] = "none"
  BY <1>1, RunningThread DEF ThreadOK
<1>3. \/ UNCHANGED <<pc, ipc, loc>>
      \/ \E l \in Away : MovesTo(p, l)
  <2> USE <1>0 DEF MovesTo, Away, Labels, Goto, GotoWith, SyscallReturn, EnterTrap
  <2>1. CASE kill(c, p) \/ allocproc(c, p) \/ forkFail(c, p)
    BY <2>1 DEF kill, allocproc, forkFail
  <2>2. CASE forkParent(c, p) \/ forkRunnable(c, p) \/ forkInsert(c, p) \/ forkret(c, p)
    BY <2>2 DEF forkParent, forkRunnable, forkInsert, forkret
  <2>3. CASE exit(c, p)
    BY <2>3 DEF exit, threadVars
  <2>4. CASE reparent(c, p)
    BY <2>4 DEF reparent, threadVars
  <2>5. CASE zombie(c, p)
    BY <2>5 DEF zombie, sched
  <2>6. CASE wait(c, p) \/ waitChild(c, p)
    BY <2>6 DEF wait, waitChild
  <2>7. CASE trapout(c, p) \/ incr(c, p)
    BY <2>7 DEF trapout, incr
  <2>8. CASE charge(c, p)
    BY <2>8 DEF charge
  <2>9. CASE syscall(c, p)
    BY <2>9 DEF syscall, Dispatch
  <2>10. CASE userDevice(c, p) \/ userFault(c, p) \/ userTimer(c, p)
    BY <2>10 DEF userDevice, userFault, userTimer
  <2>11. QED
    BY <2>1, <2>2, <2>3, <2>4, <2>5, <2>6, <2>7, <2>8, <2>9, <2>10
<1>4. CASE UNCHANGED <<pc, ipc, loc>>
  BY <1>4, StaysFramed DEF AllFramed
<1>5. CASE \E l \in Away : MovesTo(p, l)
  BY <1>1, <1>2, <1>5, AwayFramed
<1>6. QED
  BY <1>3, <1>4, <1>5

\* sys_sleep() and sleep().
LEMMA SleepFramed ==
  ASSUME KernelInv, NEW c \in CPUs, NEW p \in Procs,
         \/ sleep(c, p) \/ slept(c, p) \/ relock(c, p) \/ sys_sleep(c, p) \/ sleepcheck(c, p)
         \/ waitSleep(c, p)
  PROVE  AllFramed
<1>0. /\ pc \in [Procs -> Labels] /\ loc \in [Procs -> LocalsType]
      /\ ipc \in [Procs -> Labels \cup {"none"}] /\ loc[p] \in LocalsType
  BY DEF KernelInv, KernelTypes
<1>1. /\ OnCPU(c, p) /\ pc[p] \in {"sleep", "slept", "relock", "sys_sleep", "sleepcheck", "waitscan"}
  BY DEF sleep, slept, relock, sys_sleep, sleepcheck, waitSleep
<1>2. ipc[p] = "none" /\ ipc' = ipc
  BY <1>1, RunningThread
     DEF ThreadOK, sleep, slept, relock, sys_sleep, sleepcheck, waitSleep, Goto, GotoWith, SyscallReturn
<1>3. \A q \in Procs : q # p => pc'[q] = pc[q] /\ loc'[q] = loc[q]
  BY <1>0 DEF sleep, slept, relock, sys_sleep, sleepcheck, waitSleep, Goto, GotoWith, SyscallReturn, sched
<1>4. SleepFrame(p)
  <2> USE DEF SleepFrame, Clocked, InSysSleep, At
  <2>1. CASE sleep(c, p) \/ slept(c, p)
    <3>1. /\ pc[p] \in {"sleep", "slept"} /\ loc' = loc
          /\ pc'[p] \in {"slept", "relock"}
      BY <1>0, <2>1 DEF sleep, slept, Goto, sched
    <3>2. QED
      BY <1>2, <3>1
  <2>2. CASE relock(c, p)
    <3> DEFINE x == [loc[p] EXCEPT !.lk = "none", !.idx = 0]
    <3>1. x.t0 = loc[p].t0
      BY <1>0 DEF LocalsType
    <3>2. loc'[p] = x /\ pc[p] = "relock"
          /\ (pc'[p] = "waitscan" \/ (pc'[p] = "sleepcheck" /\ loc[p].lk = "tickslock"))
      BY <1>0, <2>2 DEF relock, GotoWith
    <3> HIDE DEF x
    <3>3. QED
      BY <1>2, <3>1, <3>2
  <2>3. CASE sys_sleep(c, p)
    <3> DEFINE x == [loc[p] EXCEPT !.t0 = ticks]
    <3>1. x.t0 = ticks
      BY <1>0 DEF LocalsType
    <3>2. loc'[p] = x /\ pc[p] = "sys_sleep" /\ ticks' = ticks
      BY <1>0, <2>3 DEF sys_sleep, GotoWith
    <3> HIDE DEF x
    <3>3. QED
      BY <1>2, <3>1, <3>2
  <2>4. CASE sleepcheck(c, p)
    <3> DEFINE x == [loc[p] EXCEPT !.lk = "tickslock"]
    <3>1. x.t0 = loc[p].t0
      BY <1>0 DEF LocalsType
    <3>2. /\ pc[p] = "sleepcheck"
          /\ \/ loc'[p] = x /\ pc'[p] = "sleep" /\ stillWaiting(p) /\ ~killed[p]
             \/ pc'[p] = "trapout" /\ (killed[p] \/ ~stillWaiting(p))
      BY <1>0, <2>4 DEF sleepcheck, GotoWith, SyscallReturn
    <3> HIDE DEF x
    <3>3. QED
      BY <1>2, <3>1, <3>2
  <2>5. CASE waitSleep(c, p)
    <3> DEFINE x == [loc[p] EXCEPT !.lk = "wait_lock"]
    <3>1. x.lk = "wait_lock"
      BY <1>0 DEF LocalsType
    <3>2. pc[p] = "waitscan" /\ (pc'[p] = "trapout" \/ (pc'[p] = "sleep" /\ loc'[p] = x))
      BY <1>0, <2>5 DEF waitSleep, GotoWith, SyscallReturn
    <3> HIDE DEF x
    <3>3. QED
      BY <1>2, <3>1, <3>2
  <2>6. QED
    BY <2>1, <2>2, <2>3, <2>4, <2>5
<1>5. QED
  BY <1>2, <1>3, <1>4, StaysFramed DEF AllFramed

\* yield(), and the interrupt in the kernel that calls it: the interrupted code stays
\* where it is.
LEMMA YieldsFramed ==
  ASSUME KernelInv, NEW c \in CPUs, NEW p \in Procs,
         YieldStep(c, p) \/ kernelTimer(c, p)
  PROVE  AllFramed
<1>0. /\ pc \in [Procs -> Labels] /\ loc \in [Procs -> LocalsType]
      /\ ipc \in [Procs -> Labels \cup {"none"}] /\ loc[p] \in LocalsType
  BY DEF KernelInv, KernelTypes
<1>1. OnCPU(c, p)
  BY DEF YieldStep, yield, preempt, yielded, kernelTimer
<1>2. ThreadOK(p, pc[p], ipc[p], loc[p])
  BY <1>1, RunningThread
<1>3. \A q \in Procs : q # p => pc'[q] = pc[q] /\ ipc'[q] = ipc[q] /\ loc'[q] = loc[q]
  BY <1>0 DEF YieldStep, yield, preempt, yielded, kernelTimer, GotoWith, yieldReturns, sched
<1>4. loc'[p].t0 = loc[p].t0 /\ loc'[p].lk = loc[p].lk
  <2>1. \/ loc' = loc
        \/ \E m : loc' = [loc EXCEPT ![p] = [loc[p] EXCEPT !.minp = m]]
    BY <1>0 DEF YieldStep, yield, preempt, yielded, kernelTimer, GotoWith
  <2>2. QED
    BY <1>0, <2>1 DEF LocalsType
<1>5. pc[p] # "sleepcheck" /\ (At(p)' = At(p) \/ At(p)' \in {"check", "yielded", "yield", "user"})
  <2>1. CASE yield(c, p)
    BY <1>0, <2>1 DEF yield, GotoWith, At
  <2>2. CASE preempt(c, p)
    BY <1>0, <2>2 DEF preempt, sched, yieldReturns, afterYield, At
  <2>3. CASE yielded(c, p)
    BY <1>0, <2>3 DEF yielded, yieldReturns, afterYield, At
  <2>4. CASE kernelTimer(c, p)
    BY <1>0, <2>4 DEF kernelTimer, Unlocked, At
  <2>5. QED
    BY <2>1, <2>2, <2>3, <2>4 DEF YieldStep
<1>6. SleepFrame(p)
  BY <1>4, <1>5 DEF SleepFrame, Clocked, InSysSleep
<1>7. QED
  BY <1>3, <1>6, StaysFramed DEF AllFramed

\* A new process starts outside sys_sleep.
LEMMA ForkFramed ==
  ASSUME KernelInv, NEW c \in CPUs, NEW p \in Procs, forkAlloc(c, p)
  PROVE  AllFramed
<1>0. /\ pc \in [Procs -> Labels] /\ loc \in [Procs -> LocalsType]
      /\ ipc \in [Procs -> Labels \cup {"none"}]
  BY DEF KernelInv, KernelTypes
<1>1. OnCPU(c, p) /\ pc[p] = "alloc"
  BY DEF forkAlloc
<1>2. ipc[p] = "none" /\ state[p] = "RUNNING"
  BY <1>1, RunningThread DEF ThreadOK
<1>3. PICK k \in Procs : k = loc[p].idx
  BY <1>1, <1>2, RunningThread DEF ThreadOK
<1>4. /\ state[k] = "UNUSED"
      /\ pc' = [pc EXCEPT ![p] = "forkparent", ![k] = "forkret"]
      /\ ipc' = [ipc EXCEPT ![k] = "none"]
      /\ loc' = [loc EXCEPT ![p] = [NoLocals EXCEPT !.np = k], ![k] = NoLocals]
  BY <1>3 DEF forkAlloc
<1>5. k # p
  BY <1>2, <1>4
<1>6. pc[k] # "sleepcheck"
  BY <1>4 DEF KernelInv, Threads, LabelsOf
<1>7. /\ pc'[p] = "forkparent" /\ pc'[k] = "forkret" /\ ipc'[p] = ipc[p] /\ ipc'[k] = "none"
      /\ \A q \in Procs : q # p /\ q # k => pc'[q] = pc[q] /\ ipc'[q] = ipc[q] /\ loc'[q] = loc[q]
  BY <1>0, <1>4, <1>5
<1>8. SleepFrame(p) /\ SleepFrame(k)
  <2>1. At(p)' = "forkparent" /\ At(k)' = "forkret"
    BY <1>2, <1>7 DEF At
  <2>2. ~Clocked(p)' /\ ~Clocked(k)'
    BY <2>1 DEF Clocked, InSysSleep
  <2>3. QED
    BY <1>1, <1>6, <2>2 DEF SleepFrame
<1>9. QED
  BY <1>7, <1>8, StaysFramed DEF AllFramed

\* Any step.
LEMMA NextFramed ==
  ASSUME KernelInv, [Next]_vars
  PROVE  AllFramed /\ (ticks' = ticks \/ ticks' = (ticks + 1) % TickModulus)
<1>1. ASSUME NEW c \in CPUs, NEW p \in Procs, ThreadStep(c, p) \/ YieldStep(c, p) \/ UserTrap(c, p)
      PROVE  AllFramed
  BY <1>1, CallsFramed, SleepFramed, YieldsFramed, ForkFramed
     DEF ThreadStep, SleepStep, LifecycleStep, TrapStep, UserTrap
<1>2. ASSUME NEW c \in CPUs, Timer(c)
      PROVE  AllFramed
  <2>1. CASE schedTimer(c)
    BY <2>1, StaysFramed DEF schedTimer, threadVars, AllFramed
  <2>2. QED
    BY <1>2, <2>1, CallsFramed, YieldsFramed DEF Timer
<1>3. ASSUME NEW c \in CPUs, SchedulerStep(c) \/ wakeup(c)
      PROVE  AllFramed
  <2>1. UNCHANGED <<pc, ipc, loc>>
    BY <1>3 DEF SchedulerStep, pick, lockPicked, switchTo, switchedBack, wakeup, threadVars
  <2>2. QED
    BY <2>1, StaysFramed DEF AllFramed
<1>4. CASE Stay \/ UNCHANGED vars
  BY <1>4, StaysFramed DEF Stay, vars, threadVars, AllFramed
<1>5. AllFramed
  BY <1>1, <1>2, <1>3, <1>4 DEF Next, KernelStep
<1>6. ticks' = ticks \/ ticks' = (ticks + 1) % TickModulus
  <2>1. ASSUME NEW c \in CPUs, Timer(c)
        PROVE  ticks' = ticks \/ ticks' = (ticks + 1) % TickModulus
    BY <2>1 DEF Timer, schedTimer, userTimer, kernelTimer, clockintr
  <2>2. ASSUME NEW c \in CPUs, NEW p \in Procs, SleepStep(c, p) \/ LifecycleStep(c, p)
        PROVE  ticks' = ticks
    BY <2>2 DEF SleepStep, sleep, slept, relock, sys_sleep, sleepcheck, kill, LifecycleStep, allocproc,
       forkAlloc, forkFail, forkParent, forkRunnable, forkInsert, forkret, exit, reparent, zombie, wait,
       waitChild, waitSleep
  <2>3. ASSUME NEW c \in CPUs, NEW p \in Procs,
               TrapStep(c, p) \/ YieldStep(c, p) \/ UserTrap(c, p)
        PROVE  ticks' = ticks
    BY <2>3 DEF TrapStep, trapout, charge, incr, YieldStep, yield, preempt, yielded, UserTrap, syscall,
       userDevice, userFault
  <2>4. ASSUME NEW c \in CPUs, SchedulerStep(c) \/ wakeup(c)
        PROVE  ticks' = ticks
    BY <2>4 DEF SchedulerStep, pick, lockPicked, switchTo, switchedBack, wakeup
  <2>5. CASE Stay \/ UNCHANGED vars
    BY <2>5 DEF Stay, vars
  <2>6. QED
    BY <2>1, <2>2, <2>3, <2>4, <2>5 DEF Next, KernelStep, ThreadStep
<1>7. QED
  BY <1>5, <1>6

\* Within a lap the clock shows the time that has passed since ticks0, or shows it
\* less a lap.
Shows(t, t0, w) == t = t0 + w \/ t = t0 + w - TickModulus
TimeInv ==
  \A q \in Procs : Clocked(q) =>
    /\ waited[q] \in 0..TickModulus
    /\ waited[q] < TickModulus => Shows(ticks, loc[q].t0, waited[q])

\* The next value of the clock.
LEMMA NextTick ==
  ASSUME ticks \in 0..(TickModulus - 1)
  PROVE  /\ (ticks + 1) % TickModulus = (IF ticks + 1 = TickModulus THEN 0 ELSE ticks + 1)
         /\ (ticks + 1) % TickModulus # ticks
<1>1. TickModulus \in Nat /\ TickModulus > 1
  BY TickAssumption
<1>2. \A x \in 0..(TickModulus - 1) : x % TickModulus = x
  BY <1>1
<1>3. TickModulus % TickModulus = 0
  BY <1>1
<1>4. CASE ticks + 1 = TickModulus
  BY <1>1, <1>3, <1>4
<1>5. CASE ticks + 1 # TickModulus
  BY <1>1, <1>2, <1>5
<1>6. QED
  BY <1>4, <1>5

\* The difference that sys_sleep computes is the time that has passed.
LEMMA ClockDifference ==
  ASSUME ticks \in 0..(TickModulus - 1), NEW t0 \in 0..(TickModulus - 1),
         NEW w \in 0..(TickModulus - 1), Shows(ticks, t0, w)
  PROVE  (ticks - t0) % TickModulus = w
<1>1. TickModulus \in Nat \ {0}
  BY TickAssumption
<1>2. \A x \in 0..(TickModulus - 1) : x % TickModulus = x
  BY <1>1
<1>3. \A x \in Int : x < 0 /\ x >= 0 - TickModulus => x % TickModulus = x + TickModulus
  BY <1>1
<1>4. CASE ticks = t0 + w
  <2>1. ticks - t0 = w
    BY <1>1, <1>4
  <2>2. QED
    BY <1>2, <2>1
<1>5. CASE ticks = t0 + w - TickModulus
  <2>1. /\ ticks - t0 \in Int /\ ticks - t0 < 0 /\ ticks - t0 >= 0 - TickModulus
        /\ ticks - t0 + TickModulus = w
    BY <1>1, <1>5
  <2>2. (ticks - t0) % TickModulus = ticks - t0 + TickModulus
    BY <1>3, <2>1
  <2>3. QED
    BY <2>1, <2>2
<1>6. QED
  BY <1>4, <1>5 DEF Shows

\* The clock and the history advance together.
LEMMA TimeStep ==
  ASSUME KernelInv, TimeInv, [HNext]_hvars
  PROVE  TimeInv'
<1>0. /\ ticks \in 0..(TickModulus - 1) /\ TickModulus \in Nat /\ TickModulus > 1
      /\ loc \in [Procs -> LocalsType]
  <2>1. ticks \in 0..(TickModulus - 1) /\ loc \in [Procs -> LocalsType]
    BY DEF KernelInv, KernelTypes
  <2>2. TickModulus \in Nat /\ TickModulus > 1
    BY TickAssumption
  <2>3. QED
    BY <2>1, <2>2
<1>1. CASE UNCHANGED hvars
  <2>1. UNCHANGED <<waited, ticks, pc, ipc, loc>>
    BY <1>1 DEF hvars, history, vars, threadVars
  <2>2. QED
    BY <2>1 DEF TimeInv, Clocked, InSysSleep, At, Shows
<1>2. CASE HNext
  <2>1. AllFramed /\ (ticks' = ticks \/ ticks' = (ticks + 1) % TickModulus)
    BY <1>2, NextFramed DEF HNext
  <2>2. ticks' = ticks \/ (ticks' # ticks /\ ticks' = IF ticks + 1 = TickModulus THEN 0 ELSE ticks + 1)
    BY <1>0, <2>1, NextTick
  <2>3. waited' = [q \in Procs |-> IF At(q) = "sys_sleep" \/ ~InSysSleep(q)' THEN 0
                                  ELSE Elapsed(waited[q])]
    BY <1>2 DEF HNext, Observe
  <2>4. ASSUME NEW q \in Procs, Clocked(q)'
        PROVE  /\ waited'[q] \in 0..TickModulus
               /\ waited'[q] < TickModulus => Shows(ticks', loc'[q].t0, waited'[q])
    <3>1. InSysSleep(q)' /\ SleepFrame(q)
      BY <2>1, <2>4 DEF Clocked, AllFramed
    <3>2. CASE At(q) = "sys_sleep"
      <4>1. waited'[q] = 0
        BY <2>3, <3>2
      <4>2. loc'[q].t0 = ticks /\ ticks' = ticks
        BY <2>4, <3>1, <3>2 DEF SleepFrame, Clocked
      <4>3. QED
        BY <1>0, <4>1, <4>2 DEF Shows
    <3>3. CASE At(q) # "sys_sleep"
      <4>1. Clocked(q) /\ loc'[q].t0 = loc[q].t0
        BY <2>4, <3>1, <3>3 DEF SleepFrame
      <4>2. waited'[q] = Elapsed(waited[q])
        BY <2>3, <3>1, <3>3
      <4>3. /\ waited[q] \in 0..TickModulus /\ loc[q].t0 \in 0..(TickModulus - 1)
            /\ waited[q] < TickModulus => Shows(ticks, loc[q].t0, waited[q])
        BY <1>0, <4>1 DEF TimeInv, LocalsType
      <4>4. QED
        BY <1>0, <2>2, <4>1, <4>2, <4>3 DEF Elapsed, Shows
    <3>4. QED
      BY <3>2, <3>3
  <2>5. QED
    BY <2>4 DEF TimeInv
<1>3. QED
  BY <1>1, <1>2

-----------------------------------------------------------------------------
(* The theorems.                                                           *)

\* However forks, exits, waits, kills, sleeps and clock ticks of any number of
\* processes on any number of CPUs interleave, families stay whole and whoever is asleep
\* or about to sleep has reason to be: ParentInv and WakeInv hold in every state.
THEOREM WaitInvariant == Spec => [](ParentInv /\ WakeInv)
<1>1. Init => ParentInv /\ WakeInv
  BY FamilyInit
<1>2. KernelInv /\ (ParentInv /\ WakeInv) /\ [Next]_vars => (ParentInv /\ WakeInv)'
  BY FamilyNext
<1>3. QED
  BY <1>1, <1>2, KernelInvariant, PTL DEF Spec

\* Every process but init has a living parent that can wait for it: fork gives it one
\* before it runs, and exit hands its children to init before it becomes a zombie.
THEOREM NobodyOrphaned == Spec => []NoOrphans
<1>1. ParentInv => NoOrphans
  BY DEF ParentInv
<1>2. QED
  BY <1>1, WaitInvariant, PTL

\* sleep() and wakeup() lose no wakeup: a sleeper in sys_sleep has time left and one in
\* wait has children and no zombie among them, or the wakeup that will reach it is
\* under way.
THEOREM NoWakeupLost == Spec => []NoLostWakeup
<1>1. WakeInv => NoLostWakeup
  BY DEF WakeInv, SleeperOK, AllAlive, NoLostWakeup
<1>2. QED
  BY <1>1, WaitInvariant, PTL

\* The difference of unsigned numbers in sys_sleep tells the time, however often the
\* clock has wrapped around before: whenever sys_sleep looks at it within a lap, it
\* returns if and only if its n ticks have passed or it has been killed.  For any
\* modulus, any n and any number of processes and CPUs.
THEOREM SleepsItsTime == HSpec => SleepOnTime
<1>1. HInit => Init /\ TimeInv
  BY DEF HInit, Init, procinit, TimeInv, Clocked, InSysSleep, At
<1>2. [HNext]_hvars => [Next]_vars
  BY DEF HNext, hvars
<1>3. HSpec => []KernelInv
  BY <1>1, <1>2, KernelInvariant, PTL DEF HSpec, Spec
<1>4. KernelInv /\ TimeInv /\ [HNext]_hvars => TimeInv'
  BY TimeStep
<1>5. HSpec => []TimeInv
  BY <1>1, <1>3, <1>4, PTL DEF HSpec
<1> DEFINE Right(p) ==
      pc[p] = "sleepcheck" /\ pc'[p] # "sleepcheck" /\ waited[p] < TickModulus =>
        (pc'[p] = "trapout" <=> killed[p] \/ waited[p] >= loc[p].n)
<1>6. KernelInv /\ TimeInv /\ [HNext]_hvars => [\A p \in Procs : Right(p)]_hvars
  <2>1. SUFFICES ASSUME KernelInv, TimeInv, HNext, NEW p \in Procs,
                        pc[p] = "sleepcheck", pc'[p] # "sleepcheck", waited[p] < TickModulus
                 PROVE  pc'[p] = "trapout" <=> killed[p] \/ waited[p] >= loc[p].n
    OBVIOUS
  <2>2. SleepFrame(p)
    BY <2>1, NextFramed DEF HNext, AllFramed
  <2>3. pc'[p] = "trapout" <=> killed[p] \/ ~stillWaiting(p)
    BY <2>1, <2>2 DEF SleepFrame
  <2>4. Clocked(p)
    BY <2>1 DEF KernelInv, Threads, ThreadOK, Clocked, InSysSleep, At
  <2>5. /\ waited[p] \in 0..TickModulus /\ Shows(ticks, loc[p].t0, waited[p])
        /\ ticks \in 0..(TickModulus - 1) /\ loc[p].t0 \in 0..(TickModulus - 1)
        /\ loc[p].n \in Int /\ TickModulus \in Nat
    <3>1. waited[p] \in 0..TickModulus /\ Shows(ticks, loc[p].t0, waited[p])
      BY <2>1, <2>4 DEF TimeInv
    <3>2. ticks \in 0..(TickModulus - 1) /\ loc[p] \in LocalsType
      BY <2>1 DEF KernelInv, KernelTypes
    <3>3. SleepTimes \subseteq Int /\ TickModulus \in Nat
      BY TickAssumption, SleepAssumption
    <3>4. loc[p].t0 \in 0..(TickModulus - 1) /\ loc[p].n \in Int
      <4>1. loc[p].t0 \in 0..(TickModulus - 1) /\ loc[p].n \in SleepTimes \cup {0}
        BY <3>2 DEF LocalsType
      <4>2. CASE loc[p].n = 0
        BY <4>1, <4>2
      <4>3. CASE loc[p].n \in SleepTimes
        BY <3>3, <4>1, <4>3
      <4>4. QED
        BY <4>1, <4>2, <4>3
    <3>5. QED
      BY <3>1, <3>2, <3>3, <3>4
  <2>6. waited[p] \in 0..(TickModulus - 1)
    BY <2>1, <2>5
  <2>7. (ticks - loc[p].t0) % TickModulus = waited[p]
    BY <2>5, <2>6, ClockDifference
  <2>8. stillWaiting(p) <=> waited[p] < loc[p].n
    BY <2>7 DEF stillWaiting
  <2>9. QED
    BY <2>3, <2>5, <2>8
<1>7. QED
  BY <1>3, <1>5, <1>6, PTL DEF HSpec, SleepOnTime
=============================================================================
