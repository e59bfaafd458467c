---------------------------- MODULE SliceProofs ----------------------------
(***************************************************************************)
(* Proofs about time slices, from the invariant of KernelProofs: that no   *)
(* process goes on in user mode beyond its slice, that preemption is       *)
(* prompt on one CPU, and that the CPU is shared evenly there.             *)
(***************************************************************************)
EXTENDS KernelProofs

\* A process that runs, or that a scheduler is about to run.
Chosen(p) == state[p] = "RUNNING" \/ \E c \in CPUs : Dispatches(c, p)

Slices == MinGranularity..(Latency + MinGranularity)

\* The labels at which the runtime of a process is known.
Settled == {"user", "yielded", "forkret"}

\* What makes SliceRespected inductive: retrieveProcess has given a slice to every
\* process that is chosen, and a process that has just been given a CPU has not
\* been charged for anything yet.
SliceOK(p) ==
  /\ Chosen(p) => maxExecutionTime[p] \in Slices
  /\ pc[p] \in {"yielded", "forkret"} => currentRuntime[p] = 0
  /\ pc[p] = "user" => currentRuntime[p] < MaxOf(maxExecutionTime[p], MinGranularity)

SliceInv == \A p \in Procs : SliceOK(p)

\* A step leaves the slice and the runtime of p alone, and p where it can tell.
Undisturbed(p) ==
  /\ maxExecutionTime'[p] = maxExecutionTime[p]
  /\ state'[p] = "RUNNING" => Chosen(p)
  /\ \A c \in CPUs : spc'[c] \in {"lock", "start"} /\ sproc'[c] = p => Chosen(p)
  /\ \/ pc'[p] \notin Settled
     \/ pc'[p] = pc[p] /\ currentRuntime'[p] = currentRuntime[p]
     \/ pc'[p] # "user" /\ currentRuntime'[p] = 0

\* An undisturbed process keeps its part of the invariant.
LEMMA UndisturbedOK ==
  ASSUME SliceInv, NEW p \in Procs, Undisturbed(p)
  PROVE  SliceOK(p)'
<1>1. Chosen(p)' => Chosen(p)
  BY DEF Undisturbed, Chosen, Dispatches
<1>2. QED
  BY <1>1 DEF SliceInv, SliceOK, Undisturbed, Settled

\* The steps that change no state, no slice and no scheduler, and move a thread
\* to a label at which its runtime is not looked at.
Quiet ==
  /\ UNCHANGED <<maxExecutionTime, currentRuntime, state, spc, sproc>>
  /\ \A q \in Procs : pc'[q] = pc[q] \/ pc'[q] \notin Settled

\* Such a step keeps the slices.
LEMMA QuietOK ==
  ASSUME KernelInv, SliceInv, Quiet
  PROVE  SliceInv'
<1>1. ASSUME NEW q \in Procs
      PROVE  Undisturbed(q)
  BY DEF Quiet, Undisturbed, Chosen, Dispatches
<1>2. QED
  BY <1>1, UndisturbedOK DEF SliceInv

-----------------------------------------------------------------------------
(* The quiet steps.                                                        *)

\* Most steps of a thread are such steps.
LEMMA QuietThreads ==
  ASSUME KernelInv, NEW c \in CPUs, NEW p \in Procs,
         \/ slept(c, p) \/ relock(c, p) \/ sys_sleep(c, p) \/ sleepcheck(c, p)
         \/ allocproc(c, p) \/ forkParent(c, p) \/ exit(c, p) \/ reparent(c, p)
         \/ wait(c, p) \/ waitSleep(c, p) \/ trapout(c, p) \/ yield(c, p)
         \/ syscall(c, p) \/ userDevice(c, p) \/ userFault(c, p)
         \/ userTimer(c, p) \/ kernelTimer(c, p)
  PROVE  Quiet
<1>1. pc \in [Procs -> Labels]
  BY DEF KernelInv, KernelTypes
<1>2. CASE slept(c, p)
  BY <1>1, <1>2 DEF slept, Goto, cpuVars, rqVars, Quiet, Settled
<1>3. CASE relock(c, p)
  BY <1>1, <1>3 DEF relock, GotoWith, cpuVars, rqVars, procVars, Quiet, Settled
<1>4. CASE sys_sleep(c, p)
  BY <1>1, <1>4 DEF sys_sleep, GotoWith, cpuVars, rqVars, procVars, Quiet, Settled
<1>5. CASE sleepcheck(c, p)
  BY <1>1, <1>5 DEF sleepcheck, GotoWith, SyscallReturn, cpuVars, rqVars, procVars, Quiet, Settled
<1>6. CASE allocproc(c, p)
  BY <1>1, <1>6 DEF allocproc, GotoWith, SyscallReturn, cpuVars, rqVars, procVars, Quiet, Settled
<1>7. CASE forkParent(c, p)
  BY <1>1, <1>7 DEF forkParent, Goto, cpuVars, rqVars, procVars, Quiet, Settled
<1>8. CASE exit(c, p)
  BY <1>1, <1>8 DEF exit, GotoWith, cpuVars, rqVars, procVars, threadVars, Quiet, Settled
<1>9. CASE reparent(c, p)
  BY <1>1, <1>9 DEF reparent, Goto, rqVars, procVars, threadVars, Quiet, Settled
<1>10. CASE wait(c, p)
  BY <1>1, <1>10 DEF wait, GotoWith, cpuVars, rqVars, procVars, Quiet, Settled
<1>11. CASE waitSleep(c, p)
  BY <1>1, <1>11 DEF waitSleep, GotoWith, SyscallReturn, cpuVars, rqVars, procVars, Quiet, Settled
<1>12. CASE trapout(c, p)
  BY <1>1, <1>12 DEF trapout, Goto, GotoWith, cpuVars, rqVars, procVars, Quiet, Settled
<1>13. CASE yield(c, p)
  BY <1>1, <1>13 DEF yield, GotoWith, cpuVars, rqVars, procVars, Quiet, Settled
<1>14. CASE syscall(c, p)
  <2>1. \E l \in {"alloc", "exit", "wait", "kill", "sys_sleep", "trapout"} :
          pc' = [pc EXCEPT ![p] = l]
    BY <1>14 DEF syscall, Dispatch, EnterTrap
  <2>2. UNCHANGED <<maxExecutionTime, currentRuntime, state, spc, sproc>>
    BY <1>14 DEF syscall, cpuVars, rqVars, procVars
  <2>3. QED
    BY <1>1, <2>1, <2>2 DEF Quiet, Settled
<1>15. CASE userDevice(c, p) \/ userFault(c, p)
  BY <1>1, <1>15 DEF userDevice, userFault, EnterTrap, cpuVars, rqVars, procVars, Quiet, Settled
<1>16. CASE userTimer(c, p) \/ kernelTimer(c, p)
  BY <1>1, <1>16 DEF userTimer, kernelTimer, EnterTrap, rqVars, procVars, Quiet, Settled
<1>17. QED
  BY <1>2, <1>3, <1>4, <1>5, <1>6, <1>7, <1>8, <1>9, <1>10, <1>11, <1>12, <1>13, <1>14, <1>15, <1>16

-----------------------------------------------------------------------------
(* The steps that are not.                                                 *)

\* Waking a sleeper: its runtime is folded in, nobody gets a CPU.
LEMMA WakeUndisturbed ==
  ASSUME KernelInv, SliceInv, NEW k \in Procs,
         wake(k) \/ UNCHANGED <<rqVars, state, currentRuntime>>,
         UNCHANGED <<spc, sproc>>, \A q \in Procs : pc'[q] = pc[q] \/ pc'[q] \notin Settled,
         state[k] = "SLEEPING" \/ UNCHANGED <<rqVars, state, currentRuntime>>
  PROVE  SliceInv'
<1>1. /\ state \in [Procs -> States] /\ currentRuntime \in [Procs -> Nat]
      /\ state[k] = "SLEEPING" => pc[k] = "slept"
  BY DEF KernelInv, KernelTypes, Threads, LabelsOf
<1>2. ASSUME NEW q \in Procs
      PROVE  Undisturbed(q)
  <2>1. CASE UNCHANGED <<rqVars, state, currentRuntime>>
    BY <2>1 DEF rqVars, Undisturbed, Chosen, Dispatches
  <2>2. CASE wake(k) /\ state[k] = "SLEEPING"
    <3>1. /\ state' = [state EXCEPT ![k] = "RUNNABLE"]
          /\ currentRuntime' = [currentRuntime EXCEPT ![k] = 0]
          /\ maxExecutionTime' = maxExecutionTime
      BY <2>2 DEF wake, insertProcess
    <3>2. CASE q = k
      BY <1>1, <2>2, <3>1, <3>2 DEF Undisturbed, Chosen, Dispatches, Settled
    <3>3. CASE q # k
      BY <1>1, <3>1, <3>3 DEF Undisturbed, Chosen, Dispatches
    <3>4. QED
      BY <3>2, <3>3
  <2>3. QED
    BY <2>1, <2>2
<1>3. QED
  BY <1>2, UndisturbedOK DEF SliceInv

\* A process that is woken has no slice yet.
LEMMA WakingSteps ==
  ASSUME KernelInv, SliceInv, NEW c \in CPUs,
         wakeup(c) \/ \E p \in Procs : kill(c, p)
  PROVE  SliceInv'
<1>1. CASE wakeup(c)
  <2>1. wk[c].idx \in Procs
    <3>1. wk[c].idx \in Procs \cup {0}
      BY DEF KernelInv, KernelTypes
    <3>2. QED
      BY <1>1, <3>1 DEF wakeup
  <2> PICK k \in Procs : k = wk[c].idx
    BY <2>1
  <2>2. /\ \/ wake(k) /\ state[k] = "SLEEPING"
           \/ UNCHANGED <<rqVars, state, currentRuntime>>
        /\ UNCHANGED <<spc, sproc, pc>>
    BY <1>1 DEF wakeup, threadVars
  <2>3. QED
    BY <2>2, WakeUndisturbed
<1>2. ASSUME NEW p \in Procs, kill(c, p)
      PROVE  SliceInv'
  <2>1. /\ loc[p].idx \in Procs /\ pc \in [Procs -> Labels]
    <3>1. OnCPU(c, p) /\ pc[p] = "kill"
      BY <1>2 DEF kill
    <3>2. ThreadOK(p, "kill", ipc[p], loc[p])
      BY <3>1, RunningThread
    <3>3. pc \in [Procs -> Labels]
      BY DEF KernelInv, KernelTypes
    <3>4. QED
      BY <3>2, <3>3 DEF ThreadOK
  <2> PICK k \in Procs : k = loc[p].idx
    BY <2>1
  <2>2. /\ \/ wake(k) /\ state[k] = "SLEEPING"
           \/ UNCHANGED <<rqVars, state, currentRuntime>>
        /\ UNCHANGED <<spc, sproc>>
    BY <1>2 DEF kill, killWakes, cpuVars
  <2>3. \E l \in {"trapout", "kill"} : pc' = [pc EXCEPT ![p] = l]
    BY <1>2 DEF kill, SyscallReturn, GotoWith
  <2>4. \A q \in Procs : pc'[q] = pc[q] \/ pc'[q] \notin Settled
    BY <2>1, <2>3 DEF Settled
  <2>5. QED
    BY <2>2, <2>4, WakeUndisturbed
<1>3. QED
  BY <1>1, <1>2

\* A process that gives up its CPU has no slice and, preempted, no runtime.
LEMMA SchedSteps ==
  ASSUME KernelInv, SliceInv, NEW c \in CPUs, NEW p \in Procs,
         \/ sleep(c, p) \/ zombie(c, p)
         \/ preempt(c, p) /\ checkPreemption(p, loc[p].minp)
  PROVE  SliceInv'
<1>1. PICK s \in {"SLEEPING", "ZOMBIE", "RUNNABLE"}, l \in {"slept", "dead", "yielded"} :
        /\ state' = [state EXCEPT ![p] = s] /\ pc' = [pc EXCEPT ![p] = l]
        /\ spc' = [spc EXCEPT ![c] = "after"] /\ sproc' = sproc
        /\ maxExecutionTime' = maxExecutionTime
        /\ IF l = "yielded" THEN currentRuntime' = [currentRuntime EXCEPT ![p] = 0]
                            ELSE currentRuntime' = currentRuntime
  BY DEF sleep, zombie, preempt, requeue, sched, insertProcess, rqVars
<1>2. /\ state \in [Procs -> States] /\ currentRuntime \in [Procs -> Nat]
      /\ pc \in [Procs -> Labels]
      /\ spc \in [CPUs -> {"pick", "wfi", "lock", "start", "running", "after"}]
  BY DEF KernelInv, KernelTypes
<1>3. ASSUME NEW q \in Procs
      PROVE  Undisturbed(q)
  <2>1. CASE q = p
    BY <1>1, <1>2, <2>1 DEF Undisturbed, Chosen, Dispatches, Settled
  <2>2. CASE q # p
    BY <1>1, <1>2, <2>2 DEF Undisturbed, Chosen, Dispatches, Settled
  <2>3. QED
    BY <2>1, <2>2
<1>4. QED
  BY <1>3, UndisturbedOK DEF SliceInv

\* yield() that returns: what checkPreemption did not object to is within the slice.
LEMMA YieldSteps ==
  ASSUME KernelInv, SliceInv, NEW c \in CPUs, NEW p \in Procs,
         \/ preempt(c, p) /\ ~checkPreemption(p, loc[p].minp)
         \/ yielded(c, p) \/ forkret(c, p)
  PROVE  SliceInv'
<1>1. /\ OnCPU(c, p) /\ pc[p] \in {"check", "yielded", "forkret"}
      /\ UNCHANGED <<maxExecutionTime, currentRuntime, state, spc, sproc>>
  BY DEF preempt, yielded, forkret, rqVars, procVars, cpuVars
<1>2. PICK l : /\ pc' = [pc EXCEPT ![p] = l]
               /\ l \in {"user", "yield"} \/ l \in Unlocked
  <2>1. ipc[p] # "none" => ipc[p] \in Unlocked
    BY <1>1, RunningThread DEF ThreadOK
  <2>2. QED
    BY <2>1 DEF preempt, yielded, yieldReturns, afterYield, forkret, Goto
<1>3. /\ currentRuntime \in [Procs -> Nat] /\ pc \in [Procs -> Labels]
      /\ maxExecutionTime \in [Procs -> Nat] /\ MinGranularity \in Nat \ {0}
  BY GranularityAssumption DEF KernelInv, KernelTypes, RQInv, RQTypeOK
<1>4. currentRuntime[p] < MaxOf(maxExecutionTime[p], MinGranularity)
  <2>1. CASE preempt(c, p) /\ ~checkPreemption(p, loc[p].minp)
    BY <1>3, <2>1 DEF checkPreemption, MaxOf
  <2>2. CASE yielded(c, p) \/ forkret(c, p)
    <3>1. currentRuntime[p] = 0
      BY <2>2 DEF yielded, forkret, SliceInv, SliceOK
    <3>2. QED
      BY <1>3, <3>1 DEF MaxOf
  <2>3. QED
    BY <2>1, <2>2
<1>5. ASSUME NEW q \in Procs
      PROVE  SliceOK(q)'
  <2>1. CASE q # p
    <3>1. Undisturbed(q)
      BY <1>1, <1>2, <1>3, <2>1 DEF Undisturbed, Chosen, Dispatches
    <3>2. QED
      BY <3>1, UndisturbedOK
  <2>2. CASE q = p
    <3>1. Chosen(p)' <=> Chosen(p)
      BY <1>1 DEF Chosen, Dispatches
    <3>2. pc'[p] = l /\ l \notin {"yielded", "forkret"}
      BY <1>2, <1>3 DEF Unlocked
    <3>3. Chosen(p) => maxExecutionTime[p] \in Slices
      BY DEF SliceInv, SliceOK
    <3>4. QED
      BY <1>1, <1>4, <2>2, <3>1, <3>2, <3>3 DEF SliceOK, MaxOf, Slices
  <2>3. QED
    BY <2>1, <2>2
<1>6. QED
  BY <1>5 DEF SliceInv

\* A process is charged: where it cannot be in user mode before yield() has looked.
LEMMA ChargeSteps ==
  ASSUME KernelInv, SliceInv, NEW c \in CPUs, NEW p \in Procs, charge(c, p) \/ incr(c, p)
  PROVE  SliceInv'
<1>1. /\ UNCHANGED <<maxExecutionTime, state, spc, sproc>>
      /\ \A q \in Procs : q # p => currentRuntime'[q] = currentRuntime[q]
      /\ pc' = [pc EXCEPT ![p] = "incr"] \/ pc' = [pc EXCEPT ![p] = "yield"]
  <2>1. OnCPU(c, p)
    BY DEF charge, incr
  <2>2. state[p] = "RUNNING" /\ currentRuntime \in [Procs -> Nat]
    BY <2>1, RunningThread DEF KernelInv, KernelTypes
  <2>3. QED
    BY <2>2 DEF charge, incr, GotoWith, cpuVars, rqVars, procVars
<1>2. pc \in [Procs -> Labels]
  BY DEF KernelInv, KernelTypes
<1>3. ASSUME NEW q \in Procs
      PROVE  Undisturbed(q)
  BY <1>1, <1>2 DEF Undisturbed, Chosen, Dispatches, Settled
<1>4. QED
  BY <1>3, UndisturbedOK DEF SliceInv

\* A slot that is taken, filled or freed is in nobody's hands.
LEMMA SlotSteps ==
  ASSUME KernelInv, SliceInv, NEW c \in CPUs, NEW p \in Procs,
         \/ forkAlloc(c, p) \/ forkFail(c, p) \/ forkRunnable(c, p)
         \/ forkInsert(c, p) \/ waitChild(c, p)
  PROVE  SliceInv'
<1>0. /\ state \in [Procs -> States] /\ currentRuntime \in [Procs -> Nat]
      /\ pc \in [Procs -> Labels] /\ maxExecutionTime \in [Procs -> Nat]
  BY DEF KernelInv, KernelTypes, RQInv, RQTypeOK
<1>1. CASE forkAlloc(c, p) \/ forkFail(c, p)
  <2>1. OnCPU(c, p) /\ pc[p] = "alloc" /\ loc[p].idx \in Procs
    <3>1. OnCPU(c, p) /\ pc[p] = "alloc"
      BY <1>1 DEF forkAlloc, forkFail
    <3>2. ThreadOK(p, "alloc", ipc[p], loc[p])
      BY <3>1, RunningThread
    <3>3. QED
      BY <3>1, <3>2 DEF ThreadOK
  <2> PICK k \in Procs : k = loc[p].idx
    BY <2>1
  <2>2. /\ state[k] = "UNUSED" /\ plock[k] = NoCPU /\ UNCHANGED <<spc, sproc>>
        /\ \A q \in Procs : q # k => /\ currentRuntime'[q] = currentRuntime[q]
                                     /\ maxExecutionTime'[q] = maxExecutionTime[q]
                                     /\ state'[q] = state[q]
        /\ state'[k] # "RUNNING"
        /\ currentRuntime'[k] \in {currentRuntime[k], 0}
        /\ \A q \in Procs : q # p /\ q # k => pc'[q] = pc[q]
        /\ pc'[p] \notin Settled \/ p = k
        /\ k # p => pc'[k] = pc[k] \/ (pc'[k] = "forkret" /\ currentRuntime'[k] = 0)
    <3>1. CASE forkAlloc(c, p)
      BY <1>0, <3>1 DEF forkAlloc, allocFields, cpuVars, Settled
    <3>2. CASE forkFail(c, p)
      BY <1>0, <3>2 DEF forkFail, freeproc, SyscallReturn, GotoWith, cpuVars, Settled
    <3>3. QED
      BY <1>1, <3>1, <3>2
  <2>3. /\ p # k /\ \A d \in CPUs : sproc[d] # k
    BY <2>1, <2>2, RunningThread, OffStage
  <2>4. pc[k] # "user"
    BY <2>2 DEF KernelInv, Threads, LabelsOf
  <2>5. ASSUME NEW q \in Procs
        PROVE  SliceOK(q)'
    <3>1. CASE q # k
      <4>1. Undisturbed(q)
        BY <2>2, <2>3, <3>1 DEF Undisturbed, Chosen, Dispatches
      <4>2. QED
        BY <4>1, UndisturbedOK
    <3>2. CASE q = k
      <4>1. ~Chosen(k)'
        BY <2>2, <2>3 DEF Chosen, Dispatches
      <4>2. pc'[k] # "user" /\ (pc'[k] \in {"yielded", "forkret"} => currentRuntime'[k] = 0)
        BY <2>2, <2>3, <2>4 DEF SliceInv, SliceOK
      <4>3. QED
        BY <3>2, <4>1, <4>2 DEF SliceOK
    <3>3. QED
      BY <3>1, <3>2
  <2>6. QED
    BY <2>5 DEF SliceInv
<1>2. CASE forkRunnable(c, p) \/ forkInsert(c, p) \/ waitChild(c, p)
  <2>1. /\ UNCHANGED <<maxExecutionTime, currentRuntime, spc, sproc>>
        /\ \A q \in Procs : state'[q] = state[q] \/ state'[q] # "RUNNING"
        /\ \E l \in {"forkinsert", "trapout", "waitscan"} : pc' = [pc EXCEPT ![p] = l]
    <3>1. CASE forkRunnable(c, p)
      BY <1>0, <3>1 DEF forkRunnable, Goto, cpuVars, rqVars
    <3>2. CASE forkInsert(c, p)
      BY <3>2 DEF forkInsert, insertProcess, SyscallReturn, GotoWith, cpuVars, procVars
    <3>3. CASE waitChild(c, p)
      <4>1. /\ UNCHANGED <<maxExecutionTime, currentRuntime, spc, sproc>>
            /\ \E l \in {"trapout", "waitscan"} : pc' = [pc EXCEPT ![p] = l]
        BY <3>3 DEF waitChild, SyscallReturn, GotoWith, cpuVars, rqVars
      <4>2. state' = state \/ \E k : state' = [state EXCEPT ![k] = "UNUSED"]
        BY <3>3 DEF waitChild, freeproc
      <4>3. QED
        BY <1>0, <4>1, <4>2
    <3>4. QED
      BY <1>2, <3>1, <3>2, <3>3
  <2>2. ASSUME NEW q \in Procs
        PROVE  Undisturbed(q)
    BY <1>0, <2>1 DEF Undisturbed, Chosen, Dispatches, Settled
  <2>3. QED
    BY <2>2, UndisturbedOK DEF SliceInv
<1>3. QED
  BY <1>1, <1>2

\* The scheduler: retrieveProcess computes the slice of the process it hands out.
LEMMA SchedulerSteps ==
  ASSUME KernelInv, SliceInv, NEW c \in CPUs, SchedulerStep(c) \/ schedTimer(c)
  PROVE  SliceInv'
<1>0. /\ state \in [Procs -> States] /\ maxExecutionTime \in [Procs -> Nat]
      /\ spc \in [CPUs -> {"pick", "wfi", "lock", "start", "running", "after"}]
      /\ sproc \in [CPUs -> Procs \cup {Null}] /\ Null \notin Procs
  BY Numbers DEF KernelInv, KernelTypes, RQInv, RQTypeOK
<1>1. CASE pick(c) /\ queue # << >> /\ state[Head(queue)] = "RUNNABLE"
  <2>0. queue \in Seq(Procs) /\ Head(queue) \in Procs
    BY <1>1 DEF KernelInv, RQInv, RQTypeOK
  <2> PICK p \in Procs : p = Head(queue)
    BY <2>0
  <2>1. /\ maxExecutionTime' = [maxExecutionTime EXCEPT
                                  ![p] = TimeSlice(PeriodFor(Len(queue), period), treeWeight)]
        /\ sproc' = [sproc EXCEPT ![c] = p]
        /\ UNCHANGED <<state, currentRuntime, pc>> /\ spc[c] = "pick"
        /\ spc' = [spc EXCEPT ![c] = "lock"]
    BY <1>1 DEF pick, retrieveProcess, procVars, threadVars
  <2>2. TimeSlice(PeriodFor(Len(queue), period), treeWeight) \in Slices
    <3>1. /\ Len(queue) \in Nat \ {0} /\ period \in Nat /\ Latency <= period
          /\ period <= Latency + MinGranularity \/ period <= (Len(queue) + 1) * MinGranularity
          /\ treeWeight = Len(queue) * Weight
      BY <1>1, <2>0 DEF KernelInv, RQInv, RQTypeOK, PeriodFollowsLoad, WeightIsSum
    <3>2. QED
      BY <3>1, SliceInRange DEF Slices
  <2>3. state[p] = "RUNNABLE"
    BY <1>1
  <2>4. ASSUME NEW q \in Procs
        PROVE  SliceOK(q)'
    <3>1. CASE q # p
      <4>1. Undisturbed(q)
        BY <1>0, <2>1, <3>1 DEF Undisturbed, Chosen, Dispatches
      <4>2. QED
        BY <4>1, UndisturbedOK
    <3>2. CASE q = p
      <4>1. maxExecutionTime'[p] \in Slices
        BY <1>0, <2>1, <2>2
      <4>2. pc[p] # "user"
        BY <2>3 DEF KernelInv, Threads, LabelsOf
      <4>3. pc[p] \in {"yielded", "forkret"} => currentRuntime[p] = 0
        BY DEF SliceInv, SliceOK
      <4>4. QED
        BY <2>1, <3>2, <4>1, <4>2, <4>3 DEF SliceOK, Slices
    <3>3. QED
      BY <3>1, <3>2
  <2>5. QED
    BY <2>4 DEF SliceInv
<1>2. CASE \/ pick(c) /\ ~(queue # << >> /\ state[Head(queue)] = "RUNNABLE")
           \/ lockPicked(c) \/ switchTo(c) \/ switchedBack(c) \/ schedTimer(c)
  <2>1. /\ UNCHANGED <<maxExecutionTime, currentRuntime, pc>>
        /\ \A q \in Procs : \/ state'[q] = state[q]
                            \/ spc[c] = "start" /\ sproc[c] = q
        /\ \A d \in CPUs : spc'[d] \in {"lock", "start"} =>
             sproc'[d] = sproc[d] /\ spc[d] \in {"lock", "start"}
    <3>1. CASE pick(c) /\ ~(queue # << >> /\ state[Head(queue)] = "RUNNABLE")
      BY <1>0, <3>1 DEF pick, procVars, threadVars
    <3>2. CASE lockPicked(c)
      BY <1>0, <3>2 DEF lockPicked, procVars, threadVars, rqVars
    <3>3. CASE switchTo(c)
      <4>1. sproc[c] \in Procs
        BY <3>3 DEF switchTo, KernelInv, SchedulerLocals
      <4>2. QED
        BY <1>0, <3>3, <4>1 DEF switchTo, threadVars, rqVars
    <3>4. CASE switchedBack(c)
      BY <1>0, <3>4 DEF switchedBack, procVars, threadVars, rqVars
    <3>5. CASE schedTimer(c)
      BY <1>0, <3>5 DEF schedTimer, procVars, threadVars, rqVars
    <3>6. QED
      BY <1>2, <3>1, <3>2, <3>3, <3>4, <3>5
  <2>2. ASSUME NEW q \in Procs
        PROVE  Undisturbed(q)
    BY <2>1 DEF Undisturbed, Chosen, Dispatches
  <2>3. QED
    BY <2>2, UndisturbedOK DEF SliceInv
<1>3. QED
  BY <1>1, <1>2 DEF SchedulerStep

-----------------------------------------------------------------------------
(* The theorem.                                                            *)

\* Any step of a thread, of its timer or of its user program.
LEMMA SliceThreads ==
  ASSUME KernelInv, SliceInv, NEW c \in CPUs, NEW p \in Procs,
         \/ ThreadStep(c, p) \/ YieldStep(c, p) \/ UserTrap(c, p)
         \/ userTimer(c, p) \/ kernelTimer(c, p)
  PROVE  SliceInv'
<1>1. CASE SleepStep(c, p)
  BY <1>1, QuietThreads, QuietOK, SchedSteps, WakingSteps DEF SleepStep
<1>2. CASE LifecycleStep(c, p)
  BY <1>2, QuietThreads, QuietOK, SchedSteps, YieldSteps, SlotSteps DEF LifecycleStep
<1>3. CASE TrapStep(c, p) \/ YieldStep(c, p)
  BY <1>3, QuietThreads, QuietOK, SchedSteps, YieldSteps, ChargeSteps DEF TrapStep, YieldStep
<1>4. CASE UserTrap(c, p) \/ userTimer(c, p) \/ kernelTimer(c, p)
  BY <1>4, QuietThreads, QuietOK DEF UserTrap
<1>5. QED
  BY <1>1, <1>2, <1>3, <1>4 DEF ThreadStep

\* Whoever is chosen has a slice, and whoever is in user mode has used up less than
\* it: SliceInv is inductive relative to KernelInv.
THEOREM SliceInvariant == Spec => []SliceInv
<1>1. Init => SliceInv
  <2> SUFFICES ASSUME Init, NEW p \in Procs
               PROVE  SliceOK(p)
    BY DEF SliceInv
  <2>1. pc[p] = "forkret" /\ currentRuntime[p] = 0 /\ \A c \in CPUs : spc[c] = "pick"
    BY DEF Init, procinit
  <2>2. state[p] # "RUNNING"
    BY DEF Init, userinit
  <2>3. QED
    BY <2>1, <2>2 DEF SliceOK, Chosen, Dispatches
<1>2. KernelInv /\ SliceInv /\ [Next]_vars => SliceInv'
  <2> SUFFICES ASSUME KernelInv, SliceInv, [Next]_vars
               PROVE  SliceInv'
    OBVIOUS
  <2>1. ASSUME NEW c \in CPUs, KernelStep(c) \/ Timer(c)
        PROVE  SliceInv'
    BY <2>1, SchedulerSteps, WakingSteps, SliceThreads DEF KernelStep, Timer
  <2>2. ASSUME NEW c \in CPUs, NEW p \in Procs, UserTrap(c, p)
        PROVE  SliceInv'
    BY <2>2, SliceThreads
  <2>3. CASE Stay \/ UNCHANGED vars
    <3>1. UNCHANGED <<maxExecutionTime, currentRuntime, state, spc, sproc, pc>>
      BY <2>3 DEF Stay, vars, rqVars, procVars, cpuVars, threadVars
    <3>2. QED
      BY <3>1, QuietOK DEF Quiet
  <2>4. QED
    BY <2>1, <2>2, <2>3 DEF Next
<1>3. QED
  BY <1>1, <1>2, KernelInvariant, PTL DEF Spec

\* No process returns to user mode once it has used up its slice, whichever traps
\* and interrupts it takes and whoever forks, sleeps or is killed meanwhile, and
\* the slice it has is never below the granularity nor beyond the bound.
THEOREM SlicesRespected == Spec => []SliceRespected
<1>1. SliceInv => SliceRespected
  BY DEF SliceInv, SliceOK, SliceRespected, Chosen, Slices
<1>2. QED
  BY <1>1, SliceInvariant, PTL

-----------------------------------------------------------------------------
(* Preemption on one CPU.                                                  *)

\* While p is about to decide in yield(), minvRuntime is still what it has read;
\* while it is in user mode, no one has become entitled to the CPU.
PromptOK(p) ==
  state[p] = "RUNNING" =>
    /\ pc[p] = "check" => loc[p].minp = IF queue = << >> THEN Null ELSE Head(queue)
    /\ pc[p] = "user" =>
         \A r \in Queued(queue) : \/ virtualRuntime[p] <= virtualRuntime[r]
                                   \/ currentRuntime[p] < MinGranularity

PromptInv == \A p \in Procs : PromptOK(p)

\* With one CPU, the process that is RUNNING is the one it runs.
LEMMA OneCPU ==
  ASSUME KernelInv, NCPU = 1, NEW p \in Procs, state[p] = "RUNNING"
  PROVE  spc[0] = "running" /\ sproc[0] = p
<1>1. CPUs = {0}
  BY DEF CPUs
<1>2. QED
  BY <1>1 DEF KernelInv, OneScheduler, Runs

\* Only yield() takes a thread to its decision, and only yield() and forkret() take
\* it to user mode.
LEMMA Landings ==
  ASSUME KernelInv, NEW c \in CPUs, NEW p \in Procs,
         \/ ThreadStep(c, p) /\ ~forkret(c, p)
         \/ UserTrap(c, p) \/ userTimer(c, p) \/ kernelTimer(c, p)
  PROVE  pc'[p] \notin {"check", "user"} /\ sproc' = sproc
<1>1. pc \in [Procs -> Labels]
  BY DEF KernelInv, KernelTypes
<1>2. CASE SleepStep(c, p)
  BY <1>1, <1>2 DEF SleepStep, sleep, slept, relock, sys_sleep, sleepcheck, kill, sched, Goto,
     GotoWith, SyscallReturn, cpuVars
<1>3. CASE allocproc(c, p) \/ forkFail(c, p) \/ forkParent(c, p) \/ forkRunnable(c, p)
           \/ forkInsert(c, p)
  BY <1>1, <1>3 DEF allocproc, forkFail, forkParent, forkRunnable, forkInsert, Goto, GotoWith,
     SyscallReturn, cpuVars
<1>4. CASE forkAlloc(c, p)
  BY <1>1, <1>4 DEF forkAlloc, cpuVars
<1>5. CASE exit(c, p) \/ reparent(c, p) \/ zombie(c, p)
  BY <1>1, <1>5 DEF exit, reparent, zombie, sched, Goto, GotoWith, threadVars, cpuVars
<1>6. CASE wait(c, p) \/ waitChild(c, p) \/ waitSleep(c, p)
  BY <1>1, <1>6 DEF wait, waitChild, waitSleep, GotoWith, SyscallReturn, cpuVars
<1>7. CASE TrapStep(c, p)
  <2>1. OnCPU(c, p)
    BY <1>7 DEF TrapStep, trapout, charge, incr
  <2>2. state[p] = "RUNNING"
    BY <2>1, RunningThread
  <2>3. QED
    BY <1>1, <1>7, <2>2 DEF TrapStep, trapout, charge, incr, Goto, GotoWith, cpuVars
<1>8. CASE syscall(c, p)
  <2>1. \E l \in {"alloc", "exit", "wait", "kill", "sys_sleep", "trapout"} :
          pc' = [pc EXCEPT ![p] = l]
    BY <1>8 DEF syscall, Dispatch, EnterTrap
  <2>2. sproc' = sproc
    BY <1>8 DEF syscall, cpuVars
  <2>3. QED
    BY <1>1, <2>1, <2>2
<1>9. CASE userDevice(c, p) \/ userFault(c, p) \/ userTimer(c, p) \/ kernelTimer(c, p)
  BY <1>1, <1>9 DEF userDevice, userFault, userTimer, kernelTimer, EnterTrap, cpuVars
<1>10. QED
  BY <1>2, <1>3, <1>4, <1>5, <1>6, <1>7, <1>8, <1>9 DEF ThreadStep, LifecycleStep, UserTrap

\* yield() and forkret(): what yield() reads is the leftmost process of the tree, and
\* who is not preempted by it is ahead of nobody, or within the granularity.
LEMMA Lands ==
  ASSUME KernelInv, KernelInv', SliceInv, PromptInv, NEW c \in CPUs, NEW p \in Procs,
         YieldStep(c, p) \/ forkret(c, p)
  PROVE  PromptOK(p)' /\ sproc' = sproc
<1>0. /\ pc \in [Procs -> Labels] /\ loc \in [Procs -> LocalsType]
      /\ virtualRuntime \in [Procs -> Nat] /\ currentRuntime \in [Procs -> Nat]
      /\ state \in [Procs -> States] /\ MinGranularity \in Nat \ {0}
  BY GranularityAssumption DEF KernelInv, KernelTypes, RQInv, RQTypeOK
<1>1. CASE yield(c, p)
  BY <1>0, <1>1 DEF yield, GotoWith, LocalsType, PromptOK, rqVars, cpuVars
<1>2. CASE preempt(c, p) /\ checkPreemption(p, loc[p].minp)
  <2>1. state' = [state EXCEPT ![p] = "RUNNABLE"] /\ sproc' = sproc
    BY <1>2 DEF preempt, requeue
  <2>2. QED
    BY <1>0, <2>1 DEF PromptOK
<1>3. CASE preempt(c, p) /\ ~checkPreemption(p, loc[p].minp)
  <2>1. /\ OnCPU(c, p) /\ pc[p] = "check"
        /\ UNCHANGED <<sproc, queue, virtualRuntime, currentRuntime>>
        /\ pc' = [pc EXCEPT ![p] = afterYield(p)]
    BY <1>3 DEF preempt, yieldReturns, rqVars
  <2>2. state[p] = "RUNNING" /\ ThreadOK(p, "check", ipc[p], loc[p])
    BY <2>1, RunningThread
  <2>3. pc'[p] # "check"
    BY <1>0, <2>1, <2>2 DEF afterYield, ThreadOK, Unlocked
  <2>4. ASSUME NEW r \in Queued(queue)
        PROVE  \/ virtualRuntime[p] <= virtualRuntime[r]
               \/ currentRuntime[p] < MinGranularity
    <3>1. queue \in Seq(Procs) /\ QueueOrdered
      BY DEF KernelInv, RQInv, RQTypeOK
    <3>2. PICK i \in DOMAIN queue : queue[i] = r
      BY DEF Queued
    <3>3. /\ 1 \in DOMAIN queue /\ 1 <= i /\ queue # << >> /\ Head(queue) = queue[1]
          /\ queue[1] \in Procs /\ r \in Procs
      BY <3>1, <3>2
    <3>4. virtualRuntime[Head(queue)] <= virtualRuntime[r]
      BY <3>1, <3>2, <3>3 DEF QueueOrdered
    <3>5. state[Head(queue)] = "RUNNABLE" /\ Head(queue) # Null
      BY <3>3, Numbers DEF KernelInv, ReadyPlaces, Queued
    <3>6. loc[p].minp = Head(queue)
      BY <2>1, <2>2, <3>3 DEF PromptInv, PromptOK
    <3>7. virtualRuntime[p] <= virtualRuntime[Head(queue)] \/ currentRuntime[p] < MinGranularity
      BY <1>0, <1>3, <3>3, <3>5, <3>6 DEF checkPreemption
    <3>8. QED
      BY <1>0, <3>3, <3>4, <3>7
  <2>5. QED
    BY <2>1, <2>3, <2>4 DEF PromptOK
<1>4. CASE yielded(c, p) \/ forkret(c, p)
  <2>1. /\ OnCPU(c, p) /\ pc[p] \in {"yielded", "forkret"}
        /\ UNCHANGED <<sproc, currentRuntime>>
        /\ pc' = [pc EXCEPT ![p] = IF pc[p] = "yielded" THEN afterYield(p) ELSE "user"]
    BY <1>4 DEF yielded, forkret, yieldReturns, Goto, cpuVars, procVars
  <2>2. ThreadOK(p, pc[p], ipc[p], loc[p])
    BY <2>1, RunningThread
  <2>3. pc'[p] # "check"
    BY <1>0, <2>1, <2>2 DEF afterYield, ThreadOK, Unlocked
  <2>4. currentRuntime'[p] < MinGranularity
    BY <1>0, <2>1 DEF SliceInv, SliceOK
  <2>5. QED
    BY <2>1, <2>3, <2>4 DEF PromptOK
<1>5. QED
  BY <1>1, <1>2, <1>3, <1>4 DEF YieldStep

\* On one CPU every step keeps PromptInv: who is about to decide, or in user mode,
\* is alone.
LEMMA PromptStep ==
  ASSUME KernelInv, KernelInv', SliceInv, PromptInv, NCPU = 1, [Next]_vars
  PROVE  PromptInv'
<1> SUFFICES ASSUME NEW q \in Procs, state'[q] = "RUNNING", pc'[q] \in {"check", "user"}
             PROVE  PromptOK(q)'
  BY DEF PromptInv, PromptOK
<1>0. spc'[0] = "running" /\ sproc'[0] = q /\ CPUs = {0}
  <2>1. \E c \in CPUs : Runs(c, q)'
    BY DEF KernelInv, OneScheduler
  <2>2. CPUs = {0}
    BY DEF CPUs
  <2>3. QED
    BY <2>1, <2>2 DEF Runs
<1>1. ASSUME NEW p \in Procs, OnCPU(0, p), sproc' = sproc
      PROVE  p = q
  BY <1>0, <1>1, RunningThread
<1>2. ASSUME NEW p \in Procs,
             \/ ThreadStep(0, p) \/ YieldStep(0, p) \/ UserTrap(0, p)
             \/ userTimer(0, p) \/ kernelTimer(0, p)
      PROVE  PromptOK(q)'
  <2>1. OnCPU(0, p)
    BY <1>2 DEF ThreadStep, SleepStep, LifecycleStep, TrapStep, YieldStep, UserTrap, userTimer,
       kernelTimer, sleep, slept, relock, sys_sleep, sleepcheck, kill, allocproc, forkAlloc,
       forkFail, forkParent, forkRunnable, forkInsert, forkret, exit, reparent, zombie, wait,
       waitChild, waitSleep, trapout, charge, incr, yield, preempt, yielded, syscall,
       userDevice, userFault, FromUser
  <2>2. CASE YieldStep(0, p) \/ forkret(0, p)
    BY <1>0, <1>1, <2>1, <2>2, Lands
  <2>3. CASE \/ ThreadStep(0, p) /\ ~forkret(0, p)
             \/ UserTrap(0, p) \/ userTimer(0, p) \/ kernelTimer(0, p)
    <3>1. pc'[p] \notin {"check", "user"} /\ sproc' = sproc
      BY <1>0, <2>3, Landings
    <3>2. QED
      BY <1>1, <2>1, <3>1
  <2>4. QED
    BY <1>2, <2>2, <2>3
<1>3. CASE SchedulerStep(0) \/ schedTimer(0)
  <2>1. /\ spc \in [CPUs -> {"pick", "wfi", "lock", "start", "running", "after"}]
        /\ spc[0] # "running"
    BY <1>3 DEF KernelInv, KernelTypes, SchedulerStep, pick, lockPicked, switchTo, switchedBack,
       schedTimer, InScheduler
  <2>2. spc'[0] = "running" => spc[0] = "start" /\ UNCHANGED <<sproc, pc>>
    BY <1>0, <1>3, <2>1 DEF SchedulerStep, pick, lockPicked, switchTo, switchedBack, schedTimer,
       threadVars
  <2>3. state[q] = "RUNNABLE" /\ pc'[q] = pc[q]
    BY <1>0, <2>2 DEF KernelInv, SchedulerLocals
  <2>4. QED
    BY <2>3 DEF KernelInv, Threads, LabelsOf
<1>4. CASE wakeup(0)
  <2>1. UNCHANGED <<spc, sproc, pc>> /\ wk[0].idx # 0
    BY <1>4 DEF wakeup, threadVars
  <2>2. pc[q] \in {"trapout", "yield", "reparent", "zombie"}
    BY <1>0, <2>1 DEF KernelInv, WakeupCallers
  <2>3. QED
    BY <2>1, <2>2
<1>5. CASE Stay \/ UNCHANGED vars
  BY <1>5 DEF Stay, vars, rqVars, procVars, threadVars, PromptInv, PromptOK
<1>6. QED
  BY <1>0, <1>2, <1>3, <1>4, <1>5 DEF Next, KernelStep, Timer

\* On one CPU, a process that has had more runtime than one that waits does not go
\* on in user mode beyond the granularity: the unlocked read of minvRuntime in
\* yield() cannot go stale there.
THEOREM PreemptionIsPrompt ==
  ASSUME NCPU = 1
  PROVE  Spec => []PromptPreemption
<1>1. Init => PromptInv
  <2> SUFFICES ASSUME Init, NEW p \in Procs
               PROVE  PromptOK(p)
    BY DEF PromptInv
  <2>1. pc[p] = "forkret"
    BY DEF Init, procinit
  <2>2. QED
    BY <2>1 DEF PromptOK
<1>2. KernelInv /\ KernelInv' /\ SliceInv /\ PromptInv /\ [Next]_vars => PromptInv'
  BY PromptStep
<1>3. PromptInv => PromptPreemption
  BY DEF PromptInv, PromptOK, PromptPreemption
<1>4. QED
  BY <1>1, <1>2, <1>3, KernelInvariant, SliceInvariant, PTL DEF Spec
-----------------------------------------------------------------------------
(* The spread of the virtual runtimes on one CPU.                          *)

\* The processes that FairSpread is about, how far it lets them come apart, and
\* the labels of the calls that can sleep.
Awake(p) == state[p] \in {"RUNNABLE", "RUNNING"}
Spread == Latency + MinGranularity
Blocking == {"sleep", "slept", "relock", "sys_sleep", "sleepcheck", "wait", "waitscan"}

\* What makes FairSpread inductive, about one process: nobody blocks.  A process is
\* not preempted with less than a granule on its account, so that its virtual runtime
\* is 0 in its first slice and a granule afterwards: who forks is in its first slice,
\* like its child, and goes through fork() without being preempted.  Who waits has
\* no account, and who runs has at most the longest slice on it; the value that
\* usertrap has loaded to add 1 to it is below that.
FairOK(p) ==
  /\ state[p] # "SLEEPING" /\ At(p) \notin Blocking
  /\ Awake(p) => virtualRuntime[p] = 0 \/ virtualRuntime[p] >= MinGranularity
  /\ At(p) \in Forking \cup {"alloc"} =>
       state[p] = "RUNNING" /\ virtualRuntime[p] = 0 /\ currentRuntime[p] < MinGranularity
  /\ At(p) \in Forking => virtualRuntime[loc[p].np] = 0 /\ currentRuntime[loc[p].np] = 0
  /\ state[p] = "RUNNABLE" => currentRuntime[p] = 0
  /\ state[p] = "RUNNING" => currentRuntime[p] <= Spread
  /\ state[p] = "RUNNING" /\ At(p) \notin {"yield", "check"} => currentRuntime[p] < Spread
  /\ At(p) = "incr" => loc[p].tmp < Spread

\* And about two: who is chosen has the least virtual runtime of all, and the virtual
\* runtimes, without what is on the account, are within the bound.
PairOK(p, q) ==
  Awake(p) /\ Awake(q) =>
    /\ Chosen(q) => virtualRuntime[q] <= virtualRuntime[p]
    /\ virtualRuntime[q] <= virtualRuntime[p] + Spread

FairInv == \A p, q \in Procs : FairOK(p) /\ PairOK(p, q)

\* The types that the steps below need.
FairTypes ==
  /\ state \in [Procs -> States]
  /\ virtualRuntime \in [Procs -> Nat] /\ currentRuntime \in [Procs -> Nat]
  /\ pc \in [Procs -> Labels] /\ ipc \in [Procs -> Labels \cup {"none"}]
  /\ loc \in [Procs -> LocalsType]
  /\ spc \in [CPUs -> {"pick", "wfi", "lock", "start", "running", "after"}]
  /\ sproc \in [CPUs -> Procs \cup {Null}]
  /\ MinGranularity \in Nat \ {0} /\ Latency \in Nat /\ Spread \in Nat \ {0}

\* They follow from the invariant of the kernel.
LEMMA FairTyped ==
  ASSUME KernelInv
  PROVE  FairTypes
<1>1. MinGranularity \in Nat \ {0} /\ Latency \in Nat
  BY GranularityAssumption
<1>2. Spread \in Nat \ {0}
  BY <1>1 DEF Spread
<1>3. QED
  BY <1>1, <1>2 DEF KernelInv, KernelTypes, RQInv, RQTypeOK, FairTypes

\* The thread of p, and its account, may change; nobody else does.
Alone(p) ==
  /\ UNCHANGED <<state, virtualRuntime>>
  /\ \A q \in Procs : q # p =>
       /\ pc'[q] = pc[q] /\ ipc'[q] = ipc[q] /\ loc'[q] = loc[q]
       /\ currentRuntime'[q] = currentRuntime[q]
  /\ UNCHANGED <<spc, sproc>>

\* Then only what is said of p itself has to be shown.
LEMMA AloneOK ==
  ASSUME KernelInv, FairInv, NEW p \in Procs, state[p] = "RUNNING", Alone(p), FairOK(p)'
  PROVE  FairInv'
<1>1. ASSUME NEW q \in Procs, q # p
      PROVE  FairOK(q)'
  <2>1. At(q)' = At(q)
    BY <1>1 DEF Alone, At
  <2>2. At(q) \in Forking => loc[q].np \in Procs /\ loc[q].np # p
    BY DEF KernelInv, ForkOwnsChild
  <2>3. FairOK(q)
    BY DEF FairInv
  <2>4. QED
    BY <1>1, <2>1, <2>2, <2>3 DEF Alone, FairOK, Awake
<1>2. ASSUME NEW q \in Procs, NEW r \in Procs
      PROVE  PairOK(q, r)'
  <2>1. PairOK(q, r)
    BY DEF FairInv
  <2>2. QED
    BY <2>1 DEF Alone, PairOK, Awake, Chosen, Dispatches
<1>3. QED
  BY <1>1, <1>2 DEF FairInv

\* A thread goes on at l with the locals x, and no handler is on top of it: what
\* FairOK asks of the new label.
LEMMA GoesOn ==
  ASSUME KernelInv, FairInv, NEW p \in Procs, state[p] = "RUNNING", NEW l \in Labels,
         UNCHANGED <<state, virtualRuntime, currentRuntime, spc, sproc>>,
         pc' = [pc EXCEPT ![p] = l],
         \A q \in Procs : q # p => ipc'[q] = ipc[q] /\ loc'[q] = loc[q],
         LET a == At(p)' IN
         /\ a \notin Blocking
         /\ a \in Forking \cup {"alloc"} =>
              virtualRuntime[p] = 0 /\ currentRuntime[p] < MinGranularity
         /\ a \in Forking => virtualRuntime[loc'[p].np] = 0 /\ currentRuntime[loc'[p].np] = 0
         /\ a \notin {"yield", "check"} => currentRuntime[p] < Spread
         /\ a = "incr" => loc'[p].tmp < Spread
  PROVE  FairInv'
<1>1. FairTypes
  BY FairTyped
<1>2. Alone(p)
  BY <1>1 DEF Alone, FairTypes
<1>3. FairOK(p)
  BY DEF FairInv
<1>4. FairOK(p)'
  BY <1>1, <1>3 DEF FairOK, Awake
<1>5. QED
  BY <1>2, <1>4, AloneOK

\* What is known of the thread that makes a step.
LEMMA FairThread ==
  ASSUME KernelInv, FairInv, NEW c \in CPUs, NEW p \in Procs, OnCPU(c, p)
  PROVE  /\ state[p] = "RUNNING" /\ FairOK(p) /\ FairTypes
         /\ pc[p] \notin {"yield", "check", "yielded"} => ipc[p] = "none" /\ At(p) = pc[p]
         /\ pc[p] \notin Blocking
         /\ pc[p] \notin {"yield", "check", "yielded"} => currentRuntime[p] < Spread
<1>1. state[p] = "RUNNING" /\ ThreadOK(p, pc[p], ipc[p], loc[p])
  BY RunningThread
<1>2. FairOK(p) /\ FairTypes
  BY FairTyped DEF FairInv
<1>3. pc[p] \notin {"yield", "check", "yielded"} => ipc[p] = "none" /\ At(p) = pc[p]
  BY <1>1 DEF ThreadOK, At
<1>4. pc[p] \notin Blocking
  BY <1>2, <1>3 DEF FairOK, Blocking
<1>5. QED
  BY <1>1, <1>2, <1>3, <1>4 DEF FairOK

\* The steps that go on at a label of no interest, from one where no handler is.
LEMMA PlainMove ==
  ASSUME KernelInv, FairInv, NEW c \in CPUs, NEW p \in Procs, OnCPU(c, p),
         pc[p] \notin {"yield", "check", "yielded"},
         NEW l \in Labels \ (Blocking \cup Forking \cup {"alloc", "incr"}),
         UNCHANGED <<state, virtualRuntime, currentRuntime, spc, sproc, ipc>>,
         pc' = [pc EXCEPT ![p] = l],
         \A q \in Procs : q # p => loc'[q] = loc[q]
  PROVE  FairInv'
<1>1. /\ state[p] = "RUNNING" /\ FairTypes
      /\ ipc[p] = "none" /\ currentRuntime[p] < Spread
  BY FairThread
<1>2. At(p)' = l
  BY <1>1 DEF At, FairTypes
<1>3. QED
  BY <1>1, <1>2, GoesOn

\* exit() takes wait_lock, or panics.
LEMMA exit_Fair ==
  ASSUME KernelInv, FairInv, NEW c \in CPUs, NEW p \in Procs, exit(c, p)
  PROVE  FairInv'
<1>1. /\ OnCPU(c, p) /\ pc[p] = "exit"
      /\ UNCHANGED <<state, virtualRuntime, currentRuntime, spc, sproc, ipc>>
  BY DEF exit, GotoWith, rqVars, procVars, cpuVars, threadVars
<1>2. FairTypes
  BY FairTyped
<1>3. PICK l \in {"exit", "reparent"}, x \in {loc[p], NoLocals} :
        pc' = [pc EXCEPT ![p] = l] /\ loc' = [loc EXCEPT ![p] = x]
  <2>1. CASE p = initproc
    <3>1. UNCHANGED <<pc, loc>>
      BY <2>1 DEF exit, threadVars
    <3>2. QED
      BY <1>1, <1>2, <3>1 DEF FairTypes
  <2>2. CASE p # initproc
    BY <2>2 DEF exit, GotoWith
  <2>3. QED
    BY <2>1, <2>2
<1>4. l \in Labels \ (Blocking \cup Forking \cup {"alloc", "incr"})
  BY DEF Labels, Blocking, Forking
<1>5. QED
  BY <1>1, <1>2, <1>3, <1>4, PlainMove DEF FairTypes

\* Traps, and the ends of calls.
LEMMA PlainSteps ==
  ASSUME KernelInv, FairInv, NEW c \in CPUs, NEW p \in Procs,
         \/ forkret(c, p) \/ reparent(c, p) \/ trapout(c, p)
         \/ userDevice(c, p) \/ userFault(c, p) \/ userTimer(c, p)
  PROVE  FairInv'
<1>1. FairTypes /\ pc = [pc EXCEPT ![p] = pc[p]]
  BY FairTyped DEF FairTypes
<1> DEFINE ls == {"user", "exit", "reparent", "zombie", "charge", "trapout"}
           Plain == /\ OnCPU(c, p) /\ pc[p] \notin {"yield", "check", "yielded"}
                    /\ UNCHANGED <<state, virtualRuntime, currentRuntime, spc, sproc, ipc>>
                    /\ \A q \in Procs : q # p => loc'[q] = loc[q]
                    /\ \E l \in ls : pc' = [pc EXCEPT ![p] = l]
<1>2. ASSUME reparent(c, p) PROVE Plain
  BY <1>1, <1>2 DEF reparent, Goto, rqVars, procVars, threadVars, FairTypes
<1>3. ASSUME forkret(c, p) \/ trapout(c, p) PROVE Plain
  BY <1>1, <1>3 DEF forkret, trapout, Goto, GotoWith, rqVars, procVars, cpuVars, FairTypes
<1>4. ASSUME userDevice(c, p) \/ userFault(c, p) \/ userTimer(c, p) PROVE Plain
  BY <1>1, <1>4 DEF userDevice, userFault, userTimer, FromUser, EnterTrap, rqVars, procVars,
     cpuVars, FairTypes
<1>5. Plain
  BY <1>2, <1>3, <1>4
<1>6. PICK l \in ls : pc' = [pc EXCEPT ![p] = l]
  BY <1>5
<1>7. l \in Labels \ (Blocking \cup Forking \cup {"alloc", "incr"})
  BY DEF Labels, Blocking, Forking
<1>8. QED
  BY <1>5, <1>6, <1>7, PlainMove

\* Nobody sleeps, so kill() only marks.
LEMMA kill_Fair ==
  ASSUME KernelInv, FairInv, NEW c \in CPUs, NEW p \in Procs, kill(c, p)
  PROVE  FairInv'
<1>0. OnCPU(c, p) /\ pc[p] = "kill"
  BY DEF kill
<1>1. FairTypes /\ loc[p].idx \in Procs
  <2>1. ThreadOK(p, "kill", ipc[p], loc[p])
    BY <1>0, RunningThread
  <2>2. QED
    BY <2>1, FairTyped DEF ThreadOK
<1>2. state[loc[p].idx] # "SLEEPING"
  BY <1>1 DEF FairInv, FairOK
<1>3. UNCHANGED <<state, virtualRuntime, currentRuntime, spc, sproc, ipc>>
  BY <1>2 DEF kill, killWakes, SyscallReturn, GotoWith, rqVars, cpuVars
<1>4. PICK l \in {"trapout", "kill"} : pc' = [pc EXCEPT ![p] = l]
  BY DEF kill, SyscallReturn, GotoWith
<1>5. \A q \in Procs : q # p => loc'[q] = loc[q]
  BY <1>1 DEF kill, SyscallReturn, GotoWith, FairTypes
<1>6. l \in Labels \ (Blocking \cup Forking \cup {"alloc", "incr"})
  BY DEF Labels, Blocking, Forking
<1>7. QED
  BY <1>0, <1>3, <1>4, <1>5, <1>6, PlainMove

\* A step that changes nothing FairInv mentions.
LEMMA SameFair ==
  ASSUME FairInv,
         UNCHANGED <<state, virtualRuntime, currentRuntime, pc, ipc, loc>>,
         \A q \in Procs : Chosen(q)' => Chosen(q)
  PROVE  FairInv'
<1>1. \A q \in Procs : FairOK(q)'
  BY DEF FairInv, FairOK, Awake, At
<1>2. \A q, r \in Procs : PairOK(q, r)'
  BY DEF FairInv, PairOK, Awake
<1>3. QED
  BY <1>1, <1>2 DEF FairInv

\* wakeup() passes over every process.
LEMMA wakeup_Fair ==
  ASSUME KernelInv, FairInv, NEW c \in CPUs, wakeup(c)
  PROVE  FairInv'
<1>1. wk[c].idx \in Procs
  BY DEF wakeup, KernelInv, KernelTypes
<1>2. state[wk[c].idx] # "SLEEPING"
  BY <1>1 DEF FairInv, FairOK
<1>3. UNCHANGED <<state, virtualRuntime, currentRuntime, pc, ipc, loc, spc, sproc>>
  BY <1>2 DEF wakeup, threadVars, rqVars
<1>4. QED
  BY <1>3, SameFair DEF Chosen, Dispatches

\* usertrap loads the account, and stores it with 1 added.
LEMMA Charging ==
  ASSUME KernelInv, FairInv, NEW c \in CPUs, NEW p \in Procs, charge(c, p) \/ incr(c, p)
  PROVE  FairInv'
<1>0. OnCPU(c, p) /\ pc[p] \in {"charge", "incr"}
  BY DEF charge, incr
<1>1. /\ state[p] = "RUNNING" /\ FairOK(p) /\ FairTypes
      /\ ipc[p] = "none" /\ At(p) = pc[p] /\ currentRuntime[p] < Spread
  BY <1>0, FairThread
<1>2. CASE charge(c, p)
  <2>1. /\ UNCHANGED <<state, virtualRuntime, currentRuntime, spc, sproc, ipc>>
        /\ pc' = [pc EXCEPT ![p] = "incr"]
        /\ loc' = [loc EXCEPT ![p] = [NoLocals EXCEPT !.tmp = currentRuntime[p]]]
    BY <1>1, <1>2 DEF charge, GotoWith, rqVars, procVars, cpuVars
  <2>2. At(p)' = "incr"
    BY <1>1, <2>1 DEF At, FairTypes
  <2>3. loc'[p].tmp < Spread /\ \A q \in Procs : q # p => loc'[q] = loc[q]
    BY <1>1, <2>1 DEF FairTypes, NoLocals
  <2>4. QED
    BY <1>1, <2>1, <2>2, <2>3, GoesOn DEF Labels, Forking, Blocking
<1>3. CASE incr(c, p)
  <2>1. /\ UNCHANGED <<state, virtualRuntime, spc, sproc, ipc>>
        /\ pc' = [pc EXCEPT ![p] = "yield"] /\ loc' = [loc EXCEPT ![p] = NoLocals]
        /\ currentRuntime' = [currentRuntime EXCEPT ![p] = loc[p].tmp + 1]
    BY <1>3 DEF incr, GotoWith, rqVars, cpuVars
  <2>2. At(p)' = "yield"
    BY <1>1, <2>1 DEF At, FairTypes
  <2>3. currentRuntime'[p] <= Spread
    <3>1. loc[p].tmp \in Nat /\ loc[p].tmp < Spread
      BY <1>1, <1>3 DEF incr, FairTypes, FairOK, LocalsType
    <3>2. QED
      BY <1>1, <2>1, <3>1 DEF FairTypes
  <2>4. Alone(p)
    BY <1>1, <2>1 DEF Alone, FairTypes
  <2>5. FairOK(p)'
    BY <1>1, <2>1, <2>2, <2>3 DEF FairOK, Awake, Forking, Blocking
  <2>6. QED
    BY <1>1, <2>4, <2>5, AloneOK
<1>4. QED
  BY <1>2, <1>3

-----------------------------------------------------------------------------
(* fork(), in which nobody is preempted.                                   *)

\* A process that forks is in its first slice.
LEMMA syscall_Fair ==
  ASSUME KernelInv, FairInv, NEW c \in CPUs, NEW p \in Procs, syscall(c, p),
         Traps \cap {"sleep", "wait"} = {}, MaxForkRuntime <= MinGranularity
  PROVE  FairInv'
<1>0. OnCPU(c, p) /\ pc[p] = "user"
  BY DEF syscall, FromUser
<1>1. /\ state[p] = "RUNNING" /\ FairOK(p) /\ FairTypes
      /\ ipc[p] = "none" /\ currentRuntime[p] < Spread
  BY <1>0, FairThread
<1>2. UNCHANGED <<state, virtualRuntime, currentRuntime, spc, sproc>>
  BY DEF syscall, rqVars, procVars, cpuVars
<1>3. /\ ipc' = ipc /\ \A q \in Procs : q # p => loc'[q] = loc[q]
  BY <1>1 DEF syscall, Dispatch, EnterTrap, FairTypes
<1>4. CASE ~killed[p] /\ mayFork(p) /\ pc' = [pc EXCEPT ![p] = "alloc"]
  <2>1. virtualRuntime[p] = 0 /\ currentRuntime[p] < MinGranularity
    BY <1>1, <1>4, PidAssumption DEF mayFork, FairTypes, FairOK, Awake
  <2>2. At(p)' = "alloc"
    BY <1>1, <1>3, <1>4 DEF At, FairTypes
  <2>3. QED
    BY <1>1, <1>2, <1>3, <1>4, <2>1, <2>2, GoesOn DEF Labels, Blocking, Forking
<1>5. CASE \E l \in {"exit", "kill", "trapout"} : pc' = [pc EXCEPT ![p] = l]
  <2>1. PICK l \in {"exit", "kill", "trapout"} : pc' = [pc EXCEPT ![p] = l]
    BY <1>5
  <2>2. l \in Labels \ (Blocking \cup Forking \cup {"alloc", "incr"})
    BY DEF Labels, Blocking, Forking
  <2>3. QED
    BY <1>0, <1>2, <1>3, <2>1, <2>2, PlainMove
<1>6. \/ ~killed[p] /\ mayFork(p) /\ pc' = [pc EXCEPT ![p] = "alloc"]
      \/ \E l \in {"exit", "kill", "trapout"} : pc' = [pc EXCEPT ![p] = l]
  <2>1. "sleep" \notin Traps /\ "wait" \notin Traps
    OBVIOUS
  <2>2. QED
    BY <2>1 DEF syscall, Dispatch, EnterTrap
<1>7. QED
  BY <1>4, <1>5, <1>6

\* allocproc() looks at the next slot, fork() sets the parent of the child.
LEMMA ForkMoves ==
  ASSUME KernelInv, FairInv, NEW c \in CPUs, NEW p \in Procs,
         allocproc(c, p) \/ forkParent(c, p) \/ forkInsert(c, p)
  PROVE  FairInv'
<1>0. OnCPU(c, p) /\ pc[p] \in {"alloc", "forkparent", "forkinsert"}
  BY DEF allocproc, forkParent, forkInsert
<1>1. /\ state[p] = "RUNNING" /\ FairOK(p) /\ FairTypes
      /\ ipc[p] = "none" /\ At(p) = pc[p] /\ currentRuntime[p] < Spread
  BY <1>0, FairThread
<1>2. virtualRuntime[p] = 0 /\ currentRuntime[p] < MinGranularity
  BY <1>0, <1>1 DEF FairOK, Forking
<1>3. CASE forkParent(c, p)
  <2>1. /\ UNCHANGED <<state, virtualRuntime, currentRuntime, spc, sproc, ipc, loc>>
        /\ pc' = [pc EXCEPT ![p] = "forkrun"] /\ pc[p] = "forkparent"
    BY <1>3 DEF forkParent, Goto, rqVars, procVars, cpuVars
  <2>2. At(p)' = "forkrun"
    BY <1>1, <2>1 DEF At, FairTypes
  <2>3. virtualRuntime[loc[p].np] = 0 /\ currentRuntime[loc[p].np] = 0
    BY <1>1, <2>1 DEF FairOK, Forking
  <2>4. QED
    BY <1>1, <1>2, <2>1, <2>2, <2>3, GoesOn DEF Labels, Blocking
<1>4. CASE allocproc(c, p)
  <2>1. /\ UNCHANGED <<state, virtualRuntime, currentRuntime, spc, sproc, ipc>>
        /\ \A q \in Procs : q # p => loc'[q] = loc[q]
        /\ pc' = [pc EXCEPT ![p] = "trapout"] \/ pc' = [pc EXCEPT ![p] = "alloc"]
    BY <1>1, <1>4 DEF allocproc, SyscallReturn, GotoWith, rqVars, procVars, cpuVars, FairTypes
  <2>2. CASE pc' = [pc EXCEPT ![p] = "trapout"]
    BY <1>0, <2>1, <2>2, PlainMove DEF Labels, Blocking, Forking
  <2>3. CASE pc' = [pc EXCEPT ![p] = "alloc"]
    <3>1. At(p)' = "alloc"
      BY <1>1, <2>1, <2>3 DEF At, FairTypes
    <3>2. QED
      BY <1>1, <1>2, <2>1, <2>3, <3>1, GoesOn DEF Labels, Blocking, Forking
  <2>4. QED
    BY <2>1, <2>2, <2>3
<1>5. CASE forkInsert(c, p)
  <2>1. /\ UNCHANGED <<state, currentRuntime, spc, sproc, ipc>>
        /\ virtualRuntime' = [virtualRuntime EXCEPT ![loc[p].np] = virtualRuntime[loc[p].np]]
        /\ pc' = [pc EXCEPT ![p] = "trapout"] /\ loc' = [loc EXCEPT ![p] = NoLocals]
    BY <1>5 DEF forkInsert, insertProcess, SyscallReturn, GotoWith, procVars, cpuVars
  <2>2. virtualRuntime' = virtualRuntime /\ \A q \in Procs : q # p => loc'[q] = loc[q]
    BY <1>1, <2>1 DEF FairTypes
  <2>3. QED
    BY <1>0, <2>1, <2>2, PlainMove DEF Labels, Blocking, Forking
<1>6. QED
  BY <1>3, <1>4, <1>5

\* A free slot is filled, or given up again.
LEMMA SlotFair ==
  ASSUME KernelInv, FairInv, NEW c \in CPUs, NEW p \in Procs, forkAlloc(c, p) \/ forkFail(c, p)
  PROVE  FairInv'
<1>0. OnCPU(c, p) /\ pc[p] = "alloc"
  BY DEF forkAlloc, forkFail
<1>1. /\ state[p] = "RUNNING" /\ FairOK(p) /\ FairTypes
      /\ ipc[p] = "none" /\ At(p) = "alloc" /\ currentRuntime[p] < Spread
  BY <1>0, FairThread
<1>2. loc[p].idx \in Procs
  <2>1. ThreadOK(p, "alloc", ipc[p], loc[p])
    BY <1>0, RunningThread
  <2>2. QED
    BY <2>1 DEF ThreadOK
<1> PICK k \in Procs : k = loc[p].idx
  BY <1>2
<1>3. /\ state[k] = "UNUSED" /\ p # k
      /\ spc' = spc /\ sproc' = sproc
      /\ state' = [state EXCEPT ![k] = "USED"] \/ state' = [state EXCEPT ![k] = "UNUSED"]
      /\ \A q \in Procs : q # k => /\ virtualRuntime'[q] = virtualRuntime[q]
                                   /\ currentRuntime'[q] = currentRuntime[q]
      /\ \A q \in Procs : q # k /\ q # p =>
           pc'[q] = pc[q] /\ ipc'[q] = ipc[q] /\ loc'[q] = loc[q]
      /\ ipc'[p] = "none"
      /\ \/ /\ pc'[p] = "forkparent" /\ loc'[p].np = k /\ pc'[k] = "forkret" /\ ipc'[k] = "none"
            /\ virtualRuntime'[k] = 0 /\ currentRuntime'[k] = 0
         \/ pc'[p] = "trapout" /\ UNCHANGED <<pc[k], ipc[k], loc[k]>>
  <2>1. state[k] = "UNUSED" /\ p # k
    BY <1>1 DEF forkAlloc, forkFail
  <2>2. CASE forkAlloc(c, p)
    BY <1>1, <2>1, <2>2 DEF forkAlloc, allocFields, cpuVars, FairTypes, NoLocals
  <2>3. CASE forkFail(c, p)
    BY <1>1, <2>1, <2>3 DEF forkFail, freeproc, SyscallReturn, GotoWith, cpuVars, FairTypes
  <2>4. QED
    BY <2>2, <2>3
<1>4. \A q \in Procs : At(q) \in Forking => loc[q].np \in Procs /\ loc[q].np # k
  BY <1>3 DEF KernelInv, ForkOwnsChild
<1>5. ASSUME NEW q \in Procs, q # p, q # k
      PROVE  FairOK(q)'
  <2>1. At(q)' = At(q) /\ FairOK(q)
    BY <1>3, <1>5 DEF At, FairInv
  <2>2. state'[q] = state[q]
    BY <1>1, <1>3, <1>5 DEF FairTypes
  <2>3. QED
    BY <1>3, <1>4, <1>5, <2>1, <2>2 DEF FairOK, Awake
<1>6. FairOK(p)'
  <2>1. state'[p] = "RUNNING"
    BY <1>1, <1>3 DEF FairTypes
  <2>2. At(p)' \in {"forkparent", "trapout"} /\ At(p)' = pc'[p]
    BY <1>3 DEF At
  <2>3. QED
    BY <1>1, <1>3, <2>1, <2>2 DEF FairOK, Awake, Forking, Blocking
<1>7. FairOK(k)'
  <2>1. state'[k] \in {"USED", "UNUSED"}
    BY <1>1, <1>3 DEF FairTypes
  <2>2. ipc[k] = "none" /\ pc[k] \in {"forkret", "dead"}
    BY <1>3 DEF KernelInv, Threads, ThreadOK, LabelsOf
  <2>3. At(k)' \in {"forkret", "dead"}
    BY <1>3, <2>2 DEF At
  <2>4. QED
    BY <2>1, <2>3 DEF FairOK, Awake, Forking, Blocking
<1>8. ASSUME NEW q \in Procs, NEW r \in Procs
      PROVE  PairOK(q, r)'
  <2>1. \A x \in Procs : state'[x] \in {"RUNNABLE", "RUNNING"} => x # k /\ state'[x] = state[x]
    BY <1>1, <1>3 DEF FairTypes
  <2>2. Chosen(r)' => Chosen(r) \/ r = k
    BY <1>3, <2>1 DEF Chosen, Dispatches
  <2>3. PairOK(q, r)
    BY DEF FairInv
  <2>4. QED
    BY <1>3, <2>1, <2>2, <2>3 DEF PairOK, Awake
<1>9. QED
  BY <1>5, <1>6, <1>7, <1>8 DEF FairInv

\* The child becomes runnable: it is level with its parent, which nobody is ahead of
\* by more than the bound, and which nobody is behind.
LEMMA forkRunnable_Fair ==
  ASSUME KernelInv, FairInv, NCPU = 1, NEW c \in CPUs, NEW p \in Procs, forkRunnable(c, p)
  PROVE  FairInv'
<1>0. OnCPU(c, p) /\ pc[p] = "forkrun"
  BY DEF forkRunnable
<1>1. /\ state[p] = "RUNNING" /\ FairOK(p) /\ FairTypes
      /\ ipc[p] = "none" /\ At(p) = "forkrun" /\ currentRuntime[p] < Spread
  BY <1>0, FairThread
<1>2. loc[p].np \in Procs /\ state[loc[p].np] = "USED"
  BY <1>1 DEF KernelInv, ForkOwnsChild, Forking
<1> PICK k \in Procs : k = loc[p].np
  BY <1>2
<1>3. /\ virtualRuntime[p] = 0 /\ currentRuntime[p] < MinGranularity
      /\ virtualRuntime[k] = 0 /\ currentRuntime[k] = 0
      /\ k # p
  BY <1>1, <1>2 DEF FairOK, Forking
<1>4. /\ state' = [state EXCEPT ![k] = "RUNNABLE"] /\ pc' = [pc EXCEPT ![p] = "forkinsert"]
      /\ UNCHANGED <<virtualRuntime, currentRuntime, ipc, loc, spc, sproc>>
  BY DEF forkRunnable, Goto, rqVars, cpuVars
<1>5. ASSUME NEW q \in Procs
      PROVE  FairOK(q)'
  <2>1. FairOK(q)
    BY DEF FairInv
  <2>2. CASE q = k
    <3>1. At(k) = "forkret" /\ At(k)' = "forkret"
      <4>1. pc[k] = "forkret" /\ ipc[k] = "none"
        BY <1>2 DEF KernelInv, Threads, ThreadOK, LabelsOf
      <4>2. QED
        BY <1>1, <1>3, <1>4, <4>1 DEF At, FairTypes
    <3>2. QED
      BY <1>1, <1>3, <1>4, <2>2, <3>1 DEF FairOK, Awake, FairTypes, Forking, Blocking
  <2>3. CASE q = p
    <3>1. At(p)' = "forkinsert"
      BY <1>1, <1>4 DEF At, FairTypes
    <3>2. QED
      BY <1>1, <1>3, <1>4, <2>3, <3>1 DEF FairOK, Awake, FairTypes, Forking, Blocking
  <2>4. CASE q # p /\ q # k
    <3>1. At(q)' = At(q) /\ state'[q] = state[q]
      BY <1>1, <1>4, <2>4 DEF At, FairTypes
    <3>2. QED
      BY <1>4, <2>1, <3>1 DEF FairOK, Awake
  <2>5. QED
    BY <2>2, <2>3, <2>4
<1>6. ASSUME NEW q \in Procs, NEW r \in Procs
      PROVE  PairOK(q, r)'
  <2>1. Chosen(r)' => r = p
    <3>1. CPUs = {0} /\ c = 0
      BY DEF CPUs
    <3>2. spc[0] = "running"
      BY <1>0, <3>1 DEF OnCPU
    <3>3. Chosen(r)' => state[r] = "RUNNING"
      BY <1>1, <1>4, <3>1, <3>2 DEF Chosen, Dispatches, FairTypes
    <3>4. sproc[0] = p
      BY <1>0, <3>1, RunningThread
    <3>5. QED
      BY <3>3, <3>4, OneCPU
  <2>2. PairOK(q, r) /\ PairOK(p, r)
    BY DEF FairInv
  <2>3. \A x \in Procs : x # k => state'[x] = state[x]
    BY <1>1, <1>4 DEF FairTypes
  <2>4. Chosen(r)' => virtualRuntime'[r] <= virtualRuntime'[q]
    BY <1>1, <1>3, <1>4, <2>1 DEF FairTypes
  <2>5. Awake(q)' /\ Awake(r)' => virtualRuntime'[r] <= virtualRuntime'[q] + Spread
    <3>1. CASE r = k
      BY <1>1, <1>3, <1>4, <3>1 DEF FairTypes
    <3>2. CASE q = k /\ r # k
      BY <1>1, <1>3, <1>4, <2>2, <2>3, <3>2 DEF PairOK, Awake, FairTypes
    <3>3. CASE q # k /\ r # k
      BY <1>4, <2>2, <2>3, <3>3 DEF PairOK, Awake
    <3>4. QED
      BY <3>1, <3>2, <3>3
  <2>6. Spread' = Spread
    BY DEF Spread
  <2>7. QED
    BY <2>4, <2>5, <2>6 DEF PairOK
<1>7. QED
  BY <1>5, <1>6 DEF FairInv

-----------------------------------------------------------------------------
(* yield(), exit() and the scheduler.                                      *)

\* yield() returns to the code it was called from, or to user mode.
LEMMA YieldLeaves ==
  ASSUME KernelInv, FairInv, NEW c \in CPUs, NEW p \in Procs, OnCPU(c, p),
         pc[p] \in {"check", "yielded"}, currentRuntime[p] < Spread, yieldReturns(p),
         UNCHANGED <<state, virtualRuntime, currentRuntime, spc, sproc>>,
         \A q \in Procs : q # p => loc'[q] = loc[q],
         loc'[p].np = loc[p].np /\ loc'[p].tmp = loc[p].tmp
  PROVE  FairInv'
<1>1. state[p] = "RUNNING" /\ FairOK(p) /\ FairTypes
  BY FairThread
<1>2. /\ pc' = [pc EXCEPT ![p] = afterYield(p)] /\ ipc' = [ipc EXCEPT ![p] = "none"]
  BY DEF yieldReturns
<1>3. afterYield(p) \in Labels /\ At(p)' = afterYield(p)
  BY <1>1, <1>2 DEF afterYield, At, FairTypes, Labels
<1>4. At(p)' = At(p) \/ At(p)' \in {"yield", "user"}
  BY <1>3 DEF afterYield, At
<1>5. \A q \in Procs : q # p => ipc'[q] = ipc[q]
  BY <1>1, <1>2 DEF FairTypes
<1>6. CASE At(p)' = At(p)
  BY <1>1, <1>2, <1>3, <1>5, <1>6, GoesOn DEF FairOK
<1>7. CASE At(p)' \in {"yield", "user"}
  BY <1>1, <1>2, <1>3, <1>5, <1>7, GoesOn DEF Blocking, Forking
<1>8. QED
  BY <1>4, <1>6, <1>7

\* yield() takes p->lock, decides to go on, or comes back; a timer interrupt begins it.
LEMMA YieldFair ==
  ASSUME KernelInv, SliceInv, FairInv, NEW c \in CPUs, NEW p \in Procs,
         \/ yield(c, p) \/ yielded(c, p) \/ kernelTimer(c, p)
         \/ preempt(c, p) /\ ~checkPreemption(p, loc[p].minp)
  PROVE  FairInv'
<1>0. OnCPU(c, p)
  BY DEF yield, yielded, kernelTimer, preempt
<1>1. /\ state[p] = "RUNNING" /\ FairOK(p) /\ FairTypes
      /\ SliceOK(p) /\ maxExecutionTime[p] \in Nat /\ maxExecutionTime[p] <= Spread
  <2>1. state[p] = "RUNNING" /\ FairOK(p) /\ FairTypes /\ SliceOK(p)
    BY <1>0, FairThread DEF SliceInv
  <2>2. QED
    BY <2>1 DEF SliceOK, Chosen, Slices, Spread, FairTypes
<1>2. CASE yield(c, p)
  <2>1. /\ pc[p] = "yield" /\ pc' = [pc EXCEPT ![p] = "check"] /\ ipc' = ipc
        /\ \A q \in Procs : q # p => loc'[q] = loc[q]
        /\ loc'[p].np = loc[p].np /\ loc'[p].tmp = loc[p].tmp
        /\ UNCHANGED <<state, virtualRuntime, currentRuntime, spc, sproc>>
    BY <1>1, <1>2 DEF yield, GotoWith, rqVars, procVars, cpuVars, FairTypes, LocalsType
  <2>2. At(p)' = "check" \/ (At(p)' = At(p) /\ ipc[p] # "none")
    BY <1>1, <2>1 DEF At, FairTypes
  <2>3. CASE At(p)' = "check"
    BY <1>1, <2>1, <2>3, GoesOn DEF Labels, Blocking, Forking
  <2>4. CASE At(p)' = At(p)
    BY <1>1, <2>1, <2>4, GoesOn DEF FairOK, Labels
  <2>5. QED
    BY <2>2, <2>3, <2>4
<1>3. CASE kernelTimer(c, p)
  <2>1. /\ ipc[p] = "none" /\ pc[p] \in Unlocked /\ pc' = [pc EXCEPT ![p] = "yield"]
        /\ ipc' = [ipc EXCEPT ![p] = pc[p]] /\ loc' = loc
        /\ UNCHANGED <<state, virtualRuntime, currentRuntime, spc, sproc>>
    BY <1>3 DEF kernelTimer, rqVars, procVars
  <2>2. At(p)' = At(p) /\ \A q \in Procs : q # p => ipc'[q] = ipc[q]
    BY <1>1, <2>1 DEF At, FairTypes, Unlocked
  <2>3. QED
    BY <1>1, <2>1, <2>2, GoesOn DEF FairOK, Labels
<1>4. CASE yielded(c, p)
  <2>1. /\ pc[p] = "yielded" /\ yieldReturns(p) /\ loc' = loc
        /\ UNCHANGED <<state, virtualRuntime, currentRuntime, spc, sproc>>
    BY <1>4 DEF yielded, rqVars, procVars, cpuVars
  <2>2. currentRuntime[p] < Spread
    BY <1>1, <2>1 DEF SliceOK, FairTypes
  <2>3. QED
    BY <1>0, <2>1, <2>2, YieldLeaves
<1>5. CASE preempt(c, p) /\ ~checkPreemption(p, loc[p].minp)
  <2>1. /\ pc[p] = "check" /\ yieldReturns(p) /\ loc' = [loc EXCEPT ![p].minp = Null]
        /\ UNCHANGED <<state, virtualRuntime, currentRuntime, spc, sproc>>
    BY <1>5 DEF preempt, rqVars
  <2>2. currentRuntime[p] < Spread
    BY <1>1, <1>5, GranularityAssumption DEF checkPreemption, FairTypes, Spread
  <2>3. /\ \A q \in Procs : q # p => loc'[q] = loc[q]
        /\ loc'[p].np = loc[p].np /\ loc'[p].tmp = loc[p].tmp
    BY <1>1, <2>1 DEF FairTypes, LocalsType
  <2>4. QED
    BY <1>0, <2>1, <2>2, <2>3, YieldLeaves
<1>6. QED
  BY <1>2, <1>3, <1>4, <1>5

\* On one CPU nobody is chosen while its scheduler thread goes from one to the next.
LEMMA NobodyChosen ==
  ASSUME KernelInv, NCPU = 1, NEW q \in Procs, spc[0] \in {"after", "pick", "wfi"}
  PROVE  ~Chosen(q)
<1>1. CPUs = {0}
  BY DEF CPUs
<1>2. QED
  BY <1>1, OneCPU DEF Chosen, Dispatches

\* A process that is preempted had the least virtual runtime and adds no more than the
\* longest slice to it, and no less than a granule if anything.
LEMMA preempt_Fair ==
  ASSUME KernelInv, FairInv, NCPU = 1, NEW c \in CPUs, NEW p \in Procs,
         preempt(c, p), checkPreemption(p, loc[p].minp)
  PROVE  FairInv'
<1>0. OnCPU(c, p) /\ pc[p] = "check"
  BY DEF preempt
<1>1. state[p] = "RUNNING" /\ FairOK(p) /\ FairTypes
  BY <1>0, FairThread
<1>2. /\ state' = [state EXCEPT ![p] = "RUNNABLE"]
      /\ currentRuntime' = [currentRuntime EXCEPT ![p] = 0]
      /\ virtualRuntime' = [virtualRuntime EXCEPT ![p] = virtualRuntime[p] + currentRuntime[p]]
      /\ pc' = [pc EXCEPT ![p] = "yielded"] /\ ipc' = ipc
      /\ loc' = [loc EXCEPT ![p].minp = Null]
      /\ spc' = [spc EXCEPT ![c] = "after"]
  BY DEF preempt, requeue, insertProcess, sched
<1>3. At(p) \notin Forking \cup {"alloc"} /\ (currentRuntime[p] = 0 \/ currentRuntime[p] >= MinGranularity)
  <2>1. loc[p].minp # Null => loc[p].minp \in Procs
    BY <1>1 DEF FairTypes, LocalsType
  <2>2. \/ currentRuntime[p] >= MinGranularity
        \/ currentRuntime[p] = 0 /\ loc[p].minp \in Procs
                                 /\ virtualRuntime[p] > virtualRuntime[loc[p].minp]
    BY <2>1 DEF checkPreemption
  <2>3. currentRuntime[p] >= MinGranularity \/ virtualRuntime[p] > 0
    BY <1>1, <2>2 DEF FairTypes
  <2>4. QED
    BY <1>1, <2>2, <2>3 DEF FairOK, FairTypes
<1>4. ASSUME NEW q \in Procs
      PROVE  FairOK(q)'
  <2>1. FairOK(q)
    BY DEF FairInv
  <2>2. CASE q = p
    <3>1. At(p)' \in {At(p), "yielded"} /\ loc'[p].tmp = loc[p].tmp
      BY <1>1, <1>2 DEF At, FairTypes, LocalsType
    <3>2. state'[p] = "RUNNABLE" /\ currentRuntime'[p] = 0
      BY <1>1, <1>2 DEF FairTypes
    <3>3. virtualRuntime'[p] = 0 \/ virtualRuntime'[p] >= MinGranularity
      BY <1>1, <1>2, <1>3 DEF FairOK, Awake, FairTypes
    <3>4. At(p)' \notin Blocking \cup Forking \cup {"alloc"}
      BY <1>1, <1>3, <3>1 DEF FairOK, Blocking, Forking
    <3>5. At(p)' = "incr" => loc'[p].tmp < Spread
      BY <1>1, <3>1 DEF FairOK
    <3>6. Spread' = Spread
      BY DEF Spread
    <3>7. QED
      BY <2>2, <3>2, <3>3, <3>4, <3>5, <3>6 DEF FairOK
  <2>3. CASE q # p
    <3>1. /\ At(q)' = At(q) /\ loc'[q] = loc[q] /\ state'[q] = state[q]
          /\ virtualRuntime'[q] = virtualRuntime[q] /\ currentRuntime'[q] = currentRuntime[q]
      BY <1>1, <1>2, <2>3 DEF At, FairTypes
    <3>2. At(q) \in Forking => /\ virtualRuntime'[loc[q].np] = virtualRuntime[loc[q].np]
                               /\ currentRuntime'[loc[q].np] = currentRuntime[loc[q].np]
      <4>1. At(q) \in Forking => loc[q].np \in Procs /\ loc[q].np # p
        BY <1>1 DEF KernelInv, ForkOwnsChild
      <4>2. QED
        BY <1>1, <1>2, <4>1 DEF FairTypes
    <3>3. QED
      BY <2>1, <3>1, <3>2 DEF FairOK, Awake
  <2>4. QED
    BY <2>2, <2>3
<1>5. ASSUME NEW q \in Procs, NEW r \in Procs
      PROVE  PairOK(q, r)'
  <2>1. ~Chosen(r)'
    <3>1. CPUs = {0} /\ c = 0
      BY DEF CPUs
    <3>2. state'[r] # "RUNNING"
      <4>1. state[r] = "RUNNING" => r = p
        BY <1>0, <3>1, RunningThread, OneCPU
      <4>2. QED
        BY <1>1, <1>2, <4>1 DEF FairTypes
    <3>3. QED
      BY <1>1, <1>2, <3>1, <3>2 DEF Chosen, Dispatches, FairTypes
  <2>2. PairOK(q, r) /\ PairOK(q, p)
    BY DEF FairInv
  <2>3. ASSUME Awake(q)', Awake(r)'
        PROVE  virtualRuntime'[r] <= virtualRuntime'[q] + Spread
    <3>1. Awake(q) /\ Awake(r) /\ Chosen(p) /\ Awake(p)
      BY <1>1, <1>2, <2>3 DEF Awake, Chosen, FairTypes
    <3>2. CASE r = p /\ q # p
      BY <1>1, <1>2, <2>2, <3>1, <3>2 DEF PairOK, FairOK, FairTypes
    <3>3. CASE r # p
      BY <1>1, <1>2, <2>2, <3>1, <3>3 DEF PairOK, FairTypes
    <3>4. CASE r = p /\ q = p
      BY <1>1, <1>2, <3>4 DEF FairTypes
    <3>5. QED
      BY <3>2, <3>3, <3>4
  <2>4. QED
    BY <2>1, <2>3 DEF PairOK, Spread
<1>6. QED
  BY <1>4, <1>5 DEF FairInv

\* A zombie no longer competes.
LEMMA zombie_Fair ==
  ASSUME KernelInv, FairInv, NEW c \in CPUs, NEW p \in Procs, zombie(c, p)
  PROVE  FairInv'
<1>0. OnCPU(c, p) /\ pc[p] = "zombie"
  BY DEF zombie
<1>1. state[p] = "RUNNING" /\ FairOK(p) /\ FairTypes /\ ipc[p] = "none"
  BY <1>0, FairThread
<1>2. /\ state' = [state EXCEPT ![p] = "ZOMBIE"] /\ pc' = [pc EXCEPT ![p] = "dead"]
      /\ UNCHANGED <<virtualRuntime, currentRuntime, ipc, loc, sproc>>
      /\ spc' = [spc EXCEPT ![c] = "after"]
  BY DEF zombie, sched, rqVars
<1>3. ASSUME NEW q \in Procs
      PROVE  FairOK(q)'
  <2>1. CASE q = p
    <3>1. At(p)' = "dead" /\ state'[p] = "ZOMBIE"
      BY <1>1, <1>2 DEF At, FairTypes
    <3>2. QED
      BY <2>1, <3>1 DEF FairOK, Awake, Blocking, Forking
  <2>2. CASE q # p
    <3>1. At(q)' = At(q) /\ state'[q] = state[q] /\ FairOK(q)
      BY <1>1, <1>2, <2>2 DEF At, FairTypes, FairInv
    <3>2. QED
      BY <1>2, <3>1 DEF FairOK, Awake
  <2>3. QED
    BY <2>1, <2>2
<1>4. ASSUME NEW q \in Procs, NEW r \in Procs
      PROVE  PairOK(q, r)'
  <2>1. \A x \in Procs : state'[x] \in {"RUNNABLE", "RUNNING"} => state'[x] = state[x]
    BY <1>1, <1>2 DEF FairTypes
  <2>2. Chosen(r)' => Chosen(r)
    BY <1>1, <1>2, <2>1 DEF Chosen, Dispatches, FairTypes
  <2>3. PairOK(q, r)
    BY DEF FairInv
  <2>4. QED
    BY <1>2, <2>1, <2>2, <2>3 DEF PairOK, Awake
<1>5. QED
  BY <1>3, <1>4 DEF FairInv

\* The process that is taken out of the tree has the least virtual runtime of all that
\* are awake: on one CPU these are in the tree while the scheduler picks.
LEMMA pick_Fair ==
  ASSUME KernelInv, FairInv, NCPU = 1, NEW c \in CPUs, pick(c)
  PROVE  FairInv'
<1>1. FairTypes /\ CPUs = {0} /\ c = 0
  BY FairTyped DEF CPUs
<1>2. spc[0] = "pick" /\ UNCHANGED <<state, currentRuntime, pc, ipc, loc>>
  BY <1>1 DEF pick, procVars, threadVars
<1>3. CASE queue # << >> /\ state[Head(queue)] = "RUNNABLE"
  <2>1. /\ virtualRuntime' = virtualRuntime
        /\ spc' = [spc EXCEPT ![0] = "lock"] /\ sproc' = [sproc EXCEPT ![0] = Head(queue)]
    BY <1>1, <1>3 DEF pick, retrieveProcess
  <2>2. queue \in Seq(Procs) /\ QueueOrdered
    BY DEF KernelInv, RQInv, RQTypeOK
  <2>3. ASSUME NEW q \in Procs, Awake(q)
        PROVE  virtualRuntime[Head(queue)] <= virtualRuntime[q]
    <3>1. ~Chosen(q)
      BY <1>2, NobodyChosen
    <3>2. state[q] = "RUNNABLE"
      BY <2>3, <3>1 DEF Awake, Chosen
    <3>3. ASSUME NEW f \in Procs, At(f) = "forkinsert"
          PROVE  FALSE
      <4>1. state[f] = "RUNNING"
        BY <3>3 DEF FairInv, FairOK, Forking
      <4>2. QED
        BY <1>2, <4>1, OneCPU
    <3>4. q \in Queued(queue)
      BY <3>1, <3>2, <3>3 DEF KernelInv, ReadyPlaces, Chosen
    <3>5. PICK i \in DOMAIN queue : queue[i] = q
      BY <3>4 DEF Queued
    <3>6. 1 \in DOMAIN queue /\ 1 <= i /\ Head(queue) = queue[1]
      BY <2>2, <3>5
    <3>7. QED
      BY <2>2, <3>5, <3>6 DEF QueueOrdered
  <2>4. \A q \in Procs : FairOK(q)'
    BY <1>2, <2>1 DEF FairInv, FairOK, Awake, At
  <2>5. ASSUME NEW q \in Procs, NEW r \in Procs
        PROVE  PairOK(q, r)'
    <3>1. PairOK(q, r) /\ ~Chosen(r)
      BY <1>2, NobodyChosen DEF FairInv
    <3>2. Chosen(r)' => r = Head(queue)
      BY <1>1, <1>2, <2>1, <3>1 DEF Chosen, Dispatches, FairTypes
    <3>3. QED
      BY <1>2, <2>1, <2>3, <3>1, <3>2 DEF PairOK, Awake
  <2>6. QED
    BY <2>4, <2>5 DEF FairInv
<1>4. CASE ~(queue # << >> /\ state[Head(queue)] = "RUNNABLE")
  <2>1. /\ UNCHANGED <<virtualRuntime, sproc>>
        /\ spc' = [spc EXCEPT ![0] = IF found[0] THEN "pick" ELSE "wfi"]
    BY <1>1, <1>4 DEF pick
  <2>2. \A q \in Procs : Chosen(q)' => Chosen(q)
    BY <1>1, <1>2, <2>1 DEF Chosen, Dispatches, FairTypes
  <2>3. QED
    BY <1>2, <2>1, <2>2, SameFair
<1>5. QED
  BY <1>3, <1>4

\* The scheduler goes on to start the process, and comes back from it.
LEMMA SchedulerFair ==
  ASSUME KernelInv, FairInv, NEW c \in CPUs,
         lockPicked(c) \/ switchTo(c) \/ switchedBack(c) \/ schedTimer(c)
  PROVE  FairInv'
<1>1. FairTypes
  BY FairTyped
<1>2. CASE lockPicked(c) \/ switchedBack(c) \/ schedTimer(c)
  <2>1. /\ UNCHANGED <<state, virtualRuntime, currentRuntime, pc, ipc, loc>>
        /\ \A d \in CPUs : spc'[d] \in {"lock", "start"} =>
             sproc'[d] = sproc[d] /\ spc[d] \in {"lock", "start"}
    <3>1. CASE lockPicked(c)
      BY <1>1, <3>1 DEF lockPicked, rqVars, procVars, threadVars, FairTypes
    <3>2. CASE switchedBack(c)
      BY <1>1, <3>2 DEF switchedBack, rqVars, procVars, threadVars, FairTypes
    <3>3. CASE schedTimer(c)
      BY <1>1, <3>3 DEF schedTimer, rqVars, procVars, threadVars, FairTypes
    <3>4. QED
      BY <1>2, <3>1, <3>2, <3>3
  <2>2. \A q \in Procs : Chosen(q)' => Chosen(q)
    BY <2>1 DEF Chosen, Dispatches
  <2>3. QED
    BY <2>1, <2>2, SameFair
<1>3. CASE switchTo(c)
  <2>1. spc[c] = "start" /\ sproc[c] \in Procs /\ state[sproc[c]] = "RUNNABLE"
    BY <1>3 DEF switchTo, KernelInv, SchedulerLocals
  <2> PICK p \in Procs : p = sproc[c]
    BY <2>1
  <2>2. /\ state' = [state EXCEPT ![p] = "RUNNING"] /\ spc' = [spc EXCEPT ![c] = "running"]
        /\ UNCHANGED <<virtualRuntime, currentRuntime, pc, ipc, loc, sproc>>
    BY <1>3 DEF switchTo, rqVars, threadVars
  <2>3. ASSUME NEW q \in Procs
        PROVE  FairOK(q)'
    <3>1. FairOK(q) /\ At(q)' = At(q)
      BY <2>2 DEF FairInv, At
    <3>2. CASE q = p
      BY <1>1, <2>1, <2>2, <3>1, <3>2 DEF FairOK, Awake, FairTypes
    <3>3. CASE q # p
      <4>1. state'[q] = state[q]
        BY <1>1, <2>2, <3>3 DEF FairTypes
      <4>2. QED
        BY <2>2, <3>1, <4>1 DEF FairOK, Awake
    <3>4. QED
      BY <3>2, <3>3
  <2>4. ASSUME NEW q \in Procs, NEW r \in Procs
        PROVE  PairOK(q, r)'
    <3>1. Awake(q)' <=> Awake(q)
      BY <1>1, <2>1, <2>2 DEF Awake, FairTypes
    <3>2. Awake(r)' <=> Awake(r)
      BY <1>1, <2>1, <2>2 DEF Awake, FairTypes
    <3>3. Chosen(r)' => Chosen(r)
      BY <1>1, <2>1, <2>2 DEF Chosen, Dispatches, FairTypes
    <3>4. PairOK(q, r)
      BY DEF FairInv
    <3>5. Spread' = Spread
      BY DEF Spread
    <3>6. QED
      BY <2>2, <3>1, <3>2, <3>3, <3>4, <3>5 DEF PairOK
  <2>5. QED
    BY <2>3, <2>4 DEF FairInv
<1>4. QED
  BY <1>2, <1>3

\* Every step of a thread, its timer or its user program.
LEMMA FairThreads ==
  ASSUME KernelInv, SliceInv, FairInv, NCPU = 1, NEW c \in CPUs, NEW p \in Procs,
         Traps \cap {"sleep", "wait"} = {}, MaxForkRuntime <= MinGranularity,
         \/ ThreadStep(c, p) \/ YieldStep(c, p) \/ UserTrap(c, p)
         \/ userTimer(c, p) \/ kernelTimer(c, p)
  PROVE  FairInv'
<1>1. ASSUME \/ sleep(c, p) \/ slept(c, p) \/ relock(c, p) \/ sys_sleep(c, p) \/ sleepcheck(c, p)
             \/ wait(c, p) \/ waitChild(c, p) \/ waitSleep(c, p)
      PROVE  FALSE
  <2>1. OnCPU(c, p) /\ pc[p] \in Blocking
    BY <1>1 DEF sleep, slept, relock, sys_sleep, sleepcheck, wait, waitChild, waitSleep, Blocking
  <2>2. QED
    BY <2>1, FairThread
<1>2. CASE SleepStep(c, p)
  BY <1>1, <1>2, kill_Fair DEF SleepStep
<1>3. CASE LifecycleStep(c, p)
  BY <1>1, <1>3, ForkMoves, SlotFair, forkRunnable_Fair, PlainSteps, exit_Fair, zombie_Fair
     DEF LifecycleStep
<1>4. CASE TrapStep(c, p)
  BY <1>4, PlainSteps, Charging DEF TrapStep
<1>5. CASE YieldStep(c, p)
  BY <1>5, YieldFair, preempt_Fair DEF YieldStep
<1>6. CASE UserTrap(c, p) \/ userTimer(c, p) \/ kernelTimer(c, p)
  BY <1>6, syscall_Fair, PlainSteps, YieldFair DEF UserTrap
<1>7. QED
  BY <1>2, <1>3, <1>4, <1>5, <1>6 DEF ThreadStep

\* On one CPU, while nobody calls sleep() or wait() and a process forks in its first
\* slice only, the processes that want the CPU stay within a slice and a granule of
\* each other.  FairInv is inductive relative to KernelInv and SliceInv.
THEOREM SharedEvenly ==
  ASSUME NCPU = 1, Traps \cap {"sleep", "wait"} = {}, MaxForkRuntime <= MinGranularity
  PROVE  Spec => []FairSpread
<1>1. Init => FairInv
  <2> SUFFICES ASSUME Init
               PROVE  FairInv
    OBVIOUS
  <2>1. ASSUME NEW p \in Procs
        PROVE  /\ virtualRuntime[p] = 0 /\ currentRuntime[p] = 0 /\ At(p) = "forkret"
               /\ state[p] \in {"RUNNABLE", "UNUSED"}
    BY DEF Init, procinit, userinit, At
  <2>2. Spread \in Nat
    BY GranularityAssumption DEF Spread
  <2>3. \A p \in Procs : FairOK(p)
    BY <2>1 DEF FairOK, Forking, Blocking
  <2>4. \A p, q \in Procs : PairOK(p, q)
    BY <2>1, <2>2 DEF PairOK
  <2>5. QED
    BY <2>3, <2>4 DEF FairInv
<1>2. KernelInv /\ SliceInv /\ FairInv /\ [Next]_vars => FairInv'
  <2> SUFFICES ASSUME KernelInv, SliceInv, FairInv, [Next]_vars
               PROVE  FairInv'
    OBVIOUS
  <2>1. ASSUME NEW c \in CPUs, KernelStep(c) \/ Timer(c)
        PROVE  FairInv'
    BY <2>1, pick_Fair, SchedulerFair, wakeup_Fair, FairThreads
       DEF KernelStep, Timer, SchedulerStep
  <2>2. ASSUME NEW c \in CPUs, NEW p \in Procs, UserTrap(c, p)
        PROVE  FairInv'
    BY <2>2, FairThreads
  <2>3. CASE Stay \/ UNCHANGED vars
    <3>1. UNCHANGED <<state, virtualRuntime, currentRuntime, pc, ipc, loc, spc, sproc>>
      BY <2>3 DEF Stay, vars, rqVars, procVars, cpuVars, threadVars
    <3>2. QED
      BY <3>1, SameFair DEF Chosen, Dispatches
  <2>4. QED
    BY <2>1, <2>2, <2>3 DEF Next
<1>3. KernelInv /\ FairInv => FairSpread
  <2> SUFFICES ASSUME KernelInv, FairInv, NEW p \in Procs, NEW q \in Procs,
                      {state[p], state[q]} \subseteq {"RUNNABLE", "RUNNING"}
               PROVE  virtualRuntime[q] + currentRuntime[q]
                        <= virtualRuntime[p] + Latency + MinGranularity
    BY DEF FairSpread
  <2>1. FairTypes /\ Awake(p) /\ Awake(q) /\ FairOK(q) /\ PairOK(p, q)
    BY FairTyped DEF Awake, FairInv
  <2>2. CASE state[q] = "RUNNABLE"
    BY <2>1, <2>2 DEF FairOK, PairOK, FairTypes, Spread
  <2>3. CASE state[q] = "RUNNING"
    <3>1. Chosen(q)
      BY <2>3 DEF Chosen
    <3>2. QED
      BY <2>1, <2>3, <3>1 DEF FairOK, PairOK, FairTypes, Spread
  <2>4. QED
    BY <2>1, <2>2, <2>3 DEF Awake
<1>4. QED
  BY <1>1, <1>2, <1>3, KernelInvariant, SliceInvariant, PTL DEF Spec
=============================================================================
