----------------------------- MODULE Scheduler -----------------------------
(***************************************************************************)
(* scheduler(), sched(), yield() and checkPreemption() of proc.c.          *)
(***************************************************************************)
EXTENDS KernelState

\* Outer and inner loop of scheduler(): retrieveProcess(procTree).  When the
\* minimum is not RUNNABLE retrieveProcess has already stretched the period.
pick(c) ==
  /\ InScheduler(c)
  /\ spc[c] = "pick"
  /\ IF queue # << >> /\ state[Head(queue)] = "RUNNABLE"
     THEN /\ retrieveProcess
          /\ spc' = [spc EXCEPT ![c] = "lock"]
          /\ sproc' = [sproc EXCEPT ![c] = Head(queue)]
          /\ UNCHANGED found
     ELSE /\ period' = PeriodFor(Len(queue), period)
          /\ spc' = [spc EXCEPT ![c] = IF found[c] THEN "pick" ELSE "wfi"]
          /\ found' = [found EXCEPT ![c] = FALSE]
          /\ UNCHANGED <<queue, treeWeight, virtualRuntime, maxExecutionTime, sproc>>
  /\ UNCHANGED <<procVars, idVars, lockVars, cproc, wk, threadVars, ticks, panicked>>

\* acquire(&p->lock) and the test of p->state.
lockPicked(c) ==
  LET p == sproc[c]
  IN  /\ InScheduler(c)
      /\ spc[c] = "lock"
      /\ plock[p] = NoCPU
      /\ IF state[p] = "RUNNABLE"
         THEN /\ plock' = Lock(plock, p, c)
              /\ spc' = [spc EXCEPT ![c] = "start"]
              /\ UNCHANGED sproc
         ELSE /\ spc' = [spc EXCEPT ![c] = "pick"]
              /\ sproc' = [sproc EXCEPT ![c] = Null]
              /\ UNCHANGED plock
      /\ UNCHANGED <<rqVars, procVars, idVars, tickslock, wait_lock, cproc, found,
                     wk, threadVars, ticks, panicked>>

\* startTick is read under tickslock, with p->lock held; then swtch to p.
switchTo(c) ==
  LET p == sproc[c]
  IN  /\ InScheduler(c)
      /\ spc[c] = "start"
      /\ tickslock = NoCPU
      /\ state' = [state EXCEPT ![p] = "RUNNING"]
      /\ cproc' = [cproc EXCEPT ![c] = p]
      /\ spc' = [spc EXCEPT ![c] = "running"]
      /\ UNCHANGED <<rqVars, chan, killed, currentRuntime, idVars, lockVars, sproc,
                     found, wk, threadVars, ticks, panicked>>

\* Back from swtch: endTick is read under tickslock, p->lock is released.
switchedBack(c) ==
  LET p == sproc[c]
  IN  /\ InScheduler(c)
      /\ spc[c] = "after"
      /\ tickslock = NoCPU
      /\ cproc' = [cproc EXCEPT ![c] = Null]
      /\ found' = [found EXCEPT ![c] = TRUE]
      /\ plock' = Unlock(plock, p)
      /\ spc' = [spc EXCEPT ![c] = "pick"]
      /\ sproc' = [sproc EXCEPT ![c] = Null]
      /\ UNCHANGED <<rqVars, procVars, idVars, tickslock, wait_lock, wk, threadVars,
                     ticks, panicked>>

-----------------------------------------------------------------------------
\* sched(): switch to the scheduler thread; p goes on at label l when it is
\* scheduled again.  The caller still holds p->lock, so this is part of the
\* caller's step; the tests are made on the state the caller leaves.
sched(c, p, l) ==
  /\ spc' = [spc EXCEPT ![c] = "after"]
  /\ pc' = [pc EXCEPT ![p] = l]
  /\ panicked' = IF plock'[p] # c THEN "sched p->lock"
                 ELSE IF noff(c)' # 1 THEN "sched locks"
                 ELSE IF state'[p] = "RUNNING" THEN "sched running"
                 ELSE panicked

\* Mutants: the slice may be overrun by one; only the slice counts.
checkPreemption_LateByOne(p, m) ==
  currentRuntime[p] > maxExecutionTime[p] /\ currentRuntime[p] >= MinGranularity
checkPreemption_SliceOnly(p, m) ==
  currentRuntime[p] >= maxExecutionTime[p] /\ currentRuntime[p] >= MinGranularity

\* checkPreemption(current, minvRuntime).
checkPreemption(p, m) ==
  LET ran == currentRuntime[p]
  IN  \/ ran >= maxExecutionTime[p] /\ ran >= MinGranularity
      \/ /\ m # Null
         /\ state[m] = "RUNNABLE" /\ virtualRuntime[p] > virtualRuntime[m]
         /\ ran = 0 \/ ran >= MinGranularity

\* yield(): take p->lock and read procTree->minvRuntime without tree->lock.
yield(c, p) ==
  /\ OnCPU(c, p)
  /\ pc[p] = "yield"
  /\ plock[p] = NoCPU
  /\ plock' = Lock(plock, p, c)
  /\ GotoWith(p, "check", [loc[p] EXCEPT !.minp = IF queue = << >> THEN Null
                                                  ELSE Head(queue)])
  /\ UNCHANGED <<rqVars, procVars, idVars, tickslock, wait_lock, cpuVars, ticks, panicked>>

\* Where yield() returns to: the code kerneltrap interrupted, the second
\* yield of usertrap, or user space.
afterYield(p) ==
  IF ipc[p] # "none" THEN ipc[p] ELSE IF again[p] THEN "yield" ELSE "user"

yieldReturns(p) ==
  /\ pc' = [pc EXCEPT ![p] = afterYield(p)]
  /\ ipc' = [ipc EXCEPT ![p] = "none"]
  /\ again' = [again EXCEPT ![p] = FALSE]

\* Mutant: p gives up the CPU and is not inserted.
requeue_NotInserted(p) ==
  /\ state' = [state EXCEPT ![p] = "RUNNABLE"]
  /\ UNCHANGED <<rqVars, currentRuntime>>

\* What yield() does to a process it preempts: the runtime is folded into its
\* key and it goes back into the tree.
requeue(p) ==
  /\ state' = [state EXCEPT ![p] = "RUNNABLE"]
  /\ currentRuntime' = [currentRuntime EXCEPT ![p] = 0]
  /\ insertProcess(p, virtualRuntime[p] + currentRuntime[p])

\* The rest of yield(): put p back into the tree and give up the CPU, or keep it.
preempt(c, p) ==
  /\ OnCPU(c, p)
  /\ pc[p] = "check"
  /\ loc' = [loc EXCEPT ![p].minp = Null]
  /\ IF checkPreemption(p, loc[p].minp)
     THEN /\ requeue(p)
          /\ UNCHANGED <<lockVars, ipc, again>>
          /\ sched(c, p, "yielded")
     ELSE /\ plock' = Unlock(plock, p)
          /\ yieldReturns(p)
          /\ UNCHANGED <<rqVars, state, currentRuntime, tickslock, wait_lock, spc,
                         panicked>>
  /\ UNCHANGED <<chan, killed, idVars, cproc, sproc, found, wk, intrOn, ticks>>

\* Scheduled again after yield: release p->lock and return.
yielded(c, p) ==
  /\ OnCPU(c, p)
  /\ pc[p] = "yielded"
  /\ plock' = Unlock(plock, p)
  /\ yieldReturns(p)
  /\ UNCHANGED <<rqVars, procVars, idVars, tickslock, wait_lock, cpuVars, intrOn, loc,
                 ticks, panicked>>

SchedulerStep(c) == pick(c) \/ lockPicked(c) \/ switchTo(c) \/ switchedBack(c)

YieldStep(c, p) == yield(c, p) \/ preempt(c, p) \/ yielded(c, p)
=============================================================================
