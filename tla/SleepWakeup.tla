---------------------------- MODULE SleepWakeup ----------------------------
(***************************************************************************)
(* sleep(), wakeup() and kill() of proc.c, sys_sleep() of sysproc.c and    *)
(* clockintr() of trap.c.                                                  *)
(***************************************************************************)
EXTENDS Scheduler

\* A sleeping process k is made runnable, its runtime folded into its key.
wake(k) ==
  /\ state' = [state EXCEPT ![k] = "RUNNABLE"]
  /\ currentRuntime' = [currentRuntime EXCEPT ![k] = 0]
  /\ insertProcess(k, virtualRuntime[k] + currentRuntime[k])

\* CPU c begins wakeup(ch).
callWakeup(c, ch) == wk' = [wk EXCEPT ![c] = [idx |-> 1, chan |-> ch]]

\* One iteration of the loop of wakeup(); clockintr releases tickslock after
\* the last one.
wakeup(c) ==
  LET k == wk[c].idx
      last == k = NPROC
  IN  /\ panicked = "no"
      /\ k # 0
      /\ k # cproc[c] => plock[k] = NoCPU
      /\ IF k # cproc[c] /\ state[k] = "SLEEPING" /\ chan[k] = wk[c].chan
         THEN wake(k)
         ELSE UNCHANGED <<rqVars, state, currentRuntime>>
      /\ wk' = [wk EXCEPT ![c] = IF last THEN NoWake ELSE [@ EXCEPT !.idx = k + 1]]
      /\ tickslock' = IF last /\ wk[c].chan = TicksChan THEN NoCPU ELSE tickslock
      /\ UNCHANGED <<chan, killed, idVars, plock, wait_lock, cproc, spc, sproc, found,
                     threadVars, ticks, panicked>>

\* Mutants: ticks does not wrap; the sleepers are not woken.
clockintr_NoWrap(c) ==
  IF c = 0
  THEN /\ tickslock = NoCPU /\ tickslock' = c
       /\ ticks' = ticks + 1
       /\ callWakeup(c, TicksChan)
  ELSE UNCHANGED <<tickslock, ticks, wk>>
clockintr_NoWakeup(c) ==
  /\ tickslock = NoCPU
  /\ ticks' = IF c = 0 THEN (ticks + 1) % TickModulus ELSE ticks
  /\ UNCHANGED <<tickslock, wk>>

\* clockintr(): CPU 0 counts the tick and wakes the sleepers under tickslock.
clockintr(c) ==
  IF c = 0
  THEN /\ tickslock = NoCPU
       /\ tickslock' = c
       /\ ticks' = (ticks + 1) % TickModulus
       /\ callWakeup(c, TicksChan)
  ELSE UNCHANGED <<tickslock, ticks, wk>>

-----------------------------------------------------------------------------
\* sleep(chan, lk): p->lock is taken before lk is released.
sleep(c, p) ==
  LET onTicks == loc[p].lk = "tickslock"
  IN  /\ OnCPU(c, p)
      /\ pc[p] = "sleep"
      /\ plock[p] = NoCPU
      /\ plock' = Lock(plock, p, c)
      /\ IF onTicks THEN tickslock' = NoCPU /\ UNCHANGED wait_lock
                    ELSE wait_lock' = NoCPU /\ UNCHANGED tickslock
      /\ chan' = [chan EXCEPT ![p] = IF onTicks THEN TicksChan ELSE p]
      /\ state' = [state EXCEPT ![p] = "SLEEPING"]
      /\ sched(c, p, "slept")
      /\ UNCHANGED <<rqVars, killed, currentRuntime, idVars, cproc, sproc, found, wk,
                     ipc, intrOn, again, loc, ticks>>

\* Awake again: tidy up and release p->lock.
slept(c, p) ==
  /\ OnCPU(c, p)
  /\ pc[p] = "slept"
  /\ chan' = [chan EXCEPT ![p] = Null]
  /\ plock' = Unlock(plock, p)
  /\ Goto(p, "relock")
  /\ UNCHANGED <<rqVars, state, killed, currentRuntime, idVars, tickslock, wait_lock,
                 cpuVars, ticks, panicked>>

\* Reacquire lk and go back to the loop of sys_sleep or of wait.
relock(c, p) ==
  LET locals == [loc[p] EXCEPT !.lk = "none", !.idx = 0]
  IN  /\ OnCPU(c, p)
      /\ pc[p] = "relock"
      /\ IF loc[p].lk = "tickslock"
         THEN /\ tickslock = NoCPU /\ tickslock' = c
              /\ GotoWith(p, "sleepcheck", locals)
              /\ UNCHANGED wait_lock
         ELSE /\ wait_lock = NoCPU /\ wait_lock' = c
              /\ GotoWith(p, "waitscan", locals)
              /\ UNCHANGED tickslock
      /\ UNCHANGED <<rqVars, procVars, idVars, plock, cpuVars, ticks, panicked>>

-----------------------------------------------------------------------------
\* sys_sleep(): take tickslock and note the time.
sys_sleep(c, p) ==
  /\ OnCPU(c, p)
  /\ pc[p] = "sys_sleep"
  /\ tickslock = NoCPU
  /\ tickslock' = c
  /\ GotoWith(p, "sleepcheck", [loc[p] EXCEPT !.t0 = ticks])
  /\ UNCHANGED <<rqVars, procVars, idVars, plock, wait_lock, cpuVars, ticks, panicked>>

\* Mutant: ticks < ticks0 + n, which fails when ticks wraps around.
stillWaiting_NoWrap(p) == ticks < loc[p].t0 + loc[p].n

\* ticks - ticks0 < n, in unsigned arithmetic.
stillWaiting(p) == (ticks - loc[p].t0) % TickModulus < loc[p].n

\* Mutant: tickslock is released before the process sleeps.
sleepcheck_EarlyRelease(c, p) ==
  /\ OnCPU(c, p)
  /\ pc[p] = "sleepcheck"
  /\ plock[p] = NoCPU
  /\ IF stillWaiting(p) /\ ~killed[p]
     THEN GotoWith(p, "sleep", [loc[p] EXCEPT !.lk = "tickslock"])
     ELSE SyscallReturn(p)
  /\ tickslock' = NoCPU
  /\ UNCHANGED <<rqVars, procVars, idVars, plock, wait_lock, cpuVars, ticks, panicked>>

\* The loop of sys_sleep(), with tickslock held; killed() takes p->lock.
sleepcheck(c, p) ==
  /\ OnCPU(c, p)
  /\ pc[p] = "sleepcheck"
  /\ stillWaiting(p) => plock[p] = NoCPU
  /\ IF stillWaiting(p) /\ ~killed[p]
     THEN /\ GotoWith(p, "sleep", [loc[p] EXCEPT !.lk = "tickslock"])
          /\ UNCHANGED tickslock
     ELSE /\ SyscallReturn(p)
          /\ tickslock' = NoCPU
  /\ UNCHANGED <<rqVars, procVars, idVars, plock, wait_lock, cpuVars, ticks, panicked>>

\* Mutant: a runnable victim is inserted as well.
killWakes_Runnable(k) == state[k] \in {"SLEEPING", "RUNNABLE"}

\* The victims that kill takes out of sleep().
killWakes(k) == state[k] = "SLEEPING"

\* One iteration of the loop of kill(): the first slot with the pid is marked,
\* and woken if it sleeps.
kill(c, p) ==
  LET k == loc[p].idx
      match == pid[k] = loc[p].pid
  IN  /\ OnCPU(c, p)
      /\ pc[p] = "kill"
      /\ plock[k] = NoCPU
      /\ killed' = IF match THEN [killed EXCEPT ![k] = TRUE] ELSE killed
      /\ IF match /\ killWakes(k)
         THEN wake(k)
         ELSE UNCHANGED <<rqVars, state, currentRuntime>>
      /\ IF match \/ k = NPROC
         THEN SyscallReturn(p)
         ELSE GotoWith(p, "kill", [loc[p] EXCEPT !.idx = k + 1])
      /\ UNCHANGED <<chan, idVars, lockVars, cpuVars, ticks, panicked>>

SleepStep(c, p) ==
  \/ sleep(c, p) \/ slept(c, p) \/ relock(c, p)
  \/ sys_sleep(c, p) \/ sleepcheck(c, p) \/ kill(c, p)
=============================================================================
