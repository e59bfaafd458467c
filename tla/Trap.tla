-------------------------------- MODULE Trap --------------------------------
(***************************************************************************)
(* usertrap(), usertrapret(), kerneltrap() and devintr() of trap.c, and    *)
(* syscall() of syscall.c: how the other parts are entered and left.       *)
(***************************************************************************)
EXTENDS Lifecycle

\* p traps from user mode.  The runtimes are bounded here: a process that has
\* run for MaxRuntime stays in user mode.
FromUser(c, p) ==
  /\ OnCPU(c, p)
  /\ pc[p] = "user"
  /\ virtualRuntime[p] + currentRuntime[p] < MaxRuntime

\* The entry of usertrap: where p goes on, whether interrupts are enabled, and
\* whether the trap is a timer interrupt.
EnterTrap(p, l, locals, intr, timer) ==
  /\ pc' = [pc EXCEPT ![p] = l]
  /\ loc' = [loc EXCEPT ![p] = locals]
  /\ intrOn' = [intrOn EXCEPT ![p] = intr]
  /\ again' = [again EXCEPT ![p] = timer]
  /\ UNCHANGED ipc

\* The bounds of the model on fork.
mayFork(p) ==
  nextpid <= MaxPid /\ virtualRuntime[p] + currentRuntime[p] < MaxForkRuntime

\* syscall(): the label and the locals with which each system call starts.
\* "other" is any call that changes nothing here (getpid, sbrk, setnice, ...).
Dispatch(p) ==
  \/ /\ "fork" \in Traps /\ mayFork(p)
     /\ EnterTrap(p, "alloc", [NoLocals EXCEPT !.idx = 1], TRUE, FALSE)
  \/ "exit" \in Traps /\ EnterTrap(p, "exit", NoLocals, TRUE, FALSE)
  \/ "wait" \in Traps /\ EnterTrap(p, "wait", NoLocals, TRUE, FALSE)
  \/ /\ "kill" \in Traps
     /\ \E k \in KillPids :
          EnterTrap(p, "kill", [NoLocals EXCEPT !.idx = 1, !.pid = k], TRUE, FALSE)
  \/ /\ "sleep" \in Traps
     /\ \E k \in SleepTimes :
          EnterTrap(p, "sys_sleep", [NoLocals EXCEPT !.n = k], TRUE, FALSE)
  \/ "other" \in Traps /\ EnterTrap(p, "trapout", NoLocals, TRUE, FALSE)

\* usertrap(), scause 8: a system call, unless the process has been killed.
syscall(c, p) ==
  /\ FromUser(c, p)
  /\ plock[p] = NoCPU
  /\ IF killed[p] THEN EnterTrap(p, "exit", NoLocals, FALSE, FALSE) ELSE Dispatch(p)
  /\ UNCHANGED <<rqVars, procVars, idVars, lockVars, cpuVars, ticks, panicked>>

\* usertrap(), a device interrupt; what the driver does is not modelled.
userDevice(c, p) ==
  /\ "device" \in Traps
  /\ FromUser(c, p)
  /\ EnterTrap(p, "trapout", NoLocals, FALSE, FALSE)
  /\ UNCHANGED <<rqVars, procVars, idVars, lockVars, cpuVars, ticks, panicked>>

\* usertrap(), an exception: setkilled(p).
userFault(c, p) ==
  /\ "fault" \in Traps
  /\ FromUser(c, p)
  /\ plock[p] = NoCPU
  /\ killed' = [killed EXCEPT ![p] = TRUE]
  /\ EnterTrap(p, "trapout", NoLocals, FALSE, FALSE)
  /\ UNCHANGED <<rqVars, state, chan, currentRuntime, idVars, lockVars, cpuVars, ticks,
                 panicked>>

\* usertrap(), a timer interrupt.
userTimer(c, p) ==
  /\ FromUser(c, p)
  /\ clockintr(c)
  /\ EnterTrap(p, "trapout", NoLocals, FALSE, TRUE)
  /\ UNCHANGED <<rqVars, procVars, idVars, plock, wait_lock, cproc, spc, sproc, found,
                 panicked>>

\* The labels at which a thread holds no lock.
Unlocked == {"alloc", "forkparent", "forkrun", "forkinsert", "exit", "wait", "kill",
             "sys_sleep", "relock", "trapout", "charge", "incr", "yield"}

\* kerneltrap(), a timer interrupt while a system call runs: it calls yield
\* and returns to where it interrupted.
kernelTimer(c, p) ==
  /\ OnCPU(c, p)
  /\ pc[p] \in Unlocked
  /\ intrOn[p] /\ ipc[p] = "none"
  /\ clockintr(c)
  /\ ipc' = [ipc EXCEPT ![p] = pc[p]]
  /\ pc' = [pc EXCEPT ![p] = "yield"]
  /\ UNCHANGED <<rqVars, procVars, idVars, plock, wait_lock, cproc, spc, sproc, found,
                 intrOn, again, loc, panicked>>

\* kerneltrap(), a timer interrupt in the scheduler thread: myproc() is 0.  On
\* a CPU other than 0 its only effect is to end wfi.
schedTimer(c) ==
  /\ InScheduler(c)
  /\ spc[c] \in (IF c = 0 THEN {"pick", "lock", "wfi"} ELSE {"wfi"})
  /\ clockintr(c)
  /\ spc' = [spc EXCEPT ![c] = IF @ = "wfi" THEN "pick" ELSE @]
  /\ UNCHANGED <<rqVars, procVars, idVars, plock, wait_lock, cproc, sproc, found,
                 threadVars, panicked>>

-----------------------------------------------------------------------------
\* Mutant: killed is not looked at.
trapout_IgnoresKilled(c, p) ==
  /\ OnCPU(c, p)
  /\ pc[p] = "trapout"
  /\ Goto(p, "charge")
  /\ UNCHANGED <<rqVars, procVars, idVars, lockVars, cpuVars, ticks, panicked>>

\* The end of usertrap(): exit if killed.
trapout(c, p) ==
  /\ OnCPU(c, p)
  /\ pc[p] = "trapout"
  /\ plock[p] = NoCPU
  /\ IF killed[p] THEN GotoWith(p, "exit", NoLocals) ELSE Goto(p, "charge")
  /\ UNCHANGED <<rqVars, procVars, idVars, lockVars, cpuVars, ticks, panicked>>

\* p->currentRuntime is loaded if p is RUNNING.  After a system call interrupts
\* are enabled, so that the load and the store of "p->currentRuntime += 1" are
\* two steps.
charge(c, p) ==
  /\ OnCPU(c, p)
  /\ pc[p] = "charge"
  /\ IF state[p] = "RUNNING"
     THEN GotoWith(p, "incr", [NoLocals EXCEPT !.tmp = currentRuntime[p]])
     ELSE /\ pc' = [pc EXCEPT ![p] = IF again[p] THEN "yield" ELSE "user"]
          /\ again' = [again EXCEPT ![p] = FALSE]
          /\ UNCHANGED <<ipc, intrOn, loc>>
  /\ UNCHANGED <<rqVars, procVars, idVars, lockVars, cpuVars, ticks, panicked>>

\* The store, and the call of yield.
incr(c, p) ==
  /\ OnCPU(c, p)
  /\ pc[p] = "incr"
  /\ currentRuntime' = [currentRuntime EXCEPT ![p] = loc[p].tmp + 1]
  /\ GotoWith(p, "yield", NoLocals)
  /\ UNCHANGED <<rqVars, state, chan, killed, idVars, lockVars, cpuVars, ticks, panicked>>

TrapStep(c, p) == trapout(c, p) \/ charge(c, p) \/ incr(c, p)

UserTrap(c, p) == syscall(c, p) \/ userDevice(c, p) \/ userFault(c, p)

Timer(c) ==
  \/ schedTimer(c)
  \/ \E p \in Procs : userTimer(c, p) \/ kernelTimer(c, p)
=============================================================================
