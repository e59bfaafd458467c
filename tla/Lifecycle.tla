----------------------------- MODULE Lifecycle -----------------------------
(***************************************************************************)
(* allocproc(), freeproc(), fork(), reparent(), exit(), wait() and         *)
(* forkret() of proc.c.                                                    *)
(***************************************************************************)
EXTENDS SleepWakeup

Children(p) == {k \in Procs : parent[k] = p}

Least(S) == CHOOSE k \in S : \A j \in S : k <= j

\* freeproc(k); the runtime fields keep their values.
freeproc(k) ==
  /\ state' = [state EXCEPT ![k] = "UNUSED"]
  /\ pid' = [pid EXCEPT ![k] = 0]
  /\ parent' = [parent EXCEPT ![k] = Null]
  /\ chan' = [chan EXCEPT ![k] = Null]
  /\ killed' = [killed EXCEPT ![k] = FALSE]

\* The slot k is given out by allocproc and filled by fork: a pid, a fresh
\* runtime, and a context that starts at forkret.  killed is not touched.
allocFields(k) ==
  /\ pid' = [pid EXCEPT ![k] = nextpid]
  /\ state' = [state EXCEPT ![k] = "USED"]
  /\ virtualRuntime' = [virtualRuntime EXCEPT ![k] = 0]
  /\ currentRuntime' = [currentRuntime EXCEPT ![k] = 0]
  /\ maxExecutionTime' = [maxExecutionTime EXCEPT ![k] = 0]

-----------------------------------------------------------------------------
(* fork                                                                    *)

\* One iteration of the loop of allocproc() over the table: slot k is in use.
allocproc(c, p) ==
  LET k == loc[p].idx
  IN  /\ OnCPU(c, p)
      /\ pc[p] = "alloc"
      /\ plock[k] = NoCPU
      /\ state[k] # "UNUSED"
      /\ IF k = NPROC THEN SyscallReturn(p)
                      ELSE GotoWith(p, "alloc", [loc[p] EXCEPT !.idx = k + 1])
      /\ UNCHANGED <<rqVars, procVars, idVars, lockVars, cpuVars, ticks, panicked>>

\* Slot k is free; kalloc, proc_pagetable and uvmcopy succeed.
forkAlloc(c, p) ==
  LET k == loc[p].idx
  IN  /\ OnCPU(c, p)
      /\ pc[p] = "alloc"
      /\ plock[k] = NoCPU
      /\ state[k] = "UNUSED"
      /\ nextpid' = nextpid + 1
      /\ allocFields(k)
      /\ pc' = [pc EXCEPT ![p] = "forkparent", ![k] = "forkret"]
      /\ loc' = [loc EXCEPT ![p] = [NoLocals EXCEPT !.np = k], ![k] = NoLocals]
      /\ ipc' = [ipc EXCEPT ![k] = "none"]
      /\ intrOn' = [intrOn EXCEPT ![k] = FALSE]
      /\ again' = [again EXCEPT ![k] = FALSE]
      /\ UNCHANGED <<treeVars, chan, killed, parent, lockVars, cpuVars, ticks, panicked>>

\* Slot k is free but memory runs out: the pid is used up, the slot freed.  The
\* runtime fields have been cleared if only uvmcopy failed.
forkFail(c, p) ==
  LET k == loc[p].idx
  IN  /\ OnCPU(c, p)
      /\ pc[p] = "alloc"
      /\ plock[k] = NoCPU
      /\ state[k] = "UNUSED"
      /\ nextpid' = nextpid + 1
      /\ freeproc(k)
      /\ \/ UNCHANGED <<virtualRuntime, currentRuntime, maxExecutionTime>>
         \/ /\ virtualRuntime' = [virtualRuntime EXCEPT ![k] = 0]
            /\ currentRuntime' = [currentRuntime EXCEPT ![k] = 0]
            /\ maxExecutionTime' = [maxExecutionTime EXCEPT ![k] = 0]
      /\ SyscallReturn(p)
      /\ UNCHANGED <<treeVars, lockVars, cpuVars, ticks, panicked>>

\* np->parent = p under wait_lock.
forkParent(c, p) ==
  /\ OnCPU(c, p)
  /\ pc[p] = "forkparent"
  /\ wait_lock = NoCPU
  /\ parent' = [parent EXCEPT ![loc[p].np] = p]
  /\ Goto(p, "forkrun")
  /\ UNCHANGED <<rqVars, procVars, pid, nextpid, lockVars, cpuVars, ticks, panicked>>

\* np->state = RUNNABLE under np->lock.
forkRunnable(c, p) ==
  /\ OnCPU(c, p)
  /\ pc[p] = "forkrun"
  /\ plock[loc[p].np] = NoCPU
  /\ state' = [state EXCEPT ![loc[p].np] = "RUNNABLE"]
  /\ Goto(p, "forkinsert")
  /\ UNCHANGED <<rqVars, chan, killed, currentRuntime, idVars, lockVars, cpuVars, ticks,
                 panicked>>

\* insertProcess(procTree, np), with no lock but tree->lock.
forkInsert(c, p) ==
  /\ OnCPU(c, p)
  /\ pc[p] = "forkinsert"
  /\ insertProcess(loc[p].np, virtualRuntime[loc[p].np])
  /\ SyscallReturn(p)
  /\ UNCHANGED <<procVars, idVars, lockVars, cpuVars, ticks, panicked>>

\* forkret(): the first step of a new process, still holding p->lock.
forkret(c, p) ==
  /\ OnCPU(c, p)
  /\ pc[p] = "forkret"
  /\ plock' = Unlock(plock, p)
  /\ Goto(p, "user")
  /\ UNCHANGED <<rqVars, procVars, idVars, tickslock, wait_lock, cpuVars, ticks, panicked>>

-----------------------------------------------------------------------------
(* exit                                                                    *)

\* exit(): init must not exit; anyone else takes wait_lock.
exit(c, p) ==
  /\ OnCPU(c, p)
  /\ pc[p] = "exit"
  /\ IF p = initproc
     THEN /\ panicked' = "init exiting"
          /\ UNCHANGED <<wait_lock, threadVars>>
     ELSE /\ wait_lock = NoCPU
          /\ wait_lock' = c
          /\ GotoWith(p, "reparent", NoLocals)
          /\ UNCHANGED panicked
  /\ UNCHANGED <<rqVars, procVars, idVars, plock, tickslock, cpuVars, ticks>>

\* Mutants: the children stay with p; init is not told of its new child.
reparent_KeepsChildren(c, p) ==
  /\ OnCPU(c, p)
  /\ pc[p] = "reparent"
  /\ callWakeup(c, parent[p])
  /\ Goto(p, "zombie")
  /\ UNCHANGED <<rqVars, procVars, idVars, lockVars, cproc, spc, sproc, found, ticks,
                 panicked>>
reparent_SilentInit(c, p) ==
  /\ OnCPU(c, p)
  /\ pc[p] = "reparent"
  /\ IF Children(p) # {}
     THEN /\ parent' = [parent EXCEPT ![Least(Children(p))] = initproc]
          /\ UNCHANGED <<threadVars, wk>>
     ELSE /\ callWakeup(c, parent[p])
          /\ Goto(p, "zombie")
          /\ UNCHANGED parent
  /\ UNCHANGED <<rqVars, procVars, pid, nextpid, lockVars, cproc, spc, sproc, found,
                 ticks, panicked>>

\* reparent(p): the next child goes to init, which is woken; when none is left,
\* wakeup(p->parent).
reparent(c, p) ==
  /\ OnCPU(c, p)
  /\ pc[p] = "reparent"
  /\ IF Children(p) # {}
     THEN /\ parent' = [parent EXCEPT ![Least(Children(p))] = initproc]
          /\ callWakeup(c, initproc)
          /\ UNCHANGED threadVars
     ELSE /\ callWakeup(c, parent[p])
          /\ Goto(p, "zombie")
          /\ UNCHANGED parent
  /\ UNCHANGED <<rqVars, procVars, pid, nextpid, lockVars, cproc, spc, sproc, found,
                 ticks, panicked>>

\* Mutant: wait_lock is still held when sched() is called.
zombie_KeepsWaitLock(c, p) ==
  /\ OnCPU(c, p)
  /\ pc[p] = "zombie"
  /\ plock[p] = NoCPU
  /\ plock' = Lock(plock, p, c)
  /\ state' = [state EXCEPT ![p] = "ZOMBIE"]
  /\ UNCHANGED <<wait_lock, tickslock>>
  /\ sched(c, p, "dead")
  /\ UNCHANGED <<rqVars, chan, killed, currentRuntime, idVars, cproc, sproc, found, wk,
                 ipc, intrOn, again, loc, ticks>>

\* The rest of exit(): a zombie that holds p->lock until it is off its stack.
zombie(c, p) ==
  /\ OnCPU(c, p)
  /\ pc[p] = "zombie"
  /\ plock[p] = NoCPU
  /\ plock' = Lock(plock, p, c)
  /\ state' = [state EXCEPT ![p] = "ZOMBIE"]
  /\ wait_lock' = NoCPU
  /\ UNCHANGED tickslock
  /\ sched(c, p, "dead")
  /\ UNCHANGED <<rqVars, chan, killed, currentRuntime, idVars, cproc, sproc, found, wk,
                 ipc, intrOn, again, loc, ticks>>

-----------------------------------------------------------------------------
(* wait                                                                    *)

wait(c, p) ==
  /\ OnCPU(c, p)
  /\ pc[p] = "wait"
  /\ wait_lock = NoCPU
  /\ wait_lock' = c
  /\ GotoWith(p, "waitscan", NoLocals)
  /\ UNCHANGED <<rqVars, procVars, idVars, plock, tickslock, cpuVars, ticks, panicked>>

\* The children that the scan of the table has yet to look at.
NotScanned(p) == {k \in Children(p) : k > loc[p].idx}

\* Mutant: the lock of the child is not taken.
childLocked_Not(k) == TRUE

\* acquire(&pp->lock): "make sure the child isn't still in exit() or swtch()".
childLocked(k) == plock[k] = NoCPU

\* The next child is examined under its lock: a zombie is freed (or kept, when
\* copyout fails) and wait returns; any other child is passed over.
waitChild(c, p) ==
  LET k == Least(NotScanned(p))
  IN  /\ OnCPU(c, p)
      /\ pc[p] = "waitscan"
      /\ NotScanned(p) # {}
      /\ childLocked(k)
      /\ IF state[k] = "ZOMBIE"
         THEN /\ freeproc(k) \/ UNCHANGED <<state, pid, parent, chan, killed>>
              /\ wait_lock' = NoCPU
              /\ SyscallReturn(p)
         ELSE /\ GotoWith(p, "waitscan", [loc[p] EXCEPT !.idx = k])
              /\ UNCHANGED <<state, pid, parent, chan, killed, wait_lock>>
      /\ UNCHANGED <<rqVars, currentRuntime, nextpid, plock, tickslock, cpuVars, ticks,
                     panicked>>

\* No child has exited: give up, or sleep on p with wait_lock.
waitSleep(c, p) ==
  /\ OnCPU(c, p)
  /\ pc[p] = "waitscan"
  /\ NotScanned(p) = {}
  /\ Children(p) # {} => plock[p] = NoCPU
  /\ IF Children(p) = {} \/ killed[p]
     THEN /\ wait_lock' = NoCPU
          /\ SyscallReturn(p)
     ELSE /\ GotoWith(p, "sleep", [loc[p] EXCEPT !.lk = "wait_lock"])
          /\ UNCHANGED wait_lock
  /\ UNCHANGED <<rqVars, procVars, idVars, plock, tickslock, cpuVars, ticks, panicked>>

LifecycleStep(c, p) ==
  \/ allocproc(c, p) \/ forkAlloc(c, p) \/ forkFail(c, p)
  \/ forkParent(c, p) \/ forkRunnable(c, p) \/ forkInsert(c, p) \/ forkret(c, p)
  \/ exit(c, p) \/ reparent(c, p) \/ zombie(c, p)
  \/ wait(c, p) \/ waitChild(c, p) \/ waitSleep(c, p)
=============================================================================
