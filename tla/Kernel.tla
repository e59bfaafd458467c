------------------------------- MODULE Kernel -------------------------------
(***************************************************************************)
(* The whole kernel: its initial state, its steps and what makes it right. *)
(***************************************************************************)
EXTENDS Trap

\* procinit and trapinit: the locks are free, no slot has run anything, and the
\* scheduler of every CPU is about to start.
procinit ==
  /\ period = Latency
  /\ virtualRuntime = [p \in Procs |-> 0]
  /\ maxExecutionTime = [p \in Procs |-> 0]
  /\ chan = [p \in Procs |-> Null]
  /\ killed = [p \in Procs |-> FALSE]
  /\ currentRuntime = [p \in Procs |-> 0]
  /\ parent = [p \in Procs |-> Null]
  /\ ticks = 0
  /\ plock = [p \in Procs |-> NoCPU]
  /\ tickslock = NoCPU
  /\ wait_lock = NoCPU
  /\ cproc = [c \in CPUs |-> Null]
  /\ spc = [c \in CPUs |-> "pick"]
  /\ sproc = [c \in CPUs |-> Null]
  /\ found = [c \in CPUs |-> FALSE]
  /\ wk = [c \in CPUs |-> NoWake]
  /\ pc = [p \in Procs |-> "forkret"]
  /\ ipc = [p \in Procs |-> "none"]
  /\ intrOn = [p \in Procs |-> FALSE]
  /\ again = [p \in Procs |-> FALSE]
  /\ loc = [p \in Procs |-> NoLocals]
  /\ panicked = "no"

\* userinit: the first process has the first slot and pid 1, and is in the tree.
userinit ==
  /\ state = [p \in Procs |-> IF p = initproc THEN "RUNNABLE" ELSE "UNUSED"]
  /\ pid = [p \in Procs |-> IF p = initproc THEN 1 ELSE 0]
  /\ nextpid = 2
  /\ queue = <<initproc>>
  /\ treeWeight = Weight

Init == procinit /\ userinit

\* The kernel thread of p advances; yield() may run on top of it in a handler.
ThreadStep(c, p) == SleepStep(c, p) \/ LifecycleStep(c, p) \/ TrapStep(c, p)

\* What the kernel code on CPU c does by itself.
KernelStep(c) ==
  \/ SchedulerStep(c)
  \/ wakeup(c)
  \/ \E p \in Procs : YieldStep(c, p) \/ ThreadStep(c, p)

\* The code of p that interrupts return to makes a step.
Interruptee(p) ==
  \E c \in CPUs : ThreadStep(c, p) \/ (ipc[p] = "none" /\ YieldStep(c, p))

\* A user program computes; panic() spins.
Stay ==
  /\ panicked # "no" \/ \E c \in CPUs, p \in Procs : OnCPU(c, p) /\ pc[p] = "user"
  /\ UNCHANGED vars

Next ==
  \/ \E c \in CPUs : KernelStep(c) \/ Timer(c) \/ \E p \in Procs : UserTrap(c, p)
  \/ Stay

Spec == Init /\ [][Next]_vars

\* A CPU does not stop executing kernel code, its timer keeps interrupting it,
\* and between two interrupts the code they interrupt makes progress (a tick is
\* a tenth of a second).  Nothing is assumed of user programs or devices.
FairSpec ==
  /\ Spec
  /\ \A c \in CPUs :
       WF_vars(KernelStep(c)) /\ WF_vars(Timer(c)) /\ SF_vars(SchedulerStep(c))
  /\ \A p \in Procs : SF_vars(Interruptee(p))

-----------------------------------------------------------------------------
(* Safety.                                                                 *)

Labels ==
  {"user", "yield", "check", "yielded", "sleep", "slept", "relock", "sys_sleep",
   "sleepcheck", "kill", "alloc", "forkparent", "forkrun", "forkinsert", "forkret",
   "exit", "reparent", "zombie", "dead", "wait", "waitscan", "trapout", "charge",
   "incr"}

Holders == CPUs \cup {NoCPU}

LocalsType ==
  [idx : Procs \cup {0}, np : Procs \cup {Null}, t0 : 0..(TickModulus - 1),
   n : SleepTimes \cup {0}, pid : KillPids \cup {0},
   lk : {"none", "tickslock", "wait_lock"}, minp : Procs \cup {Null}, tmp : Nat]

KTypeOK ==
  /\ queue \in Seq(Procs)
  /\ treeWeight \in Nat /\ period \in Nat
  /\ virtualRuntime \in [Procs -> Nat] /\ maxExecutionTime \in [Procs -> Nat]
  /\ state \in [Procs -> States]
  /\ chan \in [Procs -> Procs \cup {Null, TicksChan}]
  /\ killed \in [Procs -> BOOLEAN]
  /\ currentRuntime \in [Procs -> Nat]
  /\ pid \in [Procs -> Nat] /\ parent \in [Procs -> Procs \cup {Null}]
  /\ nextpid \in Nat
  /\ ticks \in 0..(TickModulus - 1)
  /\ plock \in [Procs -> Holders] /\ tickslock \in Holders /\ wait_lock \in Holders
  /\ cproc \in [CPUs -> Procs \cup {Null}] /\ sproc \in [CPUs -> Procs \cup {Null}]
  /\ spc \in [CPUs -> {"pick", "wfi", "lock", "start", "running", "after"}]
  /\ found \in [CPUs -> BOOLEAN]
  /\ wk \in [CPUs -> [idx : Procs \cup {0}, chan : Procs \cup {Null, TicksChan}]]
  /\ pc \in [Procs -> Labels] /\ ipc \in [Procs -> Labels \cup {"none"}]
  /\ intrOn \in [Procs -> BOOLEAN] /\ again \in [Procs -> BOOLEAN]
  /\ loc \in [Procs -> LocalsType]
  /\ panicked \in {"no", "init exiting", "sched p->lock", "sched locks", "sched running"}

\* Where the code of q is, an interrupt handler on top of it aside.
At(q) == IF ipc[q] # "none" THEN ipc[q] ELSE pc[q]

\* The three places where a runnable process can be: the tree, a fork that has
\* yet to insert it, a scheduler that has taken it out of the tree.
InFork == {loc[q].np : q \in {q \in Procs : At(q) = "forkinsert"}}
InDispatch == {sproc[c] : c \in {c \in CPUs : spc[c] \in {"lock", "start"}}}

\* A runnable process is in exactly one of these places, and nothing else is in
\* them: none is lost by a scheduler that finds it not RUNNABLE, none is linked
\* into the tree twice by a wakeup, a kill, a yield and a fork that race.
RunnableNotLost ==
  /\ {p \in Procs : state[p] = "RUNNABLE"} = Queued(queue) \cup InFork \cup InDispatch
  /\ Queued(queue) \cap InFork = {}
  /\ Queued(queue) \cap InDispatch = {}
  /\ InFork \cap InDispatch = {}
  /\ Len(queue) = Cardinality(Queued(queue))

\* One kernel stack, one CPU: a process that a CPU runs, or is still switching
\* away from, is run by no other CPU and its slot is not freed.  RUNNING means
\* on a CPU.
StackExclusive ==
  /\ \A c, d \in CPUs : cproc[c] = cproc[d] /\ cproc[c] # Null => c = d
  /\ \A c \in CPUs : cproc[c] # Null => state[cproc[c]] \notin {"UNUSED", "USED"}
  /\ \A p \in Procs :
       state[p] = "RUNNING" <=> \E c \in CPUs : cproc[c] = p /\ spc[c] = "running"

\* The consistency checks of sched() never fire and a zombie is never resumed;
\* the only panic is the one for the exit of init.
NoSchedPanic ==
  /\ panicked \in {"no", "init exiting"}
  /\ \A c \in CPUs, p \in Procs : OnCPU(c, p) => pc[p] # "dead"

MaxOf(a, b) == IF a < b THEN b ELSE a

\* No process returns to user mode once it has used up its time slice,
\* however its trap was interrupted, and the slice is never out of bounds.
SliceRespected ==
  \A p \in Procs :
    pc[p] = "user" /\ state[p] = "RUNNING" =>
      /\ currentRuntime[p] < MaxOf(maxExecutionTime[p], MinGranularity)
      /\ maxExecutionTime[p] \in MinGranularity..(Latency + MinGranularity)

\* On one CPU: a process that has had more runtime than one that waits does not
\* go on in user mode beyond the granularity.
PromptPreemption ==
  \A q \in Procs : pc[q] = "user" /\ state[q] = "RUNNING" =>
    \A p \in Queued(queue) : \/ virtualRuntime[q] <= virtualRuntime[p]
                              \/ currentRuntime[q] < MinGranularity

\* While no process sleeps and none forks later than in its first slice, the
\* processes that want a CPU stay within a slice and a granularity of each
\* other, counting the runtime that is not folded in yet: taking the leftmost
\* process, the preemption checks and the fold in insertProcess together keep
\* the CPU shared evenly.
FairSpread ==
  \A p, q \in Procs : {state[p], state[q]} \subseteq {"RUNNABLE", "RUNNING"} =>
    virtualRuntime[q] + currentRuntime[q]
      <= virtualRuntime[p] + Latency + MinGranularity

\* The calls of wakeup(ch) that have yet to reach process p.
WakeupPending(p, ch) ==
  \E c \in CPUs : wk[c].idx \in 1..p /\ wk[c].chan = ch

\* No wakeup is lost: a process asleep in sys_sleep has not slept long enough,
\* and one asleep in wait has children but no zombie among them, unless the
\* wakeup that will reach it is under way.
NoLostWakeup ==
  \A p \in Procs : state[p] = "SLEEPING" /\ ~WakeupPending(p, chan[p]) =>
    /\ chan[p] = TicksChan => stillWaiting(p)
    /\ chan[p] = p => /\ Children(p) # {}
                      /\ \A k \in Children(p) : state[k] # "ZOMBIE"

\* The child of a fork that has yet to record its parent.
Newborns == {loc[q].np : q \in {q \in Procs : At(q) = "forkparent"}}

\* Every process but init has a parent that is alive and can wait for it: an
\* exit hands all children over to init before it becomes a zombie, even while
\* they fork, exit or are being waited for.
NoOrphans ==
  \A p \in Procs \ {initproc} :
    /\ state[p] # "UNUSED" /\ p \notin Newborns => parent[p] # Null
    /\ parent[p] # Null => state[p] # "UNUSED"
                          /\ state[parent[p]] \notin {"UNUSED", "USED", "ZOMBIE"}

-----------------------------------------------------------------------------
(* Liveness.                                                               *)

\* The model stops here: a process has reached the bound on runtimes, or the
\* kernel has panicked.
Stopped ==
  \/ panicked # "no"
  \/ \E p \in Procs : virtualRuntime[p] + currentRuntime[p] >= MaxRuntime

\* No starvation: a process that waits for a CPU gets one, as long as none of
\* its competitors sleeps (a sleeper keeps its old runtime) and forking stops.
Dispatched ==
  \A p \in Procs : state[p] = "RUNNABLE" ~> state[p] = "RUNNING" \/ panicked # "no"

\* A process that has been killed becomes a zombie, also if it waits for the CPU, is
\* interrupted inside a system call or computes without ever making one.
KilledExits ==
  \A p \in Procs : killed[p] /\ state[p] # "UNUSED"
                     ~> state[p] \in {"ZOMBIE", "UNUSED"} \/ panicked # "no"

-----------------------------------------------------------------------------
(* Deadlock.                                                               *)

\* CPU c, which holds a lock, spins on one that CPU d holds: on a p->lock in
\* wakeup, or on tickslock in the scheduler.
SpinsOn(c, d) ==
  \/ /\ wk[c].idx \in Procs \ {cproc[c]}
     /\ plock[wk[c].idx] = d
  \/ /\ spc[c] \in {"start", "after"}
     /\ tickslock = d

\* No two CPUs wait for each other: the scheduler of every CPU goes on with its
\* loop ("Scheduler never returns.  It loops, doing: ...", scheduler()).
NoCircularWait == \A c, d \in CPUs : ~(SpinsOn(c, d) /\ SpinsOn(d, c))

-----------------------------------------------------------------------------
(* Accounting.                                                             *)

\* README, update rule: "p->virtualRuntime += p->currentRuntime;
\* p->currentRuntime = 0": what has been moved to virtualRuntime is not
\* charged again, so that a trap adds at most one unit to the sum of the two.
ChargedOnce ==
  [][\A p \in Procs :
       virtualRuntime'[p] + currentRuntime'[p]
         <= virtualRuntime[p] + currentRuntime[p] + 1]_vars
=============================================================================
