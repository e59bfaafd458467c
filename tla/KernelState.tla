---------------------------- MODULE KernelState ----------------------------
(***************************************************************************)
(* The state shared by the parts of the kernel: the process table, the     *)
(* CPUs, the locks and the kernel threads.                                 *)
(*                                                                         *)
(* A step of the model is what one CPU does between two points at which    *)
(* another CPU or an interrupt could observe or disturb it.  Taking a lock *)
(* while no other lock is held is merged with the code it protects: a CPU  *)
(* that spins there holds up nobody.                                       *)
(***************************************************************************)
EXTENDS RunQueue

CONSTANTS
  NCPU,           \* number of CPUs
  TickModulus,    \* ticks is unsigned and wraps around (2^32 in the code)
  MaxPid,         \* bound of the model on the pids handed out
  MaxForkRuntime, \* bound of the model on the runtime of a process that forks
  Traps,          \* the traps that user programs cause, timer interrupts aside
  KillPids,       \* the arguments of kill
  SleepTimes      \* the arguments of sleep

ASSUME TableAssumption == Procs = 1..NPROC
ASSUME CPUAssumption == NCPU \in Nat \ {0}
ASSUME TickAssumption == TickModulus \in Nat \ {0, 1}
ASSUME PidAssumption ==
  MaxPid \in Nat /\ MaxForkRuntime \in Nat /\ KillPids \subseteq Nat
ASSUME SleepAssumption == SleepTimes \subseteq 0..(TickModulus - 1)
ASSUME TrapsAssumption ==
  Traps \subseteq {"fork", "exit", "wait", "kill", "sleep", "other", "device", "fault"}

CPUs == 0..(NCPU - 1)
NoCPU == -1       \* the holder of a lock that is free
Null == 0         \* the null pointer
TicksChan == -1   \* &ticks as a sleep channel; a process is its own channel
initproc == 1     \* userinit takes the first slot of the table

States == {"UNUSED", "USED", "SLEEPING", "RUNNABLE", "RUNNING", "ZOMBIE"}

VARIABLES
  \* struct proc (virtualRuntime and maxExecutionTime are in RunQueue)
  state, chan, killed, currentRuntime, pid, parent,
  nextpid, ticks,
  plock, tickslock, wait_lock,   \* the CPU that holds the lock
  cproc,     \* cpus[c].proc
  spc,       \* where the scheduler thread of a CPU is ("running": switched out)
  sproc,     \* its local p
  found,     \* its local found
  wk,        \* the call of wakeup() that a CPU is executing
  pc,        \* where the kernel thread of a process is
  ipc,       \* where it was when kerneltrap interrupted it, or "none"
  intrOn,    \* sstatus.SIE of the thread while it holds no lock
  again,     \* usertrap has yet to call yield for a timer interrupt
  loc,       \* locals of the system call under way
  panicked   \* the message of panic(), or "no"

procVars == <<state, chan, killed, currentRuntime>>
idVars == <<pid, parent, nextpid>>
lockVars == <<plock, tickslock, wait_lock>>
cpuVars == <<cproc, spc, sproc, found, wk>>
threadVars == <<pc, ipc, intrOn, again, loc>>
vars == <<rqVars, procVars, idVars, lockVars, cpuVars, threadVars, ticks, panicked>>

\* idx: loop variable over the table; np: the child of fork; t0, n: of
\* sys_sleep; pid: of kill; lk: the lock passed to sleep; minp: the argument
\* minvRuntime of checkPreemption; tmp: currentRuntime as loaded by usertrap.
NoLocals == [idx |-> 0, np |-> Null, t0 |-> 0, n |-> 0, pid |-> 0,
             lk |-> "none", minp |-> Null, tmp |-> 0]

\* idx: the process that wakeup(chan) looks at next.
NoWake == [idx |-> 0, chan |-> Null]

-----------------------------------------------------------------------------
\* CPU c executes the kernel thread, or the user program, of p.
OnCPU(c, p) ==
  /\ panicked = "no"
  /\ spc[c] = "running" /\ cproc[c] = p /\ wk[c] = NoWake

\* CPU c executes its scheduler thread.
InScheduler(c) ==
  /\ panicked = "no"
  /\ spc[c] # "running" /\ wk[c] = NoWake

\* The number of spinlocks CPU c holds: mycpu()->noff.
noff(c) ==
  Cardinality({p \in Procs : plock[p] = c})
    + (IF tickslock = c THEN 1 ELSE 0) + (IF wait_lock = c THEN 1 ELSE 0)

Lock(l, p, c) == [l EXCEPT ![p] = c]
Unlock(l, p) == [l EXCEPT ![p] = NoCPU]

\* The thread of p goes on at label l.
Goto(p, l) ==
  /\ pc' = [pc EXCEPT ![p] = l]
  /\ UNCHANGED <<ipc, intrOn, again, loc>>

\* The thread of p goes on at label l with some locals changed.
GotoWith(p, l, locals) ==
  /\ pc' = [pc EXCEPT ![p] = l]
  /\ loc' = [loc EXCEPT ![p] = locals]
  /\ UNCHANGED <<ipc, intrOn, again>>

\* The system call of p is over; usertrap takes it from there.
SyscallReturn(p) == GotoWith(p, "trapout", NoLocals)
=============================================================================
