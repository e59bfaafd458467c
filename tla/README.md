# A TLA+ model of the xv6 CFS scheduler

The repository replaces the round-robin scheduler of xv6 (RISC-V) by a
CFS-style one: the processes that wait for a CPU are kept in a red-black tree
ordered by virtual runtime, and each gets a time slice computed from the load.
This directory holds the TLA+ modules that model that kernel, the TLC
configurations that check them, and proofs checked by TLAPS.
`PROJECT.json` maps every definition to the lines it models.

## 1. The system

| Component | State | Operations | Where |
|---|---|---|---|
| Ready set / red-black tree | `tree` (count, treeWeight, root, minvRuntime, period), `left/right/pParent/color`, `virtualRuntime`, `maxExecutionTime` of a process; `tree->lock` | `rbinit`, `insertProcess`, `retrieveProcess` and their helpers | `proc.c` 31-538 |
| Scheduler | `cpus[]`, one scheduler thread per CPU | `scheduler`, `sched`, `yield`, `checkPreemption` | `proc.c` 540-579, 1017-1206 |
| Sleep and wakeup | `state`, `chan`, `killed`; `p->lock`, `tickslock`, `wait_lock` | `sleep`, `wakeup`, `kill`, `setkilled`, `killed`, `sys_sleep` | `proc.c` 1232-1331, `sysproc.c` |
| Life cycle | `proc[]`, `nextpid`, `parent` | `allocproc`, `freeproc`, `fork`, `forkret`, `exit`, `reparent`, `wait`, `userinit` | `proc.c` 598-1015, 1208-1230 |
| Traps and clock | `ticks`, `currentRuntime`; per CPU `stvec`, `sepc`, `sstatus`, `tp`, `noff`, `intena`; `trapframe` | `usertrap`, `usertrapret`, `kerneltrap`, `devintr`, `clockintr` | `trap.c` 237-459 (the first half is commented out) |
| System calls | the table `syscalls[]` | `syscall`, argument fetching, the `sys_*` wrappers | `syscall.c`, `sysproc.c` |
| Nice values | `niceVal`, `weightVal` | `sys_setnice`, `sys_setNice` (not in the table), `calculateWight` | `sysproc.c`, `proc.c` 61-82 |
| User memory and files | `pagetable`, `sz`, `trapframe`, `ofile`, `cwd`, `xstate` of a process | `proc_pagetable`, `proc_freepagetable`, `growproc`, their calls in `allocproc`, `fork`, `exit`, `wait` | `proc.c` 581-1015 |
| Log viewer | `processAvailable`, `processDetails`, `active` of a host program | reading, parsing and drawing the trace the scheduler prints | `visual.c` |
| Benchmarks | - | user programs | `benchmark*.c` |

How they interact. A timer interrupt calls `clockintr` (on CPU 0 it counts a
tick and wakes the sleepers, all under `tickslock`), then `yield`. A trap from
user mode adds one to `currentRuntime` and calls `yield`, which asks
`checkPreemption` and, if it says so, folds `currentRuntime` into
`virtualRuntime`, inserts the process into the tree and switches to the
scheduler thread, which retrieves the next minimum. `fork`, `wakeup` and `kill`
also insert into the tree. Processes, interrupt handlers and scheduler threads
of several CPUs share the process table under one lock per process, `wait_lock`,
`tickslock` and the leaf locks `tree->lock` and `pid_lock`.

What is hard here: four places insert into the tree and one takes out, each
under different locks; a process is in the tree before it has left its stack;
`yield` reads the cached minimum without the lock of the tree; runtime is
charged with interrupts enabled; `sleep`/`wakeup` and `exit`/`wait` rely on the
order of locks; the clock wraps; rebalancing after a removal only handles a left
child; a kernel thread moves between CPUs while the registers that say where its
trap returns to belong to a CPU; every allocation of `fork` can fail after the
earlier ones have succeeded; the viewer reads a log that ends anywhere and into
which several CPUs print.
`PROJECT.json` lists these as hazards, at their lines.

What makes each part right: the tree hands out a process of least virtual
runtime, in order of arrival among equals, with a slice in bounds; a runnable
process is in exactly one place; one stack is used by one CPU; no wakeup is
lost, no process orphaned; every process that waits is served, every sleep
ends when its time has come, every killed process dies; the CPUs never wait for each other in a
circle; an interrupted thread goes on where it was, as itself, with its own
interrupt flag; no page, file reference or exit status is lost or given back
twice; the chart shows what happened, as far as the log has it.

## 2. Modules

    RunQueue  <--- implements ---  RBTree -- RBTreeProofs
       |   \
       |    RunQueueProofs ........................................
       |                                                          :
    KernelState -- Scheduler -- SleepWakeup -- Lifecycle -- Trap -- Kernel -- KernelProofs
                                                                        |       /       \
                                                                        |  SliceProofs  WaitProofs
                                                                    SleepTime --------------'
    Interrupts -- InterruptsProofs     Resources -- ResourcesProofs
    Viewer -- ViewerProofs             Nice

(`--` reads "is extended by"; `KernelProofs` extends `RunQueueProofs` too.) `MCRunQueue`, `MCRBTree`, `MCKernel`,
`MCSleep`, `MCInterrupts`, `MCResources`, `MCViewer` and `MCNice` hold only views, symmetry
and value sets for TLC. The four modules `Interrupts`, `Resources`, `Viewer` and `Nice` look
at the same code as the kernel modules from another side, with the scheduling
decisions left open, so that they cover every schedule of the kernel and more.

**RunQueue** is the abstract specification of the ready set. The tree is the
sequence `queue` of its nodes in order. `insertProcess(p, v)` places `p` after
all keys `<= v` (the code goes right on `<=`), `retrieveProcess` takes the head,
stretches `period` as the code does and computes the slice. `tree->lock` is a
leaf lock, so both are single steps. `Weight` is 819: the kernel only ever
stores nice value 0 and `calculateWight(0)` is `(int)(1024/1.25)`.

**RBTree** is the tree pointer by pointer. An operation takes one step per case
of `insertionCases` and per iteration of the loop of `retrievingCases`; `op`
holds its locals while `tree->lock` is held. `ImplementsRunQueue` maps it to
`RunQueue`: the queue is the in-order sequence, and a retrieval takes effect at
the step that unlinks the process.

**KernelState** declares the state of the kernel; **Scheduler**, **SleepWakeup**,
**Lifecycle** and **Trap** hold one action per piece of code between two points
at which another CPU or an interrupt can interfere; **Kernel** has the initial
state, the next-state relation, fairness and the properties. Conventions:

- `pc[p]` is where the kernel thread of `p` is ("user": in user mode), `ipc[p]`
  where it was when `kerneltrap` interrupted it, `spc[c]` where the scheduler
  thread of CPU `c` is ("running": it has switched to a process).
- `wk[c]` is a `wakeup()` that CPU `c` is executing, one process per step; it is
  run on top of whatever called it (`clockintr`, `exit`, `reparent`).
- `plock`, `tickslock` and `wait_lock` name the CPU that holds the lock.
  Acquiring a lock while none is held is merged with the code it protects, which
  is exact because a CPU that spins there holds up nobody. Acquiring one while
  another is held is a step of its own, so circular waits show.
- "p->currentRuntime += 1" is a load (`charge`) and a store (`incr`), because
  interrupts are on after a system call.
- A failed `kalloc`, `uvmcopy` or `copyout` is a nondeterministic outcome.
- Interrupts in the scheduler thread are allowed wherever it holds no lock. The
  code also has them off in parts of the inner loop; the model allows more.

**SleepTime** adds history variables to the kernel for what `sys_sleep` promises.
`ticks` wraps around, so the time that has passed cannot be read off it: `waited[p]`
counts the ticks since `sys_sleep` read `ticks0`, up to a lap of the clock, and does not
depend on how the code computes the difference. `SleepOnTime` compares each decision of
the loop with it, `SleepEnds` says that control comes back from `sys_sleep`. One case has
to be left out of both, because there the code cannot be right: a process that looks at
the clock a whole lap after it was called finds a small difference and sleeps on
(`LapLate`). In the code that takes more than 2^31 ticks without a look. `looked` keeps the
exception that narrow: who has looked in time and slept on nevertheless is not excused.

**Interrupts** has what the kernel modules take for granted: where a trap goes and
where it returns to. `cpu[c]` holds the registers and the `struct cpu` of a CPU,
`sch[c]` its scheduler thread, `th[p]` the kernel thread of a process with the
locals of `kerneltrap`, `sched`, `myproc` and `usertrapret`; `due[p]` is a history
variable, the address at which the user program has to go on. `trapTo`, `sret`,
`push_off` and `pop_off` are functions on the record of a CPU, the privileged
architecture and `spinlock.c` as the code uses them (external). Actions are the
stretches of `usertrap`, `usertrapret`, `kerneltrap`, `sleep`, `yield`, `forkret`
and `scheduler` between two points where an interrupt or another CPU can
interfere; an interrupt may be taken wherever `sie` is set. The checks of
`usertrap`, `kerneltrap`, `sched` and `pop_off` set `panicked`. Which process is
picked, and why one sleeps, is left open.

**Resources** follows what a process owns through `allocproc`, `fork`, `growproc`,
`exit` and `wait`. Each allocation is a step that may fail, as other processes take
the last pages in between. A page table is the pages it is made of, the special
pages mapped in it and the number of user pages; `uvmunmap` and `uvmfree` panic
where `vm.c` does (external, from its use). A mapping needs no or one page for the
table itself. Arithmetic keeps its width, scaled down: `sz + n` is unsigned modulo
`WordModulus` (for 2^64), `argint` takes the low half of a register as a signed
number modulo `IntModulus` (for 2^32), `fetchaddr` adds `WORD` modulo
`WordModulus`. "LIVE" stands for `RUNNABLE`, `RUNNING` and `SLEEPING`. `status` and
`got` are history variables: what was given to `exit` and what `wait` gave to the
parent (`Discarded`: its address was 0).

**Viewer** is the trace the scheduler prints at the end of a slice of a process
whose name starts with "benchmark", and the loop of `visual.c`: read a chunk, parse
the tokens, draw, sleep. `scheduler()` reads the clock before it switches to a process
and after the process has switched back; the steps `readStart`, `switchTo`, `switchBack`
and `readEnd` are separate, because the clock of CPU 0 may tick in between if
`scheduler()` is on another CPU. A chunk may end inside a record; then `sscanf` finds
fewer than three numbers, or a prefix of the digits of the last one (`parseCut`,
`Prefixes`, digits in base `Radix`). If there is another CPU, a program on it may print
while a record is printed (the benchmarks print their pid, the Makefile asks for 3 CPUs):
a letter or a ">" cuts the record short, a digit changes a number. Such a record is
marked `mixed`, and `parseMixed` reads anything from it or nothing. `cpus`, the CPUs there
are, is chosen in the initial state. `ran`, `switching`, `garbled` and `intact` are history
variables: which process was on a CPU in which tick, which one was being switched to or
from, which cells were read from mixed records, and which records were read as meant.

**Nice** models `setnice` as the table wires it and `calculateWight`, loop
included.

Definitions named `X_Y` after a definition `X` are mutants: `X` with a plausible
bug, used to show that a property can fail.

## 3. Runs

| Run | Instance | What it shows |
|---|---|---|
| `ready_set` | 4 processes, runtimes 0..2 | order, period, slices, no overtaking for all histories |
| `tree_structure` | 10 processes, 3 keys | every reachable tree: red-black, consistent and ordered links, right cached minimum; the tree implements `RunQueue`; every step of an operation has less left to do than the one before, so that rebalancing ends and the lock is released |
| `kernel_all_calls` | 1 CPU, 3 processes, all traps, `kill(0)` included | no deadlock, no failed check of `sched`, no orphan, no lost wakeup |
| `kernel_two_cpus` | 2 CPUs, 2 processes, fork, exit, wait, kill, sleep | one stack, one CPU; a runnable process is in one place; no lost wakeup |
| `no_starvation` | 1 CPU, 3 processes, fork, kill | no starvation among processes that do not sleep, and their virtual runtimes stay within a slice and a granule of each other; a killed process becomes a zombie |
| `sleepers_wake` | 1 CPU, 2 processes, fork, sleep, kill, ticks modulo 5 | `sys_sleep` comes back, never before its ticks have passed (unless killed) and at its first look after they have, also across a wrap of the clock; slices respected, prompt preemption |
| `trap_entry` | 2 CPUs, 2 processes, 2 user addresses | whatever traps, interrupts, sleeps and migrations: no panic, the right vector, the right identity, the thread's own interrupt flag, and a return to where it was interrupted |
| `resources` | 3 slots, 11 pages, 2 descriptors, 1 file | pages, references and exit statuses conserved through every failure; no panic of `vm.c`; `fetchaddr` reads inside the process |
| `viewer` | 1 or 2 CPUs, 2 processes, 4 ticks | on one CPU the chart has nothing that did not happen; on two, nothing but the ticks of a switch and what was read from mixed records; it has everything that was read whole |

Runs that find a disagreement between the code and what it or the README says:

| Run | Property | What happens |
|---|---|---|
| `lock_order` | `NoCircularWait` | `scheduler()` holds `p->lock` and takes `tickslock`; `clockintr()` on CPU 0 holds `tickslock` and takes `p->lock` in `wakeup`. Both spin for ever. |
| `charged_once` | `ChargedOnce` | A timer interrupt between load and store of `currentRuntime += 1` yields, which folds the runtime into the key and resets it; the store brings it back, and it is folded in again. |
| `setnice_call` | `SetniceTakesEffect` | `setnice` returns 0 for every argument and does nothing. |

Seen while modelling, without a run of their own:

- every trap from user mode is charged, while the comment at `trap.c` 314 speaks of
  clock ticks (action `incr` is reached from every trap);
- `kill(0)` matches the pid 0 of a free slot and `allocproc` does not clear the
  mark, so that the next child is born killed (actions `kill`, `allocFields`);
- the weight at nice 0 is 819 (`Weight`), the README's formula gives 1024;
- the loop of `calculateWight` does not end for a nice value above 0 (module
  `Nice`); it is not reachable while `setnice` does nothing;
- `sbrk` below size 0 wraps to a huge size, which `uvmdealloc` ignores: it returns
  success and changes nothing (`growDone`);
- `visual.c` divides by the number of processes and is killed if it draws before
  the first complete record (`draw_chart`); after a cut record the turnaround time
  it prints can be negative; it checks no index (100 pids, 1000 ticks);
- on several CPUs the chart can mark a tick in which a process was only being switched
  to or from, and ticks in which it never ran, if a digit that a benchmark prints on
  another CPU lands in a record (`switching` and `garbled`);
- the children of `benchmark3.c` fall through to the comment "we dont get here" and
  go on forking.

**Bounds.** Runtimes are bounded by `MaxRuntime`: a process that has run that
long stays in user mode. The kernel runs use latency 4 and granularity 2, so two
processes fit into a period and a third stretches it; a runtime of 2 is enough
for a process to use up a granule and be preempted. `sleepers_wake` uses latency 2 and
granularity 1: with a runtime of 2 a process that is alone uses up its slice, and one of
two a granule. `MaxPid` bounds the processes ever
created; as slots are reused within it, `kernel_all_calls` includes exit, reaping
and inheriting by init. `MaxForkRuntime` bounds when a process may still fork.
`TickModulus` 2 makes the clock wrap during sleeps. `sleepers_wake` has 5, so that a
sleep of 2 ticks is less than half a lap, as an `int` is of 2^32, and starts at every
value of the clock, the last two included. Ten nodes give red-black
trees of black height 3 and reach every branch of both case functions; two or
three different keys are enough for ties on either side of a node. Two CPUs and
two processes let a thread move while another one traps on the CPU it left and on
the one it comes to; two addresses tell "after the `ecall`" from "at the
interrupted instruction". Eleven pages are three kernel stacks, the three
pages of the first process, and five more: a fork can fail at each
allocation and also succeed, and two forks compete. `MaxPid` 3 bounds the forks;
with it a slot is used again. The arguments of `sbrk` are 3, -4 and -1 as `int`s of
a register with pages of 2 bytes: growing by more than a page, shrinking below 0,
and shrinking by a byte. The
viewer's base 2 and the ticks 0..3 give numbers of two digits to cut; `MaxUnread` bounds
how far it is behind, which only delays the kernel; `MixedPids` and `MixedTicks` are what
may be read from a mixed record, here any interval between the first and the last tick,
also an empty one. Only numbers within the arrays of `visual.c` are read: beyond them its
behaviour is undefined.

**Views.** `ShapeView` identifies trees that differ only in the names of the
processes; nothing in `RBTree` depends on a name. `LiveView` drops what no later
step reads before it is written: the runtime and thread fields of a free slot
(`allocproc` sets them) and the slice of a process that is not on a CPU
(`retrieveProcess` sets it). `RelativeView`, used where nobody sleeps, keeps
virtual runtimes relative to the smallest one once nobody can fork any more: the
code only compares them. Under it `MaxRuntime` is never reached, so the run
`no_starvation` covers behaviours of any length. The `LiveView` of `MCInterrupts`
drops registers and locals that are written before they are read again (the trap
registers outside the code that returns from a trap, `intena` while no lock is
held); its processes are symmetric, and so are the slots of `MCResources` but for
the one of init. `SleepView` of `MCSleep` is `LiveView` with the history variables,
`PrintedView` of `MCViewer` drops the ticks of a slice that will not be printed.

**Deadlock** is checked in all passing runs on one CPU. With two CPUs the system
does deadlock (`lock_order`), so `kernel_two_cpus` sets `CHECK_DEADLOCK FALSE`;
its invariants are checked on all states, also on those before a deadlock. `viewer`
sets it because the program ends when it divides by zero, and because the clock is
bounded.

**Fairness.** A CPU does not stop executing kernel code and its timer keeps
interrupting it (weak fairness of `KernelStep(c)` and of `Timer(c)`, which
`clockintr` re-arms). Code that timer interrupts interrupt again and again still
makes progress between two of them, because a tick is a tenth of a second
(strong fairness of `SchedulerStep(c)` and of `Interruptee(p)`). `FairHSpec`
of `SleepTime` is the same fairness with the history variables. Nothing is
assumed of user programs or of devices. That the operations on the tree end
needs no fairness: `RebalancingEnds` states that each of their steps decreases
`Rank`, a natural number.

`PromptPreemption` relies on nothing being inserted between the return of `yield` in
`usertrap` and `intr_off` in `usertrapret`: the model has the two as one step, and no
device handler that calls `wakeup`. `KilledExits` is checked where nobody sleeps or
waits: a process that is killed while it waits for a CPU, is interrupted in a system call
or computes. That a killed sleeper comes back from `sys_sleep` is part of `SleepEnds`, in
a run with `kill`.

`Dispatched` is stated for processes that do not sleep and with bounded forking,
like `FairSpread`, because neither holds otherwise: a sleeper keeps its old virtual runtime and a
new process starts at 0, so either may run ahead of the others for as long as
these have run before.

## 4. Proofs

Every theorem holds for all values of the constants that satisfy the named
assumptions of its module; TLC evaluates these assumptions on the instances of
section 3. Each inductive invariant was first checked by TLC on those instances. A
module proves one lemma per action, "the invariant and this action give the
invariant again", from a few lemmas about kinds of steps, and combines them in the
theorem about the invariant; the properties of the runs then follow from it.

**`RunQueueProofs`**: any finite process table, any granularity and any latency that
is a multiple of it (the comment at `proc.c` 44).

- `RunQueueCorrect`: `RQSpec => []RQInv`. `RQInv` is the conjunction of the type
  invariant, `NoDuplicates`, `QueueOrdered`, `WeightIsSum`, `PeriodFollowsLoad`
  and `SliceBounded`, and is inductive as a whole: the order needs
  `NoDuplicates` (inserting changes the key of one process only, which must not be
  queued), the slice needs the exact weight and the bound on the period.
- `RunQueueTypes`, `ReadySetOrdered`, `WeightExact`, `PeriodBounded`,
  `SlicesBounded`: the parts of it, each on its own; all but `WeightExact` are
  invariants of the run `ready_set`.
- `NobodyOvertaken`: the action property `NoOvertaking`, from `RQInv` and what an
  insertion and a removal do to the positions of the others.

The argument. `InsertionPointExists`: in an ordered queue the set of positions
whose key exceeds `v` has a least element (`LeastNat`), so the `CHOOSE` of
`InsertionPoint` has a witness. `InsertedProperties` and `TailProperties`: what an
insertion and a removal do to order, duplicates and length.
`SliceInRange`: with `n` queued processes of equal weight the slice is
`period \div n` (`SliceOfPeriod`); `period` is `n` granules, or at least
`LatencyProcs` granules with `n <= LatencyProcs` (`LatencyIsMultiple`), so the
slice is at least a granule; and a period left over from a higher load is at most
one granule above what `n` or the latency asks for, which bounds it from above.

**`KernelProofs`**: any number of CPUs and slots, any set of traps, any bounds.
`KernelInvariant` is `Spec => []KernelInv`. `KernelInv` contains `RQInv` (every
insertion of the kernel is one of `RunQueue`, and the process is not queued) and

- `ProcLocks`, `WaitLock`, `TicksLock`: a lock is held by a CPU if and only if the
  thread it runs, its scheduler or its `wakeup` is at a label that holds it. The
  proof that two CPUs never are at such labels for one process comes from here;
- `SchedulerLocals`, `OneScheduler`: `c->proc`, the locals of `scheduler()` and the
  state of its process fit together; no process is in the hands of two schedulers;
- `Threads`: the labels at which a thread can be in each state of its process
  (`LabelsOf`), e.g. that a runnable one is inside `sched` or has never run;
- `WakeupCallers`: `wakeup` runs on top of `clockintr` or `exit` only;
- `ForkOwnsChild`: two forks never have one child, and nobody else touches it while
  it is `USED` - the reason why `fork` may release `np->lock` in the middle;
- `ReadyPlaces`: a runnable process is in the tree, in a fork or in a scheduler.

From it follow `KernelTypeCorrect`, `StacksExclusive`, `SchedNeverPanics` and
`NoneIsLost`. `StackExclusive` alone is not inductive: that a process that `yield`
or `wakeup` has put into the tree is not started before it has left its stack
depends on the scheduler waiting for `p->lock`, thus on `ProcLocks`, and that on all
the other parts.

**`SliceProofs`** adds to it: `SliceInvariant` (`SliceInv`: whoever runs or is about
to run was given a slice in bounds by `retrieveProcess`, and has been charged nothing
when it gets the CPU), `SlicesRespected`, `PreemptionIsPrompt` and `SharedEvenly`.

`PreemptionIsPrompt` assumes `NCPU = 1`: `yield` reads `minvRuntime` without the lock of
the tree, and `PromptInv` says that on one CPU nothing can be inserted between this read
and the decision. With two CPUs the property is false, because the other CPU can insert
a process while this one is in user mode.

`SharedEvenly` is `FairSpread` under the restrictions without which it is false, as
assumptions on the constants: one CPU, no `sleep` and `wait` among the traps, and
`MaxForkRuntime <= MinGranularity` (forks in the first slice only). Any number of
processes, all other traps, exits and kills, any latency and granularity. `FairInv` is
the invariant it needs. Who is chosen has the least virtual runtime of all (`PairOK`):
the scheduler takes the leftmost one, and only a fork can bring in a smaller one later.
It cannot, because `checkPreemption` never preempts a process with less than a granule
charged (`FairOK`): a virtual runtime is 0 or at least a granule, so whoever may fork has
0 itself and is not preempted before its child is in the tree. What is charged stays
within the longest slice, also when `currentRuntime + 1` is stored after an interrupt
has folded the old value in: the process then starts again as the one with the least
virtual runtime.

**`WaitProofs`** adds `WaitInvariant`, with two parts. `ParentInv`: init is there, a
child without a parent belongs to a fork that will give it one, and an exit that has
passed `reparent` gets no new children, as it holds `wait_lock`. `WakeInv`: what a
process has found out before it sleeps still holds (`WaiterOK`), what a sleeper waits
for has not happened or its wakeup has yet to reach it (`SleeperOK`), and an exit has
woken its parent before it becomes a zombie, or is still on its way there
(`ExiterOK`); without the last one `NoLostWakeup` is not inductive, because `exit`
calls `wakeup` first and sets `ZOMBIE` later. They give `NobodyOrphaned` and
`NoWakeupLost`, on any number of CPUs.

`SleepsItsTime` is `HSpec => SleepOnTime`, for any modulus, any sleeping times below it,
any number of processes and CPUs. `TimeInv` ties the history to the clock: while a process
is in the loop of `sys_sleep`, `ticks` is `ticks0 + waited`, or that less a lap, until the
process has waited a lap. It is preserved because only `sys_sleep` itself writes the
process's `ticks0` (`NextFramed`, one lemma per kind of step) and because `clockintr`
advances both by one (`NextTick`). `ClockDifference` then shows that the unsigned
difference of the code is `waited`, on either side of a wrap.

**`InterruptsProofs`**: any number of CPUs, processes and user addresses.
`InterruptsInvariant` gives the registers of a CPU at every label of the thread it
runs (`RegsAt`: `stvec`, `sie`, `noff`, `intena`, `proc`, `tp`) or of its scheduler
(`SchedulerRegs`), what a thread has saved where it uses it again (`LocalsAt`: the
`sepc`, `spp` and `spie` of `kerneltrap`, the `intena` of `sched`, the process of
`usertrapret`), that `p->lock` is held exactly across a switch (`LockAcrossSwitch`),
that a process is in one place (`OnePlace`) and that the trapframe has the address
that is due (`EpcIsDue`). The saved locals are what carries a thread over a switch:
the registers at the label it comes back to follow from them and not from the CPU.
Theorems: `InterruptsTypeCorrect`, `NoTrapPanics`, `VectorsMatchModes`,
`IdentityIsOwn`, `InterruptStateIsKept`, and `InterruptedCodeResumes`, an action
property.

**`ResourcesProofs`**: any finite process table and set of descriptors, any page and
word size, any arguments. `SizesAssumption` asks that physical memory and an `int`
together are below 2^64, that a word is no larger than the range of an `int`, and that
there is memory for the kernel stacks and the first process. `ResourcesInv` has five
parts, proved one after the other:

- `ProcessInv`: a fork under way has a `USED` slot to itself;
- `TablesInv`: a page table in the process table has both special pages mapped and as
  many user pages as `p->sz` says, a half-made one what its label says (`LeavesAt`);
  this is what `uvmunmap` and `uvmfree` check, so nothing panics;
- `PagesInv`: free pages, stacks and `Owned` pages add up to `NPages`. The sum is the
  cardinality of a set of numbered pages (`PageSet`), so that the library's theorems
  on cardinality apply; a step changes what one process owns, or two
  processes of which one is the fork of the other;
- `FilesInv`: reference counts as cardinalities of `Holders`, and the order in which
  `exit` closes (`ClosedInOrder`), since `freeproc` does not reset `ofile` and `cwd`;
- `StatusInv`: pids differ (`PidsDiffer`), an exit has recorded its status and the
  zombie keeps it.

Theorems: `ResourcesTypeCorrect`, `PagesAreConserved`, `VmNeverPanics`,
`ReferencesExact`, `FetchesInBounds` (the arithmetic of `fetchaddr` and `sbrk` with
their widths, and memory as the bound on `p->sz`), `StatusesKept`.

**`ViewerProofs`**: any number of CPUs, processes and ticks, any base, any numbers within
the bounds in mixed records. `ViewInv`: a slice and every record that is not mixed lie
within the ticks in which their process ran or was being switched to or from; with one CPU
`switching` adds nothing, as its clock cannot tick in these windows, and no record is
mixed; marked cells are such ticks or `garbled`, and the burst counts them; the cells of
intact records are marked. `CutNumber` is the reason why cutting a number invents
nothing: a proper prefix of its digits is a smaller number, so the record that is
parsed is shorter. Theorems: `ViewTypeCorrect`, `NothingIsInvented` (exact on one CPU,
with the two exceptions of `NoPhantomActivity` on several), `IntactRecordsShown`.

**`RBTreeProofs`**: any finite process table, latency, granularity and runtime bound
(`NullAssumption`: the null pointer is no process). The properties of the tree are stated
with recursive functions (the nodes below a node, their in-order sequence, black height,
leftmost node, depth). The invariant does not use them: `RBInv` says that the nodes can
be laid out, `\E s, pos, lo, hi, bh : TreeInv(...)`, where `s` is the in-order sequence,
`pos[n]` the seat of a node in it, `lo[n]..hi[n]` the seats of its subtree and `bh[n]` its
black height, and each is constrained from a node to its children and parent only
(`Shape`, `Heights`, `RedRule`). A pointer assignment or a rotation then changes the
layout at a few nodes, and one lemma per rotation serves all its uses. The parts of
`TreeInv` say what an operation may have left disturbed, and where:

- one red node with a red parent, `op.node` of `insertionCases`, with what the cases
  before have found out about parent and uncle (`InsertOK`);
- one node whose left side lacks a black node, the parent of the node of the loop of
  `retrievingCases`, which is on the leftmost path (`RebalanceOK`: `lo[op.parent] = 1`).
  So the node is a left child, and the missing code for a right child is not needed;
- the process that has been unlinked and still has links (`Outside`, `RetrieveOK`);
- `minvRuntime`: at seat 1, or at seat 2 with the new process as its left child
  (`MinSeat`), which is what `insertDone` tests for.

The recursive functions are tied to the layout once for each, by well-founded
arguments: `SubtreeInduction`, from the least subtree for which a claim fails
(`LeastNat`), the uniqueness of functions that satisfy the recursive equation, and, for
the depth, a layout of depths (`DepthOK`). The walk of `insertProc` ends at the seat
where the key belongs for the same reason: the interval of seats shrinks.

- `RBInvariant`; `RBTypeCorrect`, `SearchTreeAlways`, `MinimumCached` and
  `RedBlackAlways`, the invariants of the run `tree_structure`.
- `TreeImplementsRunQueue`: `ImplementsRunQueue`. The initial states match; `insertProcess`
  maps to the one of `RunQueue`, as the layout gains one seat just where
  `InsertionPoint` is (`SplitUnique`); `retrieveProcess` takes seat 1 away; every other step
  keeps the sequence and stutters.
- `RebalancingTerminates`: `RebalancingEnds`, from what a rotation does to the depth of
  the node (`TurnDepth`).
- `LoopNeverSpins`: the loop of `retrievingCases` is at the root, at a red node or at a
  left child, so one of its branches applies. Together with `RebalancingTerminates`
  this is why the lock of the tree is released.

**Model-checked only**: the liveness properties `Dispatched`, `KilledExits` and
`SleepEnds`, because fairness and `ENABLED` are out of the prover's reach, and `Nice`,
whose one run finds a disagreement. All invariants and action properties of the passing
runs are proved.

## 5. Not modelled

The contents of user memory (`either_copyin`, `either_copyout`, `fetchstr`,
`argstr`; whether a copy succeeds is a choice), the file system behind `ofile` and
`cwd` (reference counts only; it may sleep in `fileclose`, in `begin_op` of `exit` and in the
`fsinit` of the first `forkret`, which is left out), device drivers, `procdump` (prints and changes
nothing), `log_cpu_state` (never called), the layout of the viewer's screen, the
benchmarks as programs (the kernel is checked with every interleaving of the calls
they make), the Makefile and `user.h`. The first half of `trap.c` is commented out.
`spinlock.c`, `swtch.S`, `vm.c`, `kalloc.c`, the trampoline and the hardware are not
in the repository and are modelled from their use. In the kernel modules a lock has
a holder, a holder runs with interrupts off and `noff` is the number of locks held;
`Interrupts` has the flag and the counter themselves. That `virtualRuntime` is a
32-bit `int` is outside the bounds of the runs: no code handles its overflow, and
the order of the tree is lost after it.

## 6. Plan

Done: `RunQueue`, `RBTree` with refinement and termination, the kernel modules with
one and two CPUs, the spread of virtual runtimes, the interrupt flag and the trap
registers, the resources of processes, the log viewer, `Nice`; and proofs of all
invariants, action properties and the refinement that the runs check.

Left: the bounds of the viewer's arrays and the overflow of `virtualRuntime`, which no
property covers, because the code has no behaviour for them to be checked against
(section 5).
