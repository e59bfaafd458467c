------------------------------ MODULE MCKernel ------------------------------
(* Model-checking instances of the kernel.                                 *)
EXTENDS Kernel, TLC

\* A state without what no later step reads: the fields of a free slot that
\* allocproc sets, and the time slice of a process that is not on a CPU.
LiveView ==
  LET live == {p \in Procs : state[p] # "UNUSED"}
      onCPU == {p \in Procs : state[p] = "RUNNING" \/ \E c \in CPUs : sproc[c] = p}
  IN  <<queue, treeWeight, period, procVars, idVars, lockVars, cpuVars, ticks,
        panicked,
        [p \in live |-> <<virtualRuntime[p], pc[p], ipc[p], intrOn[p], again[p], loc[p]>>],
        [p \in onCPU |-> maxExecutionTime[p]]>>

\* Where no process sleeps only the differences between the runtimes matter,
\* once no process may fork any more (a new process starts at 0).
RelativeView ==
  LET alive == {p \in Procs : state[p] \in {"USED", "RUNNABLE", "RUNNING"}}
      forks == \E p \in alive : mayFork(p) \/ At(p) \in {"alloc", "forkparent"}
      base == IF forks \/ alive = {} THEN 0
              ELSE virtualRuntime[CHOOSE p \in alive :
                     \A q \in alive : virtualRuntime[p] <= virtualRuntime[q]]
  IN  <<queue, period, state, killed, [p \in alive |-> currentRuntime[p]], idVars,
        lockVars, cpuVars, ticks, panicked, forks,
        [p \in alive |-> <<virtualRuntime[p] - base, pc[p], ipc[p], intrOn[p], again[p],
                           loc[p], maxExecutionTime[p]>>]>>
=============================================================================
