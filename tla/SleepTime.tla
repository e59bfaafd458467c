----------------------------- MODULE SleepTime -----------------------------
(***************************************************************************)
(* How long sys_sleep() really takes.  ticks is unsigned and wraps around, *)
(* so the time that has passed cannot be read off it: the kernel gets a    *)
(* history variable that counts the ticks since sys_sleep read ticks0.     *)
(***************************************************************************)
EXTENDS Kernel

VARIABLES
  waited,   \* history: the ticks since ticks0 was read, up to a lap of the clock
  looked    \* history: sys_sleep has looked at the clock in time and gone on waiting

history == <<waited, looked>>
hvars == <<vars, history>>

\* p is in sys_sleep(): in its loop or in the call of sleep().
InSysSleep(p) ==
  \/ At(p) \in {"sys_sleep", "sleepcheck"}
  \/ At(p) \in {"sleep", "slept", "relock"} /\ loc[p].lk = "tickslock"

\* n ticks have passed, and less than a lap: a clock of TickModulus values shows it.
Due(p) == waited[p] \in loc[p].n..(TickModulus - 1)

Elapsed(n) == IF ticks' = ticks \/ n = TickModulus THEN n ELSE n + 1

\* The update of the history with a step of the kernel.
Observe ==
  /\ waited' = [p \in Procs |-> IF At(p) = "sys_sleep" \/ ~InSysSleep(p)' THEN 0
                                ELSE Elapsed(waited[p])]
  /\ looked' = [p \in Procs |-> /\ InSysSleep(p)'
                                /\ looked[p] \/ (pc[p] = "sleepcheck" /\ pc'[p] = "sleep" /\ Due(p))]

HInit ==
  /\ Init
  /\ waited = [p \in Procs |-> 0] /\ looked = [p \in Procs |-> FALSE]
HNext == Next /\ Observe
HSpec == HInit /\ [][HNext]_hvars

\* The fairness of FairSpec; the history variable follows every step.
FairHSpec ==
  /\ HSpec
  /\ \A c \in CPUs :
       WF_vars(KernelStep(c)) /\ WF_vars(Timer(c)) /\ SF_vars(SchedulerStep(c))
  /\ \A p \in Procs : SF_vars(Interruptee(p))

-----------------------------------------------------------------------------
\* Whenever sys_sleep looks at the clock within a lap of it, it returns if and
\* only if n ticks have really passed since it was called or the process has been
\* killed: not too early and not later than it could, also when ticks has wrapped
\* around in between.
SleepOnTime ==
  [][\A p \in Procs :
       pc[p] = "sleepcheck" /\ pc'[p] # "sleepcheck" /\ waited[p] < TickModulus =>
         (pc'[p] = "trapout" <=> killed[p] \/ waited[p] >= loc[p].n)]_hvars

\* q looks at the clock for the first time since its sleep is over, a lap too late:
\* more than 2^31 ticks in the code, where n is an int.
LapLate(q) == pc[q] = "sleepcheck" /\ waited[q] = TickModulus /\ ~looked[q]

\* sys_sleep ends: its process is woken, gets a CPU and tickslock and finds that it
\* is time, although every process may sleep and every CPU idle in wfi meanwhile,
\* and wherever the clock interrupts it on its way; unless somebody is late by a lap.
SleepEnds ==
  \A p \in Procs :
    InSysSleep(p) ~> At(p) = "trapout" \/ Stopped \/ \E q \in Procs : LapLate(q)
=============================================================================
