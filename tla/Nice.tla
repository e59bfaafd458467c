-------------------------------- MODULE Nice --------------------------------
(***************************************************************************)
(* Nice values: the system call setnice as the table of syscall.c wires it *)
(* (to sys_setnice of sysproc.c), and calculateWight of proc.c, which      *)
(* insertProcess calls for every process it inserts.                       *)
(***************************************************************************)
EXTENDS Integers

CONSTANTS
  NiceValues,   \* arguments of setnice and of calculateWight
  MaxPower      \* from this power on 1.25^power is infinity as a double

NoCall == -2    \* no return value of setnice

VARIABLES
  niceVal,      \* p->niceVal
  weightVal,    \* p->weightVal
  arg, ret,     \* of the last setnice; ret is NoCall before the first
  at,           \* where calculateWight is: "idle", "loop"
  n,            \* its parameter, clamped
  power         \* denom = 1.25^power

vars == <<niceVal, weightVal, arg, ret, at, n, power>>

\* The system call: sys_setnice() ignores its argument.
setnice(v) ==
  /\ at = "idle"
  /\ arg' = v
  /\ ret' = 0
  /\ UNCHANGED <<niceVal, weightVal, at, n, power>>

\* calculateWight(v) is called: the clamping and the initialisations.
calculateWight(v) ==
  /\ at = "idle"
  /\ at' = "loop"
  /\ n' = IF v > 30 THEN 30 ELSE IF v < 0 THEN 0 ELSE v
  /\ power' = 1
  /\ UNCHANGED <<niceVal, weightVal, arg, ret>>

\* An iteration of "while (i < niceVal && niceVal > 0)": i stays 0.  Once denom
\* is infinity an iteration changes nothing at all, and the loop goes on.
multiply ==
  /\ at = "loop"
  /\ 0 < n
  /\ power' = IF power < MaxPower THEN power + 1 ELSE power
  /\ UNCHANGED <<niceVal, weightVal, arg, ret, at, n>>

\* (int)(1024 / denom)
divide ==
  /\ at = "loop"
  /\ ~(0 < n)
  /\ weightVal' = (1024 * 4^power) \div 5^power
  /\ at' = "idle"
  /\ UNCHANGED <<niceVal, arg, ret, n, power>>

\* allocproc sets niceVal to 0.
Init ==
  /\ niceVal = 0 /\ weightVal = 0
  /\ arg = 0 /\ ret = NoCall
  /\ at = "idle" /\ n = 0 /\ power = 1

\* The kernel: setnice by the process, calculateWight(p->niceVal) by
\* insertProcess.
Next ==
  \/ \E v \in NiceValues : setnice(v)
  \/ calculateWight(niceVal)
  \/ multiply \/ divide

Spec == Init /\ [][Next]_vars

-----------------------------------------------------------------------------
\* README: setnice "Validates `nice` in [0,30], updates `p->nice` [...].
\* Returns `0` on success, `-1` on invalid value."
SetniceTakesEffect ==
  ret # NoCall => IF arg \in 0..30 THEN ret = 0 /\ niceVal = arg ELSE ret = -1
=============================================================================
