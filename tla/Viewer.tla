------------------------------- MODULE Viewer -------------------------------
(***************************************************************************)
(* The trace of the scheduler and the program visual.c that draws it.  The *)
(* scheduler prints ">>{p..,s..,e..}" at the end of a slice; the viewer    *)
(* reads what is new in the log in chunks and parses the records in them.  *)
(* A chunk ends where the log ends at that moment or where the buffer is   *)
(* full, so possibly inside a record.  On several CPUs a program on one of *)
(* them may print while a scheduler prints a record on another: its        *)
(* characters, digits or ">", then land inside the record.                 *)
(***************************************************************************)
EXTENDS Integers, Sequences, FiniteSets, FiniteSetsExt

CONSTANTS
  CPUs,
  Procs,      \* pids, the indexes of the arrays
  Logged,     \* those whose name starts with "benchmark"
  MaxTick,    \* bound on ticks; below MAX_TIME, as visual.c does not check
  MaxUnread,  \* bound on the records the viewer is behind
  MixedPids, MixedTicks,  \* bounds on what is read from a record with other output in it
  Radix,      \* the base in which %d prints: 10, scaled down
  TIME_SLICE_STEP

ASSUME ViewerAssumption ==
  /\ 0 \in CPUs /\ Logged \subseteq Procs /\ MaxTick \in Nat /\ Radix \in Nat \ {0, 1}
  /\ MixedPids \subseteq Procs /\ MixedTicks \subseteq 0..MaxTick

\* The local variables of scheduler() and where it is: "start" and "off" are the
\* windows between the slice and the reading of the clock before and after it.
Phases == {"idle", "start", "on", "off", "print"}
Idle == [at |-> "idle", p |-> 0, start |-> 0, end |-> 0]
Unknown == 999999999

VARIABLES
  cpus,           \* the CPUs that qemu was given
  ticks, slice,   \* the clock; the scheduler of a CPU: [at, p, start, end]
  log,            \* the printed records [p, start, end, mixed] not read yet
  available,      \* processAvailable
  details,        \* processDetails: first start, last slice, burst
  active,         \* by pid, the cells that are marked
  current_time,
  at,             \* "parse": in the loop over the tokens, "draw", "crashed"
  ran,            \* history: <<p, t>> for a benchmark p on a CPU during tick t
  switching,      \* history: <<p, t>> for p in one of these windows during tick t
  garbled,        \* history: the cells read from records with other output in them
  intact          \* history: the records that were read as they were meant

kernelVars == <<cpus, ticks, slice, ran, switching>>
viewVars == <<available, details, active, current_time>>
vars == <<kernelVars, log, viewVars, at, garbled, intact>>

-----------------------------------------------------------------------------
(* The kernel.                                                             *)

\* The processes that the CPUs in one of the phases P have, and when they have them.
In(P) == {slice[c].p : c \in {c \in CPUs : slice[c].at \in P}}
During(S, t) == (S \cap Logged) \X {t}

\* clockintr(), on CPU 0, where interrupts are off while p->lock is held.
tick ==
  /\ ticks < MaxTick
  /\ slice[0].at \in {"idle", "on"}
  /\ ticks' = ticks + 1
  /\ ran' = ran \cup During(In({"on"}), ticks + 1)
  /\ switching' = switching \cup During(In({"start", "off"}), ticks + 1)
  /\ UNCHANGED <<cpus, slice, log, viewVars, at, garbled, intact>>

\* scheduler() has taken p and reads startTick.
readStart(c, p) ==
  /\ slice[c] = Idle
  /\ p \notin In(Phases \ {"idle"})
  /\ slice' = [slice EXCEPT ![c] = [at |-> "start", p |-> p, start |-> ticks, end |-> 0]]
  /\ switching' = switching \cup During({p}, ticks)
  /\ UNCHANGED <<cpus, ticks, log, viewVars, at, ran, garbled, intact>>

\* It switches to p.
switchTo(c) ==
  /\ slice[c].at = "start"
  /\ slice' = [slice EXCEPT ![c].at = "on"]
  /\ ran' = ran \cup During({slice[c].p}, ticks)
  /\ UNCHANGED <<cpus, ticks, log, viewVars, at, switching, garbled, intact>>

\* p switches back.
switchBack(c) ==
  /\ slice[c].at = "on"
  /\ slice' = [slice EXCEPT ![c].at = "off"]
  /\ UNCHANGED <<cpus, ticks, log, viewVars, at, ran, switching, garbled, intact>>

\* scheduler() reads endTick.
readEnd(c) ==
  /\ slice[c].at = "off"
  /\ slice' = [slice EXCEPT ![c].at = "print", ![c].end = ticks]
  /\ UNCHANGED <<cpus, ticks, log, viewVars, at, ran, switching, garbled, intact>>

\* It prints the record of the slice of a benchmark, with interrupts off and the
\* lock of printf() held: only a program on another CPU can print meanwhile.
print(c) ==
  /\ slice[c].at = "print"
  /\ Len(log) < MaxUnread
  /\ slice' = [slice EXCEPT ![c] = Idle]
  /\ IF slice[c].p \in Logged
     THEN \E mixed \in IF cpus = {c} THEN {FALSE} ELSE BOOLEAN :
            log' = Append(log, [p |-> slice[c].p, start |-> slice[c].start,
                                end |-> slice[c].end, mixed |-> mixed])
     ELSE UNCHANGED log
  /\ UNCHANGED <<cpus, ticks, viewVars, at, ran, switching, garbled, intact>>

-----------------------------------------------------------------------------
(* The viewer.                                                             *)

\* Mutants: "t <= end", also after "end ++"; "t < end - 1".
Marks_Closed(s, e) == s..(IF s = e THEN s + 1 ELSE e)
Marks_OneShort(s, e) == s..(IF s = e THEN s ELSE e - 2)

\* The cells the loop "for (int t = start; t < end; t++)" goes over.
Marks(s, e) == s..(IF s = e THEN s ELSE e - 1)

\* What the loop adds to processDetails[p][2].
addedBurst(p, cells) == Cardinality(cells \ active[p])

\* Mutant: the end of the slice is kept instead of its start.
lastSlice_End(d, s, cells) == Max({d.last} \cup {t + 1 : t \in cells})

\* processDetails[p][1], set in the loop, that is if the loop is entered.
lastSlice(d, s, cells) == IF cells = {} THEN d.last ELSE Max({d.last, s})

\* A token for which sscanf returns 3.
parsed(p, s, e) ==
  LET d == details[p]
      cells == Marks(s, e)
  IN  /\ available' = available \cup {p}
      /\ details' = [details EXCEPT ![p] = [first |-> Min({d.first, s}),
                                            last |-> lastSlice(d, s, cells),
                                            burst |-> d.burst + addedBurst(p, cells)]]
      /\ active' = [active EXCEPT ![p] = @ \cup cells]
      /\ current_time' = Max({current_time, e})

\* A record that is whole in the buffer, with nothing in between.
parse ==
  /\ at = "parse"
  /\ log # << >>
  /\ LET r == Head(log)
     IN  ~r.mixed /\ parsed(r.p, r.start, r.end) /\ intact' = intact \cup {r}
  /\ log' = Tail(log)
  /\ UNCHANGED <<kernelVars, at, garbled>>

\* What is left of the number n when only its first digits are in the buffer.
Prefixes(n) == {m \in 1..n : \E k \in 1..n : m = n \div Radix^k}

\* A chunk ends inside a record.  Before the digits of the end sscanf finds fewer
\* than three numbers, among them it reads a prefix; nothing is found in the rest.
parseCut ==
  /\ at = "parse"
  /\ log # << >>
  /\ LET r == Head(log)
     IN  /\ ~r.mixed
         /\ \/ UNCHANGED viewVars
            \/ \E e \in Prefixes(r.end) : parsed(r.p, r.start, e)
  /\ log' = Tail(log)
  /\ at' = "draw"
  /\ UNCHANGED <<kernelVars, garbled, intact>>

\* A record with other characters in it, whole or cut.  A letter or a ">" makes
\* sscanf stop early, a digit enlarges or changes a number: it reads anything, here
\* anything within the arrays, or finds fewer than three numbers.
parseMixed ==
  /\ at = "parse"
  /\ log # << >>
  /\ Head(log).mixed
  /\ \/ UNCHANGED <<viewVars, garbled>>
     \/ \E p \in MixedPids, s, e \in MixedTicks :
          /\ parsed(p, s, e)
          /\ garbled' = garbled \cup ({p} \X Marks(s, e))
  /\ log' = Tail(log)
  /\ at' \in {"parse", "draw"}
  /\ UNCHANGED <<kernelVars, intact>>

\* strtok finds no more tokens: the chunk ends between two records.
chunkEnds ==
  /\ at = "parse"
  /\ at' = "draw"
  /\ UNCHANGED <<kernelVars, log, viewVars, garbled, intact>>

\* draw_chart prints the columns of the last TIME_SLICE_STEP slices.
Columns == Max({0, current_time - TIME_SLICE_STEP})..current_time
Chart == {x \in available \X Columns : x[2] \in active[x[1]]}

\* processWaitingTime
waitingTime(p) == Max({0, details[p].last - details[p].first - details[p].burst})

\* draw_chart ends with avgWaitingTime / num: the program is killed when it has
\* no process to show.  After sleep(10) the loop goes on.
draw_chart ==
  /\ at = "draw"
  /\ at' = IF available = {} THEN "crashed" ELSE "parse"
  /\ UNCHANGED <<kernelVars, log, viewVars, garbled, intact>>

Init ==
  /\ cpus \in {S \in SUBSET CPUs : 0 \in S}
  /\ ticks = 0 /\ slice = [c \in CPUs |-> Idle] /\ log = << >>
  /\ available = {} /\ active = [p \in Procs |-> {}] /\ current_time = 0
  /\ details = [p \in Procs |-> [first |-> Unknown, last |-> 0, burst |-> 0]]
  /\ at = "parse"
  /\ ran = {} /\ switching = {} /\ garbled = {} /\ intact = {}

Next ==
  \/ tick
  \/ \E c \in cpus :
       \/ \E p \in Procs : readStart(c, p)
       \/ switchTo(c) \/ switchBack(c) \/ readEnd(c) \/ print(c)
  \/ parse \/ parseCut \/ parseMixed \/ chunkEnds \/ draw_chart

Spec == Init /\ [][Next]_vars

-----------------------------------------------------------------------------
Record == [p : Logged, start : 0..MaxTick, end : 0..MaxTick, mixed : BOOLEAN]

ViewTypeOK ==
  /\ cpus \subseteq CPUs
  /\ ticks \in 0..MaxTick
  /\ slice \in [CPUs -> [at : Phases, p : Procs \cup {0}, start : 0..MaxTick, end : 0..MaxTick]]
  /\ log \in Seq(Record)
  /\ available \subseteq Procs /\ active \in [Procs -> SUBSET Nat]
  /\ details \in [Procs -> [first : 0..MaxTick \cup {Unknown}, last : 0..MaxTick,
                            burst : 0..(MaxTick + 1)]]
  /\ current_time \in 0..MaxTick
  /\ at \in {"parse", "draw", "crashed"}
  /\ UNION {ran, switching, garbled} \subseteq Procs \X (0..MaxTick)

\* On one CPU the chart never shows a process in a tick in which it was not on the
\* CPU, wherever a chunk boundary cuts a record and however short the slices are.
\* On several CPUs there are two exceptions and no other: a tick in which
\* scheduler() was about to switch to the process or had just switched back, and
\* what was read from a record with the output of another CPU in it.
\* Nor is a process shown waiting in a tick that is marked: the burst time
\* counts every marked cell once, also when slices share a tick, and the waiting
\* time is at most the unmarked cells between the first and the last start.
NoPhantomActivity ==
  /\ Chart \subseteq IF cpus = {0} THEN ran ELSE UNION {ran, switching, garbled}
  /\ \A p \in available :
       /\ details[p].burst = Cardinality(active[p])
       /\ waitingTime(p) <= Cardinality((details[p].first..(details[p].last - 1)) \ active[p])

\* Only what was in a record that was cut, or that has other output in it, can be
\* missing: the ticks of all other slices in the columns shown are marked.
IntactShown ==
  \A r \in intact : {r.p} \X ((r.start..(r.end - 1)) \cap Columns) \subseteq Chart
=============================================================================
