---------------------------- MODULE ViewerProofs ----------------------------
(***************************************************************************)
(* Proofs about the trace and the program that draws it, for every number  *)
(* of processes, every length of the log and every chart width.  On one    *)
(* CPU what is drawn has happened; on several the windows of scheduler()   *)
(* and the records with other output in them are all that can make the     *)
(* chart wrong.  What was read as it was meant is drawn.                   *)
(***************************************************************************)
EXTENDS Viewer, TLAPS, FiniteSetTheorems

-----------------------------------------------------------------------------
(* The operators of the viewer.                                            *)

\* The larger and the smaller of two numbers.
LEMMA TwoNumbers ==
  ASSUME NEW a \in Int, NEW b \in Int
  PROVE  /\ Max({a, b}) = (IF a >= b THEN a ELSE b)
         /\ Min({a, b}) = (IF a <= b THEN a ELSE b)
<1>1. Max({a, b}) = (IF a >= b THEN a ELSE b)
  <2>1. \E x \in {a, b} : \A y \in {a, b} : x >= y
    OBVIOUS
  <2>2. Max({a, b}) \in {a, b} /\ Max({a, b}) >= a /\ Max({a, b}) >= b
    BY <2>1 DEF Max
  <2>3. QED
    BY <2>2
<1>2. Min({a, b}) = (IF a <= b THEN a ELSE b)
  <2>1. \E x \in {a, b} : \A y \in {a, b} : x =< y
    OBVIOUS
  <2>2. Min({a, b}) \in {a, b} /\ Min({a, b}) <= a /\ Min({a, b}) <= b
    BY <2>1 DEF Min
  <2>3. QED
    BY <2>2
<1>3. QED
  BY <1>1, <1>2

\* The loop of parse_log_chunk marks cells of the slice only, and all of them.
LEMMA MarkedCells ==
  ASSUME NEW s \in 0..MaxTick, NEW e \in 0..MaxTick
  PROVE  /\ Marks(s, e) \subseteq s..e /\ Marks(s, e) \subseteq 0..MaxTick
         /\ s..(e - 1) \subseteq Marks(s, e)
  BY ViewerAssumption DEF Marks

\* A number cut short is not larger.
LEMMA CutNumber ==
  ASSUME NEW n \in 0..MaxTick, NEW e \in Prefixes(n)
  PROVE  e \in 0..MaxTick /\ e <= n
<1>1. MaxTick \in Nat /\ e \in 1..n
  BY ViewerAssumption DEF Prefixes
<1>2. QED
  BY <1>1

-----------------------------------------------------------------------------
(* The inductive invariant.                                                *)

\* The cells in which an unmixed record may truly say that its process was running:
\* those of a slice on CPU 0, which takes the clock's interrupt itself, are exact.
Exact(c) == IF c = 0 THEN ran ELSE ran \cup switching
Told == IF cpus = {0} THEN ran ELSE ran \cup switching
Allowed == IF cpus = {0} THEN ran ELSE UNION {ran, switching, garbled}

\* The set R has p in all ticks from s to e.
RanIn(R, p, s, e) == \A t \in s..e : <<p, t>> \in R

Slice == [at : Phases, p : Procs \cup {0}, start : 0..MaxTick, end : 0..MaxTick]
KernelTypes ==
  /\ cpus \subseteq CPUs /\ 0 \in cpus
  /\ ticks \in 0..MaxTick
  /\ slice \in [CPUs -> Slice]
  /\ ran \subseteq Procs \X (0..MaxTick) /\ switching \subseteq Procs \X (0..MaxTick)

\* What the scheduler of CPU c will print is true: from startTick on its process was
\* in the slice, or in one of the windows around it, and on CPU 0 the windows are
\* too short for a tick.
SliceSide(c) ==
  /\ slice[c].at # "idle" => c \in cpus
  /\ slice[c].at = "start" /\ c = 0 => slice[c].start = ticks
  /\ slice[c].p \in Logged =>
       /\ slice[c].at = "start" => RanIn(switching, slice[c].p, slice[c].start, ticks)
       /\ slice[c].at \in {"on", "off"} => RanIn(Exact(c), slice[c].p, slice[c].start, ticks)
       /\ slice[c].at = "print" => RanIn(Exact(c), slice[c].p, slice[c].start, slice[c].end)
KernelSide == KernelTypes /\ \A c \in CPUs : SliceSide(c)

\* Every record that is printed without other output in it tells when its process ran,
\* and on one CPU there are no others.
LogSide ==
  /\ log \in Seq(Record)
  /\ \A i \in 1..Len(log) :
       /\ RanIn(Told, log[i].p, log[i].start, log[i].end)
       /\ log[i].mixed => cpus # {0}

\* A marked cell is allowed; the burst counts the marked cells.
Detail == [first : (0..MaxTick) \cup {Unknown}, last : 0..MaxTick, burst : Nat]
ProcessSide(p) ==
  /\ active[p] \subseteq 0..MaxTick
  /\ \A t \in active[p] : <<p, t>> \in Allowed
  /\ details[p].burst = Cardinality(active[p])
ViewTypes ==
  /\ available \subseteq Procs /\ active \in [Procs -> SUBSET Nat]
  /\ details \in [Procs -> Detail]
  /\ current_time \in 0..MaxTick /\ at \in {"parse", "draw", "crashed"}
  /\ intact \subseteq Record /\ garbled \subseteq Procs \X (0..MaxTick)
ViewSide ==
  /\ ViewTypes
  /\ \A p \in Procs : ProcessSide(p)
  /\ \A r \in intact : r.p \in available /\ r.start..(r.end - 1) \subseteq active[r.p]

ViewInv == KernelSide /\ LogSide /\ ViewSide

-----------------------------------------------------------------------------
(* The steps of the kernel.                                                *)

\* The histories grow, and with them the cells a record may tell of.
Grows == ran \subseteq ran' /\ switching \subseteq switching' /\ cpus' = cpus /\ garbled' = garbled

LEMMA CellsGrow ==
  ASSUME Grows
  PROVE  /\ Told \subseteq Told' /\ Allowed \subseteq Allowed'
         /\ \A c \in CPUs : Exact(c) \subseteq Exact(c)'
<1>1. Told \subseteq Told'
  BY DEF Grows, Told
<1>2. Allowed \subseteq Allowed'
  BY DEF Grows, Allowed
<1>3. \A c \in CPUs : Exact(c) \subseteq Exact(c)'
  BY DEF Grows, Exact
<1>4. QED
  BY <1>1, <1>2, <1>3

\* The kernel only adds to the histories, and leaves the view alone.
LEMMA ViewKept ==
  ASSUME ViewSide, Grows, UNCHANGED <<available, details, active, current_time, at, intact>>
  PROVE  ViewSide'
<1>1. ViewTypes'
  BY DEF ViewSide, ViewTypes, Grows
<1>2. ASSUME NEW p \in Procs
      PROVE  ProcessSide(p)'
  <2>1. ProcessSide(p)
    BY DEF ViewSide
  <2>2. QED
    BY <2>1, CellsGrow DEF ProcessSide
<1>3. \A r \in intact' : r.p \in available' /\ r.start..(r.end - 1) \subseteq active'[r.p]
  BY DEF ViewSide
<1>4. QED
  BY <1>1, <1>2, <1>3 DEF ViewSide

\* The log stays true.
LEMMA LogKept ==
  ASSUME LogSide, Grows, log' = log
  PROVE  LogSide'
<1>1. ASSUME NEW i \in 1..Len(log)
      PROVE  RanIn(Told', log[i].p, log[i].start, log[i].end) /\ (log[i].mixed => cpus' # {0})
  BY CellsGrow DEF LogSide, RanIn, Grows
<1>2. QED
  BY <1>1 DEF LogSide

\* The other CPUs' slices stay true when the clock stands still.
LEMMA SliceKept ==
  ASSUME NEW c \in CPUs, SliceSide(c), Grows, slice'[c] = slice[c], ticks' = ticks
  PROVE  SliceSide(c)'
<1>1. Exact(c) \subseteq Exact(c)' /\ switching \subseteq switching' /\ cpus' = cpus
  BY CellsGrow DEF Grows
<1>2. QED
  BY <1>1 DEF SliceSide, RanIn

\* What is added to a history is of the right type.
LEMMA DuringType ==
  ASSUME NEW S, NEW t \in 0..MaxTick
  PROVE  During(S, t) \subseteq Procs \X (0..MaxTick)
  BY ViewerAssumption DEF During

\* The clock.
LEMMA TickOK ==
  ASSUME ViewInv, tick
  PROVE  ViewInv'
<1>0. KernelTypes /\ LogSide /\ ViewSide /\ MaxTick \in Nat /\ \A c \in CPUs : SliceSide(c)
  BY ViewerAssumption DEF ViewInv, KernelSide
<1>1. /\ ticks < MaxTick /\ ticks' = ticks + 1 /\ slice[0].at \in {"idle", "on"}
      /\ ran' = ran \cup During(In({"on"}), ticks + 1)
      /\ switching' = switching \cup During(In({"start", "off"}), ticks + 1)
      /\ UNCHANGED <<cpus, slice, log, available, details, active, current_time, at, garbled, intact>>
  BY DEF tick, viewVars
<1>2. ticks \in Nat /\ ticks' \in 0..MaxTick /\ Grows
  BY <1>0, <1>1 DEF KernelTypes, Grows
<1>3. KernelTypes'
  <2>1. ticks + 1 \in 0..MaxTick
    BY <1>1, <1>2
  <2>2. ran' \subseteq Procs \X (0..MaxTick) /\ switching' \subseteq Procs \X (0..MaxTick)
    BY <1>0, <1>1, <2>1, DuringType DEF KernelTypes
  <2>3. QED
    BY <1>0, <1>1, <1>2, <2>2 DEF KernelTypes
<1>4. ASSUME NEW c \in CPUs
      PROVE  SliceSide(c)'
  <2>0. SliceSide(c) /\ slice'[c] = slice[c] /\ cpus' = cpus
    BY <1>0, <1>1
  <2>1. Exact(c) \subseteq Exact(c)' /\ switching \subseteq switching'
    BY <1>2, CellsGrow DEF Grows
  <2>2. \A t \in slice[c].start..ticks' : t \in slice[c].start..ticks \/ t = ticks + 1
    <3>1. slice[c].start \in Nat
      BY <1>0 DEF KernelTypes, Slice
    <3>2. QED
      BY <1>1, <1>2, <3>1
  <2>3. CASE slice[c].at = "start"
    <3>1. c # 0
      BY <1>1, <2>3
    <3>2. slice[c].p \in Logged => <<slice[c].p, ticks + 1>> \in switching'
      BY <1>1, <2>3 DEF During, In
    <3>3. slice[c].p \in Logged => RanIn(switching', slice[c].p, slice[c].start, ticks')
      BY <2>0, <2>1, <2>2, <2>3, <3>2 DEF SliceSide, RanIn
    <3>4. QED
      BY <2>0, <2>3, <3>1, <3>3 DEF SliceSide
  <2>4. CASE slice[c].at = "on"
    <3>1. slice[c].p \in Logged => <<slice[c].p, ticks + 1>> \in Exact(c)'
      <4>1. slice[c].p \in Logged => <<slice[c].p, ticks + 1>> \in ran'
        BY <1>1, <2>4 DEF During, In
      <4>2. QED
        BY <4>1 DEF Exact
    <3>2. slice[c].p \in Logged => RanIn(Exact(c)', slice[c].p, slice[c].start, ticks')
      BY <2>0, <2>1, <2>2, <2>4, <3>1 DEF SliceSide, RanIn
    <3>3. QED
      BY <2>0, <2>4, <3>2 DEF SliceSide
  <2>5. CASE slice[c].at = "off"
    <3>1. c # 0
      BY <1>1, <2>5
    <3>2. slice[c].p \in Logged => <<slice[c].p, ticks + 1>> \in Exact(c)'
      <4>1. slice[c].p \in Logged => <<slice[c].p, ticks + 1>> \in switching'
        BY <1>1, <2>5 DEF During, In
      <4>2. QED
        BY <3>1, <4>1 DEF Exact
    <3>3. slice[c].p \in Logged => RanIn(Exact(c)', slice[c].p, slice[c].start, ticks')
      BY <2>0, <2>1, <2>2, <2>5, <3>2 DEF SliceSide, RanIn
    <3>4. QED
      BY <2>0, <2>5, <3>3 DEF SliceSide
  <2>6. CASE slice[c].at \notin {"start", "on", "off"}
    BY <2>0, <2>1, <2>6 DEF SliceSide, RanIn
  <2>7. QED
    BY <2>3, <2>4, <2>5, <2>6
<1>5. QED
  BY <1>0, <1>1, <1>2, <1>3, <1>4, LogKept, ViewKept DEF ViewInv, KernelSide

\* A step of the scheduler of one CPU that keeps the clock and the log.
LEMMA SchedulerOK ==
  ASSUME ViewInv, NEW c \in CPUs, NEW new \in Slice, Grows, KernelTypes',
         slice' = [slice EXCEPT ![c] = new], SliceSide(c)',
         UNCHANGED <<ticks, log, available, details, active, current_time, at, intact>>
  PROVE  ViewInv'
<1>0. KernelTypes /\ LogSide /\ ViewSide /\ \A d \in CPUs : SliceSide(d)
  BY DEF ViewInv, KernelSide
<1>1. \A d \in CPUs : d # c => slice'[d] = slice[d]
  BY <1>0 DEF KernelTypes
<1>2. \A d \in CPUs : SliceSide(d)'
  BY <1>0, <1>1, SliceKept
<1>3. QED
  BY <1>0, <1>2, LogKept, ViewKept DEF ViewInv, KernelSide

\* startTick is read.
LEMMA ReadStartOK ==
  ASSUME ViewInv, NEW c \in cpus, NEW p \in Procs, readStart(c, p)
  PROVE  ViewInv'
<1> DEFINE new == [at |-> "start", p |-> p, start |-> ticks, end |-> 0]
<1>0. /\ KernelTypes /\ c \in CPUs /\ ticks \in 0..MaxTick /\ MaxTick \in Nat /\ slice \in [CPUs -> Slice]
      /\ new \in Slice
  BY ViewerAssumption DEF ViewInv, KernelSide, KernelTypes, Slice, Phases
<1>1. /\ slice' = [slice EXCEPT ![c] = new] /\ switching' = switching \cup During({p}, ticks)
      /\ UNCHANGED <<cpus, ticks, log, available, details, active, current_time, at, ran, garbled, intact>>
  BY DEF readStart, viewVars
<1>2. Grows
  BY <1>1 DEF Grows
<1>3. slice'[c] = new /\ slice' \in [CPUs -> Slice]
  BY <1>0, <1>1
<1>4. KernelTypes'
  BY <1>0, <1>1, <1>3, DuringType DEF KernelTypes
<1>5. p \in Logged => RanIn(switching', p, ticks, ticks)
  <2>1. \A t \in ticks..ticks : t = ticks
    BY <1>0
  <2>2. p \in Logged => <<p, ticks>> \in switching'
    BY <1>1 DEF During
  <2>3. QED
    BY <2>1, <2>2 DEF RanIn
<1>6. SliceSide(c)'
  BY <1>1, <1>3, <1>5 DEF SliceSide
<1> HIDE DEF new
<1>7. QED
  BY <1>0, <1>1, <1>2, <1>4, <1>6, SchedulerOK

\* The switch to the process: on CPU 0 in the tick that startTick says.
LEMMA SwitchToOK ==
  ASSUME ViewInv, NEW c \in cpus, switchTo(c)
  PROVE  ViewInv'
<1> DEFINE new == [slice[c] EXCEPT !.at = "on"]
<1>0. /\ KernelTypes /\ c \in CPUs /\ ticks \in 0..MaxTick /\ MaxTick \in Nat /\ slice \in [CPUs -> Slice]
      /\ SliceSide(c) /\ slice[c] \in Slice
  BY ViewerAssumption DEF ViewInv, KernelSide, KernelTypes
<1>1. /\ slice' = [slice EXCEPT ![c] = new] /\ ran' = ran \cup During({slice[c].p}, ticks)
      /\ slice[c].at = "start"
      /\ UNCHANGED <<cpus, ticks, log, available, details, active, current_time, at, switching, garbled, intact>>
  BY DEF switchTo, viewVars
<1>2. /\ new \in Slice /\ new.at = "on" /\ new.p = slice[c].p /\ new.start = slice[c].start
  BY <1>0 DEF Slice, Phases
<1>3. Grows
  BY <1>1 DEF Grows
<1> HIDE DEF new
<1>4. slice'[c] = new /\ slice' \in [CPUs -> Slice]
  BY <1>0, <1>1, <1>2
<1>5. KernelTypes'
  BY <1>0, <1>1, <1>4, DuringType DEF KernelTypes
<1>6. slice[c].p \in Logged => RanIn(Exact(c)', slice[c].p, slice[c].start, ticks)
  <2>1. CASE c = 0
    <3>1. slice[c].start = ticks
      BY <1>0, <1>1, <2>1 DEF SliceSide
    <3>2. \A t \in ticks..ticks : t = ticks
      BY <1>0
    <3>3. slice[c].p \in Logged => <<slice[c].p, ticks>> \in ran'
      BY <1>1 DEF During
    <3>4. QED
      BY <2>1, <3>1, <3>2, <3>3 DEF RanIn, Exact
  <2>2. CASE c # 0
    <3>1. switching \subseteq Exact(c)'
      BY <1>1, <2>2 DEF Exact
    <3>2. QED
      BY <1>0, <1>1, <3>1 DEF SliceSide, RanIn
  <2>3. QED
    BY <2>1, <2>2
<1>7. SliceSide(c)'
  BY <1>1, <1>2, <1>4, <1>6 DEF SliceSide
<1>8. QED
  BY <1>0, <1>1, <1>2, <1>3, <1>5, <1>7, SchedulerOK

\* The switch back, and the reading of endTick.
LEMMA SwitchBackOK ==
  ASSUME ViewInv, NEW c \in cpus, switchBack(c) \/ readEnd(c)
  PROVE  ViewInv'
<1> DEFINE new == IF slice[c].at = "on" THEN [slice[c] EXCEPT !.at = "off"]
                  ELSE [slice[c] EXCEPT !.at = "print", !.end = ticks]
<1>0. /\ KernelTypes /\ c \in CPUs /\ ticks \in 0..MaxTick /\ slice \in [CPUs -> Slice]
      /\ SliceSide(c) /\ slice[c] \in Slice
  BY DEF ViewInv, KernelSide, KernelTypes
<1>1. /\ slice' = [slice EXCEPT ![c] = new] /\ slice[c].at \in {"on", "off"}
      /\ UNCHANGED <<cpus, ticks, log, available, details, active, current_time, at, ran, switching, garbled, intact>>
  <2>1. CASE switchBack(c)
    BY <2>1 DEF switchBack, viewVars
  <2>2. CASE readEnd(c)
    <3>1. slice' = [slice EXCEPT ![c] = [@ EXCEPT !.at = "print", !.end = ticks]]
      BY <1>0, <2>2 DEF readEnd, Slice
    <3>2. QED
      BY <2>2, <3>1 DEF readEnd, viewVars
  <2>3. QED
    BY <2>1, <2>2
<1>2. /\ new \in Slice /\ new.p = slice[c].p /\ new.start = slice[c].start
      /\ slice[c].at = "on" => new.at = "off"
      /\ slice[c].at = "off" => new.at = "print" /\ new.end = ticks
  BY <1>0 DEF Slice, Phases
<1>3. Grows
  BY <1>1 DEF Grows
<1> HIDE DEF new
<1>4. slice'[c] = new /\ slice' \in [CPUs -> Slice]
  BY <1>0, <1>1, <1>2
<1>5. KernelTypes'
  BY <1>0, <1>1, <1>4 DEF KernelTypes
<1>6. Exact(c)' = Exact(c)
  BY <1>1 DEF Exact
<1>7. SliceSide(c)'
  BY <1>0, <1>1, <1>2, <1>4, <1>6 DEF SliceSide
<1>8. QED
  BY <1>0, <1>1, <1>2, <1>3, <1>5, <1>7, SchedulerOK

\* The record is printed.
LEMMA PrintOK ==
  ASSUME ViewInv, NEW c \in cpus, print(c)
  PROVE  ViewInv'
<1>0. /\ KernelTypes /\ LogSide /\ ViewSide /\ c \in CPUs /\ MaxTick \in Nat /\ log \in Seq(Record)
      /\ slice \in [CPUs -> Slice] /\ slice[c] \in Slice /\ \A d \in CPUs : SliceSide(d)
  BY ViewerAssumption DEF ViewInv, KernelSide, KernelTypes, LogSide
<1> DEFINE rec(m) == [p |-> slice[c].p, start |-> slice[c].start, end |-> slice[c].end, mixed |-> m]
<1>1. /\ slice[c].at = "print" /\ slice' = [slice EXCEPT ![c] = Idle]
      /\ IF slice[c].p \in Logged
         THEN \E m \in IF cpus = {c} THEN {FALSE} ELSE BOOLEAN : log' = Append(log, rec(m))
         ELSE UNCHANGED log
      /\ UNCHANGED <<cpus, ticks, available, details, active, current_time, at, ran, switching, garbled, intact>>
  BY DEF print, viewVars
<1>2. Idle \in Slice /\ Idle.at = "idle" /\ Grows
  BY <1>0, <1>1 DEF Idle, Slice, Phases, Grows
<1>3. /\ slice'[c] = Idle /\ slice' \in [CPUs -> Slice]
      /\ \A d \in CPUs : d # c => slice'[d] = slice[d]
  BY <1>0, <1>1, <1>2
<1>4. KernelSide'
  <2>1. KernelTypes'
    BY <1>0, <1>1, <1>3 DEF KernelTypes
  <2>2. SliceSide(c)'
    BY <1>2, <1>3 DEF SliceSide
  <2>3. \A d \in CPUs : SliceSide(d)'
    BY <1>0, <1>1, <1>2, <1>3, <2>2, SliceKept
  <2>4. QED
    BY <2>1, <2>3 DEF KernelSide
<1>5. LogSide'
  <2>1. CASE slice[c].p \notin Logged
    BY <1>0, <1>1, <1>2, <2>1, LogKept
  <2>2. CASE slice[c].p \in Logged
    <3>1. PICK m \in IF cpus = {c} THEN {FALSE} ELSE BOOLEAN : log' = Append(log, rec(m))
      BY <1>1, <2>2
    <3> DEFINE r == rec(m)
    <3>2. /\ r \in Record /\ r.p = slice[c].p /\ r.start = slice[c].start
          /\ r.end = slice[c].end /\ r.mixed = m /\ m \in BOOLEAN
      <4>1. m \in BOOLEAN
        BY <3>1
      <4>2. QED
        BY <1>0, <2>2, <4>1 DEF Record, Slice
    <3>3. log' = Append(log, r)
      BY <3>1
    <3> HIDE DEF r
    <3>4. RanIn(Told, r.p, r.start, r.end)
      <4>1. RanIn(Exact(c), slice[c].p, slice[c].start, slice[c].end)
        BY <1>0, <1>1, <2>2 DEF SliceSide
      <4>2. Exact(c) \subseteq Told
        BY DEF Exact, Told
      <4>3. QED
        BY <3>2, <4>1, <4>2 DEF RanIn
    <3>5. m => cpus # {0}
      BY <3>1
    <3>6. log' \in Seq(Record)
      BY <1>0, <3>2, <3>3
    <3>7. \A i \in 1..Len(log') : log'[i] = r \/ (i \in 1..Len(log) /\ log'[i] = log[i])
      BY <1>0, <3>3
    <3>8. Told' = Told /\ cpus' = cpus
      BY <1>1 DEF Told
    <3>9. ASSUME NEW i \in 1..Len(log')
          PROVE  RanIn(Told', log'[i].p, log'[i].start, log'[i].end) /\ (log'[i].mixed => cpus' # {0})
      <4>1. CASE log'[i] = r
        BY <3>2, <3>4, <3>5, <3>8, <4>1
      <4>2. CASE i \in 1..Len(log) /\ log'[i] = log[i]
        BY <1>0, <3>8, <4>2 DEF LogSide
      <4>3. QED
        BY <3>7, <4>1, <4>2
    <3>10. QED
      BY <3>6, <3>9 DEF LogSide
  <2>3. QED
    BY <2>1, <2>2
<1>6. QED
  BY <1>0, <1>1, <1>2, <1>4, <1>5, ViewKept DEF ViewInv

-----------------------------------------------------------------------------
(* The steps of the viewer.                                                *)

\* A token is parsed: its cells, which must be allowed, are added to the view.
LEMMA ParsedOK ==
  ASSUME ViewSide, NEW p \in Procs, NEW s \in 0..MaxTick, NEW e \in 0..MaxTick,
         \A t \in Marks(s, e) : <<p, t>> \in Allowed', Allowed \subseteq Allowed',
         parsed(p, s, e), garbled' \subseteq Procs \X (0..MaxTick),
         at' \in {"parse", "draw", "crashed"}, intact' \in SUBSET Record,
         \A r \in intact' : r \in intact \/ (r.p = p /\ r.start = s /\ r.end = e)
  PROVE  ViewSide'
<1> DEFINE d == details[p]
           cells == Marks(s, e)
           f == Min({d.first, s})
           l == lastSlice(d, s, cells)
           b == d.burst + addedBurst(p, cells)
           new == [first |-> f, last |-> l, burst |-> b]
<1>0. /\ ViewTypes /\ MaxTick \in Nat /\ p \in Procs /\ d \in Detail
      /\ active \in [Procs -> SUBSET Nat] /\ details \in [Procs -> Detail]
      /\ current_time \in 0..MaxTick
  BY ViewerAssumption DEF ViewSide, ViewTypes
<1>1. /\ available' = available \cup {p} /\ details' = [details EXCEPT ![p] = new]
      /\ active' = [active EXCEPT ![p] = @ \cup cells] /\ current_time' = Max({current_time, e})
  BY DEF parsed
<1>2. /\ cells \subseteq s..e /\ cells \subseteq 0..MaxTick /\ s..(e - 1) \subseteq cells
  BY MarkedCells
<1> HIDE DEF cells
<1>3. ProcessSide(p) /\ active[p] \subseteq 0..MaxTick /\ d.burst = Cardinality(active[p])
  BY <1>0 DEF ViewSide, ProcessSide
<1>4. b = Cardinality(active[p] \cup cells) /\ b \in Nat
  <2> DEFINE A == active[p]
             B == cells \ A
  <2>1. IsFiniteSet(0..MaxTick)
    BY <1>0, FS_Interval
  <2>2. A \in SUBSET (0..MaxTick) /\ B \in SUBSET (0..MaxTick) /\ A \cap B = {}
        /\ A \cup cells = A \cup B
    BY <1>2, <1>3
  <2>3. addedBurst(p, cells) = Cardinality(B)
    BY DEF addedBurst
  <2>4. d.burst = Cardinality(A)
    BY <1>3
  <2> HIDE DEF A, B, d
  <2>5. IsFiniteSet(A) /\ IsFiniteSet(B)
    BY <2>1, <2>2, FS_Subset
  <2>6. Cardinality(A) \in Nat /\ Cardinality(B) \in Nat
    BY <2>5, FS_CardinalityType
  <2>7. Cardinality(A \cup B) = Cardinality(A) + Cardinality(B) - Cardinality(A \cap B)
    BY <2>5, FS_Union
  <2>8. Cardinality(A \cap B) = 0
    BY <2>2, FS_EmptySet
  <2>9. Cardinality(A \cup B) = Cardinality(A) + Cardinality(B)
    BY <2>6, <2>7, <2>8
  <2>10. b = Cardinality(A) + Cardinality(B)
    BY <2>3, <2>4
  <2> HIDE DEF b
  <2>11. b = Cardinality(A \cup cells) /\ b \in Nat
    <3>1. A \cup cells = A \cup B
      BY <2>2
    <3>2. Cardinality(A \cup cells) = Cardinality(A) + Cardinality(B)
      BY <2>9, <3>1
    <3>3. QED
      BY <2>6, <2>10, <3>2
  <2>12. QED
    BY <2>11 DEF A
<1>5. f \in (0..MaxTick) \cup {Unknown}
  <2>1. d.first \in (0..MaxTick) \cup {Unknown} /\ Unknown \in Int
    BY <1>0 DEF Detail, Unknown
  <2> HIDE DEF d
  <2>2. d.first \in Int /\ s \in Int
    BY <1>0, <2>1
  <2>3. f \in {d.first, s}
    BY <2>2, TwoNumbers
  <2>4. QED
    BY <2>1, <2>3
<1>6. l \in 0..MaxTick
  <2>1. d.last \in 0..MaxTick
    BY <1>0 DEF Detail
  <2> HIDE DEF d
  <2>2. d.last \in Int /\ s \in Int
    BY <1>0, <2>1
  <2>3. Max({d.last, s}) \in {d.last, s}
    BY <2>2, TwoNumbers
  <2>4. QED
    BY <2>1, <2>3 DEF lastSlice
<1>7. current_time' \in 0..MaxTick
  <2>1. current_time \in Int /\ e \in Int
    BY <1>0
  <2>2. Max({current_time, e}) \in {current_time, e}
    BY <2>1, TwoNumbers
  <2>3. QED
    BY <1>0, <1>1, <2>2
<1> HIDE DEF d, f, l, b
<1>8. new \in Detail /\ new.burst = b
  BY <1>4, <1>5, <1>6 DEF Detail
<1> HIDE DEF new
<1>9. /\ details' \in [Procs -> Detail] /\ details'[p] = new
      /\ \A q \in Procs : q # p => details'[q] = details[q]
  BY <1>0, <1>1, <1>8
<1>10. /\ active' \in [Procs -> SUBSET Nat] /\ active'[p] = active[p] \cup cells
       /\ \A q \in Procs : q # p => active'[q] = active[q]
  <2>1. active[p] \cup cells \in SUBSET Nat
    <3>1. active[p] \in SUBSET Nat /\ \A t \in cells : t \in Nat
      BY <1>0, <1>2
    <3>2. QED
      BY <3>1
  <2>2. active' = [active EXCEPT ![p] = active[p] \cup cells]
    BY <1>1
  <2>3. QED
    BY <1>0, <2>1, <2>2
<1>11. ViewTypes'
  BY <1>0, <1>1, <1>7, <1>9, <1>10 DEF ViewTypes
<1>12. ASSUME NEW q \in Procs
       PROVE  ProcessSide(q)'
  <2>1. ProcessSide(q)
    BY DEF ViewSide
  <2>2. CASE q # p
    BY <1>9, <1>10, <2>1, <2>2 DEF ProcessSide
  <2>3. CASE q = p
    <3>1. \A t \in cells : <<p, t>> \in Allowed'
      BY DEF cells
    <3>2. active'[p] \subseteq 0..MaxTick /\ \A t \in active'[p] : <<p, t>> \in Allowed'
      BY <1>2, <1>3, <1>10, <3>1 DEF ProcessSide
    <3>3. details'[p].burst = Cardinality(active'[p])
      BY <1>4, <1>8, <1>9, <1>10
    <3>4. QED
      BY <2>3, <3>2, <3>3 DEF ProcessSide
  <2>4. QED
    BY <2>2, <2>3
<1>13. ASSUME NEW r \in intact'
       PROVE  r.p \in available' /\ r.start..(r.end - 1) \subseteq active'[r.p]
  <2>1. CASE r \in intact
    <3>1. r.p \in available /\ r.start..(r.end - 1) \subseteq active[r.p] /\ r.p \in Procs
      BY <1>0, <2>1, ViewerAssumption DEF ViewSide, ViewTypes
    <3>2. QED
      BY <1>1, <1>10, <3>1
  <2>2. CASE r.p = p /\ r.start = s /\ r.end = e
    BY <1>1, <1>2, <1>10, <2>2
  <2>3. QED
    BY <2>1, <2>2
<1>14. QED
  BY <1>11, <1>12, <1>13 DEF ViewSide

\* Only part of the cells of an unmixed record is marked when it is cut.
LEMMA RecordCells ==
  ASSUME NEW p \in Procs, NEW s \in 0..MaxTick, NEW z \in 0..MaxTick, NEW e \in 0..MaxTick,
         e <= z, RanIn(Told, p, s, z)
  PROVE  \A t \in Marks(s, e) : <<p, t>> \in Allowed
<1>1. Told \subseteq Allowed
  BY DEF Told, Allowed
<1>2. CASE s <= z
  <2>1. Marks(s, e) \subseteq s..z
    BY <1>2, ViewerAssumption DEF Marks
  <2>2. QED
    BY <1>1, <2>1 DEF RanIn
<1>3. CASE s > z
  <2>1. Marks(s, e) = {}
    BY <1>3, ViewerAssumption DEF Marks
  <2>2. QED
    BY <2>1
<1>4. QED
  BY <1>2, <1>3, ViewerAssumption

\* A record is taken from the log, whole, cut or with other output in it.
LEMMA ParsingOK ==
  ASSUME ViewInv, parse \/ parseCut \/ parseMixed
  PROVE  ViewInv'
<1>0. KernelSide /\ LogSide /\ ViewSide /\ ViewTypes /\ log \in Seq(Record)
  BY DEF ViewInv, LogSide, ViewSide
<1>1. log # << >> /\ log' = Tail(log) /\ UNCHANGED <<cpus, ticks, slice, ran, switching>>
  BY DEF parse, parseCut, parseMixed, kernelVars
<1> DEFINE r == Head(log)
<1>2. r \in Record /\ r = log[1] /\ 1 \in 1..Len(log)
  BY <1>0, <1>1
<1>3. RanIn(Told, r.p, r.start, r.end) /\ (r.mixed => cpus # {0})
  BY <1>0, <1>2 DEF LogSide
<1> HIDE DEF r
<1>4. /\ r.p \in Logged /\ r.p \in Procs /\ r.start \in 0..MaxTick /\ r.end \in 0..MaxTick
      /\ r.end <= r.end
  BY <1>2, ViewerAssumption DEF Record
<1>5. KernelSide'
  <2>1. \A c : Exact(c)' = Exact(c)
    BY <1>1 DEF Exact
  <2>2. KernelTypes'
    BY <1>0, <1>1 DEF KernelSide, KernelTypes
  <2>3. \A c \in CPUs : SliceSide(c)'
    BY <1>0, <1>1, <2>1 DEF KernelSide, SliceSide
  <2>4. QED
    BY <2>2, <2>3 DEF KernelSide
<1>6. LogSide'
  <2>1. log' \in Seq(Record) /\ \A i \in 1..Len(log') : log'[i] = log[i + 1] /\ i + 1 \in 1..Len(log)
    BY <1>0, <1>1
  <2>2. Told' = Told /\ cpus' = cpus
    BY <1>1 DEF Told
  <2>3. ASSUME NEW i \in 1..Len(log')
        PROVE  RanIn(Told', log'[i].p, log'[i].start, log'[i].end) /\ (log'[i].mixed => cpus' # {0})
    BY <1>0, <2>1, <2>2 DEF LogSide
  <2>4. QED
    BY <2>1, <2>3 DEF LogSide
<1>7. ASSUME UNCHANGED <<available, details, active, current_time, garbled, intact>>,
             at' \in {"parse", "draw", "crashed"}
      PROVE  ViewSide'
  <2>1. ViewTypes'
    BY <1>0, <1>7 DEF ViewTypes
  <2>2. Allowed' = Allowed
    BY <1>1, <1>7 DEF Allowed
  <2>3. QED
    BY <1>0, <1>7, <2>1, <2>2 DEF ViewSide, ProcessSide
<1>8. CASE parse
  <2>1. parsed(r.p, r.start, r.end) /\ intact' = intact \cup {r} /\ at' = at /\ garbled' = garbled
    BY <1>8 DEF parse, r
  <2>2. /\ intact' \in SUBSET Record /\ at' \in {"parse", "draw", "crashed"}
        /\ garbled' \subseteq Procs \X (0..MaxTick) /\ Allowed' = Allowed
    BY <1>0, <1>1, <1>2, <2>1 DEF ViewTypes, Allowed
  <2>3. \A x \in intact' : x \in intact \/ (x.p = r.p /\ x.start = r.start /\ x.end = r.end)
    BY <2>1
  <2>4. \A t \in Marks(r.start, r.end) : <<r.p, t>> \in Allowed'
    BY <1>3, <1>4, <2>2, RecordCells
  <2>5. ViewSide'
    BY <1>0, <1>4, <2>1, <2>2, <2>3, <2>4, ParsedOK
  <2>6. QED
    BY <1>5, <1>6, <2>5 DEF ViewInv
<1>9. CASE parseCut
  <2>1. /\ intact' = intact /\ garbled' = garbled /\ at' \in {"parse", "draw", "crashed"}
        /\ intact' \in SUBSET Record /\ garbled' \subseteq Procs \X (0..MaxTick)
    BY <1>0, <1>9 DEF parseCut, ViewTypes
  <2>2. CASE UNCHANGED viewVars
    BY <1>5, <1>6, <1>7, <2>1, <2>2 DEF ViewInv, viewVars
  <2>3. CASE \E e \in Prefixes(r.end) : parsed(r.p, r.start, e)
    <3>1. PICK e \in Prefixes(r.end) : parsed(r.p, r.start, e)
      BY <2>3
    <3>2. e \in 0..MaxTick /\ e <= r.end
      BY <1>4, CutNumber
    <3>3. Allowed' = Allowed
      BY <1>1, <2>1 DEF Allowed
    <3>4. \A t \in Marks(r.start, e) : <<r.p, t>> \in Allowed'
      BY <1>3, <1>4, <3>2, <3>3, RecordCells
    <3>5. \A x \in intact' : x \in intact \/ (x.p = r.p /\ x.start = r.start /\ x.end = e)
      BY <2>1
    <3>6. ViewSide'
      BY <1>0, <1>4, <2>1, <3>1, <3>2, <3>3, <3>4, <3>5, ParsedOK
    <3>7. QED
      BY <1>5, <1>6, <3>6 DEF ViewInv
  <2>4. QED
    BY <1>9, <2>2, <2>3 DEF parseCut, r
<1>10. CASE parseMixed
  <2>1. /\ intact' = intact /\ intact' \in SUBSET Record /\ at' \in {"parse", "draw", "crashed"}
        /\ cpus # {0} /\ cpus' # {0}
    BY <1>0, <1>1, <1>3, <1>10 DEF parseMixed, ViewTypes, r
  <2>2. CASE UNCHANGED <<viewVars, garbled>>
    BY <1>5, <1>6, <1>7, <2>1, <2>2 DEF ViewInv, viewVars
  <2>3. CASE \E p \in MixedPids, s, e \in MixedTicks :
               parsed(p, s, e) /\ garbled' = garbled \cup ({p} \X Marks(s, e))
    <3>1. PICK p \in MixedPids, s \in MixedTicks, e \in MixedTicks :
            parsed(p, s, e) /\ garbled' = garbled \cup ({p} \X Marks(s, e))
      BY <2>3
    <3>2. p \in Procs /\ s \in 0..MaxTick /\ e \in 0..MaxTick
      BY ViewerAssumption
    <3>3. Allowed \subseteq Allowed' /\ \A t \in Marks(s, e) : <<p, t>> \in Allowed'
      BY <1>1, <2>1, <3>1 DEF Allowed
    <3>4. garbled' \subseteq Procs \X (0..MaxTick)
      BY <1>0, <3>1, <3>2, MarkedCells DEF ViewTypes
    <3>5. \A x \in intact' : x \in intact \/ (x.p = p /\ x.start = s /\ x.end = e)
      BY <2>1
    <3>6. ViewSide'
      BY <1>0, <2>1, <3>1, <3>2, <3>3, <3>4, <3>5, ParsedOK
    <3>7. QED
      BY <1>5, <1>6, <3>6 DEF ViewInv
  <2>4. QED
    BY <1>10, <2>2, <2>3 DEF parseMixed
<1>11. QED
  BY <1>8, <1>9, <1>10

-----------------------------------------------------------------------------
(* The theorems.                                                           *)

\* Nothing is drawn at first.
LEMMA InitView ==
  ASSUME Init
  PROVE  ViewInv
<1>0. MaxTick \in Nat /\ 0 \in 0..MaxTick
  BY ViewerAssumption
<1>1. KernelSide
  <2>1. KernelTypes
    BY <1>0, ViewerAssumption DEF Init, KernelTypes, Idle, Slice, Phases
  <2>2. \A c \in CPUs : SliceSide(c)
    BY DEF Init, SliceSide, Idle
  <2>3. QED
    BY <2>1, <2>2 DEF KernelSide
<1>2. LogSide
  BY DEF Init, LogSide
<1>3. ViewTypes
  BY <1>0 DEF Init, ViewTypes, Detail
<1>4. ASSUME NEW p \in Procs
      PROVE  ProcessSide(p)
  <2>1. active[p] = {} /\ details[p].burst = 0
    BY DEF Init
  <2>2. QED
    BY <2>1, FS_EmptySet DEF ProcessSide
<1>5. QED
  BY <1>1, <1>2, <1>3, <1>4 DEF Init, ViewInv, ViewSide

\* In every state, wherever the chunks end: a record tells when its process ran, exactly
\* on one CPU and up to the windows of scheduler() on several; a marked cell is told of
\* by such a record or, on several CPUs only, was read from one with other output in it;
\* the burst time is the number of marked cells.
THEOREM ViewInvariant == Spec => []ViewInv
<1>1. Init => ViewInv
  BY InitView
<1>2. ASSUME ViewInv, [Next]_vars
      PROVE  ViewInv'
  <2>1. CASE UNCHANGED vars
    <3>1. UNCHANGED <<cpus, ticks, slice, ran, switching, log, available, details, active, current_time, at,
                      garbled, intact>>
      BY <2>1 DEF vars, kernelVars, viewVars
    <3>2. QED
      BY <1>2, <3>1 DEF ViewInv, KernelSide, KernelTypes, SliceSide, Exact, Told, Allowed, LogSide, ViewSide,
         ViewTypes, ProcessSide
  <2>2. CASE chunkEnds \/ draw_chart
    <3>1. /\ UNCHANGED <<cpus, ticks, slice, ran, switching, log, available, details, active, current_time,
                         garbled, intact>>
          /\ at' \in {"parse", "draw", "crashed"}
      BY <2>2 DEF chunkEnds, draw_chart, kernelVars, viewVars
    <3>2. KernelSide' /\ LogSide'
      BY <1>2, <3>1 DEF ViewInv, KernelSide, KernelTypes, SliceSide, Exact, Told, LogSide
    <3>3. ViewTypes'
      BY <1>2, <3>1 DEF ViewInv, ViewSide, ViewTypes
    <3>4. QED
      BY <1>2, <3>1, <3>2, <3>3 DEF ViewInv, ViewSide, ProcessSide, Allowed
  <2>3. QED
    BY <1>2, <2>1, <2>2, TickOK, ReadStartOK, SwitchToOK, SwitchBackOK, PrintOK, ParsingOK DEF Next
<1>3. QED
  BY <1>1, <1>2, PTL DEF Spec

\* Type correctness of the scheduler's trace and of the arrays of visual.c.
THEOREM ViewTypeCorrect == Spec => []ViewTypeOK
<1>1. ViewInv => ViewTypeOK
  <2>1. SUFFICES ASSUME ViewInv
                 PROVE  ViewTypeOK
    OBVIOUS
  <2>2. KernelSide /\ LogSide /\ ViewTypes /\ MaxTick \in Nat
    BY <2>1, ViewerAssumption DEF ViewInv, ViewSide
  <2>3. ASSUME NEW p \in Procs
        PROVE  details[p] \in [first : 0..MaxTick \cup {Unknown}, last : 0..MaxTick, burst : 0..(MaxTick + 1)]
    <3>1. active[p] \in SUBSET (0..MaxTick) /\ details[p].burst = Cardinality(active[p])
      BY <2>1 DEF ViewInv, ViewSide, ProcessSide
    <3>2. IsFiniteSet(0..MaxTick) /\ Cardinality(0..MaxTick) = MaxTick + 1
      BY <2>2, FS_Interval
    <3>3. Cardinality(active[p]) <= Cardinality(0..MaxTick) /\ Cardinality(active[p]) \in Nat
      BY <3>1, <3>2, FS_Subset, FS_CardinalityType
    <3>4. details[p].burst \in 0..(MaxTick + 1)
      BY <2>2, <3>1, <3>2, <3>3
    <3>5. details[p] \in Detail
      BY <2>2 DEF ViewTypes
    <3>6. QED
      BY <3>4, <3>5 DEF Detail
  <2>4. details \in [Procs -> [first : 0..MaxTick \cup {Unknown}, last : 0..MaxTick, burst : 0..(MaxTick + 1)]]
    BY <2>2, <2>3 DEF ViewTypes
  <2>5. QED
    BY <2>2, <2>4 DEF ViewTypeOK, KernelSide, KernelTypes, Slice, LogSide, ViewTypes
<1>2. QED
  BY <1>1, ViewInvariant, PTL

\* On one CPU the chart shows no activity that was not, also when a chunk ends inside a
\* number; on several, none but in the windows of scheduler() and from records that the
\* output of another CPU has got into.  It shows no waiting in a tick that is marked.
THEOREM NothingIsInvented == Spec => []NoPhantomActivity
<1>1. ViewInv => NoPhantomActivity
  <2>1. SUFFICES ASSUME ViewInv
                 PROVE  NoPhantomActivity
    OBVIOUS
  <2>2. ViewTypes /\ \A p \in Procs : ProcessSide(p)
    BY <2>1 DEF ViewInv, ViewSide
  <2>3. available \subseteq Procs
    BY <2>2 DEF ViewTypes
  <2>4. Chart \subseteq Allowed
    <3>1. ASSUME NEW x \in Chart
          PROVE  x \in Allowed
      <4>1. x \in available \X Columns /\ x[2] \in active[x[1]]
        BY DEF Chart
      <4>2. x = <<x[1], x[2]>> /\ x[1] \in Procs
        BY <2>3, <4>1
      <4>3. <<x[1], x[2]>> \in Allowed
        BY <2>2, <4>1, <4>2 DEF ProcessSide
      <4>4. QED
        BY <4>2, <4>3
    <3>2. QED
      BY <3>1
  <2>5. ASSUME NEW p \in available
        PROVE  /\ details[p].burst = Cardinality(active[p])
               /\ waitingTime(p) <= Cardinality((details[p].first..(details[p].last - 1)) \ active[p])
    <3> DEFINE a == details[p].first
               z == details[p].last
               b == details[p].burst
               A == active[p]
               S == a..(z - 1)
    <3>1. /\ b = Cardinality(A) /\ A \in SUBSET (0..MaxTick) /\ details[p] \in Detail
      BY <2>2, <2>3 DEF ProcessSide, ViewTypes
    <3>2. a \in Int /\ z \in Int /\ b \in Nat /\ MaxTick \in Nat
      BY <3>1, ViewerAssumption DEF Detail, Unknown
    <3>3. waitingTime(p) = Max({0, z - a - b})
      BY DEF waitingTime
    <3> HIDE DEF a, z, b, A
    <3>4. IsFiniteSet(S) /\ Cardinality(S) = (IF a > z - 1 THEN 0 ELSE (z - 1) - a + 1)
      BY <3>2, FS_Interval
    <3>5. IsFiniteSet(A)
      <4>1. IsFiniteSet(0..MaxTick)
        BY <3>2, FS_Interval
      <4>2. QED
        BY <3>1, <4>1, FS_Subset
    <3> HIDE DEF S
    <3>6. /\ IsFiniteSet(S \ A) /\ Cardinality(S \ A) \in Nat
          /\ Cardinality(S \ A) = Cardinality(S) - Cardinality(S \cap A)
      BY <3>4, FS_Difference, FS_CardinalityType
    <3>7. Cardinality(S \cap A) <= Cardinality(A) /\ Cardinality(S \cap A) \in Nat
      <4>1. S \cap A \in SUBSET A
        OBVIOUS
      <4>2. QED
        BY <3>5, <4>1, FS_Subset, FS_CardinalityType
    <3>8. Max({0, z - a - b}) = IF 0 >= z - a - b THEN 0 ELSE z - a - b
      <4>1. z - a - b \in Int /\ 0 \in Int
        BY <3>2
      <4>2. QED
        BY <4>1, TwoNumbers
    <3>9. waitingTime(p) <= Cardinality(S \ A)
      BY <3>1, <3>2, <3>3, <3>4, <3>6, <3>7, <3>8
    <3>10. QED
      BY <3>1, <3>9 DEF a, z, b, A, S
  <2>6. QED
    BY <2>4, <2>5 DEF NoPhantomActivity, Allowed
<1>2. QED
  BY <1>1, ViewInvariant, PTL

\* The ticks of every slice whose record was read whole and as it was printed are
\* marked, in the columns shown.
THEOREM IntactRecordsShown == Spec => []IntactShown
<1>1. ViewInv => IntactShown
  <2>1. SUFFICES ASSUME ViewInv, NEW r \in intact,
                        NEW x \in {r.p} \X ((r.start..(r.end - 1)) \cap Columns)
                 PROVE  x \in Chart
    BY DEF IntactShown
  <2>2. r.p \in available /\ r.start..(r.end - 1) \subseteq active[r.p]
    BY <2>1 DEF ViewInv, ViewSide
  <2>3. x \in available \X Columns /\ x[1] = r.p /\ x[2] \in active[r.p]
    BY <2>2
  <2>4. QED
    BY <2>3 DEF Chart
<1>2. QED
  BY <1>1, ViewInvariant, PTL
=============================================================================
