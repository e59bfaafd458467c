-------------------------- MODULE InterruptsProofs --------------------------
(***************************************************************************)
(* Proofs about traps, the interrupt flag and the migration of threads,    *)
(* for any number of CPUs, processes and user addresses.                   *)
(***************************************************************************)
EXTENDS Interrupts, FiniteSetTheorems, TLAPS

\* The labels of a thread that has been switched out, or has just been switched
\* to and still holds p->lock.
SwitchedOut == {"resumed", "forkret"}

\* The labels at which a thread can be interrupted.
Preemptible == {"syscall", "relock", "yield", "ret"}

\* CPU c runs the thread of p.
Runs(c, p) == sch[c].pc = "running" /\ sch[c].p = p

\* A process is in one place: in the tree, asleep, or in the hands of one
\* scheduler; and only one that runs is inside its code.
OnePlace ==
  /\ ready \cap asleep = {}
  /\ \A c \in CPUs : /\ sch[c].pc \in {"lock", "running", "after"} => sch[c].p \in Procs
                     /\ sch[c].pc \in {"lock", "running"} => sch[c].p \notin ready \cup asleep
  /\ \A c, d \in CPUs :
       /\ sch[c].pc \in {"lock", "running"} /\ sch[d].pc \in {"lock", "running"}
       /\ sch[c].p = sch[d].p
       => c = d
  /\ \A p \in Procs : th[p].pc \notin SwitchedOut => \E c \in CPUs : Runs(c, p)

\* p->lock is held exactly across a switch, from or to p.
LockAcrossSwitch ==
  \A c \in CPUs, p \in Procs :
    plock[p] = c <=> \/ sch[c].pc = "after" /\ sch[c].p = p
                     \/ Runs(c, p) /\ th[p].pc \in SwitchedOut

\* The registers of a CPU in its scheduler thread.
SchedulerRegs ==
  \A c \in CPUs : sch[c].pc # "running" =>
    /\ cpu[c].mode = "S" /\ cpu[c].stvec = "kernelvec" /\ cpu[c].tp = c
    /\ IF sch[c].pc = "after"
       THEN cpu[c].noff = 1 /\ ~cpu[c].sie /\ cpu[c].proc = sch[c].p
       ELSE cpu[c].noff = 0 /\ cpu[c].proc = Null
    /\ sch[c].pc = "wfi" => cpu[c].sie

\* The registers r of a CPU c that runs the thread t of p, whose trapframe has
\* the hartid h.
RegsAt(c, p, r, t, h) ==
  /\ r.proc = p
  /\ r.noff = IF t.pc \in {"mycpu", "locked", "resumed", "forkret"} THEN 1 ELSE 0
  /\ IF t.pc = "user"
     THEN r.mode = "U" /\ r.stvec = "uservec" /\ h = c
     ELSE /\ r.mode = "S" /\ r.tp = c
          /\ r.stvec = IF t.pc = "retuser" THEN "uservec" ELSE "kernelvec"
          /\ t.pc \in {"syscall", "relock"} => r.sie
          /\ t.pc \notin Preemptible => ~r.sie
          /\ t.pc \in {"mycpu", "locked"} => r.intena
          /\ t.pc = "mycpu" => t.me = c

ThreadRegs ==
  \A c \in CPUs, p \in Procs :
    Runs(c, p) => RegsAt(c, p, cpu[c], th[p], trapframe[p].hartid)

\* What the locals of the thread t of p hold where they are used: usertrapret's p,
\* sched's intena and what kerneltrap saved.
LocalsAt(p, t) ==
  /\ t.pc \in {"user", "syscall", "mycpu", "locked", "relock", "yield2", "yield", "kyield",
               "resumed", "forkret", "ret", "retvec", "retuser", "kret"}
  /\ t.pc \in {"retvec", "retuser"} => t.me = p
  /\ t.pc = "resumed" => /\ t.next \in {"relock", "yield", "ret", "kret"}
                         /\ t.next = "relock" => t.intena
                         /\ t.next = "kret" => ~t.intena
  /\ t.pc \in {"kyield", "kret"} \/ (t.pc = "resumed" /\ t.next = "kret") =>
       /\ t.trap.spp = "S" /\ t.trap.spie
       /\ \E l \in Preemptible : t.trap.sepc = Kern(l)

ThreadLocals == \A p \in Procs : LocalsAt(p, th[p])

\* The trapframe holds the address at which the program has to go on.
EpcIsDue == \A p \in Procs : due[p] = User(trapframe[p].epc)

InterruptsInv ==
  /\ InterruptsTypeOK
  /\ NoTrapPanic
  /\ OnePlace
  /\ LockAcrossSwitch
  /\ SchedulerRegs
  /\ ThreadRegs
  /\ ThreadLocals
  /\ EpcIsDue

-----------------------------------------------------------------------------
(* The types of the records.                                               *)

CpuType ==
  [stvec : {"uservec", "kernelvec"}, mode : {"U", "S"}, sie : BOOLEAN,
   spp : {"U", "S"}, spie : BOOLEAN, sepc : Locations, tp : CPUs, noff : 0..1,
   intena : BOOLEAN, proc : Procs \cup {Null}]
SchType ==
  [pc : {"loop", "pick", "lock", "running", "after", "wfi"},
   p : Procs \cup {Null}, found : BOOLEAN]
TrapType == [sepc : Locations, spp : {"U", "S"}, spie : BOOLEAN]
ThType ==
  [pc : Labels, next : Labels, intena : BOOLEAN, trap : TrapType,
   me : Procs \cup {Null} \cup CPUs]
FrameType == [epc : Addrs, hartid : CPUs]

\* The type invariant, one conjunct for each kind of record.
LEMMA Types ==
  InterruptsTypeOK <=> /\ cpu \in [CPUs -> CpuType]
                       /\ sch \in [CPUs -> SchType]
                       /\ th \in [Procs -> ThType]
                       /\ trapframe \in [Procs -> FrameType]
                       /\ due \in [Procs -> Locations]
                       /\ ready \subseteq Procs /\ asleep \subseteq Procs
                       /\ plock \in [Procs -> CPUs \cup {NoCPU}]
BY DEF InterruptsTypeOK, CpuType, SchType, ThType, TrapType, FrameType

\* A place in the kernel is a location.
LEMMA KernLocation ==
  ASSUME NEW l \in Labels
  PROVE  Kern(l) \in Locations /\ Kern(l)[1] = "kernel" /\ Kern(l)[2] = l
BY DEF Locations, Kern

\* So is an address of user code.
LEMMA UserLocation ==
  ASSUME NEW a \in Addrs
  PROVE  User(a) \in Locations
BY DEF Locations

\* User code runs from address to address and stays in Addrs.
LEMMA AddrsNat ==
  /\ Addrs \subseteq Int
  /\ \A a \in Addrs : (a + 1) % Cardinality(Addrs) \in Addrs
  /\ 0 \in Addrs
<1>1. Cardinality(Addrs) \in Nat
  BY AddrsAssumption, FS_CardinalityType
<1>2. Cardinality(Addrs) # 0
  BY AddrsAssumption, FS_EmptySet
<1> QED  BY <1>1, <1>2, AddrsAssumption

-----------------------------------------------------------------------------
(* A thread that runs and does not switch.                                 *)

\* The thread of p takes a step on CPU c that leaves the registers as r and its
\* own state as t, and gives up neither the CPU nor a lock of a process.
LEMMA LocalStep ==
  ASSUME InterruptsInv, NEW c \in CPUs, NEW p \in Procs, NEW r \in CpuType, NEW t \in ThType,
         Runs(c, p), th[p].pc \notin SwitchedOut, t.pc \notin SwitchedOut,
         cpu' = [cpu EXCEPT ![c] = r], th' = [th EXCEPT ![p] = t],
         UNCHANGED <<sch, queueVars>>, panicked' = "no",
         trapframe' \in [Procs -> FrameType],
         \A q \in Procs : q # p => trapframe'[q] = trapframe[q],
         due' \in [Procs -> Locations],
         \A q \in Procs : due'[q] = User(trapframe'[q].epc),
         RegsAt(c, p, r, t, trapframe'[p].hartid), LocalsAt(p, t)
  PROVE  InterruptsInv'
<1>1. /\ cpu \in [CPUs -> CpuType]
      /\ sch \in [CPUs -> SchType]
      /\ th \in [Procs -> ThType]
      /\ trapframe \in [Procs -> FrameType]
      /\ ready \subseteq Procs /\ asleep \subseteq Procs
      /\ plock \in [Procs -> CPUs \cup {NoCPU}]
  BY Types DEF InterruptsInv
<1>2. InterruptsTypeOK'
  <2>1. cpu' \in [CPUs -> CpuType] /\ th' \in [Procs -> ThType]
    BY <1>1
  <2> QED  BY <1>1, <2>1, Types DEF queueVars, InterruptsTypeOK, CpuType, SchType, ThType, TrapType, FrameType
<1>3. OnePlace'
  BY <1>1 DEF InterruptsInv, OnePlace, queueVars, Runs
<1>4. LockAcrossSwitch'
  BY <1>1 DEF InterruptsInv, LockAcrossSwitch, queueVars, Runs
<1>5. SchedulerRegs'
  BY <1>1 DEF InterruptsInv, SchedulerRegs, Runs
<1>6. ThreadRegs'
  <2> SUFFICES ASSUME NEW d \in CPUs, NEW q \in Procs, Runs(d, q)'
               PROVE  RegsAt(d, q, cpu'[d], th'[q], trapframe'[q].hartid)
    BY DEF ThreadRegs
  <2>1. Runs(d, q)
    BY DEF Runs
  <2>2. d = c <=> q = p
    BY <2>1 DEF InterruptsInv, OnePlace, Runs
  <2>3. CASE d = c
    BY <2>2, <2>3, <1>1
  <2>4. CASE d # c
    <3>1. cpu'[d] = cpu[d] /\ th'[q] = th[q] /\ trapframe'[q] = trapframe[q]
      BY <2>2, <2>4, <1>1
    <3> QED  BY <3>1, <2>1 DEF InterruptsInv, ThreadRegs
  <2> QED  BY <2>3, <2>4
<1>7. ThreadLocals'
  BY <1>1 DEF InterruptsInv, ThreadLocals
<1>8. EpcIsDue'
  BY DEF EpcIsDue
<1> QED  BY <1>2, <1>3, <1>4, <1>5, <1>6, <1>7, <1>8 DEF InterruptsInv, NoTrapPanic

\* What holds on a CPU c that runs the thread of p.
LEMMA Running ==
  ASSUME InterruptsInv, NEW c \in CPUs, NEW p \in Procs, NEW ls, At(c, p, ls)
  PROVE  /\ cpu \in [CPUs -> CpuType] /\ th \in [Procs -> ThType]
         /\ trapframe \in [Procs -> FrameType] /\ due \in [Procs -> Locations]
         /\ cpu[c] \in CpuType /\ th[p] \in ThType
         /\ Runs(c, p) /\ th[p].pc \in ls /\ panicked = "no"
         /\ RegsAt(c, p, cpu[c], th[p], trapframe[p].hartid) /\ LocalsAt(p, th[p])
         /\ \A q \in Procs : due[q] = User(trapframe[q].epc)
<1>1. /\ cpu \in [CPUs -> CpuType] /\ th \in [Procs -> ThType]
      /\ trapframe \in [Procs -> FrameType] /\ due \in [Procs -> Locations]
  BY Types DEF InterruptsInv
<1>2. Runs(c, p) /\ th[p].pc \in ls /\ panicked = "no"
  BY DEF At, Runs
<1> QED  BY <1>1, <1>2 DEF InterruptsInv, ThreadRegs, ThreadLocals, EpcIsDue

\* A lock that is taken and released leaves the registers as they were, but for
\* intena where no lock is held.
LEMMA LockUnlock ==
  ASSUME NEW r \in CpuType, r.noff = 1 => ~r.sie
  PROVE  /\ lockUnlock(r) \in CpuType
         /\ \E b \in BOOLEAN : lockUnlock(r) = [r EXCEPT !.intena = b]
<1> DEFINE n == r.noff
           b == IF n = 0 THEN r.sie ELSE r.intena
           u == push_off(r)
           v == pop_off(u)
<1>1. n \in {0, 1} /\ b \in BOOLEAN /\ r.sie \in BOOLEAN /\ r.intena \in BOOLEAN
  BY DEF CpuType
<1>2. u = [r EXCEPT !.intena = b, !.noff = n + 1, !.sie = FALSE]
  BY DEF push_off
<1>3. u.noff = n + 1 /\ u.intena = b /\ u.sie = FALSE
  BY <1>2 DEF CpuType
<1>4. v = [u EXCEPT !.noff = n, !.sie = (n = 0 /\ b)]
  <2>1. u.noff - 1 = n /\ (u.noff = 1 <=> n = 0)
    BY <1>1, <1>3
  <2> QED  BY <2>1, <1>3 DEF pop_off
<1>5. (n = 0 /\ b) = r.sie
  BY <1>1
<1>6. v = [r EXCEPT !.intena = b]
  BY <1>2, <1>4, <1>5 DEF CpuType
<1>7. v = lockUnlock(r)
  BY DEF lockUnlock
<1>8. [r EXCEPT !.intena = b] \in CpuType
  BY <1>1 DEF CpuType
<1> QED  BY <1>1, <1>6, <1>7, <1>8

\* A trap from user mode saves its program counter in the trapframe.
LEMMA usertrapStep ==
  ASSUME InterruptsInv, NEW c \in CPUs, NEW p \in Procs, NEW a \in Addrs,
         NEW kind \in {"syscall", "timer", "device"}, usertrap(c, p, a, kind)
  PROVE  InterruptsInv'
<1> DEFINE r0 == trapTo(cpu[c], User(a))
           r1 == [r0 EXCEPT !.tp = trapframe[p].hartid, !.stvec = "kernelvec"]
           r == IF kind = "syscall" THEN [r1 EXCEPT !.sie = TRUE] ELSE devintr(r1)
           back == IF kind = "syscall" THEN (a + 1) % Cardinality(Addrs) ELSE a
           l == CASE kind = "syscall" -> "syscall" [] kind = "timer" -> "yield2"
                  [] OTHER -> "yield"
           t == [th[p] EXCEPT !.pc = l]
<1>0. At(c, p, {"user"})
  BY DEF usertrap
<1>1. /\ cpu \in [CPUs -> CpuType] /\ th \in [Procs -> ThType]
      /\ trapframe \in [Procs -> FrameType] /\ due \in [Procs -> Locations]
      /\ cpu[c] \in CpuType /\ th[p] \in ThType
      /\ Runs(c, p) /\ th[p].pc = "user" /\ panicked = "no"
      /\ RegsAt(c, p, cpu[c], th[p], trapframe[p].hartid) /\ LocalsAt(p, th[p])
      /\ \A q \in Procs : due[q] = User(trapframe[q].epc)
  BY <1>0, Running
<1>2. /\ cpu[c].proc = p /\ cpu[c].noff = 0 /\ cpu[c].mode = "U"
      /\ cpu[c].stvec = "uservec" /\ trapframe[p].hartid = c
  BY <1>1 DEF RegsAt
<1>3. back \in Addrs /\ User(a) \in Locations /\ User(back) \in Locations
  BY AddrsNat, UserLocation
<1>4. /\ r0 \in CpuType /\ r0.stvec = "uservec" /\ r0.spp = "U" /\ r0.proc = p
      /\ r0.noff = 0 /\ ~r0.sie /\ r0.mode = "S"
  BY <1>1, <1>2, <1>3 DEF trapTo, CpuType
<1>5. /\ r1 \in CpuType /\ r1.proc = p /\ r1.noff = 0 /\ ~r1.sie /\ r1.mode = "S"
      /\ r1.tp = c /\ r1.stvec = "kernelvec"
  BY <1>2, <1>4 DEF CpuType
<1>6. /\ r \in CpuType /\ r.proc = p /\ r.noff = 0 /\ r.mode = "S"
      /\ r.tp = c /\ r.stvec = "kernelvec" /\ (r.sie <=> kind = "syscall")
  <2>1. CASE kind = "syscall"
    BY <2>1, <1>5 DEF CpuType
  <2>2. CASE kind # "syscall"
    <3>1. PICK b \in BOOLEAN : r = [r1 EXCEPT !.intena = b]
      BY <2>2, <1>5, LockUnlock DEF devintr
    <3> QED  BY <3>1, <2>2, <1>5 DEF CpuType
  <2> QED  BY <2>1, <2>2
<1>7. cpu' = [cpu EXCEPT ![c] = r] /\ panicked' = "no"
  BY <1>4 DEF usertrap, Registers
<1>8. trapframe' = [trapframe EXCEPT ![p].epc = back]
  BY <1>2, <1>5 DEF usertrap, current
<1>9. due' = [due EXCEPT ![p] = User(back)] /\ UNCHANGED <<sch, queueVars>>
  BY DEF usertrap
<1>10. th' = [th EXCEPT ![p] = t]
  BY DEF usertrap, Goto, Thread
<1>11. l \in {"syscall", "yield2", "yield"} /\ (l = "syscall" <=> kind = "syscall")
  OBVIOUS
<1>12. t \in ThType /\ t.pc = l
  BY <1>1, <1>11 DEF ThType, Labels
<1>13. RegsAt(c, p, r, t, trapframe'[p].hartid)
  BY <1>6, <1>11, <1>12 DEF RegsAt, Preemptible
<1>14. LocalsAt(p, t)
  BY <1>11, <1>12 DEF LocalsAt
<1>15. /\ trapframe' \in [Procs -> FrameType] /\ due' \in [Procs -> Locations]
       /\ \A q \in Procs : q # p => trapframe'[q] = trapframe[q]
       /\ \A q \in Procs : due'[q] = User(trapframe'[q].epc)
  BY <1>1, <1>3, <1>8, <1>9 DEF FrameType
<1>16. th[p].pc \notin SwitchedOut /\ t.pc \notin SwitchedOut
  BY <1>1, <1>11, <1>12 DEF SwitchedOut
<1> HIDE DEF r, t
<1> QED  BY LocalStep, <1>1, <1>6, <1>7, <1>9, <1>10, <1>12, <1>13, <1>14, <1>15, <1>16

\* The outermost push_off remembers whether interrupts were on.
LEMMA PushOff ==
  ASSUME NEW r \in CpuType, r.noff = 0
  PROVE  /\ push_off(r) = [r EXCEPT !.intena = r.sie, !.noff = 1, !.sie = FALSE]
         /\ push_off(r) \in CpuType
<1>1. r.noff + 1 = 1 /\ r.sie \in BOOLEAN /\ 1 \in 0..1
  BY DEF CpuType
<1>2. push_off(r) = [r EXCEPT !.intena = r.sie, !.noff = 1, !.sie = FALSE]
  BY <1>1 DEF push_off
<1> QED  BY <1>1, <1>2 DEF CpuType

\* The pop_off that matches it turns them on again if they were.
LEMMA PopOff ==
  ASSUME NEW r \in CpuType, r.noff = 1, ~r.sie
  PROVE  /\ pop_off(r) = [r EXCEPT !.noff = 0, !.sie = r.intena]
         /\ pop_off(r) \in CpuType
         /\ popPanic(r) = "no"
<1>1. (r.sie \/ (r.noff = 1 /\ r.intena)) = r.intena
  BY DEF CpuType
<1>2. r.noff - 1 = 0 /\ ~(r.noff < 1)
  OBVIOUS
<1>3. pop_off(r) = [r EXCEPT !.noff = 0, !.sie = r.intena]
  BY <1>1, <1>2 DEF pop_off
<1>4. popPanic(r) = "no"
  BY <1>2 DEF popPanic
<1>5. 0 \in 0..1 /\ r.intena \in BOOLEAN
  BY DEF CpuType
<1>6. [r EXCEPT !.noff = 0, !.sie = r.intena] \in CpuType
  BY <1>5 DEF CpuType
<1> QED  BY <1>3, <1>4, <1>6

\* The steps that leave the trapframes and the queues alone.
LEMMA PlainStep ==
  ASSUME InterruptsInv, NEW c \in CPUs, NEW p \in Procs, NEW r \in CpuType, NEW t \in ThType,
         NEW ls, At(c, p, ls), ls \cap SwitchedOut = {}, t.pc \notin SwitchedOut,
         Registers(c, r, "no"), Thread(p, t), UNCHANGED <<sch, userVars, queueVars>>,
         RegsAt(c, p, r, t, trapframe[p].hartid), LocalsAt(p, t)
  PROVE  InterruptsInv'
<1>1. /\ Runs(c, p) /\ th[p].pc \notin SwitchedOut
      /\ trapframe \in [Procs -> FrameType] /\ due \in [Procs -> Locations]
      /\ \A q \in Procs : due[q] = User(trapframe[q].epc)
  BY Running
<1>2. cpu' = [cpu EXCEPT ![c] = r] /\ panicked' = "no" /\ th' = [th EXCEPT ![p] = t]
      /\ trapframe' = trapframe /\ due' = due
  BY DEF Registers, Thread, userVars
<1> QED  BY <1>1, <1>2, LocalStep

\* myproc reads the current process between push_off and pop_off.
LEMMA myprocStep ==
  ASSUME InterruptsInv, NEW c \in CPUs, NEW p \in Procs, myproc(c, p)
  PROVE  InterruptsInv'
<1>1. CASE At(c, p, {"syscall"}) /\ Registers(c, push_off(cpu[c]), "no")
           /\ Thread(p, [th[p] EXCEPT !.pc = "mycpu", !.me = cpu[c].tp])
  <2> DEFINE r == push_off(cpu[c])
             t == [th[p] EXCEPT !.pc = "mycpu", !.me = cpu[c].tp]
  <2>1. /\ cpu[c] \in CpuType /\ th[p] \in ThType /\ th[p].pc = "syscall"
        /\ RegsAt(c, p, cpu[c], th[p], trapframe[p].hartid)
    BY <1>1, Running
  <2>2. cpu[c].noff = 0 /\ cpu[c].proc = p /\ cpu[c].mode = "S" /\ cpu[c].tp = c
        /\ cpu[c].stvec = "kernelvec" /\ cpu[c].sie
    BY <2>1 DEF RegsAt
  <2>3. r \in CpuType /\ r = [cpu[c] EXCEPT !.intena = cpu[c].sie, !.noff = 1, !.sie = FALSE]
    BY <2>1, <2>2, PushOff
  <2>4. t \in ThType /\ t.pc = "mycpu" /\ t.me = c
    BY <2>1, <2>2 DEF ThType, Labels
  <2>5. RegsAt(c, p, r, t, trapframe[p].hartid)
    BY <2>1, <2>2, <2>3, <2>4 DEF RegsAt, Preemptible, CpuType
  <2>6. LocalsAt(p, t)
    BY <2>4 DEF LocalsAt
  <2>7. {"syscall"} \cap SwitchedOut = {} /\ t.pc \notin SwitchedOut
    BY <2>4 DEF SwitchedOut
  <2>8. Registers(c, r, "no") /\ Thread(p, t) /\ UNCHANGED <<sch, userVars, queueVars>>
    BY <1>1 DEF myproc
  <2> HIDE DEF r, t
  <2> QED  BY PlainStep, <1>1, <2>3, <2>4, <2>5, <2>6, <2>7, <2>8
<1>2. CASE At(c, p, {"mycpu"}) /\ Registers(c, pop_off(cpu[c]), popPanic(cpu[c]))
           /\ Thread(p, [th[p] EXCEPT !.pc = "syscall", !.me = Null])
  <2> DEFINE r == pop_off(cpu[c])
             t == [th[p] EXCEPT !.pc = "syscall", !.me = Null]
  <2>1. /\ cpu[c] \in CpuType /\ th[p] \in ThType /\ th[p].pc = "mycpu"
        /\ RegsAt(c, p, cpu[c], th[p], trapframe[p].hartid)
    BY <1>2, Running
  <2>2. cpu[c].noff = 1 /\ cpu[c].proc = p /\ cpu[c].mode = "S" /\ cpu[c].tp = c
        /\ cpu[c].stvec = "kernelvec" /\ ~cpu[c].sie /\ cpu[c].intena
    BY <2>1 DEF RegsAt, Preemptible
  <2>3. /\ r \in CpuType /\ r = [cpu[c] EXCEPT !.noff = 0, !.sie = cpu[c].intena]
        /\ popPanic(cpu[c]) = "no"
    BY <2>1, <2>2, PopOff
  <2>4. t \in ThType /\ t.pc = "syscall"
    BY <2>1 DEF ThType, Labels
  <2>5. RegsAt(c, p, r, t, trapframe[p].hartid)
    BY <2>1, <2>2, <2>3, <2>4 DEF RegsAt, Preemptible, CpuType
  <2>6. LocalsAt(p, t)
    BY <2>4 DEF LocalsAt
  <2>7. {"mycpu"} \cap SwitchedOut = {} /\ t.pc \notin SwitchedOut
    BY <2>4 DEF SwitchedOut
  <2>8. Registers(c, r, "no") /\ Thread(p, t) /\ UNCHANGED <<sch, userVars, queueVars>>
    BY <1>2, <2>3 DEF myproc
  <2> HIDE DEF r, t
  <2> QED  BY PlainStep, <1>2, <2>3, <2>4, <2>5, <2>6, <2>7, <2>8
<1> QED  BY <1>1, <1>2 DEF myproc

\* acquire turns interrupts off.
LEMMA acquireStep ==
  ASSUME InterruptsInv, NEW c \in CPUs, NEW p \in Procs, acquire(c, p)
  PROVE  InterruptsInv'
<1> DEFINE r == push_off(cpu[c])
           t == [th[p] EXCEPT !.pc = "locked"]
           ls == {"syscall", "relock"}
<1>0. At(c, p, ls) /\ Registers(c, r, "no") /\ Thread(p, t)
      /\ UNCHANGED <<sch, userVars, queueVars>>
  BY DEF acquire, Goto
<1>1. /\ cpu[c] \in CpuType /\ th[p] \in ThType /\ th[p].pc \in ls
      /\ RegsAt(c, p, cpu[c], th[p], trapframe[p].hartid)
  BY <1>0, Running
<1>2. cpu[c].noff = 0 /\ cpu[c].proc = p /\ cpu[c].mode = "S" /\ cpu[c].tp = c
      /\ cpu[c].stvec = "kernelvec" /\ cpu[c].sie
  BY <1>1 DEF RegsAt
<1>3. r \in CpuType /\ r = [cpu[c] EXCEPT !.intena = cpu[c].sie, !.noff = 1, !.sie = FALSE]
  BY <1>1, <1>2, PushOff
<1>4. t \in ThType /\ t.pc = "locked"
  BY <1>1 DEF ThType, Labels
<1>5. RegsAt(c, p, r, t, trapframe[p].hartid)
  BY <1>1, <1>2, <1>3, <1>4 DEF RegsAt, Preemptible, CpuType
<1>6. LocalsAt(p, t)
  BY <1>4 DEF LocalsAt
<1>7. ls \cap SwitchedOut = {} /\ t.pc \notin SwitchedOut
  BY <1>4 DEF SwitchedOut
<1> HIDE DEF r, t, ls
<1> QED  BY PlainStep, <1>0, <1>3, <1>4, <1>5, <1>6, <1>7

\* release gives the interrupt state back.
LEMMA releaseStep ==
  ASSUME InterruptsInv, NEW c \in CPUs, NEW p \in Procs, release(c, p)
  PROVE  InterruptsInv'
<1> DEFINE r == pop_off(cpu[c])
           t == [th[p] EXCEPT !.pc = "syscall"]
           ls == {"locked"}
<1>0. At(c, p, ls) /\ Registers(c, r, popPanic(cpu[c])) /\ Thread(p, t)
      /\ UNCHANGED <<sch, userVars, queueVars>>
  BY DEF release, Goto
<1>1. /\ cpu[c] \in CpuType /\ th[p] \in ThType /\ th[p].pc \in ls
      /\ RegsAt(c, p, cpu[c], th[p], trapframe[p].hartid)
  BY <1>0, Running
<1>2. cpu[c].noff = 1 /\ cpu[c].proc = p /\ cpu[c].mode = "S" /\ cpu[c].tp = c
      /\ cpu[c].stvec = "kernelvec" /\ ~cpu[c].sie /\ cpu[c].intena
  BY <1>1 DEF RegsAt, Preemptible
<1>3. /\ r \in CpuType /\ r = [cpu[c] EXCEPT !.noff = 0, !.sie = cpu[c].intena]
      /\ popPanic(cpu[c]) = "no"
  BY <1>1, <1>2, PopOff
<1>4. t \in ThType /\ t.pc = "syscall"
  BY <1>1 DEF ThType, Labels
<1>5. RegsAt(c, p, r, t, trapframe[p].hartid)
  BY <1>1, <1>2, <1>3, <1>4 DEF RegsAt, Preemptible, CpuType
<1>6. LocalsAt(p, t)
  BY <1>4 DEF LocalsAt
<1>7. ls \cap SwitchedOut = {} /\ t.pc \notin SwitchedOut
  BY <1>4 DEF SwitchedOut
<1> HIDE DEF r, t, ls
<1> QED  BY PlainStep, <1>0, <1>3, <1>4, <1>5, <1>6, <1>7

\* A system call returns to usertrap, which calls yield.
LEMMA sysReturnStep ==
  ASSUME InterruptsInv, NEW c \in CPUs, NEW p \in Procs, sysReturn(c, p)
  PROVE  InterruptsInv'
<1> DEFINE r == cpu[c]
           t == [th[p] EXCEPT !.pc = "yield"]
           ls == {"syscall"}
<1>0. At(c, p, ls) /\ Thread(p, t) /\ UNCHANGED <<cpu, panicked, sch, userVars, queueVars>>
  BY DEF sysReturn, Goto
<1>1. /\ cpu \in [CPUs -> CpuType] /\ r \in CpuType /\ th[p] \in ThType /\ th[p].pc \in ls
      /\ RegsAt(c, p, r, th[p], trapframe[p].hartid) /\ panicked = "no"
  BY <1>0, Running
<1>2. r.noff = 0 /\ r.proc = p /\ r.mode = "S" /\ r.tp = c /\ r.stvec = "kernelvec"
  BY <1>1 DEF RegsAt
<1>3. Registers(c, r, "no")
  BY <1>0, <1>1 DEF Registers
<1>4. t \in ThType /\ t.pc = "yield"
  BY <1>1 DEF ThType, Labels
<1>5. RegsAt(c, p, r, t, trapframe[p].hartid)
  BY <1>1, <1>2, <1>4 DEF RegsAt, Preemptible
<1>6. LocalsAt(p, t)
  BY <1>4 DEF LocalsAt
<1>7. ls \cap SwitchedOut = {} /\ t.pc \notin SwitchedOut
  BY <1>4 DEF SwitchedOut
<1> HIDE DEF r, t, ls
<1> QED  BY PlainStep, <1>0, <1>1, <1>3, <1>4, <1>5, <1>6, <1>7

\* usertrapret turns interrupts off before it touches stvec.
LEMMA retOffStep ==
  ASSUME InterruptsInv, NEW c \in CPUs, NEW p \in Procs, retOff(c, p)
  PROVE  InterruptsInv'
<1> DEFINE r == intr_off(cpu[c])
           t == [th[p] EXCEPT !.pc = "retvec", !.me = current(cpu[c])]
           ls == {"ret"}
<1>0. At(c, p, ls) /\ Registers(c, r, "no") /\ Thread(p, t)
      /\ UNCHANGED <<sch, userVars, queueVars>>
  BY DEF retOff
<1>1. /\ cpu[c] \in CpuType /\ th[p] \in ThType /\ th[p].pc \in ls
      /\ RegsAt(c, p, cpu[c], th[p], trapframe[p].hartid)
  BY <1>0, Running
<1>2. cpu[c].noff = 0 /\ cpu[c].proc = p /\ cpu[c].mode = "S" /\ cpu[c].tp = c
      /\ cpu[c].stvec = "kernelvec"
  BY <1>1 DEF RegsAt
<1>3. r \in CpuType /\ r = [cpu[c] EXCEPT !.sie = FALSE]
  BY <1>1 DEF intr_off, CpuType
<1>4. t \in ThType /\ t.pc = "retvec" /\ t.me = p
  BY <1>1, <1>2 DEF ThType, Labels, current
<1>5. RegsAt(c, p, r, t, trapframe[p].hartid)
  BY <1>1, <1>2, <1>3, <1>4 DEF RegsAt, Preemptible, CpuType
<1>6. LocalsAt(p, t)
  BY <1>4 DEF LocalsAt
<1>7. ls \cap SwitchedOut = {} /\ t.pc \notin SwitchedOut
  BY <1>4 DEF SwitchedOut
<1> HIDE DEF r, t, ls
<1> QED  BY PlainStep, <1>0, <1>3, <1>4, <1>5, <1>6, <1>7

\* usertrapret sets stvec, with interrupts off.
LEMMA retVecStep ==
  ASSUME InterruptsInv, NEW c \in CPUs, NEW p \in Procs, retVec(c, p)
  PROVE  InterruptsInv'
<1> DEFINE r == [cpu[c] EXCEPT !.stvec = "uservec"]
           t == [th[p] EXCEPT !.pc = "retuser"]
           ls == {"retvec"}
<1>0. At(c, p, ls) /\ Registers(c, r, "no") /\ Thread(p, t)
      /\ UNCHANGED <<sch, userVars, queueVars>>
  BY DEF retVec, Goto
<1>1. /\ cpu[c] \in CpuType /\ th[p] \in ThType /\ th[p].pc \in ls
      /\ RegsAt(c, p, cpu[c], th[p], trapframe[p].hartid) /\ LocalsAt(p, th[p])
  BY <1>0, Running
<1>2. cpu[c].noff = 0 /\ cpu[c].proc = p /\ cpu[c].mode = "S" /\ cpu[c].tp = c /\ ~cpu[c].sie
  BY <1>1 DEF RegsAt, Preemptible
<1>3. r \in CpuType
  BY <1>1 DEF CpuType
<1>4. t \in ThType /\ t.pc = "retuser" /\ t.me = p
  BY <1>1 DEF ThType, Labels, LocalsAt
<1>5. RegsAt(c, p, r, t, trapframe[p].hartid)
  BY <1>1, <1>2, <1>4 DEF RegsAt, Preemptible, CpuType
<1>6. LocalsAt(p, t)
  BY <1>4 DEF LocalsAt
<1>7. ls \cap SwitchedOut = {} /\ t.pc \notin SwitchedOut
  BY <1>4 DEF SwitchedOut
<1> HIDE DEF r, t, ls
<1> QED  BY PlainStep, <1>0, <1>3, <1>4, <1>5, <1>6, <1>7

\* sret returns to user mode with the saved program counter.
LEMMA retUserStep ==
  ASSUME InterruptsInv, NEW c \in CPUs, NEW p \in Procs, retUser(c, p)
  PROVE  InterruptsInv'
<1> DEFINE s == [cpu[c] EXCEPT !.spp = "U", !.spie = TRUE, !.sepc = User(trapframe[p].epc)]
           r == sret(s)
           t == [th[p] EXCEPT !.pc = "user", !.me = Null]
<1>0. At(c, p, {"retuser"})
  BY DEF retUser
<1>1. /\ cpu \in [CPUs -> CpuType] /\ th \in [Procs -> ThType]
      /\ trapframe \in [Procs -> FrameType] /\ due \in [Procs -> Locations]
      /\ cpu[c] \in CpuType /\ th[p] \in ThType
      /\ Runs(c, p) /\ th[p].pc = "retuser" /\ panicked = "no"
      /\ RegsAt(c, p, cpu[c], th[p], trapframe[p].hartid) /\ LocalsAt(p, th[p])
      /\ \A q \in Procs : due[q] = User(trapframe[q].epc)
  BY <1>0, Running
<1>2. /\ cpu[c].proc = p /\ cpu[c].noff = 0 /\ cpu[c].mode = "S"
      /\ cpu[c].stvec = "uservec" /\ cpu[c].tp = c /\ th[p].me = p
  BY <1>1 DEF RegsAt, LocalsAt
<1>3. User(trapframe[p].epc) \in Locations
  BY <1>1, UserLocation DEF FrameType
<1>4. s \in CpuType /\ s.proc = p /\ s.noff = 0 /\ s.stvec = "uservec" /\ s.spp = "U"
      /\ s.spie = TRUE
  BY <1>1, <1>2, <1>3 DEF CpuType
<1>5. r \in CpuType /\ r.proc = p /\ r.noff = 0 /\ r.stvec = "uservec" /\ r.mode = "U"
  BY <1>4 DEF sret, CpuType
<1>6. /\ trapframe' = [trapframe EXCEPT ![p].hartid = c]
      /\ cpu' = [cpu EXCEPT ![c] = r] /\ panicked' = "no"
      /\ th' = [th EXCEPT ![p] = t]
      /\ UNCHANGED <<due, sch, queueVars>>
  BY <1>2 DEF retUser, savedHartid, Registers, Thread
<1>7. t \in ThType /\ t.pc = "user"
  BY <1>1 DEF ThType, Labels
<1>8. /\ trapframe' \in [Procs -> FrameType] /\ due' \in [Procs -> Locations]
      /\ \A q \in Procs : q # p => trapframe'[q] = trapframe[q]
      /\ \A q \in Procs : due'[q] = User(trapframe'[q].epc)
      /\ trapframe'[p].hartid = c
  BY <1>1, <1>6 DEF FrameType
<1>9. RegsAt(c, p, r, t, trapframe'[p].hartid) /\ LocalsAt(p, t)
  BY <1>5, <1>7, <1>8 DEF RegsAt, LocalsAt
<1>10. th[p].pc \notin SwitchedOut /\ t.pc \notin SwitchedOut
  BY <1>1, <1>7 DEF SwitchedOut
<1> HIDE DEF r, t
<1> QED  BY LocalStep, <1>1, <1>5, <1>6, <1>7, <1>8, <1>9, <1>10

\* A trap taken in the kernel with interrupts on: no check fires, and devintr
\* leaves the interrupt state as the hardware set it.
LEMMA KernelEntry ==
  ASSUME InterruptsInv, NEW c \in CPUs, NEW l \in Labels, Interruptible(c),
         cpu[c].noff = 0, cpu[c].stvec = "kernelvec", cpu[c] \in CpuType
  PROVE  LET r == kernelEntry(c, Kern(l))
         IN  /\ r \in CpuType /\ entryPanic(r) = "no"
             /\ r.sepc = Kern(l) /\ r.spp = "S" /\ r.spie = TRUE /\ r.sie = FALSE
             /\ r.mode = "S" /\ r.stvec = "kernelvec" /\ r.noff = 0
             /\ r.tp = cpu[c].tp /\ r.proc = cpu[c].proc
<1> DEFINE s == trapTo(cpu[c], Kern(l))
           r == kernelEntry(c, Kern(l))
<1>1. Kern(l) \in Locations
  BY KernLocation
<1>2. cpu[c].mode = "S" /\ cpu[c].sie = TRUE
  BY DEF Interruptible, CpuType
<1>3. /\ s \in CpuType /\ s.sepc = Kern(l) /\ s.spp = "S" /\ s.spie = TRUE /\ s.sie = FALSE
      /\ s.mode = "S" /\ s.stvec = "kernelvec" /\ s.noff = 0
      /\ s.tp = cpu[c].tp /\ s.proc = cpu[c].proc
  BY <1>1, <1>2 DEF trapTo, CpuType
<1>4. r \in CpuType /\ \E b \in BOOLEAN : r = [s EXCEPT !.intena = b]
  BY <1>3, LockUnlock DEF kernelEntry, devintr
<1>5. /\ r.sepc = Kern(l) /\ r.spp = "S" /\ r.spie = TRUE /\ r.sie = FALSE
      /\ r.mode = "S" /\ r.stvec = "kernelvec" /\ r.noff = 0
      /\ r.tp = cpu[c].tp /\ r.proc = cpu[c].proc
  BY <1>3, <1>4 DEF CpuType
<1> HIDE DEF r
<1>6. entryPanic(r) = "no"
  BY <1>5 DEF entryPanic
<1> QED  BY <1>4, <1>5, <1>6 DEF r

\* Where a thread in the kernel has interrupts on.
LEMMA InterruptibleAt ==
  ASSUME InterruptsInv, NEW c \in CPUs, NEW p \in Procs, Runs(c, p), Interruptible(c)
  PROVE  /\ th[p].pc \in Preemptible
         /\ cpu[c].noff = 0 /\ cpu[c].stvec = "kernelvec" /\ cpu[c].tp = c /\ cpu[c].proc = p
         /\ cpu[c] \in CpuType /\ th[p] \in ThType
<1>1. At(c, p, {th[p].pc})
  BY DEF Interruptible, At, Runs
<1>2. /\ cpu[c] \in CpuType /\ th[p] \in ThType
      /\ RegsAt(c, p, cpu[c], th[p], trapframe[p].hartid)
  BY <1>1, Running
<1>3. th[p].pc \in Preemptible
  BY <1>2 DEF RegsAt, Interruptible
<1> QED  BY <1>2, <1>3 DEF RegsAt, Preemptible

\* A timer interrupt of kernel code keeps sepc and sstatus on its stack.
LEMMA kernelTimerStep ==
  ASSUME InterruptsInv, NEW c \in CPUs, NEW p \in Procs, kernelTimer(c, p)
  PROVE  InterruptsInv'
<1> DEFINE l == th[p].pc
           r == kernelEntry(c, Kern(l))
           t == [th[p] EXCEPT !.pc = "kyield", !.trap =
                   [sepc |-> r.sepc, spp |-> r.spp, spie |-> r.spie]]
<1>0. /\ At(c, p, {l}) /\ Interruptible(c) /\ Registers(c, r, entryPanic(r)) /\ Thread(p, t)
      /\ UNCHANGED <<sch, userVars, queueVars>>
  BY DEF kernelTimer
<1>1. /\ l \in Preemptible /\ l \in Labels
      /\ cpu[c].noff = 0 /\ cpu[c].stvec = "kernelvec" /\ cpu[c].tp = c /\ cpu[c].proc = p
      /\ cpu[c] \in CpuType /\ th[p] \in ThType
  BY <1>0, InterruptibleAt DEF At, Runs, ThType
<1>2. /\ r \in CpuType /\ entryPanic(r) = "no"
      /\ r.sepc = Kern(l) /\ r.spp = "S" /\ r.spie = TRUE /\ r.sie = FALSE
      /\ r.mode = "S" /\ r.stvec = "kernelvec" /\ r.noff = 0
      /\ r.tp = c /\ r.proc = p
  BY <1>0, <1>1, KernelEntry
<1> HIDE DEF r
<1>3. Kern(l) \in Locations
  BY <1>1, KernLocation
<1>4. /\ t \in ThType /\ t.pc = "kyield" /\ t.trap.spp = "S" /\ t.trap.spie = TRUE
      /\ t.trap.sepc = Kern(l)
  BY <1>1, <1>2, <1>3 DEF ThType, TrapType, Labels
<1>5. RegsAt(c, p, r, t, trapframe[p].hartid)
  BY <1>2, <1>4 DEF RegsAt, Preemptible
<1>6. LocalsAt(p, t)
  BY <1>1, <1>4 DEF LocalsAt
<1>7. {l} \cap SwitchedOut = {} /\ t.pc \notin SwitchedOut
  BY <1>1, <1>4 DEF SwitchedOut, Preemptible
<1>8. Registers(c, r, "no")
  BY <1>0, <1>2
<1> HIDE DEF t, l
<1> QED  BY PlainStep, <1>0, <1>2, <1>4, <1>5, <1>6, <1>7, <1>8

\* Where the end of kerneltrap takes the thread.
LEMMA kretTarget ==
  ASSUME InterruptsInv, NEW c \in CPUs, NEW p \in Procs, At(c, p, {"kret"})
  PROVE  /\ \E l \in Preemptible :
              l = Target(restored(c, th[p].trap)) /\ th[p].trap.sepc = Kern(l)
         /\ \E r \in CpuType :
              /\ r = sret(restored(c, th[p].trap)) /\ r.proc = p /\ r.noff = 0
              /\ r.mode = "S" /\ r.tp = c /\ r.stvec = "kernelvec" /\ r.sie = TRUE
<1> DEFINE s == restored(c, th[p].trap)
           r == sret(s)
<1>1. /\ cpu[c] \in CpuType /\ th[p] \in ThType /\ th[p].pc = "kret"
      /\ RegsAt(c, p, cpu[c], th[p], trapframe[p].hartid) /\ LocalsAt(p, th[p])
  BY Running
<1>2. cpu[c].noff = 0 /\ cpu[c].proc = p /\ cpu[c].mode = "S" /\ cpu[c].tp = c
      /\ cpu[c].stvec = "kernelvec"
  BY <1>1 DEF RegsAt
<1>3. /\ th[p].trap \in TrapType /\ th[p].trap.spp = "S" /\ th[p].trap.spie = TRUE
      /\ \E l \in Preemptible : th[p].trap.sepc = Kern(l)
  BY <1>1 DEF LocalsAt, ThType, TrapType
<1>4. PICK l \in Preemptible : th[p].trap.sepc = Kern(l)
  BY <1>3
<1>5. /\ s \in CpuType /\ s.sepc = Kern(l) /\ s.spp = "S" /\ s.spie = TRUE
      /\ s.proc = p /\ s.noff = 0 /\ s.tp = c /\ s.stvec = "kernelvec"
  BY <1>1, <1>2, <1>3, <1>4 DEF restored, CpuType, TrapType
<1>6. Kern(l)[1] = "kernel" /\ Kern(l)[2] = l
  BY <1>4 DEF Kern
<1>7. /\ r \in CpuType /\ r.proc = p /\ r.noff = 0 /\ r.mode = "S"
      /\ r.tp = c /\ r.stvec = "kernelvec" /\ r.sie = TRUE
  BY <1>5 DEF sret, CpuType
<1> HIDE DEF s, r
<1>8. Target(s) = l
  BY <1>5, <1>6 DEF Target
<1> QED  BY <1>4, <1>7, <1>8 DEF s, r

\* kerneltrap restores them, whatever ran on this CPU in between.
LEMMA kretStep ==
  ASSUME InterruptsInv, NEW c \in CPUs, NEW p \in Procs, kret(c, p)
  PROVE  InterruptsInv'
<1> DEFINE s == restored(c, th[p].trap)
           r == sret(s)
           l == Target(s)
           t == [th[p] EXCEPT !.pc = l]
           ls == {"kret"}
<1>0. At(c, p, ls) /\ Registers(c, r, "no") /\ Thread(p, t)
      /\ UNCHANGED <<sch, userVars, queueVars>>
  BY DEF kret, Goto
<1>1. th[p] \in ThType
  BY <1>0, Running
<1>2. /\ l \in Preemptible /\ r \in CpuType /\ r.proc = p /\ r.noff = 0 /\ r.mode = "S"
      /\ r.tp = c /\ r.stvec = "kernelvec" /\ r.sie = TRUE
  <2>1. At(c, p, {"kret"})
    BY <1>0
  <2>2. PICK k \in Preemptible : k = l /\ th[p].trap.sepc = Kern(k)
    BY <2>1, kretTarget, ZenonT(30)
  <2>3. PICK x \in CpuType :
          /\ x = r /\ x.proc = p /\ x.noff = 0
          /\ x.mode = "S" /\ x.tp = c /\ x.stvec = "kernelvec" /\ x.sie = TRUE
    BY <2>1, kretTarget, ZenonT(30)
  <2> HIDE DEF r, l
  <2> QED  BY <2>2, <2>3
<1> HIDE DEF r, l
<1>3. t \in ThType /\ t.pc = l
  BY <1>1, <1>2 DEF ThType, Labels, Preemptible
<1>4. RegsAt(c, p, r, t, trapframe[p].hartid)
  BY <1>2, <1>3 DEF RegsAt, Preemptible
<1>5. LocalsAt(p, t)
  BY <1>2, <1>3 DEF LocalsAt, Preemptible
<1>6. ls \cap SwitchedOut = {} /\ t.pc \notin SwitchedOut
  BY <1>2, <1>3 DEF SwitchedOut, Preemptible
<1> HIDE DEF t, ls
<1> QED  BY PlainStep, <1>0, <1>2, <1>3, <1>4, <1>5, <1>6

-----------------------------------------------------------------------------
(* A thread gives up the CPU, or goes on after a switch.                   *)

\* sched(): the thread of p leaves CPU c, with registers r and p->lock held, and
\* p is in the tree or asleep.
LEMMA SchedStep ==
  ASSUME InterruptsInv, NEW c \in CPUs, NEW p \in Procs, NEW r \in CpuType, NEW t \in ThType,
         Runs(c, p), th[p].pc \notin SwitchedOut, t.pc = "resumed",
         cpu' = [cpu EXCEPT ![c] = r], th' = [th EXCEPT ![p] = t],
         sch' = [sch EXCEPT ![c].pc = "after"],
         plock[p] = NoCPU, plock' = [plock EXCEPT ![p] = c],
         \/ ready' = ready \cup {p} /\ asleep' = asleep
         \/ ready' = ready /\ asleep' = asleep \cup {p},
         UNCHANGED userVars, panicked' = "no", LocalsAt(p, t),
         r.noff = 1, ~r.sie, r.proc = p, r.mode = "S", r.tp = c, r.stvec = "kernelvec"
  PROVE  InterruptsInv'
<1>1. /\ cpu \in [CPUs -> CpuType]
      /\ sch \in [CPUs -> SchType]
      /\ th \in [Procs -> ThType]
      /\ trapframe \in [Procs -> FrameType]
      /\ due \in [Procs -> Locations]
      /\ ready \subseteq Procs /\ asleep \subseteq Procs
      /\ plock \in [Procs -> CPUs \cup {NoCPU}]
  BY Types DEF InterruptsInv
<1>2. /\ trapframe' = trapframe /\ due' = due
      /\ sch'[c].pc = "after" /\ sch'[c].p = p
      /\ \A d \in CPUs : d # c => sch'[d] = sch[d] /\ cpu'[d] = cpu[d]
      /\ cpu'[c] = r /\ th'[p] = t
      /\ \A q \in Procs : q # p => th'[q] = th[q]
  BY <1>1 DEF userVars, Runs, SchType
<1>3. InterruptsTypeOK'
  <2>1. /\ cpu' \in [CPUs -> CpuType] /\ th' \in [Procs -> ThType]
        /\ plock' \in [Procs -> CPUs \cup {NoCPU}]
    BY <1>1
  <2>2. sch' \in [CPUs -> SchType]
    BY <1>1 DEF SchType
  <2> QED  BY <1>1, <1>2, <2>1, <2>2
           DEF InterruptsTypeOK, CpuType, SchType, ThType, TrapType, FrameType
<1>4. OnePlace'
  BY <1>1, <1>2 DEF InterruptsInv, OnePlace, Runs, SwitchedOut
<1>5. NoCPU \notin CPUs
  BY HartAssumption DEF CPUs, NoCPU
<1>6. LockAcrossSwitch'
  <2> SUFFICES ASSUME NEW d \in CPUs, NEW q \in Procs
               PROVE  plock'[q] = d <=> \/ sch'[d].pc = "after" /\ sch'[d].p = q
                                        \/ Runs(d, q)' /\ th'[q].pc \in SwitchedOut
    BY DEF LockAcrossSwitch
  <2>1. plock[q] = d <=> \/ sch[d].pc = "after" /\ sch[d].p = q
                         \/ Runs(d, q) /\ th[q].pc \in SwitchedOut
    BY DEF InterruptsInv, LockAcrossSwitch
  <2>2. Runs(d, p) => d = c
    BY DEF InterruptsInv, OnePlace, Runs
  <2>3. CASE q = p
    BY <1>1, <1>2, <1>5, <2>1, <2>2, <2>3 DEF Runs
  <2>4. CASE q # p
    BY <1>1, <1>2, <2>1, <2>4 DEF Runs
  <2> QED  BY <2>3, <2>4
<1>7. SchedulerRegs'
  BY <1>1, <1>2 DEF InterruptsInv, SchedulerRegs
<1>8. ThreadRegs'
  <2> SUFFICES ASSUME NEW d \in CPUs, NEW q \in Procs, Runs(d, q)'
               PROVE  RegsAt(d, q, cpu'[d], th'[q], trapframe'[q].hartid)
    BY DEF ThreadRegs
  <2>1. d # c /\ Runs(d, q)
    BY <1>2 DEF Runs
  <2>2. q # p
    BY <2>1 DEF InterruptsInv, OnePlace, Runs
  <2> QED  BY <1>2, <2>1, <2>2 DEF InterruptsInv, ThreadRegs
<1>9. ThreadLocals'
  BY <1>2 DEF InterruptsInv, ThreadLocals
<1>10. EpcIsDue'
  BY <1>2 DEF InterruptsInv, EpcIsDue
<1> QED  BY <1>3, <1>4, <1>6, <1>7, <1>8, <1>9, <1>10 DEF InterruptsInv, NoTrapPanic

\* The thread of p, back from a switch on CPU c, releases p->lock.
LEMMA ReleaseStep ==
  ASSUME InterruptsInv, NEW c \in CPUs, NEW p \in Procs, NEW r \in CpuType, NEW t \in ThType,
         Runs(c, p), th[p].pc \in SwitchedOut, t.pc \notin SwitchedOut,
         cpu' = [cpu EXCEPT ![c] = r], th' = [th EXCEPT ![p] = t],
         plock' = [plock EXCEPT ![p] = NoCPU],
         UNCHANGED <<sch, ready, asleep, userVars>>, panicked' = "no",
         RegsAt(c, p, r, t, trapframe[p].hartid), LocalsAt(p, t)
  PROVE  InterruptsInv'
<1>1. /\ cpu \in [CPUs -> CpuType]
      /\ sch \in [CPUs -> SchType]
      /\ th \in [Procs -> ThType]
      /\ trapframe \in [Procs -> FrameType]
      /\ due \in [Procs -> Locations]
      /\ ready \subseteq Procs /\ asleep \subseteq Procs
      /\ plock \in [Procs -> CPUs \cup {NoCPU}]
  BY Types DEF InterruptsInv
<1>2. /\ trapframe' = trapframe /\ due' = due /\ sch' = sch
      /\ \A d \in CPUs : d # c => cpu'[d] = cpu[d]
      /\ cpu'[c] = r /\ th'[p] = t
      /\ \A q \in Procs : q # p => th'[q] = th[q]
  BY <1>1 DEF userVars
<1>3. InterruptsTypeOK'
  <2>1. /\ cpu' \in [CPUs -> CpuType] /\ th' \in [Procs -> ThType]
        /\ plock' \in [Procs -> CPUs \cup {NoCPU}]
    BY <1>1
  <2> QED  BY <1>1, <1>2, <2>1
           DEF InterruptsTypeOK, CpuType, SchType, ThType, TrapType, FrameType
<1>4. OnePlace'
  BY <1>1, <1>2 DEF InterruptsInv, OnePlace, Runs
<1>5. NoCPU \notin CPUs
  BY HartAssumption DEF CPUs, NoCPU
<1>6. LockAcrossSwitch'
  <2> SUFFICES ASSUME NEW d \in CPUs, NEW q \in Procs
               PROVE  plock'[q] = d <=> \/ sch'[d].pc = "after" /\ sch'[d].p = q
                                        \/ Runs(d, q)' /\ th'[q].pc \in SwitchedOut
    BY DEF LockAcrossSwitch
  <2>1. plock[q] = d <=> \/ sch[d].pc = "after" /\ sch[d].p = q
                         \/ Runs(d, q) /\ th[q].pc \in SwitchedOut
    BY DEF InterruptsInv, LockAcrossSwitch
  <2>2. plock[p] = c
    BY DEF InterruptsInv, LockAcrossSwitch
  <2>3. CASE q = p
    BY <1>1, <1>2, <1>5, <2>1, <2>2, <2>3 DEF Runs
  <2>4. CASE q # p
    BY <1>1, <1>2, <2>1, <2>4 DEF Runs
  <2> QED  BY <2>3, <2>4
<1>7. SchedulerRegs'
  BY <1>1, <1>2 DEF InterruptsInv, SchedulerRegs, Runs
<1>8. ThreadRegs'
  <2> SUFFICES ASSUME NEW d \in CPUs, NEW q \in Procs, Runs(d, q)'
               PROVE  RegsAt(d, q, cpu'[d], th'[q], trapframe'[q].hartid)
    BY DEF ThreadRegs
  <2>1. Runs(d, q) /\ (d = c <=> q = p)
    BY <1>2 DEF InterruptsInv, OnePlace, Runs
  <2> QED  BY <1>2, <2>1 DEF InterruptsInv, ThreadRegs
<1>9. ThreadLocals'
  BY <1>2 DEF InterruptsInv, ThreadLocals
<1>10. EpcIsDue'
  BY <1>2 DEF InterruptsInv, EpcIsDue
<1> QED  BY <1>3, <1>4, <1>6, <1>7, <1>8, <1>9, <1>10 DEF InterruptsInv, NoTrapPanic

\* sched does not panic, and saves the interrupt state of the thread.
LEMMA SchedCall ==
  ASSUME InterruptsInv, NEW c \in CPUs, NEW p \in Procs, NEW r \in CpuType, NEW l \in Labels,
         NEW ls, At(c, p, ls), ls \cap SwitchedOut = {}, sched(c, p, r, l),
         plock[p] = NoCPU, plock' = [plock EXCEPT ![p] = c],
         \/ ready' = ready \cup {p} /\ asleep' = asleep
         \/ ready' = ready /\ asleep' = asleep \cup {p},
         UNCHANGED userVars,
         l \in {"relock", "yield", "ret", "kret"},
         l = "relock" => r.intena, l = "kret" => ~r.intena /\ th[p].pc = "kyield",
         r.noff = 1, ~r.sie, r.proc = p, r.mode = "S", r.tp = c, r.stvec = "kernelvec"
  PROVE  InterruptsInv'
<1> DEFINE t == [th[p] EXCEPT !.pc = "resumed", !.next = l, !.intena = r.intena]
<1>1. /\ cpu \in [CPUs -> CpuType] /\ th[p] \in ThType /\ LocalsAt(p, th[p])
      /\ Runs(c, p) /\ th[p].pc \notin SwitchedOut
  BY Running
<1>2. /\ t \in ThType /\ t.pc = "resumed" /\ t.next = l /\ t.intena = r.intena
      /\ t.trap = th[p].trap
  BY <1>1 DEF ThType, Labels, CpuType
<1>3. LocalsAt(p, t)
  BY <1>1, <1>2 DEF LocalsAt
<1>4. /\ cpu' = [cpu EXCEPT ![c] = r] /\ panicked' = "no"
      /\ th' = [th EXCEPT ![p] = t] /\ sch' = [sch EXCEPT ![c].pc = "after"]
  BY DEF sched, Registers, Thread
<1> HIDE DEF t
<1> QED  BY SchedStep, <1>1, <1>2, <1>3, <1>4

\* sleep hands its lock over to p->lock and switches.
LEMMA sleepStep ==
  ASSUME InterruptsInv, NEW c \in CPUs, NEW p \in Procs, sleep(c, p)
  PROVE  InterruptsInv'
<1> DEFINE r == lockHandover(cpu[c])
           ls == {"locked"}
<1>1. /\ At(c, p, ls) /\ plock[p] = NoCPU /\ plock' = [plock EXCEPT ![p] = c]
      /\ ready' = ready /\ asleep' = asleep \cup {p} /\ UNCHANGED userVars
      /\ sched(c, p, r, "relock")
  BY DEF sleep
<1>2. /\ cpu[c] \in CpuType /\ th[p].pc = "locked"
      /\ RegsAt(c, p, cpu[c], th[p], trapframe[p].hartid)
  BY <1>1, Running
<1>3. cpu[c].noff = 1 /\ cpu[c].proc = p /\ cpu[c].mode = "S" /\ cpu[c].tp = c
      /\ cpu[c].stvec = "kernelvec" /\ ~cpu[c].sie /\ cpu[c].intena
  BY <1>2 DEF RegsAt, Preemptible
<1>4. r = cpu[c]
  <2> DEFINE u == push_off(cpu[c])
  <2>1. u = [cpu[c] EXCEPT !.noff = 2, !.sie = FALSE]
    <3>1. cpu[c].noff + 1 = 2 /\ cpu[c].noff # 0
      BY <1>3
    <3>2. u = [cpu[c] EXCEPT !.intena = cpu[c].intena, !.noff = 2, !.sie = FALSE]
      BY <3>1 DEF push_off
    <3> QED  BY <3>2, <1>2 DEF CpuType
  <2>2. u.noff = 2 /\ u.sie = FALSE
    BY <2>1, <1>2 DEF CpuType
  <2>3. pop_off(u) = [u EXCEPT !.noff = 1, !.sie = FALSE]
    <3>1. u.noff - 1 = 1 /\ u.noff # 1
      BY <2>2
    <3>2. (u.sie \/ (u.noff = 1 /\ u.intena)) = FALSE
      BY <2>2, <3>1
    <3> QED  BY <3>1, <3>2 DEF pop_off
  <2>4. cpu[c].sie = FALSE
    BY <1>2, <1>3 DEF CpuType
  <2>5. pop_off(u) = cpu[c]
    <3>1. pop_off(u) = [cpu[c] EXCEPT !.noff = 1, !.sie = FALSE]
      BY <1>2, <2>1, <2>3 DEF CpuType
    <3>2. cpu[c] = [cpu[c] EXCEPT !.noff = cpu[c].noff, !.sie = cpu[c].sie]
      BY <1>2 DEF CpuType
    <3> QED  BY <1>3, <2>4, <3>1, <3>2
  <2> QED  BY <2>5 DEF lockHandover
<1>5. "relock" \in Labels /\ ls \cap SwitchedOut = {}
  BY DEF Labels, SwitchedOut
<1> HIDE DEF r, ls
<1> QED  BY SchedCall, <1>1, <1>2, <1>3, <1>4, <1>5

\* yield takes p->lock and switches.
LEMMA yieldStep ==
  ASSUME InterruptsInv, NEW c \in CPUs, NEW p \in Procs, yield(c, p)
  PROVE  InterruptsInv'
<1> DEFINE r == push_off(cpu[c])
           l == YieldReturn[th[p].pc]
           ls == {"yield2", "yield", "kyield"}
<1>0. ls = DOMAIN YieldReturn /\ ls \cap SwitchedOut = {}
  BY DEF YieldReturn, SwitchedOut
<1>1. At(c, p, ls) /\ plock[p] = NoCPU /\ UNCHANGED <<asleep, userVars>>
  BY <1>0 DEF yield
<1>2. /\ cpu[c] \in CpuType /\ th[p] \in ThType /\ th[p].pc \in ls
      /\ RegsAt(c, p, cpu[c], th[p], trapframe[p].hartid) /\ LocalsAt(p, th[p])
  BY <1>1, Running
<1>3. /\ cpu[c].noff = 0 /\ cpu[c].proc = p /\ cpu[c].mode = "S" /\ cpu[c].tp = c
      /\ cpu[c].stvec = "kernelvec" /\ (th[p].pc = "kyield" => ~cpu[c].sie)
  BY <1>2 DEF RegsAt, Preemptible
<1>4. /\ l \in {"yield", "ret", "kret"} /\ l \in Labels
      /\ l = "kret" <=> th[p].pc = "kyield"
  BY <1>2 DEF YieldReturn, Labels
<1> HIDE DEF l
<1>5. CASE /\ plock' = [plock EXCEPT ![p] = c] /\ ready' = ready \cup {p}
           /\ sched(c, p, r, l)
  <2>1. /\ r = [cpu[c] EXCEPT !.intena = cpu[c].sie, !.noff = 1, !.sie = FALSE]
        /\ r \in CpuType
    BY <1>2, <1>3, PushOff
  <2>2. /\ r.noff = 1 /\ ~r.sie /\ r.proc = p /\ r.mode = "S" /\ r.tp = c
        /\ r.stvec = "kernelvec" /\ (l = "kret" => ~r.intena)
    BY <1>2, <1>3, <1>4, <2>1 DEF CpuType
  <2>3. l # "relock"
    BY <1>4
  <2> HIDE DEF r, ls
  <2> QED  BY SchedCall, <1>0, <1>1, <1>4, <1>5, <2>1, <2>2, <2>3
<1>6. CASE Registers(c, pop_off(r), "no") /\ Goto(p, l) /\ UNCHANGED <<sch, plock, ready>>
  <2> DEFINE s == lockUnlock(cpu[c])
             t == [th[p] EXCEPT !.pc = l]
  <2>1. s \in CpuType /\ \E b \in BOOLEAN : s = [cpu[c] EXCEPT !.intena = b]
    BY <1>2, <1>3, LockUnlock
  <2>2. /\ s.noff = 0 /\ s.proc = p /\ s.mode = "S" /\ s.tp = c
        /\ s.stvec = "kernelvec" /\ s.sie = cpu[c].sie
    BY <1>2, <1>3, <2>1 DEF CpuType
  <2>3. Registers(c, s, "no") /\ Thread(p, t) /\ UNCHANGED <<sch, userVars, queueVars>>
    BY <1>1, <1>6 DEF lockUnlock, Goto, queueVars
  <2>4. t \in ThType /\ t.pc = l /\ t.trap = th[p].trap
    BY <1>2, <1>4 DEF ThType
  <2> HIDE DEF s, t
  <2>5. RegsAt(c, p, s, t, trapframe[p].hartid)
    BY <1>2, <1>3, <1>4, <2>2, <2>4 DEF RegsAt, Preemptible
  <2>6. LocalsAt(p, t)
    BY <1>2, <1>4, <2>4 DEF LocalsAt
  <2>7. t.pc \notin SwitchedOut
    BY <1>4, <2>4 DEF SwitchedOut
  <2> HIDE DEF ls
  <2> QED  BY PlainStep, <1>0, <1>1, <2>1, <2>3, <2>4, <2>5, <2>6, <2>7
<1> QED  BY <1>5, <1>6 DEF yield, l

\* After the switch sched restores the intena of the thread.
LEMMA resumedStep ==
  ASSUME InterruptsInv, NEW c \in CPUs, NEW p \in Procs, resumed(c, p)
  PROVE  InterruptsInv'
<1> DEFINE s == ownIntena(cpu[c], th[p])
           r == pop_off(s)
           l == th[p].next
           t == [th[p] EXCEPT !.pc = l]
<1>0. At(c, p, {"resumed"})
  BY DEF resumed
<1>1. /\ cpu \in [CPUs -> CpuType] /\ cpu[c] \in CpuType /\ th[p] \in ThType
      /\ Runs(c, p) /\ th[p].pc = "resumed"
      /\ RegsAt(c, p, cpu[c], th[p], trapframe[p].hartid) /\ LocalsAt(p, th[p])
  BY <1>0, Running
<1>2. cpu[c].noff = 1 /\ cpu[c].proc = p /\ cpu[c].mode = "S" /\ cpu[c].tp = c
      /\ cpu[c].stvec = "kernelvec" /\ ~cpu[c].sie
  BY <1>1 DEF RegsAt, Preemptible
<1>3. /\ l \in {"relock", "yield", "ret", "kret"} /\ (l = "relock" => th[p].intena)
      /\ (l = "kret" => ~th[p].intena) /\ l \in Labels
  BY <1>1 DEF LocalsAt, ThType
<1>4. /\ s \in CpuType /\ s.noff = 1 /\ s.proc = p /\ s.mode = "S" /\ s.tp = c
      /\ s.stvec = "kernelvec" /\ ~s.sie /\ s.intena = th[p].intena
  BY <1>1, <1>2 DEF CpuType, ThType, ownIntena
<1> HIDE DEF s
<1>5. r \in CpuType /\ r = [s EXCEPT !.noff = 0, !.sie = s.intena] /\ popPanic(s) = "no"
  BY <1>4, PopOff
<1>6. /\ r.noff = 0 /\ r.proc = p /\ r.mode = "S" /\ r.tp = c
      /\ r.stvec = "kernelvec" /\ r.sie = th[p].intena
  BY <1>4, <1>5 DEF CpuType
<1>7. t \in ThType /\ t.pc = l /\ t.trap = th[p].trap
  BY <1>1, <1>3 DEF ThType
<1>8. /\ cpu' = [cpu EXCEPT ![c] = r] /\ panicked' = "no"
      /\ th' = [th EXCEPT ![p] = t] /\ plock' = [plock EXCEPT ![p] = NoCPU]
      /\ UNCHANGED <<sch, ready, asleep, userVars>>
  BY <1>5 DEF resumed, Registers, Goto, Thread, s
<1> HIDE DEF r, t
<1>9. RegsAt(c, p, r, t, trapframe[p].hartid)
  BY <1>3, <1>6, <1>7 DEF RegsAt, Preemptible
<1>10. LocalsAt(p, t)
  BY <1>1, <1>3, <1>7 DEF LocalsAt
<1>11. th[p].pc \in SwitchedOut /\ t.pc \notin SwitchedOut
  BY <1>1, <1>3, <1>7 DEF SwitchedOut
<1> QED  BY ReleaseStep, <1>1, <1>5, <1>7, <1>8, <1>9, <1>10, <1>11

\* A new process releases p->lock before it returns to user mode.
LEMMA forkretStep ==
  ASSUME InterruptsInv, NEW c \in CPUs, NEW p \in Procs, forkret(c, p)
  PROVE  InterruptsInv'
<1> DEFINE r == pop_off(cpu[c])
           t == [th[p] EXCEPT !.pc = "ret"]
<1>0. At(c, p, {"forkret"})
  BY DEF forkret
<1>1. /\ cpu \in [CPUs -> CpuType] /\ cpu[c] \in CpuType /\ th[p] \in ThType
      /\ Runs(c, p) /\ th[p].pc = "forkret"
      /\ RegsAt(c, p, cpu[c], th[p], trapframe[p].hartid)
  BY <1>0, Running
<1>2. cpu[c].noff = 1 /\ cpu[c].proc = p /\ cpu[c].mode = "S" /\ cpu[c].tp = c
      /\ cpu[c].stvec = "kernelvec" /\ ~cpu[c].sie
  BY <1>1 DEF RegsAt, Preemptible
<1>3. /\ r \in CpuType /\ r = [cpu[c] EXCEPT !.noff = 0, !.sie = cpu[c].intena]
      /\ popPanic(cpu[c]) = "no"
  BY <1>1, <1>2, PopOff
<1>4. /\ r.noff = 0 /\ r.proc = p /\ r.mode = "S" /\ r.tp = c /\ r.stvec = "kernelvec"
  BY <1>1, <1>2, <1>3 DEF CpuType
<1>5. t \in ThType /\ t.pc = "ret"
  BY <1>1 DEF ThType, Labels
<1>6. /\ cpu' = [cpu EXCEPT ![c] = r] /\ panicked' = "no"
      /\ th' = [th EXCEPT ![p] = t] /\ plock' = [plock EXCEPT ![p] = NoCPU]
      /\ UNCHANGED <<sch, ready, asleep, userVars>>
  BY <1>2, <1>3 DEF forkret, Registers, Goto, Thread, current
<1> HIDE DEF r, t
<1>7. RegsAt(c, p, r, t, trapframe[p].hartid)
  BY <1>4, <1>5 DEF RegsAt, Preemptible
<1>8. LocalsAt(p, t)
  BY <1>5 DEF LocalsAt
<1>9. th[p].pc \in SwitchedOut /\ t.pc \notin SwitchedOut
  BY <1>1, <1>5 DEF SwitchedOut
<1> QED  BY ReleaseStep, <1>1, <1>3, <1>5, <1>6, <1>7, <1>8, <1>9

-----------------------------------------------------------------------------
(* The scheduler threads.                                                  *)

\* A step of the scheduler thread of CPU c, outside the two switches, that
\* leaves it with registers r and locals s.
LEMMA SchedulerStep ==
  ASSUME InterruptsInv, NEW c \in CPUs, NEW r \in CpuType, NEW s \in SchType,
         sch[c].pc \in {"loop", "pick", "wfi"}, s.pc \in {"loop", "pick", "lock", "wfi"},
         cpu' = [cpu EXCEPT ![c] = r], sch' = [sch EXCEPT ![c] = s],
         \/ s.pc # "lock" /\ ready' = ready
         \/ s.pc = "lock" /\ s.p \in ready /\ ready' = ready \ {s.p},
         UNCHANGED <<th, userVars, asleep, plock>>, panicked' = "no",
         r.noff = 0, r.proc = Null, r.mode = "S", r.tp = c, r.stvec = "kernelvec",
         s.pc = "wfi" => r.sie
  PROVE  InterruptsInv'
<1>1. /\ cpu \in [CPUs -> CpuType]
      /\ sch \in [CPUs -> SchType]
      /\ th \in [Procs -> ThType]
      /\ trapframe \in [Procs -> FrameType]
      /\ due \in [Procs -> Locations]
      /\ ready \subseteq Procs /\ asleep \subseteq Procs
      /\ plock \in [Procs -> CPUs \cup {NoCPU}]
  BY Types DEF InterruptsInv
<1>2. /\ trapframe' = trapframe /\ due' = due /\ th' = th /\ plock' = plock
      /\ \A d \in CPUs : d # c => sch'[d] = sch[d] /\ cpu'[d] = cpu[d]
      /\ cpu'[c] = r /\ sch'[c] = s
  BY <1>1 DEF userVars
<1>3. InterruptsTypeOK'
  <2>1. cpu' \in [CPUs -> CpuType] /\ sch' \in [CPUs -> SchType]
    BY <1>1
  <2> QED  BY <1>1, <1>2, <2>1
           DEF InterruptsTypeOK, CpuType, SchType, ThType, TrapType, FrameType
<1>4. OnePlace'
  <2>1. ready' \cap asleep' = {}
    BY DEF InterruptsInv, OnePlace
  <2>2. \A d \in CPUs :
          /\ sch'[d].pc \in {"lock", "running", "after"} => sch'[d].p \in Procs
          /\ sch'[d].pc \in {"lock", "running"} => sch'[d].p \notin ready' \cup asleep'
    BY <1>1, <1>2 DEF InterruptsInv, OnePlace
  <2>3. \A d, e \in CPUs :
          /\ sch'[d].pc \in {"lock", "running"} /\ sch'[e].pc \in {"lock", "running"}
          /\ sch'[d].p = sch'[e].p
          => d = e
    BY <1>1, <1>2 DEF InterruptsInv, OnePlace
  <2>4. \A p \in Procs : th'[p].pc \notin SwitchedOut => \E d \in CPUs : Runs(d, p)'
    BY <1>1, <1>2 DEF InterruptsInv, OnePlace, Runs
  <2> QED  BY <2>1, <2>2, <2>3, <2>4 DEF OnePlace
<1>5. LockAcrossSwitch'
  <2> SUFFICES ASSUME NEW d \in CPUs, NEW q \in Procs
               PROVE  plock'[q] = d <=> \/ sch'[d].pc = "after" /\ sch'[d].p = q
                                        \/ Runs(d, q)' /\ th'[q].pc \in SwitchedOut
    BY DEF LockAcrossSwitch
  <2>1. plock[q] = d <=> \/ sch[d].pc = "after" /\ sch[d].p = q
                         \/ Runs(d, q) /\ th[q].pc \in SwitchedOut
    BY DEF InterruptsInv, LockAcrossSwitch
  <2> QED  BY <1>1, <1>2, <2>1 DEF Runs
<1>6. SchedulerRegs'
  BY <1>1, <1>2 DEF InterruptsInv, SchedulerRegs
<1>7. ThreadRegs'
  BY <1>1, <1>2 DEF InterruptsInv, ThreadRegs, Runs
<1>8. ThreadLocals'
  BY <1>2 DEF InterruptsInv, ThreadLocals
<1>9. EpcIsDue'
  BY <1>2 DEF InterruptsInv, EpcIsDue
<1> QED  BY <1>3, <1>4, <1>5, <1>6, <1>7, <1>8, <1>9 DEF InterruptsInv, NoTrapPanic

\* What holds on a CPU c in its scheduler thread, between the switches.
LEMMA Scheduling ==
  ASSUME InterruptsInv, NEW c \in CPUs, sch[c].pc \in {"loop", "pick", "lock", "wfi"}
  PROVE  /\ cpu \in [CPUs -> CpuType] /\ sch \in [CPUs -> SchType]
         /\ cpu[c] \in CpuType /\ sch[c] \in SchType
         /\ cpu[c].noff = 0 /\ cpu[c].proc = Null /\ cpu[c].mode = "S"
         /\ cpu[c].tp = c /\ cpu[c].stvec = "kernelvec"
<1>1. cpu \in [CPUs -> CpuType] /\ sch \in [CPUs -> SchType]
  BY Types DEF InterruptsInv
<1> QED  BY <1>1 DEF InterruptsInv, SchedulerRegs

\* The scheduler turns interrupts on at the top of its loop.
LEMMA loopStep ==
  ASSUME InterruptsInv, NEW c \in CPUs, loop(c)
  PROVE  InterruptsInv'
<1> DEFINE r == [cpu[c] EXCEPT !.sie = TRUE]
           s == [sch[c] EXCEPT !.pc = "pick", !.found = FALSE]
<1>1. /\ cpu \in [CPUs -> CpuType] /\ sch \in [CPUs -> SchType]
      /\ cpu[c] \in CpuType /\ sch[c] \in SchType /\ sch[c].pc = "loop"
      /\ cpu[c].noff = 0 /\ cpu[c].proc = Null /\ cpu[c].mode = "S"
      /\ cpu[c].tp = c /\ cpu[c].stvec = "kernelvec"
  BY Scheduling DEF loop, SchedulerAt
<1>2. /\ r \in CpuType /\ r.noff = 0 /\ r.proc = Null /\ r.mode = "S"
      /\ r.tp = c /\ r.stvec = "kernelvec"
  BY <1>1 DEF CpuType
<1>3. s \in SchType /\ s.pc = "pick"
  BY <1>1 DEF SchType
<1>4. cpu' = [cpu EXCEPT ![c] = r] /\ panicked' = "no"
  BY DEF loop, Registers
<1>5. sch' = [sch EXCEPT ![c] = s]
  BY <1>1 DEF loop
<1>6. ready' = ready /\ UNCHANGED <<th, userVars, asleep, plock>>
  BY DEF loop, queueVars
<1> HIDE DEF r, s
<1> QED  BY SchedulerStep, <1>1, <1>2, <1>3, <1>4, <1>5, <1>6

\* The scheduler takes a ready process.
LEMMA pickStep ==
  ASSUME InterruptsInv, NEW c \in CPUs, pick(c)
  PROVE  InterruptsInv'
<1> DEFINE r == lockUnlock(cpu[c])
<1>1. PICK p \in ready : /\ ready' = ready \ {p}
                         /\ sch' = [sch EXCEPT ![c].pc = "lock", ![c].p = p]
  BY DEF pick
<1> DEFINE s == [sch[c] EXCEPT !.pc = "lock", !.p = p]
<1>2. /\ cpu \in [CPUs -> CpuType] /\ sch \in [CPUs -> SchType]
      /\ cpu[c] \in CpuType /\ sch[c] \in SchType /\ sch[c].pc = "pick"
      /\ cpu[c].noff = 0 /\ cpu[c].proc = Null /\ cpu[c].mode = "S"
      /\ cpu[c].tp = c /\ cpu[c].stvec = "kernelvec"
  BY Scheduling DEF pick, SchedulerAt
<1>3. r \in CpuType /\ \E b \in BOOLEAN : r = [cpu[c] EXCEPT !.intena = b]
  BY <1>2, LockUnlock
<1>4. /\ r.noff = 0 /\ r.proc = Null /\ r.mode = "S" /\ r.tp = c /\ r.stvec = "kernelvec"
  BY <1>2, <1>3 DEF CpuType
<1>5. p \in Procs
  BY DEF InterruptsInv, InterruptsTypeOK
<1>6. s \in SchType /\ s.pc = "lock" /\ s.p = p
  BY <1>2, <1>5 DEF SchType
<1>7. cpu' = [cpu EXCEPT ![c] = r] /\ panicked' = "no"
  BY DEF pick, Registers
<1>8. sch' = [sch EXCEPT ![c] = s]
  BY <1>1, <1>2
<1>9. UNCHANGED <<th, userVars, asleep, plock>>
  BY DEF pick
<1> HIDE DEF r, s
<1> QED  BY SchedulerStep, <1>1, <1>2, <1>3, <1>4, <1>6, <1>7, <1>8, <1>9

\* The scheduler finds nothing to run.
LEMMA idleStep ==
  ASSUME InterruptsInv, NEW c \in CPUs, idle(c)
  PROVE  InterruptsInv'
<1> DEFINE u == lockUnlock(cpu[c])
           f == sch[c].found
           r == IF f THEN u ELSE [u EXCEPT !.sie = TRUE]
           s == [sch[c] EXCEPT !.pc = IF f THEN "loop" ELSE "wfi"]
<1>1. /\ cpu \in [CPUs -> CpuType] /\ sch \in [CPUs -> SchType]
      /\ cpu[c] \in CpuType /\ sch[c] \in SchType /\ sch[c].pc = "pick"
      /\ cpu[c].noff = 0 /\ cpu[c].proc = Null /\ cpu[c].mode = "S"
      /\ cpu[c].tp = c /\ cpu[c].stvec = "kernelvec"
  BY Scheduling DEF idle, SchedulerAt
<1>2. u \in CpuType /\ \E b \in BOOLEAN : u = [cpu[c] EXCEPT !.intena = b]
  BY <1>1, LockUnlock
<1>3. /\ u.noff = 0 /\ u.proc = Null /\ u.mode = "S" /\ u.tp = c /\ u.stvec = "kernelvec"
  BY <1>1, <1>2 DEF CpuType
<1>4. cpu' = [cpu EXCEPT ![c] = r] /\ panicked' = "no"
  BY DEF idle, Registers
<1> HIDE DEF u
<1>5. /\ r \in CpuType /\ r.noff = 0 /\ r.proc = Null /\ r.mode = "S" /\ r.tp = c
      /\ r.stvec = "kernelvec" /\ (~f => r.sie)
  BY <1>2, <1>3 DEF CpuType
<1>6. s \in SchType /\ s.pc \in {"loop", "wfi"} /\ (s.pc = "wfi" => ~f)
  BY <1>1 DEF SchType
<1>7. sch' = [sch EXCEPT ![c] = s]
  BY <1>1 DEF idle
<1>8. ready' = ready /\ UNCHANGED <<th, userVars, asleep, plock>>
  BY DEF idle, queueVars
<1> HIDE DEF r, s, f
<1> QED  BY SchedulerStep, <1>1, <1>4, <1>5, <1>6, <1>7, <1>8

\* A device interrupt of kernel code returns where it came from.
LEMMA kernelDeviceStep ==
  ASSUME InterruptsInv, NEW c \in CPUs, kernelDevice(c)
  PROVE  InterruptsInv'
<1> DEFINE l == IF sch[c].pc = "running" THEN th[sch[c].p].pc ELSE "scheduler"
           u == kernelEntry(c, Kern(l))
           r == sret(u)
<1>1. /\ Interruptible(c) /\ Registers(c, r, entryPanic(u))
      /\ sch' = [sch EXCEPT ![c].pc = IF @ = "wfi" THEN "loop" ELSE @]
      /\ UNCHANGED <<th, userVars, queueVars>>
  BY DEF kernelDevice
<1>2. /\ cpu \in [CPUs -> CpuType] /\ sch \in [CPUs -> SchType] /\ th \in [Procs -> ThType]
      /\ trapframe \in [Procs -> FrameType] /\ due \in [Procs -> Locations]
  BY Types DEF InterruptsInv
<1>3. ASSUME l \in Labels, cpu[c].noff = 0, cpu[c].stvec = "kernelvec"
      PROVE  /\ r \in CpuType /\ r.sie = TRUE /\ r.mode = "S" /\ r.stvec = "kernelvec"
             /\ r.noff = 0 /\ r.tp = cpu[c].tp /\ r.proc = cpu[c].proc
             /\ cpu' = [cpu EXCEPT ![c] = r] /\ panicked' = "no"
  <2> HIDE DEF l
  <2>1. /\ u \in CpuType /\ entryPanic(u) = "no" /\ u.spp = "S" /\ u.spie = TRUE
        /\ u.stvec = "kernelvec" /\ u.noff = 0 /\ u.tp = cpu[c].tp /\ u.proc = cpu[c].proc
    BY <1>1, <1>2, <1>3, KernelEntry
  <2>2. cpu' = [cpu EXCEPT ![c] = r] /\ panicked' = "no"
    BY <1>1, <2>1 DEF Registers
  <2> HIDE DEF u
  <2> QED  BY <2>1, <2>2 DEF sret, CpuType
<1> HIDE DEF u, r
<1>4. CASE sch[c].pc = "running"
  <2> DEFINE p == sch[c].p
  <2>1. p \in Procs /\ Runs(c, p)
    BY <1>4 DEF InterruptsInv, OnePlace, Runs
  <2>2. /\ th[p].pc \in Preemptible /\ th[p] \in ThType
        /\ cpu[c].noff = 0 /\ cpu[c].stvec = "kernelvec" /\ cpu[c].tp = c /\ cpu[c].proc = p
    BY <1>1, <2>1, InterruptibleAt
  <2>3. l \in Labels
    BY <1>4, <2>2 DEF ThType
  <2>4. /\ r \in CpuType /\ r.sie = TRUE /\ r.mode = "S" /\ r.stvec = "kernelvec"
        /\ r.noff = 0 /\ r.tp = c /\ r.proc = p
        /\ cpu' = [cpu EXCEPT ![c] = r] /\ panicked' = "no"
    BY <1>3, <2>2, <2>3
  <2>5. sch' = sch /\ th' = [th EXCEPT ![p] = th[p]]
    BY <1>1, <1>2, <1>4 DEF SchType
  <2>6. RegsAt(c, p, r, th[p], trapframe[p].hartid)
    BY <2>2, <2>4 DEF RegsAt, Preemptible
  <2>7. LocalsAt(p, th[p]) /\ \A q \in Procs : due[q] = User(trapframe[q].epc)
    BY <2>1 DEF InterruptsInv, ThreadLocals, EpcIsDue
  <2>8. th[p].pc \notin SwitchedOut
    BY <2>2 DEF Preemptible, SwitchedOut
  <2>9. trapframe' = trapframe /\ due' = due
    BY <1>1 DEF userVars
  <2> HIDE DEF p
  <2> QED  BY LocalStep, <1>1, <1>2, <2>1, <2>2, <2>4, <2>5, <2>6, <2>7, <2>8, <2>9
<1>5. CASE sch[c].pc # "running"
  <2> DEFINE s == [sch[c] EXCEPT !.pc = IF @ = "wfi" THEN "loop" ELSE @]
  <2>1. sch[c].pc \in {"loop", "pick", "lock", "wfi"}
    BY <1>1, <1>2, <1>5 DEF InterruptsInv, SchedulerRegs, Interruptible, SchType
  <2>2. /\ cpu[c].noff = 0 /\ cpu[c].proc = Null
        /\ cpu[c].tp = c /\ cpu[c].stvec = "kernelvec" /\ sch[c] \in SchType
    BY <2>1, Scheduling
  <2>3. l \in Labels
    BY <1>5 DEF Labels
  <2>4. /\ r \in CpuType /\ r.sie = TRUE /\ r.mode = "S" /\ r.stvec = "kernelvec"
        /\ r.noff = 0 /\ r.tp = c /\ r.proc = Null
        /\ cpu' = [cpu EXCEPT ![c] = r] /\ panicked' = "no"
    BY <1>3, <2>2, <2>3
  <2>5. sch' = [sch EXCEPT ![c] = s]
    BY <1>1, <1>2
  <2>6. s \in SchType /\ s.pc \in {"loop", "pick", "lock"} /\ s.p = sch[c].p
    BY <2>1, <2>2 DEF SchType
  <2>7. UNCHANGED <<th, userVars, ready, asleep, plock>>
    BY <1>1 DEF queueVars
  <2>8. CASE sch[c].pc # "lock"
    <3>1. s.pc \in {"loop", "pick"} /\ sch[c].pc \in {"loop", "pick", "wfi"}
      BY <2>1, <2>2, <2>8 DEF SchType
    <3> HIDE DEF s
    <3> QED  BY SchedulerStep, <3>1, <2>4, <2>5, <2>6, <2>7
  <2>9. CASE sch[c].pc = "lock"
    <3>1. sch' = sch
      BY <1>1, <1>2, <2>9 DEF SchType
    <3>2. InterruptsTypeOK'
      <4>1. cpu' \in [CPUs -> CpuType]
        BY <1>2, <2>4
      <4> QED  BY <1>2, <2>7, <3>1, <4>1 DEF InterruptsInv, InterruptsTypeOK, CpuType, userVars
    <3>3. OnePlace' /\ LockAcrossSwitch'
      BY <2>7, <3>1 DEF InterruptsInv, OnePlace, LockAcrossSwitch, Runs
    <3>4. SchedulerRegs'
      BY <1>2, <2>4, <2>9, <3>1 DEF InterruptsInv, SchedulerRegs
    <3>5. ThreadRegs'
      BY <1>2, <2>4, <2>7, <2>9, <3>1 DEF InterruptsInv, ThreadRegs, Runs, userVars
    <3>6. ThreadLocals' /\ EpcIsDue'
      BY <2>7 DEF InterruptsInv, ThreadLocals, EpcIsDue, userVars
    <3> QED  BY <2>4, <3>2, <3>3, <3>4, <3>5, <3>6 DEF InterruptsInv, NoTrapPanic
  <2> QED  BY <2>8, <2>9
<1> QED  BY <1>4, <1>5

\* The scheduler switches to a thread, with the registers of that thread.
LEMMA switchToStep ==
  ASSUME InterruptsInv, NEW c \in CPUs, switchTo(c)
  PROVE  InterruptsInv'
<1> DEFINE p == sch[c].p
           s == [sch[c] EXCEPT !.pc = "running"]
           u == push_off(cpu[c])
           v == startTick(u)
           r == [v EXCEPT !.proc = p]
<1>0. sch[c].pc = "lock"
  BY DEF switchTo, SchedulerAt
<1>1. /\ cpu \in [CPUs -> CpuType]
      /\ sch \in [CPUs -> SchType]
      /\ th \in [Procs -> ThType]
      /\ trapframe \in [Procs -> FrameType]
      /\ due \in [Procs -> Locations]
      /\ ready \subseteq Procs /\ asleep \subseteq Procs
      /\ plock \in [Procs -> CPUs \cup {NoCPU}]
  BY Types DEF InterruptsInv
<1>2. /\ cpu[c] \in CpuType /\ sch[c] \in SchType
      /\ cpu[c].noff = 0 /\ cpu[c].proc = Null /\ cpu[c].mode = "S"
      /\ cpu[c].tp = c /\ cpu[c].stvec = "kernelvec"
  BY <1>0, Scheduling
<1>3. p \in Procs /\ p \notin ready \cup asleep
  BY <1>0 DEF InterruptsInv, OnePlace
<1>4. /\ u \in CpuType /\ u.noff = 1 /\ ~u.sie /\ u.mode = "S" /\ u.tp = c
      /\ u.stvec = "kernelvec"
  <2>1. u = [cpu[c] EXCEPT !.intena = cpu[c].sie, !.noff = 1, !.sie = FALSE] /\ u \in CpuType
    BY <1>2, PushOff
  <2> QED  BY <1>2, <2>1 DEF CpuType
<1>5. cpu' = [cpu EXCEPT ![c] = r] /\ panicked' = "no"
  BY DEF switchTo, Registers
<1> HIDE DEF u
<1>6. v \in CpuType /\ \E b \in BOOLEAN : v = [u EXCEPT !.intena = b]
  BY <1>4, LockUnlock DEF startTick
<1>7. /\ v.noff = 1 /\ ~v.sie /\ v.mode = "S" /\ v.tp = c /\ v.stvec = "kernelvec"
  BY <1>4, <1>6 DEF CpuType
<1> HIDE DEF v
<1>8. /\ r \in CpuType /\ r.noff = 1 /\ ~r.sie /\ r.mode = "S" /\ r.tp = c
      /\ r.stvec = "kernelvec" /\ r.proc = p
  BY <1>3, <1>6, <1>7 DEF CpuType
<1>9. /\ sch' = [sch EXCEPT ![c] = s] /\ s \in SchType /\ s.pc = "running" /\ s.p = p
  BY <1>1, <1>2 DEF switchTo, SchType
<1>10. /\ plock[p] = NoCPU /\ plock' = [plock EXCEPT ![p] = c]
       /\ th' = th /\ trapframe' = trapframe /\ due' = due
       /\ ready' = ready /\ asleep' = asleep
  BY DEF switchTo, userVars
<1>11. /\ cpu'[c] = r /\ sch'[c] = s
       /\ \A d \in CPUs : d # c => cpu'[d] = cpu[d] /\ sch'[d] = sch[d]
  BY <1>1, <1>5, <1>9
<1> HIDE DEF r, s
<1>12. \A d \in CPUs : sch[d].pc \in {"lock", "running"} /\ sch[d].p = p => d = c
  BY <1>0 DEF InterruptsInv, OnePlace
<1>13. th[p].pc \in SwitchedOut
  BY <1>0, <1>3, <1>12 DEF InterruptsInv, OnePlace, Runs
<1> HIDE DEF p
<1>14. InterruptsTypeOK'
  <2>1. /\ cpu' \in [CPUs -> CpuType] /\ sch' \in [CPUs -> SchType]
        /\ plock' \in [Procs -> CPUs \cup {NoCPU}]
    BY <1>1, <1>5, <1>8, <1>9, <1>10
  <2> QED  BY <1>1, <1>10, <2>1
           DEF InterruptsTypeOK, CpuType, SchType, ThType, TrapType, FrameType
<1>15. OnePlace'
  <2>1. \A d \in CPUs :
          /\ sch'[d].pc \in {"lock", "running", "after"} => sch'[d].p \in Procs
          /\ sch'[d].pc \in {"lock", "running"} => sch'[d].p \notin ready' \cup asleep'
    BY <1>3, <1>9, <1>10, <1>11 DEF InterruptsInv, OnePlace
  <2>2. \A d, e \in CPUs :
          /\ sch'[d].pc \in {"lock", "running"} /\ sch'[e].pc \in {"lock", "running"}
          /\ sch'[d].p = sch'[e].p
          => d = e
    BY <1>9, <1>11, <1>12 DEF InterruptsInv, OnePlace
  <2>3. \A q \in Procs : th'[q].pc \notin SwitchedOut => \E d \in CPUs : Runs(d, q)'
    BY <1>0, <1>10, <1>11 DEF InterruptsInv, OnePlace, Runs
  <2> QED  BY <1>10, <2>1, <2>2, <2>3 DEF OnePlace, InterruptsInv
<1>16. NoCPU \notin CPUs
  BY HartAssumption DEF CPUs, NoCPU
<1>17. LockAcrossSwitch'
  <2> SUFFICES ASSUME NEW d \in CPUs, NEW q \in Procs
               PROVE  plock'[q] = d <=> \/ sch'[d].pc = "after" /\ sch'[d].p = q
                                        \/ Runs(d, q)' /\ th'[q].pc \in SwitchedOut
    BY DEF LockAcrossSwitch
  <2>1. plock[q] = d <=> \/ sch[d].pc = "after" /\ sch[d].p = q
                         \/ Runs(d, q) /\ th[q].pc \in SwitchedOut
    BY DEF InterruptsInv, LockAcrossSwitch
  <2>2. CASE q = p
    BY <1>1, <1>9, <1>10, <1>11, <1>13, <1>16, <2>1, <2>2 DEF Runs
  <2>3. CASE q # p
    BY <1>0, <1>1, <1>9, <1>10, <1>11, <2>1, <2>3 DEF Runs
  <2> QED  BY <2>2, <2>3
<1>18. SchedulerRegs'
  BY <1>9, <1>11 DEF InterruptsInv, SchedulerRegs
<1>19. ThreadRegs'
  <2> SUFFICES ASSUME NEW d \in CPUs, NEW q \in Procs, Runs(d, q)'
               PROVE  RegsAt(d, q, cpu'[d], th'[q], trapframe'[q].hartid)
    BY DEF ThreadRegs
  <2>1. CASE d = c
    BY <1>8, <1>9, <1>10, <1>11, <1>13, <2>1 DEF Runs, RegsAt, SwitchedOut, Preemptible
  <2>2. CASE d # c
    BY <1>10, <1>11, <2>2 DEF InterruptsInv, ThreadRegs, Runs
  <2> QED  BY <2>1, <2>2
<1>20. ThreadLocals' /\ EpcIsDue'
  BY <1>10 DEF InterruptsInv, ThreadLocals, EpcIsDue
<1> QED  BY <1>5, <1>14, <1>15, <1>17, <1>18, <1>19, <1>20 DEF InterruptsInv, NoTrapPanic

\* A thread switches back to the scheduler of the CPU it is on.
LEMMA switchedBackStep ==
  ASSUME InterruptsInv, NEW c \in CPUs, switchedBack(c)
  PROVE  InterruptsInv'
<1> DEFINE p == sch[c].p
           s == [pc |-> "pick", p |-> Null, found |-> TRUE]
           u == lockUnlock(cpu[c])
           v == cleared(u)
           r == pop_off(v)
<1>0. sch[c].pc = "after"
  BY DEF switchedBack, SchedulerAt
<1>1. /\ cpu \in [CPUs -> CpuType]
      /\ sch \in [CPUs -> SchType]
      /\ th \in [Procs -> ThType]
      /\ trapframe \in [Procs -> FrameType]
      /\ due \in [Procs -> Locations]
      /\ ready \subseteq Procs /\ asleep \subseteq Procs
      /\ plock \in [Procs -> CPUs \cup {NoCPU}]
  BY Types DEF InterruptsInv
<1>2. /\ cpu[c] \in CpuType
      /\ cpu[c].noff = 1 /\ ~cpu[c].sie /\ cpu[c].mode = "S"
      /\ cpu[c].tp = c /\ cpu[c].stvec = "kernelvec"
  BY <1>0, <1>1 DEF InterruptsInv, SchedulerRegs
<1>3. p \in Procs /\ plock[p] = c
  BY <1>0 DEF InterruptsInv, OnePlace, LockAcrossSwitch
<1>4. u \in CpuType /\ \E b \in BOOLEAN : u = [cpu[c] EXCEPT !.intena = b]
  BY <1>2, LockUnlock
<1>5. /\ v \in CpuType /\ v.noff = 1 /\ ~v.sie /\ v.mode = "S" /\ v.tp = c
      /\ v.stvec = "kernelvec" /\ v.proc = Null
  <2>1. /\ u.noff = 1 /\ ~u.sie /\ u.mode = "S" /\ u.tp = c /\ u.stvec = "kernelvec"
    BY <1>2, <1>4 DEF CpuType
  <2> HIDE DEF u
  <2> QED  BY <1>4, <2>1 DEF cleared, CpuType
<1>6. Registers(c, r, popPanic(v)) /\ sch' = [sch EXCEPT ![c] = s]
  BY DEF switchedBack
<1> HIDE DEF v
<1>7. r \in CpuType /\ r = [v EXCEPT !.noff = 0, !.sie = v.intena] /\ popPanic(v) = "no"
  BY <1>5, PopOff
<1>8. /\ r.noff = 0 /\ r.mode = "S" /\ r.tp = c /\ r.stvec = "kernelvec" /\ r.proc = Null
  BY <1>5, <1>7 DEF CpuType
<1>9. cpu' = [cpu EXCEPT ![c] = r] /\ panicked' = "no"
  BY <1>6, <1>7 DEF Registers
<1>10. s \in SchType /\ s.pc = "pick"
  BY DEF SchType
<1>11. /\ plock' = [plock EXCEPT ![p] = NoCPU]
       /\ th' = th /\ trapframe' = trapframe /\ due' = due
       /\ ready' = ready /\ asleep' = asleep
  BY DEF switchedBack, userVars
<1> HIDE DEF s, r
<1>12. /\ cpu'[c] = r /\ sch'[c] = s
       /\ \A d \in CPUs : d # c => cpu'[d] = cpu[d] /\ sch'[d] = sch[d]
  BY <1>1, <1>6, <1>9
<1> HIDE DEF p
<1>13. InterruptsTypeOK'
  <2>1. /\ cpu' \in [CPUs -> CpuType] /\ sch' \in [CPUs -> SchType]
        /\ plock' \in [Procs -> CPUs \cup {NoCPU}]
    BY <1>1, <1>6, <1>7, <1>9, <1>10, <1>11
  <2> QED  BY <1>1, <1>11, <2>1
           DEF InterruptsTypeOK, CpuType, SchType, ThType, TrapType, FrameType
<1>14. OnePlace'
  <2>1. \A d \in CPUs :
          /\ sch'[d].pc \in {"lock", "running", "after"} => sch'[d].p \in Procs
          /\ sch'[d].pc \in {"lock", "running"} => sch'[d].p \notin ready' \cup asleep'
    BY <1>10, <1>11, <1>12 DEF InterruptsInv, OnePlace
  <2>2. \A d, e \in CPUs :
          /\ sch'[d].pc \in {"lock", "running"} /\ sch'[e].pc \in {"lock", "running"}
          /\ sch'[d].p = sch'[e].p
          => d = e
    BY <1>10, <1>12 DEF InterruptsInv, OnePlace
  <2>3. \A q \in Procs : th'[q].pc \notin SwitchedOut => \E d \in CPUs : Runs(d, q)'
    BY <1>0, <1>11, <1>12 DEF InterruptsInv, OnePlace, Runs
  <2> QED  BY <1>11, <2>1, <2>2, <2>3 DEF OnePlace, InterruptsInv
<1>15. NoCPU \notin CPUs
  BY HartAssumption DEF CPUs, NoCPU
<1>16. LockAcrossSwitch'
  <2> SUFFICES ASSUME NEW d \in CPUs, NEW q \in Procs
               PROVE  plock'[q] = d <=> \/ sch'[d].pc = "after" /\ sch'[d].p = q
                                        \/ Runs(d, q)' /\ th'[q].pc \in SwitchedOut
    BY DEF LockAcrossSwitch
  <2>1. plock[q] = d <=> \/ sch[d].pc = "after" /\ sch[d].p = q
                         \/ Runs(d, q) /\ th[q].pc \in SwitchedOut
    BY DEF InterruptsInv, LockAcrossSwitch
  <2>2. CASE q = p
    BY <1>0, <1>1, <1>3, <1>10, <1>11, <1>12, <1>15, <2>1, <2>2 DEF Runs
  <2>3. CASE q # p
    BY <1>0, <1>1, <1>10, <1>11, <1>12, <2>1, <2>3 DEF Runs, p
  <2> QED  BY <2>2, <2>3
<1>17. SchedulerRegs'
  BY <1>8, <1>10, <1>12 DEF InterruptsInv, SchedulerRegs
<1>18. ThreadRegs'
  BY <1>10, <1>11, <1>12 DEF InterruptsInv, ThreadRegs, Runs
<1>19. ThreadLocals' /\ EpcIsDue'
  BY <1>11 DEF InterruptsInv, ThreadLocals, EpcIsDue
<1> QED  BY <1>9, <1>13, <1>14, <1>16, <1>17, <1>18, <1>19 DEF InterruptsInv, NoTrapPanic

\* A sleeping process becomes ready.
LEMMA wakeupStep ==
  ASSUME InterruptsInv, NEW p \in Procs, wakeup(p)
  PROVE  InterruptsInv'
<1>1. /\ p \in asleep /\ asleep' = asleep \ {p} /\ ready' = ready \cup {p}
      /\ UNCHANGED <<cpu, panicked, sch, th, trapframe, due, plock>>
  BY DEF wakeup, userVars
<1>2. InterruptsTypeOK'
  BY <1>1 DEF InterruptsInv, InterruptsTypeOK
<1>3. OnePlace'
  BY <1>1 DEF InterruptsInv, OnePlace, Runs
<1>4. LockAcrossSwitch' /\ SchedulerRegs' /\ ThreadRegs' /\ ThreadLocals' /\ EpcIsDue'
  BY <1>1 DEF InterruptsInv, LockAcrossSwitch, SchedulerRegs, ThreadRegs, ThreadLocals,
              EpcIsDue, Runs
<1> QED  BY <1>1, <1>2, <1>3, <1>4 DEF InterruptsInv, NoTrapPanic

-----------------------------------------------------------------------------
(* The invariant.                                                          *)

\* The invariant holds when the CPUs are in their schedulers.
LEMMA InitInv ==
  Init => InterruptsInv
<1> SUFFICES ASSUME Init PROVE InterruptsInv
  OBVIOUS
<1> DEFINE boot == [sepc |-> Kern("boot"), spp |-> "S", spie |-> FALSE]
           r(c) == [stvec |-> "kernelvec", mode |-> "S", sie |-> FALSE, spp |-> "S",
                    spie |-> FALSE, sepc |-> Kern("boot"), tp |-> c, noff |-> 0,
                    intena |-> FALSE, proc |-> Null]
           s == [pc |-> "loop", p |-> Null, found |-> FALSE]
           t == [pc |-> "forkret", next |-> "forkret", trap |-> boot,
                 intena |-> FALSE, me |-> Null]
<1>1. /\ cpu = [c \in CPUs |-> r(c)] /\ sch = [c \in CPUs |-> s] /\ th = [p \in Procs |-> t]
      /\ due = [p \in Procs |-> User(0)] /\ ready = Procs /\ asleep = {}
      /\ plock = [p \in Procs |-> NoCPU] /\ panicked = "no"
      /\ trapframe \in [Procs -> [epc : {0}, hartid : CPUs]]
  BY DEF Init
<1>2. "boot" \in Labels /\ "forkret" \in Labels
  BY DEF Labels
<1>3. Kern("boot") \in Locations /\ User(0) \in Locations /\ 0 \in Addrs
  BY <1>2, KernLocation, UserLocation, AddrsNat
<1>4. \A c \in CPUs : r(c) \in CpuType
  BY <1>3 DEF CpuType
<1>5. s \in SchType
  BY DEF SchType
<1>6. t \in ThType
  BY <1>2, <1>3 DEF ThType, TrapType
<1>7. trapframe \in [Procs -> FrameType] /\ \A p \in Procs : trapframe[p].epc = 0
  BY <1>1, <1>3 DEF FrameType
<1>8. NoCPU \notin CPUs
  BY HartAssumption DEF CPUs, NoCPU
<1>9. /\ \A c \in CPUs : /\ cpu[c].mode = "S" /\ cpu[c].stvec = "kernelvec" /\ cpu[c].tp = c
                         /\ cpu[c].noff = 0 /\ cpu[c].proc = Null /\ sch[c].pc = "loop"
      /\ \A p \in Procs : th[p].pc = "forkret"
  BY <1>1
<1>10. InterruptsTypeOK
  <2>1. /\ cpu \in [CPUs -> CpuType] /\ sch \in [CPUs -> SchType] /\ th \in [Procs -> ThType]
        /\ due \in [Procs -> Locations]
    <3> HIDE DEF r, s, t
    <3> QED  BY <1>1, <1>3, <1>4, <1>5, <1>6
  <2> QED  BY <1>1, <1>7, <2>1, Types
<1>11. OnePlace /\ LockAcrossSwitch
  BY <1>1, <1>8, <1>9 DEF OnePlace, LockAcrossSwitch, SwitchedOut, Runs
<1>12. SchedulerRegs
  BY <1>9 DEF SchedulerRegs
<1>13. ThreadRegs /\ ThreadLocals
  BY <1>9 DEF ThreadRegs, ThreadLocals, LocalsAt, Runs
<1>14. EpcIsDue
  BY <1>1, <1>7 DEF EpcIsDue
<1> QED  BY <1>1, <1>10, <1>11, <1>12, <1>13, <1>14 DEF InterruptsInv, NoTrapPanic

\* Every step keeps the invariant.
LEMMA NextInv ==
  InterruptsInv /\ [Next]_vars => InterruptsInv'
<1> SUFFICES ASSUME InterruptsInv, [Next]_vars PROVE InterruptsInv'
  OBVIOUS
<1>1. CASE UNCHANGED vars
  BY <1>1 DEF vars, userVars, queueVars, InterruptsInv, InterruptsTypeOK, NoTrapPanic, OnePlace,
              LockAcrossSwitch, SchedulerRegs, ThreadRegs, ThreadLocals, EpcIsDue, Runs
<1>2. ASSUME NEW c \in CPUs, NEW p \in Procs,
             \/ \E a \in Addrs, kind \in {"syscall", "timer", "device"} : usertrap(c, p, a, kind)
             \/ myproc(c, p) \/ acquire(c, p) \/ release(c, p) \/ sleep(c, p) \/ sysReturn(c, p)
             \/ yield(c, p) \/ resumed(c, p) \/ forkret(c, p)
             \/ retOff(c, p) \/ retVec(c, p) \/ retUser(c, p)
             \/ kernelTimer(c, p) \/ kret(c, p)
      PROVE  InterruptsInv'
  BY <1>2, usertrapStep, myprocStep, acquireStep, releaseStep, sleepStep, sysReturnStep,
     yieldStep, resumedStep, forkretStep, retOffStep, retVecStep, retUserStep,
     kernelTimerStep, kretStep
<1>3. ASSUME NEW c \in CPUs,
             loop(c) \/ pick(c) \/ idle(c) \/ switchTo(c) \/ switchedBack(c) \/ kernelDevice(c)
      PROVE  InterruptsInv'
  BY <1>3, loopStep, pickStep, idleStep, switchToStep, switchedBackStep, kernelDeviceStep
<1>4. ASSUME NEW p \in Procs, wakeup(p)
      PROVE  InterruptsInv'
  BY <1>4, wakeupStep
<1> QED  BY <1>1, <1>2, <1>3, <1>4 DEF Next

\* What the other theorems rest on: the registers, the locals of the threads and
\* the locks fit together in every reachable state.
THEOREM InterruptsInvariant ==
  Spec => []InterruptsInv
BY InitInv, NextInv, PTL DEF Spec

\* usertrap, usertrapret, kerneltrap, sched and the scheduler keep registers and
\* fields within their types; in particular a CPU holds at most one lock, and
\* noff is 0 or 1, between two points at which another CPU can interfere.
THEOREM InterruptsTypeCorrect ==
  Spec => []InterruptsTypeOK
BY InterruptsInvariant, PTL DEF InterruptsInv

\* No panic of usertrap, kerneltrap, sched or pop_off is reachable, for any
\* number of CPUs and processes and any interleaving of traps with switches.
THEOREM NoTrapPanics ==
  Spec => []NoTrapPanic
BY InterruptsInvariant, PTL DEF InterruptsInv

\* stvec is uservec in user mode, and kernelvec wherever the kernel has
\* interrupts on.
THEOREM VectorsMatchModes ==
  Spec => []VectorMatchesMode
<1>1. InterruptsInv => VectorMatchesMode
  <2> SUFFICES ASSUME InterruptsInv, NEW c \in CPUs
               PROVE  IF cpu[c].mode = "U" THEN cpu[c].stvec = "uservec"
                      ELSE cpu[c].sie => cpu[c].stvec = "kernelvec"
    BY DEF VectorMatchesMode
  <2>1. CASE sch[c].pc # "running"
    BY <2>1 DEF InterruptsInv, SchedulerRegs
  <2>2. CASE sch[c].pc = "running"
    <3>1. /\ sch[c].p \in Procs
          /\ RegsAt(c, sch[c].p, cpu[c], th[sch[c].p], trapframe[sch[c].p].hartid)
      BY <2>2 DEF InterruptsInv, OnePlace, ThreadRegs, Runs
    <3> QED  BY <3>1 DEF RegsAt, Preemptible
  <2> QED  BY <2>1, <2>2
<1> QED  BY <1>1, InterruptsInvariant, PTL

\* cpuid(), mycpu() and myproc() are right for the thread that asks, also after
\* it has been moved to another CPU, and myproc() is 0 in an interruptible
\* scheduler thread.
THEOREM IdentityIsOwn ==
  Spec => []OwnIdentity
<1>1. InterruptsInv => OwnIdentity
  <2> SUFFICES ASSUME InterruptsInv, NEW c \in CPUs
               PROVE  /\ cpu[c].mode = "S" => cpu[c].tp = c
                      /\ sch[c].pc # "running" /\ cpu[c].sie => cpu[c].proc = Null
                      /\ sch[c].pc = "running" => cpu[c].proc = sch[c].p
                      /\ \A p \in Procs :
                           /\ At(c, p, {"mycpu"}) => cpu[th[p].me].proc = p
                           /\ At(c, p, {"retvec", "retuser"}) => th[p].me = p
                           /\ At(c, p, {"user"}) => trapframe[p].hartid = c
    BY DEF OwnIdentity
  <2>1. CASE sch[c].pc # "running"
    BY <2>1 DEF InterruptsInv, SchedulerRegs, At
  <2>2. CASE sch[c].pc = "running"
    <3>1. /\ sch[c].p \in Procs
          /\ RegsAt(c, sch[c].p, cpu[c], th[sch[c].p], trapframe[sch[c].p].hartid)
          /\ LocalsAt(sch[c].p, th[sch[c].p])
      BY <2>2 DEF InterruptsInv, OnePlace, ThreadRegs, ThreadLocals, Runs
    <3> QED  BY <2>2, <3>1 DEF RegsAt, LocalsAt, At
  <2> QED  BY <2>1, <2>2
<1> QED  BY <1>1, InterruptsInvariant, PTL

\* The interrupt flag is that of the thread, whichever CPU it comes back on and
\* whatever ran there before.
THEOREM InterruptStateIsKept ==
  Spec => []InterruptStateKept
<1>1. InterruptsInv => InterruptStateKept
  BY DEF InterruptsInv, InterruptStateKept, SchedulerRegs, ThreadRegs, RegsAt, Runs, At,
         Preemptible
<1> QED  BY <1>1, InterruptsInvariant, PTL

-----------------------------------------------------------------------------
(* Where interrupted code goes on.                                         *)

\* The two ways out of a trap: usertrapret and the end of kerneltrap.
LEMMA ResumesStep ==
  ASSUME InterruptsInv, Next, NEW p \in Procs
  PROVE  /\ th[p].pc # "user" /\ th'[p].pc = "user" =>
              \E c \in CPUs : /\ sch[c].p = p /\ cpu'[c].mode = "U"
                              /\ cpu'[c].sepc = due[p]
         /\ th[p].pc = "kret" /\ th'[p].pc # "kret" =>
              Kern(th'[p].pc) = th[p].trap.sepc
<1> DEFINE Goal == /\ th[p].pc # "user" /\ th'[p].pc = "user" =>
                        \E c \in CPUs : /\ sch[c].p = p /\ cpu'[c].mode = "U"
                                        /\ cpu'[c].sepc = due[p]
                   /\ th[p].pc = "kret" /\ th'[p].pc # "kret" =>
                        Kern(th'[p].pc) = th[p].trap.sepc
<1>1. th \in [Procs -> ThType] /\ cpu \in [CPUs -> CpuType]
  BY Types DEF InterruptsInv
<1>2. ASSUME NEW c \in CPUs, NEW q \in Procs, NEW ls, At(c, q, ls), "kret" \notin ls,
             NEW l, l # "user", NEW t, t.pc = l, Thread(q, t)
      PROVE  Goal
  BY <1>1, <1>2 DEF Thread, At
<1>3. ASSUME NEW c \in CPUs, NEW q \in Procs, retUser(c, q)
      PROVE  Goal
  <2> DEFINE s == [cpu[c] EXCEPT !.spp = "U", !.spie = TRUE,
                                 !.sepc = User(trapframe[q].epc)]
             r == sret(s)
             t == [th[q] EXCEPT !.pc = "user", !.me = Null]
  <2>0. At(c, q, {"retuser"})
    BY <1>3 DEF retUser
  <2>1. /\ cpu[c] \in CpuType /\ th[q] \in ThType /\ Runs(c, q) /\ th[q].pc = "retuser"
        /\ LocalsAt(q, th[q]) /\ due[q] = User(trapframe[q].epc)
    BY <2>0, Running
  <2>2. th[q].me = q
    BY <2>1 DEF LocalsAt
  <2>3. th' = [th EXCEPT ![q] = t] /\ cpu' = [cpu EXCEPT ![c] = r]
    BY <1>3, <2>2 DEF retUser, Thread, Registers
  <2>4. s.sepc = due[q] /\ s.spp = "U"
    BY <2>1 DEF CpuType
  <2>5. r.mode = "U" /\ r.sepc = due[q]
    BY <2>1, <2>4 DEF sret, CpuType
  <2>6. cpu'[c] = r /\ th'[q] = t /\ t.pc = "user" /\ \A x \in Procs : x # q => th'[x] = th[x]
    BY <1>1, <2>1, <2>3 DEF ThType
  <2> HIDE DEF r, t
  <2> QED  BY <2>1, <2>5, <2>6 DEF Runs
<1>4. ASSUME NEW c \in CPUs, NEW q \in Procs, kret(c, q)
      PROVE  Goal
  <2> DEFINE l == Target(restored(c, th[q].trap))
  <2>0. At(c, q, {"kret"})
    BY <1>4 DEF kret
  <2>1. l \in Preemptible /\ th[q].trap.sepc = Kern(l)
    <3>1. PICK k \in Preemptible : k = l /\ th[q].trap.sepc = Kern(k)
      BY <2>0, kretTarget, ZenonT(30)
    <3> QED  BY <3>1
  <2>2. th' = [th EXCEPT ![q] = [th[q] EXCEPT !.pc = l]]
    BY <1>4 DEF kret, Goto, Thread
  <2> HIDE DEF l
  <2>3. th'[q].pc = l /\ \A x \in Procs : x # q => th'[x] = th[x]
    BY <1>1, <2>2 DEF ThType
  <2> QED  BY <2>1, <2>3 DEF Preemptible
<1>5. ASSUME NEW c \in CPUs, NEW q \in Procs, NEW a \in Addrs,
             NEW kind \in {"syscall", "timer", "device"}, usertrap(c, q, a, kind)
      PROVE  Goal
  <2> DEFINE l == CASE kind = "syscall" -> "syscall" [] kind = "timer" -> "yield2"
                    [] OTHER -> "yield"
             t == [th[q] EXCEPT !.pc = l]
  <2>1. l # "user"
    OBVIOUS
  <2>2. At(c, q, {"user"}) /\ Thread(q, t)
    BY <1>5 DEF usertrap, Goto
  <2> HIDE DEF l
  <2>3. t.pc = l
    BY <1>1 DEF ThType
  <2> HIDE DEF t
  <2> QED  BY <1>2, <2>1, <2>2, <2>3
<1>6. ASSUME NEW c \in CPUs, NEW q \in Procs, sleep(c, q) \/ yield(c, q)
      PROVE  Goal
  <2>1. PICK x \in Procs, t \in ThType, ls \in SUBSET Labels :
          /\ At(c, x, ls) /\ "kret" \notin ls /\ t.pc # "user" /\ Thread(x, t)
    <3>1. ASSUME NEW r \in CpuType, NEW l \in Labels, sched(c, q, r, l),
                 NEW ls \in SUBSET Labels, At(c, q, ls), "kret" \notin ls
          PROVE  \E x \in Procs, t \in ThType, ks \in SUBSET Labels :
                   /\ At(c, x, ks) /\ "kret" \notin ks /\ t.pc # "user" /\ Thread(x, t)
      <4> DEFINE t == [th[q] EXCEPT !.pc = "resumed", !.next = l, !.intena = r.intena]
      <4>0. th[q] \in ThType /\ r.intena \in BOOLEAN
        BY <1>1 DEF CpuType
      <4>1. t \in ThType /\ t.pc = "resumed"
        BY <4>0 DEF ThType, Labels
      <4>2. Thread(q, t)
        BY <3>1 DEF sched
      <4> HIDE DEF t
      <4> QED  BY <3>1, <4>1, <4>2
    <3>2. CASE sleep(c, q)
      <4> DEFINE r == lockHandover(cpu[c])
                 t == [th[q] EXCEPT !.pc = "resumed", !.next = "relock", !.intena = r.intena]
      <4>1. At(c, q, {"locked"}) /\ sched(c, q, r, "relock")
        BY <3>2 DEF sleep
      <4>2. r.intena \in BOOLEAN
        BY <1>1 DEF lockHandover, push_off, pop_off, CpuType
      <4> HIDE DEF r
      <4>3. t \in ThType /\ t.pc = "resumed" /\ {"locked"} \in SUBSET Labels
        BY <1>1, <4>2 DEF ThType, Labels
      <4>4. Thread(q, t)
        BY <4>1 DEF sched
      <4> HIDE DEF t
      <4> QED  BY <4>1, <4>3, <4>4
    <3>3. CASE yield(c, q)
      <4> DEFINE ls == {"yield2", "yield", "kyield"}
                 l == YieldReturn[th[q].pc]
                 t == [th[q] EXCEPT !.pc = l]
      <4>1. At(c, q, ls) /\ ls \in SUBSET Labels /\ "kret" \notin ls
        BY <3>3 DEF yield, YieldReturn, Labels
      <4>2. /\ RegsAt(c, q, cpu[c], th[q], trapframe[q].hartid) /\ th[q].pc \in ls
            /\ cpu[c] \in CpuType
        BY <4>1, Running
      <4>3. l \in {"yield", "ret", "kret"} /\ l \in Labels
        BY <4>2 DEF YieldReturn, Labels
      <4>4. push_off(cpu[c]) \in CpuType
        BY <4>2, PushOff DEF RegsAt
      <4>5. sched(c, q, push_off(cpu[c]), l) \/ Thread(q, t)
        BY <3>3 DEF yield, Goto
      <4> HIDE DEF l
      <4>6. t \in ThType /\ t.pc = l
        BY <1>1, <4>3 DEF ThType
      <4> HIDE DEF t, ls
      <4> QED  BY <3>1, <4>1, <4>3, <4>4, <4>5, <4>6
    <3> QED  BY <1>6, <3>2, <3>3
  <2> QED  BY <1>2, <2>1
<1>7. ASSUME NEW c \in CPUs, NEW q \in Procs,
             \/ myproc(c, q) \/ acquire(c, q) \/ release(c, q) \/ sysReturn(c, q)
             \/ forkret(c, q) \/ retOff(c, q) \/ retVec(c, q) \/ kernelTimer(c, q)
      PROVE  Goal
  <2>1. th' = th \/ /\ \A x \in Procs : x # q => th'[x] = th[x]
                    /\ th'[q].pc # "user" /\ th[q].pc # "kret"
    <3>1. CASE kernelTimer(c, q)
      <4>1. th[q].pc \in Preemptible
        BY <3>1, InterruptibleAt DEF kernelTimer, At, Runs
      <4> QED  BY <1>1, <3>1, <4>1 DEF kernelTimer, Thread, ThType, Preemptible
    <3>2. CASE myproc(c, q)
      BY <1>1, <3>2 DEF myproc, Thread, At, ThType
    <3>3. CASE retOff(c, q)
      BY <1>1, <3>3 DEF retOff, Thread, At, ThType
    <3>4. CASE acquire(c, q)
      BY <1>1, <3>4 DEF acquire, Goto, Thread, At, ThType
    <3>5. CASE release(c, q)
      BY <1>1, <3>5 DEF release, Goto, Thread, At, ThType
    <3>6. CASE sysReturn(c, q)
      BY <1>1, <3>6 DEF sysReturn, Goto, Thread, At, ThType
    <3>7. CASE forkret(c, q)
      BY <1>1, <3>7 DEF forkret, Goto, Thread, At, ThType
    <3>8. CASE retVec(c, q)
      BY <1>1, <3>8 DEF retVec, Goto, Thread, At, ThType
    <3> QED  BY <1>7, <3>1, <3>2, <3>3, <3>4, <3>5, <3>6, <3>7, <3>8
  <2> QED  BY <2>1
<1>8. ASSUME NEW c \in CPUs, NEW q \in Procs, resumed(c, q)
      PROVE  Goal
  <2>1. At(c, q, {"resumed"}) /\ th' = [th EXCEPT ![q] = [th[q] EXCEPT !.pc = th[q].next]]
    BY <1>8 DEF resumed, Goto, Thread
  <2>2. th[q].pc = "resumed" /\ LocalsAt(q, th[q])
    BY <2>1, Running
  <2>3. th[q].next # "user"
    BY <2>2 DEF LocalsAt
  <2>4. th'[q].pc = th[q].next /\ \A x \in Procs : x # q => th'[x] = th[x]
    BY <1>1, <2>1 DEF ThType
  <2> QED  BY <2>2, <2>3, <2>4
<1>9. ASSUME th' = th PROVE Goal
  BY <1>9
<1>10. ASSUME NEW c \in CPUs, \/ loop(c) \/ pick(c) \/ idle(c) \/ switchTo(c)
                              \/ switchedBack(c) \/ kernelDevice(c)
       PROVE  th' = th
  BY <1>10 DEF loop, pick, idle, switchTo, switchedBack, kernelDevice
<1>11. ASSUME NEW q \in Procs, wakeup(q) PROVE th' = th
  BY <1>11 DEF wakeup
<1> HIDE DEF Goal
<1>12. Goal
  BY <1>3, <1>4, <1>5, <1>6, <1>7, <1>8, <1>9, <1>10, <1>11 DEF Next
<1> QED  BY <1>12 DEF Goal

\* A user program goes on at the instruction that is due and in user mode, and
\* interrupted kernel code where kerneltrap interrupted it, whatever else has
\* trapped on the CPU that the thread comes back to.
THEOREM InterruptedCodeResumes ==
  Spec => ResumesWhereInterrupted
<1>1. InterruptsInv /\ [Next]_vars =>
        [\A p \in Procs :
           /\ th[p].pc # "user" /\ th'[p].pc = "user" =>
                \E c \in CPUs : /\ sch[c].p = p /\ cpu'[c].mode = "U"
                                /\ cpu'[c].sepc = due[p]
           /\ th[p].pc = "kret" /\ th'[p].pc # "kret" =>
                Kern(th'[p].pc) = th[p].trap.sepc]_vars
  BY ResumesStep
<1> QED  BY <1>1, InterruptsInvariant, PTL DEF Spec, ResumesWhereInterrupted
=============================================================================
