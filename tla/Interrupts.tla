----------------------------- MODULE Interrupts -----------------------------
(***************************************************************************)
(* The registers and fields that decide where a trap goes and where it     *)
(* returns to: usertrap, usertrapret and kerneltrap of trap.c; sched,      *)
(* scheduler, forkret, sleep, cpuid, mycpu and myproc of proc.c.  Kernel   *)
(* threads move between CPUs, while stvec, sepc, sstatus, tp, noff and     *)
(* intena belong to a CPU.                                                 *)
(*                                                                         *)
(* Which process runs next, why it sleeps and when it exits is left open   *)
(* here (module Kernel has it).  A step is what a CPU does between two     *)
(* points at which it can be interrupted or another CPU can interfere.     *)
(***************************************************************************)
EXTENDS Integers, FiniteSets

CONSTANTS
  Procs,     \* the processes
  Null,      \* the pointer 0
  NCPU,      \* number of CPUs
  Addrs      \* user addresses, 0..Cardinality(Addrs) - 1

ASSUME ProcsAssumption == Null \notin Procs
ASSUME HartAssumption == NCPU \in Nat \ {0}
ASSUME AddrsAssumption ==
  IsFiniteSet(Addrs) /\ Addrs # {} /\ Addrs = 0..(Cardinality(Addrs) - 1)

CPUs == 0..(NCPU - 1)
NoCPU == -1

VARIABLES
  cpu,        \* registers and struct cpu: stvec, mode, sie, spp, spie, sepc, tp,
              \* noff, intena, proc
  sch,        \* scheduler thread of a CPU: pc ("running": switched out), its
              \* locals p (whose kernel stack the CPU is on) and found
  th,         \* kernel thread of a process: pc; next, where it goes on when the
              \* call that gave up the CPU returns; kerneltrap's local trap (sepc
              \* and sstatus), sched's local intena; me, myproc's local c and
              \* usertrapret's local p
  trapframe,  \* p->trapframe: epc, hartid
  due,        \* where the user program has to go on after its last trap
  ready, asleep,  \* the processes in the tree, and in sleep()
  plock,      \* the CPU that holds p->lock, or NoCPU
  panicked    \* the message of panic(), or "no"

userVars == <<trapframe, due>>
queueVars == <<ready, asleep, plock>>
vars == <<cpu, sch, th, userVars, queueVars, panicked>>

\* Code locations, as sepc holds them.
User(a) == <<"user", a>>
Kern(l) == <<"kernel", l>>

-----------------------------------------------------------------------------
(* The hardware and spinlock.c, as functions on the record of a CPU.       *)

\* A trap is taken at location l; the return from a trap.
trapTo(r, l) ==
  [r EXCEPT !.spp = r.mode, !.spie = r.sie, !.sie = FALSE, !.mode = "S", !.sepc = l]
sret(r) ==
  [r EXCEPT !.mode = r.spp, !.sie = r.spie, !.spp = "U", !.spie = TRUE]

push_off(r) ==
  [r EXCEPT !.intena = IF r.noff = 0 THEN r.sie ELSE @, !.noff = @ + 1, !.sie = FALSE]
pop_off(r) ==
  [r EXCEPT !.noff = @ - 1, !.sie = @ \/ (r.noff = 1 /\ r.intena)]

\* The checks of pop_off on the state it is called in.
popPanic(r) ==
  IF r.sie THEN "pop_off - interruptible" ELSE IF r.noff < 1 THEN "pop_off" ELSE "no"

\* A lock is taken and released within a step.
lockUnlock(r) == pop_off(push_off(r))

-----------------------------------------------------------------------------
(* Helpers of the actions.                                                 *)

\* CPU c executes the thread of p, which is at one of the labels ls.
At(c, p, ls) ==
  panicked = "no" /\ sch[c].pc = "running" /\ sch[c].p = p /\ th[p].pc \in ls

\* CPU c executes its scheduler thread, at label l.
SchedulerAt(c, l) == panicked = "no" /\ sch[c].pc = l

\* CPU c continues with registers r, or panics.
Registers(c, r, msg) ==
  /\ cpu' = IF msg = "no" THEN [cpu EXCEPT ![c] = r] ELSE cpu
  /\ panicked' = msg

Thread(p, t) == th' = [th EXCEPT ![p] = t]
Goto(p, l) == Thread(p, [th[p] EXCEPT !.pc = l])

\* What myproc() returns on a CPU with registers r.
current(r) == cpu[r.tp].proc

\* devintr(): a driver or clockintr() takes and releases locks.
devintr(r) == lockUnlock(r)

\* sched(), called with registers r; the caller goes on at l.
sched(c, p, r, l) ==
  /\ Registers(c, r, IF r.noff # 1 THEN "sched locks"
                     ELSE IF r.sie THEN "sched interruptible" ELSE "no")
  /\ Thread(p, [th[p] EXCEPT !.pc = "resumed", !.next = l, !.intena = r.intena])
  /\ sch' = [sch EXCEPT ![c].pc = "after"]

-----------------------------------------------------------------------------
\* usertrap(): p traps at user address a.  uservec loads tp from the trapframe;
\* usertrap redirects traps, saves sepc and, for a system call, steps over the
\* ecall and enables interrupts.  A timer interrupt yields twice, any other trap
\* once.
usertrap(c, p, a, kind) ==
  LET r0 == trapTo(cpu[c], User(a))
      r1 == [r0 EXCEPT !.tp = trapframe[p].hartid, !.stvec = "kernelvec"]
      isCall == kind = "syscall"
      back == IF isCall THEN (a + 1) % Cardinality(Addrs) ELSE a
  IN  /\ At(c, p, {"user"})
      /\ Registers(c, IF isCall THEN [r1 EXCEPT !.sie = TRUE] ELSE devintr(r1),
                   IF r0.stvec # "uservec" THEN "kerneltrap: not from supervisor mode"
                   ELSE IF r0.spp # "U" THEN "usertrap: not from user mode" ELSE "no")
      /\ trapframe' = [trapframe EXCEPT ![current(r1)].epc = back]
      /\ due' = [due EXCEPT ![p] = User(back)]
      /\ Goto(p, CASE isCall -> "syscall" [] kind = "timer" -> "yield2"
                   [] OTHER -> "yield")
      /\ UNCHANGED <<sch, queueVars>>

-----------------------------------------------------------------------------
(* A system call, interrupts enabled.                                      *)

\* myproc(): the CPU is looked up, then its process, with interrupts off.
myproc(c, p) ==
  /\ \/ /\ At(c, p, {"syscall"})
        /\ Registers(c, push_off(cpu[c]), "no")
        /\ Thread(p, [th[p] EXCEPT !.pc = "mycpu", !.me = cpu[c].tp])
     \/ /\ At(c, p, {"mycpu"})
        /\ Registers(c, pop_off(cpu[c]), popPanic(cpu[c]))
        /\ Thread(p, [th[p] EXCEPT !.pc = "syscall", !.me = Null])
  /\ UNCHANGED <<sch, userVars, queueVars>>

\* The system call takes a lock and releases it.
acquire(c, p) ==
  /\ At(c, p, {"syscall", "relock"})
  /\ Registers(c, push_off(cpu[c]), "no")
  /\ Goto(p, "locked")
  /\ UNCHANGED <<sch, userVars, queueVars>>

release(c, p) ==
  /\ At(c, p, {"locked"})
  /\ Registers(c, pop_off(cpu[c]), popPanic(cpu[c]))
  /\ Goto(p, "syscall")
  /\ UNCHANGED <<sch, userVars, queueVars>>

\* Mutant: lk is not released.
lockHandover_KeepsLock(r) == push_off(r)

\* acquire(&p->lock), then release(lk).
lockHandover(r) == pop_off(push_off(r))

\* sleep(chan, lk): p->lock is taken, lk released, the CPU given up.
sleep(c, p) ==
  /\ At(c, p, {"locked"})
  /\ plock[p] = NoCPU /\ plock' = [plock EXCEPT ![p] = c]
  /\ asleep' = asleep \cup {p}
  /\ sched(c, p, lockHandover(cpu[c]), "relock")
  /\ UNCHANGED <<ready, userVars>>

\* The system call returns to usertrap, which calls yield.
sysReturn(c, p) ==
  /\ At(c, p, {"syscall"})
  /\ Goto(p, "yield")
  /\ UNCHANGED <<cpu, panicked, sch, userVars, queueVars>>

-----------------------------------------------------------------------------
(* yield, and the return of sched                                          *)

\* Where the three calls of yield return to: usertrap has another one to make
\* for a timer interrupt, usertrapret, the end of kerneltrap.
YieldReturn == [yield2 |-> "yield", yield |-> "ret", kyield |-> "kret"]

\* yield(): under p->lock, p goes back into the tree, or keeps the CPU.
yield(c, p) ==
  LET r == push_off(cpu[c])
      l == YieldReturn[th[p].pc]
  IN  /\ At(c, p, DOMAIN YieldReturn)
      /\ plock[p] = NoCPU
      /\ \/ /\ plock' = [plock EXCEPT ![p] = c]
            /\ ready' = ready \cup {p}
            /\ sched(c, p, r, l)
         \/ /\ Registers(c, pop_off(r), "no")
            /\ Goto(p, l)
            /\ UNCHANGED <<sch, plock, ready>>
      /\ UNCHANGED <<asleep, userVars>>

\* Mutant: intena is what the other threads have left.
ownIntena_Not(r, t) == r

\* mycpu()->intena = intena
ownIntena(r, t) == [r EXCEPT !.intena = t.intena]

\* Back from swtch, on whichever CPU: mycpu()->intena is set, p->lock released.
resumed(c, p) ==
  LET r == ownIntena(cpu[c], th[p])
  IN  /\ At(c, p, {"resumed"})
      /\ Registers(c, pop_off(r), popPanic(r))
      /\ plock' = [plock EXCEPT ![p] = NoCPU]
      /\ Goto(p, th[p].next)
      /\ UNCHANGED <<sch, ready, asleep, userVars>>

\* forkret(): the first step of a process, with p->lock held by the scheduler.
forkret(c, p) ==
  /\ At(c, p, {"forkret"})
  /\ Registers(c, pop_off(cpu[c]), popPanic(cpu[c]))
  /\ plock' = [plock EXCEPT ![current(cpu[c])] = NoCPU]
  /\ Goto(p, "ret")
  /\ UNCHANGED <<sch, ready, asleep, userVars>>

-----------------------------------------------------------------------------
(* usertrapret                                                             *)

\* Mutant: interrupts stay as they are.
intr_off_Not(r) == r

intr_off(r) == [r EXCEPT !.sie = FALSE]

\* p = myproc(), then intr_off().
retOff(c, p) ==
  /\ At(c, p, {"ret"})
  /\ Registers(c, intr_off(cpu[c]), "no")
  /\ Thread(p, [th[p] EXCEPT !.pc = "retvec", !.me = current(cpu[c])])
  /\ UNCHANGED <<sch, userVars, queueVars>>

\* Traps go to uservec from here on.
retVec(c, p) ==
  /\ At(c, p, {"retvec"})
  /\ Registers(c, [cpu[c] EXCEPT !.stvec = "uservec"], "no")
  /\ Goto(p, "retuser")
  /\ UNCHANGED <<sch, userVars, queueVars>>

\* Mutant: the trapframe keeps the hartid it has.
savedHartid_Stale(c, q) == trapframe[q].hartid

\* kernel_hartid = r_tp().
savedHartid(c, q) == cpu[c].tp

\* The rest of usertrapret: the hartid for the next trap, sstatus, sepc, sret.
retUser(c, p) ==
  LET q == th[p].me
      r == [cpu[c] EXCEPT !.spp = "U", !.spie = TRUE, !.sepc = User(trapframe[q].epc)]
  IN  /\ At(c, p, {"retuser"})
      /\ trapframe' = [trapframe EXCEPT ![q].hartid = savedHartid(c, q)]
      /\ Registers(c, sret(r), "no")
      /\ Thread(p, [th[p] EXCEPT !.pc = "user", !.me = Null])
      /\ UNCHANGED <<due, sch, queueVars>>

-----------------------------------------------------------------------------
(* kerneltrap                                                              *)

Interruptible(c) == panicked = "no" /\ cpu[c].mode = "S" /\ cpu[c].sie

\* The registers when kerneltrap, entered at location l, has called devintr, and
\* the panic for a trap that went astray.
kernelEntry(c, l) == devintr(trapTo(cpu[c], l))
entryPanic(r) ==
  IF r.stvec # "kernelvec" THEN "usertrap: not from user mode"
  ELSE IF r.spp # "S" THEN "kerneltrap: not from supervisor mode"
  ELSE IF r.sie THEN "kerneltrap: interrupts enabled" ELSE "no"

\* A timer interrupt in the thread of p: kerneltrap saves the registers and
\* calls yield.
kernelTimer(c, p) ==
  LET r == kernelEntry(c, Kern(th[p].pc))
  IN  /\ Interruptible(c)
      /\ At(c, p, {th[p].pc}) /\ current(cpu[c]) # Null
      /\ Registers(c, r, entryPanic(r))
      /\ Thread(p, [th[p] EXCEPT !.pc = "kyield", !.trap =
                      [sepc |-> r.sepc, spp |-> r.spp, spie |-> r.spie]])
      /\ UNCHANGED <<sch, userVars, queueVars>>

\* A device interrupt in kernel code, or any in the scheduler thread, where
\* myproc() is 0: back to where it came from at once.
kernelDevice(c) ==
  LET l == IF sch[c].pc = "running" THEN th[sch[c].p].pc ELSE "scheduler"
      r == kernelEntry(c, Kern(l))
  IN  /\ Interruptible(c)
      /\ Registers(c, sret(r), entryPanic(r))
      /\ sch' = [sch EXCEPT ![c].pc = IF @ = "wfi" THEN "loop" ELSE @]
      /\ UNCHANGED <<th, userVars, queueVars>>

\* Where sret takes the thread of a process ("lost": to a user address, in
\* supervisor mode).
Target(r) ==
  IF r.spp = "U" THEN "user" ELSE IF r.sepc[1] = "kernel" THEN r.sepc[2] ELSE "lost"

\* Mutant: sepc is what the last trap on this CPU has left.
restored_KeepsSepc(c, t) ==
  [cpu[c] EXCEPT !.spp = t.spp, !.spie = t.spie, !.sie = FALSE]

\* w_sepc(sepc), w_sstatus(sstatus)
restored(c, t) ==
  [cpu[c] EXCEPT !.sepc = t.sepc, !.spp = t.spp, !.spie = t.spie, !.sie = FALSE]

\* The end of kerneltrap, and sret.
kret(c, p) ==
  LET r == restored(c, th[p].trap)
  IN  /\ At(c, p, {"kret"})
      /\ Registers(c, sret(r), "no")
      /\ Goto(p, Target(r))
      /\ UNCHANGED <<sch, userVars, queueVars>>

-----------------------------------------------------------------------------
(* scheduler                                                               *)

\* The outer loop: intr_on().
loop(c) ==
  /\ SchedulerAt(c, "loop")
  /\ Registers(c, [cpu[c] EXCEPT !.sie = TRUE], "no")
  /\ sch' = [sch EXCEPT ![c].pc = "pick", ![c].found = FALSE]
  /\ UNCHANGED <<th, userVars, queueVars>>

\* retrieveProcess(), under tree->lock.
pick(c) ==
  /\ SchedulerAt(c, "pick")
  /\ Registers(c, lockUnlock(cpu[c]), "no")
  /\ \E p \in ready : /\ ready' = ready \ {p}
                      /\ sch' = [sch EXCEPT ![c].pc = "lock", ![c].p = p]
  /\ UNCHANGED <<th, userVars, asleep, plock>>

\* The tree is empty: look again, or intr_on() and wfi.
idle(c) ==
  LET r == lockUnlock(cpu[c])
      f == sch[c].found
  IN  /\ SchedulerAt(c, "pick")
      /\ ready = {}
      /\ Registers(c, IF f THEN r ELSE [r EXCEPT !.sie = TRUE], "no")
      /\ sch' = [sch EXCEPT ![c].pc = IF f THEN "loop" ELSE "wfi"]
      /\ UNCHANGED <<th, userVars, queueVars>>

\* Mutant: tickslock is not released.
startTick_KeepsLock(r) == push_off(r)

\* startTick and endTick are read under tickslock.
startTick(r) == lockUnlock(r)

\* acquire(&p->lock), startTick, c->proc = p, swtch.
switchTo(c) ==
  LET p == sch[c].p
  IN  /\ SchedulerAt(c, "lock")
      /\ plock[p] = NoCPU /\ plock' = [plock EXCEPT ![p] = c]
      /\ Registers(c, [startTick(push_off(cpu[c])) EXCEPT !.proc = p], "no")
      /\ sch' = [sch EXCEPT ![c].pc = "running"]
      /\ UNCHANGED <<th, userVars, ready, asleep>>

\* c->proc = 0
cleared(r) == [r EXCEPT !.proc = Null]

\* Back from swtch: endTick, c->proc = 0, release(&p->lock).
switchedBack(c) ==
  LET r == cleared(lockUnlock(cpu[c]))
  IN  /\ SchedulerAt(c, "after")
      /\ plock' = [plock EXCEPT ![sch[c].p] = NoCPU]
      /\ Registers(c, pop_off(r), popPanic(r))
      /\ sch' = [sch EXCEPT ![c] = [pc |-> "pick", p |-> Null, found |-> TRUE]]
      /\ UNCHANGED <<th, userVars, ready, asleep>>

\* wakeup() by some other thread or handler.
wakeup(p) ==
  /\ panicked = "no"
  /\ p \in asleep /\ plock[p] = NoCPU
  /\ asleep' = asleep \ {p}
  /\ ready' = ready \cup {p}
  /\ UNCHANGED <<cpu, panicked, sch, th, userVars, plock>>

-----------------------------------------------------------------------------
\* trapinithart, and the fields of processes that have been forked: the copied
\* trapframe holds the hartid of the CPU that the parent was on.
Init ==
  LET boot == [sepc |-> Kern("boot"), spp |-> "S", spie |-> FALSE]
  IN  /\ cpu = [c \in CPUs |->
                  [stvec |-> "kernelvec", mode |-> "S", sie |-> FALSE, spp |-> "S",
                   spie |-> FALSE, sepc |-> Kern("boot"), tp |-> c, noff |-> 0,
                   intena |-> FALSE, proc |-> Null]]
      /\ sch = [c \in CPUs |-> [pc |-> "loop", p |-> Null, found |-> FALSE]]
      /\ th = [p \in Procs |-> [pc |-> "forkret", next |-> "forkret", trap |-> boot,
                                intena |-> FALSE, me |-> Null]]
      /\ trapframe \in [Procs -> [epc : {0}, hartid : CPUs]]
      /\ due = [p \in Procs |-> User(0)]
      /\ ready = Procs /\ asleep = {}
      /\ plock = [p \in Procs |-> NoCPU]
      /\ panicked = "no"

Next ==
  \/ \E c \in CPUs, p \in Procs :
       \/ \E a \in Addrs, kind \in {"syscall", "timer", "device"} : usertrap(c, p, a, kind)
       \/ myproc(c, p) \/ acquire(c, p) \/ release(c, p) \/ sleep(c, p) \/ sysReturn(c, p)
       \/ yield(c, p) \/ resumed(c, p) \/ forkret(c, p)
       \/ retOff(c, p) \/ retVec(c, p) \/ retUser(c, p)
       \/ kernelTimer(c, p) \/ kret(c, p)
  \/ \E c \in CPUs : \/ loop(c) \/ pick(c) \/ idle(c) \/ switchTo(c) \/ switchedBack(c)
                     \/ kernelDevice(c)
  \/ \E p \in Procs : wakeup(p)

Spec == Init /\ [][Next]_vars

-----------------------------------------------------------------------------
(* Properties.                                                             *)

Labels == {"user", "syscall", "mycpu", "locked", "relock", "yield2", "yield", "kyield",
           "resumed", "forkret", "ret", "retvec", "retuser", "kret",
           "scheduler", "boot", "lost"}
Locations == {User(a) : a \in Addrs} \cup {Kern(l) : l \in Labels}

\* noff: between two steps a CPU holds at most one lock.
InterruptsTypeOK ==
  /\ cpu \in [CPUs -> [stvec : {"uservec", "kernelvec"}, mode : {"U", "S"},
                       sie : BOOLEAN, spp : {"U", "S"}, spie : BOOLEAN,
                       sepc : Locations, tp : CPUs, noff : 0..1, intena : BOOLEAN,
                       proc : Procs \cup {Null}]]
  /\ sch \in [CPUs -> [pc : {"loop", "pick", "lock", "running", "after", "wfi"},
                       p : Procs \cup {Null}, found : BOOLEAN]]
  /\ th \in [Procs -> [pc : Labels, next : Labels, intena : BOOLEAN,
                       trap : [sepc : Locations, spp : {"U", "S"}, spie : BOOLEAN],
                       me : Procs \cup {Null} \cup CPUs]]
  /\ trapframe \in [Procs -> [epc : Addrs, hartid : CPUs]]
  /\ due \in [Procs -> Locations]
  /\ ready \subseteq Procs /\ asleep \subseteq Procs
  /\ plock \in [Procs -> CPUs \cup {NoCPU}]

\* No check of usertrap, kerneltrap, sched or pop_off fires: interrupts are never
\* left on or off by one thread for the next one on the same CPU, and noff is
\* right wherever a thread gives up the CPU.
NoTrapPanic == panicked = "no"

\* A trap that can be taken goes to the right vector: uservec in user mode, and
\* kernelvec in the kernel wherever interrupts are enabled, although
\* usertrapret changes stvec while it is still in the kernel.
VectorMatchesMode ==
  \A c \in CPUs : IF cpu[c].mode = "U" THEN cpu[c].stvec = "uservec"
                  ELSE cpu[c].sie => cpu[c].stvec = "kernelvec"

\* A thread knows who and where it is, also when an interrupt has moved it to
\* another CPU or its trapframe is a copy: in the kernel tp is the CPU it runs
\* on, myproc() is the process whose stack it is on, and uservec will find the
\* right hartid. In the scheduler thread, wherever an interrupt can be taken,
\* myproc() is nobody, so that the handler cannot yield on behalf of the process
\* that has just been switched from.
OwnIdentity ==
  \A c \in CPUs :
    /\ cpu[c].mode = "S" => cpu[c].tp = c
    /\ sch[c].pc # "running" /\ cpu[c].sie => cpu[c].proc = Null
    /\ sch[c].pc = "running" => cpu[c].proc = sch[c].p
    /\ \A p \in Procs :
         /\ At(c, p, {"mycpu"}) => cpu[th[p].me].proc = p
         /\ At(c, p, {"retvec", "retuser"}) => th[p].me = p
         /\ At(c, p, {"user"}) => trapframe[p].hartid = c

\* intena is a property of the thread, not of the CPU (comment of sched): after
\* every switch a system call runs with interrupts enabled, a trap handler with
\* interrupts off, and a CPU idles with interrupts enabled.
InterruptStateKept ==
  \A c \in CPUs, p \in Procs :
    /\ At(c, p, {"syscall", "relock"}) => cpu[c].sie
    /\ At(c, p, {"kyield", "kret", "yield2"}) => ~cpu[c].sie
    /\ sch[c].pc = "wfi" => cpu[c].sie

\* Interrupted code goes on where it was, whatever else has trapped on the CPU
\* it comes back to: a user program at the instruction that is due, in user
\* mode; kernel code where kerneltrap interrupted it.
ResumesWhereInterrupted ==
  [][\A p \in Procs :
       /\ th[p].pc # "user" /\ th'[p].pc = "user" =>
            \E c \in CPUs : /\ sch[c].p = p /\ cpu'[c].mode = "U"
                            /\ cpu'[c].sepc = due[p]
       /\ th[p].pc = "kret" /\ th'[p].pc # "kret" =>
            Kern(th'[p].pc) = th[p].trap.sepc]_vars
=============================================================================
