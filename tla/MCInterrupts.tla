---------------------------- MODULE MCInterrupts ----------------------------
(* Model-checking instance of the trap registers.                          *)
EXTENDS Interrupts, TLC

Symmetry == Permutations(Procs)

\* A state without what is set before it is read again: the trap registers of a
\* CPU outside the code that returns from a trap, intena while no lock is held,
\* the locals of sched and kerneltrap outside them, the hartid of a process in
\* the kernel.
LiveView ==
  LET returning(c) ==
        \E p \in Procs : At(c, p, {"user", "resumed", "kyield", "kret"})
      inHandler(t) == t.pc \in {"kyield", "kret"} \/ (t.pc = "resumed" /\ t.next = "kret")
      liveRegs(c) ==
        [cpu[c] EXCEPT !.intena = @ /\ cpu[c].noff > 0,
                       !.sepc = IF returning(c) THEN @ ELSE Null,
                       !.spp = IF returning(c) THEN @ ELSE Null,
                       !.spie = IF returning(c) THEN @ ELSE Null]
      liveThread(t) ==
        [t EXCEPT !.next = IF t.pc = "resumed" THEN @ ELSE Null,
                  !.intena = IF t.pc = "resumed" THEN @ ELSE Null,
                  !.trap = IF inHandler(t) THEN @ ELSE Null]
  IN  <<[c \in CPUs |-> liveRegs(c)], sch, [p \in Procs |-> liveThread(th[p])],
        [p \in Procs |-> <<trapframe[p].epc,
                           IF th[p].pc = "user" THEN trapframe[p].hartid ELSE Null>>],
        due, queueVars, panicked>>
=============================================================================
