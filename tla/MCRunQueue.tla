----------------------------- MODULE MCRunQueue -----------------------------
(* Model-checking instance of the ready set.  The slots are interchangeable: *)
(* no definition of RunQueue orders them or names one of them.               *)
EXTENDS RunQueue, TLC

Symmetry == Permutations(Procs)
=============================================================================
