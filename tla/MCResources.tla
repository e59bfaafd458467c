---------------------------- MODULE MCResources ----------------------------
(* Model-checking instance of the resources of processes.                  *)
EXTENDS Resources, TLC

CONSTANTS p1, p2, p3

\* The slots are interchangeable but for the one of the first process.
SlotSymmetry == Permutations(Procs \ {initproc})
=============================================================================
