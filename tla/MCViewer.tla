------------------------------ MODULE MCViewer ------------------------------
(* Model-checking instance of the trace and its viewer.                    *)
EXTENDS Viewer

\* A state without the ticks of a slice that is not going to be printed.
PrintedView ==
  <<cpus, ticks, log, viewVars, at, ran, switching, garbled, intact,
    [c \in CPUs |-> IF slice[c].p \in Logged THEN slice[c]
                    ELSE [slice[c] EXCEPT !.start = 0, !.end = 0]]>>
=============================================================================
