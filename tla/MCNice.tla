------------------------------- MODULE MCNice -------------------------------
(* Model-checking instances of the nice values: the ends of the documented *)
(* range, and the values just outside it.                                  *)
EXTENDS Nice

SmallNiceValues == {-1, 0, 1, 30, 31}
=============================================================================
