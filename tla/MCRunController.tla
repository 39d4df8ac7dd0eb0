--------------------------- MODULE MCRunController ---------------------------
(* Small instances of RunController. *)
EXTENDS RunController, TLC
CONSTANTS d1, d2, o1, ls, rm, none

\* Drivers are interchangeable: no action and no safety property names one.
DriverSymmetry == Permutations(Drivers)
=============================================================================
