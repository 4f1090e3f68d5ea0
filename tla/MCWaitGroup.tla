----------------------------- MODULE MCWaitGroup -----------------------------
(* Model values for WaitGroup.                                             *)
EXTENDS WaitGroup, TLC

CONSTANTS m, g1, g2, g3

Symmetry == Permutations({g1, g2, g3})
=============================================================================
