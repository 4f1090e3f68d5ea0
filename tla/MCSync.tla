------------------------------- MODULE MCSync -------------------------------
(* Model values for Cond and the Semaphore below it.                       *)
EXTENDS Cond, TLC

CONSTANTS m, g1, g2, g3

Symmetry == Permutations({g1, g2, g3})
=============================================================================
