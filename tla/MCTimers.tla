-------------------------------- MODULE MCTimers --------------------------------
(* Model values for Timers and Goroutines: Main, a few goroutines that it  *)
(* and the callbacks start, and a timer.  Goroutines other than Main are   *)
(* interchangeable.                                                        *)
EXTENDS Timers, TLC

CONSTANTS m, g1, g2, t1

MCGoroutine == {m, g1, g2}
Symmetry    == Permutations({g1, g2})
================================================================================
