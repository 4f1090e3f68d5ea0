------------------------------- MODULE Handoff -------------------------------
(* What the semaphores of package sync promise under GopherJS: a permit    *)
(* released while somebody waits goes to the first in line, and nobody     *)
(* else can take it; a permit that is free is never waited for.            *)
EXTENDS Naturals, Sequences

CONSTANTS Waiter, Permits

VARIABLES free, line

HandoffInit == free = Permits /\ line = <<>>

Take == free > 0 /\ free' = free - 1 /\ UNCHANGED line

(* Joining the line at its end, or at its head (lifo).                     *)
Wait(w) ==
    /\ free = 0
    /\ line' = Append(line, w) \/ line' = <<w>> \o line
    /\ UNCHANGED free

Give == line = <<>> /\ free' = free + 1 /\ UNCHANGED line
Pass == line # <<>> /\ line' = Tail(line) /\ UNCHANGED free

HandoffNext == Take \/ Give \/ Pass \/ \E w \in Waiter : Wait(w)

HandoffSpec == HandoffInit /\ [][HandoffNext]_<<free, line>>
=============================================================================
