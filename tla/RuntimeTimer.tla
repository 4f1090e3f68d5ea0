------------------------------ MODULE RuntimeTimer ------------------------------
(* What package time asks of the timers of a run time: Stop and Reset tell *)
(* whether they came before the timer expired, and each expiry starts its  *)
(* function once.                                                          *)
CONSTANT Timer

VARIABLES
    made,     \* timers that exist
    periodic, \* those that expire again and again
    pending,  \* those that are to expire
    starts,   \* parity of the starts of the function of each
    answer    \* what the last Stop or Reset said

Create(t) ==
    /\ t \notin made
    /\ made' = made \cup {t}
    /\ periodic' \in {periodic, periodic \cup {t}}
    /\ pending' = pending \cup {t}
    /\ UNCHANGED <<starts, answer>>

Change(t, left) ==
    /\ t \in made
    /\ answer' = (t \in pending)
    /\ pending' = (pending \ {t}) \cup left
    /\ UNCHANGED <<made, periodic, starts>>

Expire(t) ==
    /\ t \in pending
    /\ starts' = [starts EXCEPT ![t] = ~@]
    /\ pending' = IF t \in periodic THEN pending ELSE pending \ {t}
    /\ UNCHANGED <<made, periodic, answer>>

TimerInit ==
    /\ made = {} /\ pending = {} /\ answer = FALSE
    /\ periodic = {} /\ starts = [t \in Timer |-> FALSE]
TimerNext == \E t \in Timer : Create(t) \/ Change(t, {}) \/ Change(t, {t}) \/ Expire(t)
TimerSpec == TimerInit /\ [][TimerNext]_<<made, periodic, pending, starts, answer>>
================================================================================
