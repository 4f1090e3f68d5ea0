------------------------------ MODULE TimersProofs ------------------------------
(* Proofs about the timers of package time, for any number of them.  The   *)
(* theorems about the scheduler hold in a program with timers, because its *)
(* steps are steps of the scheduler.                                       *)
EXTENDS Timers, GoroutinesProofs

Ids == (1 .. MaxIds) \cup {NoTimeout}

TimerTypes ==
    /\ active \subseteq Timer
    /\ timeout \in [Timer -> Ids]
    /\ host \subseteq (1 .. MaxIds) \X Timer

(* Two timers never hold the id of one host timer, or Stop would clear the *)
(* timer of another; and what the host has is what the flags say.          *)
OwnIds == \A t, u \in Timer : timeout[t] = timeout[u] /\ timeout[t] # NoTimeout => t = u
Armed  == \A t \in Timer, i \in Ids : <<i, t>> \in host <=> t \in active \ far /\ i = timeout[t]

(* Only timers that were made are active.                                  *)
Existing == active \subseteq made

TimersInv == TimerTypes /\ OwnIds /\ Armed

USE TimerAssumption

-----------------------------------------------------------------------------
(* A new id is a number that no pending host timer and no other timer has. *)
LEMMA FreshIsNew ==
    ASSUME TimerTypes, NEW t \in Timer, FreshIds(t) # {}
    PROVE  /\ Fresh(t) \in 1 .. MaxIds
           /\ \A h \in host : h[1] # Fresh(t)
           /\ \A u \in Timer \ {t} : timeout[u] # Fresh(t)
<1>1. Fresh(t) \in FreshIds(t)
  BY DEF Fresh
<1> QED
  BY <1>1 DEF FreshIds

(* Clearing the id that t holds removes the host timer of t and no other.  *)
LEMMA ClearsItsOwn ==
    ASSUME TimersInv, NEW t \in Timer
    PROVE  \A u \in Timer, i \in Ids :
               <<i, u>> \in host \ Cleared(t) <=> u # t /\ <<i, u>> \in host
<1> SUFFICES ASSUME NEW u \in Timer, NEW i \in Ids, <<i, u>> \in host
             PROVE  <<i, u>> \in Cleared(t) <=> u = t
  BY DEF Cleared
<1>1. i = timeout[u] /\ i # NoTimeout /\ <<i, u>>[1] = i
  BY DEF TimersInv, TimerTypes, Armed
<1>2. <<i, u>> \in Cleared(t) <=> timeout[u] = timeout[t]
  BY <1>1 DEF Cleared
<1> QED
  BY <1>1, <1>2 DEF TimersInv, OwnIds

(* startTimer restores the invariant when no host timer of t is left.      *)
LEMMA ArmStep ==
    ASSUME TimersInv, NEW t \in Timer, NEW distant \in BOOLEAN,
           NEW left \in SUBSET host, Arm(t, distant, left),
           \A u \in Timer, i \in Ids : <<i, u>> \in left <=> u # t /\ <<i, u>> \in host
    PROVE  TimersInv'
<1> USE DEF TimersInv
<1>1. CASE distant
  <2>1. active' = active \cup {t} /\ far' = far \cup {t} /\ host' = left /\ timeout' = timeout
    BY <1>1 DEF Arm
  <2>2. TimerTypes' /\ OwnIds'
    BY <2>1 DEF TimerTypes, OwnIds
  <2>3. Armed'
    BY <2>1 DEF Armed, TimerTypes
  <2> QED
    BY <2>2, <2>3
<1>2. CASE ~distant
  <2> DEFINE n == Fresh(t)
  <2>1. /\ n \in 1 .. MaxIds
        /\ \A u \in Timer \ {t} : timeout[u] # n
    BY <1>2, FreshIsNew DEF Arm
  <2>2. /\ active' = active \cup {t} /\ far' = far \ {t}
        /\ timeout' = [timeout EXCEPT ![t] = n]
        /\ host' = left \cup {<<n, t>>}
    BY <1>2 DEF Arm
  <2> HIDE DEF n
  <2>3. TimerTypes'
    BY <2>1, <2>2 DEF TimerTypes, Ids
  <2>4. \A u \in Timer : timeout'[u] = IF u = t THEN n ELSE timeout[u]
    BY <2>2 DEF TimerTypes
  <2>5. OwnIds'
    BY <2>1, <2>4 DEF OwnIds
  <2>6. ASSUME NEW u \in Timer, NEW i \in Ids
        PROVE  <<i, u>> \in host' <=> u \in active' \ far' /\ i = timeout'[u]
    <3>1. <<i, u>> = <<n, t>> <=> i = n /\ u = t
      OBVIOUS
    <3>2. <<i, u>> \in host' <=> (u # t /\ <<i, u>> \in host) \/ (i = n /\ u = t)
      BY <2>2, <3>1
    <3>3. CASE u = t
      BY <2>2, <2>4, <3>2, <3>3
    <3>4. CASE u # t
      BY <2>2, <2>4, <3>2, <3>4 DEF Armed
    <3> QED
      BY <3>3, <3>4
  <2>7. Armed'
    BY <2>6 DEF Armed
  <2> QED
    BY <2>3, <2>5, <2>7
<1> QED
  BY <1>1, <1>2

(* So does stopTimer, and a host timer that fires once.                    *)
LEMMA DisarmStep ==
    ASSUME TimersInv, NEW t \in Timer, active' = active \ {t}, UNCHANGED <<timeout, far>>,
           host' \in SUBSET host,
           \A u \in Timer, i \in Ids : <<i, u>> \in host' <=> u # t /\ <<i, u>> \in host
    PROVE  TimersInv'
<1> USE DEF TimersInv
<1>1. TimerTypes' /\ OwnIds'
  BY DEF TimerTypes, OwnIds
<1>2. Armed'
  BY DEF Armed
<1> QED
  BY <1>1, <1>2

(* At first no timer exists.                                               *)
LEMMA InitTimers == TimerInit => TimersInv /\ Existing
BY DEF TimerInit, TimersInv, TimerTypes, OwnIds, Armed, Existing, Ids

(* What h is, when it fires: the host timer of an active t, and no other   *)
(* host timer is t's.                                                      *)
LEMMA FiresItsOwn ==
    ASSUME TimersInv, NEW h \in host
    PROVE  /\ h[2] \in Timer /\ h[2] \in active
           /\ \A u \in Timer, i \in Ids :
                  <<i, u>> \in host \ {h} <=> u # h[2] /\ <<i, u>> \in host
<1>1. /\ h[2] \in Timer /\ h[1] \in Ids /\ h = <<h[1], h[2]>>
  BY DEF TimersInv, TimerTypes, Ids
<1>2. h[2] \in active /\ h[1] = timeout[h[2]]
  BY <1>1 DEF TimersInv, Armed
<1>3. ASSUME NEW u \in Timer, NEW i \in Ids, <<i, u>> \in host
      PROVE  <<i, u>> = h <=> u = h[2]
  BY <1>1, <1>2, <1>3 DEF TimersInv, Armed
<1> QED
  BY <1>1, <1>2, <1>3

(* Every step keeps the invariant.                                         *)
LEMMA TimersStep ==
    ASSUME TimersInv, Existing, [TimerNext]_<<vars, timerVars>>
    PROVE  TimersInv' /\ Existing'
<1>1. CASE UNCHANGED timerVars
  BY <1>1 DEF timerVars, TimersInv, TimerTypes, OwnIds, Armed, Existing, Ids
<1>2. ASSUME NEW t \in Timer, NEW ticks \in BOOLEAN, NEW distant \in BOOLEAN,
             NewTimer(t, ticks, distant)
      PROVE  TimersInv' /\ Existing'
  <2>1. t \notin active /\ Arm(t, distant, host) /\ made' = made \cup {t}
    BY <1>2 DEF NewTimer, Existing
  <2>2. \A u \in Timer, i \in Ids : <<i, u>> \in host <=> u # t /\ <<i, u>> \in host
    BY <2>1 DEF TimersInv, Armed
  <2>3. TimersInv'
    BY <2>1, <2>2, ArmStep
  <2> QED
    BY <2>1, <2>3 DEF Arm, Existing
<1>3. ASSUME NEW t \in Timer, Stop(t) PROVE TimersInv' /\ Existing'
  <2>1. /\ active' = active \ {t} /\ UNCHANGED <<made, timeout, far>>
        /\ host' = host \ Cleared(t)
    BY <1>3 DEF Stop
  <2>2. TimersInv'
    BY <2>1, ClearsItsOwn, DisarmStep
  <2> QED
    BY <2>1, <2>2 DEF Existing
<1>4. ASSUME NEW t \in Timer, NEW distant \in BOOLEAN, Reset(t, distant)
      PROVE  TimersInv' /\ Existing'
  <2>1. t \in made /\ Arm(t, distant, host \ Cleared(t)) /\ made' = made
    BY <1>4 DEF Reset
  <2>2. TimersInv'
    BY <2>1, ClearsItsOwn, ArmStep
  <2> QED
    BY <2>1, <2>2 DEF Arm, Existing
<1>5. ASSUME NEW h \in host, NEW g \in Goroutine, Fire(h, g)
      PROVE  TimersInv' /\ Existing'
  <2> DEFINE t == h[2]
  <2>1. /\ t \in Timer /\ t \in active
        /\ \A u \in Timer, i \in Ids :
               <<i, u>> \in host \ {h} <=> u # t /\ <<i, u>> \in host
    BY FiresItsOwn
  <2>2. made' = made
    BY <1>5 DEF Fire
  <2>3. CASE t \in periodic
    <3>1. Arm(t, FALSE, host \ {h})
      BY <1>5, <2>3 DEF Fire
    <3>2. TimersInv'
      BY <2>1, <3>1, ArmStep
    <3> QED
      BY <2>1, <2>2, <3>1, <3>2 DEF Arm, Existing
  <2>4. CASE t \notin periodic
    <3>1. active' = active \ {t} /\ host' = host \ {h} /\ UNCHANGED <<timeout, far>>
      BY <1>5, <2>4 DEF Fire
    <3> HIDE DEF t
    <3>2. TimersInv'
      BY <2>1, <3>1, DisarmStep
    <3> QED
      BY <2>2, <3>1, <3>2 DEF Existing
  <2> QED
    BY <2>3, <2>4
<1> QED
  BY <1>1, <1>2, <1>3, <1>4, <1>5 DEF TimerNext

-----------------------------------------------------------------------------
(* The flag of a timer and the host agree, whatever is made, stopped and   *)
(* reset in whatever order.                                                *)
THEOREM ActiveTimersArmed == TimerSpec => []ActiveIsArmed
<1>1. TimerInit => TimersInv /\ Existing
  BY InitTimers
<1>2. TimersInv /\ Existing /\ [TimerNext]_<<vars, timerVars>> => TimersInv' /\ Existing'
  BY TimersStep
<1>3. TimersInv => ActiveIsArmed
  <2> SUFFICES ASSUME TimersInv, NEW t \in Timer
               PROVE  {h[1] : h \in {x \in host : x[2] = t}}
                        = IF t \in active \ far THEN {timeout[t]} ELSE {}
    BY DEF ActiveIsArmed
  <2>1. \A h \in host : h[2] = t => h = <<h[1], t>> /\ h[1] \in Ids
    BY DEF TimersInv, TimerTypes, Ids
  <2>2. \A h \in host : h[2] = t => t \in active \ far /\ h[1] = timeout[t]
    BY <2>1 DEF TimersInv, Armed
  <2>3. timeout[t] \in Ids
    BY DEF TimersInv, TimerTypes
  <2>4. t \in active \ far => <<timeout[t], t>> \in host
    BY <2>3 DEF TimersInv, Armed
  <2> QED
    BY <2>2, <2>4
<1> QED
  BY <1>1, <1>2, <1>3, PTL DEF TimerSpec

(* What Stop and Reset answer, and when the function of a timer is         *)
(* started, is what package time is promised.                              *)
THEOREM ImplementsRuntimeTimer == TimerSpec => RefinesRuntimeTimer
<1> DEFINE abstract == <<made, periodic, active, starts, answer>>
<1>1. TimerInit => Promise!TimerInit
  BY DEF TimerInit, Promise!TimerInit
<1>2. TimersInv /\ [TimerNext]_<<vars, timerVars>> => [Promise!TimerNext]_abstract
  <2> SUFFICES ASSUME TimersInv, [TimerNext]_<<vars, timerVars>>
               PROVE  Promise!TimerNext \/ UNCHANGED abstract
    OBVIOUS
  <2>1. CASE UNCHANGED timerVars
    BY <2>1 DEF timerVars
  <2>2. ASSUME NEW t \in Timer, NEW ticks \in BOOLEAN, NEW distant \in BOOLEAN,
               NewTimer(t, ticks, distant)
        PROVE  Promise!Create(t)
    BY <2>2 DEF NewTimer, Arm, Promise!Create
  <2>3. ASSUME NEW t \in Timer, Stop(t) PROVE Promise!Change(t, {})
    BY <2>3 DEF Stop, Promise!Change
  <2>4. ASSUME NEW t \in Timer, NEW distant \in BOOLEAN, Reset(t, distant)
        PROVE  Promise!Change(t, {t})
    BY <2>4 DEF Reset, Arm, Promise!Change
  <2>5. ASSUME NEW h \in host, NEW g \in Goroutine, Fire(h, g)
        PROVE  h[2] \in Timer /\ Promise!Expire(h[2])
    <3>1. h[2] \in Timer /\ h[2] \in active
      BY FiresItsOwn
    <3>2. CASE h[2] \in periodic
      <4>1. /\ active' = active \cup {h[2]}
            /\ starts' = [starts EXCEPT ![h[2]] = ~@]
            /\ UNCHANGED <<made, periodic, answer>>
        BY <2>5, <3>2 DEF Fire, Arm
      <4> QED
        BY <3>1, <3>2, <4>1 DEF Promise!Expire
    <3>3. CASE h[2] \notin periodic
      <4>1. /\ active' = active \ {h[2]}
            /\ starts' = [starts EXCEPT ![h[2]] = ~@]
            /\ UNCHANGED <<made, periodic, answer>>
        BY <2>5, <3>3 DEF Fire
      <4> QED
        BY <3>1, <3>3, <4>1 DEF Promise!Expire
    <3> QED
      BY <3>2, <3>3
  <2> QED
    BY <2>1, <2>2, <2>3, <2>4, <2>5 DEF TimerNext, Promise!TimerNext
<1>3. TimersInv /\ Existing /\ [TimerNext]_<<vars, timerVars>> => TimersInv' /\ Existing'
  BY TimersStep
<1>4. TimerInit => TimersInv /\ Existing
  BY InitTimers
<1> QED
  BY <1>1, <1>2, <1>3, <1>4, PTL DEF TimerSpec, RefinesRuntimeTimer, Promise!TimerSpec

-----------------------------------------------------------------------------
(* A program with timers is a program of the scheduler.                    *)
THEOREM TimersRefineScheduler == TimerSpec => Spec
<1>1. TimerInit => Init
  BY DEF TimerInit
<1>2. [TimerNext]_<<vars, timerVars>> => [Next]_vars
  <2> SUFFICES ASSUME [TimerNext]_<<vars, timerVars>> PROVE Next \/ UNCHANGED vars
    OBVIOUS
  <2>1. CASE Besides
    BY <2>1, Zenon DEF Besides, Next, EventLoop, GoCode
  <2>2. ASSUME NEW cleared, NEW armed \in BOOLEAN, Rearm(cleared, armed)
        PROVE  Next \/ UNCHANGED vars
    BY <2>2 DEF Rearm, Next, GoCode
  <2>3. ASSUME NEW t \in Timer, NEW ticks \in BOOLEAN, NEW distant \in BOOLEAN,
               NewTimer(t, ticks, distant) \/ Reset(t, distant) \/ Stop(t)
        PROVE  Next \/ UNCHANGED vars
    BY <2>2, <2>3 DEF NewTimer, Reset, Stop
  <2>4. ASSUME NEW h \in host, NEW g \in Goroutine, Fire(h, g)
        PROVE  Next \/ UNCHANGED vars
    <3>1. FireTimer(g, h[2] \in periodic) /\ (h[2] \in periodic) \in BOOLEAN
      BY <2>4 DEF Fire
    <3> QED
      BY <3>1, Zenon DEF Next, EventLoop
  <2>5. CASE UNCHANGED vars
    BY <2>5
  <2> QED
    BY <2>1, <2>3, <2>4, <2>5 DEF TimerNext
<1> QED
  BY <1>1, <1>2, PTL DEF TimerSpec, Spec

(* So the queue, the run timer and the count of awake goroutines are right *)
(* in every program with timers,                                           *)
THEOREM SchedulerWithTimers ==
    TimerSpec => []RunnableOnce /\ []AwakeIsRunnable /\ []NoLostRun /\ []AwakeCount
BY TimersRefineScheduler, QueueCorrect, NoWakeUpLost, RunTimerArmed, AwakeCounted, PTL

(* and no deadlock is reported there while a timer is to fire.             *)
THEOREM DeadlockReportWithTimers ==
    ASSUME HasProcess
    PROVE  TimerSpec => []NoFalseDeadlock
BY TimersRefineScheduler, DeadlockReportIsTrue, PTL
================================================================================
