-------------------------- MODULE GoroutinesProofs --------------------------
(* Proofs about the scheduler, for every set of goroutines and every       *)
(* value of the switches and bounds.                                       *)
EXTENDS Goroutines, TLAPS, FiniteSetTheorems, SequenceTheorems

(* What RunnableOnce and AwakeIsRunnable need to be inductive: who sleeps, *)
(* who is awake, and that a goroutine runs only inside $runScheduled.      *)
Shape ==
    /\ \A g \in sleepers : g \in live /\ asleep[g]
    /\ \A g \in crashed : g \in live /\ ~asleep[g]
    /\ \A g \in Goroutine \ live : asleep[g]
    /\ curGoroutine # NoGoroutine => runLoop # "off"

Inv == TypeOK /\ NoLostRun /\ Shape /\ RunnableOnce /\ AwakeIsRunnable

USE GoroutineAssumption, SwitchAssumption, BoundAssumption
USE DEF life, wake, loop, machine, flags, ended, pending

(* The initial state is well typed, and only Main is queued.               *)
LEMMA InitInv == Init => Inv
<1> SUFFICES ASSUME Init PROVE Inv
  OBVIOUS
<1> USE DEF Init
<1>1. \A g \in Goroutine : asleep[g] = (g # Main)
  OBVIOUS
<1>2. TypeOK
  <2>1. callback \in BOOLEAN /\ mainFinished \in BOOLEAN
        /\ checkForDeadlock \in BOOLEAN /\ wrapped \in BOOLEAN
        /\ fatal \in BOOLEAN /\ halted \in BOOLEAN
    BY Zenon
  <2>2. scheduled \in Seq(Goroutine) /\ live \subseteq Goroutine
        /\ sleepers \subseteq Goroutine /\ crashed \subseteq Goroutine
    OBVIOUS
  <2>3. asleep \in [Goroutine -> BOOLEAN] /\ exit \in [Goroutine -> BOOLEAN]
    OBVIOUS
  <2>4. /\ totalGoroutines \in Int /\ awakeGoroutines \in Int
        /\ nextRun \in 0 .. MaxRuns /\ timers \in 0 .. MaxTimers
        /\ exportedFunctions \in 0 .. MaxExports /\ leaked \in 0 .. MaxLeaks
    OBVIOUS
  <2> QED
    BY <2>1, <2>2, <2>3, <2>4, Zenon DEF TypeOK
<1>3. NoLostRun
  BY DEF NoLostRun
<1>4. Shape
  BY <1>1, Zenon DEF Shape
<1>5. DOMAIN scheduled = {1} /\ scheduled[1] = Main
  OBVIOUS
<1>6. RunnableOnce
  BY <1>1, <1>5, Zenon DEF RunnableOnce, Queued
<1>7. AwakeIsRunnable
  BY <1>5, Zenon DEF AwakeIsRunnable, Queued
<1> QED
  BY <1>2, <1>3, <1>4, <1>6, <1>7 DEF Inv

(* Every step keeps the types and the run timer.                           *)
LEMMA TypeStep == Inv /\ [Next]_vars => TypeOK' /\ NoLostRun' /\ Shape'
<1> SUFFICES ASSUME Inv, [Next]_vars PROVE TypeOK' /\ NoLostRun' /\ Shape'
  OBVIOUS
<1> USE DEF Inv, TypeOK, NoLostRun, Shape, RunnableOnce, Queued
<1>1. CASE RunNext BY <1>1 DEF RunNext, Looping
<1>2. CASE LoopEnd BY <1>2 DEF LoopEnd, Looping
<1>3. CASE FireRun BY <1>3 DEF FireRun, Idle
<1>4. CASE CallbackEnter BY <1>4 DEF CallbackEnter
<1>5. CASE CallbackReturn BY <1>5 DEF CallbackReturn
<1>6. ASSUME NEW g \in Goroutine, FireSleep(g) PROVE TypeOK' /\ NoLostRun' /\ Shape'
  BY <1>6 DEF FireSleep, Idle, Schedule, Enqueue, EnterRun
<1>7. ASSUME NEW g \in Goroutine, NEW p \in BOOLEAN, FireTimer(g, p)
      PROVE TypeOK' /\ NoLostRun' /\ Shape'
  BY <1>7 DEF FireTimer, Idle, Spawn, Enqueue, EnterRun
<1>8. ASSUME NEW g \in Goroutine, Go(g) PROVE TypeOK' /\ NoLostRun' /\ Shape'
  BY <1>8 DEF Go, InGo, InCallback, Running, Spawn, Enqueue, EnterRun
<1>9. ASSUME NEW g \in Goroutine, Ready(g) PROVE TypeOK' /\ NoLostRun' /\ Shape'
  BY <1>9 DEF Ready, InGo, InCallback, Running, Schedule, Enqueue, EnterRun
<1>10. ASSUME NEW g \in Goroutine, Goexit(g) PROVE TypeOK' /\ NoLostRun' /\ Shape'
  BY <1>10 DEF Goexit
<1>11. CASE StartTimer BY <1>11 DEF StartTimer
<1>12. CASE StopTimer BY <1>12 DEF StopTimer
<1>13. CASE FuncOf BY <1>13 DEF FuncOf
<1>14. CASE Release BY <1>14 DEF Release
<1>15. CASE Externalize BY <1>15 DEF Externalize
<1>16. CASE MakeFunc BY <1>16 DEF MakeFunc
<1>17. ASSUME NEW g \in Goroutine, Park(g) PROVE TypeOK' /\ NoLostRun' /\ Shape'
  BY <1>17 DEF Park, Running, Settle, Deadlocked
<1>18. ASSUME NEW g \in Goroutine, Sleep(g) PROVE TypeOK' /\ NoLostRun' /\ Shape'
  BY <1>18 DEF Sleep, Running, Settle, Deadlocked
<1>19. ASSUME NEW g \in Goroutine, Return(g) PROVE TypeOK' /\ NoLostRun' /\ Shape'
  <2>1. PICK finished \in BOOLEAN : mainFinished' = finished
                                   /\ Settle(g, TRUE, awakeGoroutines, finished)
    <3>1. \E finished \in (IF g = Main THEN (IF exit[g] THEN BOOLEAN ELSE {TRUE}) ELSE {mainFinished}) :
             mainFinished' = finished /\ Settle(g, TRUE, awakeGoroutines, finished)
      BY <1>19, Zenon DEF Return
    <3>2. mainFinished \in BOOLEAN
      OBVIOUS
    <3> QED
      BY <3>1, <3>2, Zenon
  <2> QED
    BY <1>19, <2>1 DEF Return, Running, Settle, Deadlocked
<1>20. ASSUME NEW g \in Goroutine, Throw(g) PROVE TypeOK' /\ NoLostRun' /\ Shape'
  <2>1. callback' \in BOOLEAN /\ halted' \in BOOLEAN
    BY <1>20, Zenon DEF Throw
  <2>2. /\ Running(g) /\ runLoop' = "off" /\ curGoroutine' = NoGoroutine
        /\ nextRun' = IF scheduled = <<>> THEN nextRun - 1 ELSE nextRun
        /\ crashed' = crashed \cup {g}
        /\ UNCHANGED <<scheduled, life, wake, pending, flags, fatal>>
    BY <1>20, Zenon DEF Throw
  <2> QED
    BY <2>1, <2>2 DEF Running
<1>21. CASE RestartTimer BY <1>21 DEF RestartTimer
<1>22. CASE UNCHANGED vars BY <1>22 DEF vars
<1> HIDE DEF Inv, TypeOK, NoLostRun, Shape, RunnableOnce, Queued
<1> QED
  BY <1>1, <1>2, <1>3, <1>4, <1>5, <1>6, <1>7, <1>8, <1>9, <1>10, <1>11, <1>12,
     <1>13, <1>14, <1>15, <1>16, <1>17, <1>18, <1>19, <1>20, <1>21, <1>22
  DEF Next, EventLoop, GoCode, EndTurn

-----------------------------------------------------------------------------
(* The queue as a sequence without repetitions.                            *)
Elems(s)    == {s[i] : i \in DOMAIN s}
Distinct(s) == \A i, j \in DOMAIN s : s[i] = s[j] => i = j

(* Appending a new element keeps a queue distinct.                         *)
LEMMA AppendElems ==
    ASSUME NEW S, NEW s \in Seq(S), NEW e \in S
    PROVE  /\ Elems(Append(s, e)) = Elems(s) \cup {e}
           /\ Distinct(s) /\ e \notin Elems(s) => Distinct(Append(s, e))
<1>1. /\ DOMAIN s = 1 .. Len(s) /\ Len(s) \in Nat
      /\ DOMAIN Append(s, e) = 1 .. (Len(s) + 1)
      /\ \A i \in 1 .. Len(s) : Append(s, e)[i] = s[i]
      /\ Append(s, e)[Len(s) + 1] = e
  BY AppendProperties
<1>2. Elems(Append(s, e)) = Elems(s) \cup {e}
  BY <1>1 DEF Elems
<1>3. Distinct(s) /\ e \notin Elems(s) => Distinct(Append(s, e))
  BY <1>1 DEF Elems, Distinct
<1> QED
  BY <1>2, <1>3

(* Taking the head off a distinct queue leaves the others.                 *)
LEMMA TailElems ==
    ASSUME NEW S, NEW s \in Seq(S), s # <<>>, Distinct(s)
    PROVE  /\ Head(s) \in Elems(s)
           /\ Elems(Tail(s)) = Elems(s) \ {Head(s)}
           /\ Distinct(Tail(s))
<1>1. /\ Len(s) \in Nat \ {0} /\ DOMAIN s = 1 .. Len(s)
      /\ Head(s) = s[1]
      /\ Tail(s) \in Seq(S) /\ Len(Tail(s)) = Len(s) - 1
      /\ \A i \in 1 .. Len(Tail(s)) : Tail(s)[i] = s[i + 1]
  BY HeadTailProperties, EmptySeq
<1>2. DOMAIN Tail(s) = 1 .. (Len(s) - 1)
  BY <1>1
<1>3. Head(s) \in Elems(s)
  BY <1>1 DEF Elems
<1>4. Distinct(Tail(s))
  BY <1>1, <1>2 DEF Distinct
<1>5. ASSUME NEW e \in Elems(s) \ {Head(s)} PROVE e \in Elems(Tail(s))
  <2>1. PICK i \in 1 .. Len(s) : s[i] = e
    BY <1>1 DEF Elems
  <2>2. i - 1 \in 1 .. (Len(s) - 1) /\ Tail(s)[i - 1] = e
    BY <1>1, <1>5, <2>1
  <2> QED
    BY <1>2, <2>2 DEF Elems
<1>6. ASSUME NEW e \in Elems(Tail(s)) PROVE e \in Elems(s) \ {Head(s)}
  <2>1. PICK i \in 1 .. (Len(s) - 1) : Tail(s)[i] = e
    BY <1>2 DEF Elems
  <2> QED
    BY <1>1, <2>1 DEF Elems, Distinct
<1> QED
  BY <1>3, <1>4, <1>5, <1>6

(* A step that changes neither the queue nor who is awake.                 *)
LEMMA SameQueue ==
    ASSUME Inv, UNCHANGED <<curGoroutine, scheduled, live, asleep, sleepers,
                            crashed, halted>>
    PROVE  RunnableOnce' /\ AwakeIsRunnable'
BY DEF Inv, RunnableOnce, AwakeIsRunnable, Queued, Running

(* A goroutine that was not runnable joins the queue awake.                *)
LEMMA JoinQueue ==
    ASSUME Inv, NEW g \in Goroutine, g \notin crashed, asleep[g],
           scheduled' = Append(scheduled, g),
           asleep' = [asleep EXCEPT ![g] = FALSE],
           live' = live \cup {g}, sleepers' = sleepers \ {g},
           UNCHANGED <<curGoroutine, crashed, halted>>
    PROVE  RunnableOnce' /\ AwakeIsRunnable'
<1> USE DEF Inv, TypeOK
<1>1. g \notin Queued /\ g # curGoroutine
  BY DEF RunnableOnce
<1>2. Distinct(scheduled)
  BY DEF RunnableOnce, Distinct
<1>3. Queued' = Queued \cup {g} /\ Distinct(scheduled')
  <2>1. scheduled \in Seq(Goroutine) /\ g \notin Elems(scheduled)
    BY <1>1 DEF Queued, Elems
  <2>2. /\ Elems(Append(scheduled, g)) = Elems(scheduled) \cup {g}
        /\ Distinct(Append(scheduled, g))
    BY <1>2, <2>1, AppendElems
  <2> QED
    BY <2>2 DEF Queued, Elems
<1>4. RunnableOnce'
  BY <1>1, <1>3 DEF RunnableOnce, Distinct
<1>5. AwakeIsRunnable'
  BY <1>3 DEF AwakeIsRunnable, Running
<1> QED
  BY <1>4, <1>5

(* The running goroutine goes to sleep, to its timer or for good.          *)
LEMMA LeaveTurn ==
    ASSUME Inv, NEW g \in Goroutine, curGoroutine = g,
           curGoroutine' = NoGoroutine,
           asleep' = [asleep EXCEPT ![g] = TRUE],
           live' \in {live, live \ {g}}, sleepers' \in {sleepers, sleepers \cup {g}},
           UNCHANGED <<scheduled, crashed>>
    PROVE  RunnableOnce' /\ AwakeIsRunnable'
<1> USE DEF Inv, TypeOK
<1>1. g \notin Queued /\ Queued' = Queued
  BY DEF RunnableOnce, Queued
<1>2. RunnableOnce'
  BY <1>1 DEF RunnableOnce
<1>3. AwakeIsRunnable'
  BY <1>1 DEF AwakeIsRunnable, Running
<1> QED
  BY <1>2, <1>3

(* Every step keeps the run queue in order: one entry per awake goroutine. *)
LEMMA QueueStep == Inv /\ [Next]_vars => RunnableOnce' /\ AwakeIsRunnable'
<1> SUFFICES ASSUME Inv, [Next]_vars PROVE RunnableOnce' /\ AwakeIsRunnable'
  OBVIOUS
<1>1. CASE RunNext
  <2>1. /\ curGoroutine = NoGoroutine /\ ~halted /\ scheduled # <<>>
        /\ curGoroutine' = Head(scheduled) /\ scheduled' = Tail(scheduled)
        /\ UNCHANGED <<live, asleep, sleepers, crashed, halted>>
    BY <1>1 DEF RunNext, Looping
  <2>2. scheduled \in Seq(Goroutine) /\ Distinct(scheduled)
    BY DEF Inv, TypeOK, RunnableOnce, Distinct
  <2>3. /\ Head(scheduled) \in Queued
        /\ Queued' = Queued \ {Head(scheduled)} /\ Distinct(scheduled')
    BY <2>1, <2>2, TailElems DEF Queued, Elems
  <2>4. RunnableOnce'
    BY <2>1, <2>3 DEF Inv, RunnableOnce, Distinct
  <2>5. AwakeIsRunnable'
    BY <2>1, <2>3 DEF Inv, TypeOK, AwakeIsRunnable, Running
  <2> QED
    BY <2>4, <2>5
<1>2. CASE LoopEnd \/ FireRun \/ CallbackEnter \/ CallbackReturn
  BY <1>2, SameQueue DEF LoopEnd, FireRun, CallbackEnter, CallbackReturn
<1>3. CASE \/ StartTimer \/ StopTimer \/ RestartTimer
          \/ FuncOf \/ Release \/ Externalize \/ MakeFunc
  BY <1>3, SameQueue
  DEF StartTimer, StopTimer, RestartTimer, FuncOf, Release, Externalize,
                MakeFunc
<1>4. ASSUME NEW g \in Goroutine, Goexit(g) PROVE RunnableOnce' /\ AwakeIsRunnable'
  BY <1>4, SameQueue DEF Goexit
<1>5. ASSUME NEW g \in Goroutine, FireSleep(g) PROVE RunnableOnce' /\ AwakeIsRunnable'
  <2>1. g \in live /\ g \notin crashed /\ asleep[g]
    BY <1>5 DEF FireSleep, Inv, Shape
  <2> QED
    BY <1>5, <2>1, JoinQueue DEF FireSleep, Schedule, Enqueue
<1>6. ASSUME NEW g \in Goroutine, NEW p \in BOOLEAN, FireTimer(g, p)
      PROVE RunnableOnce' /\ AwakeIsRunnable'
  <2>1. g \notin crashed /\ g \notin sleepers /\ asleep[g]
    BY <1>6 DEF FireTimer, Inv, Shape
  <2> QED
    BY <1>6, <2>1, JoinQueue DEF FireTimer, Spawn, Enqueue
<1>7. ASSUME NEW g \in Goroutine, Go(g) PROVE RunnableOnce' /\ AwakeIsRunnable'
  <2>1. g \notin crashed /\ g \notin sleepers /\ asleep[g]
    BY <1>7 DEF Go, Inv, Shape
  <2> QED
    BY <1>7, <2>1, JoinQueue DEF Go, Spawn, Enqueue
<1>8. ASSUME NEW g \in Goroutine, Ready(g) PROVE RunnableOnce' /\ AwakeIsRunnable'
  <2>1. g \notin crashed /\ g \in live /\ g \notin sleepers /\ asleep[g]
    BY <1>8 DEF Ready, Inv, Shape
  <2> QED
    BY <1>8, <2>1, JoinQueue DEF Ready, Schedule, Enqueue
<1>9. ASSUME NEW g \in Goroutine, Park(g) \/ Sleep(g) \/ Return(g)
      PROVE RunnableOnce' /\ AwakeIsRunnable'
  BY <1>9, LeaveTurn DEF Park, Sleep, Return, Running, Settle
<1>10. ASSUME NEW g \in Goroutine, Throw(g) PROVE RunnableOnce' /\ AwakeIsRunnable'
  <2>1. /\ curGoroutine = g /\ curGoroutine' = NoGoroutine
        /\ crashed' = crashed \cup {g}
        /\ UNCHANGED <<scheduled, live, asleep, sleepers>>
    BY <1>10, Zenon DEF Throw, Running
  <2>2. Queued' = Queued
    BY <2>1 DEF Queued
  <2>3. RunnableOnce'
    BY <2>1, <2>2 DEF Inv, TypeOK, RunnableOnce, Queued
  <2>4. AwakeIsRunnable'
    BY <2>1, <2>2 DEF Inv, AwakeIsRunnable, Running
  <2> QED
    BY <2>3, <2>4
<1>11. CASE UNCHANGED vars
  BY <1>11, SameQueue DEF vars
<1> QED
  BY <1>1, <1>2, <1>3, <1>4, <1>5, <1>6, <1>7, <1>8, <1>9, <1>10, <1>11
  DEF Next, EventLoop, GoCode, EndTurn

(* The scheduler invariant: types, run timer and run queue.                *)
THEOREM SchedulerInvariant == Spec => []Inv
<1>1. Init => Inv
  BY InitInv
<1>2. Inv /\ [Next]_vars => Inv'
  BY TypeStep, QueueStep DEF Inv
<1> QED
  BY <1>1, <1>2, PTL DEF Spec

(* The variables keep their types.                                         *)
THEOREM TypeCorrect == Spec => []TypeOK
BY SchedulerInvariant, PTL DEF Inv

(* No goroutine is queued twice, or run while it is queued, asleep,        *)
(* crashed or finished.                                                    *)
THEOREM QueueCorrect == Spec => []RunnableOnce
BY SchedulerInvariant, PTL DEF Inv

(* No awake goroutine is forgotten by the queue.                           *)
THEOREM NoWakeUpLost == Spec => []AwakeIsRunnable
BY SchedulerInvariant, PTL DEF Inv

(* A timer for another pass is pending whenever a goroutine is queued.     *)
THEOREM RunTimerArmed == Spec => []NoLostRun
BY SchedulerInvariant, PTL DEF Inv

-----------------------------------------------------------------------------
(* The counters.  All sets involved are subsets of the finite Goroutine.   *)
Awake == {g \in live : ~asleep[g]}

(* One more member is one more.                                            *)
LEMMA CardAdd ==
    ASSUME NEW S \in SUBSET Goroutine, NEW g \in Goroutine, g \notin S
    PROVE  Cardinality(S \cup {g}) = Cardinality(S) + 1
BY FS_Subset, FS_AddElement

(* One member less is one less.                                            *)
LEMMA CardRemove ==
    ASSUME NEW S \in SUBSET Goroutine, NEW g \in S
    PROVE  Cardinality(S \ {g}) = Cardinality(S) - 1
BY FS_Subset, FS_RemoveElement

(* Only the empty set has no members.                                      *)
LEMMA CardNat ==
    ASSUME NEW S \in SUBSET Goroutine
    PROVE  Cardinality(S) \in Nat /\ (Cardinality(S) = 0 => S = {})
BY FS_Subset, FS_CardinalityType, FS_EmptySet

(* $awakeGoroutines changes with what it counts.                           *)
LEMMA AwakeCountStep == Inv /\ AwakeCount /\ [Next]_vars => AwakeCount'
<1> SUFFICES ASSUME Inv, AwakeCount, [Next]_vars PROVE AwakeCount'
  OBVIOUS
<1>0. /\ Awake \in SUBSET Goroutine /\ sleepers \in SUBSET Goroutine
      /\ Cardinality(Awake) \in Int /\ Cardinality(sleepers) \in Int
      /\ awakeGoroutines \in Int /\ timers \in Int /\ leaked \in Int
      /\ awakeGoroutines = Cardinality(Awake) + Cardinality(sleepers) + timers + leaked
  BY CardNat DEF Inv, TypeOK, Awake, AwakeCount
<1>g. awakeGoroutines' = Cardinality(Awake') + Cardinality(sleepers')
                           + timers' + leaked'
      => AwakeCount'
  BY DEF AwakeCount, Awake
<1>t. live \subseteq Goroutine /\ asleep \in [Goroutine -> BOOLEAN]
  BY DEF Inv, TypeOK
<1>1. CASE RunNext \/ LoopEnd \/ FireRun \/ CallbackEnter \/ CallbackReturn
  BY <1>0, <1>g, <1>1 DEF RunNext, LoopEnd, FireRun, CallbackEnter, CallbackReturn, Awake
<1>2. CASE FuncOf \/ Release \/ Externalize \/ MakeFunc
  BY <1>0, <1>g, <1>2 DEF FuncOf, Release, Externalize, MakeFunc, Awake
<1>3. CASE StartTimer \/ RestartTimer
  BY <1>0, <1>g, <1>3 DEF StartTimer, RestartTimer, Awake
<1>4. CASE StopTimer
  <2>1. /\ Awake' = Awake /\ UNCHANGED <<sleepers, awakeGoroutines>>
        /\ timers' = timers - 1 /\ leaked' = leaked + 1
    BY <1>4 DEF StopTimer, Awake
  <2> QED
    BY <1>0, <1>g, <2>1
<1>5. ASSUME NEW g \in Goroutine, FireSleep(g) PROVE AwakeCount'
  <2>1. g \in live /\ asleep[g] /\ g \in sleepers
    BY <1>5 DEF FireSleep, Inv, Shape
  <2>2. Awake' = Awake \cup {g} /\ g \notin Awake
    BY <1>5, <1>t, <2>1 DEF FireSleep, Schedule, Awake
  <2>3. Cardinality(Awake') = Cardinality(Awake) + 1
    BY <1>0, <2>2, CardAdd
  <2>4. Cardinality(sleepers') = Cardinality(sleepers) - 1
    BY <1>0, <1>5, <2>1, CardRemove DEF FireSleep
  <2> QED
    BY <1>0, <1>g, <1>5, <2>1, <2>3, <2>4 DEF FireSleep, Schedule
<1>6. ASSUME NEW g \in Goroutine, NEW p \in BOOLEAN, FireTimer(g, p) PROVE AwakeCount'
  <2>1. Awake' = Awake \cup {g} /\ g \notin Awake
    BY <1>6, <1>t DEF FireTimer, Spawn, Awake
  <2>2. Cardinality(Awake') = Cardinality(Awake) + 1
    BY <1>0, <2>1, CardAdd
  <2> QED
    BY <1>0, <1>g, <1>6, <2>2 DEF FireTimer, Spawn
<1>7. ASSUME NEW g \in Goroutine, Go(g) PROVE AwakeCount'
  <2>1. Awake' = Awake \cup {g} /\ g \notin Awake
    BY <1>7, <1>t DEF Go, Spawn, Awake
  <2>2. Cardinality(Awake') = Cardinality(Awake) + 1
    BY <1>0, <2>1, CardAdd
  <2> QED
    BY <1>0, <1>g, <1>7, <2>2 DEF Go, Spawn
<1>8. ASSUME NEW g \in Goroutine, Ready(g) PROVE AwakeCount'
  <2>1. Awake' = Awake \cup {g} /\ g \notin Awake
    BY <1>8, <1>t DEF Ready, Schedule, Awake
  <2>2. Cardinality(Awake') = Cardinality(Awake) + 1
    BY <1>0, <2>1, CardAdd
  <2> QED
    BY <1>0, <1>g, <1>8, <2>2 DEF Ready, Schedule
<1>9. ASSUME NEW g \in Goroutine, Goexit(g) PROVE AwakeCount'
  BY <1>0, <1>g, <1>9 DEF Goexit, Awake
<1>10. ASSUME NEW g \in Goroutine, Park(g) \/ Return(g) PROVE AwakeCount'
  <2>1. g \in Awake
    BY <1>10 DEF Park, Return, Running, Inv, RunnableOnce, Awake
  <2>2. Awake' = Awake \ {g}
    BY <1>10, <1>t DEF Park, Return, Settle, Awake
  <2>3. Cardinality(Awake') = Cardinality(Awake) - 1
    BY <1>0, <2>1, <2>2, CardRemove
  <2>4. awakeGoroutines' = awakeGoroutines - 1 /\ UNCHANGED pending
    BY <1>10, Zenon DEF Park, Return, Settle
  <2> QED
    BY <1>0, <1>g, <2>3, <2>4
<1>11. ASSUME NEW g \in Goroutine, Sleep(g) PROVE AwakeCount'
  <2>1. g \in Awake /\ g \notin sleepers
    BY <1>11 DEF Sleep, Running, Inv, RunnableOnce, Awake
  <2>2. Awake' = Awake \ {g} /\ sleepers' = sleepers \cup {g}
    BY <1>11, <1>t DEF Sleep, Settle, Awake
  <2>3. Cardinality(Awake') = Cardinality(Awake) - 1
    BY <1>0, <2>1, <2>2, CardRemove
  <2>4. Cardinality(sleepers') = Cardinality(sleepers) + 1
    BY <1>0, <2>1, <2>2, CardAdd
  <2> QED
    BY <1>0, <1>g, <1>11, <2>3, <2>4 DEF Sleep, Settle
<1>12. ASSUME NEW g \in Goroutine, Throw(g) PROVE AwakeCount'
  BY <1>0, <1>g, <1>12 DEF Throw, Awake
<1>13. CASE UNCHANGED vars
  BY <1>0, <1>g, <1>13 DEF vars, Awake
<1> QED
  BY <1>1, <1>2, <1>3, <1>4, <1>5, <1>6, <1>7, <1>8, <1>9, <1>10, <1>11, <1>12,
     <1>13
  DEF Next, EventLoop, GoCode, EndTurn

(* The counter is right in every state: what goroutines.js adds to and     *)
(* takes from $awakeGoroutines in four functions adds up, for any number   *)
(* of goroutines, with crashes, stopped timers and Goexit.                 *)
THEOREM AwakeCounted == Spec => []AwakeCount
<1>1. Init => Inv /\ AwakeCount
  <2> SUFFICES ASSUME Init PROVE AwakeCount
    BY InitInv
  <2>1. Awake = {Main} /\ sleepers = {} /\ timers = 0 /\ leaked = 0
        /\ awakeGoroutines = 1
    BY Zenon DEF Init, Awake
  <2>2. Cardinality({Main}) = 1 /\ Cardinality({}) = 0
    BY FS_Singleton, FS_EmptySet
  <2> QED
    BY <2>1, <2>2 DEF AwakeCount, Awake
<1>2. Inv /\ AwakeCount /\ [Next]_vars => Inv' /\ AwakeCount'
  BY TypeStep, QueueStep, AwakeCountStep DEF Inv
<1> QED
  BY <1>1, <1>2, PTL DEF Spec

(* Unless code blocks after Goexit, NumGoroutine counts the goroutines.    *)
LEMMA TotalCountStep ==
    ASSUME ~ParksAfterGoexit, Inv, TotalCount, [Next]_vars
    PROVE  TotalCount'
<1> USE DEF TotalCount
<1>0. live \in SUBSET Goroutine
  BY DEF Inv, TypeOK
<1>1. CASE RunNext \/ LoopEnd \/ FireRun \/ CallbackEnter \/ CallbackReturn
  BY <1>1 DEF RunNext, LoopEnd, FireRun, CallbackEnter, CallbackReturn
<1>2. CASE \/ StartTimer \/ StopTimer \/ RestartTimer
          \/ FuncOf \/ Release \/ Externalize \/ MakeFunc
  BY <1>2 DEF StartTimer, StopTimer, RestartTimer, FuncOf, Release, Externalize,
                MakeFunc
<1>3. ASSUME NEW g \in Goroutine, FireSleep(g) \/ Ready(g) \/ Goexit(g) \/ Throw(g)
      PROVE TotalCount'
  BY <1>3 DEF FireSleep, Ready, Goexit, Throw
<1>4. ASSUME NEW g \in Goroutine, NEW p \in BOOLEAN, FireTimer(g, p) \/ Go(g)
      PROVE TotalCount'
  BY <1>0, <1>4, CardAdd DEF FireTimer, Go, Spawn
<1>5. ASSUME NEW g \in Goroutine, Park(g) \/ Sleep(g) PROVE TotalCount'
  <2>1. ~exit[g]
    BY <1>5 DEF Park, Sleep, MayPark
  <2> QED
    BY <1>5, <2>1 DEF Park, Sleep, Settle
<1>6. ASSUME NEW g \in Goroutine, Return(g) PROVE TotalCount'
  <2>1. totalGoroutines' = totalGoroutines - 1 /\ live' = live \ {g}
    BY <1>6, Zenon DEF Return, Settle
  <2>2. g \in live
    BY <1>6 DEF Return, Running, Inv, RunnableOnce
  <2> QED
    BY <1>0, <2>1, <2>2, CardRemove
<1>7. CASE UNCHANGED vars
  BY <1>7 DEF vars
<1> QED
  BY <1>1, <1>2, <1>3, <1>4, <1>5, <1>6, <1>7 DEF Next, EventLoop, GoCode, EndTurn

(* NumGoroutine is right as long as nothing parks after a Goexit.          *)
THEOREM TotalCounted ==
    ASSUME ~ParksAfterGoexit
    PROVE  Spec => []TotalCount
<1>1. Init => Inv /\ TotalCount
  <2> SUFFICES ASSUME Init PROVE TotalCount
    BY InitInv
  <2> QED
    BY FS_Singleton DEF Init, TotalCount
<1>2. Inv /\ TotalCount /\ [Next]_vars => Inv' /\ TotalCount'
  BY TypeStep, QueueStep, TotalCountStep DEF Inv
<1> QED
  BY <1>1, <1>2, PTL DEF Spec

-----------------------------------------------------------------------------
(* The deadlock report.  In a process it is the last step, so the counter  *)
(* that was zero when it was made stays zero, and by AwakeCount everything *)
(* it counts is gone.                                                      *)
Reported == fatal => /\ halted /\ awakeGoroutines = 0
                     /\ checkForDeadlock /\ exportedFunctions = 0

(* A sum of natural numbers is zero only when each of them is.             *)
LEMMA SumOfNaturals ==
    ASSUME NEW a \in Nat, NEW b \in Nat, NEW c \in Nat, NEW d \in Nat,
           a + b + c + d = 0
    PROVE  a = 0 /\ b = 0 /\ c = 0
OBVIOUS

(* When the counter is zero, nothing is awake, queued or timed.            *)
LEMMA NothingAwake ==
    ASSUME Inv, AwakeCount, awakeGoroutines = 0
    PROVE  /\ scheduled = <<>> /\ sleepers = {} /\ timers = 0
           /\ \A g \in live : asleep[g]
<1>1. Awake \in SUBSET Goroutine /\ sleepers \in SUBSET Goroutine
  BY DEF Inv, TypeOK, Awake
<1>2. /\ Cardinality(Awake) \in Nat /\ Cardinality(sleepers) \in Nat
      /\ timers \in Nat /\ leaked \in Nat
  BY <1>1, CardNat DEF Inv, TypeOK
<1>3. Cardinality(Awake) + Cardinality(sleepers) + timers + leaked = 0
  BY DEF AwakeCount, Awake
<1>4. Cardinality(Awake) = 0 /\ Cardinality(sleepers) = 0 /\ timers = 0
  BY <1>2, <1>3, SumOfNaturals
<1>5. Awake = {} /\ sleepers = {}
  <2>1. \A S \in SUBSET Goroutine : Cardinality(S) = 0 => S = {}
    BY CardNat
  <2> QED
    BY <1>1, <1>4, <2>1, Zenon
<1>6. \A g \in live : asleep[g]
  BY <1>5 DEF Awake
<1>7. Queued = {}
  BY <1>6, Zenon DEF Inv, RunnableOnce
<1>8. DOMAIN scheduled = {}
  BY <1>7, Zenon DEF Queued
<1>9. scheduled \in Seq(Goroutine)
  BY DEF Inv, TypeOK
<1>10. scheduled = <<>>
  BY <1>8, <1>9
<1> QED
  BY <1>4, <1>5, <1>6, <1>10

(* A process that has ended takes no step, and the end of a turn is the    *)
(* only step that reports.                                                 *)
LEMMA ReportedStep ==
    ASSUME HasProcess, Inv, Reported, [Next]_vars
    PROVE  Reported'
<1>1. CASE UNCHANGED vars
  BY <1>1, Zenon DEF vars, Reported
<1>2. ASSUME ~halted PROVE ~fatal
  BY <1>2 DEF Reported
<1>3. CASE RunNext \/ LoopEnd \/ FireRun \/ CallbackEnter \/ CallbackReturn
  <2>1. ~halted /\ fatal' = fatal
    BY <1>3, Zenon DEF RunNext, LoopEnd, FireRun, CallbackEnter, CallbackReturn,
                       Looping, Idle, InCallback
  <2> QED
    BY <1>2, <2>1 DEF Reported
<1>4. CASE \/ StartTimer \/ StopTimer \/ RestartTimer
          \/ FuncOf \/ Release \/ Externalize \/ MakeFunc
  <2>1. ~halted /\ fatal' = fatal
    BY <1>4, Zenon DEF StartTimer, StopTimer, RestartTimer, FuncOf, Release, Externalize,
                       MakeFunc, InGo, InCallback, Running
  <2> QED
    BY <1>2, <2>1 DEF Reported
<1>5. ASSUME NEW g \in Goroutine, NEW p \in BOOLEAN,
             \/ FireSleep(g) \/ FireTimer(g, p) \/ Go(g) \/ Ready(g)
             \/ Goexit(g) \/ Throw(g)
      PROVE Reported'
  <2>1. ~halted /\ fatal' = fatal
    BY <1>5, Zenon DEF FireSleep, FireTimer, Go, Ready, Goexit, Throw, Idle,
                       InGo, InCallback, Running
  <2> QED
    BY <1>2, <2>1 DEF Reported
<1>6. ASSUME NEW g \in Goroutine, NEW exits, NEW awake \in Int, NEW finished,
             ~halted, Settle(g, exits, awake, finished),
             UNCHANGED <<checkForDeadlock, exportedFunctions>>
      PROVE Reported'
  <2>1. CASE Deadlocked(awake - 1, finished)
    <3>1. awakeGoroutines' = 0 /\ checkForDeadlock' /\ exportedFunctions' = 0
      BY <1>6, <2>1 DEF Settle, Deadlocked
    <3>2. halted'
      BY <1>6, <2>1, Zenon DEF Settle
    <3> QED
      BY <3>1, <3>2 DEF Reported
  <2>2. CASE ~Deadlocked(awake - 1, finished)
    BY <1>2, <1>6, <2>2, Zenon DEF Settle, Reported
  <2> QED
    BY <2>1, <2>2
<1>7. ASSUME NEW g \in Goroutine, Park(g) PROVE Reported'
  BY <1>6, <1>7 DEF Park, Running, Inv, TypeOK
<1>8. ASSUME NEW g \in Goroutine, Sleep(g) PROVE Reported'
  BY <1>6, <1>8 DEF Sleep, Running, Inv, TypeOK
<1>9. ASSUME NEW g \in Goroutine, Return(g) PROVE Reported'
  <2>1. PICK finished : Settle(g, TRUE, awakeGoroutines, finished)
    BY <1>9, Zenon DEF Return
  <2>2. ~halted /\ UNCHANGED <<checkForDeadlock, exportedFunctions>>
    BY <1>9, Zenon DEF Return, Running
  <2> QED
    BY <1>6, <2>1, <2>2 DEF Inv, TypeOK
<1> QED
  BY <1>1, <1>3, <1>4, <1>5, <1>7, <1>8, <1>9 DEF Next, EventLoop, GoCode, EndTurn

(* Under Node.js the run time never ends a program that could go on: when  *)
(* it reports a deadlock every goroutine sleeps and nothing it knows of    *)
(* can wake one.                                                           *)
THEOREM DeadlockReportIsTrue ==
    ASSUME HasProcess
    PROVE  Spec => []NoFalseDeadlock
<1>1. Init => Reported
  BY Zenon DEF Init, Reported
<1>2. Inv /\ Reported /\ [Next]_vars => Reported'
  BY ReportedStep
<1>3. Inv /\ AwakeCount /\ Reported => NoFalseDeadlock
  BY NothingAwake DEF Reported, NoFalseDeadlock
<1> QED
  BY <1>1, <1>2, <1>3, SchedulerInvariant, AwakeCounted, PTL DEF Spec

-----------------------------------------------------------------------------
(* No deadlock goes unreported.  The report is due when the last awake     *)
(* goroutine goes to sleep; afterwards only an event from outside could    *)
(* bring the program into a state in which it would have been due.         *)
Stuck ==
    /\ \A g \in live : asleep[g]
    /\ sleepers = {} /\ timers = 0 /\ leaked = 0
    /\ ~Exposed /\ ~mainFinished

StuckIsReported == Stuck => fatal

(* Who runs is awake.                                                      *)
LEMMA RunningIsAwake ==
    ASSUME Inv, NEW g \in Goroutine, Running(g)
    PROVE  ~Stuck
BY GoroutineAssumption DEF Stuck, Inv, RunnableOnce, Running

(* A goroutine that goes to sleep as the last one reports.                 *)
LEMMA SettleReports ==
    ASSUME Inv, AwakeCount', NEW g \in Goroutine, NEW exits, NEW awake \in Int,
           NEW finished, Settle(g, exits, awake, finished), mainFinished' = finished,
           UNCHANGED <<checkForDeadlock, exportedFunctions>>
    PROVE  StuckIsReported'
<1> SUFFICES ASSUME Stuck' PROVE fatal'
  BY DEF StuckIsReported
<1>1. Awake' = {}
  BY DEF Stuck, Awake
<1>2. awakeGoroutines' = 0
  <2>1. Cardinality({}) = 0
    BY FS_EmptySet
  <2> QED
    BY <1>1, <2>1 DEF AwakeCount, Awake, Stuck
<1>3. awake - 1 = 0
  BY <1>2 DEF Settle
<1>4. checkForDeadlock /\ ~(exportedFunctions > 0) /\ ~finished
  BY DEF Stuck, Exposed
<1>5. exportedFunctions = 0
  BY <1>4 DEF Inv, TypeOK
<1> QED
  BY <1>3, <1>4, <1>5, Zenon DEF Settle, Deadlocked

(* No step makes a deadlock that nobody reports.                           *)
LEMMA StuckStep ==
    ASSUME ~CallbackReleases, Inv, AwakeCount, StuckIsReported, [Next]_vars
    PROVE  StuckIsReported'
<1>1. AwakeCount'
  BY AwakeCountStep
<1>2. CASE UNCHANGED vars
  BY <1>2, Zenon DEF StuckIsReported, Stuck, Exposed, vars, machine, life, wake,
                     pending, flags, ended
<1>3. CASE RunNext \/ LoopEnd \/ FireRun \/ CallbackEnter \/ CallbackReturn
  BY <1>3, Zenon DEF RunNext, LoopEnd, FireRun, CallbackEnter, CallbackReturn,
           StuckIsReported, Stuck, Exposed, life, wake, pending, flags, ended
<1>4. ASSUME NEW g \in Goroutine, Goexit(g) \/ Throw(g) PROVE StuckIsReported'
  <2>1. g \in live /\ ~asleep[g]
    BY <1>4, GoroutineAssumption DEF Goexit, Throw, Running, Inv, RunnableOnce
  <2>2. live' = live /\ asleep' = asleep
    BY <1>4, Zenon DEF Goexit, Throw, life, wake
  <2> QED
    BY <2>1, <2>2 DEF StuckIsReported, Stuck
<1>5. ASSUME NEW g \in Goroutine, Go(g) \/ Ready(g) \/ FireSleep(g)
                                 \/ \E p \in BOOLEAN : FireTimer(g, p)
      PROVE  StuckIsReported'
  <2>1. g \in live' /\ ~asleep'[g]
    BY <1>5 DEF Go, Ready, FireSleep, FireTimer, Spawn, Schedule, life, Inv, TypeOK, Shape
  <2> QED
    BY <2>1 DEF StuckIsReported, Stuck
<1>6. CASE StopTimer \/ RestartTimer
  <2>1. leaked' = leaked + 1 /\ leaked \in Nat
    BY <1>6 DEF StopTimer, RestartTimer, Inv, TypeOK
  <2> QED
    BY <2>1 DEF StuckIsReported, Stuck
<1>7. CASE StartTimer
  <2>1. timers' = timers + 1 /\ timers \in Nat
    BY <1>7 DEF StartTimer, Inv, TypeOK
  <2> QED
    BY <2>1 DEF StuckIsReported, Stuck
<1>8. CASE FuncOf \/ Externalize \/ MakeFunc
  <2>1. exportedFunctions \in Nat
    BY DEF Inv, TypeOK
  <2>2. exportedFunctions' > 0 \/ ~checkForDeadlock' \/ wrapped'
    BY <1>8, <2>1 DEF FuncOf, Externalize, MakeFunc
  <2> QED
    BY <2>2 DEF StuckIsReported, Stuck, Exposed
<1>9. CASE Release
  <2>1. PICK g \in Goroutine : Running(g)
    BY <1>9 DEF Release, InGo
  <2>2. g \in live /\ ~asleep[g]
    BY <2>1, GoroutineAssumption DEF Running, Inv, RunnableOnce
  <2>3. live' = live /\ asleep' = asleep
    BY <1>9, Zenon DEF Release, machine, life, wake
  <2> QED
    BY <2>2, <2>3 DEF StuckIsReported, Stuck
<1>10. ASSUME NEW g \in Goroutine, Park(g) \/ Return(g) PROVE StuckIsReported'
  <2>1. awakeGoroutines \in Int /\ UNCHANGED <<checkForDeadlock, exportedFunctions>>
    BY <1>10, Zenon DEF Inv, TypeOK, Park, Return, flags
  <2>2. PICK exits, finished : /\ Settle(g, exits, awakeGoroutines, finished)
                               /\ mainFinished' = finished
    BY <1>10, Zenon DEF Park, Return, flags
  <2> QED
    BY <1>1, <2>1, <2>2, SettleReports
<1>11. ASSUME NEW g \in Goroutine, Sleep(g) PROVE StuckIsReported'
  BY <1>11 DEF Sleep, StuckIsReported, Stuck
<1> QED
  BY <1>2, <1>3, <1>4, <1>5, <1>6, <1>7, <1>8, <1>9, <1>10, <1>11
  DEF Next, EventLoop, GoCode, EndTurn

(* Every deadlock is reported: the finally block of $goroutine, which runs *)
(* only when a goroutine stops, is enough, because nothing that happens    *)
(* later can make a deadlock of what was none, unless a callback releases  *)
(* the last function through which the host could call the program.        *)
THEOREM DeadlocksAreReported ==
    ASSUME ~CallbackReleases
    PROVE  Spec => []DeadlockReported
<1>1. Init => StuckIsReported
  <2>1. Init => Main \in live /\ ~asleep[Main]
    BY GoroutineAssumption DEF Init
  <2> QED
    BY <2>1 DEF StuckIsReported, Stuck
<1>2. Inv /\ AwakeCount /\ StuckIsReported /\ [Next]_vars => StuckIsReported'
  BY StuckStep
<1>3. StuckIsReported => DeadlockReported
  BY DEF StuckIsReported, Stuck, DeadlockReported
<1> QED
  BY <1>1, <1>2, <1>3, SchedulerInvariant, AwakeCounted, PTL DEF Spec

-----------------------------------------------------------------------------
(* For the modules on top, whose goroutines park in their own ways only.   *)

(* Nothing lets a goroutine sleep in a timer or leave by Goexit.           *)
Plain == sleepers = {} /\ \A g \in live : ~exit[g]

(* The event loop, a go statement, an export, the end of a goroutine.      *)
OtherTurn ==
    \/ RunNext \/ LoopEnd \/ FireRun \/ CallbackEnter \/ CallbackReturn
    \/ \E g \in Goroutine : Externalize \/ Return(g) \/ Throw(g) \/ Go(g)

(* The scheduler and other Go code leave sleeping goroutines asleep.       *)
LEMMA OthersKeepSleepers ==
    ASSUME Inv, Plain, OtherTurn
    PROVE  /\ \A g \in live : asleep[g] => g \in live' /\ asleep'[g]
           /\ Plain' /\ Next
<1> USE DEF Inv, TypeOK, Plain
<1> DEFINE Kept == \A h \in live : asleep[h] => h \in live' /\ asleep'[h]
<1>1. CASE RunNext \/ LoopEnd \/ FireRun \/ CallbackEnter \/ CallbackReturn
  <2>1. Kept /\ Plain'
    BY <1>1, Zenon DEF RunNext, LoopEnd, FireRun, CallbackEnter, CallbackReturn,
                       life, wake, pending
  <2> QED
    BY <1>1, <2>1 DEF Next, EventLoop
<1>2. ASSUME NEW g \in Goroutine, Externalize \/ Throw(g)
      PROVE Kept /\ Plain' /\ Next
  <2>1. Kept /\ Plain'
    BY <1>2, Zenon DEF Externalize, Throw, life, wake, pending, machine
  <2> QED
    BY <1>2, <2>1 DEF Next, GoCode, EndTurn
<1>3. ASSUME NEW g \in Goroutine, Return(g)
      PROVE Kept /\ Plain' /\ Next
  <2>1. Running(g) /\ live' = live \ {g} /\ exit' = [exit EXCEPT ![g] = TRUE]
        /\ asleep' = [asleep EXCEPT ![g] = TRUE] /\ sleepers' = sleepers
    BY <1>3, Zenon DEF Return, Settle, pending
  <2>2. ~asleep[g]
    BY <2>1, GoroutineAssumption DEF Running, RunnableOnce
  <2>3. Kept /\ Plain'
    BY <2>1, <2>2
  <2> QED
    BY <1>3, <2>3 DEF Next, EndTurn
<1>4. ASSUME NEW g \in Goroutine, Go(g)
      PROVE Kept /\ Plain' /\ Next
  <2>1. Kept /\ Plain'
    BY <1>4 DEF Go, Spawn, pending
  <2> QED
    BY <1>4, <2>1 DEF Next, GoCode
<1> QED
  BY <1>1, <1>2, <1>3, <1>4 DEF OtherTurn

(* Waking a parked goroutine is a Ready step.                              *)
LEMMA SleeperIsReady ==
    ASSUME Inv, Plain, InGo, NEW h \in live, asleep[h],
           Schedule(h, awakeGoroutines), UNCHANGED notWaking
    PROVE  /\ h \in Goroutine /\ Ready(h) /\ Next
           /\ asleep' = [asleep EXCEPT ![h] = FALSE] /\ live' = live
           /\ UNCHANGED <<curGoroutine, callback, halted>> /\ Plain'
<1>1. h \in Goroutine /\ h \notin sleepers
  BY DEF Inv, TypeOK, Plain
<1>2. Ready(h)
  BY <1>1, Zenon DEF Ready, notWaking, pending
<1>3. /\ asleep' = [asleep EXCEPT ![h] = FALSE]
      /\ UNCHANGED <<live, exit, sleepers, curGoroutine, callback, halted>>
  BY DEF Schedule, notWaking, life, pending, ended
<1>4. Plain'
  BY <1>3 DEF Plain
<1> QED
  BY <1>1, <1>2, <1>3, <1>4 DEF Next, GoCode

(* Parking the running goroutine is a Park step.                           *)
LEMMA RunnerParks ==
    ASSUME Inv, Plain, NEW g \in Goroutine, Running(g),
           Settle(g, exit[g], awakeGoroutines, mainFinished),
           UNCHANGED notParking
    PROVE  /\ Park(g) /\ Next /\ g \in live /\ ~asleep[g]
           /\ asleep' = [asleep EXCEPT ![g] = TRUE] /\ live' = live
           /\ curGoroutine' = NoGoroutine /\ callback' = callback /\ Plain'
<1>1. g \in live /\ ~asleep[g]
  BY GoroutineAssumption DEF Inv, RunnableOnce, Running
<1>2. ~exit[g]
  BY <1>1 DEF Plain
<1>3. Park(g)
  BY <1>2, Zenon DEF Park, MayPark, notParking
<1>4. /\ asleep' = [asleep EXCEPT ![g] = TRUE] /\ curGoroutine' = NoGoroutine
      /\ UNCHANGED <<live, exit, sleepers, callback>>
  BY DEF Settle, notParking, pending
<1>5. Plain'
  BY <1>4 DEF Plain
<1> QED
  BY <1>1, <1>3, <1>4, <1>5 DEF Next, EndTurn
=============================================================================
