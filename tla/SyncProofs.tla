----------------------------- MODULE SyncProofs -----------------------------
(* Proofs about the semaphore and sync.Cond, for every set of goroutines   *)
(* and every number of permits.  Their steps are steps of the scheduler or *)
(* leave it alone, so that the invariant of GoroutinesProofs holds here    *)
(* too; the invariants are proved together, since a step wakes a goroutine *)
(* only because a waiter is asleep.                                        *)
EXTENDS Cond, GoroutinesProofs

(* What a goroutine may be doing, in a sync.Cond too.                      *)
Doing == {"go", "acquire", "unlocked", "wait"}

SemTyped == SemValues /\ at \in [Goroutine -> Doing]

SemInv ==
    /\ SemTyped /\ AwokenHavePermits /\ NoIdlePermit /\ WaitersSleep /\ Plain

(* The same goroutines are in runtime_SemacquireMutex.                     *)
SameAcquirers ==
    /\ at' \in [Goroutine -> Doing]
    /\ \A g \in Goroutine : at'[g] = "acquire" <=> at[g] = "acquire"

USE SemaphoreAssumption
USE DEF semVars

-----------------------------------------------------------------------------
(* What each kind of step does to the scheduler.                           *)

(* Waking the first waiter is a Ready step.                                *)
LEMMA WakeIsReady ==
    ASSUME Inv, SemInv, InGo, semWaiters # <<>>,
           Schedule(Head(semWaiters), awakeGoroutines), UNCHANGED notWaking
    PROVE  /\ Head(semWaiters) \in Goroutine
           /\ Ready(Head(semWaiters))
<1> DEFINE h == Head(semWaiters)
<1>1. semWaiters \in Seq(Goroutine) /\ Distinct(semWaiters)
  BY DEF SemInv, SemTyped, SemValues, WaitersSleep, Distinct
<1>2. h \in Elems(semWaiters)
  BY <1>1, TailElems
<1>3. h \in live /\ asleep[h] /\ h \notin sleepers
  BY <1>2 DEF SemInv, WaitersSleep, Waiters, Elems, Plain
<1> QED
  BY <1>3, SleeperIsReady DEF SemInv

(* Parking the running goroutine is a Park step.                           *)
LEMMA WaitIsPark ==
    ASSUME Inv, SemInv, NEW g \in Goroutine, Running(g),
           Settle(g, exit[g], awakeGoroutines, mainFinished),
           UNCHANGED notParking
    PROVE  Park(g)
BY RunnerParks DEF SemInv

(* A free goroutine runs.                                                  *)
LEMMA FreeRuns ==
    ASSUME Inv, NEW g \in Goroutine, Free(g)
    PROVE  Running(g) /\ at[g] = "go"
BY GoroutineAssumption DEF Free, InGo, InCallback, Running, Inv, Shape

(* Every step of the semaphore's specification is one of the scheduler's.  *)
LEMMA SemStepRefines ==
    ASSUME Inv, SemInv, [SemNext]_<<vars, semVars>>
    PROVE  [Next]_vars
<1>1. CASE UNCHANGED <<vars, semVars>>
  BY <1>1
<1>2. CASE Elsewhere
  BY <1>2, Zenon DEF Elsewhere, Next, EventLoop, GoCode, EndTurn
<1>3. ASSUME NEW x \in Contexts, Semacquire(x) PROVE [Next]_vars
  <2>1. CASE TakePermit
    BY <2>1 DEF TakePermit
  <2>2. CASE x # NoGoroutine /\ AwaitPermit(x)
    <3>1. x \in Goroutine /\ Running(x)
      BY <1>3, <2>2, FreeRuns DEF Semacquire, Contexts
    <3>2. Park(x)
      BY <2>2, <3>1, WaitIsPark DEF AwaitPermit
    <3> QED
      BY <3>1, <3>2 DEF Next, EndTurn
  <2> QED
    BY <1>3, <2>1, <2>2 DEF Semacquire
<1>4. ASSUME NEW x \in Contexts, Semrelease(x) PROVE [Next]_vars
  <2>1. CASE semWaiters = <<>>
    BY <1>4, <2>1 DEF Semrelease, GivePermit
  <2>2. CASE semWaiters # <<>>
    <3>1. Head(semWaiters) \in Goroutine /\ Ready(Head(semWaiters))
      BY <1>4, <2>2, WakeIsReady DEF Semrelease, GivePermit, Free
    <3> QED
      BY <3>1 DEF Next, GoCode
  <2> QED
    BY <2>1, <2>2
<1>5. ASSUME NEW g \in Goroutine, Acquired(g) PROVE [Next]_vars
  BY <1>5 DEF Acquired
<1> QED
  BY <1>1, <1>2, <1>3, <1>4, <1>5 DEF SemNext

-----------------------------------------------------------------------------
(* The invariant.                                                          *)

(* Putting a new element before a distinct queue keeps it distinct.        *)
LEMMA PrependElems ==
    ASSUME NEW S, NEW s \in Seq(S), NEW e \in S
    PROVE  /\ <<e>> \o s \in Seq(S)
           /\ Elems(<<e>> \o s) = Elems(s) \cup {e}
           /\ Distinct(s) /\ e \notin Elems(s) => Distinct(<<e>> \o s)
<1> DEFINE t == <<e>> \o s
<1>1. /\ t \in Seq(S) /\ Len(s) \in Nat /\ Len(t) = Len(s) + 1
      /\ DOMAIN s = 1 .. Len(s) /\ DOMAIN t = 1 .. (Len(s) + 1)
      /\ t[1] = e /\ \A i \in 2 .. (Len(s) + 1) : t[i] = s[i - 1]
  OBVIOUS
<1>2. ASSUME NEW x \in Elems(s) PROVE x \in Elems(t)
  <2>1. PICK i \in 1 .. Len(s) : s[i] = x
    BY <1>1 DEF Elems
  <2>2. i + 1 \in 2 .. (Len(s) + 1) /\ t[i + 1] = x
    BY <1>1, <2>1
  <2> QED
    BY <1>1, <2>2 DEF Elems
<1>3. ASSUME NEW x \in Elems(t) PROVE x \in Elems(s) \cup {e}
  BY <1>1 DEF Elems
<1>4. e \in Elems(t)
  BY <1>1 DEF Elems
<1>5. Distinct(s) /\ e \notin Elems(s) => Distinct(t)
  BY <1>1 DEF Elems, Distinct
<1> QED
  BY <1>1, <1>2, <1>3, <1>4, <1>5

(* The scheduler and other Go code leave sleeping goroutines asleep.       *)
LEMMA ElsewhereKeepsSleepers ==
    ASSUME Inv, SemInv, Elsewhere
    PROVE  /\ \A g \in live : asleep[g] => g \in live' /\ asleep'[g]
           /\ Plain'
<1>1. OtherTurn
  BY Zenon DEF Elsewhere, OtherTurn
<1> QED
  BY <1>1, OthersKeepSleepers DEF SemInv

(* The scheduler and other Go code do not touch the semaphore.             *)
LEMMA ElsewhereStep ==
    ASSUME Inv, SemInv, Elsewhere, UNCHANGED semVars
    PROVE  SemInv'
<1> USE DEF SemInv
<1>1. SemTyped' /\ AwokenHavePermits' /\ NoIdlePermit'
  BY DEF SemTyped, SemValues, AwokenHavePermits, NoIdlePermit, Awoken, Waiters
<1>2. WaitersSleep' /\ Plain'
  BY ElsewhereKeepsSleepers DEF WaitersSleep, Waiters
<1> QED
  BY <1>1, <1>2

(* The awoken waiters are finitely many.                                   *)
LEMMA AwokenFinite == IsFiniteSet(Awoken) /\ Awoken \subseteq Goroutine
BY FS_Subset, GoroutineAssumption DEF Awoken

(* A free permit is taken: the permits of awoken waiters are left.         *)
LEMMA TakeStep ==
    ASSUME SemInv, TakePermit, SameAcquirers
    PROVE  SemInv'
<1> USE DEF SemInv, TakePermit, Take
<1>1. sem \in Nat /\ semAwoken \in Nat /\ semAwoken < sem /\ sem' = sem - 1
  BY DEF SemTyped, SemValues, AwokenHavePermits
<1>2. semWaiters = <<>>
  BY DEF NoIdlePermit
<1>3. Awoken' = Awoken /\ Waiters' = Waiters
  BY DEF Awoken, Waiters, SameAcquirers
<1>4. SemTyped'
  BY <1>1 DEF SemTyped, SemValues, SameAcquirers
<1>5. AwokenHavePermits'
  BY <1>1, <1>3 DEF AwokenHavePermits
<1>6. NoIdlePermit'
  BY <1>2 DEF NoIdlePermit
<1>7. WaitersSleep' /\ Plain'
  BY <1>2, <1>3 DEF WaitersSleep, Waiters, Plain, vars, machine, life, wake, pending
<1> QED
  BY <1>4, <1>5, <1>6, <1>7

(* A goroutine joins the line asleep, at either end.                       *)
LEMMA AwaitStep ==
    ASSUME Inv, SemInv, NEW g \in Goroutine, Running(g), at[g] # "acquire",
           AwaitPermit(g)
    PROVE  SemInv'
<1> USE DEF SemInv
<1>1. semWaiters \in Seq(Goroutine) /\ Distinct(semWaiters)
  BY DEF SemTyped, SemValues, WaitersSleep, Distinct
<1>2. g \notin Waiters
  BY DEF WaitersSleep
<1>3. g \in live
  BY GoroutineAssumption DEF Running, Inv, RunnableOnce
<1>4. /\ semWaiters' \in Seq(Goroutine) /\ Distinct(semWaiters')
      /\ Waiters' = Waiters \cup {g}
  <2>1. CASE semWaiters' = Append(semWaiters, g)
    BY <1>1, <1>2, <2>1, AppendElems DEF Waiters, Elems
  <2>2. CASE semWaiters' = <<g>> \o semWaiters
    <3>1. g \notin Elems(semWaiters)
      BY <1>2 DEF Waiters, Elems
    <3>2. /\ semWaiters' \in Seq(Goroutine) /\ Distinct(semWaiters')
          /\ Elems(semWaiters') = Elems(semWaiters) \cup {g}
      BY <1>1, <2>2, <3>1, PrependElems
    <3> QED
      BY <3>2 DEF Waiters, Elems
  <2> QED
    BY <2>1, <2>2 DEF AwaitPermit
<1>5. Awoken' = Awoken
  BY <1>2, <1>4 DEF Awoken, AwaitPermit, SemTyped
<1>6. SemTyped' /\ AwokenHavePermits' /\ NoIdlePermit'
  BY <1>4, <1>5 DEF SemTyped, SemValues, AwokenHavePermits, NoIdlePermit, AwaitPermit, Doing
<1>7. \A w \in Waiters' : w \in live' /\ asleep'[w] /\ at'[w] = "acquire"
  BY <1>3, <1>4 DEF WaitersSleep, AwaitPermit, Settle, notParking, SemTyped,
                   Inv, TypeOK
<1>8. WaitersSleep'
  BY <1>4, <1>7 DEF WaitersSleep, Distinct
<1>9. Plain'
  BY DEF Plain, AwaitPermit, notParking, pending
<1> QED
  BY <1>6, <1>8, <1>9

(* A permit is released: the first waiter, if any, leaves the line awoken. *)
LEMMA GiveStep ==
    ASSUME Inv, SemInv, sem < MaxPermits, GivePermit, SameAcquirers
    PROVE  SemInv'
<1> USE DEF SemInv, GivePermit, SameAcquirers
<1> DEFINE h == Head(semWaiters)
<1>1. semWaiters \in Seq(Goroutine) /\ Distinct(semWaiters)
  BY DEF SemTyped, SemValues, WaitersSleep, Distinct
<1>2. CASE semWaiters = <<>>
  <2>1. SemTyped' /\ NoIdlePermit'
    BY <1>2 DEF SemTyped, SemValues, NoIdlePermit
  <2>2. AwokenHavePermits'
    <3>1. Awoken' = Awoken
      BY <1>2 DEF Awoken, Waiters
    <3> QED
      BY <1>2, <3>1 DEF AwokenHavePermits, SemTyped, SemValues
  <2>3. WaitersSleep' /\ Plain'
    BY <1>2 DEF WaitersSleep, Waiters, Plain, vars, machine, life, wake, pending
  <2> QED
    BY <2>1, <2>2, <2>3
<1>3. CASE semWaiters # <<>>
  <2>1. /\ h \in Waiters /\ Waiters' = Waiters \ {h} /\ Distinct(semWaiters')
        /\ semWaiters' \in Seq(Goroutine)
    <3>1. /\ h \in Elems(semWaiters) /\ Distinct(Tail(semWaiters))
          /\ Elems(Tail(semWaiters)) = Elems(semWaiters) \ {h}
      BY <1>1, <1>3, TailElems
    <3>2. semWaiters' = Tail(semWaiters) /\ Tail(semWaiters) \in Seq(Goroutine)
      BY <1>1, <1>3
    <3>3. Elems(semWaiters') = Elems(semWaiters) \ {h} /\ Distinct(semWaiters')
      BY <3>1, <3>2
    <3> QED
      BY <3>1, <3>2, <3>3 DEF Waiters, Elems
  <2>2. h \in Goroutine /\ at[h] = "acquire" /\ h \notin Awoken
    BY <2>1 DEF WaitersSleep, Inv, TypeOK, Awoken
  <2>3. Awoken' = Awoken \cup {h}
    BY <2>1, <2>2 DEF Awoken
  <2>4. Cardinality(Awoken') = Cardinality(Awoken) + 1
    BY <2>2, <2>3, AwokenFinite, FS_AddElement
  <2>5. SemTyped' /\ AwokenHavePermits' /\ NoIdlePermit'
    <3>1. sem' = sem + 1 /\ semAwoken' = semAwoken + 1 /\ sem \in Nat /\ semAwoken \in Nat
      BY <1>3 DEF SemTyped, SemValues
    <3>2. SemTyped'
      BY <2>1, <3>1 DEF SemTyped, SemValues
    <3>3. AwokenHavePermits'
      BY <2>4, <3>1 DEF AwokenHavePermits
    <3>4. NoIdlePermit'
      BY <1>3, <3>1 DEF NoIdlePermit
    <3> QED
      BY <3>2, <3>3, <3>4
  <2>6. asleep' = [asleep EXCEPT ![h] = FALSE] /\ live' = live
        /\ exit' = exit /\ sleepers' = sleepers
    BY <1>3 DEF Schedule, notWaking, life, pending
  <2>7. WaitersSleep'
    BY <2>1, <2>6 DEF WaitersSleep, Distinct, Inv, TypeOK
  <2>8. Plain'
    BY <2>6 DEF Plain
  <2> QED
    BY <2>5, <2>7, <2>8
<1> QED
  BY <1>2, <1>3

(* The awoken waiter takes the permit it was given.                        *)
LEMMA AcquiredStep ==
    ASSUME Inv, SemInv, NEW g \in Goroutine, Acquired(g)
    PROVE  SemInv'
<1> USE DEF SemInv, Acquired
<1>1. ~asleep[g]
  BY GoroutineAssumption DEF Running, Inv, RunnableOnce
<1>2. g \in Awoken /\ g \notin Waiters
  BY <1>1 DEF WaitersSleep, Awoken
<1>3. Waiters' = Waiters
  BY DEF Waiters
<1>4. Awoken' = Awoken \ {g}
  BY <1>2, <1>3 DEF Awoken, SemTyped
<1>5. Cardinality(Awoken') = Cardinality(Awoken) - 1 /\ Cardinality(Awoken) \in Nat
  BY <1>2, <1>4, AwokenFinite, FS_RemoveElement, FS_CardinalityType
<1>6. Cardinality(Awoken) > 0
  BY <1>2, AwokenFinite, FS_EmptySet, FS_CardinalityType
<1>7. sem \in Nat /\ semAwoken \in Nat /\ 0 < semAwoken /\ semAwoken <= sem
      /\ sem' = sem - 1 /\ semAwoken' = semAwoken - 1
  BY <1>6 DEF SemTyped, SemValues, AwokenHavePermits, Take
<1>8. SemTyped' /\ AwokenHavePermits'
  <2>1. SemTyped'
    BY <1>7 DEF SemTyped, SemValues, Doing
  <2>2. AwokenHavePermits'
    BY <1>5, <1>7 DEF AwokenHavePermits
  <2> QED
    BY <2>1, <2>2
<1>9. NoIdlePermit'
  BY <1>7 DEF NoIdlePermit
<1>10. WaitersSleep' /\ Plain'
  BY <1>2, <1>3 DEF WaitersSleep, Plain, SemTyped, vars, machine, life, wake, pending
<1> QED
  BY <1>8, <1>9, <1>10

(* Every step keeps both invariants.                                       *)
LEMMA SemStep ==
    Inv /\ SemInv /\ [SemNext]_<<vars, semVars>> => Inv' /\ SemInv'
<1> SUFFICES ASSUME Inv, SemInv, [SemNext]_<<vars, semVars>>
             PROVE  Inv' /\ SemInv'
  OBVIOUS
<1>1. Inv'
  BY SemStepRefines, TypeStep, QueueStep DEF Inv
<1>2. ASSUME UNCHANGED <<vars, semVars>> PROVE SemInv'
  BY <1>2 DEF SemInv, SemTyped, SemValues, AwokenHavePermits, NoIdlePermit,
              WaitersSleep, Awoken, Waiters, Plain, vars, machine, life, wake, pending
<1>3. ASSUME Elsewhere, UNCHANGED semVars PROVE SemInv'
  BY <1>3, ElsewhereStep
<1>4. ASSUME NEW x \in Contexts, Semacquire(x) PROVE SemInv'
  <2>1. ASSUME x # NoGoroutine PROVE x \in Goroutine /\ Running(x) /\ at[x] = "go"
    BY <1>4, <2>1, FreeRuns DEF Semacquire, Contexts
  <2>2. UNCHANGED at => SameAcquirers
    BY DEF SameAcquirers, SemInv, SemTyped
  <2> QED
    BY <1>4, <2>1, <2>2, TakeStep, AwaitStep DEF Semacquire
<1>5. ASSUME NEW x \in Contexts, Semrelease(x) PROVE SemInv'
  BY <1>5, GiveStep DEF Semrelease, SameAcquirers, SemInv, SemTyped
<1>6. ASSUME NEW g \in Goroutine, Acquired(g) PROVE SemInv'
  BY <1>6, AcquiredStep
<1>7. SemInv'
  BY <1>2, <1>3, <1>4, <1>5, <1>6 DEF SemNext
<1> QED
  BY <1>1, <1>7

(* Nobody waits and nobody is awoken at first.                             *)
LEMMA SemInitInv == SemInit => Inv /\ SemInv
<1> SUFFICES ASSUME SemInit PROVE Inv /\ SemInv
  OBVIOUS
<1>1. Inv
  BY InitInv DEF SemInit
<1>2. sem = Permits /\ semAwoken = 0 /\ semWaiters = <<>>
      /\ at = [g \in Goroutine |-> "go"]
  BY DEF SemInit
<1>3. Waiters = {} /\ Awoken = {}
  BY <1>2 DEF Waiters, Awoken
<1>4. Cardinality(Awoken) = 0
  BY <1>3, FS_EmptySet
<1>5. SemTyped /\ AwokenHavePermits /\ NoIdlePermit
  BY <1>2, <1>4 DEF SemTyped, SemValues, AwokenHavePermits, NoIdlePermit, Doing
<1>6. WaitersSleep
  BY <1>2, <1>3 DEF WaitersSleep
<1>7. sleepers = {} /\ exit = [g \in Goroutine |-> g # Main] /\ live = {Main}
  BY DEF SemInit, Init
<1>8. Plain
  BY <1>7, GoroutineAssumption, Zenon DEF Plain
<1> QED
  BY <1>1, <1>5, <1>6, <1>8 DEF SemInv

-----------------------------------------------------------------------------
(* The theorems.                                                           *)

(* Both invariants hold throughout.                                        *)
THEOREM SemaphoreInvariant == SemSpec => [](Inv /\ SemInv)
BY SemInitInv, SemStep, PTL DEF SemSpec

(* A program of semaphores is a program of the scheduler: all that is      *)
(* proved of the scheduler holds with semaphores on top.                   *)
THEOREM SemRefinesScheduler == SemSpec => Spec
<1>1. SemInit => Init
  BY DEF SemInit
<1>2. Inv /\ SemInv /\ [SemNext]_<<vars, semVars>> => [Next]_vars
  BY SemStepRefines
<1> QED
  BY <1>1, <1>2, SemaphoreInvariant, PTL DEF SemSpec, Spec

(* The variables of the semaphore keep their types: *s never falls below   *)
(* zero.                                                                   *)
THEOREM SemTypeCorrect == SemSpec => []SemTypeOK
<1> DEFINE atOK == at \in [Goroutine -> {"go", "acquire"}]
<1>1. SemInit => atOK
  BY DEF SemInit
<1>2. atOK /\ [SemNext]_<<vars, semVars>> => atOK'
  <2> SUFFICES ASSUME atOK, [SemNext]_<<vars, semVars>> PROVE atOK'
    OBVIOUS
  <2>1. UNCHANGED at \/ \E g, what : at' = [at EXCEPT ![g] = what] /\ what \in {"go", "acquire"}
    BY Zenon DEF SemNext, Semacquire, Semrelease, AwaitPermit, Acquired
  <2> QED
    BY <2>1
<1>3. SemInv /\ atOK => SemTypeOK
  BY DEF SemInv, SemTyped, SemTypeOK
<1> QED
  BY <1>1, <1>2, <1>3, SemaphoreInvariant, PTL DEF SemSpec

(* A waiter that Semrelease has woken finds its permit, whatever others do *)
(* before it runs.                                                         *)
THEOREM PermitsKept == SemSpec => []AwokenHavePermits
BY SemaphoreInvariant, PTL DEF SemInv

(* Nobody waits for a permit that is free.                                 *)
THEOREM NoPermitIdle == SemSpec => []NoIdlePermit
BY SemaphoreInvariant, PTL DEF SemInv

(* A waiter in line sleeps until it is handed a permit.                    *)
THEOREM LineSleeps == SemSpec => []WaitersSleep
BY SemaphoreInvariant, PTL DEF SemInv

(* What a semaphore does to the hand-off of permits.                       *)
LEMMA HandoffMoves ==
    ASSUME SemInv
    PROVE  /\ TakePermit => Handoffs!Take
           /\ \A g : AwaitPermit(g) => Handoffs!Wait(g)
           /\ GivePermit => Handoffs!Give \/ Handoffs!Pass
           /\ \A g : Acquired(g) /\ SemInv' => UNCHANGED <<sem - semAwoken, semWaiters>>
<1>1. sem \in Nat /\ semAwoken \in Nat /\ semAwoken <= sem
  BY DEF SemInv, SemTyped, SemValues, AwokenHavePermits
<1>2. ASSUME TakePermit PROVE Handoffs!Take
  BY <1>1, <1>2 DEF TakePermit, Take, Handoffs!Take
<1>3. ASSUME NEW g, AwaitPermit(g) PROVE Handoffs!Wait(g)
  BY <1>1, <1>3 DEF AwaitPermit, Handoffs!Wait
<1>4. ASSUME GivePermit PROVE Handoffs!Give \/ Handoffs!Pass
  BY <1>1, <1>4 DEF GivePermit, Handoffs!Give, Handoffs!Pass
<1>5. ASSUME NEW g, Acquired(g), SemInv' PROVE UNCHANGED <<sem - semAwoken, semWaiters>>
  BY <1>1, <1>5 DEF Acquired, Take, SemInv, SemTyped, SemValues
<1> QED
  BY <1>2, <1>3, <1>4, <1>5

(* Every step of the semaphore is one of the hand-off, or none.            *)
LEMMA HandoffStep ==
    ASSUME SemInv, SemInv', SemNext
    PROVE  [Handoffs!HandoffNext]_<<sem - semAwoken, semWaiters>>
<1> USE HandoffMoves DEF Handoffs!HandoffNext
<1>1. ASSUME NEW g \in Goroutine, Acquired(g)
      PROVE  UNCHANGED <<sem - semAwoken, semWaiters>>
  BY <1>1
<1>2. ASSUME NEW x \in Contexts, Semacquire(x)
      PROVE  Handoffs!Take \/ \E w \in Goroutine : Handoffs!Wait(w)
  BY <1>2 DEF Semacquire, Contexts
<1>3. ASSUME NEW x \in Contexts, Semrelease(x)
      PROVE  Handoffs!Give \/ Handoffs!Pass
  BY <1>3 DEF Semrelease
<1> QED
  BY <1>1, <1>2, <1>3 DEF SemNext

(* The semaphore implements the first-come hand-off of permits.            *)
THEOREM ImplementsHandoff == SemSpec => RefinesHandoff
<1>1. SemInit => Handoffs!HandoffInit
  BY DEF SemInit, Handoffs!HandoffInit
<1>2. ASSUME Inv, SemInv, [SemNext]_<<vars, semVars>>
      PROVE  [Handoffs!HandoffNext]_<<sem - semAwoken, semWaiters>>
  <2>1. SemInv'
    BY <1>2, SemStep
  <2>2. CASE UNCHANGED semVars
    BY <2>2
  <2> QED
    BY <1>2, <2>1, <2>2, HandoffStep
<1> QED
  BY <1>1, <1>2, SemaphoreInvariant, PTL
  DEF SemSpec, RefinesHandoff, Handoffs!HandoffSpec

-----------------------------------------------------------------------------
(* sync.Cond.                                                              *)

(* Who is in <-c.ch sleeps and is in line once.                            *)
CondSleep ==
    /\ \A g \in Elems(condWaiters) : g \in live /\ asleep[g] /\ at[g] = "wait"
    /\ Distinct(condWaiters)

CondBase ==
    /\ n \in Nat
    /\ condWaiters \in Seq(Goroutine)
    /\ remaining \in [Contexts -> Nat]
    /\ CondSleep

CondCore == Inv /\ SemInv /\ CondBase

(* Whoever sleeps in <-c.ch goes on to.                                    *)
LEMMA SleepersStay ==
    ASSUME CondCore, UNCHANGED condWaiters,
           \A g \in Goroutine : g \in live /\ asleep[g] /\ at[g] = "wait"
                               => g \in live' /\ asleep'[g] /\ at'[g] = "wait"
    PROVE  CondSleep'
<1>1. Elems(condWaiters) \subseteq Goroutine /\ Elems(condWaiters') = Elems(condWaiters)
  BY DEF CondCore, CondBase, Elems
<1> QED
  BY <1>1 DEF CondCore, CondBase, CondSleep

(* c.ch <- true is a Ready step.                                           *)
LEMMA CondWakeIsReady ==
    ASSUME CondCore, InGo, WakeOne
    PROVE  /\ Head(condWaiters) \in Goroutine /\ Ready(Head(condWaiters))
           /\ SemInv' /\ condWaiters' \in Seq(Goroutine) /\ CondSleep'
<1> USE DEF CondCore, WakeOne
<1> DEFINE h == Head(condWaiters)
<1>1. /\ condWaiters \in Seq(Goroutine) /\ condWaiters # <<>> /\ Distinct(condWaiters)
      /\ Schedule(h, awakeGoroutines) /\ UNCHANGED <<notWaking, semVars>>
  BY DEF CondBase, CondSleep
<1>2. /\ h \in Elems(condWaiters) /\ Distinct(Tail(condWaiters))
      /\ Elems(Tail(condWaiters)) = Elems(condWaiters) \ {h}
  BY <1>1, TailElems
<1>3. h \in live /\ asleep[h] /\ at[h] = "wait" /\ h \notin sleepers /\ h \in Goroutine
  BY <1>2 DEF CondBase, CondSleep, SemInv, Plain, Inv, TypeOK
<1>4. Ready(h)
  BY <1>1, <1>3, Zenon DEF Ready, notWaking, pending
<1>5. asleep' = [asleep EXCEPT ![h] = FALSE] /\ UNCHANGED <<live, exit, sleepers>>
  BY <1>1 DEF Schedule, notWaking, life, pending
<1>6. SemTyped' /\ AwokenHavePermits' /\ NoIdlePermit' /\ Plain'
  BY <1>1, <1>5 DEF SemInv, SemTyped, SemValues, AwokenHavePermits, Awoken, Waiters,
                    NoIdlePermit, Plain
<1>7. WaitersSleep'
  BY <1>1, <1>3, <1>5 DEF SemInv, WaitersSleep, Waiters, Inv, TypeOK
<1>8. condWaiters' = Tail(condWaiters) /\ condWaiters' \in Seq(Goroutine)
  BY <1>1
<1>9. CondSleep'
  BY <1>1, <1>2, <1>5, <1>8 DEF CondBase, CondSleep, Inv, TypeOK
<1> QED
  BY <1>3, <1>4, <1>6, <1>7, <1>8, <1>9 DEF SemInv

(* Wait parks in <-c.ch.                                                   *)
LEMMA CondParkStep ==
    ASSUME CondCore, NEW g \in Goroutine, WaitPark(g)
    PROVE  Park(g) /\ SemInv' /\ CondBase'
<1> USE DEF CondCore, WaitPark
<1>1. Park(g)
  BY WaitIsPark
<1>2. g \in live /\ at[g] = "unlocked" /\ Running(g)
  BY GoroutineAssumption DEF Running, Inv, RunnableOnce
<1>3. /\ asleep' = [asleep EXCEPT ![g] = TRUE] /\ at' = [at EXCEPT ![g] = "wait"]
      /\ UNCHANGED <<live, exit, sleepers, sem, semAwoken, semWaiters>>
  BY DEF Settle, notParking, pending
<1>4. SameAcquirers
  BY <1>2, <1>3 DEF SameAcquirers, SemInv, SemTyped, Doing
<1>5. Waiters' = Waiters /\ Awoken' = Awoken
  BY <1>3, <1>4 DEF Waiters, Awoken, SameAcquirers
<1>6. SemTyped' /\ AwokenHavePermits' /\ NoIdlePermit' /\ Plain'
  BY <1>3, <1>4, <1>5 DEF SemInv, SemTyped, SemValues, SameAcquirers, AwokenHavePermits,
                          NoIdlePermit, Plain
<1>7. WaitersSleep'
  BY <1>2, <1>3, <1>5 DEF SemInv, SemTyped, WaitersSleep, Waiters, Inv, TypeOK
<1>8. g \notin Elems(condWaiters) /\ condWaiters \in Seq(Goroutine) /\ Distinct(condWaiters)
  BY <1>2 DEF CondBase, CondSleep
<1>9. /\ condWaiters' = Append(condWaiters, g) /\ condWaiters' \in Seq(Goroutine)
      /\ Elems(condWaiters') = Elems(condWaiters) \cup {g} /\ Distinct(condWaiters')
  BY <1>8, AppendElems
<1>10. CondSleep'
  BY <1>2, <1>3, <1>9 DEF CondBase, CondSleep, Inv, TypeOK, SemInv, SemTyped
<1> QED
  BY <1>1, <1>6, <1>7, <1>9, <1>10 DEF SemInv, CondBase

(* Wait counts itself and unlocks.                                         *)
LEMMA CondUnlockStep ==
    ASSUME CondCore, NEW g \in Goroutine, WaitUnlock(g)
    PROVE  [Next]_vars /\ SemInv' /\ CondBase'
<1> USE DEF CondCore
<1>1. /\ Running(g) /\ at[g] = "go" /\ Free(g)
  BY FreeRuns DEF WaitUnlock, CondFree
<1>2. /\ at' = [at EXCEPT ![g] = "unlocked"] /\ at \in [Goroutine -> Doing]
      /\ UNCHANGED <<condWaiters, remaining>> /\ n' = n + 1
  BY DEF WaitUnlock, SemInv, SemTyped
<1>3. SameAcquirers
  BY <1>1, <1>2 DEF SameAcquirers, Doing
<1>4. SemInv'
  BY <1>3, GiveStep DEF WaitUnlock
<1>5. CASE semWaiters = <<>>
  <2>1. UNCHANGED vars
    BY <1>5 DEF WaitUnlock, GivePermit
  <2>2. UNCHANGED <<live, asleep>>
    BY <2>1 DEF vars, machine, life, wake
  <2>3. CondSleep'
    BY <1>1, <1>2, <2>2, SleepersStay
  <2> QED
    BY <1>2, <1>4, <2>1, <2>3 DEF CondBase
<1>6. CASE semWaiters # <<>>
  <2> DEFINE h == Head(semWaiters)
  <2>1. Schedule(h, awakeGoroutines) /\ UNCHANGED notWaking
    BY <1>6 DEF WaitUnlock, GivePermit
  <2>2. h \in Goroutine /\ Ready(h)
    BY <1>1, <1>6, <2>1, WakeIsReady DEF Free
  <2>3. h \in Waiters
    BY <1>6, TailElems DEF Waiters, Elems, SemInv, SemTyped, SemValues, WaitersSleep, Distinct
  <2>4. at[h] = "acquire" /\ asleep' = [asleep EXCEPT ![h] = FALSE] /\ live' = live
    BY <2>1, <2>3 DEF Schedule, notWaking, life, SemInv, WaitersSleep
  <2>5. CondSleep'
    BY <1>1, <1>2, <2>4, SleepersStay DEF Inv, TypeOK
  <2> QED
    BY <1>2, <1>4, <2>2, <2>5 DEF CondBase, Next, GoCode
<1> QED
  BY <1>5, <1>6

(* Wait locks again.                                                       *)
LEMMA CondLockStep ==
    ASSUME CondCore, NEW g \in Goroutine, WaitLock(g)
    PROVE  [Next]_vars /\ SemInv' /\ CondBase'
<1> USE DEF CondCore
<1>1. Running(g) /\ at[g] = "wait" /\ UNCHANGED condVars
  BY DEF WaitLock
<1>2. ~asleep[g] /\ at \in [Goroutine -> Doing]
  BY <1>1, GoroutineAssumption DEF Running, Inv, RunnableOnce, SemInv, SemTyped
<1>3. CASE TakePermit /\ at' = [at EXCEPT ![g] = "go"]
  <2>1. SameAcquirers /\ UNCHANGED vars
    BY <1>1, <1>2, <1>3 DEF SameAcquirers, Doing, TakePermit
  <2>2. SemInv'
    BY <1>3, <2>1, TakeStep
  <2>3. UNCHANGED <<live, asleep>>
    BY <2>1 DEF vars, machine, life, wake
  <2>4. CondSleep'
    BY <1>1, <1>2, <1>3, <2>3, SleepersStay DEF condVars
  <2> QED
    BY <1>1, <2>1, <2>2, <2>4 DEF CondBase, condVars
<1>4. CASE AwaitPermit(g)
  <2>1. SemInv'
    BY <1>1, <1>4, AwaitStep
  <2>2. Park(g)
    BY <1>1, <1>4, WaitIsPark DEF AwaitPermit
  <2>3. /\ at' = [at EXCEPT ![g] = "acquire"] /\ asleep' = [asleep EXCEPT ![g] = TRUE]
        /\ live' = live
    BY <1>4 DEF AwaitPermit, Settle, notParking
  <2>4. CondSleep'
    BY <1>1, <1>2, <2>3, SleepersStay DEF condVars, Inv, TypeOK
  <2> QED
    BY <1>1, <2>1, <2>2, <2>4 DEF CondBase, condVars, Next, EndTurn
<1> QED
  BY <1>3, <1>4 DEF WaitLock

(* The semaphore and the scheduler below.                                  *)
LEMMA CondOtherStep ==
    ASSUME CondCore, Other
    PROVE  [Next]_vars /\ SemInv' /\ CondBase'
<1> USE DEF CondCore
<1>1. SemNext
  BY Zenon DEF Other, SemNext
<1>2. [Next]_vars /\ SemInv'
  BY <1>1, SemStepRefines, SemStep
<1>3. UNCHANGED <<n, condWaiters>> /\ remaining' \in [Contexts -> Nat]
  BY DEF Other, CondBase, Contexts
<1>4. \A g \in Goroutine : g \in live /\ asleep[g] /\ at[g] = "wait"
                           => g \in live' /\ asleep'[g] /\ at'[g] = "wait"
  <2>1. CASE Elsewhere /\ UNCHANGED semVars
    BY <2>1, ElsewhereKeepsSleepers
  <2>2. ASSUME UNCHANGED vars, UNCHANGED at
        PROVE \A g \in Goroutine : g \in live /\ asleep[g] /\ at[g] = "wait"
                           => g \in live' /\ asleep'[g] /\ at'[g] = "wait"
    BY <2>2 DEF vars, machine, life, wake
  <2>3. ASSUME NEW x \in Contexts, Semacquire(x), ~(TakePermit /\ UNCHANGED at)
        PROVE \A g \in Goroutine : g \in live /\ asleep[g] /\ at[g] = "wait"
                           => g \in live' /\ asleep'[g] /\ at'[g] = "wait"
    <3>1. x \in Goroutine /\ Running(x) /\ at[x] = "go" /\ AwaitPermit(x)
      BY <2>3, FreeRuns DEF Semacquire, Contexts
    <3>2. /\ at' = [at EXCEPT ![x] = "acquire"] /\ asleep' = [asleep EXCEPT ![x] = TRUE]
          /\ live' = live
      BY <3>1 DEF AwaitPermit, Settle, notParking
    <3> QED
      BY <3>1, <3>2 DEF Inv, TypeOK
  <2>4. ASSUME NEW x \in Contexts, Semrelease(x), semWaiters # <<>>
        PROVE \A g \in Goroutine : g \in live /\ asleep[g] /\ at[g] = "wait"
                           => g \in live' /\ asleep'[g] /\ at'[g] = "wait"
    <3> DEFINE h == Head(semWaiters)
    <3>1. Schedule(h, awakeGoroutines) /\ UNCHANGED notWaking /\ UNCHANGED at
      BY <2>4 DEF Semrelease, GivePermit
    <3>2. h \in Waiters
      BY <2>4, TailElems DEF Waiters, Elems, SemInv, SemTyped, SemValues, WaitersSleep, Distinct
    <3>3. at[h] = "acquire" /\ asleep' = [asleep EXCEPT ![h] = FALSE] /\ live' = live
      BY <3>1, <3>2 DEF Schedule, notWaking, life, SemInv, WaitersSleep
    <3> QED
      BY <3>1, <3>3 DEF Inv, TypeOK
  <2>5. ASSUME NEW x \in Contexts, Semrelease(x), semWaiters = <<>>
        PROVE UNCHANGED vars /\ UNCHANGED at
    BY <2>5 DEF Semrelease, GivePermit
  <2>6. ASSUME NEW h \in Goroutine, Acquired(h)
        PROVE \A g \in Goroutine : g \in live /\ asleep[g] /\ at[g] = "wait"
                           => g \in live' /\ asleep'[g] /\ at'[g] = "wait"
    BY <2>6 DEF Acquired, vars, machine, life, wake
  <2>7. TakePermit => UNCHANGED vars
    BY DEF TakePermit
  <2> QED
    BY <1>1, <2>1, <2>2, <2>3, <2>4, <2>5, <2>6, <2>7 DEF SemNext
<1>5. CondSleep'
  BY <1>3, <1>4, SleepersStay
<1> QED
  BY <1>2, <1>3, <1>5 DEF CondBase

(* Signal, Broadcast and its turns.                                        *)
LEMMA CondCallStep ==
    ASSUME CondCore, NEW x \in Contexts, Signal(x) \/ Broadcast(x) \/ BroadcastStep(x)
    PROVE  [Next]_vars /\ SemInv' /\ CondBase'
<1> USE DEF CondCore
<1>1. n \in Nat /\ remaining \in [Contexts -> Nat]
  BY DEF CondBase
<1>2. CASE Broadcast(x)
  <2>1. UNCHANGED <<vars, semVars, condWaiters>>
    BY <1>2 DEF Broadcast
  <2>2. SemInv'
    BY <2>1, SemStep
  <2>3. CondSleep'
    BY <2>1, SleepersStay DEF vars, machine, life, wake
  <2>4. n' \in Nat /\ remaining' \in [Contexts -> Nat]
    BY <1>1, <1>2 DEF Broadcast
  <2> QED
    BY <2>1, <2>2, <2>3, <2>4 DEF CondBase
<1>3. CASE Signal(x) \/ BroadcastStep(x)
  <2>1. InGo /\ WakeOne
    BY <1>3 DEF Signal, BroadcastStep, CondFree, Free
  <2>2. n' \in Nat /\ remaining' \in [Contexts -> Nat]
    BY <1>1, <1>3 DEF Signal, BroadcastStep
  <2> QED
    BY <2>1, <2>2, CondWakeIsReady DEF CondBase, Next, GoCode
<1> QED
  BY <1>2, <1>3

(* Every step is one of the scheduler, or none, and keeps the invariants.  *)
LEMMA CondStep ==
    ASSUME CondCore, [CondNext]_<<vars, semVars, condVars>>
    PROVE  [Next]_vars /\ CondCore'
<1>1. CASE UNCHANGED <<vars, semVars, condVars>>
  <2>1. SemInv'
    BY <1>1, SemStep DEF CondCore
  <2>2. CondSleep'
    BY <1>1, SleepersStay DEF vars, machine, life, wake, condVars
  <2>3. CondBase'
    BY <1>1, <2>2 DEF CondCore, CondBase, condVars
  <2> QED
    BY <1>1, <2>1, <2>3, TypeStep, QueueStep DEF CondCore, Inv
<1>2. CASE CondNext
  <2>1. [Next]_vars /\ SemInv' /\ CondBase'
    BY <1>2, CondOtherStep, CondUnlockStep, CondParkStep, CondLockStep, CondCallStep
    DEF CondNext, Next, EndTurn
  <2> QED
    BY <2>1, TypeStep, QueueStep DEF CondCore, Inv
<1> QED
  BY <1>1, <1>2

(* At first nobody waits.                                                  *)
LEMMA CondInitCore == CondInit => CondCore
<1> SUFFICES ASSUME CondInit PROVE CondCore
  OBVIOUS
<1>1. Inv /\ SemInv
  BY SemInitInv DEF CondInit
<1>2. condWaiters = <<>> /\ Elems(condWaiters) = {} /\ Distinct(condWaiters)
  BY DEF CondInit, Elems, Distinct
<1> QED
  BY <1>1, <1>2 DEF CondCore, CondBase, CondSleep, CondInit

(* The invariants hold throughout.                                         *)
THEOREM CondInvariant == CondSpec => []CondCore
BY CondInitCore, CondStep, PTL DEF CondSpec

(* A program with a sync.Cond is a program of the scheduler.               *)
THEOREM CondRefinesScheduler == CondSpec => Spec
<1>1. CondInit => Init
  BY DEF CondInit, SemInit
<1> QED
  BY <1>1, CondStep, CondInvariant, PTL DEF CondSpec, Spec

(* Wait unlocks and locks like any other goroutine: whoever was handed a   *)
(* permit finds it, in every program with a sync.Cond whose Locker is made *)
(* of the semaphore.                                                       *)
THEOREM CondKeepsPermits == CondSpec => []AwokenHavePermits
BY CondInvariant, PTL DEF CondCore, SemInv

(* Nobody in such a program waits for a permit that is free.               *)
THEOREM CondNoPermitIdle == CondSpec => []NoIdlePermit
BY CondInvariant, PTL DEF CondCore, SemInv

(* Permits go to the first in line in such a program too.                  *)
THEOREM CondImplementsHandoff == CondSpec => RefinesHandoff
<1>1. CondInit => Handoffs!HandoffInit
  BY DEF CondInit, SemInit, Handoffs!HandoffInit
<1>2. ASSUME CondCore, CondCore', [CondNext]_<<vars, semVars, condVars>>
      PROVE  [Handoffs!HandoffNext]_<<sem - semAwoken, semWaiters>>
  <2>1. SemInv /\ SemInv'
    BY <1>2 DEF CondCore
  <2>2. ASSUME UNCHANGED <<sem, semAwoken, semWaiters>>
        PROVE  [Handoffs!HandoffNext]_<<sem - semAwoken, semWaiters>>
    BY <2>2
  <2>3. CASE Other
    <3>1. SemNext
      BY <2>3, Zenon DEF Other, SemNext
    <3> QED
      BY <2>1, <3>1, HandoffStep
  <2>4. ASSUME NEW g \in Goroutine, WaitUnlock(g) \/ WaitPark(g) \/ WaitLock(g)
        PROVE  [Handoffs!HandoffNext]_<<sem - semAwoken, semWaiters>>
    <3>1. CASE WaitPark(g)
      BY <2>2, <3>1 DEF WaitPark
    <3>2. CASE WaitUnlock(g) \/ WaitLock(g)
      BY <2>1, <2>4, <3>2, HandoffMoves DEF Handoffs!HandoffNext, WaitUnlock, WaitLock
    <3> QED
      BY <2>4, <3>1, <3>2
  <2>5. ASSUME NEW x \in Contexts, Signal(x) \/ Broadcast(x) \/ BroadcastStep(x)
        PROVE  UNCHANGED <<sem, semAwoken, semWaiters>>
    BY <2>5 DEF Signal, Broadcast, BroadcastStep, WakeOne
  <2> QED
    BY <1>2, <2>2, <2>3, <2>4, <2>5 DEF CondNext
<1> QED
  BY <1>1, <1>2, CondInvariant, PTL
  DEF CondSpec, RefinesHandoff, Handoffs!HandoffSpec
-----------------------------------------------------------------------------
(* The count of a sync.Cond.  An exception that ends a callback in the     *)
(* middle of its Broadcast leaves goroutines behind that c.n no longer     *)
(* counts, so the process must end with it.                                *)

(* The turns that the loops on the stack have left: the callback's, and    *)
(* that of the goroutine that runs nested in it.                           *)
Loops == remaining[NoGoroutine]
           + (IF curGoroutine = NoGoroutine THEN 0 ELSE remaining[curGoroutine])

(* A goroutine counts itself before it parks.                              *)
Leaving == IF curGoroutine # NoGoroutine /\ at[curGoroutine] = "unlocked"
           THEN 1 ELSE 0

(* Only the goroutine that runs is between its two steps of Wait or in a   *)
(* loop, and a callback that has a loop is still on the stack.             *)
InTurn ==
    /\ \A g \in Goroutine : /\ g # curGoroutine => remaining[g] = 0 /\ at[g] # "unlocked"
                            /\ at[g] # "go" => remaining[g] = 0
    /\ remaining[NoGoroutine] > 0 => callback \/ halted

(* Who waited when a Broadcast began stands in line before those who came  *)
(* later, within the reach of the loops.                                   *)
Counted ==
    ~halted => /\ n + Loops = Len(condWaiters) + Leaving
               /\ owed \subseteq Elems(condWaiters)
               /\ \A i \in DOMAIN condWaiters : condWaiters[i] \in owed => i <= Loops

(* What runs besides, as Other, is not in Wait and not in a Broadcast.     *)
LEMMA OtherIsCalm ==
    ASSUME HasProcess, CondCore, InTurn, Other
    PROVE  /\ \A g \in Goroutine : /\ remaining[g] = 0 /\ remaining'[g] = 0
                                   /\ at[g] # "unlocked" /\ at'[g] # "unlocked"
           /\ ~halted /\ (halted' \/ remaining'[NoGoroutine] = remaining[NoGoroutine])
           /\ remaining'[NoGoroutine] > 0 => callback'
<1> USE DEF CondCore
<1>1. /\ curGoroutine \in Contexts /\ NoGoroutine \notin Goroutine
      /\ remaining \in [Contexts -> Nat] /\ at \in [Goroutine -> Doing]
      /\ curGoroutine # NoGoroutine => runLoop # "off"
      /\ callback \in BOOLEAN /\ halted \in BOOLEAN /\ callback' \in BOOLEAN
  <2>1. SemNext
    BY Zenon DEF Other, SemNext
  <2>2. TypeOK'
    BY <2>1, SemStepRefines, TypeStep
  <2>3. callback \in BOOLEAN /\ halted \in BOOLEAN /\ callback' \in BOOLEAN
    BY <2>2, Zenon DEF Inv, TypeOK
  <2>4. curGoroutine \in Contexts /\ (curGoroutine # NoGoroutine => runLoop # "off")
    BY DEF Inv, TypeOK, Shape, Contexts
  <2> QED
    BY <2>3, <2>4, GoroutineAssumption DEF CondBase, SemInv, SemTyped
<1> DEFINE Calm ==
             /\ ~halted
             /\ curGoroutine # NoGoroutine => at[curGoroutine] \in {"go", "acquire"}
             /\ \A g \in Goroutine : at'[g] = "unlocked" => at[g] = "unlocked"
             /\ callback' # callback =>
                   CallbackEnter \/ CallbackReturn \/ \E g \in Goroutine : Throw(g)
<1>2. Calm
  <2>1. CASE Elsewhere /\ UNCHANGED semVars
    <3>1. at' = at
      BY <2>1
    <3>2. CASE RunNext \/ LoopEnd \/ FireRun
      BY <1>1, <3>1, <3>2 DEF RunNext, LoopEnd, FireRun, Looping, Idle
    <3>3. CASE CallbackEnter \/ CallbackReturn
      BY <1>1, <3>1, <3>3 DEF CallbackEnter, CallbackReturn, Idle, InCallback
    <3>4. ASSUME NEW g \in Goroutine, Free(g) /\ (Externalize \/ Return(g) \/ Throw(g))
          PROVE  Calm
      <4>1. Running(g) /\ at[g] = "go"
        BY <3>4, FreeRuns
      <4>2. callback' = callback \/ Throw(g)
        <5>1. CASE Externalize
          BY <5>1 DEF Externalize, machine
        <5>2. CASE Return(g)
          BY <5>2 DEF Return
        <5> QED
          BY <3>4, <5>1, <5>2
      <4> QED
        BY <1>1, <3>1, <4>1, <4>2 DEF Running
    <3>5. ASSUME NEW x \in Contexts, NEW g \in Goroutine, Free(x) /\ Go(g)
          PROVE  Calm
      BY <1>1, <3>1, <3>5 DEF Free, Go, InGo, InCallback, Running, Contexts
    <3> QED
      BY <2>1, <3>2, <3>3, <3>4, <3>5 DEF Elsewhere
  <2>2. ASSUME NEW x \in Contexts, Semacquire(x)
        PROVE  Calm
    <3>1. ~halted /\ curGoroutine = x /\ (x \in Goroutine => at[x] = "go")
      BY <2>2 DEF Semacquire, Free, InGo, InCallback, Running
    <3>2. callback' = callback
      BY <2>2 DEF Semacquire, TakePermit, AwaitPermit, vars, notParking, machine
    <3>3. \A g \in Goroutine : at'[g] = "unlocked" => at[g] = "unlocked"
      BY <1>1, <2>2 DEF Semacquire, TakePermit, AwaitPermit, Contexts
    <3> QED
      BY <1>1, <3>1, <3>2, <3>3 DEF Contexts
  <2>3. ASSUME NEW x \in Contexts, Semrelease(x)
        PROVE  Calm
    <3>1. ~halted /\ curGoroutine = x /\ (x \in Goroutine => at[x] = "go")
      BY <2>3 DEF Semrelease, Free, InGo, InCallback, Running
    <3>2. callback' = callback /\ at' = at
      BY <2>3 DEF Semrelease, GivePermit, notWaking, vars, machine
    <3> QED
      BY <1>1, <3>1, <3>2 DEF Contexts
  <2>4. ASSUME NEW g \in Goroutine, Acquired(g)
        PROVE  Calm
    BY <1>1, <2>4 DEF Acquired, Running, vars, machine
  <2> QED
    BY <2>1, <2>2, <2>3, <2>4 DEF Other
<1>3. /\ curGoroutine # NoGoroutine \/ InCallback => remaining[curGoroutine] = 0
      /\ remaining' = IF callback' THEN remaining
                                   ELSE [remaining EXCEPT ![NoGoroutine] = 0]
  BY DEF Other
<1>4. \A g \in Goroutine : at[g] # "unlocked" /\ remaining[g] = 0
  BY <1>1, <1>2, <1>3 DEF InTurn, Contexts
<1>5. \A g \in Goroutine : remaining'[g] = 0 /\ at'[g] # "unlocked"
  BY <1>1, <1>2, <1>3, <1>4 DEF Contexts
<1>6. halted' \/ remaining'[NoGoroutine] = remaining[NoGoroutine]
  <2>1. CASE callback' = callback
    BY <1>1, <1>2, <1>3, <2>1 DEF InTurn, Contexts
  <2>2. CASE CallbackEnter
    BY <1>3, <2>2 DEF CallbackEnter
  <2>3. CASE CallbackReturn
    <3>1. InCallback
      BY <2>3 DEF CallbackReturn
    <3>2. curGoroutine = NoGoroutine
      BY <1>1, <3>1, GoroutineAssumption DEF InCallback, Inv, Shape
    <3> QED
      BY <1>1, <1>3, <3>1, <3>2 DEF Contexts
  <2>4. ASSUME NEW g \in Goroutine, Throw(g) PROVE halted'
    BY <2>4, Zenon DEF Throw
  <2> QED
    BY <1>2, <2>1, <2>2, <2>3, <2>4
<1>7. remaining'[NoGoroutine] > 0 => callback'
  BY <1>1, <1>3 DEF Contexts
<1> QED
  BY <1>2, <1>4, <1>5, <1>6, <1>7

(* What a goroutine's position in line becomes when the head is woken.     *)
LEMMA WakeShifts ==
    ASSUME CondCore, Counted, ~halted, Loops \in Nat, WakeOne
    PROVE  /\ Len(condWaiters') = Len(condWaiters) - 1 /\ Len(condWaiters) \in Nat
           /\ owed' \subseteq Elems(condWaiters')
           /\ \A i \in DOMAIN condWaiters' :
                 condWaiters'[i] \in owed' => i <= Loops - 1
<1> USE DEF CondCore
<1>1. /\ condWaiters \in Seq(Goroutine) /\ condWaiters # <<>> /\ Distinct(condWaiters)
      /\ condWaiters' = Tail(condWaiters) /\ owed' = owed \ {Head(condWaiters)}
  BY DEF WakeOne, CondBase, CondSleep
<1>2. Elems(condWaiters') = Elems(condWaiters) \ {Head(condWaiters)}
  BY <1>1, TailElems
<1>3. /\ Len(condWaiters) \in Nat \ {0} /\ DOMAIN condWaiters = 1 .. Len(condWaiters)
      /\ Len(condWaiters') = Len(condWaiters) - 1
      /\ DOMAIN condWaiters' = 1 .. (Len(condWaiters) - 1)
      /\ \A i \in 1 .. (Len(condWaiters) - 1) : condWaiters'[i] = condWaiters[i + 1]
  BY <1>1, HeadTailProperties, EmptySeq
<1>4. ASSUME NEW i \in DOMAIN condWaiters', condWaiters'[i] \in owed'
      PROVE  i <= Loops - 1
  <2>1. i + 1 \in DOMAIN condWaiters /\ condWaiters[i + 1] \in owed
    BY <1>1, <1>3, <1>4
  <2> QED
    BY <1>3, <2>1 DEF Counted
<1> QED
  BY <1>1, <1>2, <1>3, <1>4 DEF Counted

(* What the loops of a step that changes only one of them come to.         *)
LEMMA LoopsAre ==
    ASSUME CondCore
    PROVE  /\ Loops \in Nat /\ Leaving \in {0, 1} /\ Len(condWaiters) \in Nat
           /\ remaining[NoGoroutine] \in Nat
           /\ curGoroutine = NoGoroutine => Loops = remaining[NoGoroutine] /\ Leaving = 0
           /\ curGoroutine # NoGoroutine =>
                 /\ curGoroutine \in Goroutine /\ remaining[curGoroutine] \in Nat
                 /\ Loops = remaining[NoGoroutine] + remaining[curGoroutine]
BY DEF CondCore, CondBase, Inv, TypeOK, Loops, Leaving, Contexts

(* The same of the step's result.                                          *)
LEMMA LoopsBecome ==
    ASSUME CondCore'
    PROVE  /\ Loops' \in Nat /\ Leaving' \in {0, 1} /\ Len(condWaiters') \in Nat
           /\ remaining'[NoGoroutine] \in Nat
           /\ curGoroutine' = NoGoroutine => Loops' = remaining'[NoGoroutine] /\ Leaving' = 0
           /\ curGoroutine' # NoGoroutine =>
                 /\ curGoroutine' \in Goroutine
                 /\ Loops' = remaining'[NoGoroutine] + remaining'[curGoroutine']
                 /\ Leaving' = IF at'[curGoroutine'] = "unlocked" THEN 1 ELSE 0
BY DEF CondCore, CondBase, Inv, TypeOK, Loops, Leaving, Contexts

(* Other changes nothing that is counted.                                  *)
LEMMA OtherCounts ==
    ASSUME HasProcess, CondCore, CondCore', InTurn, Counted, Other
    PROVE  InTurn' /\ Counted'
<1>1. /\ \A g \in Goroutine : /\ remaining[g] = 0 /\ remaining'[g] = 0
                              /\ at[g] # "unlocked" /\ at'[g] # "unlocked"
      /\ ~halted /\ (halted' \/ remaining'[NoGoroutine] = remaining[NoGoroutine])
      /\ remaining'[NoGoroutine] > 0 => callback'
  BY OtherIsCalm
<1>2. InTurn'
  BY <1>1 DEF InTurn
<1>3. Loops = remaining[NoGoroutine] /\ Leaving = 0
  BY <1>1, LoopsAre DEF Leaving
<1>4. Loops' = remaining'[NoGoroutine] /\ Leaving' = 0
  BY <1>1, LoopsBecome
<1>5. UNCHANGED <<n, condWaiters, owed>>
  BY DEF Other
<1> QED
  BY <1>1, <1>2, <1>3, <1>4, <1>5 DEF Counted

(* The steps of Wait count the goroutine in, before it stands in line.     *)
LEMMA WaitCounts ==
    ASSUME CondCore, CondCore', InTurn, Counted, NEW g \in Goroutine,
           WaitUnlock(g) \/ WaitPark(g) \/ WaitLock(g)
    PROVE  InTurn' /\ Counted'
<1>1. /\ at \in [Goroutine -> Doing] /\ NoGoroutine \notin Goroutine /\ n \in Nat
      /\ condWaiters \in Seq(Goroutine) /\ remaining \in [Contexts -> Nat]
  BY GoroutineAssumption DEF CondCore, CondBase, SemInv, SemTyped
<1>2. CASE WaitUnlock(g)
  <2>1. Running(g) /\ at[g] = "go" /\ remaining[g] = 0
    BY <1>2, FreeRuns DEF WaitUnlock, CondFree, CondCore
  <2>2. /\ n' = n + 1 /\ at' = [at EXCEPT ![g] = "unlocked"]
        /\ UNCHANGED <<condWaiters, remaining, owed>>
    BY <1>2 DEF WaitUnlock
  <2>3. UNCHANGED <<curGoroutine, callback, halted>>
    BY <1>2 DEF WaitUnlock, GivePermit, notWaking, vars, machine, ended
  <2>4. InTurn'
    BY <1>1, <2>1, <2>2, <2>3 DEF InTurn, Running
  <2>5. Loops = Loops' /\ Leaving = 0 /\ Leaving' = 1
    BY <1>1, <2>1, <2>2, <2>3 DEF Loops, Leaving, Running
  <2> QED
    BY <1>1, <2>2, <2>3, <2>4, <2>5, LoopsAre DEF Counted
<1>3. CASE WaitPark(g)
  <2>1. Running(g) /\ at[g] = "unlocked" /\ remaining[g] = 0
    BY <1>3 DEF WaitPark, InTurn
  <2>2. /\ condWaiters' = Append(condWaiters, g) /\ at' = [at EXCEPT ![g] = "wait"]
        /\ curGoroutine' = NoGoroutine /\ UNCHANGED <<n, remaining, owed, callback>>
    BY <1>3 DEF WaitPark, Settle, notParking
  <2>3. InTurn'
    BY <1>1, <2>1, <2>2 DEF InTurn, Running
  <2>4. Loops = Loops' /\ Leaving = 1 /\ Leaving' = 0
    BY <1>1, <2>1, <2>2, LoopsAre DEF Loops, Leaving, Running
  <2>5. /\ DOMAIN condWaiters = 1 .. Len(condWaiters)
        /\ DOMAIN condWaiters' = 1 .. (Len(condWaiters) + 1)
        /\ Len(condWaiters') = Len(condWaiters) + 1
        /\ \A i \in 1 .. Len(condWaiters) : condWaiters'[i] = condWaiters[i]
        /\ condWaiters'[Len(condWaiters) + 1] = g
        /\ Elems(condWaiters') = Elems(condWaiters) \cup {g}
    BY <1>1, <2>2, AppendProperties, AppendElems
  <2>6. g \notin Elems(condWaiters) /\ ~halted
    BY <2>1 DEF CondCore, CondBase, CondSleep, Running
  <2>7. \A i \in DOMAIN condWaiters' : condWaiters'[i] \in owed' => i <= Loops'
    BY <2>2, <2>4, <2>5, <2>6, LoopsAre DEF Counted
  <2> QED
    BY <1>1, <2>2, <2>3, <2>4, <2>5, <2>6, <2>7, LoopsAre DEF Counted
<1>4. CASE WaitLock(g)
  <2>1. Running(g) /\ at[g] = "wait" /\ remaining[g] = 0
    BY <1>4 DEF WaitLock, InTurn
  <2>2. /\ UNCHANGED <<n, condWaiters, owed, remaining, callback>>
        /\ \/ at' = [at EXCEPT ![g] = "go"] /\ UNCHANGED curGoroutine
           \/ at' = [at EXCEPT ![g] = "acquire"] /\ curGoroutine' = NoGoroutine
    BY <1>4 DEF WaitLock, condVars, TakePermit, AwaitPermit, Settle, notParking, vars, machine
  <2>3. InTurn'
    BY <1>1, <2>1, <2>2 DEF InTurn, Running
  <2>4. Loops = Loops' /\ Leaving = 0 /\ Leaving' = 0
    BY <1>1, <2>1, <2>2, LoopsAre DEF Loops, Leaving, Running
  <2> QED
    BY <1>1, <2>1, <2>2, <2>3, <2>4 DEF Counted, Running
<1> QED
  BY <1>2, <1>3, <1>4

(* A wake-up and the turn or the Signal it comes from cancel out.          *)
LEMMA CallCounts ==
    ASSUME CondCore, CondCore', InTurn, Counted, NEW x \in Contexts,
           Signal(x) \/ Broadcast(x) \/ BroadcastStep(x)
    PROVE  InTurn' /\ Counted'
<1>1. /\ at \in [Goroutine -> Doing] /\ NoGoroutine \notin Goroutine /\ n \in Nat
      /\ condWaiters \in Seq(Goroutine) /\ remaining \in [Contexts -> Nat]
      /\ x \in Goroutine \/ x = NoGoroutine
  BY GoroutineAssumption DEF CondCore, CondBase, SemInv, SemTyped, Contexts
<1>2. curGoroutine = x /\ InGo /\ ~halted
  BY DEF Signal, Broadcast, BroadcastStep, CondFree, Free, InGo, InCallback, Running
<1>3. UNCHANGED <<curGoroutine, callback, halted, at>>
  BY DEF Signal, Broadcast, BroadcastStep, WakeOne, notWaking, vars, machine, ended
<1>4. x = NoGoroutine => callback
  BY <1>1, <1>2 DEF InGo, InCallback, Running
<1>5. Leaving' = Leaving
  BY <1>3 DEF Leaving
<1>6. CASE Signal(x)
  <2>1. UNCHANGED remaining /\ n # 0 /\ n' = n - 1 /\ WakeOne
    BY <1>6 DEF Signal
  <2>2. Loops' = Loops
    BY <1>3, <2>1 DEF Loops
  <2>3. InTurn'
    BY <1>3, <2>1 DEF InTurn
  <2>4. n \in Nat \ {0} /\ Len(condWaiters') = Len(condWaiters) - 1
    BY <1>1, <1>2, <2>1, LoopsAre, WakeShifts
  <2>5. Counted'
    <3>1. Loops \in Nat /\ Leaving \in {0, 1} /\ Len(condWaiters) \in Nat
      BY LoopsAre
    <3>2. n + Loops = Len(condWaiters) + Leaving
      BY <1>2 DEF Counted
    <3>3. n' + Loops' = Len(condWaiters') + Leaving'
      BY <1>5, <2>1, <2>2, <2>4, <3>1, <3>2
    <3>4. /\ owed' \subseteq Elems(condWaiters')
          /\ \A i \in DOMAIN condWaiters' : condWaiters'[i] \in owed' => i <= Loops - 1
      BY <1>2, <2>1, <3>1, WakeShifts
    <3>5. DOMAIN condWaiters' = 1 .. Len(condWaiters')
      BY <1>1, <2>1 DEF WakeOne
    <3> QED
      BY <2>2, <2>4, <3>1, <3>3, <3>4, <3>5 DEF Counted
  <2> QED
    BY <2>3, <2>5
<1>7. CASE Broadcast(x)
  <2>1. /\ remaining' = [remaining EXCEPT ![x] = n] /\ remaining[x] = 0
        /\ owed' = owed \cup Waiting /\ n' = 0 /\ UNCHANGED condWaiters
        /\ x \in Goroutine => at[x] = "go"
    BY <1>7 DEF Broadcast, CondFree, Free
  <2>2. InTurn'
    BY <1>1, <1>2, <1>3, <1>4, <2>1 DEF InTurn
  <2>3. Loops' = Loops + n /\ Leaving = 0
    BY <1>1, <1>2, <1>3, <2>1, LoopsAre DEF Loops, Leaving
  <2>4. n + Loops = Len(condWaiters) /\ owed \subseteq Elems(condWaiters)
    BY <1>1, <1>2, <2>3, LoopsAre DEF Counted
  <2>5. owed' = Elems(condWaiters) /\ DOMAIN condWaiters = 1 .. Len(condWaiters)
    BY <1>1, <2>1, <2>4 DEF Waiting, Elems
  <2> QED
    BY <1>1, <1>5, <2>1, <2>2, <2>3, <2>4, <2>5, LoopsAre DEF Counted
<1>8. CASE BroadcastStep(x)
  <2>1. /\ remaining' = [remaining EXCEPT ![x] = @ - 1] /\ remaining[x] > 0
        /\ UNCHANGED n /\ WakeOne
    BY <1>8 DEF BroadcastStep
  <2>2. remaining[x] \in Nat /\ remaining[NoGoroutine] \in Nat
    BY <1>1 DEF Contexts
  <2>3. Loops' = Loops - 1
    BY <1>1, <1>2, <1>3, <2>1, <2>2 DEF Loops, Contexts
  <2>4. InTurn'
    BY <1>1, <1>2, <1>3, <1>4, <2>1, <2>2 DEF InTurn
  <2>5. Counted'
    <3>1. Loops \in Nat /\ Leaving \in {0, 1} /\ Len(condWaiters) \in Nat
      BY LoopsAre
    <3>2. n + Loops = Len(condWaiters) + Leaving
      BY <1>2 DEF Counted
    <3>3. Len(condWaiters') = Len(condWaiters) - 1
      BY <1>2, <2>1, <3>1, WakeShifts
    <3>4. n' + Loops' = Len(condWaiters') + Leaving'
      BY <1>1, <1>5, <2>1, <2>3, <3>1, <3>2, <3>3
    <3>5. /\ owed' \subseteq Elems(condWaiters')
          /\ \A i \in DOMAIN condWaiters' : condWaiters'[i] \in owed' => i <= Loops - 1
      BY <1>2, <2>1, <3>1, WakeShifts
    <3> QED
      BY <2>3, <3>4, <3>5 DEF Counted
  <2> QED
    BY <2>4, <2>5
<1> QED
  BY <1>6, <1>7, <1>8

(* The count holds throughout.                                             *)
THEOREM CondCounts ==
    ASSUME HasProcess
    PROVE  CondSpec => [](InTurn /\ Counted)
<1>1. CondInit => InTurn /\ Counted
  <2> SUFFICES ASSUME CondInit PROVE InTurn /\ Counted
    OBVIOUS
  <2>1. /\ n = 0 /\ condWaiters = <<>> /\ owed = {} /\ curGoroutine = NoGoroutine
        /\ \A x \in Contexts : remaining[x] = 0
        /\ \A g \in Goroutine : at[g] = "go"
    BY DEF CondInit, SemInit, Init
  <2>2. Len(condWaiters) = 0 /\ DOMAIN condWaiters = {} /\ Loops = 0 /\ Leaving = 0
    BY <2>1 DEF Loops, Leaving, Contexts
  <2>3. Counted
    BY <2>1, <2>2 DEF Counted
  <2>4. InTurn
    BY <2>1 DEF InTurn, Contexts
  <2> QED
    BY <2>3, <2>4
<1>2. ASSUME CondCore, CondCore', InTurn, Counted, [CondNext]_<<vars, semVars, condVars>>
      PROVE  InTurn' /\ Counted'
  <2>1. CASE UNCHANGED <<vars, semVars, condVars>>
    BY <1>2, <2>1 DEF vars, machine, ended, condVars, InTurn, Counted, Loops, Leaving
  <2>2. CASE CondNext
    BY <1>2, <2>2, OtherCounts, WaitCounts, CallCounts DEF CondNext
  <2> QED
    BY <1>2, <2>1, <2>2
<1> QED
  BY <1>1, <1>2, CondInvariant, PTL DEF CondSpec

(* c.n and the loops in progress promise one wake-up to each goroutine     *)
(* that waits: a Signal or Broadcast never waits for a receiver.           *)
THEOREM SignalsFindWaiters ==
    ASSUME HasProcess
    PROVE  CondSpec => []SignalsMeetWaiters
<1>1. ASSUME CondCore, InTurn, Counted PROVE SignalsMeetWaiters
  <2>1. Cardinality(Unlocking) = Leaving
    <3>1. CASE Leaving = 1
      <4>1. Unlocking = {curGoroutine}
        BY <1>1, <3>1 DEF Unlocking, InTurn, Leaving, CondCore, Inv, TypeOK
      <4> QED
        BY <3>1, <4>1, FS_Singleton
    <3>2. CASE Leaving = 0
      <4>1. Unlocking = {}
        BY <1>1, <3>2, GoroutineAssumption DEF Unlocking, InTurn, Leaving
      <4> QED
        BY <3>2, <4>1, FS_EmptySet
    <3> QED
      BY <3>1, <3>2 DEF Leaving
  <2> QED
    BY <1>1, <2>1, LoopsAre DEF SignalsMeetWaiters, Counted, Loops, CondCore, CondBase
<1> QED
  BY <1>1, CondInvariant, CondCounts, PTL

(* A Broadcast wakes everyone who waited when it was called.               *)
THEOREM BroadcastsReachAll ==
    ASSUME HasProcess
    PROVE  CondSpec => []BroadcastReachesAll
<1>1. ASSUME CondCore, Counted PROVE BroadcastReachesAll
  <2> SUFFICES ASSUME ~halted, InLoop = {} PROVE owed = {}
    BY DEF BroadcastReachesAll
  <2>1. \A x \in Contexts : remaining[x] = 0
    BY <1>1 DEF InLoop, CondCore, CondBase
  <2>2. Loops = 0
    BY <1>1, <2>1, LoopsAre DEF Contexts
  <2>3. ASSUME NEW g \in owed PROVE FALSE
    <3>1. PICK i \in DOMAIN condWaiters : condWaiters[i] = g
      BY <1>1 DEF Counted, Elems
    <3> QED
      BY <1>1, <2>2, <3>1 DEF Counted, CondCore, CondBase
  <2> QED
    BY <2>3
<1> QED
  BY <1>1, CondInvariant, CondCounts, PTL
=============================================================================
