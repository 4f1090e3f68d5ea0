------------------------------ MODULE Semaphore ------------------------------
(***************************************************************************)
(* The semaphores under sync.Mutex, RWMutex and the rest of package sync   *)
(* (compiler/natives/src/sync/sync.go), one of them, on top of the         *)
(* scheduler.  The channel a waiter makes for itself carries one value to  *)
(* one receiver that already waits: sending on it is waking that goroutine.*)
(* A callback of the host acquires only what is free, because it must not  *)
(* block; when it releases, the goroutine it wakes runs nested in it.      *)
(***************************************************************************)
EXTENDS Goroutines

CONSTANTS
    Permits,    \* the first value of the semaphore
    MaxPermits, \* bound on its value
    Width       \* 2^32: the values of a uint32

ASSUME SemaphoreAssumption ==
    /\ Permits \in Nat /\ MaxPermits \in Nat /\ Width \in Nat
    /\ Permits <= MaxPermits /\ MaxPermits < Width

VARIABLES
    sem,        \* *s
    semAwoken,  \* semAwoken[s]
    semWaiters, \* semWaiters[s]: the goroutines that made the channels
    at          \* what a goroutine does: "go", or "acquire" while it is in
                \* runtime_SemacquireMutex (and, in Cond, parts of Wait)

semVars == <<sem, semAwoken, semWaiters, at>>

SemInit ==
    /\ Init
    /\ sem = Permits
    /\ semAwoken = 0
    /\ semWaiters = <<>>
    /\ at = [g \in Goroutine |-> "go"]

(* x, a goroutine or the callback, is free to call an operation.           *)
Free(x) ==
    /\ curGoroutine = x
    /\ InGo
    /\ x \in Goroutine => at[x] = "go"

-----------------------------------------------------------------------------
(* *s-- on a uint32.                                                       *)
Take == sem' = IF sem = 0 THEN Width - 1 ELSE sem - 1

(* The goroutine queues, at the head when lifo is set, and parks.          *)
AwaitPermit(g) ==
    /\ sem = semAwoken
    /\ semWaiters' = Append(semWaiters, g) \/ semWaiters' = <<g>> \o semWaiters
    /\ at' = [at EXCEPT ![g] = "acquire"]
    /\ Settle(g, exit[g], awakeGoroutines, mainFinished)
    /\ UNCHANGED <<notParking, sem, semAwoken>>

(* Mutant of TakePermit: permits owed to awoken waiters count as free.     *)
TakePermitBarging ==
    /\ sem # 0
    /\ Take
    /\ UNCHANGED <<vars, semAwoken, semWaiters>>

(* There are more permits than awoken waiters that have not run yet.       *)
TakePermit ==
    /\ sem # semAwoken
    /\ Take
    /\ UNCHANGED <<vars, semAwoken, semWaiters>>

(* runtime_SemacquireMutex.                                                *)
Semacquire(x) ==
    /\ Free(x)
    /\ \/ TakePermit /\ UNCHANGED at
       \/ x # NoGoroutine /\ AwaitPermit(x)

(* The waiter runs again, after <-ch.                                      *)
Acquired(g) ==
    /\ Running(g)
    /\ at[g] = "acquire"
    /\ semAwoken' = semAwoken - 1
    /\ Take
    /\ at' = [at EXCEPT ![g] = "go"]
    /\ UNCHANGED <<vars, semWaiters>>

(* Mutant of GivePermit: one waiter is woken at a time.                    *)
GivePermitOneByOne ==
    /\ sem' = sem + 1
    /\ IF semWaiters = <<>> \/ semAwoken > 0
       THEN UNCHANGED <<vars, semAwoken, semWaiters>>
       ELSE /\ semWaiters' = Tail(semWaiters)
            /\ semAwoken' = semAwoken + 1
            /\ Schedule(Head(semWaiters), awakeGoroutines)
            /\ UNCHANGED notWaking

(* The permit is counted; the first waiter, if any, is counted as awoken   *)
(* and woken.                                                              *)
GivePermit ==
    /\ sem' = sem + 1
    /\ IF semWaiters = <<>>
       THEN UNCHANGED <<vars, semAwoken, semWaiters>>
       ELSE /\ semWaiters' = Tail(semWaiters)
            /\ semAwoken' = semAwoken + 1
            /\ Schedule(Head(semWaiters), awakeGoroutines)
            /\ UNCHANGED notWaking

(* runtime_Semrelease.                                                     *)
Semrelease(x) ==
    /\ Free(x)
    /\ sem < MaxPermits
    /\ GivePermit
    /\ UNCHANGED at

-----------------------------------------------------------------------------
(* What the scheduler, the host and other Go code do between operations.   *)
Elsewhere ==
    \/ RunNext \/ LoopEnd \/ FireRun \/ CallbackEnter
    \/ CallbackReturn /\ Free(NoGoroutine)
    \/ \E g \in Goroutine : Free(g) /\ (Externalize \/ Return(g) \/ Throw(g))
    \/ \E x \in Contexts, g \in Goroutine : Free(x) /\ Go(g)

SemNext ==
    \/ Elsewhere /\ UNCHANGED semVars
    \/ \E x \in Contexts : Semacquire(x) \/ Semrelease(x)
    \/ \E g \in Goroutine : Acquired(g)

SemSpec == SemInit /\ [][SemNext]_<<vars, semVars>>

-----------------------------------------------------------------------------
(* Properties.                                                             *)

Waiters == {semWaiters[i] : i \in DOMAIN semWaiters}

(* Goroutines that Semrelease has woken and that have not run since.       *)
Awoken == {g \in Goroutine : at[g] = "acquire" /\ g \notin Waiters}

SemValues ==
    /\ sem \in 0 .. Width - 1
    /\ semAwoken \in Nat
    /\ semWaiters \in Seq(Goroutine)

SemTypeOK == SemValues /\ at \in [Goroutine -> {"go", "acquire"}]

(* Every awoken waiter is counted and finds the permit it was given: no    *)
(* other goroutine can take it before the waiter runs (issue 736), so *s   *)
(* never falls below zero.                                                 *)
AwokenHavePermits == semAwoken = Cardinality(Awoken) /\ semAwoken <= sem

(* Nobody waits for a permit that is there.                                *)
NoIdlePermit == semWaiters # <<>> => sem = semAwoken

(* A waiter sleeps until it is handed a permit, one entry each.            *)
WaitersSleep ==
    /\ \A g \in Waiters : g \in live /\ asleep[g] /\ at[g] = "acquire"
    /\ \A i, j \in DOMAIN semWaiters : semWaiters[i] = semWaiters[j] => i = j

(* The semaphore hands each permit to the first in line.                   *)
Handoffs == INSTANCE Handoff WITH
    Waiter <- Goroutine, free <- sem - semAwoken, line <- semWaiters

RefinesHandoff == Handoffs!HandoffSpec
=============================================================================
