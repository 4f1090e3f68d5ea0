-------------------------------- MODULE Cond --------------------------------
(***************************************************************************)
(* sync.Cond (compiler/natives/src/sync/cond.go), one of them, whose       *)
(* Locker is a lock made of the semaphore.  Unlocking such a lock does not *)
(* block, so a goroutine in Wait reaches <-c.ch before any other goroutine *)
(* runs.  Signal and Broadcast may be called by a callback of the host;    *)
(* there each goroutine they wake runs nested before the loop goes on.     *)
(***************************************************************************)
EXTENDS Semaphore

VARIABLES
    n,           \* c.n
    condWaiters, \* the goroutines in <-c.ch, in order
    remaining,   \* what is left of the loop of a Broadcast in progress
    owed         \* history: goroutines that waited when a Broadcast began
                 \* and have not been woken since

condVars == <<n, condWaiters, remaining, owed>>

CondInit ==
    /\ SemInit
    /\ n = 0
    /\ condWaiters = <<>>
    /\ remaining = [x \in Contexts |-> 0]
    /\ owed = {}

(* Free, and not in a Broadcast either.                                    *)
CondFree(x) == Free(x) /\ remaining[x] = 0

Waiting == {condWaiters[i] : i \in DOMAIN condWaiters}

-----------------------------------------------------------------------------
(* Wait counts itself and unlocks c.L.                                     *)
WaitUnlock(g) ==
    /\ CondFree(g)
    /\ sem < MaxPermits
    /\ n' = n + 1
    /\ GivePermit
    /\ at' = [at EXCEPT ![g] = "unlocked"]
    /\ UNCHANGED <<condWaiters, remaining, owed>>

(* <-c.ch.                                                                 *)
WaitPark(g) ==
    /\ Running(g)
    /\ at[g] = "unlocked"
    /\ condWaiters' = Append(condWaiters, g)
    /\ at' = [at EXCEPT ![g] = "wait"]
    /\ Settle(g, exit[g], awakeGoroutines, mainFinished)
    /\ UNCHANGED <<notParking, sem, semAwoken, semWaiters, n, remaining, owed>>

(* The value came: c.L.Lock().                                             *)
WaitLock(g) ==
    /\ Running(g)
    /\ at[g] = "wait"
    /\ \/ TakePermit /\ at' = [at EXCEPT ![g] = "go"]
       \/ AwaitPermit(g)
    /\ UNCHANGED condVars

(* c.ch <- true, to a goroutine that waits; SignalsMeetWaiters says that   *)
(* there is one.                                                           *)
WakeOne ==
    /\ condWaiters # <<>>
    /\ condWaiters' = Tail(condWaiters)
    /\ owed' = owed \ {Head(condWaiters)}
    /\ Schedule(Head(condWaiters), awakeGoroutines)
    /\ UNCHANGED <<notWaking, semVars>>

Signal(x) ==
    /\ CondFree(x)
    /\ n # 0
    /\ n' = n - 1
    /\ WakeOne
    /\ UNCHANGED remaining

(* Mutants of Broadcast: c.n is left as it was; one waiter is missed.      *)
BroadcastKeepsCount(x) ==
    /\ CondFree(x)
    /\ remaining' = [remaining EXCEPT ![x] = n]
    /\ owed' = owed \cup Waiting
    /\ n' = n
    /\ UNCHANGED <<vars, semVars, condWaiters>>
BroadcastOneShort(x) ==
    /\ CondFree(x)
    /\ remaining' = [remaining EXCEPT ![x] = IF n = 0 THEN 0 ELSE n - 1]
    /\ owed' = owed \cup Waiting
    /\ n' = 0
    /\ UNCHANGED <<vars, semVars, condWaiters>>

Broadcast(x) ==
    /\ CondFree(x)
    /\ remaining' = [remaining EXCEPT ![x] = n]
    /\ owed' = owed \cup Waiting
    /\ n' = 0
    /\ UNCHANGED <<vars, semVars, condWaiters>>

(* One turn of its loop.                                                   *)
BroadcastStep(x) ==
    /\ curGoroutine = x /\ InGo
    /\ remaining[x] > 0
    /\ remaining' = [remaining EXCEPT ![x] = @ - 1]
    /\ WakeOne
    /\ UNCHANGED n

-----------------------------------------------------------------------------
(* The semaphore and the scheduler go on when no Broadcast runs in this    *)
(* context; a callback that an exception ends does not finish its loop.    *)
Other ==
    /\ \/ Elsewhere /\ UNCHANGED semVars
       \/ \E x \in Contexts : Semacquire(x) \/ Semrelease(x)
       \/ \E g \in Goroutine : Acquired(g)
    /\ curGoroutine # NoGoroutine \/ InCallback => remaining[curGoroutine] = 0
    /\ remaining' = IF callback' THEN remaining
                                 ELSE [remaining EXCEPT ![NoGoroutine] = 0]
    /\ UNCHANGED <<n, condWaiters, owed>>

CondNext ==
    \/ Other
    \/ \E g \in Goroutine : WaitUnlock(g) \/ WaitPark(g) \/ WaitLock(g)
    \/ \E x \in Contexts : Signal(x) \/ Broadcast(x) \/ BroadcastStep(x)

CondSpec == CondInit /\ [][CondNext]_<<vars, semVars, condVars>>

-----------------------------------------------------------------------------
(* Properties.                                                             *)

Unlocking == {g \in Goroutine : at[g] = "unlocked"}
InLoop    == {x \in Contexts : remaining[x] > 0}

(* c.n and the loops in progress together promise one wake-up to each      *)
(* waiter, no more: none is forgotten, and a Signal or Broadcast never     *)
(* has to wait for a receiver.                                             *)
SignalsMeetWaiters ==
    ~halted =>
        n + remaining[NoGoroutine]
          + (IF curGoroutine = NoGoroutine THEN 0 ELSE remaining[curGoroutine])
        = Len(condWaiters) + Cardinality(Unlocking)

(* When a Broadcast returns, everyone who waited when it was called has    *)
(* been woken, also when goroutines it woke wait again or signal before    *)
(* it is done.                                                             *)
BroadcastReachesAll == ~halted /\ InLoop = {} => owed = {}
=============================================================================
