------------------------------ MODULE WaitGroup ------------------------------
(***************************************************************************)
(* sync.WaitGroup (compiler/natives/src/sync/waitgroup.go), one of them,   *)
(* on top of the scheduler.  The channels that Wait receives from and Add  *)
(* closes are numbered in the order in which they are made.  Add may be    *)
(* called by a callback of the host; there each goroutine that close wakes *)
(* runs nested before close, and with it Add, goes on.                     *)
(***************************************************************************)
EXTENDS Goroutines

CONSTANTS
    MaxCount,        \* bound on the counter
    MaxChans,        \* bound on the channels made
    CallbackAdds,    \* callbacks call Add and Done
    ReusesEarly      \* the WaitGroup is used again as soon as every Wait
                     \* has returned, also while the Add that ended the
                     \* previous use has not

ASSUME WaitGroupAssumption ==
    /\ MaxCount \in Nat /\ MaxChans \in Nat
    /\ CallbackAdds \in BOOLEAN /\ ReusesEarly \in BOOLEAN

VARIABLES
    counter,  \* wg.counter
    ch,       \* wg.ch; 0 is nil
    made,     \* the channels made so far are 1 .. made
    shut,     \* those that are closed
    waitsOn,  \* the channel on which a goroutine is parked in Wait, or 0
    waitLine, \* the goroutines parked on each channel, in order
    closing,  \* the channel that an Add of this context is closing, or 0
    early     \* history: goroutines for which the counter has not been
              \* zero since they called Wait

(* Where a goroutine parks in a receive from a nil channel.                *)
Never == MaxChans + 1

wgVars == <<counter, ch, made, shut, waitsOn, waitLine, closing, early>>

WgInit ==
    /\ Init
    /\ counter = 0
    /\ ch = 0 /\ made = 0 /\ shut = {}
    /\ waitsOn = [g \in Goroutine |-> 0]
    /\ waitLine = [c \in 1 .. Never |-> <<>>]
    /\ closing = [x \in Contexts |-> 0]
    /\ early = {}

Free(x) ==
    /\ curGoroutine = x
    /\ InGo
    /\ closing[x] = 0
    /\ x \in Goroutine => waitsOn[x] = 0

-----------------------------------------------------------------------------
(* The documented use: a positive Add on a zero counter comes after every  *)
(* Wait of the previous use has returned.                                  *)
MayAdd(x, delta) ==
    /\ x = NoGoroutine => CallbackAdds
    /\ delta > 0 /\ counter = 0 =>
          /\ \A g \in Goroutine : waitsOn[g] = 0
          /\ ReusesEarly \/ \A y \in Contexts : closing[y] = 0

(* Mutant of Count: each Add makes a channel.                              *)
CountAfresh(c) ==
    /\ counter' = c
    /\ IF c > 0
       THEN ch' = made + 1 /\ made' = made + 1
       ELSE UNCHANGED <<ch, made>>
    /\ early' = IF c = 0 THEN {} ELSE early

(* The counter becomes c; the channel for the waiters is made when there   *)
(* is none.                                                                *)
Count(c) ==
    /\ counter' = c
    /\ IF c > 0 /\ ch = 0
       THEN ch' = made + 1 /\ made' = made + 1
       ELSE UNCHANGED <<ch, made>>
    /\ early' = IF c = 0 THEN {} ELSE early

(* Add: a negative counter panics; a zero counter closes the channel,      *)
(* which panics when it is closed already.                                 *)
Add(x, delta) ==
    LET c == counter + delta IN
    /\ Free(x)
    /\ MayAdd(x, delta)
    /\ c \in -1 .. MaxCount
    /\ c > 0 /\ ch = 0 => made < MaxChans
    /\ Count(c)
    /\ IF c = 0 /\ ch # 0 /\ ch \notin shut
       THEN shut' = shut \cup {ch} /\ closing' = [closing EXCEPT ![x] = ch]
       ELSE UNCHANGED <<shut, closing>>
    /\ UNCHANGED <<vars, waitsOn, waitLine>>

(* close wakes the goroutines that wait on the channel, one by one.        *)
WakeWaiter(x) ==
    /\ curGoroutine = x /\ InGo
    /\ closing[x] # 0
    /\ LET c == closing[x] IN
       /\ waitLine[c] # <<>>
       /\ waitLine' = [waitLine EXCEPT ![c] = Tail(@)]
       /\ Schedule(Head(waitLine[c]), awakeGoroutines)
    /\ UNCHANGED <<notWaking, counter, ch, made, shut, waitsOn, closing, early>>

(* Mutant of AddDone: the closed channel stays.                            *)
AddDoneKeeps(x) ==
    /\ curGoroutine = x /\ InGo
    /\ closing[x] # 0
    /\ waitLine[closing[x]] = <<>>
    /\ closing' = [closing EXCEPT ![x] = 0]
    /\ UNCHANGED <<vars, ch, counter, made, shut, waitsOn, waitLine, early>>

(* close has returned: wg.ch = nil.                                        *)
AddDone(x) ==
    /\ curGoroutine = x /\ InGo
    /\ closing[x] # 0
    /\ waitLine[closing[x]] = <<>>
    /\ ch' = 0
    /\ closing' = [closing EXCEPT ![x] = 0]
    /\ UNCHANGED <<vars, counter, made, shut, waitsOn, waitLine, early>>

(* Wait: returns at once from a closed channel; a nil one is never ready.  *)
Wait(g) ==
    /\ Free(g)
    /\ counter > 0
    /\ early' = early \cup {g}
    /\ IF ch \in shut
       THEN UNCHANGED <<vars, waitsOn, waitLine>>
       ELSE LET c == IF ch = 0 THEN Never ELSE ch IN
            /\ waitsOn' = [waitsOn EXCEPT ![g] = c]
            /\ waitLine' = [waitLine EXCEPT ![c] = Append(@, g)]
            /\ Settle(g, exit[g], awakeGoroutines, mainFinished)
            /\ UNCHANGED notParking
    /\ UNCHANGED <<counter, ch, made, shut, closing>>

(* The goroutine that was woken returns from Wait.                         *)
Waited(g) ==
    /\ Running(g)
    /\ waitsOn[g] # 0
    /\ waitsOn' = [waitsOn EXCEPT ![g] = 0]
    /\ UNCHANGED <<vars, counter, ch, made, shut, waitLine, closing, early>>

-----------------------------------------------------------------------------
(* What the scheduler, the host and other Go code do between operations; a *)
(* callback that an exception ends does not finish its Add.                *)
Elsewhere ==
    \/ RunNext \/ LoopEnd \/ FireRun \/ CallbackEnter
    \/ CallbackReturn /\ Free(NoGoroutine)
    \/ \E g \in Goroutine : Free(g) /\ (Externalize \/ Return(g) \/ Throw(g))
    \/ \E x \in Contexts, g \in Goroutine : Free(x) /\ Go(g)

WgNext ==
    \/ /\ Elsewhere
       /\ closing' = IF callback' THEN closing
                                  ELSE [closing EXCEPT ![NoGoroutine] = 0]
       /\ UNCHANGED <<counter, ch, made, shut, waitsOn, waitLine, early>>
    \/ \E x \in Contexts, delta \in {-1, 1} : Add(x, delta)
    \/ \E x \in Contexts : WakeWaiter(x) \/ AddDone(x)
    \/ \E g \in Goroutine : Wait(g) \/ Waited(g)

WgSpec == WgInit /\ [][WgNext]_<<vars, wgVars>>

-----------------------------------------------------------------------------
(* Properties.                                                             *)

Parked == UNION {{waitLine[c][i] : i \in DOMAIN waitLine[c]} : c \in DOMAIN waitLine}

(* Wait returns only when the counter has been zero since it was called.   *)
NoEarlyReturn == \A g \in early : g \in Parked

(* Everyone in Wait will be woken: by the Add that now closes its channel, *)
(* or by the one that takes the positive counter to zero, which closes     *)
(* wg.ch; nobody waits on a channel that was replaced or is nil.           *)
NobodyStranded ==
    ~halted => \A g \in Parked :
        \/ \E x \in Contexts : closing[x] = waitsOn[g]
        \/ counter > 0 /\ waitsOn[g] = ch /\ ch \notin shut
=============================================================================
