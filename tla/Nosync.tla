-------------------------------- MODULE Nosync --------------------------------
(* Package nosync, which the overlays of packages import instead of sync,  *)
(* sync.Pool and sync/atomic of the natives.                               *)
(*                                                                         *)
(* None of them lets another goroutine run, so that a call is one step: it *)
(* takes the state of the object to another and has a result, none if it   *)
(* panics.                                                                 *)
EXTENDS Integers, Sequences

CONSTANTS
    Word,    \* bits of the integers that the operators of JavaScript yield: 32
    Nil      \* the nil interface

LOCAL INSTANCE JsIntegers

Does(state, result) == [state |-> state, result |-> <<result>>]
Returns(state) == Does(state, Nil)
Panics(state) == [state |-> state, result |-> <<>>]

-----------------------------------------------------------------------------
(* Mutex is whether it is locked.                                          *)

Lock(m) == IF m THEN Panics(m) ELSE Returns(TRUE)
Unlock(m) == IF m THEN Returns(FALSE) ELSE Panics(m)

(* RWMutex.                                                                *)

NewRWMutex == [writeLocked |-> FALSE, readLockCounter |-> 0]
WLock(rw) ==
    IF rw.readLockCounter # 0 \/ rw.writeLocked THEN Panics(rw)
    ELSE Returns([rw EXCEPT !.writeLocked = TRUE])
WUnlock(rw) ==
    IF rw.writeLocked THEN Returns([rw EXCEPT !.writeLocked = FALSE]) ELSE Panics(rw)
RLock(rw) ==
    IF rw.writeLocked THEN Panics(rw) ELSE Returns([rw EXCEPT !.readLockCounter = @ + 1])
RUnlock(rw) ==
    IF rw.readLockCounter = 0 THEN Panics(rw)
    ELSE Returns([rw EXCEPT !.readLockCounter = @ - 1])

(* WaitGroup is its counter, which stays negative after the panic.         *)

AddWait(counter, delta) ==
    IF counter + delta < 0 THEN Panics(counter + delta) ELSE Returns(counter + delta)
DoneWait(counter) == AddWait(counter, -1)
Wait(counter) == IF counter # 0 THEN Panics(counter) ELSE Returns(counter)

(* Once.Do until it calls f, with whether it does; then what it defers,    *)
(* also when f panics.                                                     *)

NewOnce == [doing |-> FALSE, done |-> FALSE]
Do(o) ==
    CASE o.done -> Does(o, FALSE)
      [] ~o.done /\ o.doing -> Panics(o)
      [] OTHER -> Does([o EXCEPT !.doing = TRUE], TRUE)
DoEnds(o) == [doing |-> FALSE, done |-> TRUE]

(* Map is a function from the keys that are in it; <<>> before the first.  *)

LoadKey(m, k) == Does(m, IF k \in DOMAIN m THEN <<m[k], TRUE>> ELSE <<Nil, FALSE>>)
LOCAL With(m, k, v) == [x \in DOMAIN m \cup {k} |-> IF x = k THEN v ELSE m[x]]
StoreKey(m, k, v) == Returns(With(m, k, v))
LoadOrStore(m, k, v) ==
    IF k \in DOMAIN m THEN Does(m, <<m[k], TRUE>>) ELSE Does(With(m, k, v), <<v, FALSE>>)
DeleteKey(m, k) == Returns([x \in DOMAIN m \ {k} |-> m[x]])

(* Pool, of both packages: a stack.  made is what New returns, or Nil.     *)

GetOf(store, made) ==
    IF store = <<>> THEN Does(store, made)
    ELSE Does(SubSeq(store, 1, Len(store) - 1), store[Len(store)])
Put(store, x) == Returns(IF x = Nil THEN store ELSE Append(store, x))

-----------------------------------------------------------------------------
(* sync/atomic on a variable, of an integer type t where one is added to.  *)

Swap(v, new) == Does(new, v)
CompareAndSwap(v, old, new) == IF v = old THEN Does(new, TRUE) ELSE Does(v, FALSE)
AddDelta(v, delta, t) == Does(Add(v, delta, t), Add(v, delta, t))
Load(v) == Does(v, v)
Store(v, val) == Returns(val)

(* Value.  What it holds is [type, data], or Nil, whose constructor is not *)
(* that of a type.                                                         *)

SameType(x, y) == IF x = Nil \/ y = Nil THEN x = y ELSE x.type = y.type
CheckNew(v, new) == new # Nil /\ (v = Nil \/ SameType(new, v))

StoreValue(v, new) == IF CheckNew(v, new) THEN Returns(new) ELSE Panics(v)
SwapValue(v, new) == IF CheckNew(v, new) THEN Does(new, v) ELSE Panics(v)
CompareAndSwapValue(v, old, new) ==
    CASE ~CheckNew(v, new) -> Panics(v)
      [] CheckNew(v, new) /\ ~(v = Nil /\ old = Nil) /\ ~SameType(old, new) -> Panics(v)
      [] OTHER -> CompareAndSwap(v, old, new)
================================================================================
