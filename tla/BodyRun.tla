------------------------------- MODULE BodyRun -------------------------------
(***************************************************************************)
(* A goroutine that runs a compiled program, a turn at a time, while other *)
(* goroutines run in between: the program is translated, its function 1    *)
(* called, and whatever returned a saved frame is entered again.           *)
(***************************************************************************)
EXTENDS JsFrames

CONSTANTS Programs,     \* the programs a run starts from
          MaxReady      \* how many receives of a turn may find a value

VARIABLES
    source,     \* the Go functions
    target,     \* the JavaScript functions
    meaning,    \* what the language says the program does
    phase,      \* "source", "ready", "parked", or how it ended
    heap,       \* the JavaScript heap
    saved       \* the frame to resume

vars == <<source, target, meaning, phase, heap, saved>>

Init == /\ source \in Programs
        /\ target = <<>> /\ meaning = <<>> /\ phase = "source" /\ saved = <<>>
        /\ heap \in {NewHeap(<<a, b>>) : a \in {0, 1}, b \in {0, 1}}

Translate ==
    /\ phase = "source"
    /\ phase' = "ready"
    /\ target' = Compile(source)
    /\ meaning' = GoRun(source, heap.ins)
    /\ UNCHANGED <<source, heap, saved>>

\* $goroutine runs fun until it returns a value or a frame, or throws.
EndsTurn(r) ==
    /\ phase' = IF r.frame # <<>> THEN "parked"
                ELSE IF r.st.exit THEN "exit"
                ELSE IF r.k = "throw" THEN "panic" ELSE "value"
    /\ saved' = r.frame
    /\ heap' = [r.st EXCEPT !.fuel = r.v]

Turn(ready) ==
    LET woken == [heap EXCEPT !.fuel = ready, !.asleep = FALSE]
    IN  /\ \/ phase = "ready" /\ EndsTurn(Invoke(target, 1, 0, <<>>, 2, woken))
           \/ phase = "parked" /\ EndsTurn(JsResume(target, saved[1], 2, woken))
        /\ UNCHANGED <<source, target, meaning>>

Next == Translate \/ \E n \in 0..MaxReady : Turn(n)

Spec == Init /\ [][Next]_vars

----------------------------------------------------------------------------

(* Properties.                                                             *)

Done == phase \in {"value", "panic", "exit"}

\* A result that was lost is shown as undefined.
Zeroed(t) == [k \in DOMAIN t |-> IF t[k] = Shown(Undefined) THEN Shown(0) ELSE t[k]]

\* The generated code does what the Go program means, wherever it parks on
\* the way: it shows the same events, in the same order, and ends the same
\* way.  Programs that depart from it by design of $callDeferred are left
\* out: see "departs" in JsFrames, and Zeroed for the result that a function
\* without a named one loses when a waiting deferred call recovers.
GoEquivalent ==
    phase # "source" /\ ~heap.departs =>
      /\ IsPrefix(Zeroed(heap.trace), meaning.trace)
      /\ Done => /\ Zeroed(heap.trace) = meaning.trace
                 /\ phase = meaning.end
                 /\ phase = "panic" => heap.fuel = meaning.v

\* While a goroutine is parked, other goroutines find the globals of the
\* panic machinery at rest, and every frame it saved, down the chain, names a
\* case that the switch of its function has: code nested in a JavaScript
\* block cannot be entered again.
RECURSIVE Resumable(_)
Resumable(fr) ==
    fr.f # 0 =>
      /\ fr.env.s = -1 \/ \E k \in DOMAIN target[fr.f].items :
                             target[fr.f].items[k] = Case(fr.env.s)
      /\ fr.env.r # <<>> => Resumable(fr.env.r[1])

ParkedIsResumable ==
    /\ phase = "parked" => Resumable(saved[1])
    /\ phase \in {"parked", "value"} => heap.psd = 0 /\ heap.off = 0
=============================================================================
