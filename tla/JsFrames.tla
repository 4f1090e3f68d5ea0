------------------------------- MODULE JsFrames -------------------------------
(***************************************************************************)
(* The run of generated functions: JavaScript frames that a blocking call  *)
(* unwinds and saves, and that are entered again with what they saved      *)
(* (compiler/functions.go, the protocol of compiler/prelude/goroutines.js),*)
(* and panics, deferred calls and recover ($callDeferred, $panic,          *)
(* $recover), which rely on the depth of the JavaScript stack.             *)
(*                                                                         *)
(* JavaScript runs to completion, so a turn of the goroutine is one step.  *)
(* st is the JavaScript heap: "envs" the variables of the invocations,     *)
(* "lists" the arrays of deferred calls, "cells" the boxed variables, and  *)
(* the globals: deferStack, panicStack, psd ($panicStackDepth, 0 for null),*)
(* pval ($panicValue), off ($stackDepthOffset), asleep.  "fuel" says how   *)
(* many receives of this turn find a value before one has to wait.         *)
(***************************************************************************)
EXTENDS FunctionCode


Undefined == 99
JsNull    == 0          \* null as an exception; an Error is the value it shows

NewHeap(ins) == [trace |-> <<>>, ins |-> ins, fuel |-> 0, envs |-> <<>>, lists |-> <<>>, cells |-> <<>>,
                 deferStack |-> <<>>, panicStack |-> <<>>, psd |-> 0, pval |-> 0, off |-> 0,
                 asleep |-> FALSE, exit |-> FALSE, departs |-> FALSE]

NewEnv(f, outer) == [f |-> f, s |-> 0, c |-> FALSE, i |-> 0, ri |-> 0, res |-> Undefined, temps |-> [n \in 1..12 |-> Undefined],
                  r |-> <<>>, deferred |-> 0, outer |-> outer]

\* Completions of JavaScript: "norm", "break" and "continue" with a label,
\* "return" with a value or a saved frame, "throw".
Js(st, k, l, v) == [st |-> st, k |-> k, l |-> l, v |-> v, frame |-> <<>>]
JsNorm(st)      == Js(st, "norm", "", Undefined)
JsReturn(st, v) == Js(st, "return", "", v)
JsThrow(st, v)  == Js(st, "throw", "", v)
JsFrame(st, fr) == [JsReturn(st, Undefined) EXCEPT !.frame = <<fr>>]

RECURSIVE Exec(_, _, _, _, _, _, _), Invoke(_, _, _, _, _, _), RunCases(_, _, _, _, _),
          CallDeferred(_, _, _, _, _, _), DeferLoop(_, _, _, _, _, _), JsEval(_, _, _, _, _, _),
          Loop(_, _, _, _, _, _), AfterRound(_, _, _, _, _, _)

SetEnv(st, e, fld, v) == [st EXCEPT !.envs[e][fld] = v]
SetTemp(st, e, n, v)  == [st EXCEPT !.envs[e].temps[n] = v]

\* The named result of invocation e of a function with this code.
ResultOf(code, st, e) == IF code.boxed THEN st.cells[st.envs[e].res] ELSE st.envs[e].res
SetResultOf(code, st, e, v) == IF code.boxed THEN [st EXCEPT !.cells[st.envs[e].res] = v]
                               ELSE SetEnv(st, e, "res", v)

\* $recv and its $blk: a value at once, or the goroutine sleeps and a frame
\* is returned that will give the value.
Receive(st) == IF st.fuel > 0 THEN JsReturn([st EXCEPT !.fuel = @ - 1], 1)
               ELSE JsFrame([st EXCEPT !.asleep = TRUE], [f |-> 0, env |-> 0])

\* A call from depth d, and the $blk of a saved frame.
JsCall(code, f, outer, d, st) == IF f = 0 THEN Receive(st) ELSE Invoke(code, f, outer, <<>>, d + 1, st)
JsResume(code, fr, d, st) == IF fr.f = 0 THEN JsReturn(st, 1) ELSE Invoke(code, fr.f, 0, <<fr>>, d + 1, st)

JsLogical(code, x, f, e, d, left) ==
    IF left.k = "throw" \/ ((left.v = 0) = (x.k = "and")) THEN left
    ELSE JsEval(code, x.y, f, e, d, left.st)

JsEval(code, x, f, e, d, st) ==
    CASE x.k = "in"    -> JsReturn(st, st.ins[x.i])
      [] x.k = "less"  -> JsReturn(st, IF st.envs[e].i < 2 THEN 1 ELSE 0)
      [] x.k = "rless" -> JsReturn(st, IF st.envs[e].ri < x.n THEN 1 ELSE 0)
      [] x.k = "deleted" -> JsReturn(st, IF st.envs[e].ri = 1 THEN 1 ELSE 0)
      [] x.k = "const" -> JsReturn(st, x.n)
      [] x.k = "none"  -> JsReturn(st, Undefined)
      [] x.k = "temp"  -> JsReturn(st, st.envs[e].temps[x.n])
      [] x.k = "named" -> JsReturn(st, ResultOf(code[f], st, e))
      [] x.k = "call"  -> JsCall(code, x.f, e, d, st)
      [] x.k \in {"and", "or"} -> JsLogical(code, x, f, e, d, JsEval(code, x.x, f, e, d, st))

----------------------------------------------------------------------------
(* Panics. *)

\* $panic: pushes the value and unwinds by throwing.  The value of a panic
\* that is being handled comes back to the stack although this one replaces it.
JsPanic(code, v, d, st) ==
    CallDeferred(code, 0, JsNull, TRUE, d + 1, [st EXCEPT !.panicStack = Append(@, v), !.departs = @ \/ st.psd # 0])

\* $recover, called by a function at depth d: $getStackDepth is two deeper.
JsRecover(d, st) ==
    IF st.psd = 0 \/ st.psd # (st.off + d + 2) - 2 THEN Emit(st, Recovered(0))
    ELSE Emit([st EXCEPT !.psd = 0], Recovered(st.pval))

\* The loop of $callDeferred; df # 0 is the list it was given, lp the panic it
\* handles, r what a deferred call of the list top came to.  At the end of a
\* function it returns as soon as lp is recovered, whatever is left.
DeferEnds(top, k, v, st) == [res |-> Js(st, k, "", v), df |-> top]

AfterDeferred(code, top, lp, fromPanic, c, r) ==
    IF r.k = "throw" THEN DeferEnds(top, "throw", r.v, r.st)
    ELSE IF r.frame # <<>>
    THEN LET s == [r.st EXCEPT !.lists[top] = Append(@, [f |-> 0, env |-> 0, frame |-> r.frame])]
         IN  IF fromPanic THEN DeferEnds(top, "throw", JsNull, s) ELSE DeferEnds(top, "norm", Undefined, s)
    ELSE IF lp # <<>> /\ r.st.psd = 0
    THEN IF fromPanic THEN DeferEnds(top, "throw", JsNull, r.st)
         ELSE DeferEnds(top, "norm", Undefined, [r.st EXCEPT !.departs = TRUE])
    ELSE DeferLoop(code, top, lp, fromPanic, c, r.st)

RunDeferred(code, call, c, st) ==
    IF call.frame = <<>> THEN JsCall(code, call.f, call.env, c, st) ELSE JsResume(code, call.frame[1], c, st)

DeferLoop(code, df, lp, fromPanic, c, st) ==
    LET top  == IF df # 0 THEN df ELSE IF st.deferStack = <<>> THEN 0 ELSE Last(st.deferStack)
        left == [st EXCEPT !.deferStack = Front(@)]
    IN  IF top = 0 THEN DeferEnds(0, "throw", lp[1], [st EXCEPT !.psd = 0])
        ELSE IF st.lists[top] # <<>>
        THEN AfterDeferred(code, top, lp, fromPanic, c,
                 RunDeferred(code, Last(st.lists[top]), c, [st EXCEPT !.lists[top] = Front(@)]))
        ELSE IF lp = <<>> THEN DeferEnds(top, "norm", Undefined, left)
        ELSE DeferLoop(code, 0, lp, fromPanic, c, left)

\* $callDeferred at depth c, called from c - 1: what came of raising an error
\* that was passed in; the catch block; the finally block.
Raised(code, df, c, r) ==
    CallDeferred(code, df, IF r.k = "throw" THEN r.v ELSE JsNull, FALSE, c + 1, r.st)

CatchDeferred(code, fromPanic, c, loop) ==
    IF loop.res.k = "throw" /\ ~fromPanic
    THEN CallDeferred(code, IF loop.df = 0 THEN -1 ELSE loop.df, loop.res.v, FALSE, c + 1, loop.res.st)
    ELSE loop.res

LeaveDeferred(st, lp, r) ==
    [r EXCEPT !.st.off = @ + 1,
              !.st.panicStack = IF lp # <<>> /\ r.st.psd # 0 THEN Append(@, lp[1]) ELSE @,
              !.st.psd = IF lp = <<>> THEN @ ELSE st.psd,
              !.st.pval = IF lp = <<>> THEN @ ELSE st.pval]

CallDeferred(code, df, err, fromPanic, c, st) ==
    LET lp == IF st.panicStack = <<>> THEN <<>> ELSE <<Last(st.panicStack)>>
        s1 == [st EXCEPT !.off = @ - 1,
                         !.panicStack = IF lp = <<>> THEN @ ELSE Front(@),
                         !.psd = IF lp = <<>> THEN @ ELSE st.off - 1 + c + 1,
                         !.pval = IF lp = <<>> THEN @ ELSE lp[1]]
    IN  IF ~fromPanic /\ df # 0 /\ ~Contains(st.deferStack, df) THEN JsThrow(st, err)
        ELSE IF err # JsNull THEN Raised(code, df, c, JsPanic(code, err, c, st))
        ELSE IF st.asleep THEN JsNorm(st)
        ELSE LeaveDeferred(st, lp, CatchDeferred(code, fromPanic, c, DeferLoop(code, df, lp, fromPanic, c, s1)))

----------------------------------------------------------------------------
(* Statements. *)

\* $deferred = []; $curGoroutine.deferStack.push($deferred), the boxes of the
\* captured variables and the zero value of a named result.
Enter(code, f, e, st) ==
    LET s1 == IF ~code[f].hasDefer THEN st
              ELSE [st EXCEPT !.lists = Append(@, <<>>), !.envs[e].deferred = Len(st.lists) + 1,
                              !.deferStack = Append(@, Len(st.lists) + 1)]
        s2 == IF ~code[f].boxed THEN s1
              ELSE [s1 EXCEPT !.cells = Append(@, Undefined), !.envs[e].res = Len(s1.cells) + 1]
    IN  IF code[f].result = "named" THEN SetResultOf(code[f], s2, e, 0) ELSE s2

ExecStmt(code, s, f, e, d, st) ==
    CASE s.op = "tick"    -> JsNorm(Emit(st, s.n))
      [] s.op = "inc"     -> JsNorm([st EXCEPT !.envs[e].i = @ + 1])
      [] s.op = "rzero"   -> JsNorm([st EXCEPT !.envs[e].ri = 0])
      [] s.op = "rinc"    -> JsNorm([st EXCEPT !.envs[e].ri = @ + 1])
      [] s.op = "rshow"   -> JsNorm(Emit(st, Element(st.envs[e].ri)))
      [] s.op = "defer"   -> JsNorm([st EXCEPT !.lists[st.envs[e].deferred] =
                                       Append(@, [f |-> s.f, env |-> e, frame |-> <<>>])])
      [] s.op = "panic"   -> JsPanic(code, s.v, d + 1, st)
      [] s.op = "native"  -> JsThrow(st, s.v)
      [] s.op = "recover" -> JsNorm(JsRecover(d, st))
      [] s.op = "setresult" -> LET o == st.envs[e].outer
                              IN  JsNorm(SetResultOf(code[st.envs[o].f], st, o, s.v))
      [] s.op = "exit"    -> JsThrow([st EXCEPT !.exit = TRUE, !.departs = @ \/ d # 2], JsNull)

\* A nested statement ended: a break or continue of its label stays in it.
Ended(r, label) == IF r.k = "break" /\ r.l \in {"", label} THEN JsNorm(r.st) ELSE r

Loop(code, it, f, e, d, st) == AfterRound(code, it, f, e, d, Exec(code, it.body, 1, f, e, d, st))
AfterRound(code, it, f, e, d, r) ==
    IF r.k = "norm" \/ (r.k = "continue" /\ r.l \in {"", it.label} \ {"s"})
    THEN Loop(code, it, f, e, d, r.st) ELSE Ended(r, it.label)

\* The statements that evaluate one expression, to x.
Uses(code, it, f, e, d, x) ==
    IF x.k = "throw" THEN x ELSE
    CASE it.j = "expr"   -> JsNorm(x.st)
      [] it.j = "call"   -> JsNorm([x.st EXCEPT !.envs[e].temps[it.v] = x.v, !.envs[e].r = x.frame,
                                                !.envs[e].s = it.s])
      [] it.j = "if"     -> Exec(code, IF (x.v # 0) # it.not THEN it.th ELSE it.el, 1, f, e, d, x.st)
      [] it.j = "set"    -> JsNorm(SetTemp(x.st, e, it.v, x.v))
      [] it.j = "show"   -> JsNorm(Emit(x.st, Shown(x.v)))
      [] it.j = "result" -> JsNorm(SetResultOf(code[f], x.st, e, x.v))
      [] it.j = "return" -> [x EXCEPT !.k = "return"]

\* if($c) { $c = false; v = $r.$blk(); } if($r && $r.$blk) { break s; }
Awaited(e, st) == IF st.envs[e].r # <<>> THEN Js(st, "break", "s", Undefined) ELSE JsNorm(st)
Resumed(it, e, r) ==
    IF r.k = "throw" THEN r
    ELSE Awaited(e, [r.st EXCEPT !.envs[e].temps[it.v] = r.v, !.envs[e].r = r.frame])

ExecItem(code, it, f, e, d, st) ==
    CASE it.j = "enter"  -> JsNorm(Enter(code, f, e, st))
      [] it.j = "case"   -> JsNorm(st)
      [] it.j = "jump"   -> Js(SetEnv(st, e, "s", it.n), "continue", IF it.s THEN "s" ELSE "", Undefined)
      [] it.j = "sets"   -> JsNorm(SetEnv(st, e, "s", it.n))
      [] it.j = "break"  -> Js(st, "break", it.label, Undefined)
      [] it.j = "continue" -> Js(st, "continue", it.label, Undefined)
      [] it.j = "stmt"   -> ExecStmt(code, it.s, f, e, d, st)
      [] it.j = "await"  ->
           IF st.envs[e].c
           THEN Resumed(it, e, JsResume(code, st.envs[e].r[1], d, SetEnv(st, e, "c", FALSE)))
           ELSE Awaited(e, st)
      [] it.j \in {"expr", "set", "show", "result", "return", "call"} ->
           Uses(code, it, f, e, d, JsEval(code, it.e, f, e, d, st))
      [] it.j = "if"     -> Uses(code, it, f, e, d, JsEval(code, it.c, f, e, d, st))
      [] it.j = "switch0" -> Ended(Exec(code, it.body, 1, f, e, d, st), it.label)
      [] it.j = "while"  -> Loop(code, it, f, e, d, st)

AfterItem(code, items, k, f, e, d, r) ==
    IF r.k = "norm" THEN Exec(code, items, k + 1, f, e, d, r.st) ELSE r
Exec(code, items, k, f, e, d, st) ==
    IF k > Len(items) THEN JsNorm(st)
    ELSE AfterItem(code, items, k, f, e, d, ExecItem(code, items[k], f, e, d, st))

----------------------------------------------------------------------------
(* Functions. *)

\* s: while (true) { switch ($s) { case 0: ... } return; }
CaseAt(items, s) ==
    LET at == SelectInSeq(items, LAMBDA it : it.j = "case" /\ it.n = s)
    IN  IF s = 0 THEN 1 ELSE IF at = 0 THEN Len(items) + 1 ELSE at

AfterCases(code, f, e, d, r) ==
    IF r.k = "continue" THEN RunCases(code, f, e, d, r.st)
    ELSE IF r.k = "norm" \/ (r.k = "break" /\ r.l # "s") THEN JsReturn(r.st, Undefined)
    ELSE r
RunCases(code, f, e, d, st) ==
    AfterCases(code, f, e, d, Exec(code, code[f].items, CaseAt(code[f].items, st.envs[e].s), f, e, d, st))

\* The body up to the end of the try block.
FallsOut(r) == IF r.k = "norm" THEN JsReturn(r.st, Undefined) ELSE r
RunBody(code, f, e, d, st) ==
    IF code[f].flattened THEN RunCases(code, f, e, d, st)
    ELSE FallsOut(Exec(code, code[f].items, 1, f, e, d, st))

\* var $f = {$blk: f, $c: true, ...}; return $f
Saved(f, e, st) == JsFrame(st, [f |-> f, env |-> st.envs[e]])

\* catch (err) {...} finally { $callDeferred($deferred, $err); ... }
AfterDeferredCalls(fn, f, e, body, fin) ==
    IF fin.k = "throw" THEN fin
    ELSE IF fin.st.asleep THEN Saved(f, e, fin.st)
    ELSE IF fn.result = "named" THEN JsReturn(fin.st, ResultOf(fn, fin.st, e))
    ELSE IF body.k # "throw" THEN [body EXCEPT !.st = fin.st]
    ELSE JsReturn(fin.st, IF fn.result = "plain" THEN 0 ELSE Undefined)

Finally(code, f, e, d, body) ==
    LET fn    == code[f]
        threw == body.k = "throw"
        st    == IF threw /\ fn.blocking THEN SetEnv(body.st, e, "s", -1) ELSE body.st
    IN  AfterDeferredCalls(fn, f, e, body,
            CallDeferred(code, st.envs[e].deferred, IF threw THEN body.v ELSE JsNull, FALSE, d + 1, st))

\* An invocation at depth d: a fresh one, or one that restores a saved frame.
AfterBody(code, f, e, d, body) ==
    IF code[f].hasDefer THEN Finally(code, f, e, d, body)
    ELSE IF body.k = "break" THEN Saved(f, e, body.st) ELSE body

Invoke(code, f, outer, saved, d, st) ==
    LET e   == Len(st.envs) + 1
        env == IF saved # <<>> THEN [saved[1].env EXCEPT !.c = TRUE] ELSE NewEnv(f, outer)
    IN  AfterBody(code, f, e, d, RunBody(code, f, e, d, [st EXCEPT !.envs = Append(@, env)]))
=============================================================================
