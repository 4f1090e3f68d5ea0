------------------------------- MODULE GoBody -------------------------------
(***************************************************************************)
(* Bodies of Go functions, as far as control flow goes, and what the       *)
(* language says they do.  This is the reference the generated code of     *)
(* FunctionCode is compared with; it models no code of the repository.     *)
(*                                                                         *)
(* A program is a sequence of functions; function 1 is the goroutine's.    *)
(* A function has a body and a result ("none", "plain" or "named"), and    *)
(* may be a literal that captures the variables of its creator ("lit").    *)
(* Statements act on what a caller can observe: the events they print.     *)
(***************************************************************************)
EXTENDS Integers, Sequences

----------------------------------------------------------------------------
(* Expressions and statements. *)

In(i)       == [k |-> "in", i |-> i]                  \* an input of the run
Less        == [k |-> "less"]                         \* counter < 2
Const(n)    == [k |-> "const", n |-> n]
CallOf(f)   == [k |-> "call", f |-> f]                \* f = 0 receives from a channel
And(x, y)   == [k |-> "and", x |-> x, y |-> y]
Or(x, y)    == [k |-> "or", x |-> x, y |-> y]
NoExpr      == [k |-> "none"]

Tick(n)     == [op |-> "tick", n |-> n]
Do(e)       == [op |-> "do", e |-> e]
Show(e)     == [op |-> "show", e |-> e]
Inc         == [op |-> "inc"]
If(c, a)    == [op |-> "branch", kind |-> "if", clauses |-> <<[cond |-> c, body |-> a]>>,
                hasDflt |-> FALSE, dflt |-> <<>>]
IfElse(c, a, b) == [If(c, a) EXCEPT !.hasDflt = TRUE, !.dflt = b]
Choose(kind, cs, ds) == [op |-> "branch", kind |-> kind, clauses |-> cs,
                         hasDflt |-> ds # <<>>, dflt |-> ds]
For(c, post, body) == [op |-> "for", cond |-> c, post |-> post, body |-> body]
Ranging(kind, body) == [op |-> "range", kind |-> kind, body |-> body]   \* two elements
Switch(body) == [op |-> "switch", body |-> body]
Labeled(l, s) == [op |-> "labeled", label |-> l, stmt |-> s]
Break(l)    == [op |-> "break", label |-> l]          \* "" is no label
Continue(l) == [op |-> "continue", label |-> l]
Goto(l)     == [op |-> "goto", label |-> l]
Return(e)   == [op |-> "return", e |-> e]
Defer(f)    == [op |-> "defer", f |-> f]
Panic(v)    == [op |-> "panic", v |-> v]
NativeError(v) == [op |-> "native", v |-> v]          \* a run-time error thrown by JavaScript
Recover     == [op |-> "recover"]
SetResult(v) == [op |-> "setresult", v |-> v]         \* a literal assigns its creator's result
Goexit      == [op |-> "exit"]

Func(body, result, lit) == [body |-> body, result |-> result, lit |-> lit]

\* Events: what a tick, a printed value and a call of recover show.
Shown(v)     == 100 + v
Recovered(v) == 200 + v
Element(k)   == 70 + k

----------------------------------------------------------------------------
(* The language.  A frame holds a counter, the result, the deferred        *)
(* calls, the frame that created the function, and the panic a direct call *)
(* of recover stops (<<>> when there is none).  Completions are "norm",    *)
(* "break", "continue", "goto" with a label, "return", "panic", "exit".    *)

RECURSIVE GoList(_, _, _, _, _), GoLoop(_, _, _, _, _), GoEval(_, _, _, _),
          GoRange(_, _, _, _, _, _), GoCall(_, _, _, _, _), GoDefers(_, _, _), GoClauses(_, _, _, _, _)

Ends(st, c, l, v) == [st |-> st, c |-> c, l |-> l, v |-> v]
Goes(st) == Ends(st, "norm", "", 0)
Emit(st, n) == [st EXCEPT !.trace = Append(@, n)]

GoLogical(prog, e, fr, x) ==
    IF x.c # "norm" \/ ((x.v = 0) = (e.k = "and")) THEN x ELSE GoEval(prog, e.y, fr, x.st)

GoEval(prog, e, fr, st) ==
    CASE e.k = "in"    -> [Goes(st) EXCEPT !.v = st.ins[e.i]]
      [] e.k = "less"  -> [Goes(st) EXCEPT !.v = IF st.frames[fr].i < 2 THEN 1 ELSE 0]
      [] e.k = "const" -> [Goes(st) EXCEPT !.v = e.n]
      [] e.k = "none"  -> Goes(st)
      [] e.k = "call"  -> IF e.f = 0 THEN [Goes(st) EXCEPT !.v = 1]
                          ELSE GoCall(prog, e.f, fr, <<>>, st)
      [] e.k \in {"and", "or"} -> GoLogical(prog, e, fr, GoEval(prog, e.x, fr, st))

\* The first clause whose condition holds, or the default; c is what the
\* condition of clause k came to.
GoChosen(prog, s, k, fr, c) ==
    IF c.c # "norm" THEN c
    ELSE IF c.v # 0 THEN GoList(prog, s.clauses[k].body, 1, fr, c.st)
    ELSE GoClauses(prog, s, k + 1, fr, c.st)
GoClauses(prog, s, k, fr, st) ==
    IF k > Len(s.clauses) THEN GoList(prog, s.dflt, 1, fr, st)
    ELSE GoChosen(prog, s, k, fr, GoEval(prog, s.clauses[k].cond, fr, st))

\* A break without a label or with the statement's own ends the statement, a
\* continue its round.
Broken(r, label) == IF r.c = "break" /\ r.l \in {"", label} THEN Goes(r.st) ELSE r
RoundEnds(b, label) == b.c = "norm" \/ (b.c = "continue" /\ b.l \in {"", label})

\* A round of a loop: the condition came to c, then the body to b, then the
\* post statement to p.
GoPosted(prog, s, label, fr, p) == IF p.c = "norm" THEN GoLoop(prog, s, label, fr, p.st) ELSE p
GoRound(prog, s, label, fr, b) ==
    IF RoundEnds(b, label) THEN GoPosted(prog, s, label, fr, GoList(prog, s.post, 1, fr, b.st))
    ELSE Broken(b, label)
GoTested(prog, s, label, fr, c) ==
    IF c.c # "norm" THEN c
    ELSE IF c.v = 0 THEN Goes(c.st)
    ELSE GoRound(prog, s, label, fr, GoList(prog, s.body, 1, fr, c.st))
GoLoop(prog, s, label, fr, st) == GoTested(prog, s, label, fr, GoEval(prog, s.cond, fr, st))

\* The rounds of a range, from element k; one key of the map was deleted.
Elements(kind) == IF kind = "map" THEN <<0, 2>> ELSE <<0, 1>>

GoRanged(prog, s, label, k, fr, b) ==
    IF RoundEnds(b, label) THEN GoRange(prog, s, label, k + 1, fr, b.st) ELSE Broken(b, label)
GoRange(prog, s, label, k, fr, st) ==
    IF k > 2 THEN Goes(st)
    ELSE GoRanged(prog, s, label, k, fr, GoList(prog, s.body, 1, fr, Emit(st, Element(Elements(s.kind)[k]))))

\* The statements that evaluate one expression, to r.
GoUse(s, fr, r) ==
    IF r.c # "norm" THEN r ELSE
    CASE s.op = "do"     -> Goes(r.st)
      [] s.op = "show"   -> Goes(Emit(r.st, Shown(r.v)))
      [] s.op = "return" -> Ends(IF s.e.k = "none" THEN r.st ELSE [r.st EXCEPT !.frames[fr].res = r.v],
                                 "return", "", r.v)

\* A break without a label passes an if statement.
GoBranched(s, label, r) == IF s.kind = "if" THEN r ELSE Broken(r, label)

GoStmt(prog, s, label, fr, st) ==
    CASE s.op = "tick"   -> Goes(Emit(st, s.n))
      [] s.op = "inc"    -> Goes([st EXCEPT !.frames[fr].i = @ + 1])
      [] s.op \in {"do", "show", "return"} -> GoUse(s, fr, GoEval(prog, s.e, fr, st))
      [] s.op = "branch" -> GoBranched(s, label, GoClauses(prog, s, 1, fr, st))
      [] s.op = "for"    -> GoLoop(prog, s, label, fr, st)
      [] s.op = "range"  -> GoRange(prog, s, label, 1, fr, st)
      [] s.op = "switch" -> Broken(GoList(prog, s.body, 1, fr, st), label)
      [] s.op \in {"break", "continue", "goto"} -> Ends(st, s.op, s.label, 0)
      [] s.op = "defer"  -> Goes([st EXCEPT !.frames[fr].defers = Append(@, s.f)])
      [] s.op \in {"panic", "native"} -> Ends(st, "panic", "", s.v)
      [] s.op = "recover" ->
           LET p == st.frames[fr].pan
           IN  IF p = <<>> THEN Goes(Emit(st, Recovered(0)))
               ELSE Goes(Emit([st EXCEPT !.frames[fr].pan = <<>>,
                                         !.frames[fr].recovered = TRUE], Recovered(p[1])))
      [] s.op = "setresult" -> Goes([st EXCEPT !.frames[st.frames[fr].outer].res = s.v])
      [] s.op = "exit"   -> Ends(st, "exit", "", 0)

\* The k-th statement of a list came to r.
GoNext(prog, ss, k, fr, r) ==
    LET Target == {j \in DOMAIN ss : ss[j].op = "labeled" /\ ss[j].label = r.l}
    IN  IF r.c = "norm" THEN GoList(prog, ss, k + 1, fr, r.st)
        ELSE IF r.c = "goto" /\ Target # {}
             THEN GoList(prog, ss, CHOOSE j \in Target : TRUE, fr, r.st)
        ELSE r
GoList(prog, ss, k, fr, st) ==
    IF k > Len(ss) THEN Goes(st)
    ELSE LET bare == ss[k].op # "labeled"
         IN  GoNext(prog, ss, k, fr,
                 GoStmt(prog, IF bare THEN ss[k] ELSE ss[k].stmt, IF bare THEN "" ELSE ss[k].label, fr, st))

\* Runs the deferred calls of a frame that completed with r, last first; one
\* of them, in frame n, came to d.
GoDeferred(prog, fr, r, n, d) ==
    GoDefers(prog, fr, IF d.c # "norm" THEN d
                       ELSE IF d.st.frames[n].recovered THEN Ends(d.st, "return", "", 0)
                       ELSE [r EXCEPT !.st = d.st])
GoDefers(prog, fr, r) ==
    LET ds == r.st.frames[fr].defers
    IN  IF ds = <<>> THEN r
        ELSE GoDeferred(prog, fr, r, Len(r.st.frames) + 1,
                 GoCall(prog, ds[Len(ds)], fr, IF r.c = "panic" THEN <<r.v>> ELSE <<>>,
                        [r.st EXCEPT !.frames[fr].defers = SubSeq(@, 1, Len(@) - 1)]))

GoReturned(fr, r) ==
    IF r.c \in {"panic", "exit"} THEN r ELSE [Goes(r.st) EXCEPT !.v = r.st.frames[fr].res]
GoCall(prog, f, outer, pan, st) ==
    LET fr == Len(st.frames) + 1
        s0 == [st EXCEPT !.frames = Append(@, [i |-> 0, res |-> 0, defers |-> <<>>,
                 outer |-> outer, pan |-> pan, recovered |-> FALSE])]
    IN  GoReturned(fr, GoDefers(prog, fr, GoList(prog, prog[f].body, 1, fr, s0)))

\* The events of a whole run and how it ends: with a value, a panic that
\* reaches the top of the goroutine, or runtime.Goexit.
GoOutcome(r) ==
    [trace |-> r.st.trace, end |-> IF r.c = "norm" THEN "value" ELSE r.c, v |-> IF r.c = "exit" THEN 0 ELSE r.v]
GoRun(prog, ins) ==
    GoOutcome(GoCall(prog, 1, 0, <<>>, [trace |-> <<>>, ins |-> ins, frames |-> <<>>]))
=============================================================================
