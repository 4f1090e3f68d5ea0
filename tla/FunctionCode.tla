----------------------------- MODULE FunctionCode -----------------------------
(***************************************************************************)
(* The translation of a Go function body into JavaScript                   *)
(* (compiler/statements.go, compiler/functions.go): structured statements  *)
(* where nothing can block, and the cases of a switch over $s where a node *)
(* is flattened.                                                           *)
(*                                                                         *)
(* JavaScript is a sequence of items.  "case" marks a case of the switch;  *)
(* "jump" is `$s = n; continue` with or without the label s; "while",      *)
(* "if" and "switch0" nest items; "await" is the second half of a blocking *)
(* call: `if($c) {...$blk()} if ($r && $r.$blk) { break s; }`.             *)
(***************************************************************************)
EXTENDS FunctionAnalysis

Labels == {"", "L", "M"}

\* flowData: what continue runs before it jumps, and where continue and break
\* jump to (0: the JavaScript statement of that name is used).
NoFlow == [post |-> <<>>, begin |-> 0, end |-> 0]

NewFuncContext == [caseCounter |-> 1, labelCases |-> [l \in Labels |-> 0], vars |-> 0, out |-> <<>>]

Write(fc, item)  == [fc EXCEPT !.out = Append(@, item)]
NewCase(fc)      == [fc EXCEPT !.caseCounter = @ + 1]
NewVar(fc)       == [fc EXCEPT !.vars = @ + 1]
Case(n)          == [j |-> "case", n |-> n]
Jump(n, s)       == [j |-> "jump", n |-> n, s |-> s]
JsIf(c, not, th, el) == [j |-> "if", c |-> c, not |-> not, th |-> th, el |-> el]
Pure(e)          == [j |-> "expr", e |-> e]
Temp(n)          == [k |-> "temp", n |-> n]

\* What a nested translation printed (Indented in a JavaScript block).
Nested(fc, done) == SubSeq(done.out, Len(fc.out) + 1, Len(done.out))
Within(fc, done, item) == Write([done EXCEPT !.out = fc.out], item)

RECURSIVE TranslateList(_, _, _, _, _, _), TranslateStmt(_, _, _, _, _, _), TranslateExpr(_, _, _, _),
          TranslateConds(_, _, _, _, _, _, _), TranslateClauses(_, _, _, _, _, _, _, _)

\* translateCall: the call of a blocking function is followed by the case
\* its caller resumes in.
TranslateCall(fi, e, p, fc) ==
    IF ~IsBlockingNode(fi, p) THEN [fc |-> fc, e |-> e]
    ELSE LET n == fc.caseCounter
             v == fc.vars + 1
             out == Write(Write(Write(NewVar(NewCase(fc)),
                      [j |-> "call", e |-> e, v |-> v, s |-> n]), Case(n)),
                      [j |-> "await", v |-> v])
         IN  [fc |-> out, e |-> Temp(v)]

\* Binary && and || with a blocking right operand.
TranslateLogical(fi, e, p, fc) ==
    LET skip == fc.caseCounter
        v    == fc.vars + 1
        x    == TranslateExpr(fi, e.x, OperandOf(p, 1), NewVar(NewCase(fc)))
        test == Write(x.fc, JsIf(x.e, e.k = "and",
                   <<[j |-> "set", v |-> v, e |-> Const(IF e.k = "and" THEN 0 ELSE 1)],
                     Jump(skip, TRUE)>>, <<>>))
        y    == TranslateExpr(fi, e.y, OperandOf(p, 2), test)
    IN  [fc |-> Write(Write(y.fc, [j |-> "set", v |-> v, e |-> y.e]), Case(skip)), e |-> Temp(v)]

TranslateExpr(fi, e, p, fc) ==
    CASE e.k = "call" -> TranslateCall(fi, e, p, fc)
      [] e.k \in {"and", "or"} ->
           IF IsBlockingNode(fi, OperandOf(p, 2)) THEN TranslateLogical(fi, e, p, fc)
           ELSE LET x == TranslateExpr(fi, e.x, OperandOf(p, 1), fc)
                    y == TranslateExpr(fi, e.y, OperandOf(p, 2), x.fc)
                IN  [fc |-> y.fc, e |-> [e EXCEPT !.x = x.e, !.y = y.e]]
      [] OTHER -> [fc |-> fc, e |-> e]

----------------------------------------------------------------------------
(* Branching: if, type switch and select (translateBranchingStmt).         *)

\* The conditions, in order: each is tested at once when flattened, and kept
\* for the chain of ifs when not.
TranslateConds(fi, s, k, p, flatten, offset, r) ==
    IF k > Len(s.clauses) THEN r
    ELSE LET c == TranslateExpr(fi, s.clauses[k].cond, CondOf(p, k), r.fc)
             fc == IF flatten
                   THEN Write(c.fc, JsIf(c.e, FALSE, <<Jump(offset + k - 1, FALSE)>>, <<>>))
                   ELSE c.fc
         IN  TranslateConds(fi, s, k + 1, p, flatten, offset, [fc |-> fc, conds |-> Append(r.conds, c.e)])

\* The last statement may have a label (one: labels are not nested here).
EndsWithReturn(ss) ==
    LET last == Last(ss)
    IN  ss # <<>> /\ (last.op = "return" \/ (last.op = "labeled" /\ last.stmt.op = "return"))

\* Bodies of a flattened statement: a case each, all but the last jumping to
\* the end.
FlatClauses(fi, s, k, p, flow, offset, end, fc) ==
    LET clause == TranslateList(fi, s.clauses[k].body, 1, ClauseOf(p, k), flow, Write(fc, Case(offset + k - 1)))
        jump == (k < Len(s.clauses) \/ s.hasDflt) /\ ~EndsWithReturn(s.clauses[k].body)
    IN  IF jump THEN Write(clause, Jump(end, FALSE)) ELSE clause

TranslateClauses(fi, s, k, p, flow, offset, end, fc) ==
    IF k <= Len(s.clauses)
    THEN TranslateClauses(fi, s, k + 1, p, flow, offset, end, FlatClauses(fi, s, k, p, flow, offset, end, fc))
    ELSE IF s.hasDflt
    THEN TranslateList(fi, s.dflt, 1, ClauseOf(p, k), flow, Write(fc, Case(offset + Len(s.clauses))))
    ELSE fc

\* Bodies of a statement that is not: if (c1) {...} else if (c2) {...} else {...}.
RECURSIVE IfChain(_, _, _, _, _, _, _)
IfChain(fi, s, k, p, flow, conds, fc) ==
    LET done == TranslateList(fi, IF k > Len(s.clauses) THEN s.dflt ELSE s.clauses[k].body, 1, ClauseOf(p, k), flow, fc)
        rest == IfChain(fi, s, k + 1, p, flow, conds, [done EXCEPT !.out = fc.out])
    IN  IF k > Len(s.clauses) THEN done
        ELSE Within(fc, rest, JsIf(conds[k], FALSE, Nested(fc, done), Nested(fc, rest)))

\* analysis.HasBreak: a break without a label that is not inside another loop
\* or switch.
RECURSIVE HasBreak(_)
HasBreak(ss) ==
    \E k \in DOMAIN ss :
        LET s == IF ss[k].op = "labeled" THEN ss[k].stmt ELSE ss[k]
        IN  \/ s.op = "break" /\ s.label = ""
            \/ /\ s.op = "branch" /\ s.kind = "if"
               /\ HasBreak(s.dflt) \/ \E c \in DOMAIN s.clauses : HasBreak(s.clauses[c].body)

TranslateBranching(fi, s, label, p, flow, fc) ==
    LET flatten  == IF s.kind = "select" THEN \E k \in DOMAIN s.clauses : IsFlattenedNode(fi, ClauseOf(p, k))
                                                                       \/ IsFlattenedNode(fi, ClauseOf(p, Len(s.clauses) + 1))
                    ELSE IsFlattenedNode(fi, p)
        canBreak == s.kind # "if"
        offset   == fc.caseCounter
        dflt     == offset + Len(s.clauses)
        end      == IF s.hasDflt THEN dflt + 1 ELSE dflt
        start    == IF flatten THEN [fc EXCEPT !.caseCounter = end + 1] ELSE fc
        data     == [flow[""] EXCEPT !.end = IF flatten THEN end ELSE 0]
        inner    == IF canBreak THEN [flow EXCEPT ![""] = data, ![label] = data] ELSE flow
        conds    == TranslateConds(fi, s, 1, p, flatten, offset, [fc |-> start, conds |-> <<>>])
        breaks   == label # "" \/ (canBreak /\ (HasBreak(s.dflt) \/ \E k \in DOMAIN s.clauses : HasBreak(s.clauses[k].body)))
        chain    == IfChain(fi, s, 1, p, inner, conds.conds, conds.fc)
    IN  IF flatten
        THEN Write(TranslateClauses(fi, s, 1, p, inner, offset, end, Write(conds.fc, Jump(dflt, FALSE))), Case(end))
        ELSE IF breaks
        THEN Within(conds.fc, chain, [j |-> "switch0", label |-> label, body |-> Nested(conds.fc, chain)])
        ELSE chain

----------------------------------------------------------------------------
(* Loops (translateLoopingStmt) and the switch that a Go switch becomes.   *)

TranslatePost(fi, flow, post, fc) ==
    IF post = <<>> THEN fc ELSE TranslateList(fi, post[1], 1, post[2], flow, fc)

TranslateLooping(fi, s, label, p, flow, fc) ==
    LET flatten == IsFlattenedNode(fi, p)
        begin   == IF flatten THEN fc.caseCounter ELSE 0
        end     == IF flatten THEN fc.caseCounter + 1 ELSE 0
        data    == [post |-> <<s.post, PostOf(p)>>, begin |-> begin, end |-> end]
        inner   == [flow EXCEPT ![""] = data, ![label] = data]
        opened  == IF flatten THEN Write([fc EXCEPT !.caseCounter = @ + 2], Case(begin)) ELSE fc
        cond    == TranslateExpr(fi, s.cond, CondOf(p, 1), opened)
        leave   == IF flatten THEN <<Jump(end, FALSE)>> ELSE <<[j |-> "break", label |-> ""]>>
        tested  == IF s.cond.k = "none" THEN cond.fc ELSE Write(cond.fc, JsIf(cond.e, TRUE, leave, <<>>))
        body    == TranslateList(fi, s.body, 1, BodyOf(p), inner, tested)
        isTerminated == s.body # <<>> /\ Last(s.body).op \in {"return", "break", "continue", "goto"}
        posted  == IF isTerminated THEN body ELSE TranslatePost(fi, inner, data.post, body)
        looped  == IF isTerminated THEN posted ELSE Write(posted, Jump(begin, FALSE))
    IN  IF flatten THEN Write(looped, Case(end))
        ELSE Within(fc, posted, [j |-> "while", label |-> label, body |-> Nested(fc, posted)])

\* A range is a loop over a hidden counter; one over a channel is a loop that
\* receives and leaves when the channel is closed.  A map may have lost a key.
RLess(n) == [k |-> "rless", n |-> n]
Hidden(op) == [op |-> op]
RangeLoop(s) ==
    CASE s.kind = "slice" -> For(RLess(2), <<Hidden("rinc")>>, <<Hidden("rshow")>> \o s.body)
      [] s.kind = "map" -> For(RLess(3), <<Hidden("rinc")>>,
           <<If([k |-> "deleted"], <<Continue("")>>), Hidden("rshow")>> \o s.body)
      [] s.kind = "chan" -> For(NoExpr, <<>>,
           <<Do(CallOf(0)), IfElse(RLess(2), <<>>, <<Break("")>>), Hidden("rshow"), Hidden("rinc")>> \o s.body)

TranslateRange(fi, s, label, p, flow, fc) ==
    LET loop == RangeLoop(s)
        \* the body's statements keep their nodes behind the added ones
        moved == Len(loop.body) - Len(s.body)
        Shift(q) == IF IsStrictPrefix(BodyOf(p), q)
                    THEN [q EXCEPT ![Len(p) + 3] = @ + moved] ELSE q
        shifted == [fi EXCEPT !.blocking = {Shift(q) : q \in @} \cup
                                 (IF s.kind = "chan" THEN {StmtAt(BodyOf(p), 1)} ELSE {}),
                              !.flat = {Shift(q) : q \in @}]
        done == TranslateLooping(shifted, loop, label, p, flow, Write(fc, [j |-> "stmt", s |-> Hidden("rzero")]))
    IN  done

TranslateSwitch(fi, s, label, p, flow, fc) ==
    LET data  == [flow[""] EXCEPT !.end = IF IsFlattenedNode(fi, p) THEN fc.caseCounter ELSE 0]
        inner == [flow EXCEPT ![""] = data, ![label] = data]
        flat  == TranslateList(fi, s.body, 1, BodyOf(p), inner, NewCase(fc))
        plain == TranslateList(fi, s.body, 1, BodyOf(p), inner, fc)
    IN  IF IsFlattenedNode(fi, p) THEN Write(flat, Case(data.end))
        ELSE IF label # "" \/ HasBreak(s.body)
        THEN Within(fc, plain, [j |-> "switch0", label |-> label, body |-> Nested(fc, plain)])
        ELSE plain

----------------------------------------------------------------------------
(* Branch statements, return and the rest of translateStmt.                *)

TranslateBranch(fi, s, flow, fc) ==
    LET data == flow[s.label]
        posted == TranslatePost(fi, flow, data.post, fc)
        known  == fc.labelCases[s.label]
        target == IF known # 0 THEN known ELSE fc.caseCounter
        labelled == IF known # 0 THEN fc ELSE [NewCase(fc) EXCEPT !.labelCases[s.label] = target]
    IN  CASE s.op = "break" ->
               Write(fc, IF data.end = 0 THEN [j |-> "break", label |-> s.label] ELSE Jump(data.end, s.label # ""))
          [] s.op = "continue" ->
               Write(posted, IF data.begin = 0 THEN [j |-> "continue", label |-> s.label] ELSE Jump(data.begin, s.label # ""))
          [] s.op = "goto" -> Write(labelled, Jump(target, FALSE))

\* A blocking return stores its value and re-executes itself on resumption.
TranslateReturn(fi, s, p, fc) ==
    LET e == TranslateExpr(fi, s.e, OperandOf(p, 1), fc)
        assigned == IF fi.named /\ s.e.k # "none" THEN Write(e.fc, [j |-> "result", e |-> e.e]) ELSE e.fc
        value == IF fi.named THEN [k |-> "named"] ELSE e.e
        stays == value.k # "none"
        v == assigned.vars + 1
        stored == IF stays THEN Write(NewVar(assigned), [j |-> "set", v |-> v, e |-> value]) ELSE assigned
        n == stored.caseCounter
    IN  IF ~HasFlattened(fi) THEN Write(assigned, [j |-> "return", e |-> value])
        ELSE IF ~IsBlockingNode(fi, p)
        THEN Write(Write(assigned, [j |-> "sets", n |-> -1]), [j |-> "return", e |-> value])
        ELSE Write(Write(Write(NewCase(stored), [j |-> "sets", n |-> n]), Case(n)),
                   [j |-> "return", e |-> IF stays THEN Temp(v) ELSE value])

TranslateLabeled(fi, s, p, flow, fc) ==
    LET known == fc.labelCases[s.label]
        n     == IF known # 0 THEN known ELSE fc.caseCounter
        named == IF known # 0 THEN fc ELSE [NewCase(fc) EXCEPT !.labelCases[s.label] = n]
    IN  TranslateStmt(fi, s.stmt, s.label, p, flow, IF s.label \in fi.gotos THEN Write(named, Case(n)) ELSE fc)

TranslateStmt(fi, s, label, p, flow, fc) ==
    CASE s.op \in {"do", "show"} ->
           LET e == TranslateExpr(fi, s.e, p, fc)
           IN  IF s.op = "do" THEN Write(e.fc, Pure(e.e)) ELSE Write(e.fc, [j |-> "show", e |-> e.e])
      [] s.op = "branch" -> TranslateBranching(fi, s, label, p, flow, fc)
      [] s.op = "for" -> TranslateLooping(fi, s, label, p, flow, fc)
      [] s.op = "range" -> TranslateRange(fi, s, label, p, flow, fc)
      [] s.op = "switch" -> TranslateSwitch(fi, s, label, p, flow, fc)
      [] s.op = "labeled" -> TranslateLabeled(fi, s, p, flow, fc)
      [] s.op \in {"break", "continue", "goto"} -> TranslateBranch(fi, s, flow, fc)
      [] s.op = "return" -> TranslateReturn(fi, s, p, fc)
      [] OTHER -> Write(fc, [j |-> "stmt", s |-> s])

TranslateList(fi, ss, k, p, flow, fc) ==
    IF k > Len(ss) THEN fc
    ELSE TranslateList(fi, ss, k + 1, p, flow, TranslateStmt(fi, ss[k], "", StmtAt(p, k), flow, fc))

----------------------------------------------------------------------------
(* translateFunctionBody.  A captured result is boxed when the function    *)
(* can be suspended, because a resumed function gets new JavaScript        *)
(* variables.                                                              *)

RECURSIVE Captures(_, _)
Captures(prog, ss) ==
    \E k \in DOMAIN ss :
        LET s == ss[k]
        IN  \/ /\ s.op = "defer" /\ s.f # 0 /\ prog[s.f].lit
               /\ \E m \in DOMAIN prog[s.f].body : prog[s.f].body[m].op = "setresult"
            \/ s.op = "labeled" /\ Captures(prog, <<s.stmt>>)
            \/ s.op \in {"for", "range", "switch"} /\ Captures(prog, s.body)
            \/ s.op = "branch" /\ (Captures(prog, s.dflt) \/ \E c \in DOMAIN s.clauses : Captures(prog, s.clauses[c].body))

FunctionBody(prog, f, info) ==
    LET fn == prog[f]
        fi == info @@ [named |-> fn.result = "named"]
        flow == [l \in Labels |-> NoFlow]
        start == [NewFuncContext EXCEPT !.out = <<[j |-> "enter"]>>]
        body == TranslateList(fi, fn.body, 1, <<>>, flow, start)
        done == IF HasFlattened(fi) /\ ~EndsWithReturn(fn.body)
                THEN TranslateReturn(fi, Return(NoExpr), <<9>>, body) ELSE body
    IN  [items |-> done.out, flattened |-> HasFlattened(fi), blocking |-> IsBlockingFunc(fi),
         hasDefer |-> fi.hasDefer, result |-> fn.result,
         boxed |-> IsBlockingFunc(fi) /\ fi.named /\ Captures(prog, fn.body)]

Compile(prog) == LET infos == PropagateAnalysis(prog)
                 IN  [f \in DOMAIN prog |-> FunctionBody(prog, f, infos[f])]
=============================================================================
