--------------------------- MODULE FunctionAnalysis ---------------------------
(***************************************************************************)
(* The blocking analysis of one package's function bodies                  *)
(* (compiler/internal/analysis): which nodes of a body may block, which    *)
(* must be flattened into the cases of a switch so that the function can   *)
(* be resumed or jumped into, and which returns lead to deferred calls     *)
(* that may block.                                                         *)
(*                                                                         *)
(* A node is named by its path: the positions of its ancestors, from the   *)
(* body down.  An astPath of the code is therefore the set of prefixes of  *)
(* a path.  FuncInfo is built by Visit; the sets Blocking and Flattened of *)
(* the code are the prefixes of the paths in "blocking" and "flat".        *)
(***************************************************************************)
EXTENDS GoBody, FiniteSets, SequencesExt

\* Children of a node: its conditions, bodies and post statement.
CondOf(p, k)    == p \o <<1, k>>
ClauseOf(p, k)  == p \o <<2, k>>
BodyOf(p)       == p \o <<3>>
PostOf(p)       == p \o <<4>>
OperandOf(p, k) == p \o <<5, k>>
StmtAt(p, k)    == p \o <<6, k>>

NewFuncInfo == [blocking |-> {}, flat |-> {}, hasDefer |-> FALSE, gotos |-> {},
                callees |-> {}, continues |-> {}, returns |-> <<>>, defers |-> <<>>,
                loopReturnIndex |-> 0, loops |-> <<>>]

MarkBlocking(fi, p)  == [fi EXCEPT !.blocking = @ \cup {p}]
MarkFlattened(fi, p) == [fi EXCEPT !.flat = @ \cup {p}]

\* fi.Blocking[n] and fi.Flattened[n] for the node at path p.
IsBlockingNode(fi, p)  == \E q \in fi.blocking : IsPrefix(p, q)
IsFlattenedNode(fi, p) == \E q \in fi.blocking \cup fi.flat : IsPrefix(p, q)
IsBlockingFunc(fi)     == fi.blocking # {}
HasFlattened(fi)       == fi.blocking \cup fi.flat # {}

RECURSIVE VisitExpr(_, _, _), VisitList(_, _, _, _), VisitStmt(_, _, _, _), VisitClauses(_, _, _, _)

\* visitCallExpr and callToNamedFunc: a channel operation blocks at once; a
\* call of a function is registered until the function is known to block.
VisitCall(f, p, deferred, fi) ==
    LET called == IF f = 0 THEN MarkBlocking(fi, p)
                  ELSE [fi EXCEPT !.callees = @ \cup {<<f, p>>}]
    IN  IF deferred THEN [called EXCEPT !.defers = Append(@, f)] ELSE called

VisitExpr(e, p, fi) ==
    CASE e.k = "call" -> VisitCall(e.f, p, FALSE, fi)
      [] e.k \in {"and", "or"} -> VisitExpr(e.y, OperandOf(p, 2), VisitExpr(e.x, OperandOf(p, 1), fi))
      [] OTHER -> fi

VisitClauses(s, k, p, fi) ==
    IF k > Len(s.clauses) THEN VisitList(s.dflt, 1, ClauseOf(p, k), fi)
    ELSE VisitClauses(s, k + 1, p,
           VisitList(s.clauses[k].body, 1, ClauseOf(p, k),
             VisitExpr(s.clauses[k].cond, CondOf(p, k), fi)))

\* The children of a loop in the order of the syntax tree.
VisitLoop(s, p, fi) ==
    VisitList(s.body, 1, BodyOf(p),
      IF s.op = "range" THEN fi
      ELSE VisitList(s.post, 1, PostOf(p), VisitExpr(s.cond, CondOf(p, 1), fi)))

\* Mutant of VisitTopLoop: the returns of a loop keep the deferred calls
\* met before them.
VisitLoopOnce(s, p, fi) == VisitLoop(s, p, fi)

\* A loop that is not inside another: afterwards every return in it is given
\* all the deferred calls met by its end, because a second iteration may run
\* them all.
VisitTopLoop(s, p, fi) ==
    LET first == Len(fi.returns) + 1
        in    == VisitLoop(s, p, [fi EXCEPT !.loopReturnIndex = first])
    IN  [in EXCEPT !.loopReturnIndex = 0,
                   !.returns = [k \in DOMAIN @ |-> IF k >= first
                                THEN [@[k] EXCEPT !.defers = in.defers] ELSE @[k]]]

\* FindLoopStmt: the innermost loop, or the loop that carries the label.
LoopOf(fi, label) == LET Carries(l) == label \in {"", l.label}
                     IN  SelectLastInSubSeq(fi.loops, 1, Len(fi.loops), Carries)

VisitStmt(s, label, p, fi) ==
    CASE s.op \in {"do", "show"} -> VisitExpr(s.e, p, fi)
      [] s.op = "branch" ->
           VisitClauses(s, 1, p, IF s.kind = "select" THEN MarkBlocking(fi, p) ELSE fi)
      [] s.op \in {"for", "range"} ->
           LET met == IF s.op = "range" /\ s.kind = "chan" THEN MarkBlocking(fi, p) ELSE fi
               in == [met EXCEPT !.loops = Append(@, [label |-> label, path |-> p, op |-> s.op])]
               out == IF fi.loopReturnIndex > 0 THEN VisitLoop(s, p, in) ELSE VisitTopLoop(s, p, in)
           IN  [out EXCEPT !.loops = fi.loops]
      [] s.op = "switch" -> VisitList(s.body, 1, BodyOf(p), fi)
      [] s.op = "labeled" -> VisitStmt(s.stmt, s.label, p, fi)
      [] s.op = "goto" -> [MarkFlattened(fi, p) EXCEPT !.gotos = @ \cup {s.label}]
      [] s.op = "continue" ->
           LET loop == fi.loops[LoopOf(fi, s.label)]
           IN  IF loop.op = "for" THEN [fi EXCEPT !.continues = @ \cup {<<p, loop.path>>}] ELSE fi
      [] s.op = "return" ->
           VisitExpr(s.e, OperandOf(p, 1),
             [fi EXCEPT !.returns = Append(@, [path |-> p, defers |-> fi.defers])])
      [] s.op = "defer" -> VisitCall(s.f, p, TRUE, [fi EXCEPT !.hasDefer = TRUE])
      [] OTHER -> fi

VisitList(ss, k, p, fi) ==
    IF k > Len(ss) THEN fi
    ELSE VisitList(ss, k + 1, p, VisitStmt(ss[k], "", StmtAt(p, k), fi))

----------------------------------------------------------------------------
(* The propagation over the functions of the program, to a fixed point.    *)

\* propagateFunctionBlocking, one round for one function.
CallsBlock(infos, fi) ==
    LET bl == {c \in fi.callees : IsBlockingFunc(infos[c[1]])}
    IN  [fi EXCEPT !.blocking = @ \cup {c[2] : c \in bl}, !.callees = @ \ bl]

RECURSIVE PropagateFunctionBlocking(_)
PropagateFunctionBlocking(infos) ==
    LET next == [f \in DOMAIN infos |-> CallsBlock(infos, infos[f])]
    IN  IF next = infos THEN infos ELSE PropagateFunctionBlocking(next)

\* isAnyDeferBlocking: a deferred receive (0) stands for a call that is not
\* known not to block.
AnyDeferBlocks(infos, ds) == \E k \in DOMAIN ds : ds[k] = 0 \/ IsBlockingFunc(infos[ds[k]])

\* propagateReturnBlocking: with a goto in the function every return is given
\* every deferred call.
ReturnsBlock(infos, fi) ==
    [fi EXCEPT !.blocking = @ \cup
       {fi.returns[k].path : k \in {j \in DOMAIN fi.returns :
          AnyDeferBlocks(infos, IF fi.gotos # {} THEN fi.defers ELSE fi.returns[j].defers)}}]

\* Mutant of ContinuesBlock: a continue never blocks.
ContinuesStay(fi) == fi

\* propagateContinueBlocking: a continue that runs a blocking post statement.
ContinuesBlock(fi) ==
    [fi EXCEPT !.blocking = @ \cup
       {c[1] : c \in {x \in fi.continues : IsBlockingNode(fi, PostOf(x[2]))}}]

PropagateControlStatementBlocking(infos) ==
    [f \in DOMAIN infos |-> ContinuesBlock(ReturnsBlock(infos, infos[f]))]

\* AnalyzePkg and PropagateAnalysis.
PropagateAnalysis(prog) ==
    LET visited == [f \in DOMAIN prog |-> VisitList(prog[f].body, 1, <<>>, NewFuncInfo)]
    IN  PropagateControlStatementBlocking(PropagateFunctionBlocking(visited))
=============================================================================
