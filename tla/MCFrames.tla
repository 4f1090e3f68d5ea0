------------------------------ MODULE MCFrames ------------------------------
(***************************************************************************)
(* Families of programs.  Jumps: a jump out of one of five statements      *)
(* inside a labelled loop, with receives at every subset of the places     *)
(* that may block.  Unwinds: a function with up to two deferred calls that *)
(* returns, panics or throws, called by one that may recover.  Shapes: a   *)
(* goto, and a return before the deferred call of a loop.                  *)
(***************************************************************************)
EXTENDS BodyRun

Wait == Do(CallOf(0))
At(b, n) == IF b THEN <<Wait, Tick(n)>> ELSE <<Tick(n)>>

JumpTargets == {Break(""), Break("L"), Continue(""), Continue("L"), Return(Const(7)), Tick(8)}

Inner(kind, ss) ==
    CASE kind = "for"    -> <<For(Less, <<Inc>>, ss)>>
      [] kind = "switch" -> <<Switch(ss)>>
      [] kind \in {"slice", "map", "chan"} -> <<Ranging(kind, ss)>>
      [] kind = "select" -> <<Wait, Choose("select", <<[cond |-> In(2), body |-> ss], [cond |-> Const(1), body |-> <<Tick(30)>>]>>, <<>>)>>
      [] kind = "type"   -> <<Choose("type", <<[cond |-> In(2), body |-> <<Tick(31)>>]>>, ss)>>
      [] kind = "if"     -> <<If(In(2), ss)>>

\* Where a jump is written: the places that wait, in order, are the loop's
\* post statement, before, at the condition, after, and a deferred call.
JumpProgram(kind, j, w) ==
    << Func( (IF w[5] THEN <<Defer(2)>> ELSE <<>>) \o
             << Labeled("L", For(Less, IF w[1] THEN <<Inc, Wait>> ELSE <<Inc>>,
                  At(w[2], 1) \o
                  Inner(kind, <<IfElse(IF w[3] THEN And(In(1), CallOf(0)) ELSE In(1), <<Tick(2), j>>, <<Tick(3)>>)>>
                              \o At(w[4], 4)) \o <<Tick(5)>>)),
                Tick(6), Return(Const(9)) >>, "plain", FALSE),
       Func(<<Tick(20), Wait, Tick(21)>>, "none", FALSE) >>

\* At most n of the five places wait.
Waits(n) == {w \in [1..5 -> BOOLEAN] : Cardinality({k \in 1..5 : w[k]}) <= n}

Jumps == {JumpProgram(k, j, w) : k \in {"for", "slice", "map", "switch", "select", "type", "if"},
                                 j \in JumpTargets, w \in Waits(2)}
         \cup {JumpProgram("chan", j, w) : j \in JumpTargets, w \in Waits(1)}

Deferred == { <<Tick(40)>>, <<Recover>>, <<Wait, Tick(41)>>, <<Wait, Recover>>, <<Recover, Wait, Tick(42)>>,
              <<SetResult(6), Tick(43)>>, <<Wait, SetResult(6)>>, <<Recover, Panic(4)>>, <<Panic(4)>>}

Final == { <<Return(Const(7))>>, <<Panic(3)>>, <<Wait, Return(Const(7))>>, <<Wait, Panic(3)>>, <<NativeError(3)>>,
           <<Return(CallOf(6))>>, <<If(In(1), <<Return(Const(8))>>), Defer(4), Return(Const(7))>> }

UnwindProgram(d1, d2, fin, res, rec) ==
    << Func((IF rec THEN <<Defer(5)>> ELSE <<>>) \o <<Show(CallOf(2)), Tick(10), Return(Const(1))>>, "plain", FALSE),
       Func(<<Defer(3)>> \o fin, res, FALSE),
       Func(d1, "none", TRUE), Func(d2, "none", TRUE),
       Func(<<Recover>>, "none", TRUE),
       Func(<<Wait, Tick(60), Return(Const(5))>>, "plain", FALSE) >>

Two(d1, d2, fin, res, rec) == [UnwindProgram(d1, d2, fin, res, rec) EXCEPT ![2].body = <<Defer(3), Defer(4)>> \o fin]

SetsResult(d) == \E k \in DOMAIN d : d[k].op = "setresult"

Unwinds == {Two(d1, d2, fin, res, rec) : d1 \in Deferred, d2 \in Deferred, fin \in Final,
                 res \in {"plain", "named"}, rec \in BOOLEAN}
LegalUnwinds == {u \in Unwinds : u[2].result = "named" \/ ~(SetsResult(u[3].body) \/ SetsResult(u[4].body))}

\* A jump back to a label, and a return on the last round of a loop that
\* defers after it.
GotoProgram(w) ==
    << Func(<<Tick(1), Labeled("L", Inc)>> \o At(w[1], 2) \o
            <<IfElse(Or(In(1), In(2)), At(w[2], 3) \o <<If(Less, <<Goto("L")>>)>>, <<If(Less, <<Defer(2), Goto("L")>>)>>)>> \o
            <<Return(IF w[3] THEN CallOf(0) ELSE Const(7))>>, "plain", FALSE),
       Func(At(w[4], 20), "none", FALSE) >>

LoopDeferProgram(w) ==
    << Func(<<Show(CallOf(2)), Tick(9), Return(Const(1))>>, "plain", FALSE),
       Func(<<For(Const(1), <<Inc>>, <<IfElse(Less, At(w[1], 1), <<Return(Const(7))>>), Defer(3)>>)>>,
            IF w[2] THEN "plain" ELSE "named", FALSE),
       Func(At(w[3], 20), "none", FALSE) >>

ExitProgram(w) ==
    << Func(<<Defer(2)>> \o At(w[1], 1) \o <<If(In(1), <<Goexit>>)>> \o
            (IF w[2] THEN <<Labeled("L", For(Less, <<Inc>>, <<If(In(2), <<Goexit>>), Wait>>))>> ELSE <<>>)
            \o <<Return(Const(1))>>, IF w[3] THEN "plain" ELSE "named", FALSE),
       Func(At(w[4], 20), "none", FALSE) >>

Shapes == {GotoProgram(w) : w \in [1..4 -> BOOLEAN]} 
          \cup {LoopDeferProgram(w) : w \in [1..3 -> BOOLEAN]}
          \cup {ExitProgram(w) : w \in [1..4 -> BOOLEAN]}

MCPrograms == Jumps \cup LegalUnwinds \cup Shapes
=============================================================================
