------------------------------ MODULE MCProgram ------------------------------
(* Programs of a command and a library of generic code for ProgramStart.   *)
EXTENDS ProgramStart

CONSTANT IntType

Use(k, o, a) == [k |-> k, o |-> o, a |-> a]
Blocks == Use("block", None, NoType)
Object(pkg, kind, generic, uses) ==
    [pkg |-> pkg, kind |-> kind, generic |-> generic, uses |-> uses, entry |-> FALSE,
     recv |-> None, nest |-> None, exported |-> TRUE, sig |-> NoType, impl |-> None, name |-> None]

(* Types: basic, named, T, and named types with them as an argument.       *)
TInt == Type(<<>>, IntType)
TParam == Type(<<>>, T)
Named(o) == Type(<<o>>, None)
Of(o, t) == Type(<<o>> \o t.named, t.base)

(* lib has func F[T], func G[T], type N[T] struct{ K[T] } with a method    *)
(* Nm(T), type K[T] struct{ T }, a type L struct{ K[T] } in F, func P,     *)
(* var D, X = V, V and V = P(), var Z, and an init function that uses X    *)
(* and a variable R of the runtime; app has main, func H[T], a type A, a   *)
(* function Q that is linked to lib.P, and var W = Q().                    *)
Program(main, h, f, g, nm, p, exported) ==
    [objs |-> [main |-> [Object("app", "func", FALSE, main) EXCEPT !.entry = TRUE],
               A |-> Object("app", "type", FALSE, {}),
               H |-> Object("app", "func", TRUE, h),
               Q |-> [Object("app", "func", FALSE, {}) EXCEPT !.impl = "P"],
               other |-> [Object("appB", "func", FALSE, {Use("call", "F", Named("A2"))})
                            EXCEPT !.entry = TRUE],
               A2 |-> Object("appB", "type", FALSE, {}),
               F |-> Object("lib", "func", TRUE, f),
               G |-> Object("lib", "func", TRUE, g),
               N |-> Object("lib", "type", TRUE, {Use("type", None, Of("K", TParam))}),
               Nm |-> [Object("lib", "method", TRUE, nm) EXCEPT
                         !.recv = "N", !.sig = TParam, !.exported = exported, !.name = "Nm"],
               K |-> Object("lib", "type", TRUE, {Use("type", None, TParam)}),
               L |-> [Object("lib", "type", FALSE, {Use("type", None, Of("K", TParam))})
                         EXCEPT !.nest = "F"],
               P |-> Object("lib", "func", FALSE, p),
               I |-> [Object("lib", "func", FALSE, {Use("var", "X", NoType), Use("var", "R", NoType)})
                        EXCEPT !.entry = TRUE],
               X |-> Object("lib", "var", FALSE, {Use("var", "V", NoType)}),
               V |-> Object("lib", "var", FALSE, {Use("call", "P", NoType)}),
               Z |-> Object("lib", "var", FALSE, {}),
               D |-> Object("lib", "var", FALSE, {Use("var", "V", NoType)}),
               R |-> Object("rt", "var", FALSE, {}),
               W |-> Object("app", "var", FALSE, {Use("call", "Q", NoType)})],
     order |-> [app |-> <<"A", "main", "H", "W", "Q">>, appB |-> <<"other", "A2">>,
                lib |-> <<"F", "L", "N", "Nm", "K", "G", "I", "P", "D", "X", "V", "Z">>, rt |-> <<"R">>],
     imports |-> [app |-> <<"lib">>, appB |-> <<"lib">>, lib |-> <<"rt">>, rt |-> <<>>],
     inits |-> [app |-> <<"W">>, appB |-> <<>>, lib |-> <<"V", "D", "X">>, rt |-> <<"R">>]]

MainUses == {Use("call", "F", Named("A")), Use("value", "G", TInt), Use("method", "Nm", TInt),
             Use("type", None, Of("N", Named("A"))), Use("iface", "Nm", TInt),
             Use("call", "H", TInt)}
HBodies == {{Use("call", "F", TParam), Use("type", None, Of("N", Named("A")))},
            {Use("method", "Nm", Of("K", TParam)), Use("value", "F", Of("K", TParam))}}
FBodies == {{Use("call", "G", Of("K", TParam))},
            {Use("decl", "L", NoType), Use("type", None, Named("L"))},
            {Use("type", None, Of("N", TParam)), Use("iface", "Nm", TParam)},
            {Use("method", "Nm", Of("K", TParam)), Use("call", "G", TParam)},
            {Use("call", "P", NoType)}}
GBodies == {{Use("type", None, Of("N", Of("K", TParam)))}, {Use("call", "P", NoType)},
            {Use("method", "Nm", TParam)}}
NmBodies == {{}, {Blocks}, {Use("call", "G", TParam)}}
PBodies == {{Use("var", "Z", NoType)}, {Use("var", "Z", NoType), Blocks}}

(* The language forbids that the instances of a function have no end.      *)
Endless(q) == q.objs["Nm"].uses = {Use("call", "G", TParam)}
                /\ q.objs["G"].uses = {Use("type", None, Of("N", Of("K", TParam)))}
MCPrograms == {q \in {Program(main, h, f, g, nm, p, e) :
    main \in kSubset(2, MainUses), h \in HBodies, f \in FBodies,
    g \in GBodies, nm \in NmBodies, p \in PBodies, e \in BOOLEAN} : ~Endless(q)}
(* The initializers of all programs can be sorted.                         *)
RECURSIVE RunsFrom(_, _)
RunsFrom(P, S) == LET N == RunsNext(P, S) IN IF N = S THEN S ELSE RunsFrom(P, N)
ASSUME MCAssumption ==
    \A P \in Programs : \A p \in ToSet(Pkgs) : \A n \in DOMAIN P.inits[p] :
        InitializedBefore(P, p, n, RunsFrom(P, {Plain(P.inits[p][n])}))
MCBasic == {IntType}
MCPkgs == <<"app", "appB", "lib", "rt">>
MCRoots == {<<"app">>}
MCTwoRoots == {<<"appB", "app">>}
TwoRootPrograms ==
    {Program({Use("call", "F", TInt)}, {}, f, {}, {}, {}, TRUE) : f \in FBodies}
=============================================================================
