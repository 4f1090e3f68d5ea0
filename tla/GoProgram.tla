------------------------------ MODULE GoProgram ------------------------------
(***************************************************************************)
(* Go programs of several packages as the compiler of GopherJS sees them   *)
(* once they are type checked: functions, methods and named types with at  *)
(* most one type parameter T, package variables, and what each of them     *)
(* uses in its body, its fields or its initializer.  A type is what it     *)
(* names, from the outside in, and what is left at the end: a basic type,  *)
(* T, or None when the last named type has no parameter.                   *)
(*                                                                         *)
(* A program is a record                                                   *)
(*   objs     what is known of an object: pkg, kind (func, method, type,   *)
(*            var), name, generic, entry (main or init), recv (of a        *)
(*            method), nest (the generic function a type is declared in),  *)
(*            exported, sig (the parameter of a method), impl (what a      *)
(*            go:linkname directive names for a function without a body),  *)
(*            uses                                                         *)
(*   order    the objects of a package in the order of its files           *)
(*   imports  the imports of a package                                     *)
(*   inits    its variables with an initializer, in the order the language *)
(*            initializes them in                                          *)
(* and a use is [k, o, a]: a call or value of the function o with the type *)
(* argument a; a composite literal of type a; a method o called on a       *)
(* literal of its receiver with argument a, or through an interface that   *)
(* has it with parameter a; the declaration of a nested type o; a variable *)
(* o; an operation that blocks.                                            *)
(***************************************************************************)
EXTENDS Naturals, Sequences, SequencesExt, FiniteSetsExt

CONSTANTS Basic, T, None

Type(named, base) == [named |-> named, base |-> base]
NoType == Type(<<>>, None)
IsNamed(t) == t.named # <<>>

(* Resolver.Substitute: the type with T replaced.                          *)
Substitute(t, arg) ==
    IF t.base = T THEN Type(t.named \o arg.named, arg.base) ELSE t

(* isGeneric: T is still in the type.                                      *)
IsGeneric(t) == t.base = T

(* The outermost named type of a type, and its argument.                   *)
Outer(t) == Head(t.named)
ArgOf(t) == Type(Tail(t.named), t.base)

(* The named types in a type, as ast.Walk meets them.                      *)
NamedIn(t) == {Type(SubSeq(t.named, n, Len(t.named)), t.base) : n \in DOMAIN t.named}

(* Instances: an object with its type argument and, for a nested type, the *)
(* argument of the function around it.                                     *)
Inst(o, args, nest) == [o |-> o, args |-> args, nest |-> nest]
Plain(o) == Inst(o, NoType, NoType)
IsTrivial(i) == i.args = NoType /\ i.nest = NoType

(* The argument that T stands for in the code of an instance.              *)
Arg(i) == IF i.nest # NoType THEN i.nest ELSE i.args

Obj(prog, o) == prog.objs[o]
Objects(prog, pkgs) == UNION {ToSet(prog.order[p]) : p \in pkgs}
MethodsOf(prog, t) == {m \in ToSet(prog.order[Obj(prog, t).pkg]) : Obj(prog, m).recv = t}

(* The instance of a named type that a type names in the code of ctx.      *)
TypeInst(prog, t, ctx) ==
    Inst(Outer(t), ArgOf(t), IF Obj(prog, Outer(t)).nest # None THEN Arg(ctx) ELSE NoType)

(* instanceForIdent, instanceForSelection: what a call, a function value   *)
(* or a static method call in the code of ctx refers to.                   *)
CalleeInst(use, ctx) == Inst(use.o, Substitute(use.a, Arg(ctx)), NoType)

(* The type an expression of a composite literal or of a receiver has, and *)
(* the same in the code of ctx.                                            *)
Literal(prog, use) ==
    IF use.k = "method" THEN Type(<<Obj(prog, use.o).recv>> \o use.a.named, use.a.base) ELSE use.a
LiteralType(prog, use, ctx) == Substitute(Literal(prog, use), Arg(ctx))

-----------------------------------------------------------------------------
(* What the type checker has made sure of.                                 *)

(* The packages S, their imports, and so on.                               *)
ImportsOf(prog, pkgs, S) ==
    {p \in pkgs : \A X \in SUBSET pkgs :
        S \subseteq X /\ (\A q \in X : ToSet(prog.imports[q]) \subseteq X) => p \in X}

(* A type: every generic type in it has an argument.                       *)
IsType(prog, t) ==
    /\ t \in [named : Seq(DOMAIN prog.objs), base : Basic \cup {T, None}]
    /\ t # NoType
    /\ \A n \in DOMAIN t.named :
          LET o == Obj(prog, t.named[n])
          IN  o.kind = "type" /\ o.nest = None /\ (o.generic <=> n < Len(t.named) \/ t.base # None)

(* What stands for the parameter of o in code that has T or not.           *)
IsArgument(prog, o, a, hasT) ==
    IF Obj(prog, o).generic THEN IsType(prog, a) /\ (IsGeneric(a) => hasT) ELSE a = NoType

IsUse(prog, pkgs, o, u) ==
    LET hasT == Obj(prog, o).generic \/ Obj(prog, o).nest # None
        refersTo(kind) == u.o \in DOMAIN prog.objs /\ Obj(prog, u.o).kind = kind
    IN  /\ u.k \in {"call", "value"} => refersTo("func") /\ IsArgument(prog, u.o, u.a, hasT)
        /\ u.k = "method" => refersTo("method") /\ IsArgument(prog, u.o, u.a, hasT)
        /\ u.k = "iface" => /\ refersTo("method")
                            /\ u.a = NoType \/ (IsType(prog, u.a) /\ (IsGeneric(u.a) => hasT))
        /\ u.k = "var"  => refersTo("var") /\ u.a = NoType
        /\ u.k = "decl" => refersTo("type") /\ Obj(prog, u.o).nest = o /\ u.a = NoType
        /\ u.k = "type" => \/ IsType(prog, u.a) /\ (IsGeneric(u.a) => hasT)
                           \/ \E d \in Obj(prog, o).uses :
                                 d.k = "decl" /\ u.a = Type(<<d.o>>, None)
        /\ u.k = "block" => u.a = NoType
        /\ u.k \in {"call", "value", "method", "iface", "var", "decl", "type", "block"}
        /\ \A x \in ({u.o} \cap DOMAIN prog.objs) \cup ToSet(u.a.named) :
              Obj(prog, x).pkg \in ImportsOf(prog, pkgs, {Obj(prog, o).pkg})

IsObject(prog, pkgs, o) ==
    LET x == Obj(prog, o)
        plain(p) == p \in DOMAIN prog.objs /\ Obj(prog, p).kind = "func" /\ ~Obj(prog, p).generic
    IN  /\ x.pkg \in pkgs /\ o \in ToSet(prog.order[x.pkg])
        /\ x.kind \in {"func", "method", "type", "var"}
        /\ x.generic \in BOOLEAN /\ x.entry \in BOOLEAN
        /\ x.kind = "var" => ~x.generic /\ (x.uses = {} \/ o \in ToSet(prog.inits[x.pkg]))
        /\ x.entry \/ x.impl # None => plain(o)
        /\ x.impl # None => plain(x.impl) /\ Obj(prog, x.impl).pkg \in ImportsOf(prog, pkgs, {x.pkg})
        /\ IF x.kind = "method"
           THEN /\ x.recv \in DOMAIN prog.objs /\ Obj(prog, x.recv).kind = "type"
                /\ Obj(prog, x.recv).pkg = x.pkg /\ Obj(prog, x.recv).generic = x.generic
                /\ Obj(prog, x.recv).nest = None
           ELSE x.recv = None
        /\ x.nest # None => /\ x.kind = "type" /\ ~x.generic /\ x.nest \in DOMAIN prog.objs
                            /\ Obj(prog, x.nest).kind \in {"func", "method"}
                            /\ Obj(prog, x.nest).generic /\ Obj(prog, x.nest).pkg = x.pkg
        /\ IsFiniteSet(x.uses) /\ \A u \in x.uses : IsUse(prog, pkgs, o, u)

WellTyped(prog, pkgs) ==
    /\ None \notin DOMAIN prog.objs
    /\ prog.imports \in [pkgs -> Seq(pkgs)]
    /\ prog.order \in [pkgs -> Seq(DOMAIN prog.objs)]
    /\ prog.inits \in [pkgs -> Seq(DOMAIN prog.objs)]
    /\ \A p \in pkgs : /\ p \notin ImportsOf(prog, pkgs, ToSet(prog.imports[p]))
                       /\ \A o \in ToSet(prog.order[p]) : Obj(prog, o).pkg = p
                       /\ \A o \in ToSet(prog.inits[p]) : Obj(prog, o).pkg = p /\ Obj(prog, o).kind = "var"
    /\ \A o \in DOMAIN prog.objs : IsObject(prog, pkgs, o)
    /\ \A m, n \in DOMAIN prog.objs :
          Obj(prog, m).name = Obj(prog, n).name => Obj(prog, m).exported = Obj(prog, n).exported

-----------------------------------------------------------------------------
(* What the language says a program may do when it runs, whatever the      *)
(* compiler makes of it: the function instances it may call, the types     *)
(* whose values it may make and the variables it may use.                  *)
Uses(prog, i) == Obj(prog, i.o).uses
UsesOf(prog, i, kinds) == {u \in Uses(prog, i) : u.k \in kinds}

Refers(prog, i) == {CalleeInst(u, i) : u \in UsesOf(prog, i, {"call", "value", "method", "var"})}
Makes(prog, i) == {TypeInst(prog, t, i) :
    t \in {x \in {LiteralType(prog, u, i) : u \in UsesOf(prog, i, {"type", "method"})} : IsNamed(x)}}

(* A method of a type t that the code of i can call through an interface.  *)
CalledOn(prog, i, t) == {m \in MethodsOf(prog, t.o) : \E u \in UsesOf(prog, i, {"iface"}) :
    /\ Obj(prog, u.o).name = Obj(prog, m).name
    /\ Substitute(Obj(prog, m).sig, t.args) = Substitute(u.a, Arg(i))}
LinkedTo(prog, i) == IF Obj(prog, i.o).impl = None THEN {} ELSE {Plain(Obj(prog, i.o).impl)}

RunsNext(prog, S) ==
    LET called == {i \in S : Obj(prog, i.o).kind # "type"}
        made == S \ called
    IN  S \cup (UNION {Refers(prog, i) \cup Makes(prog, i) \cup LinkedTo(prog, i) : i \in called})
          \cup (UNION {{Inst(m, t.args, NoType) : m \in CalledOn(prog, i, t)} :
                          i \in called, t \in made})

(* What starts when the packages pkgs are linked: main, the init functions *)
(* and the initializers that call something.                               *)
HasSideEffect(prog, o) == \E u \in Obj(prog, o).uses : u.k \in {"call", "method", "iface", "block"}
Starts(prog, pkgs) == {Plain(o) : o \in
    {x \in Objects(prog, pkgs) : \/ Obj(prog, x).entry
                                 \/ Obj(prog, x).kind = "var" /\ HasSideEffect(prog, x)}}

(* The function instances of S that may block: one that has a blocking     *)
(* operation, or that can call one of B.                                   *)
Calls(prog, S, i) ==
    {CalleeInst(u, i) : u \in UsesOf(prog, i, {"call", "method"})} \cup LinkedTo(prog, i)
    \cup {j \in S : Obj(prog, j.o).kind = "method" /\ \E u \in UsesOf(prog, i, {"iface"}) :
                       Obj(prog, j.o).name = Obj(prog, u.o).name}
BlocksNext(prog, S, B) ==
    B \cup {i \in S : UsesOf(prog, i, {"block"}) # {} \/ Calls(prog, S, i) \cap B # {}}
=============================================================================
