---------------------------- MODULE CompileSession ----------------------------
(***************************************************************************)
(* A session compiles its roots one after the other (build.go): it loads   *)
(* the packages of a root, collects the instances of generic code over all *)
(* packages loaded so far (typeparams), finds out which functions may      *)
(* block (analysis), compiles the packages it has no archive of, and       *)
(* writes the program of the root without its dead code (compiler.go, dce).*)
(*                                                                         *)
(* Which packages the sets of instances are visited in is the order of a   *)
(* Go map.  What is written is selected in rounds, up to the least closed  *)
(* set of declarations, which AlgorithmProofs shows of AliveDecls.  Which  *)
(* of the instances that one visit finds comes first is not modelled.      *)
(***************************************************************************)
EXTENDS GoProgram

CONSTANTS
    Open,      \* the constraint of T in the name of a generic declaration
    Pkgs,      \* the packages, in the order of their import paths
    Runtime,   \* package runtime
    Programs,  \* the programs to consider
    Roots      \* the packages to build, in this order

ASSUME CompileAssumption ==
    /\ T \notin Basic /\ None \notin Basic /\ T # None
    /\ Pkgs \in Seq(ToSet(Pkgs)) /\ Runtime \in ToSet(Pkgs) /\ None \notin ToSet(Pkgs)
    /\ Roots \subseteq Seq(ToSet(Pkgs))
    /\ \A P \in Programs : WellTyped(P, ToSet(Pkgs))

VARIABLES
    prog,       \* the program
    roots,      \* roots still to build; the first is being built
    sources,    \* s.sources: packages loaded by the session
    phase,      \* what the session does
    instances,  \* PackageInstanceSets: the values of each set in order
    unprocessed,\* index of the next value to process
    current,    \* the package whose instances are being propagated
    infos,      \* FuncInfo of each function instance
    todo,       \* packages that the phase has still to visit
    archives,   \* s.UpToDateArchives
    program,    \* the declarations that are written
    ran,        \* what may have run of the program that is written
    blocked     \* what of it may block

vars == <<prog, roots, sources, phase, instances, unprocessed, current, infos, todo,
          archives, program, ran, blocked>>

Info(o) == prog.objs[o]
PkgOf(i) == Info(i.o).pkg
Root == Head(roots)

(* GetSortedSources: the first of the packages in S.                       *)
First(S) == Pkgs[CHOOSE n \in DOMAIN Pkgs :
    Pkgs[n] \in S /\ \A m \in DOMAIN Pkgs : Pkgs[m] \in S => n <= m]

-----------------------------------------------------------------------------
(* Collecting the instances (typeparams/collect.go, instance.go).          *)

(* InstanceSet.Add, PackageInstanceSets.Add: seen holds the instance.      *)
Add(sets, found) ==
    [p \in DOMAIN sets |->
        sets[p] \o SetToSeq({i \in found : PkgOf(i) = p} \ ToSet(sets[p]))]

(* Mutant of AddInstance: the methods of a type are not added with it.     *)
AddInstanceAlone(i) == IF IsGeneric(i.args) \/ IsGeneric(i.nest) THEN {} ELSE {i}

(* addInstance: an instance without open parameters, and the methods of a  *)
(* type with the type.                                                     *)
AddInstance(i) ==
    IF IsGeneric(i.args) \/ IsGeneric(i.nest) THEN {}
    ELSE {i} \cup {[i EXCEPT !.o = m] :
                     m \in IF Info(i.o).kind = "type" THEN MethodsOf(prog, i.o) ELSE {}}

(* The generic objects an expression names, each with its argument.        *)
Instantiated(use) ==
    LET own == IF use.k \in {"call", "value"} THEN {<<use.o, use.a>>} ELSE {}
        named == {<<Outer(t), ArgOf(t)>> : t \in NamedIn(Literal(prog, use))}
    IN  {n \in own \cup named : Info(n[1]).generic}

(* visitInstance.                                                          *)
VisitInstance(use, arg) ==
    UNION {AddInstance(Inst(n[1], Substitute(n[2], arg), NoType)) : n \in Instantiated(use)}

(* visitNestedType: a type declared in generic code, once its arguments    *)
(* are known.                                                              *)
VisitNestedType(o, arg) ==
    IF arg = NoType THEN {} ELSE AddInstance(Inst(o, NoType, arg))

(* visitor.Visit over the code of an object, the fields of nested types    *)
(* included.                                                               *)
Code(o) == Info(o).uses \cup UNION {Info(u.o).uses : u \in {x \in Info(o).uses : x.k = "decl"}}
Visit(o, arg) == UNION {IF u.k = "decl" THEN VisitNestedType(u.o, arg)
                        ELSE VisitInstance(u, arg) : u \in Code(o)}

(* seedVisitor: generic code is left for later.                            *)
Scan(pkgs) == UNION {Visit(o, NoType) :
    o \in {x \in Objects(prog, pkgs) : ~Info(x).generic /\ Info(x).nest = None}}

Exhausted(p) == unprocessed[p] > Len(instances[p])

(* scanSignature, scanNamed: a nested type was visited with its function.  *)
ScanInstance(i) == IF i.nest # NoType THEN {} ELSE Visit(i.o, i.args)

-----------------------------------------------------------------------------
(* Which functions may block (analysis/info.go), across instances.         *)

(* ForObj.                                                                 *)
ForObj(o) == {i \in ToSet(instances[Info(o).pkg]) : i.o = o}

(* newFuncInfoInstances, knownInstances: an object that is not generic is  *)
(* the instance of itself.                                                 *)
KnownInstances(o) ==
    IF ForObj(o) = {} /\ ~Info(o).generic /\ Info(o).nest = None THEN {Plain(o)} ELSE ForObj(o)

(* visitCallExpr, callToNamedFunc: a call through an interface is taken to *)
(* block, a static call is kept for later.                                 *)
NewFuncInfo(i) ==
    [blocking |-> Info(i.o).impl # None \/ UsesOf(prog, i, {"block", "iface"}) # {},
     callees  |-> {CalleeInst(u, i) : u \in UsesOf(prog, i, {"call", "method"})}]

(* AnalyzePkg for all packages.                                            *)
FuncInstances(S) == UNION {KnownInstances(o) :
                             o \in {x \in Objects(prog, S) : Info(x).kind # "type"}}

IsBlocking(fi, i) == fi[i].blocking

(* propagateFunctionBlocking for one package, in any order of its callers: *)
(* only what a caller calls directly is looked at.                         *)
PropagateFunctionBlocking(fi, p) ==
    [i \in DOMAIN fi |->
        IF PkgOf(i) # p THEN fi[i]
        ELSE [blocking |-> fi[i].blocking \/ \E c \in fi[i].callees : IsBlocking(fi, c),
              callees  |-> {c \in fi[i].callees : ~IsBlocking(fi, c)}]]

-----------------------------------------------------------------------------
(* Names of declarations (dce/filters.go).                                 *)

(* getObjectFilter: open parameters are named by their constraint.         *)
ObjectFilter(o, nest, arg) ==
    <<o, IF Info(o).nest # None /\ nest = NoType THEN Open ELSE nest,
         IF Info(o).generic /\ arg = NoType THEN Open ELSE arg>>

(* getMethodFilter: an unexported method by its name and signature.        *)
MethodFilter(m, arg) == <<Info(m).name, "method", Substitute(Info(m).sig, arg)>>

(* getFilters.                                                             *)
GetFilters(o, nest, arg) ==
    IF Info(o).kind = "method"
    THEN {ObjectFilter(Info(o).recv, NoType, arg)}
         \cup (IF Info(o).exported THEN {} ELSE {MethodFilter(o, arg)})
    ELSE {ObjectFilter(o, nest, arg)}

-----------------------------------------------------------------------------
(* Compiling a package (decls.go, utils.go, expressions.go).               *)

(* objectName as a dependency of the code of ctx.                          *)
Nowhere == Plain(None)
ObjectName(o, ctx) ==
    {ObjectFilter(o, IF ctx # Nowhere /\ Info(o).nest = ctx.o THEN ctx.args ELSE NoType, NoType)}

(* Mutant of InstName: an instance is named by its object.                 *)
InstNameOnce(i, ctx) == ObjectName(i.o, ctx)

(* instName.                                                               *)
InstName(i, ctx) ==
    ObjectName(i.o, ctx) \cup (IF IsTrivial(i) THEN {} ELSE GetFilters(i.o, i.nest, i.args))

(* typeName of a named type, in the code of ctx.                           *)
TypeName(t, ctx) == IF IsNamed(t) THEN InstName(TypeInst(prog, t, ctx), ctx) ELSE {}

(* Mutant of UseDeps: a method called through an interface is not named.   *)
UseDepsStatic(u, ctx) ==
    CASE u.k \in {"call", "value"} -> InstName(CalleeInst(u, ctx), ctx)
      [] u.k = "type"   -> TypeName(LiteralType(prog, u, ctx), ctx)
      [] u.k = "method" -> TypeName(LiteralType(prog, u, ctx), ctx)
                             \cup GetFilters(u.o, NoType, Substitute(u.a, Arg(ctx)))
      [] u.k = "decl"   -> {ObjectFilter(u.o, ctx.args, NoType)}
      [] u.k = "var"    -> ObjectName(u.o, Nowhere)
      [] OTHER          -> {}

(* What the translation of a use depends on: DeclareDCEDep in objectName,  *)
(* instName, makeReceiver and the declaration of a nested type.            *)
UseDeps(u, ctx) ==
    CASE u.k \in {"call", "value"} -> InstName(CalleeInst(u, ctx), ctx)
      [] u.k = "type"   -> TypeName(LiteralType(prog, u, ctx), ctx)
      [] u.k = "method" -> TypeName(LiteralType(prog, u, ctx), ctx)
                             \cup (IF Info(u.o).exported THEN {}
                                   ELSE GetFilters(u.o, NoType, Substitute(u.a, Arg(ctx))))
      [] u.k = "iface"  -> IF Info(u.o).exported THEN {}
                           ELSE {<<Info(u.o).name, "method", Substitute(u.a, Arg(ctx))>>}
      [] u.k = "decl"   -> {ObjectFilter(u.o, ctx.args, NoType)}
      [] u.k = "var"    -> ObjectName(u.o, Nowhere)
      [] OTHER          -> {}

(* The instances the code of i refers to, each by its number in the sets   *)
(* of instances (instName), and its static calls with what the code does   *)
(* at them: it can be resumed there only if the callee was seen to block.  *)
Mentioned(i) ==
    {CalleeInst(u, i) : u \in UsesOf(prog, i, {"call", "value"})} \cup Makes(prog, i)
Id(i) == IF IsTrivial(i) THEN 0
         ELSE CHOOSE n \in DOMAIN instances[PkgOf(i)] : instances[PkgOf(i)][n] = i
HasId(i) == IsTrivial(i) \/ i \in ToSet(instances[PkgOf(i)])
References(i) == {[o |-> j.o, id |-> Id(j), inst |-> j] : j \in Mentioned(i)}
CallSites(i) == {[callee |-> c, blocking |-> IsBlocking(infos, c)] : c \in
    {CalleeInst(u, i) : u \in UsesOf(prog, i, {"call", "method"})}}

Decl(kind, i) ==
    [kind |-> kind, pkg |-> PkgOf(i), inst |-> i, id |-> Id(i), alive |-> FALSE,
     filters |-> {}, deps |-> {}, refs |-> {}, calls |-> {}, blocking |-> FALSE]

(* What dead-code elimination is told of a declaration.                    *)
SetAsAlive(d) == [d EXCEPT !.alive = TRUE]
SetName(d, o, nest, arg) == [d EXCEPT !.filters = GetFilters(o, nest, arg)]
CollectDCEDeps(d, deps) == [d EXCEPT !.deps = @ \cup deps]

(* newNamedTypeVarDecl and the variable of a function: one for all         *)
(* instances.                                                              *)
VarDecl(o) == SetName(Decl("var", Plain(o)), o, NoType, NoType)

(* newNamedTypeInstDecl: the type, its fields and the types in the         *)
(* signatures of its methods.                                              *)
TypeDecl(i) ==
    LET d == SetName(Decl("type", i), i.o, i.nest, i.args)
        deps == InstName(i, Nowhere) \cup (UNION {UseDeps(u, i) : u \in Uses(prog, i)})
                  \cup (UNION {TypeName(Substitute(Info(m).sig, i.args), i) :
                                  m \in MethodsOf(prog, i.o)})
    IN  [CollectDCEDeps(d, deps) EXCEPT !.refs = References(i)]

(* The type that a method is assigned to, or the function itself.          *)
Recv(i) == Inst(Info(i.o).recv, i.args, NoType)
Lvalue(i) == IF Info(i.o).kind = "method" THEN Recv(i) ELSE i

(* newFuncDecl: main and init are alive.                                   *)
FuncDecl(i) ==
    LET d == SetName(Decl("func", i), i.o, i.nest, i.args)
        deps == InstName(Lvalue(i), i) \cup UNION {UseDeps(u, i) : u \in Uses(prog, i)}
    IN  [CollectDCEDeps(IF Info(i.o).entry THEN SetAsAlive(d) ELSE d, deps) EXCEPT
            !.refs = References(i)
                       \cup {[o |-> Lvalue(i).o, id |-> Id(Lvalue(i)), inst |-> Lvalue(i)]},
            !.calls = CallSites(i), !.blocking = IsBlocking(infos, i)]

(* namedTypeDecls: the types of the package, and those the functions that  *)
(* were translated declare.                                                *)
TypeNames(p) ==
    {o \in ToSet(prog.order[p]) : Info(o).kind = "type"
        /\ (Info(o).nest = None \/ KnownInstances(Info(o).nest) # {})}
NamedTypeDecls(p) == {VarDecl(o) : o \in TypeNames(p)}
    \cup UNION {{TypeDecl(i) : i \in KnownInstances(o)} : o \in TypeNames(p)}

(* newVarDecl: alive if its initializer calls something.                   *)
VarDecls(p) ==
    {LET i == Plain(o)
         d == SetName(Decl("value", i), o, NoType, NoType)
         deps == UNION {UseDeps(u, i) : u \in Uses(prog, i)}
     IN  [CollectDCEDeps(IF HasSideEffect(prog, o) THEN SetAsAlive(d) ELSE d, deps) EXCEPT
             !.refs = References(i), !.calls = CallSites(i)] :
        o \in {x \in ToSet(prog.order[p]) : Info(x).kind = "var"}}

(* funcDecls: a function without instances is left out.                    *)
Functions(p) == {o \in ToSet(prog.order[p]) :
    Info(o).kind \in {"func", "method"} /\ KnownInstances(o) # {}}
FuncDecls(p) == {VarDecl(o) : o \in {x \in Functions(p) : Info(x).kind = "func"}}
    \cup UNION {{FuncDecl(i) : i \in KnownInstances(o)} : o \in Functions(p)}

(* What the package is compiled to.                                        *)
Decls(p) == NamedTypeDecls(p) \cup VarDecls(p) \cup FuncDecls(p)

(* Compile panics if the analysis does not know a function it meets or an  *)
(* instance has no number.                                                 *)
Compiles(p) == \A o \in Functions(p) \cup TypeNames(p) \cup ToSet(prog.inits[p]) : \A i \in KnownInstances(o) :
    /\ \A j \in Mentioned(i) : HasId(j)
    /\ \A u \in UsesOf(prog, i, {"call", "method"}) : CalleeInst(u, i) \in DOMAIN infos

-----------------------------------------------------------------------------
(* Writing the program (compiler.go).                                      *)

(* ImportDependencies: the runtime and what the root imports, in the end.  *)
ImportDependencies(S) == ImportsOf(prog, ToSet(Pkgs), S)

(* GoLinknameSet.IsImplementation of the name of the declared function,    *)
(* over the directives of the linked packages.                             *)
IsImplementation(d, linked) ==
    d.kind = "func" /\ \E o \in Objects(prog, linked) : Info(o).impl = d.inst.o

(* What AliveDecls adds to the declarations S of the linked archives.      *)
Alive(decls, linked, S) ==
    {d \in decls : d.alive \/ IsImplementation(d, linked) \/ d.filters \subseteq UNION {x.deps : x \in S}}

-----------------------------------------------------------------------------
Init ==
    /\ prog \in Programs /\ roots \in Roots
    /\ sources = {} /\ phase = "load" /\ todo = {} /\ infos = <<>>
    /\ instances = <<>> /\ unprocessed = <<>> /\ current = None
    /\ archives = <<>> /\ program = {} /\ ran = {} /\ blocked = {}

(* BuildProject loads the packages of the root; the session keeps those it *)
(* has loaded before.  Scan visits all of them.                            *)
LoadAndScan ==
    /\ phase = "load" /\ roots # <<>>
    /\ sources' = sources \cup ImportDependencies({Root, Runtime})
    /\ instances' = Add([p \in sources' |-> <<>>], Scan(sources'))
    /\ unprocessed' = [p \in sources' |-> 1]
    /\ todo' = {} /\ current' = None /\ phase' = "collect"
    /\ UNCHANGED <<prog, roots, infos, archives, program, ran, blocked>>

(* Finish: the next instance of the package that is being propagated.      *)
(* Once that is exhausted, another package that this pass over the map has *)
(* not met yet, and then another pass.                                     *)
Propagate(p) ==
    /\ phase = "collect" /\ p \in sources /\ ~Exhausted(p)
    /\ LET left == {q \in todo : ~Exhausted(q)}
       IN  IF current # None /\ ~Exhausted(current) THEN p = current /\ UNCHANGED todo
           ELSE IF left # {} THEN p \in left /\ todo' = todo \ {p}
           ELSE todo' = sources \ {p}
    /\ current' = p
    /\ instances' = Add(instances, ScanInstance(instances[p][unprocessed[p]]))
    /\ unprocessed' = [unprocessed EXCEPT ![p] = @ + 1]
    /\ UNCHANGED <<prog, roots, sources, phase, infos, archives, program, ran, blocked>>

(* All sets are exhausted; Analyze every package.                          *)
AnalyzeAll ==
    /\ phase = "collect" /\ \A p \in sources : Exhausted(p)
    /\ infos' = [i \in FuncInstances(sources) |-> NewFuncInfo(i)]
    /\ todo' = sources
    /\ phase' = IF \A i \in DOMAIN infos' : infos'[i].callees \subseteq DOMAIN infos'
                THEN "propagate" ELSE "panic"
    /\ UNCHANGED <<prog, roots, sources, instances, unprocessed, current, archives, program,
                   ran, blocked>>

(* Mutant of PropagateAnalysis: one round.                                 *)
PropagateAnalysisOnce ==
    /\ phase = "propagate"
    /\ IF todo # {}
       THEN /\ infos' = PropagateFunctionBlocking(infos, First(todo))
            /\ todo' = todo \ {First(todo)} /\ UNCHANGED phase
       ELSE UNCHANGED infos /\ todo' = sources /\ phase' = "compile"
    /\ UNCHANGED <<prog, roots, sources, instances, unprocessed, current, archives, program,
                   ran, blocked>>

(* PropagateAnalysis: rounds over all packages, until one changes nothing. *)
PropagateAnalysis ==
    /\ phase \in {"propagate", "again"}
    /\ IF todo # {}
       THEN /\ infos' = PropagateFunctionBlocking(infos, First(todo))
            /\ todo' = todo \ {First(todo)}
            /\ phase' = IF infos' = infos THEN phase ELSE "again"
       ELSE /\ UNCHANGED infos
            /\ todo' = sources
            /\ phase' = IF phase = "again" THEN "propagate" ELSE "compile"
    /\ UNCHANGED <<prog, roots, sources, instances, unprocessed, current, archives, program,
                   ran, blocked>>

(* compilePackage: a package the session has compiled is up to date.       *)
CompilePackage ==
    /\ phase = "compile" /\ todo # {}
    /\ LET p == First(todo)
       IN  IF p \in DOMAIN archives THEN UNCHANGED <<archives, phase>>
           ELSE IF ~Compiles(p) THEN phase' = "panic" /\ UNCHANGED archives
           ELSE /\ archives' = [q \in DOMAIN archives \cup {p} |->
                       IF q = p THEN Decls(p) ELSE archives[q]]
                /\ UNCHANGED phase
    /\ todo' = todo \ {First(todo)}
    /\ UNCHANGED <<prog, roots, sources, instances, unprocessed, current, infos, program,
                   ran, blocked>>

(* WriteCommandPackage: the packages that are linked, without dead code.   *)
Linked == ImportDependencies({Root, Runtime})
LinkPackages ==
    /\ phase = "compile" /\ todo = {}
    /\ program' = {} /\ phase' = "select"
    /\ UNCHANGED <<prog, roots, sources, instances, unprocessed, current, infos, todo, archives,
                   ran, blocked>>
WriteProgram ==
    /\ phase = "select"
    /\ program' = program \cup Alive(UNION {archives[p] : p \in Linked}, Linked, program)
    /\ phase' = IF program' = program THEN "written" ELSE phase
    /\ ran' = IF program' = program THEN Starts(prog, Linked) ELSE {}
    /\ blocked' = {}
    /\ UNCHANGED <<prog, roots, sources, instances, unprocessed, current, infos, todo, archives>>

(* The language: what has run leads to more.                               *)
Run ==
    /\ phase = "written"
    /\ ran' = RunsNext(prog, ran)
    /\ blocked' = BlocksNext(prog, ran, blocked)
    /\ UNCHANGED <<prog, roots, sources, phase, instances, unprocessed, current, infos, todo,
                   archives, program>>

(* On to the next root.                                                    *)
NextRoot ==
    /\ phase = "written"
    /\ roots' = Tail(roots) /\ phase' = "load" /\ ran' = {} /\ blocked' = {}
    /\ UNCHANGED <<prog, sources, instances, unprocessed, current, infos, todo, archives, program>>

Next == LoadAndScan \/ (\E p \in ToSet(Pkgs) : Propagate(p)) \/ AnalyzeAll
    \/ PropagateAnalysis \/ CompilePackage \/ LinkPackages \/ WriteProgram \/ Run \/ NextRoot

Spec == Init /\ [][Next]_vars

-----------------------------------------------------------------------------
(* Properties.                                                             *)

(* Every call that is left in the generic code leads to an instance that   *)
(* was collected, in whatever order the packages are visited: the analysis *)
(* and the compiler never meet an instance that they do not know (the      *)
(* panics of Info.IsBlocking and InstanceSet.ID).                          *)
NeverPanics == phase # "panic"

(* What the language lets the program call, and the types of the values it *)
(* makes, are in the program that is written: collected for all packages,  *)
(* compiled for every type argument, and not taken for dead code.          *)
WhatRunsIsWritten == phase = "written" =>
    \A i \in ran :
        /\ \E d \in program : d.inst = i /\ d.kind \in {"func", "type", "value"}
        /\ Info(i.o).kind \in {"func", "type"} => \E d \in program : d.kind = "var" /\ d.inst.o = i.o

(* A reference of the written code leads by its number to the instance it  *)
(* was made for, across packages (Session.UpToDateArchives, InstanceSet.ID)*)
ReferencesResolve == phase = "written" =>
    \A d \in program : \A r \in d.refs :
        LET found == {e \in program : /\ e.kind \in {"func", "type"}
                                      /\ e.inst.o = r.o /\ e.id = r.id}
        IN  found # {} /\ \A e \in found : e.inst = r.inst

(* A function that may block while the program runs is compiled so that it *)
(* can be resumed, and so is every call of one, those of initializers too. *)
BlockingIsKnown == phase = "written" =>
    \A d \in {x \in program : x.kind \in {"func", "value"} /\ x.inst \in ran} :
        /\ d.kind = "func" /\ d.inst \in blocked => d.blocking
        /\ \A c \in d.calls : c.callee \in blocked => c.blocking
=============================================================================
