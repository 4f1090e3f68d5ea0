----------------------------- MODULE ProgramStart -----------------------------
(***************************************************************************)
(* What becomes of the written program, up to the end of main              *)
(* (compiler.go, decls.go, prelude.js).  The packages are put in order and *)
(* loaded by a JavaScript host: first they define themselves, one after    *)
(* the other, then all of them finish their setup, and then they link the  *)
(* functions that go:linkname gives them.  Up to here nothing of the       *)
(* program's own code runs.  runtime.$init is called outside of any        *)
(* goroutine, and the $init of the main package is the first goroutine: it *)
(* initializes its imports, sets its variables, and calls its init         *)
(* functions and main.                                                     *)
(*                                                                         *)
(* An initializer that blocks makes every $init on the stack return a      *)
(* frame to be resumed from; a call that was not compiled for that drops   *)
(* the frame of its callee and goes on.                                    *)
(***************************************************************************)
EXTENDS CompileSession

VARIABLES
    stage,   \* "none" while the session works, then what the program does
    order,   \* deps: the packages, each after its imports
    visit,   \* the packages whose dependencies are being collected
    at,      \* the package of order that is loaded next
    js,      \* what the program has set so far: a record, see Unset
    missing, \* what was used before it was set
    stack,   \* the $init functions being executed, each with the steps left
    parked,  \* the goroutine waits
    reach,   \* what the code of the current step has used so far
    waits    \* what of that may block

collecting == <<order, visit>>
executing == <<stack, parked, reach, waits>>
svars == <<stage, collecting, at, js, missing, executing>>

(* packages: $packages; set: the variables of types, functions and package *)
(* variables; complete: types whose init has run; linknames: $linknames;   *)
(* linked: functions that were replaced by their implementation; begun:    *)
(* packages whose $init was replaced by an empty function; ended: those    *)
(* whose $init has come to its end.                                        *)
Unset == [packages |-> {}, set |-> {}, complete |-> {}, linknames |-> {},
          linked |-> {}, begun |-> {}, ended |-> {}]

StartInit ==
    /\ Init
    /\ stage = "none" /\ order = <<>> /\ visit = <<>> /\ at = 1
    /\ js = Unset /\ missing = {}
    /\ stack = <<>> /\ parked = FALSE /\ reach = {} /\ waits = {}

DeclsOf(p, kind) == {d \in program : d.pkg = p /\ d.kind = kind}
InstsOf(p, kind) == {d.inst : d \in DeclsOf(p, kind)}

-----------------------------------------------------------------------------
(* Loading.                                                                *)

(* The session is done with the program, before any of it has run.         *)
Load ==
    /\ stage = "none" /\ phase = "written" /\ ran = Starts(prog, Linked)
    /\ stage' = "collect" /\ visit' = <<Root, Runtime>>
    /\ UNCHANGED <<vars, order, at, js, missing, executing>>

(* ImportDependencies: a package comes after its imports, the runtime and  *)
(* what it imports first, the root last.                                   *)
CollectDependencies ==
    /\ stage = "collect"
    /\ LET p == Last(visit)
           imports == prog.imports[p]
           left == {n \in DOMAIN imports : imports[n] \notin ToSet(order)}
       IN  IF left # {} THEN visit' = Append(visit, imports[Min(left)]) /\ UNCHANGED <<stage, order>>
           ELSE /\ order' = Append(order, p) /\ visit' = Front(visit)
                /\ stage' = IF Len(visit) = 1 THEN "define" ELSE stage
    /\ UNCHANGED <<vars, at, js, missing, executing>>

(* A pass over the packages.                                               *)
Pass(name, next) ==
    /\ stage = name
    /\ IF at < Len(order) THEN at' = at + 1 /\ UNCHANGED stage ELSE at' = 1 /\ stage' = next
    /\ UNCHANGED <<vars, collecting, executing>>
Need(S, has) == missing' = missing \cup (S \ has)

(* The function around the code of a package: its imports from $packages,  *)
(* its types without what they are made of, and their exports.             *)
DefinePackage ==
    /\ Pass("define", "finish")
    /\ Need(ToSet(prog.imports[order[at]]), js.packages)
    /\ js' = [js EXCEPT !.packages = @ \cup {order[at]}, !.set = @ \cup InstsOf(order[at], "type")]

(* Functions are assigned to their variables, and methods to the prototype *)
(* of the type of their receiver (translateTopLevelFunction); the init of  *)
(* the types, with the types they are made of (initArgs).                  *)
Receivers(p) == {Recv(i) : i \in {j \in InstsOf(p, "func") : Info(j.o).kind = "method"}}
TypeReferences(p) == UNION {{r.inst : r \in d.refs} : d \in DeclsOf(p, "type")}

(* $linknames: the functions that others link to.                          *)
Linknames(p) == {d.inst.o : d \in {x \in DeclsOf(p, "func") : IsImplementation(x, ToSet(order))}}

(* $finishSetup, by $callForAllPackages.                                   *)
FinishSetup ==
    /\ Pass("finish", "link")
    /\ LET p == order[at]
           set == js.set \cup InstsOf(p, "func")
       IN  /\ Need(Receivers(p) \cup TypeReferences(p), set)
           /\ js' = [js EXCEPT !.set = set, !.complete = @ \cup InstsOf(p, "type"),
                               !.linknames = @ \cup Linknames(p)]

(* $initLinknames: the functions of the package that have their            *)
(* implementation elsewhere (FindImplementation).                          *)
InitLinknames ==
    /\ Pass("link", "run")
    /\ LET references == {i.o : i \in {j \in InstsOf(order[at], "func") : Info(j.o).impl # None}}
       IN  /\ Need({Info(o).impl : o \in references}, js.linknames)
           /\ js' = [js EXCEPT !.linked = @ \cup references]

-----------------------------------------------------------------------------
(* The body of $init.                                                      *)

(* A step is the n-th of its kind: the members of S are taken in the order *)
(* of a sequence.                                                          *)
Steps(k, s, S) == {[k |-> k, n |-> n, x |-> s[n]] : n \in {m \in DOMAIN s : s[m] \in S}}
Part == [import |-> 1, zero |-> 2, var |-> 3, call |-> 4, main |-> 5]
Before(a, b) == Part[a.k] < Part[b.k] \/ (a.k = b.k /\ a.n < b.n)

(* importDecls: sorted by path.                                            *)
ImportSteps(p) == Steps("import", Pkgs, ToSet(prog.imports[p]))

(* varDecls: the variables without an initializer first, and the others in *)
(* the order of InitOrder.                                                 *)
VarSteps(p) ==
    LET written == {i.o : i \in InstsOf(p, "value")}
    IN  Steps("zero", prog.order[p], written \ ToSet(prog.inits[p]))
            \cup Steps("var", prog.inits[p], written)

(* funcDecls: the init functions and, in the main package, main.           *)
CallSteps(p) ==
    LET entries == {o \in ToSet(prog.order[p]) : Info(o).entry}
    IN  Steps("call", prog.order[p], entries \ {"main"})
            \cup (IF p = Root THEN Steps("main", prog.order[p], entries \cap {"main"}) ELSE {})

InitCode(p) == ImportSteps(p) \cup VarSteps(p) \cup CallSteps(p)

Frame(p) == [pkg |-> p, left |-> InitCode(p)]
Top == Last(stack)
AtEnd(frame) == frame.left = {}
Position(frame) == CHOOSE t \in frame.left : \A x \in frame.left : ~Before(x, t)
Advance(st) == [st EXCEPT ![Len(st)].left = @ \ {Position(Last(st))}]

(* What the code of a step has used.                                       *)
Used(step) == reach \ (IF step.k \in {"zero", "var"} THEN {Plain(step.x)} ELSE {})

Ready(i) ==
    /\ i \in js.set
    /\ Info(i.o).kind = "type" => i \in js.complete
    /\ Info(i.o).impl # None => i.o \in js.linked

(* Mutant of ImportResumes: the call of $init is not marked as blocking.   *)
ImportDrops == FALSE

(* importInitializer marks the call of an import's $init as blocking.      *)
ImportResumes == TRUE

(* A step that can wait for what it calls; initializers, init functions    *)
(* and main were compiled as the analysis said.                            *)
Resumes(step) ==
    CASE step.k = "import" -> ImportResumes
      [] step.k \in {"zero", "var"} -> \E d \in program : d.kind = "value" /\ d.inst.o = step.x
                               /\ \A c \in d.calls : c.callee \in waits => c.blocking
      [] step.k \in {"call", "main"} -> \E d \in program :
                               d.kind = "func" /\ d.inst.o = step.x /\ d.blocking

-----------------------------------------------------------------------------
(* runtime.$init is called.                                                *)
CallRuntime ==
    /\ stage = "run"
    /\ stage' = "start" /\ stack' = <<Frame(Runtime)>>
    /\ js' = [js EXCEPT !.begun = {Runtime}]
    /\ UNCHANGED <<vars, collecting, at, missing, parked, reach, waits>>

Executing(kinds) == /\ stage = "start" /\ ~parked
                    /\ ~AtEnd(Top) /\ Position(Top).k \in kinds

(* pkg.$init(): an empty function once the package's $init has begun.      *)
InitImport ==
    /\ Executing({"import"})
    /\ LET q == Position(Top).x
       IN  IF q \in js.begun THEN stack' = Advance(stack) /\ UNCHANGED js
           ELSE /\ stack' = Append(stack, Frame(q))
                /\ js' = [js EXCEPT !.begun = @ \cup {q}]
    /\ UNCHANGED <<vars, stage, collecting, at, missing, parked, reach, waits>>

(* The language: the code of a step runs, and what it uses leads to more.  *)
OwnCode == {"zero", "var", "call", "main"}
Ran == reach # {} /\ RunsNext(prog, reach) = reach /\ BlocksNext(prog, reach, waits) = waits
Execute ==
    /\ Executing(OwnCode) /\ ~Ran
    /\ reach' = RunsNext(prog, IF reach = {} THEN {Plain(Position(Top).x)} ELSE reach)
    /\ waits' = BlocksNext(prog, reach', waits)
    /\ UNCHANGED <<vars, stage, collecting, at, js, missing, stack, parked>>

Finish ==
    /\ Ran
    /\ missing' = missing \cup {i \in Used(Position(Top)) : ~Ready(i)}
    /\ stack' = Advance(stack) /\ reach' = {} /\ waits' = {}
    /\ UNCHANGED <<vars, stage, collecting, at, parked>>

(* The value of a variable is computed and assigned.                       *)
InitVar ==
    /\ Executing({"zero", "var"}) /\ Finish
    /\ js' = [js EXCEPT !.set = @ \cup {Plain(Position(Top).x)}]

(* An init function or main is executed.                                   *)
CallFunction == Executing({"call", "main"}) /\ Finish /\ UNCHANGED js

(* What is executed blocks.  Every $init returns: to be resumed where it   *)
(* was, or to a caller that goes on as if it were done.                    *)
Block ==
    /\ Executing(OwnCode) /\ Ran /\ Plain(Position(Top).x) \in waits
    /\ LET lost == {n \in DOMAIN stack : ~Resumes(Position(stack[n]))}
       IN  IF lost = {} THEN parked' = TRUE /\ UNCHANGED <<stack, reach, waits>>
           ELSE /\ stack' = Advance(SubSeq(stack, 1, Min(lost)))
                /\ reach' = {} /\ waits' = {} /\ UNCHANGED parked
    /\ UNCHANGED <<vars, stage, collecting, at, js, missing>>

Resume ==
    /\ parked
    /\ parked' = FALSE
    /\ UNCHANGED <<vars, stage, collecting, at, js, missing, stack, reach, waits>>

(* $init returns to the package that imports this one; after that of the   *)
(* runtime $go starts the main package.                                    *)
InitReturns ==
    /\ stage = "start" /\ ~parked /\ AtEnd(Top)
    /\ IF Len(stack) > 1 THEN stack' = Advance(Front(stack)) /\ UNCHANGED stage
       ELSE IF Top.pkg = Root THEN stack' = <<>> /\ stage' = "finished"
       ELSE stack' = <<Frame(Root)>> /\ UNCHANGED stage
    /\ js' = [js EXCEPT !.ended = @ \cup {Top.pkg},
                        !.begun = @ \cup (IF Len(stack) = 1 THEN {Root} ELSE {})]
    /\ UNCHANGED <<vars, collecting, at, missing, parked, reach, waits>>

SessionStep == stage = "none" /\ Next /\ UNCHANGED svars

StartNext == SessionStep \/ Load \/ CollectDependencies \/ DefinePackage \/ FinishSetup
    \/ InitLinknames \/ CallRuntime \/ InitImport \/ Execute \/ InitVar \/ CallFunction
    \/ Block \/ Resume \/ InitReturns

StartSpec == StartInit /\ [][StartNext]_<<vars, svars>>

-----------------------------------------------------------------------------
(* types.Info.InitOrder: of all that the initializer of the n-th variable  *)
(* of p leads to, which is in S, no variable of p is initialized later.    *)
(* The language does not promise it of what is called through interfaces.  *)
InitializedBefore(P, p, n, S) ==
    /\ Plain(P.inits[p][n]) \in S /\ RunsNext(P, S) \subseteq S
    /\ \A i \in S : Obj(P, i.o).kind = "var" /\ Obj(P, i.o).pkg = p =>
          i.o \notin {P.inits[p][m] : m \in DOMAIN P.inits[p]} \ {P.inits[p][m] : m \in 1 .. n}
InitOrdered(P) ==
    \A p \in ToSet(Pkgs) : \A n \in DOMAIN P.inits[p] : \E S : InitializedBefore(P, p, n, S)

(* Whatever the program uses from its first line to the end of main is     *)
(* there: packages and types while types of other packages are set up,     *)
(* functions that are linked against the order of the packages, and the    *)
(* variables, linked functions and complete types that initializers and    *)
(* init functions reach; and no code of a package runs before all packages *)
(* it imports are initialized to the end, also when an initializer of one  *)
(* of them blocks (WritePkgCode, varDecls, importInitializer).             *)
StartFindsAll ==
    /\ missing = {}
    /\ stage = "start" /\ ~AtEnd(Top) /\ Position(Top).k # "import"
          => ToSet(prog.imports[Top.pkg]) \subseteq js.ended
    /\ stage = "finished" => js.ended = Linked
===============================================================================
