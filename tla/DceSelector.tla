----------------------------- MODULE DceSelector -----------------------------
(***************************************************************************)
(* Dead-code elimination (compiler/internal/dce/selector.go): which of the *)
(* declarations of all packages WriteProgramCode writes out.  A            *)
(* declaration is found through its filters: the name of its object or     *)
(* receiver type and, for an unexported method, the name of the method.    *)
(*                                                                         *)
(* The stack of pending declarations is a set: what a declaration reaches  *)
(* does not depend on when it is popped.                                   *)
(***************************************************************************)
EXTENDS FiniteSets

CONSTANTS
    Decl,     \* the declarations of all packages
    Name,     \* the filters
    NoName,   \* the empty filter
    Programs  \* the programs to consider: what each declaration records

(* dce.Info, and whether a go:linkname directive names the declaration.    *)
Info == [alive : BOOLEAN, objectFilter : Name \cup {NoName},
         methodFilter : Name \cup {NoName}, deps : SUBSET Name, link : BOOLEAN]

ASSUME DceAssumption ==
    /\ IsFiniteSet(Decl)
    /\ NoName \notin Name
    /\ Programs \subseteq [Decl -> Info]

VARIABLES
    dce,          \* the program
    included,     \* declarations passed to Include
    byFilter,     \* the declarations that wait for a filter
    filters,      \* the filters a declaration still waits for
    pendingDecls, \* live declarations whose dependencies are not followed
    selection     \* dceSelection

dceVars == <<dce, included, byFilter, filters, pendingDecls, selection>>

(* The filters that must all be found before a declaration is alive.       *)
Filters(d) == {dce[d].objectFilter, dce[d].methodFilter} \ {NoName}

(* Info.isAlive.                                                           *)
IsAlive(d) == dce[d].alive \/ Filters(d) = {}

DceInit ==
    /\ dce \in Programs
    /\ included = {} /\ pendingDecls = {} /\ selection = {}
    /\ byFilter = [n \in Name |-> {}]
    /\ filters = [d \in Decl |-> {}]

(* Include, called once for each declaration: what is alive, or may        *)
(* implement a link, is pending; what is not alive waits for its filters.  *)
Include(d) ==
    /\ d \notin included
    /\ included' = included \cup {d}
    /\ pendingDecls' = IF IsAlive(d) \/ dce[d].link
                       THEN pendingDecls \cup {d} ELSE pendingDecls
    /\ IF IsAlive(d)
       THEN UNCHANGED <<byFilter, filters>>
       ELSE /\ filters' = [filters EXCEPT ![d] = Filters(d)]
            /\ byFilter' = [n \in Name |-> IF n \in Filters(d)
                                           THEN byFilter[n] \cup {d} ELSE byFilter[n]]
    /\ UNCHANGED <<dce, selection>>

(* The filters of e that the dependencies of d have found.                 *)
FoundBy(d, e) == {n \in dce[d].deps : e \in byFilter[n]}

(* Mutants of Follow: one of two filters is enough; both have to be found  *)
(* by the same declaration; the declaration stays pending.                 *)
FollowEither(d) ==
    /\ filters' = [e \in Decl |-> filters[e] \ FoundBy(d, e)]
    /\ pendingDecls' = (pendingDecls \ {d}) \cup {e \in Decl : FoundBy(d, e) # {}}
    /\ byFilter' = [n \in Name |-> IF n \in dce[d].deps THEN {} ELSE byFilter[n]]
FollowAtOnce(d) ==
    /\ filters' = filters
    /\ pendingDecls' = (pendingDecls \ {d}) \cup
           {e \in Decl : FoundBy(d, e) # {} /\ filters[e] \subseteq FoundBy(d, e)}
    /\ byFilter' = [n \in Name |-> IF n \in dce[d].deps THEN {} ELSE byFilter[n]]
FollowAgain(d) ==
    /\ filters' = [e \in Decl |-> filters[e] \ FoundBy(d, e)]
    /\ pendingDecls' = pendingDecls \cup
           {e \in Decl : FoundBy(d, e) # {} /\ filters'[e] = {}}
    /\ byFilter' = [n \in Name |-> IF n \in dce[d].deps THEN {} ELSE byFilter[n]]

(* The body of the loop of AliveDecls after popPending.                    *)
Follow(d) ==
    /\ filters' = [e \in Decl |-> filters[e] \ FoundBy(d, e)]
    /\ pendingDecls' = (pendingDecls \ {d}) \cup
           {e \in Decl : FoundBy(d, e) # {} /\ filters'[e] = {}}
    /\ byFilter' = [n \in Name |-> IF n \in dce[d].deps THEN {} ELSE byFilter[n]]

(* One round of AliveDecls, called once everything is included.            *)
Select(d) ==
    /\ included = Decl
    /\ d \in pendingDecls
    /\ selection' = selection \cup {d}
    /\ Follow(d)
    /\ UNCHANGED <<dce, included>>

DceNext == \E d \in Decl : Include(d) \/ Select(d)

(* The loops are sequential code and run on until they end.                *)
DceSpec == DceInit /\ [][DceNext]_dceVars /\ WF_dceVars(DceNext)

-----------------------------------------------------------------------------
(* Properties.                                                             *)

(* AliveDecls has returned.                                                *)
Selected == included = Decl /\ pendingDecls = {}

DceTypeOK ==
    /\ included \subseteq Decl /\ selection \subseteq Decl
    /\ pendingDecls \subseteq Decl
    /\ byFilter \in [Name -> SUBSET Decl]
    /\ filters \in [Decl -> SUBSET Name]

(* What a declaration of S refers to.                                      *)
Needs(S) == UNION {dce[d].deps : d \in S}

(* S holds every declaration that is alive by itself or may implement a    *)
(* link, and each one all of whose filters S refers to.                    *)
Closed(S) == \A d \in Decl :
    IsAlive(d) \/ dce[d].link \/ Filters(d) \subseteq Needs(S) => d \in S

(* Nothing is selected or pending that some closed set does without: dead  *)
(* code is left out, cycles of dead declarations too.                      *)
NoDeadCode == \A S \in SUBSET Decl : Closed(S) => selection \cup pendingDecls \subseteq S

(* What AliveDecls returns is closed: no declaration is missing that the   *)
(* program can refer to, in whatever order its filters were found.         *)
NothingMissing == Selected => Closed(selection)

(* AliveDecls returns.                                                     *)
Returns == <>Selected
=============================================================================
