-------------------------------- MODULE Overlay --------------------------------
(***************************************************************************)
(* How the session puts the overlay of a standard package and its original *)
(* source together (build/build.go, compiler/astutil).  Every declaration  *)
(* of the overlay takes the place of the original one; directives keep the *)
(* original under another name, give it the signature of the overlay, or   *)
(* remove both.  Imports that nothing uses any more are removed.           *)
(*                                                                         *)
(* A file is [decls, imports, floating]: declarations, imports, and the    *)
(* directives in comments that belong to no declaration.  A declaration is *)
(* a function, or one specification of a type or of constants or variables *)
(* with the directives of its group:                                       *)
(*   kind     func, type, value or values: in a spec of kind values each   *)
(*            name has a value of its own                                  *)
(*   recv     the type a function is a method of, or None                  *)
(*   names    the names it declares                                        *)
(*   uses     the packages used for each of the names                      *)
(*   sig      the packages used in a signature                             *)
(*   dirs     its directives                                               *)
(* An import is [name, path], where the name is None for . and _.          *)
(***************************************************************************)
EXTENDS FiniteSets

CONSTANTS
    None,        \* no receiver, no name
    Blank,       \* the identifier _
    InitName,    \* the identifier init
    Renamed(_)   \* the name after the prefix _gopherjs_original_

Purge(d) == "purge" \in d.dirs
KeepOriginal(d) == d.kind = "func" /\ "keep-original" \in d.dirs
OverrideSignature(d) == d.kind = "func" /\ "override-signature" \in d.dirs

(* FuncKey for functions and methods, the name for the others.             *)
Keys(d) == {<<d.recv, n>> : n \in d.names}
Declared(decls) == UNION {Keys(d) : d \in decls}

(* The packages that declarations use.                                     *)
Using(d) == d.sig \cup UNION {d.uses[n] : n \in d.names}
UsedNames(decls) == UNION {Using(d) : d \in decls}

HasDirective(decls, dir) == \E d \in decls : dir \in d.dirs

-----------------------------------------------------------------------------
(* Removal of what became unused.                                          *)

(* finalizeRemovals: comments that belong to nothing are lost, before      *)
(* pruneImports looks for directives.                                      *)
FinalizeRemovals(file) == [file EXCEPT !.floating = {}]

(* The directive that an import may be there for.                          *)
DirectiveOf(path) == IF path = "unsafe" THEN "linkname" ELSE "embed"
NeededFor(i, decls) == i.path \in {"unsafe", "embed"} /\ HasDirective(decls, DirectiveOf(i.path))

(* pruneImports: all imports of a file without declarations; else those    *)
(* that are not used, or their names when a directive needs them.          *)
Unused(file) == {i \in file.imports : i.name # None /\ i.name \notin UsedNames(file.decls)}
PruneImports(file) ==
    IF file.decls = {} THEN [file EXCEPT !.imports = {}]
    ELSE [file EXCEPT !.imports = (@ \ Unused(file)) \cup
              {[i EXCEPT !.name = None] : i \in {x \in Unused(file) : NeededFor(x, file.decls)}}]

Finish(file, decls) == PruneImports(FinalizeRemovals([file EXCEPT !.decls = decls]))

-----------------------------------------------------------------------------
(* overrides after all overlay files: what is overridden and how.          *)
Overrides(overlay) == Declared(overlay) \ {<<None, InitName>>}
Keeps(overlay, k) == \E o \in overlay : k \in Keys(o) /\ KeepOriginal(o)
PurgesMethods(overlay, t) == \E o \in overlay : o.kind = "type" /\ t \in o.names /\ Purge(o)

(* augmentOverlayFile.                                                     *)
AugmentOverlayFile(file) ==
    LET kept == {d \in file.decls : ~Purge(d) /\ ~OverrideSignature(d)}
    IN  IF kept = file.decls THEN file ELSE Finish(file, kept)

(* augmentOriginalFile for a function: what is left of it.  It has the     *)
(* signature of the overlay if that overrides it.                          *)
Signatures(d, overlay) == {o \in overlay : OverrideSignature(o) /\ Keys(o) = Keys(d)}
WithSignature(d, overlay) ==
    IF Signatures(d, overlay) = {} THEN d
    ELSE [d EXCEPT !.sig = (CHOOSE o \in Signatures(d, overlay) : TRUE).sig]
WithName(d, name) == [d EXCEPT !.names = {name},
                               !.uses = [n \in {name} |-> UNION {d.uses[m] : m \in d.names}]]

AugmentFunc(d, overlay) ==
    IF Keys(d) \subseteq Overrides(overlay)
    THEN IF \E k \in Keys(d) : Keeps(overlay, k)
         THEN {WithName(WithSignature(d, overlay), Renamed(CHOOSE n \in d.names : TRUE))}
         ELSE IF Signatures(d, overlay) # {} THEN {WithSignature(d, overlay)} ELSE {}
    ELSE IF d.recv # None /\ PurgesMethods(overlay, d.recv) THEN {} ELSE {d}

(* For types, for specs in which each name has its value, and for those    *)
(* where names become blank and the last one takes the value with it.      *)
Removed(d, overlay) == {n \in d.names : <<d.recv, n>> \in Overrides(overlay)}
AllRemoved(d, overlay) ==
    /\ Removed(d, overlay) # {}
    /\ d.names \ Removed(d, overlay) \subseteq IF d.kind = "values" THEN {} ELSE {Blank}
AugmentSpec(d, overlay) ==
    LET left == d.names \ Removed(d, overlay) IN
    IF Removed(d, overlay) = {} THEN {d}
    ELSE IF AllRemoved(d, overlay) THEN {}
    ELSE IF d.kind = "values"
    THEN {[d EXCEPT !.names = left, !.uses = [n \in left |-> d.uses[n]]]}
    ELSE {[d EXCEPT !.names = left \cup {Blank},
                    !.uses = [n \in left \cup {Blank} |-> UNION {d.uses[m] : m \in d.names}]]}

Augment(d, overlay) == IF d.kind = "func" THEN AugmentFunc(d, overlay) ELSE AugmentSpec(d, overlay)

(* augmentOriginalFile: comments and imports are looked at when something  *)
(* was removed or renamed; names that became blank do not count.           *)
Affected(d, overlay) ==
    IF d.kind = "func" THEN \/ Keys(d) \subseteq Overrides(overlay)
                            \/ d.recv # None /\ PurgesMethods(overlay, d.recv)
    ELSE IF d.kind = "value" THEN AllRemoved(d, overlay) ELSE Removed(d, overlay) # {}
AugmentOriginalFile(file, overlay) ==
    LET decls == UNION {Augment(d, overlay) : d \in file.decls}
    IN  IF \E d \in file.decls : Affected(d, overlay) THEN Finish(file, decls)
        ELSE [file EXCEPT !.decls = decls]

(* augmentOriginalImports: package sync in the packages that must not      *)
(* block.                                                                  *)
AugmentOriginalImports(file, nosync) ==
    IF ~nosync THEN file
    ELSE [file EXCEPT !.imports = {IF i.path = "sync" THEN [i EXCEPT !.path = "nosync"] ELSE i : i \in @}]

(* parseAndAugment: the files of a package with an overlay.                *)
ParseAndAugment(overlayFile, originalFile, nosync) ==
    LET original == AugmentOriginalImports(originalFile, nosync)
    IN  [overlay |-> AugmentOverlayFile(overlayFile),
         original |-> IF Overrides(overlayFile.decls) = {} THEN original
                      ELSE AugmentOriginalFile(original, overlayFile.decls)]

-----------------------------------------------------------------------------
(* What the two files are to be, on their own and together.                *)

(* init functions and blank names may be declared more than once.          *)
Special(k) == k = <<None, InitName>> \/ k[2] = Blank
Apart(d, e) == \A k \in Keys(d) \cap Keys(e) : Special(k)
DeclaredOnce(decls) == \A d, e \in decls : d # e => Apart(d, e)

(* Every package that is used is imported, and none is without a use.      *)
ImportsFit(file) ==
    /\ UsedNames(file.decls) \subseteq {i.name : i \in file.imports} \ {None}
    /\ \A i \in file.imports : i.name # None => i.name \in UsedNames(file.decls)

(* A file of a package that compiles.                                      *)
IsDecl(d) ==
    /\ d = [kind |-> d.kind, recv |-> d.recv, names |-> d.names, uses |-> d.uses,
            sig |-> d.sig, dirs |-> d.dirs]
    /\ d.kind \in {"func", "type", "value", "values"}
    /\ d.kind # "func" => d.recv = None
    /\ d.kind \in {"func", "type"} => \E n \in d.names : d.names = {n}
    /\ DOMAIN d.uses = d.names /\ d.names # {}
IsFile(file) ==
    /\ file = [decls |-> file.decls, imports |-> file.imports, floating |-> file.floating]
    /\ \A i \in file.imports : i = [name |-> i.name, path |-> i.path]
    /\ \A d \in file.decls : IsDecl(d)
    /\ DeclaredOnce(file.decls) /\ ImportsFit(file)

(* No declaration has the name that a declaration is kept under.           *)
Names(decls) == UNION {d.names : d \in decls}
PrefixIsFree(overlay, original) ==
    \A n \in Names(original) : Renamed(n) \notin Names(original) \cup Names(overlay)
================================================================================
