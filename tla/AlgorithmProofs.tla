---------------------------- MODULE AlgorithmProofs ----------------------------
(* What ParseAndAugment of Overlay does to every overlay and original file *)
(* that compile on their own; then what InstanceMap holds after any call;  *)
(* then dead-code elimination, for every set of declarations and every     *)
(* program: what AliveDecls returns is the least closed set.               *)
EXTENDS Overlay, InstanceMap, DceSelector, TLAPS, FiniteSetTheorems, WellFoundedInduction

(* The names of the imports of a file.                                     *)
Imported(file) == {i.name : i \in file.imports} \ {None}

(* The packages used in the signatures that an overlay gives.              *)
GivenSigs(overlay) == UNION {o.sig : o \in {x \in overlay : OverrideSignature(x)}}

-----------------------------------------------------------------------------
(* Imports.                                                                *)

(* finalizeRemovals and pruneImports leave a file with the imports that    *)
(* its declarations need.                                                  *)
LEMMA FinishFits ==
    ASSUME NEW file, NEW decls,
           file = [decls |-> file.decls, imports |-> file.imports, floating |-> file.floating],
           \A i \in file.imports : i = [name |-> i.name, path |-> i.path],
           UsedNames(decls) \subseteq Imported(file)
    PROVE  ImportsFit(Finish(file, decls))
<1> DEFINE f == [decls |-> decls, imports |-> file.imports, floating |-> {}]
           new == PruneImports(f)
<1>1. Finish(file, decls) = new
  <2> DEFINE g == [decls |-> decls, imports |-> file.imports, floating |-> file.floating]
  <2>1. [file EXCEPT !.decls = decls] = g
    OBVIOUS
  <2>2. [g EXCEPT !.floating = {}] = f
    OBVIOUS
  <2>3. Finish(file, decls) = PruneImports(FinalizeRemovals([file EXCEPT !.decls = decls]))
    BY DEF Finish
  <2>4. FinalizeRemovals([file EXCEPT !.decls = decls]) = [g EXCEPT !.floating = {}]
    BY <2>1, Zenon DEF FinalizeRemovals
  <2> HIDE DEF f, g
  <2> QED
    BY <2>2, <2>3, <2>4
<1>2. CASE decls = {}
  <2>1. new = [decls |-> {}, imports |-> {}, floating |-> {}]
    BY <1>2 DEF PruneImports
  <2>2. UsedNames({}) = {}
    BY DEF UsedNames
  <2> QED
    <3> HIDE DEF new
    <3>1. new.decls = {} /\ new.imports = {}
      BY <2>1
    <3> QED
      BY <1>1, <2>2, <3>1 DEF ImportsFit
<1>3. CASE decls # {}
  <2> DEFINE unused == {i \in file.imports : i.name # None /\ i.name \notin UsedNames(decls)}
             blanked == {[i EXCEPT !.name = None] : i \in {x \in unused : NeededFor(x, decls)}}
  <2>1. new = [decls |-> decls, imports |-> (file.imports \ unused) \cup blanked,
               floating |-> {}]
    BY <1>3 DEF PruneImports, Unused
  <2>2. \A i \in blanked : i.name = None
    OBVIOUS
  <2>3. ASSUME NEW n \in UsedNames(decls) PROVE n \in {i.name : i \in new.imports} \ {None}
    <3>1. PICK i \in file.imports : i.name = n /\ n # None
      BY DEF Imported
    <3>2. i \in new.imports
      BY <2>1, <3>1
    <3> QED
      BY <3>1, <3>2
  <2>4. ASSUME NEW i \in new.imports, i.name # None PROVE i.name \in UsedNames(decls)
    BY <2>1, <2>2, <2>4
  <2>5. new.decls = decls
    BY <2>1
  <2> HIDE DEF new
  <2> QED
    BY <1>1, <2>3, <2>4, <2>5 DEF ImportsFit
<1> QED
  BY <1>2, <1>3

(* What is left of a declaration uses what it used, or what the signature  *)
(* that the overlay gives it uses.                                         *)
LEMMA AugmentUses ==
    ASSUME NEW d, IsDecl(d), NEW overlay, NEW r \in Augment(d, overlay)
    PROVE  Using(r) \subseteq Using(d) \cup GivenSigs(overlay)
<1>1. d = [kind |-> d.kind, recv |-> d.recv, names |-> d.names, uses |-> d.uses,
           sig |-> d.sig, dirs |-> d.dirs]
  BY DEF IsDecl
<1>2. CASE d.kind = "func"
  <2> DEFINE s == WithSignature(d, overlay)
  <2>1. /\ s.sig \subseteq d.sig \cup GivenSigs(overlay)
        /\ s = [d EXCEPT !.sig = s.sig]
    <3>1. CASE Signatures(d, overlay) = {}
      BY <1>1, <3>1 DEF WithSignature
    <3>2. CASE Signatures(d, overlay) # {}
      <4> DEFINE o == CHOOSE o \in Signatures(d, overlay) : TRUE
      <4>1. o \in Signatures(d, overlay)
        BY <3>2
      <4>2. o.sig \subseteq GivenSigs(overlay)
        BY <4>1 DEF Signatures, GivenSigs
      <4>3. s = [d EXCEPT !.sig = o.sig]
        BY <3>2 DEF WithSignature
      <4> HIDE DEF o
      <4> QED
        BY <1>1, <4>2, <4>3
    <3> QED
      BY <3>1, <3>2
  <2>2. s.uses = d.uses /\ s.names = d.names
    BY <1>1, <2>1
  <2> HIDE DEF s
  <2>3. ASSUME NEW name, r = WithName(s, name)
        PROVE  Using(r) \subseteq Using(d) \cup GivenSigs(overlay)
    <3>1. r.sig = s.sig /\ r.names = {name}
      BY <1>1, <2>1, <2>3 DEF WithName
    <3>2. r.uses[name] = UNION {d.uses[m] : m \in d.names}
      BY <1>1, <2>1, <2>2, <2>3 DEF WithName
    <3> QED
      BY <2>1, <3>1, <3>2 DEF Using
  <2>4. Using(s) \subseteq Using(d) \cup GivenSigs(overlay)
    BY <2>1, <2>2 DEF Using
  <2>5. r = d \/ r = s \/ \E name : r = WithName(s, name)
    BY <1>2 DEF Augment, AugmentFunc, s
  <2> QED
    BY <2>3, <2>4, <2>5
<1>3. CASE d.kind # "func"
  <2> DEFINE left == d.names \ Removed(d, overlay)
             all == UNION {d.uses[m] : m \in d.names}
  <2>1. \/ r = d
        \/ r = [d EXCEPT !.names = left, !.uses = [n \in left |-> d.uses[n]]]
        \/ r = [d EXCEPT !.names = left \cup {Blank}, !.uses = [n \in left \cup {Blank} |-> all]]
    BY <1>3 DEF Augment, AugmentSpec
  <2> HIDE DEF left
  <2>2. r.sig = d.sig /\ \A n \in r.names : r.uses[n] \subseteq all
    <3>1. CASE r = d
      BY <3>1
    <3>2. CASE r = [d EXCEPT !.names = left, !.uses = [n \in left |-> d.uses[n]]]
      <4>1. r.sig = d.sig /\ r.names = left /\ r.uses = [n \in left |-> d.uses[n]]
        BY <1>1, <3>2
      <4> QED
        BY <4>1 DEF left
    <3>3. CASE r = [d EXCEPT !.names = left \cup {Blank}, !.uses = [n \in left \cup {Blank} |-> all]]
      <4> HIDE DEF all
      <4>1. r.sig = d.sig /\ r.uses = [n \in left \cup {Blank} |-> all] /\ r.names = left \cup {Blank}
        BY <1>1, <3>3
      <4> QED
        BY <4>1
    <3> QED
      BY <2>1, <3>1, <3>2, <3>3
  <2> QED
    BY <2>2 DEF Using
<1> QED
  BY <1>2, <1>3

(* A declaration that counts as unchanged uses the same packages after.    *)
LEMMA UnaffectedUses ==
    ASSUME NEW d, IsDecl(d), NEW overlay, ~Affected(d, overlay)
    PROVE  \E r : Augment(d, overlay) = {r} /\ Using(r) = Using(d)
<1>1. d = [kind |-> d.kind, recv |-> d.recv, names |-> d.names, uses |-> d.uses,
           sig |-> d.sig, dirs |-> d.dirs]
  BY DEF IsDecl
<1>2. CASE d.kind = "func"
  BY <1>2 DEF Affected, Augment, AugmentFunc
<1>3. CASE d.kind # "func" /\ Removed(d, overlay) = {}
  BY <1>3 DEF Augment, AugmentSpec
<1>4. CASE d.kind = "value" /\ Removed(d, overlay) # {}
  <2> DEFINE names == (d.names \ Removed(d, overlay)) \cup {Blank}
             all == UNION {d.uses[m] : m \in d.names}
             r == [d EXCEPT !.names = names, !.uses = [n \in names |-> all]]
  <2>1. Augment(d, overlay) = {r}
    BY <1>4 DEF Affected, Augment, AugmentSpec
  <2>2. r.sig = d.sig /\ r.names = names /\ r.uses = [n \in names |-> all]
    BY <1>1
  <2>3. UNION {r.uses[n] : n \in r.names} = all
    BY <2>2
  <2> QED
    BY <2>1, <2>2, <2>3 DEF Using
<1> QED
  BY <1>2, <1>3, <1>4 DEF Affected

(* Renaming an import of package sync changes the name of none.            *)
LEMMA NosyncFits ==
    ASSUME NEW file, IsFile(file), NEW nosync \in BOOLEAN
    PROVE  LET new == AugmentOriginalImports(file, nosync)
           IN  IsFile(new) /\ new.decls = file.decls /\ Imported(new) = Imported(file)
<1> DEFINE change(i) == IF i.path = "sync" THEN [i EXCEPT !.path = "nosync"] ELSE i
           new == AugmentOriginalImports(file, nosync)
<1>1. CASE ~nosync
  BY <1>1 DEF AugmentOriginalImports
<1>2. CASE nosync
  <2>1. file = [decls |-> file.decls, imports |-> file.imports, floating |-> file.floating]
    BY DEF IsFile
  <2>2. new = [decls |-> file.decls, imports |-> {change(i) : i \in file.imports},
               floating |-> file.floating]
    BY <1>2, <2>1 DEF AugmentOriginalImports
  <2>3. ASSUME NEW i \in file.imports
        PROVE  change(i).name = i.name
               /\ change(i) = [name |-> change(i).name, path |-> change(i).path]
    <3>1. i = [name |-> i.name, path |-> i.path]
      BY DEF IsFile
    <3> QED
      BY <3>1
  <2> HIDE DEF change
  <2>4. {i.name : i \in new.imports} = {i.name : i \in file.imports}
    BY <2>2, <2>3
  <2>5. ImportsFit(new)
    BY <2>2, <2>3, <2>4 DEF IsFile, ImportsFit
  <2> QED
    BY <2>2, <2>3, <2>4, <2>5 DEF IsFile, Imported
<1> QED
  BY <1>1, <1>2

(* Both files import what they use and nothing else, if the signatures an  *)
(* overlay gives use only what the original file imports                   *)
(* (astutil.OverrideSignature).                                            *)
THEOREM ImportsKept ==
    ASSUME NEW overlayFile, IsFile(overlayFile), NEW originalFile, IsFile(originalFile),
           NEW nosync \in BOOLEAN,
           GivenSigs(overlayFile.decls) \subseteq Imported(originalFile)
    PROVE  LET new == ParseAndAugment(overlayFile, originalFile, nosync)
           IN  ImportsFit(new.overlay) /\ ImportsFit(new.original)
<1> DEFINE new == ParseAndAugment(overlayFile, originalFile, nosync)
           file == AugmentOriginalImports(originalFile, nosync)
           overlay == overlayFile.decls
           decls == UNION {Augment(d, overlay) : d \in file.decls}
<1>1. IsFile(file) /\ Imported(file) = Imported(originalFile)
  BY NosyncFits
<1>2. /\ new.overlay = AugmentOverlayFile(overlayFile)
      /\ new.original = IF Overrides(overlay) = {} THEN file ELSE AugmentOriginalFile(file, overlay)
  BY DEF ParseAndAugment
<1> HIDE DEF file, new
<1>3. ImportsFit(AugmentOverlayFile(overlayFile))
  <2> DEFINE kept == {d \in overlay : ~Purge(d) /\ ~OverrideSignature(d)}
  <2>1. UsedNames(kept) \subseteq UsedNames(overlay)
    BY DEF UsedNames
  <2>2. UsedNames(kept) \subseteq Imported(overlayFile)
    BY <2>1 DEF IsFile, ImportsFit, Imported
  <2>3. ImportsFit(Finish(overlayFile, kept))
    <3> HIDE DEF kept
    <3> QED
      BY <2>2, FinishFits DEF IsFile
  <2> QED
    BY <2>3 DEF AugmentOverlayFile, IsFile
<1>4. ImportsFit(AugmentOriginalFile(file, overlay))
  <2>1. CASE \E d \in file.decls : Affected(d, overlay)
    <3>1. AugmentOriginalFile(file, overlay) = Finish(file, decls)
      BY <2>1 DEF AugmentOriginalFile
    <3>2. ASSUME NEW d \in file.decls, NEW r \in Augment(d, overlay)
          PROVE  Using(r) \subseteq Imported(file)
      <4>1. IsDecl(d) /\ Using(d) \subseteq UsedNames(file.decls)
        BY <1>1 DEF IsFile, UsedNames
      <4>2. Using(d) \subseteq Imported(file)
        BY <1>1, <4>1 DEF IsFile, ImportsFit, Imported
      <4> QED
        BY <1>1, <4>1, <4>2, AugmentUses
    <3>3. UsedNames(decls) \subseteq Imported(file)
      BY <3>2 DEF UsedNames
    <3> HIDE DEF decls
    <3> QED
      BY <1>1, <3>1, <3>3, FinishFits DEF IsFile
  <2>2. CASE \A d \in file.decls : ~Affected(d, overlay)
    <3> DEFINE result == AugmentOriginalFile(file, overlay)
    <3>1. result = [file EXCEPT !.decls = decls]
      BY <2>2 DEF AugmentOriginalFile
    <3>2. result.decls = decls /\ result.imports = file.imports
      <4> HIDE DEF decls, result
      <4> QED
        BY <1>1, <3>1 DEF IsFile
    <3>3. \A d \in file.decls :
             \E r : Augment(d, overlay) = {r} /\ Using(r) = Using(d)
      BY <1>1, <2>2, UnaffectedUses DEF IsFile
    <3>4. UsedNames(decls) = UsedNames(file.decls)
      <4>1. ASSUME NEW n \in UsedNames(decls) PROVE n \in UsedNames(file.decls)
        <5>1. PICK d \in file.decls : \E r \in Augment(d, overlay) : n \in Using(r)
          BY <4>1 DEF UsedNames
        <5> QED
          BY <3>3, <5>1 DEF UsedNames
      <4>2. ASSUME NEW n \in UsedNames(file.decls) PROVE n \in UsedNames(decls)
        <5>1. PICK d \in file.decls : n \in Using(d)
          BY <4>2 DEF UsedNames
        <5>2. PICK r : Augment(d, overlay) = {r} /\ Using(r) = Using(d)
          BY <3>3
        <5>3. r \in decls
          BY <5>2
        <5> QED
          BY <5>1, <5>2, <5>3 DEF UsedNames
      <4> QED
        BY <4>1, <4>2
    <3>5. ImportsFit(result)
      <4> HIDE DEF result, decls
      <4> QED
        BY <1>1, <3>2, <3>4 DEF IsFile, ImportsFit
    <3> QED
      BY <3>5
  <2> QED
    BY <2>1, <2>2
<1>5. ImportsFit(file)
  BY <1>1 DEF IsFile
<1>6. ImportsFit(new.overlay) /\ ImportsFit(new.original)
  BY <1>2, <1>3, <1>4, <1>5
<1> QED
  BY <1>6 DEF new

-----------------------------------------------------------------------------
(* Names.                                                                  *)

(* What is left of a declaration: the names that are not overridden, the   *)
(* function under the name it is kept under, or the function with the      *)
(* signature of a declaration in the overlay, which is removed there.      *)
LEMMA AugmentKeys ==
    ASSUME NEW d, IsDecl(d), NEW overlay, NEW r \in Augment(d, overlay)
    PROVE  \/ \A k \in Keys(r) : Special(k) \/ k \in Keys(d) \ Overrides(overlay)
           \/ /\ d.kind = "func" /\ r.recv = d.recv
              /\ \E n \in d.names : r.names = {Renamed(n)} /\ <<d.recv, n>> \in Overrides(overlay)
           \/ Keys(r) = Keys(d) /\ \E x \in overlay : OverrideSignature(x) /\ Keys(x) = Keys(d)
<1>1. d = [kind |-> d.kind, recv |-> d.recv, names |-> d.names, uses |-> d.uses,
           sig |-> d.sig, dirs |-> d.dirs]
  BY DEF IsDecl
<1>2. CASE d.kind = "func"
  <2> DEFINE s == WithSignature(d, overlay)
             name == CHOOSE n \in d.names : TRUE
  <2>1. name \in d.names
    BY DEF IsDecl
  <2>2. s.names = d.names /\ s.recv = d.recv /\ s.uses = d.uses
        /\ s = [kind |-> s.kind, recv |-> s.recv, names |-> s.names, uses |-> s.uses,
                sig |-> s.sig, dirs |-> s.dirs]
    BY <1>1 DEF WithSignature
  <2>3. CASE Keys(d) \subseteq Overrides(overlay)
    <3>1. CASE r = WithName(s, Renamed(name))
      <4> HIDE DEF s, name
      <4>1. r.names = {Renamed(name)} /\ r.recv = s.recv
        BY <2>2, <3>1 DEF WithName
      <4>2. <<d.recv, name>> \in Overrides(overlay)
        BY <2>1, <2>3 DEF Keys
      <4> QED
        BY <1>2, <2>1, <2>2, <4>1, <4>2
    <3>2. CASE r = s /\ Signatures(d, overlay) # {}
      <4>1. Keys(r) = Keys(d)
        BY <2>2, <3>2 DEF Keys
      <4> QED
        BY <3>2, <4>1 DEF Signatures
    <3> QED
      BY <1>2, <2>3, <3>1, <3>2 DEF Augment, AugmentFunc
  <2>4. CASE ~(Keys(d) \subseteq Overrides(overlay))
    <3>1. r = d
      BY <1>2, <2>4 DEF Augment, AugmentFunc
    <3>2. PICK n : Keys(d) = {<<d.recv, n>>}
      BY <1>2 DEF IsDecl, Keys
    <3> QED
      BY <2>4, <3>1, <3>2
  <2> QED
    BY <2>3, <2>4
<1>3. CASE d.kind # "func"
  <2> DEFINE left == d.names \ Removed(d, overlay)
  <2>1. r.recv = d.recv /\ r.names \subseteq left \cup {Blank}
    <3>1. \/ r = d /\ Removed(d, overlay) = {}
          \/ r = [d EXCEPT !.names = left, !.uses = [n \in left |-> d.uses[n]]]
          \/ r = [d EXCEPT !.names = left \cup {Blank},
                      !.uses = [n \in left \cup {Blank} |-> UNION {d.uses[m] : m \in d.names}]]
      BY <1>3 DEF Augment, AugmentSpec
    <3> HIDE DEF left
    <3>2. CASE r = d /\ Removed(d, overlay) = {}
      BY <3>2 DEF left
    <3> QED
      BY <1>1, <3>1, <3>2
  <2>2. ASSUME NEW k \in Keys(r) PROVE Special(k) \/ k \in Keys(d) \ Overrides(overlay)
    <3>1. PICK n \in r.names : k = <<d.recv, n>>
      BY <2>1 DEF Keys
    <3>2. CASE n = Blank
      BY <3>1, <3>2 DEF Special
    <3>3. CASE n \in left
      BY <3>1, <3>3 DEF Removed, Keys
    <3> QED
      BY <2>1, <3>2, <3>3
  <2> QED
    BY <2>2
<1> QED
  BY <1>2, <1>3

(* At most one declaration is left of one.                                 *)
LEMMA AugmentOne ==
    ASSUME NEW d, NEW overlay, NEW r \in Augment(d, overlay), NEW s \in Augment(d, overlay)
    PROVE  r = s
  BY DEF Augment, AugmentFunc, AugmentSpec

(* Finishing a file leaves its declarations as they are.                   *)
LEMMA FinishDecls ==
    ASSUME NEW file, IsFile(file), NEW decls
    PROVE  Finish(file, decls).decls = decls
<1> DEFINE f == [decls |-> decls, imports |-> file.imports, floating |-> {}]
           g == [decls |-> decls, imports |-> file.imports, floating |-> file.floating]
<1>1. [file EXCEPT !.decls = decls] = g
  BY DEF IsFile
<1>2. [g EXCEPT !.floating = {}] = f
  OBVIOUS
<1>3. FinalizeRemovals([file EXCEPT !.decls = decls]) = [g EXCEPT !.floating = {}]
  BY <1>1, Zenon DEF FinalizeRemovals
<1>4. Finish(file, decls) = PruneImports(f)
  <2> HIDE DEF f, g
  <2> QED
    BY <1>2, <1>3 DEF Finish
<1>5. PruneImports(f).decls = decls
  BY DEF PruneImports
<1> QED
  BY <1>4, <1>5

(* The declarations of both files after ParseAndAugment.                   *)
LEMMA ResultDecls ==
    ASSUME NEW overlayFile, IsFile(overlayFile), NEW originalFile, IsFile(originalFile),
           NEW nosync \in BOOLEAN
    PROVE  LET new == ParseAndAugment(overlayFile, originalFile, nosync)
               overlay == overlayFile.decls
           IN  /\ new.overlay.decls = {d \in overlay : ~Purge(d) /\ ~OverrideSignature(d)}
               /\ new.original.decls =
                    IF Overrides(overlay) = {} THEN originalFile.decls
                    ELSE UNION {Augment(d, overlay) : d \in originalFile.decls}
<1> DEFINE new == ParseAndAugment(overlayFile, originalFile, nosync)
           file == AugmentOriginalImports(originalFile, nosync)
           overlay == overlayFile.decls
           kept == {d \in overlay : ~Purge(d) /\ ~OverrideSignature(d)}
           left == UNION {Augment(d, overlay) : d \in file.decls}
<1>1. IsFile(file) /\ file.decls = originalFile.decls
  BY NosyncFits
<1>2. /\ new.overlay = AugmentOverlayFile(overlayFile)
      /\ new.original = IF Overrides(overlay) = {} THEN file ELSE AugmentOriginalFile(file, overlay)
  BY DEF ParseAndAugment
<1>3. AugmentOverlayFile(overlayFile).decls = kept
  <2>1. Finish(overlayFile, kept).decls = kept
    BY FinishDecls
  <2> QED
    BY <2>1 DEF AugmentOverlayFile
<1>4. AugmentOriginalFile(file, overlay).decls = left
  <2> HIDE DEF file
  <2>1. CASE \E d \in file.decls : Affected(d, overlay)
    <3>1. AugmentOriginalFile(file, overlay) = Finish(file, left)
      BY <2>1 DEF AugmentOriginalFile
    <3> HIDE DEF left
    <3> QED
      BY <1>1, <3>1, FinishDecls
  <2>2. CASE ~(\E d \in file.decls : Affected(d, overlay))
    <3>1. AugmentOriginalFile(file, overlay) = [file EXCEPT !.decls = left]
      BY <2>2 DEF AugmentOriginalFile
    <3> HIDE DEF left
    <3> QED
      BY <1>1, <3>1 DEF IsFile
  <2> QED
    BY <2>1, <2>2
<1> HIDE DEF new, file
<1>5. /\ new.overlay.decls = kept
      /\ new.original.decls = IF Overrides(overlay) = {} THEN file.decls ELSE left
  BY <1>2, <1>3, <1>4
<1>6. /\ new.overlay.decls = kept
      /\ new.original.decls =
           IF Overrides(overlay) = {} THEN originalFile.decls
           ELSE UNION {Augment(d, overlay) : d \in originalFile.decls}
  BY <1>1, <1>5
<1> QED
  BY <1>6 DEF new

(* No name that is not overridden is lost (augmentOriginalFile): what an   *)
(* original file declares and the overlay does not is declared after, but  *)
(* for the methods of a purged type and for what is called _.              *)
THEOREM OthersStay ==
    ASSUME NEW overlayFile, IsFile(overlayFile), NEW originalFile, IsFile(originalFile),
           NEW nosync \in BOOLEAN,
           NEW d \in originalFile.decls, NEW k \in Keys(d) \ Overrides(overlayFile.decls),
           k[2] # Blank,
           d.recv = None \/ ~PurgesMethods(overlayFile.decls, d.recv)
    PROVE  LET new == ParseAndAugment(overlayFile, originalFile, nosync)
           IN  \E e \in new.original.decls : k \in Keys(e) /\ e.kind = d.kind
<1> DEFINE overlay == overlayFile.decls
           left == d.names \ Removed(d, overlay)
<1>1. IsDecl(d)
  BY DEF IsFile
<1>2. PICK n \in d.names : k = <<d.recv, n>>
  BY DEF Keys
<1>3. n \in left /\ n # Blank
  BY <1>2 DEF Removed
<1>4. d = [kind |-> d.kind, recv |-> d.recv, names |-> d.names, uses |-> d.uses,
           sig |-> d.sig, dirs |-> d.dirs]
  BY <1>1 DEF IsDecl
<1>5. \E e \in Augment(d, overlay) : k \in Keys(e) /\ e.kind = d.kind
  <2>1. CASE d.kind = "func"
    BY <2>1 DEF Augment, AugmentFunc
  <2>2. CASE d.kind # "func" /\ Removed(d, overlay) = {}
    BY <2>2 DEF Augment, AugmentSpec
  <2>3. CASE d.kind # "func" /\ Removed(d, overlay) # {}
    <3>1. ~AllRemoved(d, overlay)
      BY <1>3 DEF AllRemoved
    <3>2. PICK e : /\ Augment(d, overlay) = {e}
                   /\ \/ e = [d EXCEPT !.names = left, !.uses = [m \in left |-> d.uses[m]]]
                      \/ e = [d EXCEPT !.names = left \cup {Blank}, !.uses =
                                [m \in left \cup {Blank} |-> UNION {d.uses[x] : x \in d.names}]]
      BY <2>3, <3>1 DEF Augment, AugmentSpec
    <3>3. e.kind = d.kind /\ e.recv = d.recv /\ n \in e.names
      <4> HIDE DEF left
      <4> QED
        BY <1>3, <1>4, <3>2
    <3> QED
      BY <1>2, <3>2, <3>3 DEF Keys
  <2> QED
    BY <2>1, <2>2, <2>3
<1> DEFINE new == ParseAndAugment(overlayFile, originalFile, nosync)
<1>6. CASE Overrides(overlay) = {}
  <2>1. new.original.decls = originalFile.decls
    BY <1>6, ResultDecls
  <2> HIDE DEF new
  <2> QED
    BY <2>1 DEF new
<1>7. CASE Overrides(overlay) # {}
  <2>1. new.original.decls = UNION {Augment(x, overlay) : x \in originalFile.decls}
    BY <1>7, ResultDecls
  <2> HIDE DEF new
  <2>2. \E e \in new.original.decls : k \in Keys(e) /\ e.kind = d.kind
    BY <1>5, <2>1
  <2> QED
    BY <2>2 DEF new
<1> QED
  BY <1>6, <1>7

(* Together the two files declare every name once, so what the overlay     *)
(* declares is what the package uses (augmentOverlayFile and               *)
(* augmentOriginalFile), if nothing has the name that an original function *)
(* is kept under and no original function is called _.                     *)
THEOREM NamesDeclaredOnce ==
    ASSUME NEW overlayFile, IsFile(overlayFile), NEW originalFile, IsFile(originalFile),
           NEW nosync \in BOOLEAN,
           PrefixIsFree(overlayFile.decls, originalFile.decls),
           \A m, n : Renamed(m) = Renamed(n) => m = n,
           \A d \in originalFile.decls : d.kind = "func" => Blank \notin d.names
    PROVE  LET new == ParseAndAugment(overlayFile, originalFile, nosync)
           IN  /\ DeclaredOnce(new.original.decls)
               /\ \A o \in new.overlay.decls, e \in new.original.decls : Apart(o, e)
<1> DEFINE new == ParseAndAugment(overlayFile, originalFile, nosync)
           overlay == overlayFile.decls
           original == originalFile.decls
<1>1. /\ DeclaredOnce(overlay) /\ DeclaredOnce(original)
      /\ \A d \in original : IsDecl(d)
  BY DEF IsFile
<1>2. new.overlay.decls = {d \in overlay : ~Purge(d) /\ ~OverrideSignature(d)}
  BY ResultDecls
<1> DEFINE Stays(d, k) == Special(k) \/ k \in Keys(d) \ Overrides(overlay)
           Kept(d, k) == /\ d.kind = "func"
                         /\ \E n \in d.names : k = <<d.recv, Renamed(n)>>
                                               /\ <<d.recv, n>> \in Overrides(overlay)
           Signed(d, k) == k \in Keys(d)
                           /\ \E x \in overlay : OverrideSignature(x) /\ Keys(x) = Keys(d)
<1>3. ASSUME NEW d \in original, NEW r \in Augment(d, overlay), NEW k \in Keys(r)
      PROVE  Stays(d, k) \/ Kept(d, k) \/ Signed(d, k)
  BY <1>1, AugmentKeys DEF Keys
<1>4. ASSUME NEW d \in original, NEW k, Kept(d, k)
      PROVE  k[2] \notin Names(overlay) \cup Names(original)
  BY <1>4 DEF PrefixIsFree, Names
<1>5. ASSUME NEW o \in overlay \cup original, NEW k \in Keys(o)
      PROVE  k[2] \in Names(overlay) \cup Names(original)
  BY DEF Keys, Names
<1>6. ASSUME NEW d \in original, NEW e \in original, d # e,
             NEW r \in Augment(d, overlay), NEW s \in Augment(e, overlay),
             NEW k \in Keys(r) \cap Keys(s)
      PROVE  Special(k)
  <2>1. CASE Kept(d, k) /\ Kept(e, k)
    <3>1. PICK n \in d.names : k = <<d.recv, Renamed(n)>> /\ <<d.recv, n>> \in Overrides(overlay)
      BY <2>1
    <3>2. n \in e.names /\ e.recv = d.recv
      BY <2>1, <3>1
    <3>3. <<d.recv, n>> \in Keys(d) \cap Keys(e)
      BY <3>1, <3>2 DEF Keys
    <3>4. Special(<<d.recv, n>>)
      BY <1>1, <1>6, <3>3 DEF DeclaredOnce, Apart
    <3> QED
      BY <2>1, <3>1, <3>4 DEF Special, Overrides
  <2>2. CASE Kept(d, k) /\ ~Kept(e, k)
    BY <1>3, <1>4, <1>5, <2>2
  <2>3. CASE ~Kept(d, k) /\ Kept(e, k)
    BY <1>3, <1>4, <1>5, <2>3
  <2>4. CASE ~Kept(d, k) /\ ~Kept(e, k)
    <3>1. Special(k) \/ k \in Keys(d) \cap Keys(e)
      BY <1>3, <2>4
    <3> QED
      BY <1>1, <1>6, <3>1 DEF DeclaredOnce, Apart
  <2> QED
    BY <2>1, <2>2, <2>3, <2>4
<1>7. ASSUME NEW o \in new.overlay.decls, NEW d \in original, NEW r \in Augment(d, overlay),
             NEW k \in Keys(o) \cap Keys(r)
      PROVE  Special(k)
  <2>1. o \in overlay /\ ~OverrideSignature(o)
    BY <1>2
  <2>2. k \in Overrides(overlay) \/ Special(k)
    BY <2>1 DEF Overrides, Declared, Special
  <2>3. CASE Stays(d, k)
    BY <2>2, <2>3
  <2>4. CASE Kept(d, k)
    BY <1>4, <1>5, <2>1, <2>4
  <2>5. CASE Signed(d, k)
    BY <1>1, <2>1, <2>5 DEF DeclaredOnce, Apart
  <2> QED
    BY <1>3, <2>3, <2>4, <2>5
<1>8. CASE Overrides(overlay) = {}
  <2>1. new.original.decls = original
    BY <1>8, ResultDecls
  <2>2. \A o \in new.overlay.decls : \A k \in Keys(o) : Special(k)
    BY <1>2, <1>8 DEF Overrides, Declared, Special
  <2> QED
    BY <1>1, <2>1, <2>2 DEF Apart
<1>9. CASE Overrides(overlay) # {}
  <2>1. new.original.decls = UNION {Augment(d, overlay) : d \in original}
    BY <1>9, ResultDecls
  <2> HIDE DEF new
  <2>2. DeclaredOnce(new.original.decls)
    BY <1>6, <2>1, AugmentOne DEF DeclaredOnce, Apart
  <2>3. \A o \in new.overlay.decls, e \in new.original.decls : Apart(o, e)
    BY <1>7, <2>1 DEF Apart
  <2> QED
    BY <2>2, <2>3 DEF new
<1> QED
  BY <1>8, <1>9

-----------------------------------------------------------------------------
(* Maps and sets of instances.                                             *)

(* The keys that maps are asked for, and the maps with values of a set V:  *)
(* elements of a bucket are nil or point to an entry.                      *)
Instances == [object : Objects, nest : Seq(DOMAIN Class), args : Seq(DOMAIN Class)]
Pointers(V) == {{}} \cup {{e} : e \in [key : Instances, value : V]}
Maps(V) == [data : [Objects \X Hashes -> Seq(Pointers(V))], len : Nat]
(* The set of the entry at a place, a bucket and an index in it.           *)
Contents(m, p) == m.data[p[1]][p[2]]

(* A set of numbers that is not empty has a least one: the loop of         *)
(* findIndex stops at the first match.                                     *)
LEMMA LeastOf ==
    ASSUME NEW T, T \subseteq Nat, T # {}
    PROVE  \E x \in T : \A y \in T : x <= y
<1>1. PICK x \in T : \A y \in T : ~ (<<y, x>> \in OpToRel(<, Nat))
  <2>1. IsWellFoundedOn(OpToRel(<, Nat), Nat)
    BY NatLessThanWellFounded, Zenon
  <2> QED
    BY <2>1, WFMin, Zenon
<1>2. \A y \in T : ~ (y < x)
  BY <1>1, Zenon DEF OpToRel
<1> QED
  BY <1>2

(* A set of numbers up to n has a greatest one: the loop of Set ends with  *)
(* the last nil of the bucket.                                             *)
LEMMA GreatestOf ==
    ASSUME NEW n \in Nat, NEW T, T \subseteq 1 .. n, T # {}
    PROVE  \E x \in T : \A y \in T : y <= x
<1> DEFINE D == {n - i : i \in T}
<1>1. D \subseteq Nat /\ D # {}
  <2>1. \A i \in T : n - i \in Nat
    OBVIOUS
  <2>2. PICK i \in T : TRUE
    OBVIOUS
  <2> QED
    BY <2>1, <2>2
<1>2. PICK d \in D : \A e \in D : d <= e
  <2> HIDE DEF D
  <2> QED
    BY <1>1, LeastOf
<1>3. PICK x \in T : d = n - x
  OBVIOUS
<1>4. \A y \in T : d <= n - y
  BY <1>2
<1> QED
  BY <1>3, <1>4

(* Identical lists have the same hash bits: TypeList.Equal and the hasher  *)
(* agree.                                                                  *)
LEMMA HavingAgrees ==
    ASSUME HashOfClass, NEW b, NEW l \in Seq(DOMAIN Class), NEW o \in Seq(DOMAIN Class), Equal(l, o)
    PROVE  Having(b, l) = Having(b, o)
<1>1. \A i \in 1 .. Len(l) : Hash[l[i]] = Hash[o[i]]
  <2> SUFFICES ASSUME NEW i \in 1 .. Len(l) PROVE Hash[l[i]] = Hash[o[i]]
    OBVIOUS
  <2>1. l[i] \in DOMAIN Class /\ o[i] \in DOMAIN Class /\ Class[l[i]] = Class[o[i]]
    BY DEF Equal
  <2> QED
    BY <2>1 DEF HashOfClass
<1> QED
  BY <1>1 DEF Having, Equal

(* Keys that are not told apart are looked for in the same bucket.         *)
LEMMA SameHash ==
    ASSUME HashOfClass, NEW k \in Instances, NEW l \in Instances, Same(k, l)
    PROVE  At(k) = At(l)
<1>1. \A b : Having(b, k.nest) = Having(b, l.nest) /\ Having(b, k.args) = Having(b, l.args)
  BY HavingAgrees DEF Same, Instances
<1> QED
  BY <1>1 DEF At, TypeHash, Same

(* TypeList.Equal compares like an equality.                               *)
LEMMA EqualIs ==
    /\ \A l : Equal(l, l)
    /\ \A l, o : Equal(l, o) => Equal(o, l)
    /\ \A l, o, p : Equal(l, o) /\ Equal(o, p) => Equal(l, p)
  BY DEF Equal

(* So does the comparison of keys.                                         *)
LEMMA SameIs ==
    /\ \A k : Same(k, k)
    /\ \A k, l : Same(k, l) => Same(l, k)
    /\ \A k, l, o : Same(k, l) /\ Same(l, o) => Same(k, o)
  BY EqualIs DEF Same

(* A key has a bucket: typeHash is a hash.                                 *)
LEMMA AtType == ASSUME NEW k \in Instances PROVE At(k) \in Objects \X Hashes
<1>1. \A b : \A l \in Seq(DOMAIN Class) : Cardinality(Having(b, l)) \in Nat
  <2> SUFFICES ASSUME NEW b, NEW l \in Seq(DOMAIN Class) PROVE Cardinality(Having(b, l)) \in Nat
    OBVIOUS
  <2>1. Having(b, l) \subseteq 1 .. Len(l) /\ Len(l) \in Nat
    BY DEF Having
  <2>2. IsFiniteSet(1 .. Len(l))
    BY <2>1, FS_Interval
  <2>3. IsFiniteSet(Having(b, l))
    BY <2>1, <2>2, FS_Subset
  <2> QED
    BY <2>3, FS_CardinalityType
<1>2. \A b : LET n == Cardinality(Having(b, k.nest)) + Cardinality(Having(b, k.args))
             IN  n % 2 \in {0, 1}
  <2> SUFFICES ASSUME NEW b
               PROVE  LET n == Cardinality(Having(b, k.nest)) + Cardinality(Having(b, k.args))
                      IN  n % 2 \in {0, 1}
    OBVIOUS
  <2>1. Cardinality(Having(b, k.nest)) \in Nat /\ Cardinality(Having(b, k.args)) \in Nat
    BY <1>1 DEF Instances
  <2>2. \A n \in Nat : n % 2 \in {0, 1}
    OBVIOUS
  <2> QED
    BY <2>1, <2>2
<1>3. TypeHash(k) \in Hashes
  BY <1>2 DEF TypeHash, Hashes
<1> QED
  BY <1>3 DEF At, Instances

(* The places that Iterate visits, and that there is one entry at each.    *)
LEMMA PlacesOf ==
    ASSUME NEW V, NEW m \in Maps(V)
    PROVE  /\ \A p : p \in Places(m) <=>
                \E at \in Objects \X Hashes : \E i \in 1 .. Len(m.data[at]) :
                    p = <<at, i>> /\ m.data[at][i] # {}
           /\ \A p \in Places(m) : \E e \in [key : Instances, value : V] : Contents(m, p) = {e}
<1>1. DOMAIN m.data = Objects \X Hashes
  BY DEF Maps
<1>2. \A p : p \in Places(m) <=>
                \E at \in Objects \X Hashes : \E i \in 1 .. Len(m.data[at]) :
                    p = <<at, i>> /\ m.data[at][i] # {}
  BY <1>1 DEF Places, Filled
<1>3. ASSUME NEW p \in Places(m) PROVE \E e \in [key : Instances, value : V] : Contents(m, p) = {e}
  <2>a. PICK at \in Objects \X Hashes : \E i \in 1 .. Len(m.data[at]) :
            p = <<at, i>> /\ m.data[at][i] # {}
    BY <1>2
  <2>1. PICK i \in 1 .. Len(m.data[at]) : p = <<at, i>> /\ m.data[at][i] # {}
    BY <2>a
  <2>2. m.data[at] \in Seq(Pointers(V))
    BY DEF Maps
  <2>3. m.data[at][i] \in Pointers(V)
    BY <2>2
  <2>4. Contents(m, p) = m.data[at][i]
    BY <2>1 DEF Contents
  <2> QED
    BY <2>1, <2>3, <2>4 DEF Pointers
<1> QED
  BY <1>2, <1>3

(* Has finds a key wherever the map has an entry for it, and findIndex     *)
(* leads to one: the bucket of the key is the only one to search.          *)
LEMMA Finds ==
    ASSUME NEW V, NEW m \in Maps(V), HashOfClass, WellFormed(m), NEW k \in Instances
    PROVE  /\ Has(m, k) <=> \E p \in Places(m) : \E e \in Contents(m, p) : Same(e.key, k)
           /\ Has(m, k) => LET p == <<At(k), FindIndex(m, k)>> IN
                /\ p \in Places(m) /\ Contents(m, p) = {Found(m, k)}
                /\ Found(m, k) \in [key : Instances, value : V]
                /\ Same(Found(m, k).key, k)
<1> DEFINE bucket == m.data[At(k)]
           found == {i \in 1 .. Len(bucket) : CandidateArgsMatch(k, bucket[i])}
           index == FindIndex(m, k)
<1>1. At(k) \in Objects \X Hashes
  BY AtType
<1>2. bucket \in Seq(Pointers(V)) /\ Len(bucket) \in Nat
  BY <1>1 DEF Maps
<1>3. \A i \in found : /\ <<At(k), i>> \in Places(m)
                      /\ \E e \in Contents(m, <<At(k), i>>) : Same(e.key, k)
  <2> SUFFICES ASSUME NEW i \in found
               PROVE  /\ <<At(k), i>> \in Places(m)
                      /\ \E e \in Contents(m, <<At(k), i>>) : Same(e.key, k)
    OBVIOUS
  <2>1. PICK e \in bucket[i] : Equal(e.key.nest, k.nest) /\ Equal(e.key.args, k.args)
    BY DEF CandidateArgsMatch
  <2>2. <<At(k), i>> \in Places(m)
    BY <1>1, <2>1, PlacesOf
  <2>3. Contents(m, <<At(k), i>>) = bucket[i]
    BY DEF Contents
  <2>4. At(e.key) = At(k)
    BY <2>1, <2>2 DEF WellFormed
  <2>5. e.key.object = k.object
    BY <2>4 DEF At
  <2> QED
    BY <2>1, <2>2, <2>3, <2>5 DEF Same
<1>4. found = {} => index = 0
  BY DEF FindIndex
<1>5. found # {} => index \in found
  <2> SUFFICES ASSUME found # {} PROVE index \in found
    OBVIOUS
  <2>1. found \subseteq Nat
    BY <1>2
  <2>2. \E i \in found : \A j \in found : i <= j
    <3> DEFINE S == found
    <3>1. S \subseteq Nat /\ S # {}
      BY <2>1
    <3> HIDE DEF S
    <3>2. \E i \in S : \A j \in S : i <= j
      BY <3>1, LeastOf
    <3> QED
      BY <3>2 DEF S
  <2> QED
    BY <2>2 DEF FindIndex
<1>6. Has(m, k) <=> found # {}
  BY <1>2, <1>4, <1>5 DEF Has
<1>7. Has(m, k) => /\ <<At(k), index>> \in Places(m)
                   /\ \E e \in Contents(m, <<At(k), index>>) : Same(e.key, k)
  BY <1>3, <1>5, <1>6
<1>8. ASSUME NEW p \in Places(m), NEW e \in Contents(m, p), Same(e.key, k) PROVE Has(m, k)
  <2>a. PICK at \in Objects \X Hashes : \E i \in 1 .. Len(m.data[at]) :
            p = <<at, i>> /\ m.data[at][i] # {}
    BY PlacesOf
  <2>1. PICK i \in 1 .. Len(m.data[at]) : p = <<at, i>> /\ m.data[at][i] # {}
    BY <2>a
  <2>2. e.key \in Instances
    BY PlacesOf
  <2>3. At(e.key) = at
    BY <2>1 DEF WellFormed, Contents
  <2>4. at = At(k)
    BY <1>8, <2>2, <2>3, SameHash
  <2>5. e \in bucket[i] /\ i \in 1 .. Len(bucket)
    BY <2>1, <2>4 DEF Contents
  <2>6. i \in found
    BY <1>8, <2>5 DEF CandidateArgsMatch, Same
  <2> QED
    BY <2>6, <1>6
<1>9. Has(m, k) => LET p == <<At(k), index>> IN
                /\ p \in Places(m) /\ Contents(m, p) = {Found(m, k)}
                /\ Found(m, k) \in [key : Instances, value : V]
                /\ Same(Found(m, k).key, k)
  <2> SUFFICES ASSUME Has(m, k)
               PROVE  LET p == <<At(k), index>> IN
                /\ p \in Places(m) /\ Contents(m, p) = {Found(m, k)}
                /\ Found(m, k) \in [key : Instances, value : V]
                /\ Same(Found(m, k).key, k)
    OBVIOUS
  <2>1. <<At(k), index>> \in Places(m)
    BY <1>7
  <2>2. PICK e \in [key : Instances, value : V] : Contents(m, <<At(k), index>>) = {e}
    BY <2>1, PlacesOf
  <2>3. Found(m, k) = e
    BY <2>2 DEF Found, Contents
  <2> QED
    BY <1>7, <2>1, <2>2, <2>3
<1> QED
  BY <1>7, <1>8, <1>9

(* Bucket b is old with another element i, which may be new.               *)
OnlyAt(old, i, b) ==
    /\ \A j \in 1 .. Len(b) : j # i => j \in 1 .. Len(old) /\ b[j] = old[j]
    /\ \A j \in 1 .. Len(old) : j \in 1 .. Len(b)

(* Map new is m with bucket b at a place r = <<at, i>>, and length n.      *)
WrittenAt(V, m, r, at, b, i, n, new) ==
    /\ r = <<at, i>> /\ m \in Maps(V) /\ at \in Objects \X Hashes /\ b \in Seq(Pointers(V))
    /\ i \in 1 .. Len(b) /\ OnlyAt(m.data[at], i, b)
    /\ n \in Nat /\ new = [data |-> [m.data EXCEPT ![at] = b], len |-> n]

(* Writing one element of a bucket leaves the other places alone.          *)
LEMMA Written ==
    \A V, m, r, at, b, i, n, new : WrittenAt(V, m, r, at, b, i, n, new) =>
        /\ new \in Maps(V)
        /\ Places(new) = (Places(m) \ {r}) \cup (IF b[i] = {} THEN {} ELSE {r})
        /\ \A p \in Places(new) : p # r => Contents(new, p) = Contents(m, p)
        /\ Contents(new, r) = b[i]
<1> SUFFICES ASSUME NEW V, NEW m, NEW r, NEW at, NEW b, NEW i, NEW n, NEW new,
                    WrittenAt(V, m, r, at, b, i, n, new)
             PROVE  /\ new \in Maps(V)
                    /\ Places(new) = (Places(m) \ {r})
                                         \cup (IF b[i] = {} THEN {} ELSE {r})
                    /\ \A p \in Places(new) : p # r => Contents(new, p) = Contents(m, p)
                    /\ Contents(new, r) = b[i]
  OBVIOUS
<1>0. /\ r = <<at, i>> /\ m \in Maps(V) /\ at \in Objects \X Hashes /\ b \in Seq(Pointers(V))
      /\ i \in 1 .. Len(b) /\ OnlyAt(m.data[at], i, b)
  BY DEF WrittenAt
<1>1. /\ new.data[at] = b
      /\ \A other \in Objects \X Hashes : other # at => new.data[other] = m.data[other]
  BY DEF Maps, WrittenAt
<1>2. new \in Maps(V)
  BY DEF Maps, WrittenAt
<1>p. \A p : p \in Places(new) <=>
          \E o \in Objects \X Hashes : \E j \in 1 .. Len(new.data[o]) :
              p = <<o, j>> /\ new.data[o][j] # {}
  <2> DEFINE w == new
  <2>1. w \in Maps(V)
    BY <1>2
  <2> HIDE DEF w
  <2>2. \A p : p \in Places(w) <=>
            \E o \in Objects \X Hashes : \E j \in 1 .. Len(w.data[o]) :
                p = <<o, j>> /\ w.data[o][j] # {}
    BY <2>1, PlacesOf
  <2> QED
    BY <2>2 DEF w
<1>3. ASSUME NEW p \in Places(m), p # r PROVE p \in Places(new)
  <2>1. PICK o \in Objects \X Hashes : \E j \in 1 .. Len(m.data[o]) :
            p = <<o, j>> /\ m.data[o][j] # {}
    <3>1. m \in Maps(V) /\ p \in Places(m)
      BY <1>0, <1>3
    <3> HIDE <1>0
    <3> QED
      BY <3>1, PlacesOf
  <2>2. PICK j \in 1 .. Len(m.data[o]) : p = <<o, j>> /\ m.data[o][j] # {}
    BY <2>1
  <2>3. j \in 1 .. Len(new.data[o]) /\ new.data[o][j] = m.data[o][j]
    BY <1>0, <1>1, <1>3, <2>2 DEF OnlyAt
  <2> QED
    BY <1>p, <2>2, <2>3
<1>4. ASSUME NEW p \in Places(new), p # r
      PROVE  p \in Places(m) /\ Contents(new, p) = Contents(m, p)
  <2>1. PICK o \in Objects \X Hashes : \E j \in 1 .. Len(new.data[o]) :
            p = <<o, j>> /\ new.data[o][j] # {}
    BY <1>4, <1>p
  <2>2. PICK j \in 1 .. Len(new.data[o]) : p = <<o, j>> /\ new.data[o][j] # {}
    BY <2>1
  <2>3. j \in 1 .. Len(m.data[o]) /\ new.data[o][j] = m.data[o][j]
    BY <1>0, <1>1, <1>4, <2>2 DEF OnlyAt
  <2>4. p \in Places(m)
    BY <1>0, <2>2, <2>3, PlacesOf
  <2> QED
    BY <2>2, <2>3, <2>4 DEF Contents
<1>5. Contents(new, r) = b[i]
  BY <1>0, <1>1 DEF Contents
<1>6. r \in Places(new) <=> b[i] # {}
  <2>1. ASSUME r \in Places(new) PROVE b[i] # {}
    <3>1. PICK o \in Objects \X Hashes : \E j \in 1 .. Len(new.data[o]) :
              r = <<o, j>> /\ new.data[o][j] # {}
      BY <1>p, <2>1
    <3> QED
      BY <1>0, <1>1, <3>1
  <2>2. ASSUME b[i] # {} PROVE r \in Places(new)
    <3>1. i \in 1 .. Len(new.data[at]) /\ new.data[at][i] # {}
      BY <1>0, <1>1, <2>2
    <3> QED
      BY <1>0, <1>p, <3>1
  <2> QED
    BY <2>1, <2>2
<1>7. Places(new) = (Places(m) \ {r}) \cup (IF b[i] = {} THEN {} ELSE {r})
  BY <1>3, <1>4, <1>6
<1> QED
  BY <1>2, <1>4, <1>5, <1>7

(* Get returns the value of the entry that has the key.                    *)
LEMMA GetIs ==
    ASSUME NEW V, NEW m \in Maps(V), HashOfClass, WellFormed(m), NEW k \in Instances,
           NEW p \in Places(m), NEW e \in Contents(m, p), Same(e.key, k)
    PROVE  Has(m, k) /\ Get(m, k) = e.value
<1>1. Has(m, k)
  BY Finds
<1> DEFINE q == <<At(k), FindIndex(m, k)>>
           f == Found(m, k)
<1>2. q \in Places(m) /\ Contents(m, q) = {f} /\ Same(f.key, k)
  BY <1>1, Finds
<1>3. Same(e.key, f.key)
  BY <1>2, SameIs
<1>4. p = q
  BY <1>2, <1>3 DEF WellFormed, Contents
<1>5. e = f
  BY <1>2, <1>4
<1> QED
  BY <1>1, <1>5 DEF Get

(* A map that differs from another at one place, where there are at most   *)
(* entries of key k, answers the same for keys other than k.               *)
LEMMA OthersAnswer ==
    ASSUME NEW V, NEW m \in Maps(V), NEW new \in Maps(V), HashOfClass,
           WellFormed(m), WellFormed(new), NEW k \in Instances, NEW place,
           \A p : p # place => (p \in Places(m) <=> p \in Places(new)),
           \A p \in Places(new) : p # place => Contents(new, p) = Contents(m, p),
           place \in Places(m) => \A e \in Contents(m, place) : Same(e.key, k),
           place \in Places(new) => \A e \in Contents(new, place) : Same(e.key, k),
           NEW l \in Instances, ~Same(k, l)
    PROVE  (Has(new, l) <=> Has(m, l)) /\ Get(new, l) = Get(m, l)
<1>1. ASSUME NEW p \in Places(m), NEW e \in Contents(m, p), Same(e.key, l)
      PROVE  p \in Places(new) /\ Contents(new, p) = Contents(m, p)
  <2>1. p # place
    BY <1>1, SameIs
  <2> QED
    BY <2>1
<1>2. ASSUME NEW p \in Places(new), NEW e \in Contents(new, p), Same(e.key, l)
      PROVE  p \in Places(m) /\ Contents(new, p) = Contents(m, p)
  <2>1. p # place
    BY <1>2, SameIs
  <2> QED
    BY <2>1
<1>3. Has(new, l) <=> Has(m, l)
  <2>1. Has(m, l) <=> \E p \in Places(m) : \E e \in Contents(m, p) : Same(e.key, l)
    BY Finds
  <2>2. Has(new, l) <=> \E p \in Places(new) : \E e \in Contents(new, p) : Same(e.key, l)
    BY Finds
  <2> QED
    BY <1>1, <1>2, <2>1, <2>2
<1>4. ASSUME Has(m, l) PROVE Get(new, l) = Get(m, l)
  <2> DEFINE q == <<At(l), FindIndex(m, l)>>
  <2>1. q \in Places(m) /\ Contents(m, q) = {Found(m, l)} /\ Same(Found(m, l).key, l)
    BY <1>4, Finds
  <2>2. q \in Places(new) /\ Found(m, l) \in Contents(new, q)
    BY <1>1, <2>1
  <2>3. Get(new, l) = Found(m, l).value
    BY <2>1, <2>2, GetIs
  <2> QED
    BY <1>4, <2>3 DEF Get
<1> QED
  BY <1>3, <1>4 DEF Get

(* Writing P over the element that findIndex leads to.                     *)
LEMMA ReplacedAt ==
    ASSUME NEW V, NEW m \in Maps(V), HashOfClass, WellFormed(m),
           NEW k \in Instances, Has(m, k), NEW P \in Pointers(V), NEW n \in Nat,
           NEW place, place = <<At(k), FindIndex(m, k)>>,
           NEW new,
           new = [data |-> [m.data EXCEPT ![At(k)] = [m.data[At(k)] EXCEPT ![FindIndex(m, k)] = P]],
                  len |-> n]
    PROVE  /\ new \in Maps(V) /\ new.len = n
           /\ Places(new) = (Places(m) \ {place}) \cup (IF P = {} THEN {} ELSE {place})
           /\ \A p \in Places(new) : p # place => Contents(new, p) = Contents(m, p)
           /\ place \in Places(m) /\ Contents(m, place) = {Found(m, k)}
           /\ Contents(new, place) = P
           /\ Found(m, k) \in [key : Instances, value : V] /\ Same(Found(m, k).key, k)
<1>at. PICK at : at = At(k)
  OBVIOUS
<1>i. PICK i : i = FindIndex(m, k)
  OBVIOUS
<1>b. PICK b : b = [m.data[at] EXCEPT ![i] = P]
  OBVIOUS
<1>0. at = At(k) /\ i = FindIndex(m, k) /\ b = [m.data[at] EXCEPT ![i] = P]
  BY <1>at, <1>i, <1>b
<1>1. /\ place = <<at, i>> /\ place \in Places(m) /\ Contents(m, place) = {Found(m, k)}
      /\ Found(m, k) \in [key : Instances, value : V] /\ Same(Found(m, k).key, k)
  BY <1>0, Finds
<1>2. at \in Objects \X Hashes
  BY <1>0, AtType
<1>3. m.data[at] \in Seq(Pointers(V))
  BY <1>2 DEF Maps
<1>4. i \in 1 .. Len(m.data[at])
  <2>1. \A o, j : <<o, j>> = place => o = at /\ j = i
    BY <1>0
  <2> QED
    BY <1>0, <1>1, <2>1, PlacesOf
<1>5. /\ b \in Seq(Pointers(V)) /\ Len(b) = Len(m.data[at]) /\ b[i] = P
      /\ \A j \in 1 .. Len(b) : j # i => b[j] = m.data[at][j]
  BY <1>0, <1>3, <1>4
<1>6. new = [data |-> [m.data EXCEPT ![at] = b], len |-> n]
  BY <1>0
<1>7. OnlyAt(m.data[at], i, b)
  BY <1>5 DEF OnlyAt
<1>8. WrittenAt(V, m, place, at, b, i, n, new)
  BY <1>1, <1>2, <1>4, <1>5, <1>6, <1>7 DEF WrittenAt
<1>9. /\ new \in Maps(V)
      /\ Places(new) = (Places(m) \ {place}) \cup (IF b[i] = {} THEN {} ELSE {place})
      /\ \A p \in Places(new) : p # place => Contents(new, p) = Contents(m, p)
      /\ Contents(new, place) = b[i]
  BY <1>8, Written
<1>10. new.len = n
  BY <1>6
<1> QED
  BY <1>1, <1>5, <1>9, <1>10

(* The first branch of Set: the entry keeps its key and its place.         *)
LEMMA Overridden ==
    ASSUME NEW V, NEW m \in Maps(V), HashOfClass, WellFormed(m),
           NEW k \in Instances, NEW v \in V, Has(m, k),
           NEW new, new = Override(m, k, v),
           NEW place, place = <<At(k), FindIndex(m, k)>>,
           NEW e, e = Entry(Found(m, k).key, v)
    PROVE  /\ new \in Maps(V) /\ new.len = m.len
           /\ Places(new) = Places(m) /\ place \in Places(m)
           /\ \A p \in Places(new) : p # place => Contents(new, p) = Contents(m, p)
           /\ Contents(m, place) = {Found(m, k)} /\ Contents(new, place) = {e}
           /\ Same(Found(m, k).key, k) /\ e.key = Found(m, k).key /\ e.value = v
           /\ Found(m, k).key \in Instances
<1>1. Found(m, k) \in [key : Instances, value : V]
  BY Finds
<1>2. PICK P : P = {e}
  OBVIOUS
<1>3. P \in Pointers(V) /\ P # {}
  BY <1>1, <1>2 DEF Pointers, Entry
<1>4. m = [data |-> m.data, len |-> m.len] /\ m.len \in Nat
  BY DEF Maps
<1>5. new = [data |-> [m.data EXCEPT ![At(k)] = [m.data[At(k)] EXCEPT ![FindIndex(m, k)] = P]],
             len |-> m.len]
  <2> DEFINE d == m.data
             n == m.len
  <2>1. new = [[data |-> d, len |-> n]
                   EXCEPT !.data = [d EXCEPT ![At(k)] = [d[At(k)] EXCEPT ![FindIndex(m, k)] = P]]]
    BY <1>2, <1>4 DEF Override
  <2> QED
    BY <2>1
<1>6. /\ new \in Maps(V) /\ new.len = m.len
      /\ Places(new) = (Places(m) \ {place}) \cup (IF P = {} THEN {} ELSE {place})
      /\ \A p \in Places(new) : p # place => Contents(new, p) = Contents(m, p)
      /\ place \in Places(m) /\ Contents(m, place) = {Found(m, k)}
      /\ Contents(new, place) = P /\ Same(Found(m, k).key, k)
  <2>1. PICK n : n = m.len
    OBVIOUS
  <2>2. n \in Nat
    BY <1>4, <2>1
  <2>3. new = [data |-> [m.data EXCEPT ![At(k)] = [m.data[At(k)] EXCEPT ![FindIndex(m, k)] = P]],
               len |-> n]
    BY <1>5, <2>1
  <2>4. /\ new \in Maps(V) /\ new.len = n
        /\ Places(new) = (Places(m) \ {place}) \cup (IF P = {} THEN {} ELSE {place})
        /\ \A p \in Places(new) : p # place => Contents(new, p) = Contents(m, p)
        /\ place \in Places(m) /\ Contents(m, place) = {Found(m, k)}
        /\ Contents(new, place) = P /\ Same(Found(m, k).key, k)
    BY <1>3, <2>2, <2>3, ReplacedAt
  <2> QED
    BY <2>1, <2>4
<1>7. e.key = Found(m, k).key /\ e.value = v /\ Found(m, k).key \in Instances
  BY <1>1 DEF Entry
<1>8. Places(new) = Places(m)
  BY <1>3, <1>6
<1> QED
  BY <1>2, <1>6, <1>7, <1>8

(* Delete of a key that is there: its place is empty, len is one less.     *)
LEMMA Deleted ==
    ASSUME NEW V, NEW m \in Maps(V), HashOfClass, WellFormed(m), NEW k \in Instances, Has(m, k),
           NEW new, new = Delete(m, k), NEW place, place = <<At(k), FindIndex(m, k)>>
    PROVE  /\ new \in Maps(V) /\ new.len = m.len - 1
           /\ Places(new) = Places(m) \ {place} /\ place \in Places(m)
           /\ \A p \in Places(new) : Contents(new, p) = Contents(m, p)
           /\ Contents(m, place) = {Found(m, k)} /\ Same(Found(m, k).key, k)
           /\ Found(m, k).key \in Instances
<1>1. place \in Places(m) /\ Found(m, k).key \in Instances
  BY Finds
<1>2. m = [data |-> m.data, len |-> m.len] /\ m.len \in Nat
  BY DEF Maps
<1>3. m.len - 1 \in Nat
  <2>1. m.len = Cardinality(Places(m)) /\ IsFiniteSet(Places(m))
    BY DEF WellFormed
  <2>2. m.len # 0
    BY <1>1, <2>1, FS_EmptySet
  <2> QED
    BY <1>2, <2>2
<1>4. PICK P : P = {}
  OBVIOUS
<1>5. P \in Pointers(V)
  BY <1>4 DEF Pointers
<1>6. PICK n : n = m.len - 1
  OBVIOUS
<1>7. new = [data |-> [m.data EXCEPT ![At(k)] = [m.data[At(k)] EXCEPT ![FindIndex(m, k)] = P]],
             len |-> n]
  <2> DEFINE d == m.data
             l == m.len
  <2>1. new = [[data |-> d, len |-> l]
                   EXCEPT !.data = [d EXCEPT ![At(k)] = [d[At(k)] EXCEPT ![FindIndex(m, k)] = P]],
                          !.len = n]
    BY <1>2, <1>4, <1>6 DEF Delete
  <2> QED
    BY <2>1
<1>8. n \in Nat
  BY <1>3, <1>6
<1>9. /\ new \in Maps(V) /\ new.len = n
      /\ Places(new) = (Places(m) \ {place}) \cup (IF P = {} THEN {} ELSE {place})
      /\ \A p \in Places(new) : p # place => Contents(new, p) = Contents(m, p)
      /\ Contents(m, place) = {Found(m, k)} /\ Same(Found(m, k).key, k)
  BY <1>5, <1>7, <1>8, ReplacedAt
<1>10. Places(new) = Places(m) \ {place}
  BY <1>4, <1>9
<1> QED
  BY <1>1, <1>6, <1>9, <1>10

(* The second branch of Set: a place that was empty, a nil of the bucket   *)
(* or the end of it, gets the entry.                                       *)
LEMMA Inserted ==
    ASSUME NEW V, NEW m \in Maps(V), NEW k \in Instances, NEW v \in V,
           NEW new, new = Insert(m, k, v)
    PROVE  \E place :
               /\ place[1] = At(k) /\ place \notin Places(m)
               /\ new \in Maps(V) /\ new.len = m.len + 1
               /\ Places(new) = Places(m) \cup {place}
               /\ \A p \in Places(m) : Contents(new, p) = Contents(m, p)
               /\ Contents(new, place) = {Entry(k, v)}
<1>at. PICK at : at = At(k)
  OBVIOUS
<1>1. at \in Objects \X Hashes
  BY <1>at, AtType
<1>old. PICK old : old = m.data[at]
  OBVIOUS
<1>2. old \in Seq(Pointers(V)) /\ Len(old) \in Nat
  BY <1>1, <1>old DEF Maps
<1>e. PICK e : e = {Entry(k, v)}
  OBVIOUS
<1>3. e \in Pointers(V) /\ e # {}
  BY <1>e DEF Pointers, Entry
<1>b. PICK b : b = WithEntry(old, Entry(k, v))
  OBVIOUS
<1>4. \E i \in 1 .. Len(b) :
          /\ b \in Seq(Pointers(V)) /\ b[i] = e /\ OnlyAt(old, i, b)
          /\ i \in 1 .. Len(old) => old[i] = {}
  <2>1. CASE Holes(old) = {}
    <3>1. b = Append(old, e)
      BY <1>b, <1>e, <2>1 DEF WithEntry
    <3>2. b \in Seq(Pointers(V)) /\ Len(b) = Len(old) + 1 /\ b[Len(old) + 1] = e
      BY <1>2, <1>3, <3>1
    <3>3. \A j \in 1 .. Len(old) : b[j] = old[j]
      BY <1>2, <1>3, <3>1
    <3>4. Len(old) + 1 \in 1 .. Len(b) /\ Len(old) + 1 \notin 1 .. Len(old)
      BY <1>2, <3>2
    <3>5. OnlyAt(old, Len(old) + 1, b)
      BY <1>2, <3>2, <3>3 DEF OnlyAt
    <3> QED
      BY <3>2, <3>4, <3>5
  <2>2. CASE Holes(old) # {}
    <3>1. PICK i : i = LastHole(old)
      OBVIOUS
    <3>2. Holes(old) \subseteq 1 .. Len(old)
      BY DEF Holes
    <3>3. \E x \in Holes(old) : \A y \in Holes(old) : y <= x
      BY <1>2, <2>2, <3>2, GreatestOf
    <3>4. i \in Holes(old)
      BY <3>1, <3>3 DEF LastHole
    <3>5. i \in 1 .. Len(old) /\ old[i] = {}
      BY <3>4 DEF Holes
    <3>6. b = [old EXCEPT ![i] = e]
      BY <1>b, <1>e, <2>2, <3>1 DEF WithEntry
    <3>7. b \in Seq(Pointers(V)) /\ Len(b) = Len(old) /\ b[i] = e
      BY <1>2, <1>3, <3>5, <3>6
    <3>8. \A j \in 1 .. Len(old) : j # i => b[j] = old[j]
      BY <1>2, <3>6
    <3>9. OnlyAt(old, i, b)
      BY <3>7, <3>8 DEF OnlyAt
    <3> QED
      BY <3>5, <3>7, <3>9
  <2> QED
    BY <2>1, <2>2
<1>5. PICK i \in 1 .. Len(b) :
          /\ b \in Seq(Pointers(V)) /\ b[i] = e /\ OnlyAt(old, i, b)
          /\ i \in 1 .. Len(old) => old[i] = {}
  BY <1>4
<1>6. m = [data |-> m.data, len |-> m.len] /\ m.len \in Nat
  BY DEF Maps
<1>n. PICK n : n = m.len + 1
  OBVIOUS
<1>7. n \in Nat
  BY <1>6, <1>n
<1>8. new = [data |-> [m.data EXCEPT ![at] = b], len |-> n]
  <2> DEFINE d == m.data
             l == m.len
  <2>1. new = [[data |-> d, len |-> l] EXCEPT !.data = [d EXCEPT ![at] = b], !.len = n]
    BY <1>6, <1>at, <1>old, <1>b, <1>n DEF Insert
  <2> QED
    BY <2>1
<1>place. PICK place : place = <<at, i>>
  OBVIOUS
<1>9. WrittenAt(V, m, place, at, b, i, n, new)
  BY <1>1, <1>old, <1>5, <1>7, <1>8, <1>place DEF WrittenAt
<1>10. /\ new \in Maps(V)
       /\ Places(new) = (Places(m) \ {place}) \cup (IF b[i] = {} THEN {} ELSE {place})
       /\ \A p \in Places(new) : p # place => Contents(new, p) = Contents(m, p)
       /\ Contents(new, place) = b[i]
  BY <1>9, Written
<1>11. place \notin Places(m)
  <2> SUFFICES ASSUME place \in Places(m) PROVE FALSE
    OBVIOUS
  <2>1. PICK o \in Objects \X Hashes : \E j \in 1 .. Len(m.data[o]) :
            place = <<o, j>> /\ m.data[o][j] # {}
    BY PlacesOf
  <2>2. i \in 1 .. Len(old) /\ old[i] # {}
    BY <1>old, <1>place, <2>1
  <2> QED
    BY <1>5, <2>2
<1>12. Places(new) = Places(m) \cup {place}
  BY <1>3, <1>5, <1>10, <1>11
<1>13. \A p \in Places(m) : Contents(new, p) = Contents(m, p)
  BY <1>10, <1>11, <1>12
<1>14. place[1] = At(k) /\ Contents(new, place) = {Entry(k, v)} /\ new.len = m.len + 1
  BY <1>at, <1>place, <1>e, <1>5, <1>10, <1>8, <1>n
<1> QED
  BY <1>10, <1>11, <1>12, <1>13, <1>14

(* InstanceMap.Set: afterwards the key and those identical to it, and no   *)
(* others, are found with the value, whatever collides with them and       *)
(* whatever was deleted before; len counts the keys.                       *)
THEOREM SetUpdates ==
    ASSUME NEW V, NEW m \in Maps(V), HashOfClass, WellFormed(m),
           NEW k \in Instances, NEW v \in V, NEW new, new = Set(m, k, v)
    PROVE  /\ new \in Maps(V) /\ WellFormed(new)
           /\ new.len = IF Has(m, k) THEN m.len ELSE m.len + 1
           /\ \A l \in Instances :
                  /\ Has(new, l) <=> Same(k, l) \/ Has(m, l)
                  /\ Get(new, l) = IF Same(k, l) THEN v ELSE Get(m, l)
<1>1. CASE Has(m, k)
  <2>1. new = Override(m, k, v)
    BY <1>1 DEF Set
  <2>2. PICK place : place = <<At(k), FindIndex(m, k)>>
    OBVIOUS
  <2>3. PICK f : f = Found(m, k)
    OBVIOUS
  <2>4. PICK e : e = Entry(f.key, v)
    OBVIOUS
  <2>5. /\ new \in Maps(V) /\ new.len = m.len
        /\ Places(new) = Places(m) /\ place \in Places(m)
        /\ \A p \in Places(new) : p # place => Contents(new, p) = Contents(m, p)
        /\ Contents(m, place) = {f} /\ Contents(new, place) = {e}
        /\ Same(f.key, k) /\ e.key = f.key /\ e.value = v /\ f.key \in Instances
    BY <1>1, <2>1, <2>2, <2>3, <2>4, Overridden
  <2>6. \A p \in Places(new) : \A x \in Contents(new, p) :
            \E y \in Contents(m, p) : x.key = y.key
    BY <2>5
  <2>7. WellFormed(new)
    BY <2>5, <2>6 DEF WellFormed, Contents
  <2>8. ASSUME NEW l \in Instances, Same(k, l) PROVE Has(new, l) /\ Get(new, l) = v
    <3>1. Same(e.key, l) /\ e \in Contents(new, place) /\ place \in Places(new)
      BY <2>5, <2>8, SameIs
    <3> QED
      BY <2>5, <2>7, <3>1, GetIs
  <2>9. ASSUME NEW l \in Instances, ~Same(k, l)
        PROVE  (Has(new, l) <=> Has(m, l)) /\ Get(new, l) = Get(m, l)
    <3>1. \A x \in Contents(m, place) : Same(x.key, k)
      BY <2>5
    <3>2. \A x \in Contents(new, place) : Same(x.key, k)
      BY <2>5
    <3> QED
      BY <2>5, <2>7, <2>9, <3>1, <3>2, OthersAnswer
  <2> QED
    BY <1>1, <2>5, <2>7, <2>8, <2>9
<1>2. CASE ~Has(m, k)
  <2>1. new = Insert(m, k, v)
    BY <1>2 DEF Set
  <2>2. PICK place :
            /\ place[1] = At(k) /\ place \notin Places(m)
            /\ new \in Maps(V) /\ new.len = m.len + 1
            /\ Places(new) = Places(m) \cup {place}
            /\ \A p \in Places(m) : Contents(new, p) = Contents(m, p)
            /\ Contents(new, place) = {Entry(k, v)}
    BY <2>1, Inserted
  <2>3. PICK e : e = Entry(k, v)
    OBVIOUS
  <2>4. e.key = k /\ e.value = v /\ Contents(new, place) = {e}
    BY <2>2, <2>3 DEF Entry
  <2>5. \A p \in Places(m) : \A f \in Contents(m, p) : ~Same(f.key, k)
    BY <1>2, Finds
  <2>6. \A p \in Places(new) : \A x \in Contents(new, p) : At(x.key) = p[1]
    BY <2>2, <2>4 DEF WellFormed, Contents
  <2>7. \A p, q \in Places(new) : p # q =>
            \A x \in Contents(new, p), y \in Contents(new, q) : ~Same(x.key, y.key)
    <3> SUFFICES ASSUME NEW p \in Places(new), NEW q \in Places(new), p # q,
                        NEW x \in Contents(new, p), NEW y \in Contents(new, q)
                 PROVE  ~Same(x.key, y.key)
      OBVIOUS
    <3>1. CASE p = place
      <4>1. q \in Places(m) /\ y \in Contents(m, q) /\ x = e
        BY <2>2, <2>4, <3>1
      <4> QED
        BY <2>4, <2>5, <4>1, SameIs
    <3>2. CASE q = place
      <4>1. p \in Places(m) /\ x \in Contents(m, p) /\ y = e
        BY <2>2, <2>4, <3>2
      <4> QED
        BY <2>4, <2>5, <4>1, SameIs
    <3>3. CASE p # place /\ q # place
      <4>1. p \in Places(m) /\ q \in Places(m) /\ x \in Contents(m, p) /\ y \in Contents(m, q)
        BY <2>2, <3>3
      <4> QED
        BY <4>1 DEF WellFormed, Contents
    <3> QED
      BY <3>1, <3>2, <3>3
  <2>8. IsFiniteSet(Places(new)) /\ new.len = Cardinality(Places(new))
    BY <2>2, FS_AddElement DEF WellFormed
  <2>9. WellFormed(new)
    BY <2>6, <2>7, <2>8 DEF WellFormed, Contents
  <2>10. ASSUME NEW l \in Instances, Same(k, l) PROVE Has(new, l) /\ Get(new, l) = v
    <3>1. Same(e.key, l) /\ e \in Contents(new, place) /\ place \in Places(new)
      BY <2>2, <2>4, <2>10
    <3> QED
      BY <2>2, <2>4, <2>9, <3>1, GetIs
  <2>11. ASSUME NEW l \in Instances, ~Same(k, l)
         PROVE  (Has(new, l) <=> Has(m, l)) /\ Get(new, l) = Get(m, l)
    <3>1. \A x \in Contents(new, place) : Same(x.key, k)
      BY <2>4, SameIs
    <3>2. \A p : p # place => (p \in Places(m) <=> p \in Places(new))
      BY <2>2
    <3>3. \A p \in Places(new) : p # place => Contents(new, p) = Contents(m, p)
      BY <2>2
    <3> QED
      BY <2>2, <2>9, <2>11, <3>1, <3>2, <3>3, OthersAnswer
  <2> QED
    BY <1>2, <2>2, <2>9, <2>10, <2>11
<1> QED
  BY <1>1, <1>2

(* InstanceMap.Delete: afterwards the key and those identical to it, and   *)
(* no others, are gone: the nil it leaves hides nothing behind it.         *)
THEOREM DeleteRemoves ==
    ASSUME NEW V, NEW m \in Maps(V), HashOfClass, WellFormed(m),
           NEW k \in Instances, NEW new, new = Delete(m, k)
    PROVE  /\ new \in Maps(V) /\ WellFormed(new)
           /\ \A l \in Instances :
                  /\ Has(new, l) <=> ~Same(k, l) /\ Has(m, l)
                  /\ Get(new, l) = IF Same(k, l) THEN ZeroValue ELSE Get(m, l)
<1>1. CASE Has(m, k)
  <2>1. PICK place : place = <<At(k), FindIndex(m, k)>>
    OBVIOUS
  <2>2. PICK f : f = Found(m, k)
    OBVIOUS
  <2>3. /\ new \in Maps(V) /\ new.len = m.len - 1
        /\ Places(new) = Places(m) \ {place} /\ place \in Places(m)
        /\ \A p \in Places(new) : Contents(new, p) = Contents(m, p)
        /\ Contents(m, place) = {f} /\ Same(f.key, k) /\ f.key \in Instances
    BY <1>1, <2>1, <2>2, Deleted
  <2>4. IsFiniteSet(Places(new)) /\ new.len = Cardinality(Places(new))
    BY <2>3, FS_RemoveElement DEF WellFormed
  <2>5. WellFormed(new)
    BY <2>3, <2>4 DEF WellFormed, Contents
  <2>6. ASSUME NEW l \in Instances, Same(k, l) PROVE ~Has(new, l)
    <3> SUFFICES ASSUME Has(new, l) PROVE FALSE
      OBVIOUS
    <3>1. PICK p \in Places(new) : \E e \in Contents(new, p) : Same(e.key, l)
      BY <2>3, <2>5, Finds
    <3>2. PICK e \in Contents(new, p) : Same(e.key, l)
      BY <3>1
    <3>3. p \in Places(m) /\ p # place /\ e \in Contents(m, p)
      BY <2>3, <3>2
    <3>4. Same(e.key, f.key)
      BY <2>3, <2>6, <3>2, SameIs
    <3> QED
      BY <2>3, <3>3, <3>4 DEF WellFormed, Contents
  <2>7. ASSUME NEW l \in Instances, ~Same(k, l)
        PROVE  (Has(new, l) <=> Has(m, l)) /\ Get(new, l) = Get(m, l)
    <3>1. \A x \in Contents(m, place) : Same(x.key, k)
      BY <2>3
    <3>2. \A p : p # place => (p \in Places(m) <=> p \in Places(new))
      BY <2>3
    <3>3. place \notin Places(new)
      BY <2>3
    <3> QED
      BY <2>3, <2>5, <2>7, <3>1, <3>2, <3>3, OthersAnswer
  <2> QED
    BY <2>3, <2>5, <2>6, <2>7 DEF Get
<1>2. CASE ~Has(m, k)
  <2>1. new = m
    BY <1>2 DEF Delete
  <2>2. ASSUME NEW l \in Instances, Same(k, l) PROVE ~Has(m, l)
    <3> SUFFICES ASSUME Has(m, l) PROVE FALSE
      OBVIOUS
    <3>1. PICK p \in Places(m) : \E e \in Contents(m, p) : Same(e.key, l)
      BY Finds
    <3>2. \E e \in Contents(m, p) : Same(e.key, k)
      BY <2>2, <3>1, SameIs
    <3> QED
      BY <1>2, <3>2, Finds
  <2> QED
    BY <2>1, <2>2 DEF Get
<1> QED
  BY <1>1, <1>2

(* InstanceSet.Add: the instance is in the set, under a number that is     *)
(* its index in the order of the values; the numbers of the others, which  *)
(* generated code may already refer to, stay.                              *)
THEOREM AddNumbers ==
    ASSUME HashOfClass, NEW s, NEW inst \in Instances, NEW new, new = Add(s, inst),
           s = [values |-> s.values, unprocessed |-> s.unprocessed, seen |-> s.seen],
           s.values \in Seq(Instances), s.unprocessed \in Nat, s.seen \in Maps(Nat),
           Numbered(s)
    PROVE  /\ Numbered(new) /\ HasID(new, inst)
           /\ \A l \in Instances : HasID(s, l) => HasID(new, l) /\ ID(new, l) = ID(s, l)
<1>1. CASE Has(s.seen, inst)
  BY <1>1 DEF Add, HasID
<1>2. CASE ~Has(s.seen, inst)
  <2>1. PICK n : n = s.seen.len
    OBVIOUS
  <2>2. PICK t : t = Set(s.seen, inst, n)
    OBVIOUS
  <2>3. n \in Nat /\ n = Len(s.values)
    BY <2>1 DEF Maps, Numbered
  <2>4. PICK vs : vs = Append(s.values, inst)
    OBVIOUS
  <2>5. new = [values |-> vs, unprocessed |-> s.unprocessed, seen |-> t]
    <3> DEFINE v == s.values
               u == s.unprocessed
               m == s.seen
    <3>1. new = [[values |-> v, unprocessed |-> u, seen |-> m] EXCEPT !.seen = t, !.values = vs]
      BY <1>2, <2>1, <2>2, <2>4 DEF Add
    <3> QED
      BY <3>1
  <2>6. /\ t \in Maps(Nat) /\ WellFormed(t) /\ t.len = n + 1
        /\ \A l \in Instances :
               /\ Has(t, l) <=> Same(inst, l) \/ Has(s.seen, l)
               /\ Get(t, l) = IF Same(inst, l) THEN n ELSE Get(s.seen, l)
    BY <1>2, <2>1, <2>2, <2>3, SetUpdates DEF Numbered
  <2>7. \A l \in Instances : Has(s.seen, l) => ~Same(inst, l)
    <3> SUFFICES ASSUME NEW l \in Instances, Has(s.seen, l), Same(inst, l) PROVE FALSE
      OBVIOUS
    <3>1. PICK p \in Places(s.seen) : \E e \in Contents(s.seen, p) : Same(e.key, l)
      BY Finds DEF Numbered
    <3>2. \E e \in Contents(s.seen, p) : Same(e.key, inst)
      BY <3>1, SameIs
    <3> QED
      BY <1>2, <3>2, Finds DEF Numbered
  <2>8. \A l \in Instances : Has(s.seen, l) => Has(t, l) /\ Get(t, l) = Get(s.seen, l)
    BY <2>6, <2>7
  <2>9. Has(t, inst) /\ Get(t, inst) = n
    BY <2>6, SameIs
  <2>10. /\ Len(vs) = n + 1 /\ vs[n + 1] = inst
         /\ \A i \in 1 .. n : vs[i] = s.values[i] /\ s.values[i] \in Instances
    BY <2>3, <2>4
  <2>11. \A i \in 1 .. Len(vs) : Has(t, vs[i]) /\ Get(t, vs[i]) = i - 1
    <3> SUFFICES ASSUME NEW i \in 1 .. Len(vs) PROVE Has(t, vs[i]) /\ Get(t, vs[i]) = i - 1
      OBVIOUS
    <3>1. CASE i = n + 1
      <4>1. vs[i] = inst /\ i - 1 = n
        BY <2>3, <2>10, <3>1
      <4> QED
        BY <2>9, <4>1
    <3>2. CASE i # n + 1
      <4>1. i \in 1 .. n
        BY <2>3, <2>10, <3>2
      <4>2. Has(s.seen, s.values[i]) /\ Get(s.seen, s.values[i]) = i - 1
        BY <2>3, <4>1 DEF Numbered
      <4> QED
        BY <2>8, <2>10, <4>1, <4>2
    <3> QED
      BY <3>1, <3>2
  <2>12. s.unprocessed <= Len(vs)
    BY <2>3, <2>10 DEF Numbered
  <2>13. Numbered(new)
    BY <2>5, <2>6, <2>10, <2>11, <2>12 DEF Numbered
  <2>14. new.seen = t
    BY <2>5
  <2> QED
    BY <2>8, <2>9, <2>13, <2>14 DEF HasID, ID
<1> QED
  BY <1>1, <1>2

-----------------------------------------------------------------------------
(* Dead-code elimination.                                                  *)

(* Who waits for a filter, and for what: all that is not found so far.     *)
Tracked ==
    /\ \A n \in Name : byFilter[n] =
           {d \in included : ~IsAlive(d) /\ n \in Filters(d) \ Needs(selection)}
    /\ \A d \in included : ~IsAlive(d) => filters[d] = Filters(d) \ Needs(selection)

(* Every declaration that is known to be live is pending or selected.      *)
Pushed == \A d \in included :
    IsAlive(d) \/ dce[d].link \/ Filters(d) \subseteq Needs(selection)
        => d \in selection \cup pendingDecls

(* Declarations are followed only when all of them are included.           *)
Phases ==
    /\ selection \cup pendingDecls \subseteq included
    /\ selection # {} => included = Decl

DceInv == dce \in Programs /\ DceTypeOK /\ Tracked /\ Pushed /\ Phases /\ NoDeadCode

USE DceAssumption

(* What a declaration records.                                             *)
LEMMA ProgramType ==
    ASSUME dce \in Programs, NEW d \in Decl
    PROVE  /\ dce[d].alive \in BOOLEAN /\ dce[d].link \in BOOLEAN
           /\ dce[d].objectFilter \in Name \cup {NoName}
           /\ dce[d].methodFilter \in Name \cup {NoName}
           /\ dce[d].deps \in SUBSET Name
           /\ Filters(d) \subseteq Name
<1>1. dce[d] \in Info
  OBVIOUS
<1> QED
  BY <1>1 DEF Info, Filters

(* Needs grows with the set, by what is added.                             *)
LEMMA NeedsGrows ==
    ASSUME dce \in Programs, NEW S \in SUBSET Decl, NEW T \in SUBSET Decl, NEW d \in Decl
    PROVE  /\ Needs({}) = {}
           /\ Needs(S \cup {d}) = Needs(S) \cup dce[d].deps
           /\ S \subseteq T => Needs(S) \subseteq Needs(T)
<1>1. Needs({}) = {}
  BY DEF Needs
<1>2. Needs(S \cup {d}) = Needs(S) \cup dce[d].deps
  BY DEF Needs
<1>3. S \subseteq T => Needs(S) \subseteq Needs(T)
  BY DEF Needs
<1> QED
  BY <1>1, <1>2, <1>3

(* At first nothing is included.                                           *)
LEMMA DceInitInv == DceInit => DceInv
<1> SUFFICES ASSUME DceInit PROVE DceInv
  OBVIOUS
<1> USE DEF DceInit
<1>1. dce \in Programs /\ DceTypeOK
  BY DEF DceTypeOK
<1>2. Tracked /\ Pushed /\ Phases
  BY DEF Tracked, Pushed, Phases
<1>3. NoDeadCode
  BY DEF NoDeadCode
<1> QED
  BY <1>1, <1>2, <1>3 DEF DceInv

(* Include keeps the invariant: nothing is found as yet.                   *)
LEMMA IncludeStep ==
    ASSUME DceInv, NEW d \in Decl, Include(d)
    PROVE  DceInv'
<1> USE DEF DceInv, Include
<1>1. dce' = dce /\ selection' = selection /\ selection = {} /\ dce \in Programs
  BY DEF Phases, DceTypeOK
<1>2. Needs(selection) = {} /\ Needs(selection)' = {}
  BY <1>1 DEF Needs
<1>3. \A e \in Decl : /\ IsAlive(e)' = IsAlive(e) /\ Filters(e)' = Filters(e)
                      /\ Filters(e) \subseteq Name
                      /\ dce'[e].link = dce[e].link
  BY <1>1, ProgramType DEF IsAlive, Filters
<1>4. DceTypeOK'
  BY <1>1, <1>3 DEF DceTypeOK
<1>5. Phases'
  BY <1>1 DEF Phases, DceTypeOK
<1>6. Tracked'
  <2>1. CASE IsAlive(d)
    BY <1>1, <1>2, <1>3, <2>1 DEF Tracked, DceTypeOK
  <2>2. CASE ~IsAlive(d)
    <3>1. filters' = [filters EXCEPT ![d] = Filters(d)]
          /\ included' = included \cup {d}
          /\ byFilter' = [n \in Name |-> IF n \in Filters(d)
                                        THEN byFilter[n] \cup {d} ELSE byFilter[n]]
      BY <2>2
    <3>2. ASSUME NEW n \in Name
          PROVE  byFilter'[n] = {e \in included' : ~IsAlive(e)' /\ n \in Filters(e)'}
      <4>1. byFilter[n] = {e \in included : ~IsAlive(e) /\ n \in Filters(e)}
        BY <1>2 DEF Tracked
      <4> QED
        BY <1>3, <2>2, <3>1, <4>1 DEF DceTypeOK
    <3>3. ASSUME NEW e \in included', ~IsAlive(e)' PROVE filters'[e] = Filters(e)'
      BY <1>2, <1>3, <3>1, <3>3 DEF Tracked, DceTypeOK
    <3> QED
      BY <1>2, <3>2, <3>3 DEF Tracked
  <2> QED
    BY <2>1, <2>2
<1>7. Pushed'
  BY <1>1, <1>2, <1>3 DEF Pushed, DceTypeOK, IsAlive
<1>8. \A S \in SUBSET Decl : Closed(S)' = Closed(S)
  BY <1>1 DEF Closed, IsAlive, Filters, Needs
<1>9. NoDeadCode'
  <2> SUFFICES ASSUME NEW S \in SUBSET Decl, Closed(S)
               PROVE  selection' \cup pendingDecls' \subseteq S
    BY <1>8 DEF NoDeadCode
  <2>1. selection \cup pendingDecls \subseteq S
    BY DEF NoDeadCode
  <2>2. IsAlive(d) \/ dce[d].link => d \in S
    BY DEF Closed
  <2> QED
    BY <1>1, <2>1, <2>2
<1> QED
  BY <1>1, <1>4, <1>5, <1>6, <1>7, <1>9

(* Following a declaration keeps the invariant.                            *)
LEMMA SelectStep ==
    ASSUME DceInv, NEW d \in Decl, Select(d)
    PROVE  DceInv'
<1> USE DEF DceInv
<1>1. /\ dce' = dce /\ included = Decl /\ included' = Decl /\ d \in pendingDecls
      /\ selection' = selection \cup {d} /\ dce \in Programs
      /\ selection \in SUBSET Decl /\ pendingDecls \in SUBSET Decl
  BY DEF Select, DceTypeOK
<1>2. Needs(selection)' = Needs(selection) \cup dce[d].deps
  <2>1. Needs(selection \cup {d}) = Needs(selection) \cup dce[d].deps
    BY <1>1, NeedsGrows
  <2> QED
    BY <1>1, <2>1 DEF Needs
<1>3. \A e \in Decl : /\ IsAlive(e)' = IsAlive(e) /\ Filters(e)' = Filters(e)
                      /\ Filters(e) \subseteq Name
                      /\ dce'[e].link = dce[e].link
  BY <1>1, ProgramType DEF IsAlive, Filters
<1>4. dce[d].deps \subseteq Name
  BY <1>1, ProgramType
<1>5. /\ filters' = [e \in Decl |-> filters[e] \ FoundBy(d, e)]
      /\ pendingDecls' = (pendingDecls \ {d}) \cup
             {e \in Decl : FoundBy(d, e) # {} /\ filters'[e] = {}}
      /\ byFilter' = [n \in Name |-> IF n \in dce[d].deps THEN {} ELSE byFilter[n]]
  BY DEF Select, Follow
<1>6. ASSUME NEW e \in Decl
      PROVE  FoundBy(d, e) = IF IsAlive(e) THEN {}
                 ELSE (Filters(e) \ Needs(selection)) \cap dce[d].deps
  <2>1. \A n \in Name : e \in byFilter[n] <=>
            ~IsAlive(e) /\ n \in Filters(e) \ Needs(selection)
    BY <1>1 DEF Tracked
  <2> QED
    BY <1>4, <2>1 DEF FoundBy
<1>7. DceTypeOK'
  BY <1>1, <1>5 DEF DceTypeOK
<1>6a. ASSUME NEW e \in Decl, ~IsAlive(e)
       PROVE  filters'[e] = Filters(e) \ (Needs(selection) \cup dce[d].deps)
  <2>1. filters[e] = Filters(e) \ Needs(selection)
    BY <1>1, <1>6a DEF Tracked
  <2>2. filters'[e] = filters[e] \ ((Filters(e) \ Needs(selection)) \cap dce[d].deps)
    BY <1>5, <1>6, <1>6a
  <2> QED
    BY <2>1, <2>2
<1>8. Phases'
  BY <1>1, <1>7 DEF Phases, DceTypeOK
<1>9. Tracked'
  <2>1. ASSUME NEW n \in Name
        PROVE  byFilter'[n] = {e \in Decl : ~IsAlive(e)' /\
                                   n \in Filters(e)' \ Needs(selection)'}
    <3>1. byFilter[n] = {e \in Decl : ~IsAlive(e) /\
                                   n \in Filters(e) \ Needs(selection)}
      BY <1>1 DEF Tracked
    <3> QED
      BY <1>2, <1>3, <1>5, <3>1
  <2>2. ASSUME NEW e \in Decl, ~IsAlive(e)'
        PROVE  filters'[e] = Filters(e)' \ Needs(selection)'
    BY <1>2, <1>3, <1>6a, <2>2
  <2> QED
    BY <1>1, <2>1, <2>2 DEF Tracked
<1>10. Pushed'
  <2> SUFFICES ASSUME NEW e \in Decl,
                      IsAlive(e) \/ dce[e].link \/ Filters(e) \subseteq Needs(selection)'
               PROVE  e \in selection' \cup pendingDecls'
    BY <1>1, <1>3 DEF Pushed
  <2>1. CASE IsAlive(e) \/ dce[e].link \/ Filters(e) \subseteq Needs(selection)
    <3>1. e \in selection \cup pendingDecls
      BY <1>1, <2>1 DEF Pushed
    <3> QED
      BY <1>1, <1>5, <3>1
  <2>2. CASE /\ ~IsAlive(e) /\ ~(Filters(e) \subseteq Needs(selection))
             /\ Filters(e) \subseteq Needs(selection)'
    <3>1. FoundBy(d, e) # {}
      <4>1. PICK n \in Filters(e) : n \notin Needs(selection)
        BY <2>2
      <4>2. n \in dce[d].deps
        BY <1>2, <2>2, <4>1
      <4> QED
        BY <1>6, <2>2, <4>1, <4>2
    <3>2. filters'[e] = {}
      BY <1>2, <1>6a, <2>2
    <3> QED
      BY <1>5, <3>1, <3>2
  <2> QED
    BY <2>1, <2>2
<1>11. NoDeadCode'
  <2>1. \A S \in SUBSET Decl : Closed(S)' = Closed(S)
    BY <1>1 DEF Closed, IsAlive, Filters, Needs
  <2> SUFFICES ASSUME NEW S \in SUBSET Decl, Closed(S)
               PROVE  selection' \cup pendingDecls' \subseteq S
    BY <2>1 DEF NoDeadCode
  <2>2. selection \cup {d} \subseteq S /\ pendingDecls \subseteq S
    BY <1>1 DEF NoDeadCode
  <2>3. Needs(selection)' \subseteq Needs(S)
    <3>1. Needs(selection \cup {d}) \subseteq Needs(S)
      BY <1>1, <2>2, NeedsGrows
    <3> QED
      BY <1>1, <3>1 DEF Needs
  <2>4. ASSUME NEW e \in Decl, FoundBy(d, e) # {}, filters'[e] = {} PROVE e \in S
    <3>1. ~IsAlive(e) /\ filters'[e] = Filters(e) \ Needs(selection)'
      BY <1>2, <1>6, <1>6a, <2>4
    <3>2. Filters(e) \subseteq Needs(S)
      BY <2>3, <2>4, <3>1
    <3> QED
      BY <3>2 DEF Closed
  <2> QED
    BY <1>1, <1>5, <2>2, <2>4
<1> QED
  BY <1>1, <1>7, <1>8, <1>9, <1>10, <1>11

-----------------------------------------------------------------------------
(* The theorems.                                                           *)

(* The invariant of the selection.                                         *)
THEOREM SelectorInvariant == DceSpec => []DceInv
<1>1. DceInv /\ [DceNext]_dceVars => DceInv'
  <2> SUFFICES ASSUME DceInv, [DceNext]_dceVars PROVE DceInv'
    OBVIOUS
  <2>1. CASE UNCHANGED dceVars
    <3>1. UNCHANGED <<dce, included, byFilter, filters, pendingDecls, selection>>
      BY <2>1 DEF dceVars
    <3>2. \A e \in Decl : IsAlive(e)' = IsAlive(e) /\ Filters(e)' = Filters(e)
      BY <3>1 DEF IsAlive, Filters
    <3>3. \A S \in SUBSET Decl : Closed(S)' = Closed(S)
      BY <3>1 DEF Closed, IsAlive, Filters, Needs
    <3>4. Needs(selection)' = Needs(selection)
      BY <3>1 DEF Needs
    <3>5. (dce \in Programs)' /\ DceTypeOK'
      BY <3>1 DEF DceInv, DceTypeOK
    <3>6. Tracked'
      BY <3>1, <3>2, <3>4 DEF DceInv, DceTypeOK, Tracked
    <3>7. Pushed' /\ Phases'
      BY <3>1, <3>2, <3>4 DEF DceInv, DceTypeOK, Pushed, Phases
    <3>8. NoDeadCode'
      BY <3>1, <3>3 DEF DceInv, NoDeadCode
    <3> QED
      BY <3>5, <3>6, <3>7, <3>8 DEF DceInv
  <2> QED
    BY <2>1, IncludeStep, SelectStep DEF DceNext
<1> QED
  BY <1>1, DceInitInv, PTL DEF DceSpec

(* The variables keep their types.                                         *)
THEOREM DceTypeCorrect == DceSpec => []DceTypeOK
BY SelectorInvariant, PTL DEF DceInv

(* Every closed set holds all that is selected: dead code is left out.     *)
THEOREM SelectsNoDeadCode == DceSpec => []NoDeadCode
BY SelectorInvariant, PTL DEF DceInv

(* When AliveDecls returns, the selection is closed: nothing that the      *)
(* program can refer to is left out.                                       *)
THEOREM SelectsAllThatLives == DceSpec => []NothingMissing
<1>1. DceInv => NothingMissing
  BY DEF DceInv, NothingMissing, Selected, Closed, Pushed
<1> QED
  BY <1>1, SelectorInvariant, PTL
=============================================================================
