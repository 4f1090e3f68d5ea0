----------------------------- MODULE BuildProofs -----------------------------
(* Proofs about the build sessions.                                        *)
EXTENDS BuildSession, SequenceTheorems, TLAPS

Maps(K, S) == UNION {[D -> S] : D \in SUBSET K}
Tags == {c.tags[q] : c \in Scenarios, q \in Process}

Source ==
    [p : Package, go : Version, js : Nat, tags : Tags, test : BOOLEAN,
     goTime : Nat, read : Nat, jsTime : Nat, jsRead : Nat,
     from : Nat \cup {None}, disk : FilesOnDisk \cup {None}]
StoredFile == [src : Source, time : Nat]

Mid == {"open", "read", "parse", "store", "rename"}
FrameType ==
    [p : Package, at : {"watch", "deps", "unresolved"} \cup Mid, test : BOOLEAN,
     todo : SUBSET Package, listed : SUBSET Package, mod : Nat,
     js : Nat, jsTime : Nat, jsRead : Nat, disk : FilesOnDisk \cup {None},
     file : StoredFile \cup {None}, src : Source \cup {None}]
FrameShape(f) ==
    /\ f.at \in {"open", "read"} => f.disk \in FilesOnDisk
    /\ f.at \in {"read", "rename"} => f.file \in StoredFile
    /\ f.at \in {"store", "rename"} => f.src \in Source

Session ==
    [step : {"idle", "import", "wait"}, roots : Seq(Package), stack : Seq(FrameType),
     packages : Maps(Package, Nat), sources : Maps(Package, Source),
     watched : SUBSET Package, event : BOOLEAN,
     output : Maps(Package, Source) \cup {None}, left : Nat]
SessionShape(s) ==
    /\ s.step # "import" => s.stack = <<>>
    /\ \A f \in ToSet(s.stack) : FrameShape(f)

(* The variables have their types; a frame has what its place needs.       *)
TypeOK ==
    /\ conf \in Scenarios
    /\ disk \in [Package -> FilesOnDisk]
    /\ clock \in Nat
    /\ cacheDir \in Maps(Tags \X Package, StoredFile)
    /\ proc \in [Process -> Session]
    /\ \A q \in Process : SessionShape(proc[q])

-----------------------------------------------------------------------------
(* Sequences and maps.                                                     *)

(* Pushing on a stack.                                                     *)
LEMMA StackPush ==
    ASSUME NEW S, NEW s \in Seq(S), NEW f \in S
    PROVE  /\ <<f>> \o s \in Seq(S) /\ <<f>> \o s # <<>>
           /\ Head(<<f>> \o s) = f /\ Tail(<<f>> \o s) = s
           /\ ToSet(<<f>> \o s) = {f} \cup ToSet(s)
<1> DEFINE t == <<f>> \o s
<1>1. <<f>> \in Seq(S) /\ Len(<<f>>) = 1 /\ <<f>>[1] = f
  OBVIOUS
<1>2. /\ t \in Seq(S) /\ Len(t) = 1 + Len(s)
      /\ t[1] = f /\ \A i \in 1 .. Len(s) : t[i + 1] = s[i]
  <2>1. /\ t \in Seq(S) /\ Len(t) = Len(<<f>>) + Len(s)
        /\ \A i \in 1 .. Len(<<f>>) + Len(s) :
             t[i] = IF i <= Len(<<f>>) THEN <<f>>[i] ELSE s[i - Len(<<f>>)]
    BY <1>1, ConcatProperties
  <2>2. Len(s) \in Nat
    BY LenProperties
  <2> QED
    BY <1>1, <2>1, <2>2
<1>3. Len(s) \in Nat
  BY LenProperties
<1>4. t # <<>> /\ Head(t) = f
  BY <1>2, <1>3
<1>5. Tail(t) = s
  <2>1. /\ Tail(t) \in Seq(S) /\ Len(Tail(t)) = Len(t) - 1
        /\ \A i \in 1 .. Len(Tail(t)) : Tail(t)[i] = t[i + 1]
    BY <1>2, <1>4, HeadTailProperties
  <2> QED
    BY <1>2, <1>3, <2>1, SeqEqual
<1>6. ToSet(t) = {f} \cup ToSet(s)
  <2>1. DOMAIN t = 1 .. 1 + Len(s) /\ DOMAIN s = 1 .. Len(s)
    BY <1>2, LenProperties
  <2>2. ASSUME NEW x \in ToSet(t) PROVE x \in {f} \cup ToSet(s)
    <3>1. PICK i \in 1 .. 1 + Len(s) : x = t[i]
      BY <2>1 DEF ToSet
    <3>2. CASE i = 1
      BY <3>1, <3>2, <1>2
    <3>3. CASE i # 1
      <4>1. i - 1 \in 1 .. Len(s) /\ i = (i - 1) + 1
        BY <3>3, <1>3
      <4>2. x = s[i - 1]
        BY <4>1, <3>1, <1>2
      <4> QED
        BY <4>1, <4>2, <2>1 DEF ToSet
    <3> QED
      BY <3>2, <3>3
  <2>3. f \in ToSet(t)
    BY <1>2, <1>3, <2>1 DEF ToSet
  <2>4. ASSUME NEW x \in ToSet(s) PROVE x \in ToSet(t)
    <3>1. PICK i \in 1 .. Len(s) : x = s[i]
      BY <2>1 DEF ToSet
    <3>2. i + 1 \in 1 .. 1 + Len(s) /\ x = t[i + 1]
      BY <3>1, <1>2, <1>3
    <3> QED
      BY <3>2, <2>1 DEF ToSet
  <2> QED
    BY <2>2, <2>3, <2>4
<1> QED
  BY <1>2, <1>4, <1>5, <1>6

(* The frame on top of a stack and those below.                            *)
LEMMA StackTop ==
    ASSUME NEW S, NEW s \in Seq(S), s # <<>>
    PROVE  /\ Head(s) \in S /\ Tail(s) \in Seq(S)
           /\ ToSet(s) = {Head(s)} \cup ToSet(Tail(s))
<1>1. Head(s) \in S /\ Tail(s) \in Seq(S)
  BY HeadTailProperties
<1>2. s = <<Head(s)>> \o Tail(s)
  <2>1. Len(s) \in Nat /\ Len(s) # 0
    BY LenProperties, EmptySeq
  <2>2. /\ Len(Tail(s)) = Len(s) - 1
        /\ \A i \in 1 .. Len(Tail(s)) : Tail(s)[i] = s[i + 1]
    BY HeadTailProperties
  <2>3. <<Head(s)>> \in Seq(S) /\ Len(<<Head(s)>>) = 1 /\ <<Head(s)>>[1] = s[1]
    BY <1>1
  <2> DEFINE t == <<Head(s)>> \o Tail(s)
  <2>4. /\ t \in Seq(S) /\ Len(t) = Len(<<Head(s)>>) + Len(Tail(s))
        /\ \A i \in 1 .. Len(<<Head(s)>>) + Len(Tail(s)) :
             t[i] = IF i <= Len(<<Head(s)>>) THEN <<Head(s)>>[i] ELSE Tail(s)[i - Len(<<Head(s)>>)]
    BY <1>1, <2>3, ConcatProperties
  <2>5. Len(t) = Len(s)
    BY <2>1, <2>2, <2>3, <2>4
  <2>6. ASSUME NEW i \in 1 .. Len(s) PROVE t[i] = s[i]
    <3>1. CASE i = 1
      BY <3>1, <2>1, <2>2, <2>3, <2>4
    <3>2. CASE i # 1
      <4>1. i - 1 \in 1 .. Len(Tail(s)) /\ t[i] = Tail(s)[i - 1]
        BY <3>2, <2>1, <2>2, <2>3, <2>4
      <4> QED
        BY <4>1, <2>2
    <3> QED
      BY <3>1, <3>2
  <2> HIDE DEF t
  <2>7. t = s
    BY <2>4, <2>5, <2>6, SeqEqual
  <2> QED
    BY <2>7 DEF t
<1>3. ToSet(<<Head(s)>> \o Tail(s)) = {Head(s)} \cup ToSet(Tail(s))
  BY <1>1, StackPush
<1> QED
  BY <1>1, <1>2, <1>3

(* The members of a sequence.                                              *)
LEMMA StackMembers ==
    ASSUME NEW S, NEW s \in Seq(S)
    PROVE  ToSet(s) \subseteq S
BY LenProperties DEF ToSet

(* The empty stack and the empty map.                                      *)
LEMMA NothingThere ==
    ASSUME NEW S, NEW K
    PROVE  /\ <<>> \in Seq(S) /\ ToSet(<<>>) = {} /\ DOMAIN <<>> = {}
           /\ <<>> \in Maps(K, S)
<1>1. DOMAIN <<>> = {}
  OBVIOUS
<1>2. <<>> \in Seq(S) /\ ToSet(<<>>) = {}
  BY <1>1 DEF ToSet
<1>3. <<>> = [x \in {} |-> x]
  BY <1>1
<1>4. <<>> \in [{} -> S]
  BY <1>3
<1> QED
  BY <1>1, <1>2, <1>4 DEF Maps

(* What a map holds.                                                       *)
LEMMA MapHolds ==
    ASSUME NEW K, NEW S, NEW f \in Maps(K, S)
    PROVE  /\ DOMAIN f \subseteq K
           /\ \A k \in DOMAIN f : f[k] \in S
BY DEF Maps

(* Putting one more pair in a map.                                         *)
LEMMA MapPut ==
    ASSUME NEW K, NEW S, NEW f \in Maps(K, S), NEW k \in K, NEW v \in S
    PROVE  /\ Put(f, k, v) \in Maps(K, S)
           /\ DOMAIN Put(f, k, v) = DOMAIN f \cup {k}
           /\ Put(f, k, v)[k] = v
           /\ \A x \in DOMAIN f \ {k} : Put(f, k, v)[x] = f[x]
<1>1. DOMAIN f \subseteq K /\ \A x \in DOMAIN f : f[x] \in S
  BY MapHolds
<1> DEFINE D == DOMAIN f \cup {k}
<1>2. Put(f, k, v) \in [D -> S]
  BY <1>1 DEF Put
<1>3. D \in SUBSET K
  BY <1>1
<1>4. Put(f, k, v) \in Maps(K, S)
  BY <1>2, <1>3 DEF Maps
<1> QED
  BY <1>4 DEF Put

-----------------------------------------------------------------------------
(* The turns of a process, by what they do to its stack of packages: s is  *)
(* the session before and t the one after.                                 *)

SameFiles(f, g) == f.p = g.p /\ f.js = g.js /\ f.jsTime = g.jsTime /\ f.jsRead = g.jsRead
Compared(f) == f.at \in {"open", "read"}

(* The frame f is on top instead of what was there.                        *)
Tops(s, t, f) ==
    /\ s.stack # <<>> /\ t.stack # <<>> /\ t.step = s.step /\ t.roots = s.roots
    /\ ToSet(t.stack) = {f} \cup ToSet(Tail(s.stack))

(* The loading of the package on top goes on, from g to f.                 *)
Advance(q, s, g, f) ==
    /\ g.at # "watch" /\ f.at # "watch"
    /\ SameFiles(f, g) /\ f.test = g.test /\ f.listed = g.listed
    /\ f.todo \subseteq g.todo /\ g.todo \subseteq f.todo \cup DOMAIN s.packages
    /\ f.at \in Mid => f.todo = {} \/ g.at \in Mid
    /\ f.at = "unresolved" <=> g.at = "unresolved"
    /\ Compared(f) =>
         \/ Compared(g) /\ f.disk = g.disk /\ f.mod = g.mod
         \/ /\ f.disk = [disk[f.p] EXCEPT !.js = f.js, !.jsTime = f.jsTime]
            /\ f.disk.goTime <= f.mod /\ f.jsTime <= f.mod
    /\ f.at = "read" =>
         /\ ~ IsTestPackage(q, f.p) /\ PackageKey(q, f.p) \in DOMAIN cacheDir
         /\ f.file = cacheDir[PackageKey(q, f.p)]
    /\ f.at = "store" => f.src = Parsed(q, g)
    /\ f.at = "rename" =>
         /\ g.at = "store" /\ ~ IsTestPackage(q, f.p)
         /\ f.src = g.src /\ f.file.src = g.src
Advances(q, s, t) ==
    /\ t.packages = s.packages /\ t.sources = s.sources /\ UNCHANGED cacheDir
    /\ \E f \in FrameType : Tops(s, t, f) /\ Advance(q, s, Head(s.stack), f)

(* The sources src are what the frame g makes of the cache or the files.   *)
Sourced(q, g, src) ==
    \/ /\ g.at = "read" /\ g.mod <= g.file.time
       /\ src = [g.file.src EXCEPT !.from = g.file.time, !.disk = g.disk]
    \/ g.at = "parse" /\ src = Parsed(q, g)
    \/ g.at \in {"store", "rename"} /\ src = g.src
Stores(q, g) ==
    /\ g.at = "rename"
    /\ cacheDir' = Put(cacheDir, PackageKey(q, g.p), g.file)
Keeping(q, s, t, g, f, src) ==
    /\ Tops(s, t, f) /\ SameFiles(f, g) /\ f.test = g.test /\ f.listed = g.listed
    /\ g.at \in Mid /\ f.at = "unresolved" /\ f.todo = FileImports(src) \ f.listed
    /\ t.sources = Put(s.sources, g.p, src) /\ Sourced(q, g, src)
    /\ Stores(q, g) \/ UNCHANGED cacheDir
Keeps(q, s, t) ==
    /\ t.packages = s.packages
    /\ \E f \in FrameType, src \in Source : Keeping(q, s, t, Head(s.stack), f, src)

(* A package is watched and its imports are next.                          *)
Watched(s, t, g, f) ==
    /\ Tops(s, t, f) /\ SameFiles(f, g) /\ f.test = g.test /\ f.listed = g.listed
    /\ g.at = "watch" /\ f.at = "deps" /\ f.todo = g.todo
    /\ g.p \notin DOMAIN s.sources
    /\ DOMAIN t.packages = DOMAIN s.packages \cup {g.p}
Watches(q, s, t) ==
    /\ t.sources = s.sources /\ UNCHANGED cacheDir
    /\ \E f \in FrameType : Watched(s, t, Head(s.stack), f)

(* The frame g returns to the frame b below it, which becomes f.           *)
Ends(s, t, g) ==
    \/ /\ g.at = "watch" /\ g.p \in DOMAIN s.sources
       /\ DOMAIN t.packages = DOMAIN s.packages \cup {g.p}
    \/ g.at = "unresolved" /\ g.todo = {} /\ DOMAIN t.packages = DOMAIN s.packages
ReturnsTo(t, g, b, f) ==
    /\ SameFiles(f, b) /\ f.test = b.test /\ f.listed = b.listed /\ f.at = b.at
    /\ f.disk = b.disk /\ f.file = b.file /\ f.src = b.src
    /\ f.todo = b.todo \ {g.p} /\ (b.at # "deps" => f.mod = b.mod)
Returns(q, s, t) ==
    /\ s.stack # <<>> /\ t.step = s.step /\ t.roots = s.roots
    /\ t.sources = s.sources /\ UNCHANGED cacheDir
    /\ Ends(s, t, Head(s.stack))
    /\ \/ Tail(s.stack) = <<>> /\ t.stack = <<>>
       \/ /\ Tail(s.stack) # <<>>
          /\ \E f \in FrameType :
               /\ ToSet(t.stack) = {f} \cup ToSet(Tail(Tail(s.stack)))
               /\ ReturnsTo(t, Head(s.stack), Head(Tail(s.stack)), f)

(* A package is imported by the one on top.                                *)
Pushes(q, s, t) ==
    /\ s.stack # <<>> /\ t.step = s.step /\ t.roots = s.roots
    /\ t.packages = s.packages /\ t.sources = s.sources /\ UNCHANGED cacheDir
    /\ Head(s.stack).at \in {"deps", "unresolved"}
    /\ \E i \in Head(s.stack).todo \ DOMAIN s.packages :
         ToSet(t.stack) = {Frame(q, i, "watch", FALSE)} \cup ToSet(s.stack)

(* A root is imported.                                                     *)
RootFrame(q, p) ==
    LET f == Frame(q, p, "deps", IsTestPackage(q, p))
    IN  [f EXCEPT !.todo = @ \cup {Runtime}, !.listed = @ \cup {Runtime}]
Roots(q, s, t) ==
    /\ s.stack = <<>> /\ s.step = "import" /\ s.roots # <<>> /\ t.step = "import"
    /\ t.roots = Tail(s.roots)
    /\ t.packages = s.packages /\ t.sources = s.sources /\ UNCHANGED cacheDir
    /\ ToSet(t.stack) = {RootFrame(q, Head(s.roots))}

(* The main package of a test.                                             *)
TestFrame(q) == Frame(q, TestMain, "unresolved", FALSE)
Mains(q, s, t) ==
    /\ s.stack = <<>> /\ s.step = "import" /\ s.roots # <<>> /\ t.step = "import"
    /\ Head(s.roots) = TestMain /\ t.roots = Tail(s.roots)
    /\ t.packages = s.packages /\ UNCHANGED cacheDir
    /\ t.sources = Put(s.sources, TestMain, Parsed(q, TestFrame(q)))
    /\ ToSet(t.stack) = {TestFrame(q)}

(* A session begins or ends.                                               *)
Resets(q, s, t) ==
    /\ t.stack = <<>> /\ UNCHANGED cacheDir
    /\ \/ t.step # "import" /\ (t.sources = s.sources \/ t.sources = <<>>)
       \/ t.sources = <<>> /\ t.packages = <<>> /\ t.roots = conf.roots[q]

Turn(q, s, t) ==
    \/ Advances(q, s, t) \/ Keeps(q, s, t) \/ Watches(q, s, t) \/ Returns(q, s, t)
    \/ Pushes(q, s, t) \/ Roots(q, s, t) \/ Mains(q, s, t) \/ Resets(q, s, t)

(* What holds of the types of the session that follows.                    *)
SessionOK(s) == s \in Session /\ SessionShape(s)

-----------------------------------------------------------------------------
(* The pieces the actions are built from.                                  *)

(* A new frame is one of a package whose files are on disk now.            *)
LEMMA NewFrame ==
    ASSUME TypeOK, NEW q \in Process, NEW p \in Package, NEW test \in BOOLEAN,
           NEW at \in {"watch", "deps", "unresolved"}
    PROVE  /\ Frame(q, p, at, test) \in FrameType
           /\ FrameShape(Frame(q, p, at, test))
<1>1. /\ disk[p] \in FilesOnDisk /\ clock \in Nat
      /\ disk[p].js \in Nat /\ disk[p].jsTime \in Nat /\ disk[p].go \in Version
  BY DEF TypeOK, FilesOnDisk
<1>2. ImportsOf(p, disk[p].go) \subseteq Package
  BY <1>1, BuildAssumption DEF ImportsOf
<1> QED
  BY <1>1, <1>2 DEF Frame, FrameType, FrameShape

(* The same with the runtime, for a root.                                  *)
LEMMA NewRootFrame ==
    ASSUME TypeOK, NEW q \in Process, NEW p \in Package
    PROVE  /\ RootFrame(q, p) \in FrameType /\ FrameShape(RootFrame(q, p))
           /\ RootFrame(q, p).at = "deps"
<1>1. IsTestPackage(q, p) \in BOOLEAN
  BY DEF IsTestPackage
<1>2. Frame(q, p, "deps", IsTestPackage(q, p)) \in FrameType
  BY <1>1, NewFrame
<1>3. Runtime \in Package
  BY BuildAssumption
<1>4. Frame(q, p, "deps", IsTestPackage(q, p)).at = "deps"
  BY DEF Frame
<1> QED
  BY <1>2, <1>3, <1>4 DEF RootFrame, FrameType, FrameShape

(* Parsing makes sources of the package.                                   *)
LEMMA ParsedSource ==
    ASSUME TypeOK, NEW q \in Process, NEW f \in FrameType
    PROVE  Parsed(q, f) \in Source
<1>1. disk[f.p] \in FilesOnDisk /\ clock \in Nat
  BY DEF TypeOK, FrameType
<1>2. conf.tags[q] \in Tags
  BY DEF TypeOK, Tags
<1> QED
  BY <1>1, <1>2 DEF Parsed, Source, FrameType, FilesOnDisk

(* The session with another frame on top.                                  *)
LEMMA WithTopOK ==
    ASSUME NEW s, SessionOK(s), s.stack # <<>>, NEW f \in FrameType, FrameShape(f),
           NEW t, t = WithTop(s, f)
    PROVE  /\ SessionOK(t) /\ Tops(s, t, f)
           /\ t.packages = s.packages /\ t.sources = s.sources
<1>1. s \in Session /\ s.stack \in Seq(FrameType)
  BY DEF SessionOK, Session
<1>2. /\ Tail(s.stack) \in Seq(FrameType)
      /\ ToSet(s.stack) = {Head(s.stack)} \cup ToSet(Tail(s.stack))
  BY <1>1, StackTop
<1> DEFINE k == <<f>> \o Tail(s.stack)
<1>3. k \in Seq(FrameType) /\ k # <<>> /\ ToSet(k) = {f} \cup ToSet(Tail(s.stack))
  <2>1. PICK r : r = Tail(s.stack)
    OBVIOUS
  <2>2. r \in Seq(FrameType)
    BY <1>2, <2>1
  <2>3. <<f>> \o r \in Seq(FrameType) /\ <<f>> \o r # <<>> /\ ToSet(<<f>> \o r) = {f} \cup ToSet(r)
    BY <2>2, StackPush
  <2> QED
    BY <2>1, <2>3
<1>4. t = [s EXCEPT !.stack = k]
  BY DEF WithTop
<1> HIDE DEF k
<1>5. /\ t \in Session /\ t.stack = k /\ t.step = s.step /\ t.roots = s.roots
      /\ t.packages = s.packages /\ t.sources = s.sources
  BY <1>1, <1>3, <1>4 DEF Session
<1>6. s.step = "import"
  BY DEF SessionOK, SessionShape
<1>7. SessionShape(t)
  BY <1>2, <1>3, <1>5, <1>6 DEF SessionOK, SessionShape
<1> QED
  BY <1>3, <1>5, <1>7 DEF SessionOK, Tops

(* The session that waits or has ended.                                    *)
LEMMA EndedOK ==
    ASSUME NEW s \in Session, NEW q, NEW t, t = Ended(q, s)
    PROVE  /\ SessionOK(t) /\ t.stack = <<>> /\ t.step # "import"
           /\ t.sources = s.sources
<1>1. <<>> \in Seq(FrameType) /\ ToSet(<<>>) = {}
  BY NothingThere
<1> QED
  BY <1>1 DEF Ended, SessionOK, SessionShape, Session

(* What the files of a package import are packages.                        *)
LEMMA ImportsArePackages ==
    ASSUME NEW src \in Source
    PROVE  FileImports(src) \subseteq Package
BY BuildAssumption DEF Source, FileImports, ImportsOf

(* The session keeps the sources of the package on top.                    *)
LEMMA KeepOK ==
    ASSUME NEW q \in Process, NEW s, SessionOK(s), s.stack # <<>>,
           Head(s.stack).at \in Mid, NEW src \in Source, Sourced(q, Head(s.stack), src),
           Stores(q, Head(s.stack)) \/ UNCHANGED cacheDir,
           NEW t, t = Keep(s, src)
    PROVE  SessionOK(t) /\ Keeps(q, s, t)
<1> DEFINE g == Head(s.stack)
           f == [g EXCEPT !.at = "unresolved", !.todo = UnresolvedImports(src, g.listed)]
           w == WithTop(s, f)
<1>1. s \in Session /\ s.stack \in Seq(FrameType) /\ g \in FrameType
  BY StackTop DEF SessionOK, Session
<1>2. g.p \in Package /\ UnresolvedImports(src, g.listed) \subseteq Package
  BY <1>1, ImportsArePackages DEF FrameType, UnresolvedImports
<1>3. /\ f \in FrameType /\ f.at = "unresolved" /\ SameFiles(f, g)
      /\ f.test = g.test /\ f.listed = g.listed
      /\ f.todo = FileImports(src) \ f.listed
  BY <1>1, <1>2 DEF FrameType, SameFiles, UnresolvedImports
<1>4. FrameShape(f)
  BY <1>3 DEF FrameShape
<1> HIDE DEF f
<1>5. /\ SessionOK(w) /\ Tops(s, w, f)
      /\ w.packages = s.packages /\ w.sources = s.sources
  BY <1>3, <1>4, WithTopOK
<1>6. t = [w EXCEPT !.sources = Put(@, g.p, src)]
  BY DEF Keep, f
<1>7. Put(w.sources, g.p, src) \in Maps(Package, Source)
  BY <1>2, <1>5, MapPut DEF SessionOK, Session
<1> HIDE DEF w
<1>8. /\ t \in Session /\ t.stack = w.stack /\ t.step = w.step /\ t.roots = w.roots
      /\ t.packages = w.packages /\ t.sources = Put(w.sources, g.p, src)
  BY <1>5, <1>6, <1>7 DEF SessionOK, Session
<1>9. SessionShape(t) /\ Tops(s, t, f)
  BY <1>5, <1>8 DEF SessionOK, SessionShape, Tops
<1>10. Keeping(q, s, t, g, f, src)
  BY <1>3, <1>5, <1>8, <1>9 DEF Keeping
<1> HIDE DEF g
<1> QED
  BY <1>3, <1>5, <1>8, <1>9, <1>10 DEF SessionOK, Keeps, g

(* The session that goes on with the package below the one on top.         *)
LEMMA ReturnOK ==
    ASSUME NEW q \in Process, NEW r, SessionOK(r), r.stack # <<>>, NEW mod \in Nat,
           NEW s, NEW t, t = Return(q, r, mod),
           s.stack = r.stack, s.step = r.step, s.roots = r.roots, s.sources = r.sources,
           UNCHANGED cacheDir,
           \/ /\ Head(s.stack).at = "watch" /\ Head(s.stack).p \in DOMAIN s.sources
              /\ DOMAIN r.packages = DOMAIN s.packages \cup {Head(s.stack).p}
           \/ /\ Head(s.stack).at = "unresolved" /\ Head(s.stack).todo = {}
              /\ DOMAIN r.packages = DOMAIN s.packages
    PROVE  SessionOK(t) /\ Returns(q, s, t)
<1> DEFINE g == Head(r.stack)
           rest == Tail(r.stack)
           b == Head(rest)
           f == [b EXCEPT !.todo = @ \ {g.p},
                          !.mod = IF b.at = "deps" THEN Later(@, mod) ELSE @]
           packages == IF g.p \in DOMAIN r.packages THEN [r.packages EXCEPT ![g.p] = mod]
                       ELSE r.packages
           stack == IF rest = <<>> THEN rest ELSE <<f>> \o Tail(rest)
<1>1. /\ r \in Session /\ r.stack \in Seq(FrameType)
      /\ r.packages \in Maps(Package, Nat) /\ r.step = "import"
  BY DEF SessionOK, SessionShape, Session
<1>2. /\ g \in FrameType /\ rest \in Seq(FrameType)
      /\ ToSet(r.stack) = {g} \cup ToSet(rest)
  BY <1>1, StackTop
<1>3. t = [r EXCEPT !.packages = packages, !.stack = stack]
  BY DEF Return
<1>4. packages \in Maps(Package, Nat) /\ DOMAIN packages = DOMAIN r.packages
  BY <1>1 DEF Maps
<1>5. ASSUME rest # <<>>
      PROVE  /\ b \in FrameType /\ f \in FrameType /\ FrameShape(f)
             /\ ReturnsTo(t, g, b, f)
             /\ stack \in Seq(FrameType) /\ ToSet(stack) = {f} \cup ToSet(Tail(rest))
             /\ ToSet(rest) = {b} \cup ToSet(Tail(rest))
  <2>1. /\ b \in FrameType /\ Tail(rest) \in Seq(FrameType)
        /\ ToSet(rest) = {b} \cup ToSet(Tail(rest))
    BY <1>2, <1>5, StackTop
  <2>2. FrameShape(b)
    BY <1>2, <2>1 DEF SessionOK, SessionShape
  <2>3. Later(b.mod, mod) \in Nat
    BY <2>1 DEF FrameType, Later
  <2>4. f \in FrameType /\ ReturnsTo(t, g, b, f)
    BY <2>1, <2>3 DEF FrameType, ReturnsTo, SameFiles
  <2>5. FrameShape(f)
    BY <2>2, <2>4 DEF FrameShape, ReturnsTo
  <2>8. Tail(rest) \in Seq(FrameType) /\ f \in FrameType
    BY <2>1, <2>4
  <2> HIDE DEF f, rest
  <2>6. /\ <<f>> \o Tail(rest) \in Seq(FrameType)
        /\ ToSet(<<f>> \o Tail(rest)) = {f} \cup ToSet(Tail(rest))
    BY <2>8, StackPush
  <2>7. stack \in Seq(FrameType) /\ ToSet(stack) = {f} \cup ToSet(Tail(rest))
    BY <1>5, <2>6
  <2> QED
    BY <2>1, <2>4, <2>5, <2>7
<1>6. /\ stack \in Seq(FrameType)
      /\ \A x \in ToSet(stack) : FrameShape(x)
  <2>1. CASE rest = <<>>
    BY <1>2, <2>1 DEF SessionOK, SessionShape
  <2>2. CASE rest # <<>>
    <3>1. ToSet(Tail(rest)) \subseteq ToSet(r.stack)
      BY <1>2, <1>5, <2>2
    <3> QED
      BY <1>5, <2>2, <3>1 DEF SessionOK, SessionShape
  <2> QED
    BY <2>1, <2>2
<1> HIDE DEF stack, packages
<1>7. /\ t \in Session /\ t.stack = stack /\ t.step = r.step /\ t.roots = r.roots
      /\ t.packages = packages /\ t.sources = r.sources
  BY <1>1, <1>3, <1>4, <1>6 DEF Session
<1>8. SessionShape(t)
  BY <1>1, <1>6, <1>7 DEF SessionShape
<1>9. Ends(s, t, g)
  BY <1>4, <1>7 DEF Ends
<1>10. \/ rest = <<>> /\ t.stack = <<>>
       \/ /\ rest # <<>>
          /\ \E x \in FrameType :
               ToSet(t.stack) = {x} \cup ToSet(Tail(rest)) /\ ReturnsTo(t, g, b, x)
  <2>1. CASE rest = <<>>
    BY <1>7, <2>1 DEF stack
  <2>2. CASE rest # <<>>
    BY <1>5, <1>7, <2>2
  <2> QED
    BY <2>1, <2>2
<1> QED
  BY <1>7, <1>8, <1>9, <1>10 DEF SessionOK, Returns

-----------------------------------------------------------------------------
(* What the actions do to the session of the process that takes them.      *)

(* The session of a process before a step of it.                           *)
LEMMA SessionBefore ==
    ASSUME TypeOK, NEW q \in Process
    PROVE  /\ SessionOK(proc[q]) /\ proc[q] \in Session
           /\ \A s : Set(q, s) => proc'[q] = s
           /\ proc[q].stack # <<>> =>
                /\ Top(q) = Head(proc[q].stack) /\ Top(q) \in FrameType
                /\ FrameShape(Top(q)) /\ proc[q].step = "import"
<1>1. proc[q] \in Session /\ SessionShape(proc[q])
  BY DEF TypeOK
<1>2. \A s : Set(q, s) => proc'[q] = s
  BY DEF TypeOK, Set
<1>3. ASSUME proc[q].stack # <<>>
      PROVE  /\ Top(q) = Head(proc[q].stack) /\ Top(q) \in FrameType
             /\ FrameShape(Top(q)) /\ proc[q].step = "import"
  <2>1. proc[q].stack \in Seq(FrameType)
    BY <1>1 DEF Session
  <2>2. Top(q) \in FrameType /\ Top(q) \in ToSet(proc[q].stack)
    BY <1>3, <2>1, StackTop DEF Top
  <2> QED
    BY <1>1, <1>3, <2>2 DEF Top, SessionShape
<1> QED
  BY <1>1, <1>2, <1>3 DEF SessionOK

(* A command starts, waits for the next change or is killed.               *)
LEMMA ResetTurn ==
    ASSUME TypeOK, NEW q \in Process, Start(q) \/ WaitForChange(q) \/ Crash(q)
    PROVE  SessionOK(proc'[q]) /\ Resets(q, proc[q], proc'[q])
<1>1. /\ proc[q] \in Session /\ \A s : Set(q, s) => proc'[q] = s
      /\ conf.roots[q] \in Seq(Package)
  BY SessionBefore, BuildAssumption DEF TypeOK
<1>2. /\ <<>> \in Seq(FrameType) /\ ToSet(<<>>) = {}
      /\ <<>> \in Maps(Package, Nat) /\ <<>> \in Maps(Package, Source)
      /\ <<>> \in Seq(Package)
  BY NothingThere
<1>3. ToSet(conf.roots[q]) \subseteq Package
  BY <1>1, StackMembers
<1> DEFINE w == IF Watching(q) THEN ToSet(conf.roots[q]) ELSE {}
           n == [NewSession(q) EXCEPT !.left = @ - 1, !.watched = w]
<1>7. w \in SUBSET Package
  BY <1>3
<1> HIDE DEF w
<1>4. CASE Start(q)
  <2>1. proc'[q] = n /\ UNCHANGED cacheDir /\ proc[q].left - 1 \in Nat
    BY <1>1, <1>4 DEF Start, w, Session
  <2>2. /\ NewSession(q) \in Session
        /\ NewSession(q).stack = <<>> /\ NewSession(q).step = "import"
        /\ NewSession(q).packages = <<>> /\ NewSession(q).sources = <<>>
        /\ NewSession(q).roots = conf.roots[q] /\ NewSession(q).left = proc[q].left
    BY <1>1, <1>2 DEF NewSession, Session
  <2>3. /\ n \in Session /\ n.stack = <<>> /\ n.step = "import"
        /\ n.packages = <<>> /\ n.sources = <<>> /\ n.roots = conf.roots[q]
    BY <1>7, <2>1, <2>2 DEF Session
  <2> QED
    BY <1>2, <2>1, <2>3 DEF SessionOK, SessionShape, Resets
<1>5. CASE WaitForChange(q)
  <2> DEFINE v == [NewSession(q) EXCEPT !.watched = ToSet(conf.roots[q])]
  <2>1. proc'[q] = v /\ UNCHANGED cacheDir
    BY <1>1, <1>5 DEF WaitForChange
  <2>2. /\ NewSession(q) \in Session
        /\ NewSession(q).stack = <<>> /\ NewSession(q).step = "import"
        /\ NewSession(q).packages = <<>> /\ NewSession(q).sources = <<>>
        /\ NewSession(q).roots = conf.roots[q]
    BY <1>1, <1>2 DEF NewSession, Session
  <2>3. v \in Session
    BY <1>3, <2>2 DEF Session
  <2>4. v.stack = <<>> /\ v.step = "import" /\ v.packages = <<>> /\ v.sources = <<>>
        /\ v.roots = conf.roots[q]
    BY <2>2 DEF Session
  <2> HIDE DEF v
  <2> QED
    BY <1>2, <2>1, <2>3, <2>4 DEF SessionOK, SessionShape, Resets
<1>6. CASE Crash(q)
  <2>1. proc'[q] = [Idle(q) EXCEPT !.left = proc[q].left] /\ UNCHANGED cacheDir
    BY <1>1, <1>6 DEF Crash
  <2>2. proc'[q] = [step |-> "idle", roots |-> <<>>, stack |-> <<>>,
             packages |-> <<>>, sources |-> <<>>, watched |-> {}, event |-> FALSE,
             output |-> None, left |-> proc[q].left]
    BY <2>1 DEF Idle
  <2>3. proc[q].left \in Nat
    BY <1>1 DEF Session
  <2>4. proc'[q] \in Session
    BY <1>2, <2>2, <2>3 DEF Session
  <2> QED
    BY <1>2, <2>1, <2>2, <2>4 DEF SessionOK, SessionShape, Resets
<1> QED
  BY <1>4, <1>5, <1>6

(* The program is written, or not.                                         *)
LEMMA WriteTurn ==
    ASSUME TypeOK, NEW q \in Process, CompileAndWrite(q)
    PROVE  SessionOK(proc'[q]) /\ Resets(q, proc[q], proc'[q])
<1> DEFINE s == proc[q]
           e == Ended(q, s)
<1>1. /\ s \in Session
      /\ \/ proc'[q] = [e EXCEPT !.output = s.sources]
         \/ proc'[q] = e
  BY SessionBefore DEF CompileAndWrite, WriteCommandPackage
<1>2. SessionOK(e) /\ e.stack = <<>> /\ e.step # "import" /\ e.sources = s.sources
  BY <1>1, EndedOK
<1>3. s.sources \in Maps(Package, Source)
  BY <1>1 DEF Session
<1>4. UNCHANGED cacheDir
  BY DEF CompileAndWrite
<1> HIDE DEF e
<1>5. CASE proc'[q] = e
  BY <1>2, <1>4, <1>5 DEF Resets
<1>6. CASE proc'[q] = [e EXCEPT !.output = s.sources]
  BY <1>2, <1>3, <1>4, <1>6 DEF Resets, SessionOK, SessionShape, Session
<1> QED
  BY <1>1, <1>5, <1>6

(* A build that fails.                                                     *)
LEMMA FailTurn ==
    ASSUME TypeOK, NEW q \in Process, NEW s \in Session, s.sources = proc[q].sources,
           proc'[q] = Ended(q, s), UNCHANGED cacheDir
    PROVE  SessionOK(proc'[q]) /\ Resets(q, proc[q], proc'[q])
BY EndedOK DEF Resets

(* A root is imported.                                                     *)
LEMMA RootTurn ==
    ASSUME TypeOK, NEW q \in Process, ImportRoot(q)
    PROVE  /\ SessionOK(proc'[q])
           /\ Roots(q, proc[q], proc'[q]) \/ Resets(q, proc[q], proc'[q])
<1> DEFINE p == Head(proc[q].roots)
           s == [proc[q] EXCEPT !.roots = Tail(@)]
           f == RootFrame(q, p)
<1>1. /\ proc[q] \in Session /\ proc[q].roots \in Seq(Package) /\ proc[q].roots # <<>>
      /\ proc[q].stack = <<>> /\ proc[q].step = "import" /\ UNCHANGED cacheDir
  BY SessionBefore DEF ImportRoot, Session
<1>2. p \in Package /\ Tail(proc[q].roots) \in Seq(Package)
  BY <1>1, StackTop
<1>3. s \in Session /\ s.sources = proc[q].sources
  BY <1>1, <1>2 DEF Session
<1>4. \/ proc'[q] = Ended(q, s)
      \/ proc'[q] = [s EXCEPT !.stack = <<f>>]
  BY SessionBefore DEF ImportRoot, RootFrame
<1>5. CASE proc'[q] = Ended(q, s)
  BY <1>1, <1>3, <1>5, FailTurn
<1>6. CASE proc'[q] = [s EXCEPT !.stack = <<f>>]
  <2>1. f \in FrameType /\ FrameShape(f)
    BY <1>2, NewRootFrame
  <2>2. <<f>> \in Seq(FrameType) /\ ToSet(<<f>>) = {f}
    BY <2>1 DEF ToSet
  <2> HIDE DEF f
  <2>3. /\ proc'[q] \in Session /\ proc'[q].stack = <<f>> /\ proc'[q].step = "import"
        /\ proc'[q].roots = Tail(proc[q].roots)
        /\ proc'[q].packages = proc[q].packages /\ proc'[q].sources = proc[q].sources
    BY <1>1, <1>3, <1>6, <2>2 DEF Session
  <2> QED
    BY <1>1, <2>1, <2>2, <2>3 DEF SessionOK, SessionShape, Roots, f
<1> QED
  BY <1>4, <1>5, <1>6

(* The main package of a test is made.                                     *)
LEMMA MainTurn ==
    ASSUME TypeOK, NEW q \in Process, LoadTestMain(q)
    PROVE  SessionOK(proc'[q]) /\ Mains(q, proc[q], proc'[q])
<1> DEFINE f == TestFrame(q)
           src == Parsed(q, f)
           sources == Put(proc[q].sources, TestMain, src)
<1>1. /\ proc[q] \in Session /\ proc[q].roots \in Seq(Package) /\ proc[q].roots # <<>>
      /\ proc[q].stack = <<>> /\ proc[q].step = "import" /\ UNCHANGED cacheDir
  BY SessionBefore DEF LoadTestMain, Session
<1>2. Tail(proc[q].roots) \in Seq(Package) /\ Head(proc[q].roots) = TestMain
  BY <1>1, StackTop DEF LoadTestMain
<1>3. f \in FrameType /\ FrameShape(f)
  BY NewFrame, BuildAssumption DEF TestFrame
<1>4. src \in Source
  BY <1>3, ParsedSource
<1>5. sources \in Maps(Package, Source)
  BY <1>1, <1>4, MapPut, BuildAssumption DEF Session
<1>6. <<f>> \in Seq(FrameType) /\ ToSet(<<f>>) = {f}
  BY <1>3 DEF ToSet
<1>7. proc'[q] = [proc[q] EXCEPT !.roots = Tail(@), !.stack = <<f>>, !.sources = sources]
  BY SessionBefore DEF LoadTestMain, TestFrame
<1> HIDE DEF f, sources
<1>8. /\ proc'[q] \in Session /\ proc'[q].stack = <<f>> /\ proc'[q].step = "import"
      /\ proc'[q].roots = Tail(proc[q].roots)
      /\ proc'[q].packages = proc[q].packages /\ proc'[q].sources = sources
  BY <1>1, <1>2, <1>5, <1>6, <1>7 DEF Session
<1> QED
  BY <1>1, <1>2, <1>3, <1>6, <1>8 DEF SessionOK, SessionShape, Mains, f, sources

(* A step that replaces the frame on top and nothing else.                 *)
LEMMA AdvanceTurn ==
    ASSUME TypeOK, NEW q \in Process, proc[q].stack # <<>>,
           NEW f \in FrameType, FrameShape(f), Advance(q, proc[q], Top(q), f),
           proc'[q] = WithTop(proc[q], f), UNCHANGED cacheDir
    PROVE  SessionOK(proc'[q]) /\ Advances(q, proc[q], proc'[q])
<1>1. SessionOK(proc[q])
  BY SessionBefore
<1>2. /\ SessionOK(proc'[q]) /\ Tops(proc[q], proc'[q], f)
      /\ proc'[q].packages = proc[q].packages /\ proc'[q].sources = proc[q].sources
  BY <1>1, WithTopOK
<1> QED
  BY <1>2 DEF Advances, Top

(* A package imports another.                                              *)
LEMMA ImportTurn ==
    ASSUME TypeOK, NEW q \in Process, LoadImport(q)
    PROVE  /\ SessionOK(proc'[q])
           /\ \/ Advances(q, proc[q], proc'[q]) \/ Pushes(q, proc[q], proc'[q])
              \/ Resets(q, proc[q], proc'[q])
<1> DEFINE g == Top(q)
           s == proc[q]
<1>1. /\ SessionOK(s) /\ s \in Session /\ s.stack # <<>> /\ s.step = "import"
      /\ g = Head(s.stack) /\ g \in FrameType /\ FrameShape(g)
      /\ g.at \in {"deps", "unresolved"} /\ UNCHANGED cacheDir
  BY SessionBefore DEF LoadImport
<1>2. PICK i \in g.todo :
        Set(q, IF i \in DOMAIN s.packages
               THEN WithTop(s, [g EXCEPT !.todo = @ \ {i},
                            !.mod = IF g.at = "deps" THEN Later(@, s.packages[i]) ELSE @])
               ELSE IF disk[i].go = 0 THEN Ended(q, s)
               ELSE [s EXCEPT !.stack = <<Frame(q, i, "watch", FALSE)>> \o @])
  BY Zenon DEF LoadImport
<1>3. i \in Package /\ s.stack \in Seq(FrameType)
  BY <1>1 DEF FrameType, Session
<1>4. CASE i \in DOMAIN s.packages
  <2> DEFINE f == [g EXCEPT !.todo = @ \ {i},
                       !.mod = IF g.at = "deps" THEN Later(@, s.packages[i]) ELSE @]
  <2>1. s.packages[i] \in Nat /\ g.mod \in Nat
    BY <1>1, <1>4, MapHolds DEF Session, FrameType
  <2>2. Later(g.mod, s.packages[i]) \in Nat
    BY <2>1 DEF Later
  <2>3. /\ f \in FrameType /\ f.at = g.at /\ f.todo = g.todo \ {i}
        /\ SameFiles(f, g) /\ f.test = g.test /\ f.listed = g.listed
    BY <1>1, <2>2 DEF FrameType, SameFiles
  <2>4. proc'[q] = WithTop(s, f)
    BY <1>2, <1>4, SessionBefore
  <2> HIDE DEF f
  <2>5. FrameShape(f)
    BY <1>1, <2>3 DEF FrameShape
  <2>6. Advance(q, s, g, f)
    BY <1>1, <1>4, <2>3 DEF Advance, Compared, Mid
  <2> QED
    BY <1>1, <2>3, <2>4, <2>5, <2>6, AdvanceTurn
<1>5. CASE i \notin DOMAIN s.packages /\ disk[i].go = 0
  <2>1. proc'[q] = Ended(q, s)
    BY <1>2, <1>5, SessionBefore
  <2> QED
    BY <1>1, <2>1, FailTurn
<1>6. CASE i \notin DOMAIN s.packages /\ disk[i].go # 0
  <2> DEFINE f == Frame(q, i, "watch", FALSE)
             k == <<f>> \o s.stack
  <2>1. proc'[q] = [s EXCEPT !.stack = k]
    BY <1>2, <1>6, SessionBefore
  <2>2. f \in FrameType /\ FrameShape(f)
    BY <1>3, NewFrame
  <2> HIDE DEF f
  <2>3. k \in Seq(FrameType) /\ k # <<>> /\ ToSet(k) = {f} \cup ToSet(s.stack)
    BY <1>3, <2>2, StackPush
  <2> HIDE DEF k
  <2>4. /\ proc'[q] \in Session /\ proc'[q].stack = k /\ proc'[q].step = s.step
        /\ proc'[q].roots = s.roots
        /\ proc'[q].packages = s.packages /\ proc'[q].sources = s.sources
    BY <1>1, <2>1, <2>3 DEF Session
  <2>5. SessionOK(proc'[q])
    BY <1>1, <2>2, <2>3, <2>4 DEF SessionOK, SessionShape
  <2>6. Pushes(q, s, proc'[q])
    BY <1>1, <1>6, <2>3, <2>4 DEF Pushes, f
  <2> QED
    BY <2>5, <2>6
<1> QED
  BY <1>4, <1>5, <1>6

(* A package is watched: what it imports comes next, or it is loaded.      *)
LEMMA WatchTurn ==
    ASSUME TypeOK, NEW q \in Process, AddWatch(q)
    PROVE  /\ SessionOK(proc'[q])
           /\ Watches(q, proc[q], proc'[q]) \/ Returns(q, proc[q], proc'[q])
<1> DEFINE g == Top(q)
           s == proc[q]
           packages == Put(s.packages, g.p, 0)
           watched == IF Watching(q) THEN s.watched \cup {g.p} ELSE s.watched
           r == [s EXCEPT !.watched = watched, !.packages = packages]
<1>1. /\ SessionOK(s) /\ s \in Session /\ s.stack # <<>> /\ s.step = "import"
      /\ g = Head(s.stack) /\ g \in FrameType /\ FrameShape(g)
      /\ g.at = "watch" /\ UNCHANGED cacheDir
  BY SessionBefore DEF AddWatch
<1>2. \/ g.p \in DOMAIN r.sources /\ proc'[q] = Return(q, r, 0)
      \/ g.p \notin DOMAIN r.sources /\ proc'[q] = WithTop(r, [g EXCEPT !.at = "deps"])
  BY SessionBefore DEF AddWatch
<1>3. /\ packages \in Maps(Package, Nat) /\ DOMAIN packages = DOMAIN s.packages \cup {g.p}
      /\ watched \in SUBSET Package
  <2>1. /\ s.packages \in Maps(Package, Nat) /\ g.p \in Package
        /\ s.watched \in SUBSET Package
    BY <1>1 DEF Session, FrameType
  <2>2. watched \in SUBSET Package
    BY <2>1
  <2>3. DOMAIN packages = DOMAIN s.packages \cup {g.p}
    BY DEF Put
  <2>4. ASSUME NEW n \in Nat PROVE Put(s.packages, g.p, n) \in Maps(Package, Nat)
    BY <2>1, MapPut
  <2>5. packages \in Maps(Package, Nat)
    BY <2>4
  <2> QED
    BY <2>2, <2>3, <2>5
<1> HIDE DEF packages, watched
<1>4. /\ r \in Session /\ r.stack = s.stack /\ r.step = s.step /\ r.roots = s.roots
      /\ r.sources = s.sources /\ r.packages = packages
  BY <1>1, <1>3 DEF Session
<1>5. SessionOK(r)
  BY <1>1, <1>4 DEF SessionOK, SessionShape
<1> HIDE DEF r
<1>6. CASE g.p \in DOMAIN r.sources /\ proc'[q] = Return(q, r, 0)
  BY <1>1, <1>3, <1>4, <1>5, <1>6, ReturnOK
<1>7. CASE g.p \notin DOMAIN r.sources /\ proc'[q] = WithTop(r, [g EXCEPT !.at = "deps"])
  <2> DEFINE f == [g EXCEPT !.at = "deps"]
  <2>1. /\ f \in FrameType /\ f.at = "deps" /\ SameFiles(f, g) /\ f.test = g.test
        /\ f.listed = g.listed /\ f.todo = g.todo
    BY <1>1 DEF FrameType, SameFiles
  <2>2. FrameShape(f)
    BY <2>1 DEF FrameShape
  <2>3. proc'[q] = WithTop(r, f)
    BY <1>7
  <2> HIDE DEF f
  <2>4. /\ SessionOK(proc'[q]) /\ Tops(r, proc'[q], f)
        /\ proc'[q].packages = r.packages /\ proc'[q].sources = r.sources
    BY <1>1, <1>4, <1>5, <2>1, <2>2, <2>3, WithTopOK
  <2>5. Watched(s, proc'[q], g, f)
    BY <1>1, <1>3, <1>4, <1>7, <2>1, <2>4 DEF Watched, Tops
  <2> QED
    BY <1>1, <1>4, <2>1, <2>4, <2>5 DEF Watches
<1> QED
  BY <1>2, <1>6, <1>7

(* The files of a package are compared with the cache: FileModTime, Open.  *)
LEMMA CompareTurn ==
    ASSUME TypeOK, NEW q \in Process, ReadModTime(q) \/ CacheOpen(q)
    PROVE  SessionOK(proc'[q]) /\ Advances(q, proc[q], proc'[q])
<1> DEFINE g == Top(q)
           s == proc[q]
           key == PackageKey(q, g.p)
<1>1. /\ SessionOK(s) /\ s \in Session /\ s.stack # <<>> /\ s.step = "import"
      /\ g = Head(s.stack) /\ g \in FrameType /\ FrameShape(g) /\ UNCHANGED cacheDir
  BY SessionBefore DEF ReadModTime, CacheOpen
<1>2. ASSUME ReadModTime(q)
      PROVE  \E f \in FrameType : FrameShape(f) /\ Advance(q, s, g, f) /\ proc'[q] = WithTop(s, f)
  <2> DEFINE d == [disk[g.p] EXCEPT !.js = g.js, !.jsTime = g.jsTime]
             mod == Later(g.mod, Later(g.jsTime, disk[g.p].goTime))
             at == IF conf.cached THEN "open" ELSE "parse"
             f == [g EXCEPT !.mod = mod, !.disk = d, !.at = at]
  <2>1. proc'[q] = WithTop(s, f) /\ g.at = "deps" /\ g.todo = {}
    BY <1>2, SessionBefore DEF ReadModTime, Later
  <2>2. /\ disk[g.p] \in FilesOnDisk /\ g.mod \in Nat /\ g.jsTime \in Nat /\ g.js \in Nat
        /\ disk[g.p].goTime \in Nat
    BY <1>1 DEF TypeOK, FrameType, FilesOnDisk
  <2>3. mod \in Nat /\ disk[g.p].goTime <= mod /\ g.jsTime <= mod
    BY <2>2 DEF Later
  <2>4. d \in FilesOnDisk /\ d.goTime = disk[g.p].goTime
    BY <2>2 DEF FilesOnDisk
  <2>5. at \in {"open", "parse"}
    OBVIOUS
  <2> HIDE DEF d, mod, at
  <2>6. /\ f \in FrameType /\ f.at = at /\ SameFiles(f, g) /\ f.test = g.test
        /\ f.listed = g.listed /\ f.todo = g.todo /\ f.mod = mod /\ f.disk = d
    BY <1>1, <2>3, <2>4, <2>5 DEF FrameType, SameFiles, Mid
  <2> HIDE DEF f
  <2>7. FrameShape(f)
    BY <2>4, <2>5, <2>6 DEF FrameShape
  <2>8. d = [disk[f.p] EXCEPT !.js = f.js, !.jsTime = f.jsTime]
    BY <2>6 DEF d, SameFiles
  <2>9. Advance(q, s, g, f)
    BY <2>1, <2>3, <2>4, <2>5, <2>6, <2>8 DEF Advance, SameFiles, Compared
  <2> QED
    BY <2>1, <2>6, <2>7, <2>9
<1>3. ASSUME CacheOpen(q)
      PROVE  \E f \in FrameType : FrameShape(f) /\ Advance(q, s, g, f) /\ proc'[q] = WithTop(s, f)
  <2>1. /\ g.at = "open"
        /\ \/ proc'[q] = WithTop(s, [g EXCEPT !.at = "parse"])
           \/ /\ ~ IsTestPackage(q, g.p) /\ key \in DOMAIN cacheDir
              /\ proc'[q] = WithTop(s, [g EXCEPT !.at = "read", !.file = cacheDir[key]])
    BY <1>3, SessionBefore DEF CacheOpen
  <2>2. ASSUME proc'[q] = WithTop(s, [g EXCEPT !.at = "parse"])
        PROVE  \E f \in FrameType : FrameShape(f) /\ Advance(q, s, g, f) /\ proc'[q] = WithTop(s, f)
    <3> DEFINE f == [g EXCEPT !.at = "parse"]
    <3>1. /\ f \in FrameType /\ f.at = "parse" /\ SameFiles(f, g) /\ f.test = g.test
          /\ f.listed = g.listed /\ f.todo = g.todo
      BY <1>1 DEF FrameType, SameFiles, Mid
    <3>2. proc'[q] = WithTop(s, f)
      BY <2>2
    <3> HIDE DEF f
    <3>3. FrameShape(f) /\ Advance(q, s, g, f)
      BY <2>1, <3>1 DEF FrameShape, Advance, Compared, Mid
    <3> QED
      BY <3>1, <3>2, <3>3
  <2>3. ASSUME ~ IsTestPackage(q, g.p), key \in DOMAIN cacheDir,
               proc'[q] = WithTop(s, [g EXCEPT !.at = "read", !.file = cacheDir[key]])
        PROVE  \E f \in FrameType : FrameShape(f) /\ Advance(q, s, g, f) /\ proc'[q] = WithTop(s, f)
    <3> DEFINE f == [g EXCEPT !.at = "read", !.file = cacheDir[key]]
    <3>1. cacheDir[key] \in StoredFile
      BY <2>3, MapHolds DEF TypeOK
    <3>2. /\ f \in FrameType /\ f.at = "read" /\ SameFiles(f, g) /\ f.test = g.test
          /\ f.listed = g.listed /\ f.todo = g.todo /\ f.file = cacheDir[key]
          /\ f.disk = g.disk /\ f.mod = g.mod
      BY <1>1, <3>1 DEF FrameType, SameFiles, Mid
    <3>3. proc'[q] = WithTop(s, f)
      BY <2>3
    <3> HIDE DEF f
    <3>4. FrameShape(f)
      BY <1>1, <2>1, <3>1, <3>2 DEF FrameShape
    <3>5. PackageKey(q, f.p) = key
      BY <3>2 DEF SameFiles
    <3>6. Advance(q, s, g, f)
      BY <2>1, <2>3, <3>2, <3>5 DEF Advance, SameFiles, Compared, Mid
    <3> QED
      BY <3>2, <3>3, <3>4, <3>6
  <2> QED
    BY <2>1, <2>2, <2>3
<1> HIDE DEF g, s
<1>4. PICK f \in FrameType : FrameShape(f) /\ Advance(q, s, g, f) /\ proc'[q] = WithTop(s, f)
  BY <1>2, <1>3
<1> QED
  BY <1>1, <1>4, AdvanceTurn DEF g, s

(* The stored sources are taken, or they are out of date.                  *)
LEMMA ReadTurn ==
    ASSUME TypeOK, NEW q \in Process, CacheRead(q)
    PROVE  /\ SessionOK(proc'[q])
           /\ Advances(q, proc[q], proc'[q]) \/ Keeps(q, proc[q], proc'[q])
<1> DEFINE g == Top(q)
           s == proc[q]
           src == [g.file.src EXCEPT !.from = g.file.time, !.disk = g.disk]
<1>1. /\ SessionOK(s) /\ s \in Session /\ s.stack # <<>> /\ s.step = "import"
      /\ g = Head(s.stack) /\ g \in FrameType /\ FrameShape(g)
      /\ g.at = "read" /\ UNCHANGED cacheDir
  BY SessionBefore DEF CacheRead
<1>2. g.file \in StoredFile /\ g.disk \in FilesOnDisk /\ g.mod \in Nat
  BY <1>1 DEF FrameShape, FrameType
<1>3. \/ proc'[q] = WithTop(s, [g EXCEPT !.at = "parse"])
      \/ ~ (g.mod > g.file.time) /\ proc'[q] = Keep(s, src)
  BY SessionBefore DEF CacheRead, OutOfDate
<1>4. CASE proc'[q] = WithTop(s, [g EXCEPT !.at = "parse"])
  <2> DEFINE f == [g EXCEPT !.at = "parse"]
  <2>1. /\ f \in FrameType /\ f.at = "parse" /\ SameFiles(f, g) /\ f.test = g.test
        /\ f.listed = g.listed /\ f.todo = g.todo
    BY <1>1 DEF FrameType, SameFiles, Mid
  <2>2. proc'[q] = WithTop(s, f)
    BY <1>4
  <2> HIDE DEF f
  <2>3. FrameShape(f) /\ Advance(q, s, g, f)
    BY <1>1, <2>1 DEF FrameShape, Advance, Compared, Mid
  <2> QED
    BY <1>1, <2>1, <2>2, <2>3, AdvanceTurn
<1>5. CASE ~ (g.mod > g.file.time) /\ proc'[q] = Keep(s, src)
  <2>1. g.file.src \in Source /\ g.file.time \in Nat /\ g.mod <= g.file.time
    BY <1>2, <1>5 DEF StoredFile
  <2>2. src \in Source
    BY <1>2, <2>1 DEF Source
  <2>3. Sourced(q, g, src)
    BY <1>1, <2>1 DEF Sourced
  <2> HIDE DEF src
  <2>4. g.at \in Mid
    BY <1>1 DEF Mid
  <2> QED
    BY <1>1, <1>5, <2>2, <2>3, <2>4, KeepOK
<1> QED
  BY <1>3, <1>4, <1>5

(* The files are parsed.                                                   *)
LEMMA ParseTurn ==
    ASSUME TypeOK, NEW q \in Process, Parse(q)
    PROVE  /\ SessionOK(proc'[q])
           /\ \/ Advances(q, proc[q], proc'[q]) \/ Keeps(q, proc[q], proc'[q])
              \/ Resets(q, proc[q], proc'[q])
<1> DEFINE g == Top(q)
           s == proc[q]
           src == Parsed(q, g)
<1>1. /\ SessionOK(s) /\ s \in Session /\ s.stack # <<>> /\ s.step = "import"
      /\ g = Head(s.stack) /\ g \in FrameType /\ FrameShape(g)
      /\ g.at = "parse" /\ UNCHANGED cacheDir
  BY SessionBefore DEF Parse
<1>2. src \in Source
  BY <1>1, ParsedSource
<1>3. \/ proc'[q] = Ended(q, s)
      \/ proc'[q] = WithTop(s, [g EXCEPT !.at = "store", !.src = src])
      \/ proc'[q] = Keep(s, src)
  BY SessionBefore DEF Parse
<1>4. CASE proc'[q] = Ended(q, s)
  BY <1>1, <1>4, FailTurn
<1>5. CASE proc'[q] = WithTop(s, [g EXCEPT !.at = "store", !.src = src])
  <2> DEFINE f == [g EXCEPT !.at = "store", !.src = src]
  <2>0. src = Parsed(q, g)
    OBVIOUS
  <2> HIDE DEF src
  <2>1. /\ f \in FrameType /\ f.at = "store" /\ SameFiles(f, g) /\ f.test = g.test
        /\ f.listed = g.listed /\ f.todo = g.todo /\ f.src = src
    BY <1>1, <1>2 DEF FrameType, SameFiles, Mid
  <2>2. proc'[q] = WithTop(s, f)
    BY <1>5
  <2> HIDE DEF f
  <2>3. FrameShape(f) /\ Advance(q, s, g, f)
    BY <1>1, <1>2, <2>0, <2>1 DEF FrameShape, Advance, Compared, Mid
  <2> QED
    BY <1>1, <2>1, <2>2, <2>3, AdvanceTurn
<1>6. CASE proc'[q] = Keep(s, src)
  <2>1. Sourced(q, g, src) /\ g.at \in Mid
    BY <1>1 DEF Sourced, Mid
  <2> HIDE DEF src
  <2> QED
    BY <1>1, <1>2, <1>6, <2>1, KeepOK
<1> QED
  BY <1>3, <1>4, <1>5, <1>6

(* The sources are stored.                                                 *)
LEMMA StoreTurn ==
    ASSUME TypeOK, NEW q \in Process, StoreTemp(q) \/ StoreRename(q)
    PROVE  /\ SessionOK(proc'[q])
           /\ Advances(q, proc[q], proc'[q]) \/ Keeps(q, proc[q], proc'[q])
<1> DEFINE g == Top(q)
           s == proc[q]
<1>1. /\ SessionOK(s) /\ s \in Session /\ s.stack # <<>> /\ s.step = "import"
      /\ g = Head(s.stack) /\ g \in FrameType /\ FrameShape(g)
      /\ g.at \in {"store", "rename"}
  BY SessionBefore DEF StoreTemp, StoreRename
<1>2. g.src \in Source /\ Sourced(q, g, g.src) /\ g.at \in Mid
  BY <1>1 DEF FrameShape, Sourced, Mid
<1>3. CASE StoreTemp(q)
  <2> DEFINE file == [src |-> g.src, time |-> clock]
             f == [g EXCEPT !.at = "rename", !.file = file]
  <2>1. /\ g.at = "store" /\ UNCHANGED cacheDir
        /\ \/ proc'[q] = Keep(s, g.src)
           \/ ~ IsTestPackage(q, g.p) /\ proc'[q] = WithTop(s, f)
    BY <1>3, SessionBefore DEF StoreTemp
  <2>2. CASE proc'[q] = Keep(s, g.src)
    BY <1>1, <1>2, <2>1, <2>2, KeepOK
  <2>3. CASE ~ IsTestPackage(q, g.p) /\ proc'[q] = WithTop(s, f)
    <3>1. file \in StoredFile /\ file.src = g.src
      BY <1>2 DEF TypeOK, StoredFile
    <3> HIDE DEF file
    <3>2. /\ f \in FrameType /\ f.at = "rename" /\ SameFiles(f, g) /\ f.test = g.test
          /\ f.listed = g.listed /\ f.todo = g.todo /\ f.src = g.src /\ f.file = file
      BY <1>1, <3>1 DEF FrameType, SameFiles, Mid
    <3>3. proc'[q] = WithTop(s, f)
      BY <2>3
    <3> HIDE DEF f
    <3>4. FrameShape(f) /\ Advance(q, s, g, f)
      BY <1>2, <2>1, <2>3, <3>1, <3>2 DEF FrameShape, Advance, Compared, Mid, SameFiles
    <3> QED
      BY <1>1, <2>1, <3>2, <3>3, <3>4, AdvanceTurn
  <2> QED
    BY <2>1, <2>2, <2>3
<1>4. CASE StoreRename(q)
  <2>1. /\ proc'[q] = Keep(s, g.src)
        /\ Stores(q, g) \/ UNCHANGED cacheDir
    BY <1>4, SessionBefore DEF StoreRename, Stores
  <2> QED
    BY <1>1, <1>2, <2>1, KeepOK
<1> QED
  BY <1>3, <1>4

(* All that a package imports is loaded.                                   *)
LEMMA LoadedTurn ==
    ASSUME TypeOK, NEW q \in Process, Loaded(q)
    PROVE  SessionOK(proc'[q]) /\ Returns(q, proc[q], proc'[q])
<1> DEFINE g == Top(q)
           s == proc[q]
<1>1. /\ SessionOK(s) /\ s.stack # <<>> /\ g = Head(s.stack) /\ g \in FrameType
      /\ g.at = "unresolved" /\ g.todo = {} /\ UNCHANGED cacheDir
      /\ proc'[q] = Return(q, s, g.mod)
  BY SessionBefore DEF Loaded
<1>2. g.mod \in Nat
  BY <1>1 DEF FrameType
<1> QED
  BY <1>1, <1>2, ReturnOK

(* Every step of a process is one of these turns, of its session alone.    *)
LEMMA EveryTurn ==
    ASSUME TypeOK, NEW q \in Process, Step(q) \/ Crash(q)
    PROVE  /\ SessionOK(proc'[q]) /\ Turn(q, proc[q], proc'[q])
           /\ proc' = [proc EXCEPT ![q] = proc'[q]]
           /\ UNCHANGED <<conf, disk, clock>>
<1>1. SessionOK(proc'[q]) /\ Turn(q, proc[q], proc'[q])
  <2>1. CASE Start(q) \/ WaitForChange(q) \/ Crash(q)
    BY <2>1, ResetTurn DEF Turn
  <2>2. CASE ImportRoot(q)
    BY <2>2, RootTurn DEF Turn
  <2>3. CASE LoadTestMain(q)
    BY <2>3, MainTurn DEF Turn
  <2>4. CASE LoadImport(q)
    BY <2>4, ImportTurn DEF Turn
  <2>5. CASE AddWatch(q)
    BY <2>5, WatchTurn DEF Turn
  <2>6. CASE ReadModTime(q) \/ CacheOpen(q)
    BY <2>6, CompareTurn DEF Turn
  <2>7. CASE CacheRead(q)
    BY <2>7, ReadTurn DEF Turn
  <2>8. CASE Parse(q)
    BY <2>8, ParseTurn DEF Turn
  <2>9. CASE StoreTemp(q) \/ StoreRename(q)
    BY <2>9, StoreTurn DEF Turn
  <2>10. CASE Loaded(q)
    BY <2>10, LoadedTurn DEF Turn
  <2>11. CASE CompileAndWrite(q)
    BY <2>11, WriteTurn DEF Turn
  <2> QED
    BY <2>1, <2>2, <2>3, <2>4, <2>5, <2>6, <2>7, <2>8, <2>9, <2>10, <2>11 DEF Step
<1>2. \E s : Set(q, s)
  BY Zenon DEF Step, Start, ImportRoot, LoadTestMain, LoadImport, AddWatch, ReadModTime,
       CacheOpen, CacheRead, Parse, StoreTemp, StoreRename, Loaded, CompileAndWrite,
       WaitForChange, Crash
<1>3. proc' = [proc EXCEPT ![q] = proc'[q]]
  BY <1>2 DEF Set, TypeOK
<1>4. UNCHANGED <<conf, disk, clock>>
  BY Zenon DEF Step, Start, ImportRoot, LoadTestMain, LoadImport, AddWatch, ReadModTime,
       CacheOpen, CacheRead, Parse, StoreTemp, StoreRename, Loaded, CompileAndWrite,
       WaitForChange, Crash
<1> QED
  BY <1>1, <1>3, <1>4

(* What the world around a process leaves of its session.                  *)
SameSession(s, t) ==
    /\ t.step = s.step /\ t.roots = s.roots /\ t.stack = s.stack
    /\ t.packages = s.packages /\ t.sources = s.sources

(* A change is noticed and nothing else happens to the sessions.           *)
LEMMA NotifyTurn ==
    ASSUME TypeOK, NEW p \in Package, Notify(p)
    PROVE  /\ proc' \in [Process -> Session]
           /\ \A q \in Process : SessionOK(proc'[q]) /\ SameSession(proc[q], proc'[q])
<1>1. ASSUME NEW q \in Process
      PROVE  /\ proc'[q] \in Session /\ SessionOK(proc'[q])
             /\ SameSession(proc[q], proc'[q])
  <2>1. proc[q] \in Session /\ SessionShape(proc[q])
    BY DEF TypeOK
  <2>2. \/ proc'[q] = proc[q]
        \/ proc'[q] = [proc[q] EXCEPT !.event = TRUE]
    BY DEF Notify
  <2>3. CASE proc'[q] = proc[q]
    BY <2>1, <2>3 DEF SessionOK, SameSession
  <2>4. CASE proc'[q] = [proc[q] EXCEPT !.event = TRUE]
    <3>1. proc'[q] \in Session /\ SameSession(proc[q], proc'[q])
      BY <2>1, <2>4 DEF Session, SameSession
    <3> QED
      BY <2>1, <3>1 DEF SessionOK, SessionShape, SameSession
  <2> QED
    BY <2>2, <2>3, <2>4
<1>2. proc' \in [Process -> Session]
  BY <1>1 DEF Notify
<1> QED
  BY <1>1, <1>2

(* What is stored is sources with the time of the call.                    *)
LEMMA CacheTyped ==
    ASSUME TypeOK, NEW q \in Process, Turn(q, proc[q], proc'[q])
    PROVE  cacheDir' \in Maps(Tags \X Package, StoredFile)
<1>1. CASE UNCHANGED cacheDir
  BY <1>1 DEF TypeOK
<1>2. CASE Keeps(q, proc[q], proc'[q]) /\ ~ UNCHANGED cacheDir
  <2> DEFINE g == Head(proc[q].stack)
  <2>1. /\ proc[q].stack # <<>> /\ Stores(q, g)
    BY <1>2 DEF Keeps, Keeping, Tops
  <2>2. g \in FrameType /\ FrameShape(g)
    BY <2>1, SessionBefore DEF Top
  <2>3. g.file \in StoredFile /\ g.p \in Package
    BY <2>1, <2>2 DEF Stores, FrameShape, FrameType
  <2>4. PackageKey(q, g.p) \in Tags \X Package
    BY <2>3 DEF PackageKey, Tags, TypeOK
  <2> QED
    <3>1. cacheDir \in Maps(Tags \X Package, StoredFile)
      BY DEF TypeOK
    <3>2. Put(cacheDir, PackageKey(q, g.p), g.file) \in Maps(Tags \X Package, StoredFile)
      <4>1. PICK key, file : key = PackageKey(q, g.p) /\ file = g.file
        OBVIOUS
      <4>2. key \in Tags \X Package /\ file \in StoredFile
        BY <2>3, <2>4, <4>1
      <4>3. Put(cacheDir, key, file) \in Maps(Tags \X Package, StoredFile)
        BY <3>1, <4>2, MapPut
      <4> QED
        BY <4>1, <4>3
    <3> QED
      BY <2>1, <3>2 DEF Stores
<1> QED
  BY <1>1, <1>2 DEF Turn, Advances, Watches, Returns, Pushes, Roots, Mains, Resets

(* Types hold from the start.                                              *)
LEMMA TypeInit == Init => TypeOK
<1> SUFFICES ASSUME Init PROVE TypeOK
  OBVIOUS
<1>1. /\ <<>> \in Seq(FrameType) /\ ToSet(<<>>) = {} /\ <<>> \in Seq(Package)
      /\ <<>> \in Maps(Package, Nat) /\ <<>> \in Maps(Package, Source)
      /\ <<>> \in Maps(Tags \X Package, StoredFile)
  BY NothingThere
<1>2. /\ conf \in Scenarios /\ disk \in [Package -> FilesOnDisk] /\ clock \in Nat
      /\ cacheDir \in Maps(Tags \X Package, StoredFile)
  BY <1>1, BuildAssumption DEF Init
<1>3. ASSUME NEW q \in Process PROVE Idle(q) \in Session /\ SessionShape(Idle(q))
  BY <1>1, BuildAssumption DEF Idle, Session, SessionShape
<1>4. ASSUME NEW q \in Process PROVE proc[q] \in Session /\ SessionShape(proc[q])
  <2>1. proc[q] = [Idle(q) EXCEPT !.left = IF q \in conf.procs THEN @ ELSE 0]
    BY DEF Init
  <2>2. Idle(q).left \in Nat
    BY <1>3 DEF Session
  <2>3. proc[q] \in Session /\ proc[q].stack = Idle(q).stack /\ proc[q].step = Idle(q).step
    BY <1>3, <2>1, <2>2 DEF Session
  <2> QED
    BY <1>3, <2>3 DEF SessionShape
<1>5. proc \in [Process -> Session]
  BY <1>4 DEF Init
<1> QED
  BY <1>2, <1>4, <1>5 DEF TypeOK

(* The world changes the disk, the clock and the cache.                    *)
LEMMA WorldTurn ==
    ASSUME TypeOK, World
    PROVE  /\ disk' \in [Package -> FilesOnDisk] /\ clock' \in Nat /\ conf' = conf
           /\ cacheDir' = cacheDir \/ cacheDir' = <<>>
           /\ proc' \in [Process -> Session]
           /\ \A q \in Process : SessionOK(proc'[q]) /\ SameSession(proc[q], proc'[q])
<1>0. proc' = proc =>
        /\ proc' \in [Process -> Session]
        /\ \A q \in Process : SessionOK(proc'[q]) /\ SameSession(proc[q], proc'[q])
  BY SessionBefore DEF TypeOK, SameSession
<1>1. ASSUME NEW p \in Package, NEW v \in Version, EditGo(p, v)
      PROVE  disk' \in [Package -> FilesOnDisk] /\ clock' \in Nat /\ conf' = conf
             /\ cacheDir' = cacheDir /\ Notify(p)
  <2>1. disk' = [disk EXCEPT ![p].go = v, ![p].goTime = clock]
    BY <1>1 DEF EditGo
  <2>2. disk[p] \in FilesOnDisk /\ clock \in Nat
    BY DEF TypeOK
  <2>3. [disk[p] EXCEPT !.go = v, !.goTime = clock] \in FilesOnDisk
    BY <2>2 DEF FilesOnDisk
  <2>4. disk' = [disk EXCEPT ![p] = [disk[p] EXCEPT !.go = v, !.goTime = clock]]
    BY <2>1 DEF TypeOK
  <2> QED
    BY <1>1, <2>2, <2>3, <2>4 DEF EditGo, TypeOK
<1>2. ASSUME NEW p \in Package, EditJs(p)
      PROVE  disk' \in [Package -> FilesOnDisk] /\ clock' \in Nat /\ conf' = conf
             /\ cacheDir' = cacheDir /\ Notify(p)
  <2>1. disk' = [disk EXCEPT ![p].js = @ + 1, ![p].jsTime = clock]
    BY <1>2 DEF EditJs
  <2>2. disk[p] \in FilesOnDisk /\ clock \in Nat /\ disk[p].js \in Nat
    BY DEF TypeOK, FilesOnDisk
  <2>5. disk[p].js + 1 \in Nat
    BY <2>2
  <2>3. [disk[p] EXCEPT !.js = disk[p].js + 1, !.jsTime = clock] \in FilesOnDisk
    BY <2>2, <2>5 DEF FilesOnDisk
  <2>4. disk' = [disk EXCEPT ![p] = [disk[p] EXCEPT !.js = disk[p].js + 1, !.jsTime = clock]]
    BY <2>1, <2>2 DEF TypeOK
  <2> QED
    BY <1>2, <2>2, <2>3, <2>4 DEF EditJs, TypeOK
<1>3. ASSUME Tick \/ Clear
      PROVE  disk' \in [Package -> FilesOnDisk] /\ clock' \in Nat /\ conf' = conf
             /\ (cacheDir' = cacheDir \/ cacheDir' = <<>>) /\ proc' = proc
  BY <1>3 DEF Tick, Clear, TypeOK
<1> QED
  BY <1>0, <1>1, <1>2, <1>3, NotifyTurn DEF World

(* Types are kept.                                                         *)
LEMMA TypeKept == TypeOK /\ [Next]_vars => TypeOK'
<1> SUFFICES ASSUME TypeOK, [Next]_vars PROVE TypeOK'
  OBVIOUS
<1>1. ASSUME NEW q \in Process, Step(q) \/ Crash(q) PROVE TypeOK'
  <2>1. /\ SessionOK(proc'[q]) /\ Turn(q, proc[q], proc'[q])
        /\ proc' = [proc EXCEPT ![q] = proc'[q]]
        /\ UNCHANGED <<conf, disk, clock>>
    BY <1>1, EveryTurn
  <2>2. cacheDir' \in Maps(Tags \X Package, StoredFile)
    BY <2>1, CacheTyped
  <2>3. ASSUME NEW r \in Process PROVE proc'[r] \in Session /\ SessionShape(proc'[r])
    <3>1. CASE r = q
      BY <2>1, <3>1 DEF SessionOK
    <3>2. CASE r # q
      BY <2>1, <3>2 DEF TypeOK
    <3> QED
      BY <3>1, <3>2
  <2>4. proc' \in [Process -> Session]
    BY <2>1, <2>3 DEF TypeOK
  <2> QED
    BY <2>1, <2>2, <2>3, <2>4 DEF TypeOK
<1>2. ASSUME World PROVE TypeOK'
  <2>1. /\ disk' \in [Package -> FilesOnDisk] /\ clock' \in Nat /\ conf' = conf
        /\ cacheDir' = cacheDir \/ cacheDir' = <<>>
        /\ proc' \in [Process -> Session]
        /\ \A q \in Process : SessionOK(proc'[q])
    BY <1>2, WorldTurn
  <2>2. cacheDir' \in Maps(Tags \X Package, StoredFile)
    BY <2>1, NothingThere DEF TypeOK
  <2> QED
    BY <2>1, <2>2 DEF TypeOK, SessionOK
<1>3. CASE UNCHANGED vars
  BY <1>3 DEF vars, TypeOK
<1> QED
  BY <1>1, <1>2, <1>3 DEF Next

(* The types of the sessions, the cache and the tree.                      *)
THEOREM BuildTypes == Spec => []TypeOK
BY TypeInit, TypeKept, PTL DEF Spec

-----------------------------------------------------------------------------
(* The sources are closed under import.  While a session imports, what its *)
(* sources import is known: it is registered, or it is still to come for   *)
(* a package on the stack.                                                 *)
IsKnown(s, i) ==
    \/ i \in DOMAIN s.packages \cup DOMAIN s.sources
    \/ \E f \in ToSet(s.stack) : f.at # "watch" /\ i \in f.todo
IsLoading(s, i) == \E f \in ToSet(s.stack) : f.p = i

FrameClosed(s, f) ==
    /\ \A i \in f.listed : IsKnown(s, i) \/ (f.at = "watch" /\ i \in f.todo)
    /\ f.at \in Mid => f.todo = {}
    /\ f.at = "unresolved" => f.p \in DOMAIN s.sources
SessionClosed(s) ==
    s.step = "import" =>
      /\ \A i \in DOMAIN s.packages : i \in DOMAIN s.sources \/ IsLoading(s, i)
      /\ \A p \in DOMAIN s.sources : \A i \in FileImports(s.sources[p]) : IsKnown(s, i)
      /\ \A f \in ToSet(s.stack) : FrameClosed(s, f)
Closed == \A q \in Process : SessionClosed(proc[q])

(* It is enough that nothing known before is lost and that the frames that *)
(* are new and the sources that are new are closed.                        *)
LEMMA ClosedNext ==
    ASSUME NEW s, NEW t, s.step = "import", SessionClosed(s),
           \A i : IsKnown(s, i) => IsKnown(t, i),
           DOMAIN s.sources \subseteq DOMAIN t.sources,
           \A i \in DOMAIN t.packages : i \in DOMAIN t.sources \/ IsLoading(t, i),
           \A p \in DOMAIN t.sources :
               \/ p \in DOMAIN s.sources /\ t.sources[p] = s.sources[p]
               \/ \A i \in FileImports(t.sources[p]) : IsKnown(t, i),
           \A f \in ToSet(t.stack) : f \in ToSet(s.stack) \/ FrameClosed(t, f)
    PROVE  SessionClosed(t)
<1>1. \A p \in DOMAIN t.sources : \A i \in FileImports(t.sources[p]) : IsKnown(t, i)
  BY DEF SessionClosed
<1>2. \A f \in ToSet(t.stack) : FrameClosed(t, f)
  BY DEF SessionClosed, FrameClosed
<1> QED
  BY <1>1, <1>2 DEF SessionClosed

(* A stack with another frame on top still knows what it knew.             *)
LEMMA KnownTops ==
    ASSUME NEW s, SessionOK(s), NEW t, NEW f \in FrameType, Tops(s, t, f),
           DOMAIN s.packages \subseteq DOMAIN t.packages,
           DOMAIN s.sources \subseteq DOMAIN t.sources,
           f.at # "watch", f.p = Head(s.stack).p,
           Head(s.stack).at # "watch" => \A i \in Head(s.stack).todo :
               i \in f.todo \/ i \in DOMAIN t.packages
    PROVE  /\ \A i : IsKnown(s, i) => IsKnown(t, i)
           /\ \A i : IsLoading(s, i) => IsLoading(t, i)
           /\ \A g \in ToSet(t.stack) : g = f \/ g \in ToSet(s.stack)
           /\ Head(s.stack) \in ToSet(s.stack) /\ f \in ToSet(t.stack)
           /\ s.step = "import"
<1>1. /\ s.stack \in Seq(FrameType) /\ s.stack # <<>> /\ s.step = "import"
  BY DEF SessionOK, SessionShape, Session, Tops
<1>2. ToSet(s.stack) = {Head(s.stack)} \cup ToSet(Tail(s.stack))
  BY <1>1, StackTop
<1>3. ToSet(t.stack) = {f} \cup ToSet(Tail(s.stack))
  BY DEF Tops
<1>4. ASSUME NEW i, IsKnown(s, i) PROVE IsKnown(t, i)
  BY <1>2, <1>3, <1>4 DEF IsKnown
<1>5. ASSUME NEW i, IsLoading(s, i) PROVE IsLoading(t, i)
  BY <1>2, <1>3, <1>5 DEF IsLoading
<1> QED
  BY <1>1, <1>2, <1>3, <1>4, <1>5

(* The turns, one by one.                                                  *)
LEMMA AdvancesClosed ==
    ASSUME NEW q \in Process, NEW s, SessionOK(s), SessionClosed(s), NEW t, Advances(q, s, t)
    PROVE  SessionClosed(t)
<1> DEFINE g == Head(s.stack)
<1>1. PICK f \in FrameType : Tops(s, t, f) /\ Advance(q, s, g, f)
  BY DEF Advances
<1>2. t.packages = s.packages /\ t.sources = s.sources
  BY DEF Advances
<1>3. /\ g.at # "watch" /\ f.at # "watch" /\ f.p = g.p /\ f.listed = g.listed
      /\ f.todo \subseteq g.todo /\ g.todo \subseteq f.todo \cup DOMAIN s.packages
      /\ f.at \in Mid => f.todo = {} \/ g.at \in Mid
      /\ f.at = "unresolved" <=> g.at = "unresolved"
  BY <1>1 DEF Advance, SameFiles
<1> HIDE DEF g
<1>4. /\ \A i : IsKnown(s, i) => IsKnown(t, i)
      /\ \A i : IsLoading(s, i) => IsLoading(t, i)
      /\ \A x \in ToSet(t.stack) : x = f \/ x \in ToSet(s.stack)
      /\ g \in ToSet(s.stack) /\ s.step = "import"
  BY <1>1, <1>2, <1>3, KnownTops DEF g
<1>5. FrameClosed(s, g)
  BY <1>4 DEF SessionClosed
<1>6. FrameClosed(t, f)
  BY <1>2, <1>3, <1>4, <1>5 DEF FrameClosed
<1>7. \A i \in DOMAIN t.packages : i \in DOMAIN t.sources \/ IsLoading(t, i)
  BY <1>2, <1>4 DEF SessionClosed
<1> QED
  BY <1>2, <1>4, <1>6, <1>7, ClosedNext

(* The sources of the package on top are kept, and what only they import   *)
(* is still to load.                                                       *)
LEMMA KeepsClosed ==
    ASSUME NEW q \in Process, NEW s, SessionOK(s), SessionClosed(s), NEW t, Keeps(q, s, t)
    PROVE  SessionClosed(t)
<1> DEFINE g == Head(s.stack)
<1>1. PICK f \in FrameType, src \in Source : Keeping(q, s, t, g, f, src)
  BY DEF Keeps
<1>2. /\ t.packages = s.packages /\ t.sources = Put(s.sources, g.p, src)
      /\ Tops(s, t, f) /\ f.p = g.p /\ f.listed = g.listed
      /\ g.at \in Mid /\ f.at = "unresolved" /\ f.todo = FileImports(src) \ f.listed
  BY <1>1 DEF Keeps, Keeping, SameFiles
<1> HIDE DEF g
<1>3. s.stack \in Seq(FrameType) /\ s.stack # <<>> /\ s.step = "import"
  BY <1>2 DEF SessionOK, SessionShape, Session, Tops
<1>4. g \in FrameType /\ g \in ToSet(s.stack)
  BY <1>3, StackTop DEF g
<1>5. FrameClosed(s, g)
  BY <1>3, <1>4 DEF SessionClosed
<1>6. s.sources \in Maps(Package, Source) /\ g.p \in Package
  BY <1>4 DEF SessionOK, Session, FrameType
<1>7. /\ DOMAIN t.sources = DOMAIN s.sources \cup {g.p} /\ t.sources[g.p] = src
      /\ \A x \in DOMAIN s.sources \ {g.p} : t.sources[x] = s.sources[x]
  <2> DEFINE m == Put(s.sources, g.p, src)
  <2>2. /\ DOMAIN m = DOMAIN s.sources \cup {g.p} /\ m[g.p] = src
        /\ \A x \in DOMAIN s.sources \ {g.p} : m[x] = s.sources[x]
    BY DEF Put
  <2> QED
    BY <1>2, <2>2
<1>8. g.todo = {}
  BY <1>2, <1>5 DEF FrameClosed
<1>9. /\ \A i : IsKnown(s, i) => IsKnown(t, i)
      /\ \A i : IsLoading(s, i) => IsLoading(t, i)
      /\ \A x \in ToSet(t.stack) : x = f \/ x \in ToSet(s.stack)
      /\ f \in ToSet(t.stack)
  BY <1>2, <1>7, <1>8, KnownTops DEF g
<1>10. \A i \in f.listed : IsKnown(t, i)
  BY <1>2, <1>5, <1>9 DEF FrameClosed, Mid
<1>11. \A i \in FileImports(src) : IsKnown(t, i)
  <2>1. \A i \in f.todo : IsKnown(t, i)
    BY <1>2, <1>9 DEF IsKnown
  <2> QED
    BY <1>2, <1>10, <2>1
<1>12. FrameClosed(t, f)
  BY <1>2, <1>7, <1>10 DEF FrameClosed, Mid
<1>13. \A i \in DOMAIN t.packages : i \in DOMAIN t.sources \/ IsLoading(t, i)
  BY <1>2, <1>3, <1>7, <1>9 DEF SessionClosed
<1>14. DOMAIN s.sources \subseteq DOMAIN t.sources
  BY <1>7
<1>15. \A p \in DOMAIN t.sources :
          \/ p \in DOMAIN s.sources /\ t.sources[p] = s.sources[p]
          \/ \A i \in FileImports(t.sources[p]) : IsKnown(t, i)
  BY <1>7, <1>11
<1>16. \A x \in ToSet(t.stack) : x \in ToSet(s.stack) \/ FrameClosed(t, x)
  BY <1>9, <1>12
<1> QED
  BY <1>3, <1>9, <1>13, <1>14, <1>15, <1>16, ClosedNext

(* A package that is registered has its imports still to load.             *)
LEMMA WatchesClosed ==
    ASSUME NEW q \in Process, NEW s, SessionOK(s), SessionClosed(s), NEW t, Watches(q, s, t)
    PROVE  SessionClosed(t)
<1> DEFINE g == Head(s.stack)
<1>1. PICK f \in FrameType : Watched(s, t, g, f)
  BY DEF Watches
<1>2. /\ t.sources = s.sources /\ DOMAIN t.packages = DOMAIN s.packages \cup {g.p}
      /\ Tops(s, t, f) /\ f.p = g.p /\ f.listed = g.listed
      /\ g.at = "watch" /\ f.at = "deps" /\ f.todo = g.todo
  BY <1>1 DEF Watches, Watched, SameFiles
<1> HIDE DEF g
<1>3. /\ \A i : IsKnown(s, i) => IsKnown(t, i)
      /\ \A i : IsLoading(s, i) => IsLoading(t, i)
      /\ \A x \in ToSet(t.stack) : x = f \/ x \in ToSet(s.stack)
      /\ g \in ToSet(s.stack) /\ f \in ToSet(t.stack) /\ s.step = "import"
  BY <1>2, KnownTops DEF g
<1>4. \A i \in f.listed : IsKnown(s, i) \/ i \in f.todo
  BY <1>2, <1>3 DEF SessionClosed, FrameClosed
<1>5. FrameClosed(t, f)
  BY <1>2, <1>3, <1>4 DEF FrameClosed, IsKnown, Mid
<1>6. \A i \in DOMAIN t.packages : i \in DOMAIN t.sources \/ IsLoading(t, i)
  BY <1>2, <1>3 DEF SessionClosed, IsLoading
<1> QED
  BY <1>2, <1>3, <1>5, <1>6, ClosedNext

(* A package that is loaded leaves the list of the one that imports it.    *)
LEMMA ReturnsClosed ==
    ASSUME NEW q \in Process, NEW s, SessionOK(s), SessionClosed(s), NEW t, Returns(q, s, t)
    PROVE  SessionClosed(t)
<1> DEFINE g == Head(s.stack)
           rest == Tail(s.stack)
           b == Head(rest)
<1>1. /\ s.stack \in Seq(FrameType) /\ s.stack # <<>> /\ s.step = "import"
      /\ t.sources = s.sources /\ Ends(s, t, g)
  BY DEF Returns, SessionOK, SessionShape, Session
<1>2. /\ ToSet(s.stack) = {g} \cup ToSet(rest) /\ rest \in Seq(FrameType)
      /\ g \in FrameType
  BY <1>1, StackTop
<1>3. FrameClosed(s, g)
  BY <1>1, <1>2 DEF SessionClosed
<1>4. /\ g.p \in DOMAIN s.sources
      /\ DOMAIN s.packages \subseteq DOMAIN t.packages
      /\ DOMAIN t.packages \subseteq DOMAIN s.packages \cup {g.p}
      /\ g.at = "watch" \/ g.todo = {}
  BY <1>1, <1>3 DEF Ends, FrameClosed
<1>5. CASE rest = <<>> /\ t.stack = <<>>
  <2>1. ToSet(rest) = {} /\ ToSet(t.stack) = {}
    BY <1>5, NothingThere
  <2>2. \A i : IsKnown(s, i) => IsKnown(t, i)
    BY <1>1, <1>2, <1>4, <2>1 DEF IsKnown
  <2>3. \A i \in DOMAIN t.packages : i \in DOMAIN t.sources \/ IsLoading(t, i)
    BY <1>1, <1>2, <1>4, <2>1 DEF SessionClosed, IsLoading
  <2> QED
    BY <1>1, <2>1, <2>2, <2>3, ClosedNext
<1>6. CASE rest # <<>>
  <2>1. PICK f \in FrameType : ToSet(t.stack) = {f} \cup ToSet(Tail(rest)) /\ ReturnsTo(t, g, b, f)
    BY <1>6 DEF Returns
  <2>2. ToSet(rest) = {b} \cup ToSet(Tail(rest))
    BY <1>2, <1>6, StackTop
  <2>3. f.p = b.p /\ f.listed = b.listed /\ f.at = b.at /\ f.todo = b.todo \ {g.p}
    BY <2>1 DEF ReturnsTo, SameFiles
  <2> HIDE DEF g, b, rest
  <2>4. \A i : IsKnown(s, i) => IsKnown(t, i)
    BY <1>1, <1>2, <1>4, <2>1, <2>2, <2>3 DEF IsKnown
  <2>5. \A i \in DOMAIN t.packages : i \in DOMAIN t.sources \/ IsLoading(t, i)
    BY <1>1, <1>2, <1>4, <2>1, <2>2, <2>3 DEF SessionClosed, IsLoading
  <2>6. b \in ToSet(s.stack)
    BY <1>2, <2>2
  <2>7. FrameClosed(s, b)
    BY <1>1, <2>6 DEF SessionClosed
  <2>8. FrameClosed(t, f)
    <3>1. IsKnown(t, g.p)
      BY <1>1, <1>4 DEF IsKnown
    <3> QED
      BY <1>1, <2>3, <2>4, <2>7, <3>1 DEF FrameClosed
  <2> QED
    BY <1>1, <1>2, <2>1, <2>2, <2>4, <2>5, <2>8, ClosedNext
<1> QED
  BY <1>5, <1>6 DEF Returns

(* An import that is not registered yet gets a frame of its own.           *)
LEMMA PushesClosed ==
    ASSUME TypeOK, NEW q \in Process, NEW s, SessionOK(s), SessionClosed(s),
           NEW t, Pushes(q, s, t)
    PROVE  SessionClosed(t)
<1>1. /\ s.step = "import" /\ t.packages = s.packages /\ t.sources = s.sources
  BY DEF Pushes, SessionOK, SessionShape
<1>2. PICK i : ToSet(t.stack) = {Frame(q, i, "watch", FALSE)} \cup ToSet(s.stack)
  BY DEF Pushes
<1> DEFINE f == Frame(q, i, "watch", FALSE)
<1>3. f.at = "watch" /\ f.listed = f.todo
  BY DEF Frame
<1> HIDE DEF f
<1>4. ToSet(t.stack) = {f} \cup ToSet(s.stack)
  BY <1>2 DEF f
<1>5. \A x : IsKnown(s, x) => IsKnown(t, x)
  BY <1>1, <1>4 DEF IsKnown
<1>6. \A x \in DOMAIN t.packages : x \in DOMAIN t.sources \/ IsLoading(t, x)
  BY <1>1, <1>4 DEF SessionClosed, IsLoading
<1>7. FrameClosed(t, f)
  BY <1>3 DEF FrameClosed, Mid
<1> QED
  BY <1>1, <1>4, <1>5, <1>6, <1>7, ClosedNext

(* The imports of a root are still to load, the runtime among them.        *)
LEMMA RootsClosed ==
    ASSUME TypeOK, NEW q \in Process, NEW s, SessionOK(s), SessionClosed(s),
           NEW t, Roots(q, s, t)
    PROVE  SessionClosed(t)
<1>1. /\ s.step = "import" /\ t.packages = s.packages /\ t.sources = s.sources
      /\ s.stack = <<>> /\ s.roots # <<>> /\ s.roots \in Seq(Package)
      /\ ToSet(t.stack) = {RootFrame(q, Head(s.roots))}
  BY DEF Roots, SessionOK, Session
<1> DEFINE f == RootFrame(q, Head(s.roots))
<1>2. f.at = "deps" /\ f.listed = f.todo
  <2>1. f \in FrameType /\ f.at = "deps"
    BY <1>1, StackTop, NewRootFrame
  <2>2. f.listed = f.todo
    BY DEF RootFrame, Frame
  <2> QED
    BY <2>1, <2>2
<1> HIDE DEF f
<1>3. ToSet(t.stack) = {f} /\ ToSet(s.stack) = {}
  BY <1>1, NothingThere DEF f
<1>4. \A x : IsKnown(s, x) => IsKnown(t, x)
  BY <1>1, <1>3 DEF IsKnown
<1>5. \A x \in DOMAIN t.packages : x \in DOMAIN t.sources \/ IsLoading(t, x)
  BY <1>1, <1>3 DEF SessionClosed, IsLoading
<1>6. FrameClosed(t, f)
  BY <1>2, <1>3 DEF FrameClosed, IsKnown, Mid
<1> QED
  BY <1>1, <1>3, <1>4, <1>5, <1>6, ClosedNext

(* What the generated main package imports is still to load.               *)
LEMMA MainsClosed ==
    ASSUME TypeOK, NEW q \in Process, NEW s, SessionOK(s), SessionClosed(s),
           NEW t, Mains(q, s, t)
    PROVE  SessionClosed(t)
<1> DEFINE f == TestFrame(q)
           src == Parsed(q, f)
<1>1. /\ s.step = "import" /\ t.packages = s.packages
      /\ t.sources = Put(s.sources, TestMain, src)
      /\ s.stack = <<>> /\ ToSet(t.stack) = {f}
  BY DEF Mains
<1>2. /\ f.at = "unresolved" /\ f.listed = f.todo /\ f.p = TestMain
      /\ f.todo = ImportsOf(TestMain, disk[TestMain].go)
  BY DEF TestFrame, Frame
<1>3. src.p = TestMain /\ src.go = disk[TestMain].go
  BY <1>2 DEF Parsed
<1>4. FileImports(src) = f.todo
  BY <1>2, <1>3, BuildAssumption DEF FileImports
<1> HIDE DEF f, src
<1>5. /\ DOMAIN t.sources = DOMAIN s.sources \cup {TestMain} /\ t.sources[TestMain] = src
      /\ \A x \in DOMAIN s.sources \ {TestMain} : t.sources[x] = s.sources[x]
  BY <1>1 DEF Put
<1>6. ToSet(s.stack) = {}
  BY <1>1, NothingThere
<1>7. \A x : IsKnown(s, x) => IsKnown(t, x)
  BY <1>1, <1>5, <1>6 DEF IsKnown
<1>8. \A x \in DOMAIN t.packages : x \in DOMAIN t.sources \/ IsLoading(t, x)
  BY <1>1, <1>5, <1>6 DEF SessionClosed, IsLoading
<1>9. \A i \in f.todo : IsKnown(t, i)
  BY <1>1, <1>2 DEF IsKnown
<1>10. FrameClosed(t, f)
  BY <1>2, <1>5, <1>9 DEF FrameClosed, Mid
<1>11. DOMAIN s.sources \subseteq DOMAIN t.sources
  BY <1>5
<1>12. \A p \in DOMAIN t.sources :
          \/ p \in DOMAIN s.sources /\ t.sources[p] = s.sources[p]
          \/ \A i \in FileImports(t.sources[p]) : IsKnown(t, i)
  BY <1>4, <1>5, <1>9
<1>13. \A x \in ToSet(t.stack) : x \in ToSet(s.stack) \/ FrameClosed(t, x)
  BY <1>1, <1>10
<1> QED
  BY <1>1, <1>7, <1>8, <1>11, <1>12, <1>13, ClosedNext

(* A session that begins has no sources.                                   *)
LEMMA ResetsClosed ==
    ASSUME NEW q \in Process, NEW s, NEW t, Resets(q, s, t)
    PROVE  SessionClosed(t)
<1>1. t.stack = <<>> /\ ToSet(t.stack) = {}
  BY NothingThere DEF Resets
<1>2. t.step = "import" => DOMAIN t.sources = {} /\ DOMAIN t.packages = {}
  BY NothingThere DEF Resets
<1> QED
  BY <1>1, <1>2 DEF SessionClosed

(* What is known of a session depends on its fields alone.                 *)
LEMMA SameClosed ==
    ASSUME NEW s, NEW t, SameSession(s, t), SessionClosed(s)
    PROVE  SessionClosed(t)
<1>1. \A i : IsKnown(s, i) => IsKnown(t, i)
  BY DEF SameSession, IsKnown
<1>2. CASE s.step = "import"
  <2>1. \A i \in DOMAIN t.packages : i \in DOMAIN t.sources \/ IsLoading(t, i)
    BY <1>2 DEF SessionClosed, SameSession, IsLoading
  <2> QED
    BY <1>1, <1>2, <2>1, ClosedNext DEF SameSession
<1>3. CASE s.step # "import"
  BY <1>3 DEF SessionClosed, SameSession
<1> QED
  BY <1>2, <1>3

(* Every step keeps the sources closed.                                    *)
LEMMA ClosedKept == TypeOK /\ Closed /\ [Next]_vars => Closed'
<1> SUFFICES ASSUME TypeOK, Closed, [Next]_vars, NEW r \in Process
             PROVE  SessionClosed(proc'[r])
  BY DEF Closed, SessionClosed, IsKnown, IsLoading, FrameClosed, FileImports, ImportsOf
<1>1. SessionClosed(proc[r]) /\ SessionOK(proc[r])
  BY SessionBefore DEF Closed
<1>2. ASSUME NEW q \in Process, Step(q) \/ Crash(q) PROVE SessionClosed(proc'[r])
  <2>1. /\ Turn(q, proc[q], proc'[q])
        /\ proc' = [proc EXCEPT ![q] = proc'[q]]
    BY <1>2, EveryTurn
  <2>2. CASE r # q
    BY <1>1, <2>1, <2>2 DEF TypeOK
  <2>3. CASE r = q
    BY <1>1, <2>1, <2>3, AdvancesClosed, KeepsClosed, WatchesClosed, ReturnsClosed,
       PushesClosed, RootsClosed, MainsClosed, ResetsClosed DEF Turn
  <2> QED
    BY <2>2, <2>3
<1>3. CASE World
  BY <1>1, <1>3, WorldTurn, SameClosed
<1>4. CASE UNCHANGED vars
  BY <1>1, <1>4 DEF vars
<1> QED
  BY <1>2, <1>3, <1>4 DEF Next

(* Nobody imports at first.                                                *)
LEMMA ClosedInit == Init => Closed
BY DEF Init, Idle, Closed, SessionClosed

(* While a session imports, what the sources it has import is known, so    *)
(* that nothing is missing when there is nothing left to import, whatever  *)
(* changes on disk between the listing of a package and its parsing.       *)
THEOREM EveryImportIsLoaded == Spec => []SourcesClosed
<1>1. Spec => [](TypeOK /\ Closed)
  BY TypeInit, TypeKept, ClosedInit, ClosedKept, PTL DEF Spec
<1>2. TypeOK /\ Closed => SourcesClosed
  <2> SUFFICES ASSUME TypeOK, Closed, NEW q \in Process, proc[q].step = "import",
                      proc[q].stack = <<>>
               PROVE  Resolved(proc[q].sources)
    BY DEF SourcesClosed
  <2>1. ToSet(proc[q].stack) = {}
    BY NothingThere
  <2>2. \A i : IsKnown(proc[q], i) => i \in DOMAIN proc[q].sources
    BY <2>1 DEF Closed, SessionClosed, IsKnown, IsLoading
  <2> QED
    BY <2>2 DEF Closed, SessionClosed, Resolved
<1> QED
  BY <1>1, <1>2, PTL

-----------------------------------------------------------------------------
(* What is stale is stale by a race.  The reading r of the files of a      *)
(* package and what is known of them to whoever compares, d, are in order: *)
(* r is as new as d, or was made before d was changed.                     *)
JsOrder(r, d) == r.js >= d.js \/ r.jsRead <= d.jsTime
GoOrder(r, d) == r.goTime >= d.goTime \/ r.read <= d.goTime

(* Frames on the stacks of the sessions pr, and the sources that are       *)
(* stored, in cd, or may come to be.                                       *)
FrameOf(pr, f) == \E q \in Process : f \in ToSet(pr[q].stack)
ReadingOf(cd, pr, r) ==
    \/ \E k \in DOMAIN cd : r = cd[k].src
    \/ \E f : /\ FrameOf(pr, f)
              /\ \/ f.at \in {"store", "rename"} /\ r = f.src
                 \/ f.at \in {"read", "rename"} /\ r = f.file.src

Stale(src) ==
    src.from # None =>
      /\ \/ src.disk.goTime <= src.goTime
         \/ src.read <= src.disk.goTime /\ src.disk.goTime <= src.from
      /\ \/ src.js >= src.disk.js
         \/ src.jsRead <= src.disk.jsTime /\ src.disk.jsTime <= src.from

FrameTimes(f) ==
    /\ f.js <= disk[f.p].js /\ f.jsRead <= clock /\ JsOrder(f, disk[f.p])
    /\ Compared(f) =>
         /\ f.disk.goTime <= disk[f.p].goTime
         /\ f.disk.js = f.js /\ f.disk.jsTime = f.jsTime
         /\ f.disk.goTime <= f.mod /\ f.disk.jsTime <= f.mod
FrameOwn(f) ==
    /\ f.at \in {"read", "rename"} => f.file.src.p = f.p
    /\ f.at \in {"store", "rename"} => f.src.p = f.p /\ f.src.from = None
ReadingTimes(r) ==
    /\ r.read <= clock /\ r.jsRead <= clock
    /\ JsOrder(r, disk[r.p]) /\ GoOrder(r, disk[r.p])
InOrder(r, f) == JsOrder(r, f) /\ (Compared(f) => GoOrder(r, f.disk))

Times ==
    /\ \A p \in Package : disk[p].goTime <= clock /\ disk[p].jsTime <= clock
    /\ \A f : FrameOf(proc, f) => FrameTimes(f) /\ FrameOwn(f)
    /\ \A f, g : FrameOf(proc, f) /\ FrameOf(proc, g) /\ f.p = g.p => JsOrder(f, g)
    /\ \A r : ReadingOf(cacheDir, proc, r) => ReadingTimes(r)
    /\ \A r, f : ReadingOf(cacheDir, proc, r) /\ FrameOf(proc, f) /\ r.p = f.p => InOrder(r, f)
    /\ \A k \in DOMAIN cacheDir : cacheDir[k].src.p = k[2]
    /\ \A q \in Process : \A p \in DOMAIN proc[q].sources : Stale(proc[q].sources[p])

(* Frames and readings have their types.                                   *)
LEMMA FramesTyped ==
    ASSUME TypeOK
    PROVE  /\ \A f : FrameOf(proc, f) => f \in FrameType /\ FrameShape(f) /\ f.p \in Package
           /\ \A r : ReadingOf(cacheDir, proc, r) => r \in Source /\ r.p \in Package
<1>1. ASSUME NEW f, FrameOf(proc, f)
      PROVE  f \in FrameType /\ FrameShape(f) /\ f.p \in Package
  <2>1. PICK q \in Process : f \in ToSet(proc[q].stack)
    BY <1>1 DEF FrameOf
  <2>2. proc[q].stack \in Seq(FrameType) /\ FrameShape(f)
    BY <2>1 DEF TypeOK, SessionShape, Session
  <2>3. f \in FrameType
    BY <2>1, <2>2, StackMembers
  <2> QED
    BY <2>2, <2>3 DEF FrameType
<1>2. ASSUME NEW r, ReadingOf(cacheDir, proc, r) PROVE r \in Source /\ r.p \in Package
  <2>1. r \in Source
    <3>1. CASE \E k \in DOMAIN cacheDir : r = cacheDir[k].src
      <4>1. \A k \in DOMAIN cacheDir : cacheDir[k] \in StoredFile
        BY MapHolds DEF TypeOK
      <4> QED
        BY <3>1, <4>1 DEF StoredFile
    <3>2. CASE \E f : /\ FrameOf(proc, f)
                      /\ \/ f.at \in {"store", "rename"} /\ r = f.src
                         \/ f.at \in {"read", "rename"} /\ r = f.file.src
      BY <1>1, <3>2 DEF FrameShape, StoredFile
    <3> QED
      BY <1>2, <3>1, <3>2 DEF ReadingOf
  <2> QED
    BY <2>1 DEF Source
<1> QED
  BY <1>1, <1>2

(* A frame that stands for one of before, at the same files, and one that  *)
(* is about the files as they are now.                                     *)
NewDisk(f) ==
    /\ f.disk = [disk[f.p] EXCEPT !.js = f.js, !.jsTime = f.jsTime]
    /\ f.disk.goTime <= f.mod /\ f.jsTime <= f.mod
SameDisk(f, g) == Compared(g) /\ f.disk = g.disk /\ f.mod = g.mod
OldFrame(f, g) ==
    /\ FrameOf(proc, g) /\ SameFiles(f, g)
    /\ Compared(f) => SameDisk(f, g) \/ NewDisk(f)
FreshFrame(f) ==
    /\ f.js = disk[f.p].js /\ f.jsTime = disk[f.p].jsTime /\ f.jsRead = clock
    /\ ~ Compared(f)
OldReading(r) ==
    \/ ReadingOf(cacheDir, proc, r)
    \/ \E q \in Process : \E g : FrameOf(proc, g) /\ r = Parsed(q, g)

(* What such a frame has to do with the frames and readings of before.     *)
LEMMA FrameInOrder ==
    ASSUME TypeOK, Times, NEW f \in FrameType, FrameShape(f),
           FreshFrame(f) \/ \E g : OldFrame(f, g)
    PROVE  /\ FrameTimes(f)
           /\ \A g : FrameOf(proc, g) /\ f.p = g.p => JsOrder(f, g) /\ JsOrder(g, f)
           /\ \A r : OldReading(r) /\ r.p = f.p => InOrder(r, f)
<1>1. /\ f.p \in Package /\ f.js \in Nat /\ f.jsRead \in Nat /\ f.jsTime \in Nat /\ f.mod \in Nat
      /\ disk[f.p] \in FilesOnDisk /\ clock \in Nat
      /\ disk[f.p].js \in Nat /\ disk[f.p].jsTime \in Nat /\ disk[f.p].goTime \in Nat
      /\ disk[f.p].goTime <= clock /\ disk[f.p].jsTime <= clock
  BY DEF FrameType, TypeOK, FilesOnDisk, Times
<1>2. ASSUME NEW g, FrameOf(proc, g), g.p = f.p
      PROVE  /\ g \in FrameType /\ g.js \in Nat /\ g.jsRead \in Nat /\ g.jsTime \in Nat
             /\ g.js <= disk[f.p].js /\ g.jsRead <= clock /\ JsOrder(g, disk[f.p])
             /\ FrameShape(g) /\ FrameTimes(g)
  BY <1>2, FramesTyped DEF FrameType, Times, FrameTimes
<1>3. ASSUME NEW r, OldReading(r), r.p = f.p
      PROVE  /\ r.js \in Nat /\ r.jsRead \in Nat /\ r.goTime \in Nat /\ r.read \in Nat
             /\ JsOrder(r, disk[f.p]) /\ GoOrder(r, disk[f.p])
             /\ \A g : FrameOf(proc, g) /\ g.p = f.p => InOrder(r, g)
  <2>1. CASE ReadingOf(cacheDir, proc, r)
    BY <1>3, <2>1, FramesTyped DEF Times, ReadingTimes, Source
  <2>2. ASSUME NEW q \in Process, NEW h, FrameOf(proc, h), r = Parsed(q, h)
        PROVE  /\ r.js \in Nat /\ r.jsRead \in Nat /\ r.goTime \in Nat /\ r.read \in Nat
               /\ JsOrder(r, disk[f.p]) /\ GoOrder(r, disk[f.p])
               /\ \A g : FrameOf(proc, g) /\ g.p = f.p => InOrder(r, g)
    <3>1. /\ r.p = h.p /\ r.js = h.js /\ r.jsRead = h.jsRead
          /\ r.goTime = disk[h.p].goTime /\ r.read = clock
      BY <2>2 DEF Parsed
    <3>2. /\ h.js \in Nat /\ h.jsRead \in Nat /\ JsOrder(h, disk[f.p])
      BY <1>2, <1>3, <2>2, <3>1
    <3>3. JsOrder(r, disk[f.p]) /\ GoOrder(r, disk[f.p])
      BY <1>1, <1>3, <3>1, <3>2 DEF JsOrder, GoOrder
    <3>4. ASSUME NEW g, FrameOf(proc, g), g.p = f.p PROVE InOrder(r, g)
      <4>1. JsOrder(h, g)
        BY <1>3, <2>2, <3>1, <3>4 DEF Times
      <4>2. JsOrder(r, g)
        BY <3>1, <4>1 DEF JsOrder
      <4>3. Compared(g) => g.disk \in FilesOnDisk /\ g.disk.goTime <= disk[f.p].goTime
        BY <1>2, <3>4 DEF FrameTimes, FrameShape, Compared
      <4>4. Compared(g) => GoOrder(r, g.disk)
        BY <1>1, <1>3, <3>1, <4>3 DEF GoOrder, FilesOnDisk
      <4> QED
        BY <4>2, <4>4 DEF InOrder
    <3> QED
      BY <1>1, <1>3, <3>1, <3>2, <3>3, <3>4
  <2> QED
    BY <1>3, <2>1, <2>2 DEF OldReading
<1>4. CASE FreshFrame(f)
  <2>1. FrameTimes(f)
    BY <1>1, <1>4 DEF FreshFrame, FrameTimes, JsOrder
  <2>2. ASSUME NEW g, FrameOf(proc, g), f.p = g.p PROVE JsOrder(f, g) /\ JsOrder(g, f)
    <3>1. g.js \in Nat /\ g.js <= disk[f.p].js /\ JsOrder(g, disk[f.p])
      BY <1>2, <2>2
    <3> QED
      BY <1>1, <1>4, <3>1 DEF FreshFrame, JsOrder
  <2>3. ASSUME NEW r, OldReading(r), r.p = f.p PROVE InOrder(r, f)
    BY <1>1, <1>3, <1>4, <2>3 DEF FreshFrame, JsOrder, InOrder
  <2> QED
    BY <2>1, <2>2, <2>3
<1>5. ASSUME NEW g, OldFrame(f, g)
      PROVE  /\ FrameTimes(f)
             /\ \A h : FrameOf(proc, h) /\ f.p = h.p => JsOrder(f, h) /\ JsOrder(h, f)
             /\ \A r : OldReading(r) /\ r.p = f.p => InOrder(r, f)
  <2>1. /\ FrameOf(proc, g) /\ f.p = g.p /\ f.js = g.js /\ f.jsTime = g.jsTime
        /\ f.jsRead = g.jsRead /\ (Compared(f) => SameDisk(f, g) \/ NewDisk(f))
    BY <1>5 DEF OldFrame, SameFiles
  <2>2. ASSUME NewDisk(f)
        PROVE  /\ f.disk.goTime = disk[f.p].goTime /\ f.disk.js = f.js
               /\ f.disk.jsTime = f.jsTime /\ f.disk.goTime <= f.mod
               /\ f.jsTime <= f.mod
    BY <1>1, <2>2 DEF NewDisk, FilesOnDisk
  <2>3. FrameTimes(g)
    BY <1>2, <2>1
  <2>4. FrameTimes(f)
    <3>1. f.js <= disk[f.p].js /\ f.jsRead <= clock /\ JsOrder(f, disk[f.p])
      BY <2>1, <2>3 DEF FrameTimes, JsOrder
    <3>2. ASSUME Compared(f), SameDisk(f, g)
          PROVE  /\ f.disk.goTime <= disk[f.p].goTime
                 /\ f.disk.js = f.js /\ f.disk.jsTime = f.jsTime
                 /\ f.disk.goTime <= f.mod /\ f.disk.jsTime <= f.mod
      BY <2>1, <2>3, <3>2 DEF FrameTimes, SameDisk
    <3>3. ASSUME Compared(f), NewDisk(f)
          PROVE  /\ f.disk.goTime <= disk[f.p].goTime
                 /\ f.disk.js = f.js /\ f.disk.jsTime = f.jsTime
                 /\ f.disk.goTime <= f.mod /\ f.disk.jsTime <= f.mod
      BY <1>1, <2>2, <3>3
    <3> QED
      BY <2>1, <3>1, <3>2, <3>3 DEF FrameTimes
  <2>5. ASSUME NEW h, FrameOf(proc, h), f.p = h.p PROVE JsOrder(f, h) /\ JsOrder(h, f)
    <3>1. JsOrder(g, h) /\ JsOrder(h, g)
      BY <2>1, <2>5 DEF Times
    <3> QED
      BY <2>1, <3>1 DEF JsOrder
  <2>6. ASSUME NEW r, OldReading(r), r.p = f.p PROVE InOrder(r, f)
    <3>1. InOrder(r, g) /\ GoOrder(r, disk[f.p])
      BY <1>3, <2>1, <2>6
    <3>2. JsOrder(r, f)
      BY <2>1, <3>1 DEF InOrder, JsOrder
    <3>3. Compared(f) => GoOrder(r, f.disk)
      BY <2>1, <2>2, <3>1 DEF InOrder, SameDisk, GoOrder
    <3> QED
      BY <3>2, <3>3 DEF InOrder
  <2> QED
    BY <2>4, <2>5, <2>6
<1> QED
  BY <1>4, <1>5

(* A step that leaves the disk and the clock keeps the order if its frames *)
(* and readings stand for those of before or are about the files as they   *)
(* are.                                                                    *)
LEMMA TimesNext ==
    ASSUME TypeOK, TypeOK', Times, UNCHANGED <<disk, clock>>,
           \A f : FrameOf(proc', f) =>
               FrameOwn(f) /\ (FreshFrame(f) \/ \E g : OldFrame(f, g)),
           \A r : ReadingOf(cacheDir', proc', r) => OldReading(r),
           \A k \in DOMAIN cacheDir' : cacheDir'[k].src.p = k[2],
           \A q \in Process : \A p \in DOMAIN proc'[q].sources : Stale(proc'[q].sources[p])
    PROVE  Times'
<1>1. ASSUME NEW f, FrameOf(proc', f)
      PROVE  /\ f \in FrameType /\ f.p \in Package
             /\ FrameTimes(f) /\ FrameOwn(f)
             /\ FreshFrame(f) \/ \E g : OldFrame(f, g)
             /\ \A g : FrameOf(proc, g) /\ f.p = g.p => JsOrder(f, g) /\ JsOrder(g, f)
             /\ \A r : OldReading(r) /\ r.p = f.p => InOrder(r, f)
  <2>1. f \in FrameType /\ FrameShape(f) /\ f.p \in Package
    <3>1. PICK q \in Process : f \in ToSet(proc'[q].stack)
      BY <1>1 DEF FrameOf
    <3>2. proc'[q].stack \in Seq(FrameType) /\ FrameShape(f)
      BY <3>1 DEF TypeOK, SessionShape, Session
    <3>3. f \in FrameType
      BY <3>1, <3>2, StackMembers
    <3> QED
      BY <3>2, <3>3 DEF FrameType
  <2> QED
    BY <1>1, <2>1, FrameInOrder
<1>2. \A f : FrameOf(proc', f) => FrameTimes(f)' /\ FrameOwn(f)
  BY <1>1 DEF FrameTimes
<1>3. ASSUME NEW f, NEW g, FrameOf(proc', f), FrameOf(proc', g), f.p = g.p
      PROVE  JsOrder(f, g)
  <2>0. /\ disk[f.p].js \in Nat /\ disk[f.p].jsTime \in Nat /\ clock \in Nat
        /\ disk[f.p].jsTime <= clock
        /\ f.js \in Nat /\ g.js \in Nat /\ f.jsRead \in Nat /\ g.jsRead \in Nat
        /\ f.jsTime \in Nat /\ g.jsTime \in Nat
    BY <1>1, <1>3 DEF TypeOK, FilesOnDisk, FrameType, Times
  <2>1. CASE FreshFrame(g)
    BY <1>1, <1>3, <2>0, <2>1 DEF FreshFrame, FrameTimes, JsOrder
  <2>2. ASSUME NEW h, OldFrame(g, h) PROVE JsOrder(f, g)
    <3>1. FrameOf(proc, h) /\ g.p = h.p /\ g.js = h.js /\ g.jsTime = h.jsTime
      BY <2>2 DEF OldFrame, SameFiles
    <3>2. JsOrder(f, h)
      BY <1>1, <1>3, <3>1
    <3> QED
      BY <3>1, <3>2 DEF JsOrder
  <2> QED
    BY <1>1, <1>3, <2>1, <2>2
<1>4. ASSUME NEW r, ReadingOf(cacheDir', proc', r)
      PROVE  ReadingTimes(r)'
  <2>1. CASE ReadingOf(cacheDir, proc, r)
    BY <2>1 DEF Times, ReadingTimes
  <2>2. ASSUME NEW q \in Process, NEW g, FrameOf(proc, g), r = Parsed(q, g)
        PROVE  ReadingTimes(r)'
    <3>1. /\ r.p = g.p /\ r.js = g.js /\ r.jsRead = g.jsRead
          /\ r.goTime = disk[g.p].goTime /\ r.read = clock
      BY <2>2 DEF Parsed
    <3>2. g.jsRead <= clock /\ JsOrder(g, disk[g.p]) /\ g.p \in Package
      BY <2>2, FramesTyped DEF Times, FrameTimes
    <3>3. clock \in Nat /\ disk[g.p].goTime \in Nat
      BY <3>2 DEF TypeOK, FilesOnDisk
    <3> QED
      BY <3>1, <3>2, <3>3 DEF ReadingTimes, JsOrder, GoOrder
  <2> QED
    BY <1>4, <2>1, <2>2 DEF OldReading
<1>5. \A p \in Package : disk'[p].goTime <= clock' /\ disk'[p].jsTime <= clock'
  BY DEF Times
<1>6. \A r, f : ReadingOf(cacheDir', proc', r) /\ FrameOf(proc', f) /\ r.p = f.p => InOrder(r, f)
  BY <1>1
<1> QED
  BY <1>2, <1>3, <1>4, <1>5, <1>6 DEF Times

(* The frames of the other processes stay.                                 *)
LEMMA OwnFrames ==
    ASSUME TypeOK, Times, NEW q \in Process, NEW t, SessionOK(t),
           proc' = [proc EXCEPT ![q] = t], NEW f, FrameOf(proc', f)
    PROVE  \/ FrameOf(proc, f) /\ FrameOwn(f) /\ OldFrame(f, f)
           \/ f \in ToSet(t.stack)
<1>1. PICK r \in Process : f \in ToSet(proc'[r].stack)
  BY DEF FrameOf
<1>2. CASE r = q
  BY <1>1, <1>2 DEF TypeOK
<1>3. CASE r # q
  <2>1. FrameOf(proc, f)
    BY <1>1, <1>3 DEF TypeOK, FrameOf
  <2> QED
    BY <2>1 DEF Times, OldFrame, SameFiles, SameDisk
<1> QED
  BY <1>2, <1>3

(* The turns, one by one: the frames of the session that follows, the      *)
(* readings they hold, what is stored, and the sources of the session.     *)
Orderly(t) ==
    /\ \A f \in ToSet(t.stack) :
         /\ FrameOwn(f) /\ (FreshFrame(f) \/ \E g : OldFrame(f, g))
         /\ f.at \in {"store", "rename"} => OldReading(f.src)
         /\ f.at \in {"read", "rename"} => OldReading(f.file.src)
    /\ \A p \in DOMAIN t.sources : Stale(t.sources[p])

(* The frames of the session before are in order.                          *)
LEMMA FramesBefore ==
    ASSUME TypeOK, Times, NEW q \in Process, NEW f \in ToSet(proc[q].stack)
    PROVE  /\ FrameOf(proc, f) /\ FrameOwn(f) /\ FrameTimes(f) /\ OldFrame(f, f)
           /\ f \in FrameType /\ FrameShape(f)
           /\ f.at \in {"store", "rename"} => OldReading(f.src)
           /\ f.at \in {"read", "rename"} => OldReading(f.file.src)
<1>1. FrameOf(proc, f)
  BY DEF FrameOf
<1>2. f \in FrameType /\ FrameShape(f) /\ FrameOwn(f) /\ FrameTimes(f)
  BY <1>1, FramesTyped DEF Times
<1> QED
  BY <1>1, <1>2 DEF OldFrame, SameFiles, SameDisk, OldReading, ReadingOf

(* The loading of the package on top goes on: what it compares with the    *)
(* cache is read now.                                                      *)
LEMMA AdvancesOrderly ==
    ASSUME TypeOK, Times, NEW q \in Process, NEW t, Advances(q, proc[q], t)
    PROVE  Orderly(t)
<1> DEFINE s == proc[q]
           g == Head(s.stack)
<1>1. PICK f \in FrameType : Tops(s, t, f) /\ Advance(q, s, g, f)
  BY DEF Advances
<1>2. s.stack \in Seq(FrameType) /\ s.stack # <<>>
  BY <1>1 DEF Tops, TypeOK, Session
<1>3. ToSet(s.stack) = {g} \cup ToSet(Tail(s.stack))
  BY <1>2, StackTop
<1>4. \A x \in ToSet(s.stack) :
        /\ FrameOf(proc, x) /\ FrameOwn(x) /\ OldFrame(x, x)
        /\ x.at \in {"store", "rename"} => OldReading(x.src)
        /\ x.at \in {"read", "rename"} => OldReading(x.file.src)
  BY FramesBefore
<1>5. t.sources = s.sources
  BY DEF Advances
<1>6. \A p \in DOMAIN t.sources : Stale(t.sources[p])
  BY <1>5 DEF Times
<1>7. ToSet(t.stack) = {f} \cup ToSet(Tail(s.stack))
  BY <1>1 DEF Tops
<1>8. FrameOf(proc, g) /\ FrameOwn(g)
  BY <1>3, <1>4
<1> HIDE DEF g, s
<1>9. OldFrame(f, g)
  BY <1>1, <1>8 DEF Advance, OldFrame, SameDisk, NewDisk, Compared
<1>10. f.at \in {"store", "rename"} => OldReading(f.src) /\ f.src.p = f.p /\ f.src.from = None
  <2>1. CASE f.at = "store"
    <3>1. f.src = Parsed(q, g) /\ f.p = g.p
      BY <1>1, <2>1 DEF Advance, SameFiles
    <3>2. OldReading(f.src)
      BY <1>8, <3>1, Zenon DEF OldReading
    <3>3. f.src.p = f.p /\ f.src.from = None
      BY <3>1 DEF Parsed
    <3> QED
      BY <3>2, <3>3
  <2>2. CASE f.at = "rename"
    <3>1. f.src = g.src /\ g.at = "store" /\ f.p = g.p
      BY <1>1, <2>2 DEF Advance, SameFiles
    <3> QED
      BY <1>3, <1>4, <1>8, <3>1 DEF FrameOwn
  <2> QED
    BY <2>1, <2>2
<1>11. f.at \in {"read", "rename"} => OldReading(f.file.src) /\ f.file.src.p = f.p
  <2>1. CASE f.at = "read"
    <3>1. /\ PackageKey(q, f.p) \in DOMAIN cacheDir
          /\ f.file = cacheDir[PackageKey(q, f.p)]
      BY <1>1, <2>1 DEF Advance
    <3>2. PackageKey(q, f.p)[2] = f.p
      BY DEF PackageKey
    <3> QED
      BY <3>1, <3>2 DEF OldReading, ReadingOf, Times
  <2>2. CASE f.at = "rename"
    <3>1. f.src = g.src /\ f.file.src = g.src
      BY <1>1, <2>2 DEF Advance
    <3> QED
      BY <1>10, <2>2, <3>1
  <2> QED
    BY <2>1, <2>2
<1>12. FrameOwn(f)
  BY <1>10, <1>11 DEF FrameOwn
<1> QED
  BY <1>3, <1>4, <1>6, <1>7, <1>9, <1>10, <1>11, <1>12 DEF Orderly

(* The sources that are kept were read by this frame or come from the      *)
(* cache.                                                                  *)
LEMMA KeepsOrderly ==
    ASSUME TypeOK, Times, NEW q \in Process, NEW t, Keeps(q, proc[q], t)
    PROVE  Orderly(t)
<1> DEFINE s == proc[q]
           g == Head(s.stack)
<1>1. PICK f \in FrameType, src \in Source : Keeping(q, s, t, g, f, src)
  BY DEF Keeps
<1>2. /\ Tops(s, t, f) /\ SameFiles(f, g) /\ f.at = "unresolved"
      /\ t.sources = Put(s.sources, g.p, src) /\ Sourced(q, g, src)
  BY <1>1 DEF Keeping
<1>3. s.stack \in Seq(FrameType) /\ s.stack # <<>>
  BY <1>2 DEF Tops, TypeOK, Session
<1>4. ToSet(s.stack) = {g} \cup ToSet(Tail(s.stack))
  BY <1>3, StackTop
<1>5. \A x \in ToSet(s.stack) :
        /\ FrameOf(proc, x) /\ FrameOwn(x) /\ OldFrame(x, x) /\ FrameTimes(x)
        /\ x \in FrameType /\ FrameShape(x)
        /\ x.at \in {"store", "rename"} => OldReading(x.src)
        /\ x.at \in {"read", "rename"} => OldReading(x.file.src)
  BY FramesBefore
<1>6. ToSet(t.stack) = {f} \cup ToSet(Tail(s.stack))
  BY <1>2 DEF Tops
<1>7. g \in ToSet(s.stack)
  BY <1>4
<1> HIDE DEF g
<1>8. OldFrame(f, g) /\ FrameOwn(f)
  BY <1>2, <1>5, <1>7 DEF OldFrame, FrameOwn, Compared
<1>9. Stale(src)
  <2>1. CASE /\ g.at = "read" /\ g.mod <= g.file.time
             /\ src = [g.file.src EXCEPT !.from = g.file.time, !.disk = g.disk]
    <3> DEFINE r == g.file.src
    <3>1. /\ r \in Source /\ g.file.time \in Nat /\ g.disk \in FilesOnDisk
          /\ g.mod \in Nat
      BY <1>5, <1>7, <2>1 DEF FrameShape, StoredFile, FrameType
    <3>2. ReadingOf(cacheDir, proc, r) /\ r.p = g.p
      BY <1>5, <1>7, <2>1 DEF ReadingOf, FrameOwn
    <3>3. InOrder(r, g)
      BY <1>5, <1>7, <3>2 DEF Times
    <3>4. JsOrder(r, g) /\ GoOrder(r, g.disk)
      BY <2>1, <3>3 DEF InOrder, Compared
    <3>5. /\ g.disk.js = g.js /\ g.disk.jsTime = g.jsTime
          /\ g.disk.goTime <= g.mod /\ g.disk.jsTime <= g.mod
      BY <1>5, <1>7, <2>1 DEF FrameTimes, Compared
    <3>6. /\ src.goTime = r.goTime /\ src.read = r.read /\ src.js = r.js
          /\ src.jsRead = r.jsRead /\ src.from = g.file.time /\ src.disk = g.disk
      BY <2>1, <3>1 DEF Source
    <3>7. g.disk.goTime \in Nat /\ g.disk.jsTime \in Nat
      BY <3>1 DEF FilesOnDisk
    <3>8. g.disk.goTime <= g.file.time /\ g.disk.jsTime <= g.file.time
      BY <2>1, <3>1, <3>5, <3>7
    <3> QED
      BY <3>4, <3>5, <3>6, <3>8 DEF Stale, JsOrder, GoOrder
  <2>2. CASE g.at = "parse" /\ src = Parsed(q, g)
    BY <2>2 DEF Stale, Parsed
  <2>3. CASE g.at \in {"store", "rename"} /\ src = g.src
    BY <1>5, <1>7, <2>3 DEF Stale, FrameOwn
  <2> QED
    BY <1>2, <2>1, <2>2, <2>3 DEF Sourced
<1>10. \A p \in DOMAIN t.sources : Stale(t.sources[p])
  <2>1. /\ DOMAIN t.sources = DOMAIN s.sources \cup {g.p} /\ t.sources[g.p] = src
        /\ \A x \in DOMAIN s.sources \ {g.p} : t.sources[x] = s.sources[x]
    BY <1>2 DEF Put
  <2>2. \A x \in DOMAIN s.sources : Stale(s.sources[x])
    BY DEF Times
  <2> QED
    BY <1>9, <2>1, <2>2
<1> QED
  BY <1>2, <1>4, <1>5, <1>6, <1>8, <1>10 DEF Orderly

(* A watched package keeps what was read of it.                            *)
LEMMA WatchesOrderly ==
    ASSUME TypeOK, Times, NEW q \in Process, NEW t, Watches(q, proc[q], t)
    PROVE  Orderly(t)
<1> DEFINE s == proc[q]
           g == Head(s.stack)
<1>1. PICK f \in FrameType : Watched(s, t, g, f)
  BY DEF Watches
<1>2. Tops(s, t, f) /\ SameFiles(f, g) /\ f.at = "deps" /\ t.sources = s.sources
  BY <1>1 DEF Watches, Watched
<1>3. s.stack \in Seq(FrameType) /\ s.stack # <<>>
  BY <1>2 DEF Tops, TypeOK, Session
<1>4. ToSet(s.stack) = {g} \cup ToSet(Tail(s.stack))
  BY <1>3, StackTop
<1>5. \A x \in ToSet(s.stack) :
        /\ FrameOf(proc, x) /\ FrameOwn(x) /\ OldFrame(x, x)
        /\ x.at \in {"store", "rename"} => OldReading(x.src)
        /\ x.at \in {"read", "rename"} => OldReading(x.file.src)
  BY FramesBefore
<1>6. ToSet(t.stack) = {f} \cup ToSet(Tail(s.stack))
  BY <1>2 DEF Tops
<1>7. \A p \in DOMAIN t.sources : Stale(t.sources[p])
  BY <1>2 DEF Times
<1> HIDE DEF g
<1>8. OldFrame(f, g) /\ FrameOwn(f)
  BY <1>2, <1>4, <1>5 DEF OldFrame, FrameOwn, Compared
<1> QED
  BY <1>2, <1>4, <1>5, <1>6, <1>7, <1>8 DEF Orderly

(* The frame below keeps what was read of it.                              *)
LEMMA ReturnsOrderly ==
    ASSUME TypeOK, Times, NEW q \in Process, NEW t, Returns(q, proc[q], t)
    PROVE  Orderly(t)
<1> DEFINE s == proc[q]
           g == Head(s.stack)
           rest == Tail(s.stack)
           b == Head(rest)
<1>1. /\ s.stack \in Seq(FrameType) /\ s.stack # <<>> /\ t.sources = s.sources
  BY DEF Returns, TypeOK, Session
<1>2. ToSet(s.stack) = {g} \cup ToSet(rest) /\ rest \in Seq(FrameType)
  BY <1>1, StackTop
<1>3. \A x \in ToSet(s.stack) :
        /\ FrameOf(proc, x) /\ FrameOwn(x) /\ OldFrame(x, x)
        /\ x.at \in {"store", "rename"} => OldReading(x.src)
        /\ x.at \in {"read", "rename"} => OldReading(x.file.src)
  BY FramesBefore
<1>4. \A p \in DOMAIN t.sources : Stale(t.sources[p])
  BY <1>1 DEF Times
<1>5. CASE rest = <<>> /\ t.stack = <<>>
  <2>1. ToSet(t.stack) = {}
    BY <1>5, NothingThere
  <2> QED
    BY <1>4, <2>1 DEF Orderly
<1>6. CASE rest # <<>>
  <2>1. PICK f \in FrameType : ToSet(t.stack) = {f} \cup ToSet(Tail(rest)) /\ ReturnsTo(t, g, b, f)
    BY <1>6 DEF Returns
  <2>2. ToSet(rest) = {b} \cup ToSet(Tail(rest))
    BY <1>2, <1>6, StackTop
  <2>3. /\ SameFiles(f, b) /\ f.at = b.at /\ f.disk = b.disk /\ f.file = b.file
        /\ f.src = b.src /\ (b.at # "deps" => f.mod = b.mod)
    BY <2>1 DEF ReturnsTo
  <2> HIDE DEF g, b, rest
  <2>4. b \in ToSet(s.stack) /\ ToSet(Tail(rest)) \subseteq ToSet(s.stack)
    BY <1>2, <2>2
  <2>5. OldFrame(f, b)
    BY <1>3, <2>3, <2>4 DEF OldFrame, SameDisk, Compared
  <2>6. /\ FrameOwn(f)
        /\ f.at \in {"store", "rename"} => OldReading(f.src)
        /\ f.at \in {"read", "rename"} => OldReading(f.file.src)
    BY <1>3, <2>3, <2>4 DEF FrameOwn, SameFiles
  <2> QED
    BY <1>3, <1>4, <2>1, <2>4, <2>5, <2>6 DEF Orderly
<1> QED
  BY <1>5, <1>6 DEF Returns

(* New frames are about the files as they are.                             *)
LEMMA NewFramesOrderly ==
    ASSUME TypeOK, Times, NEW q \in Process, NEW t,
           Pushes(q, proc[q], t) \/ Roots(q, proc[q], t) \/ Mains(q, proc[q], t)
    PROVE  Orderly(t)
<1>1. \A x \in ToSet(proc[q].stack) :
        /\ FrameOf(proc, x) /\ FrameOwn(x) /\ OldFrame(x, x)
        /\ x.at \in {"store", "rename"} => OldReading(x.src)
        /\ x.at \in {"read", "rename"} => OldReading(x.file.src)
  BY FramesBefore
<1>2. \A p \in DOMAIN proc[q].sources : Stale(proc[q].sources[p])
  BY DEF Times
<1>3. CASE Pushes(q, proc[q], t)
  <2>1. PICK i : ToSet(t.stack) = {Frame(q, i, "watch", FALSE)} \cup ToSet(proc[q].stack)
    BY <1>3 DEF Pushes
  <2> DEFINE f == Frame(q, i, "watch", FALSE)
  <2>2. FreshFrame(f) /\ FrameOwn(f) /\ f.at = "watch"
    BY DEF FreshFrame, FrameOwn, Frame, Compared
  <2> HIDE DEF f
  <2>3. t.sources = proc[q].sources /\ ToSet(t.stack) = {f} \cup ToSet(proc[q].stack)
    BY <1>3, <2>1 DEF Pushes, f
  <2> QED
    BY <1>1, <1>2, <2>2, <2>3 DEF Orderly
<1>4. CASE Roots(q, proc[q], t)
  <2> DEFINE p == Head(proc[q].roots)
             h == Frame(q, p, "deps", IsTestPackage(q, p))
             f == [h EXCEPT !.todo = @ \cup {Runtime}, !.listed = @ \cup {Runtime}]
  <2>1. t.sources = proc[q].sources /\ ToSet(t.stack) = {f}
    BY <1>4 DEF Roots, RootFrame
  <2>2. FreshFrame(h) /\ FrameOwn(h) /\ h.at = "deps"
    BY DEF FreshFrame, FrameOwn, Frame, Compared
  <2>3. /\ f.at = h.at /\ f.p = h.p /\ f.js = h.js /\ f.jsTime = h.jsTime
        /\ f.jsRead = h.jsRead
    BY DEF Frame
  <2> HIDE DEF f, h
  <2>4. FreshFrame(f) /\ FrameOwn(f)
    BY <2>2, <2>3 DEF FreshFrame, FrameOwn, Compared
  <2> QED
    BY <1>2, <2>1, <2>2, <2>3, <2>4 DEF Orderly
<1>5. CASE Mains(q, proc[q], t)
  <2> DEFINE f == TestFrame(q)
             src == Parsed(q, f)
  <2>1. t.sources = Put(proc[q].sources, TestMain, src) /\ ToSet(t.stack) = {f}
    BY <1>5 DEF Mains
  <2>2. FreshFrame(f) /\ FrameOwn(f) /\ f.at = "unresolved"
    BY DEF FreshFrame, FrameOwn, Frame, Compared, TestFrame
  <2>3. Stale(src)
    BY DEF Stale, Parsed
  <2> HIDE DEF f, src
  <2>4. /\ DOMAIN t.sources = DOMAIN proc[q].sources \cup {TestMain}
        /\ t.sources[TestMain] = src
        /\ \A x \in DOMAIN proc[q].sources \ {TestMain} : t.sources[x] = proc[q].sources[x]
    BY <2>1 DEF Put
  <2> QED
    BY <1>2, <2>1, <2>2, <2>3, <2>4 DEF Orderly
<1> QED
  BY <1>3, <1>4, <1>5

(* A session that begins or ends has read nothing.                         *)
LEMMA ResetsOrderly ==
    ASSUME Times, NEW q \in Process, NEW t, Resets(q, proc[q], t)
    PROVE  Orderly(t)
<1>1. ToSet(t.stack) = {}
  BY NothingThere DEF Resets
<1>2. t.sources = proc[q].sources \/ DOMAIN t.sources = {}
  BY NothingThere DEF Resets
<1> QED
  BY <1>1, <1>2 DEF Orderly, Times

(* What is stored comes from a frame.                                      *)
LEMMA StoredOrderly ==
    ASSUME TypeOK, Times, NEW q \in Process, Turn(q, proc[q], proc'[q])
    PROVE  \A k \in DOMAIN cacheDir' :
             cacheDir'[k].src.p = k[2] /\ OldReading(cacheDir'[k].src)
<1>1. CASE UNCHANGED cacheDir
  BY <1>1 DEF Times, OldReading, ReadingOf
<1>2. CASE Keeps(q, proc[q], proc'[q]) /\ ~ UNCHANGED cacheDir
  <2> DEFINE g == Head(proc[q].stack)
             key == PackageKey(q, g.p)
  <2>1. /\ proc[q].stack # <<>> /\ Stores(q, g)
    BY <1>2 DEF Keeps, Keeping, Tops
  <2>2. g \in ToSet(proc[q].stack)
    <3>1. proc[q].stack \in Seq(FrameType)
      BY DEF TypeOK, Session
    <3> QED
      BY <2>1, <3>1, StackTop
  <2> HIDE DEF g
  <2>3. FrameOwn(g) /\ g.at = "rename" /\ OldReading(g.file.src)
    BY <2>1, <2>2, FramesBefore DEF Stores
  <2>4. g.file.src.p = key[2]
    BY <2>3 DEF FrameOwn, PackageKey
  <2>5. cacheDir' = Put(cacheDir, key, g.file)
    BY <2>1 DEF Stores
  <2> HIDE DEF key
  <2>6. /\ DOMAIN cacheDir' = DOMAIN cacheDir \cup {key} /\ cacheDir'[key] = g.file
        /\ \A k \in DOMAIN cacheDir \ {key} : cacheDir'[k] = cacheDir[k]
    BY <2>5 DEF Put
  <2>7. \A k \in DOMAIN cacheDir : cacheDir[k].src.p = k[2] /\ OldReading(cacheDir[k].src)
    BY DEF Times, OldReading, ReadingOf
  <2> QED
    BY <2>3, <2>4, <2>6, <2>7
<1> QED
  BY <1>1, <1>2 DEF Turn, Advances, Watches, Returns, Pushes, Roots, Mains, Resets

(* Every step of a process keeps the times in order.                       *)
LEMMA TimesStep ==
    ASSUME TypeOK, TypeOK', Times, NEW q \in Process, Step(q) \/ Crash(q)
    PROVE  Times'
<1> DEFINE t == proc'[q]
<1>1. /\ SessionOK(t) /\ Turn(q, proc[q], t) /\ proc' = [proc EXCEPT ![q] = t]
      /\ UNCHANGED <<conf, disk, clock>>
  BY EveryTurn
<1>2. Orderly(t)
  BY <1>1, AdvancesOrderly, KeepsOrderly, WatchesOrderly, ReturnsOrderly,
     NewFramesOrderly, ResetsOrderly DEF Turn
<1>3. \A k \in DOMAIN cacheDir' :
        cacheDir'[k].src.p = k[2] /\ OldReading(cacheDir'[k].src)
  BY <1>1, StoredOrderly
<1>4. ASSUME NEW f, FrameOf(proc', f)
      PROVE  \/ FrameOf(proc, f) /\ FrameOwn(f) /\ OldFrame(f, f)
             \/ f \in ToSet(t.stack)
  BY <1>1, <1>4, OwnFrames
<1>5. ASSUME NEW f, FrameOf(proc', f)
      PROVE  /\ FrameOwn(f) /\ (FreshFrame(f) \/ \E g : OldFrame(f, g))
             /\ f.at \in {"store", "rename"} => OldReading(f.src)
             /\ f.at \in {"read", "rename"} => OldReading(f.file.src)
  <2>1. CASE FrameOf(proc, f) /\ FrameOwn(f) /\ OldFrame(f, f)
    BY <2>1 DEF OldReading, ReadingOf
  <2>2. CASE f \in ToSet(t.stack)
    BY <1>2, <2>2 DEF Orderly
  <2> QED
    BY <1>4, <1>5, <2>1, <2>2
<1>6. \A r : ReadingOf(cacheDir', proc', r) => OldReading(r)
  BY <1>3, <1>5 DEF ReadingOf
<1>7. ASSUME NEW r \in Process, NEW p \in DOMAIN proc'[r].sources
      PROVE  Stale(proc'[r].sources[p])
  <2>1. CASE r = q
    BY <1>2, <1>7, <2>1 DEF Orderly
  <2>2. CASE r # q
    BY <1>1, <1>7, <2>2 DEF TypeOK, Times
  <2> QED
    BY <2>1, <2>2
<1> QED
  BY <1>1, <1>3, <1>5, <1>6, <1>7, TimesNext

(* The world changes what is on disk later than all that was read.         *)
LEMMA TimesWorld ==
    ASSUME TypeOK, TypeOK', Times, World
    PROVE  Times'
<1>1. \A q \in Process : SameSession(proc[q], proc'[q])
  BY WorldTurn
<1>2. \A f : FrameOf(proc', f) => FrameOf(proc, f)
  BY <1>1 DEF FrameOf, SameSession
<1>3. \A r : ReadingOf(cacheDir', proc', r) => ReadingOf(cacheDir, proc, r)
  BY <1>2, WorldTurn, NothingThere DEF ReadingOf
<1>4. /\ \A f, g : FrameOf(proc', f) /\ FrameOf(proc', g) /\ f.p = g.p => JsOrder(f, g)
      /\ \A r, f : ReadingOf(cacheDir', proc', r) /\ FrameOf(proc', f) /\ r.p = f.p => InOrder(r, f)
  BY <1>2, <1>3 DEF Times
<1>5. \A k \in DOMAIN cacheDir' : cacheDir'[k].src.p = k[2]
  BY WorldTurn, NothingThere DEF Times
<1>6. \A q \in Process : \A p \in DOMAIN proc'[q].sources : Stale(proc'[q].sources[p])
  BY <1>1 DEF Times, SameSession
<1>7. /\ clock \in Nat /\ clock' \in Nat /\ clock <= clock'
      /\ \A p \in Package :
           /\ disk[p] \in FilesOnDisk /\ disk'[p] \in FilesOnDisk
           /\ disk'[p].goTime = disk[p].goTime \/ disk'[p].goTime = clock
           /\ \/ disk'[p].js = disk[p].js /\ disk'[p].jsTime = disk[p].jsTime
              \/ disk'[p].js = disk[p].js + 1 /\ disk'[p].jsTime = clock
  <2>1. clock \in Nat /\ clock' \in Nat /\ disk \in [Package -> FilesOnDisk]
        /\ disk' \in [Package -> FilesOnDisk]
    BY DEF TypeOK
  <2>5. clock <= clock'
    <3>1. clock' = clock \/ clock' = clock + 1
      BY Zenon DEF World, EditGo, EditJs, Tick, Clear
    <3> QED
      BY <2>1, <3>1
  <2>6. ASSUME NEW x \in Package
        PROVE  /\ disk'[x].goTime = disk[x].goTime \/ disk'[x].goTime = clock
               /\ \/ disk'[x].js = disk[x].js /\ disk'[x].jsTime = disk[x].jsTime
                  \/ disk'[x].js = disk[x].js + 1 /\ disk'[x].jsTime = clock
    <3> DEFINE d == disk[x]
    <3>0. d \in FilesOnDisk
      BY <2>1
    <3>1. ASSUME NEW p \in Package, NEW v \in Version, EditGo(p, v)
          PROVE  disk'[x] = d \/ disk'[x] = [d EXCEPT !.go = v, !.goTime = clock]
      BY <2>1, <3>1 DEF EditGo
    <3>2. ASSUME NEW p \in Package, EditJs(p)
          PROVE  disk'[x] = d \/ disk'[x] = [d EXCEPT !.js = @ + 1, !.jsTime = clock]
      BY <2>1, <3>2 DEF EditJs
    <3>3. Tick \/ Clear => disk'[x] = d
      BY DEF Tick, Clear
    <3>4. \/ disk'[x] = d
          \/ \E v \in Version : disk'[x] = [d EXCEPT !.go = v, !.goTime = clock]
          \/ disk'[x] = [d EXCEPT !.js = @ + 1, !.jsTime = clock]
      BY <3>1, <3>2, <3>3, Zenon DEF World
    <3> HIDE DEF d
    <3>5. /\ disk'[x].goTime = d.goTime \/ disk'[x].goTime = clock
          /\ \/ disk'[x].js = d.js /\ disk'[x].jsTime = d.jsTime
             \/ disk'[x].js = d.js + 1 /\ disk'[x].jsTime = clock
      <4>1. CASE disk'[x] = d
        BY <4>1
      <4>2. CASE \E v \in Version : disk'[x] = [d EXCEPT !.go = v, !.goTime = clock]
        BY <3>0, <4>2 DEF FilesOnDisk
      <4>3. CASE disk'[x] = [d EXCEPT !.js = @ + 1, !.jsTime = clock]
        <5>1. /\ disk'[x].goTime = d.goTime /\ disk'[x].jsTime = clock
              /\ disk'[x].js = d.js + 1
          BY <3>0, <4>3 DEF FilesOnDisk
        <5> QED
          BY <5>1
      <4> QED
        BY <3>4, <4>1, <4>2, <4>3, Zenon
    <3> QED
      BY <3>5 DEF d
  <2> QED
    BY <2>1, <2>5, <2>6
<1>8. \A p \in Package : disk'[p].goTime <= clock' /\ disk'[p].jsTime <= clock'
  BY <1>7 DEF Times, FilesOnDisk
<1>9. ASSUME NEW f, FrameOf(proc', f)
      PROVE  FrameTimes(f)' /\ FrameOwn(f)
  <2>1. /\ f \in FrameType /\ FrameShape(f) /\ f.p \in Package
        /\ FrameTimes(f) /\ FrameOwn(f)
    BY <1>2, <1>9, FramesTyped DEF Times
  <2>2. /\ f.js \in Nat /\ f.jsRead \in Nat
        /\ disk[f.p].js \in Nat /\ disk'[f.p].js \in Nat
        /\ disk[f.p].jsTime \in Nat /\ disk'[f.p].jsTime \in Nat
        /\ disk[f.p].goTime \in Nat /\ disk'[f.p].goTime \in Nat
    BY <1>7, <2>1 DEF FrameType, FilesOnDisk
  <2>3. f.js <= disk'[f.p].js /\ f.jsRead <= clock' /\ JsOrder(f, disk'[f.p])
    BY <1>7, <2>1, <2>2 DEF FrameTimes, JsOrder
  <2>4. Compared(f) => f.disk.goTime \in Nat
    BY <2>1 DEF FrameShape, Compared, FilesOnDisk
  <2>5. Compared(f) => f.disk.goTime <= disk'[f.p].goTime
    BY <1>7, <2>1, <2>2, <2>4 DEF FrameTimes, Times
  <2> QED
    BY <2>1, <2>3, <2>5 DEF FrameTimes
<1>10. ASSUME NEW r, ReadingOf(cacheDir', proc', r)
       PROVE  ReadingTimes(r)'
  <2>1. r \in Source /\ r.p \in Package /\ ReadingTimes(r)
    BY <1>3, <1>10, FramesTyped DEF Times
  <2>2. /\ r.js \in Nat /\ r.jsRead \in Nat /\ r.read \in Nat /\ r.goTime \in Nat
        /\ disk[r.p].js \in Nat /\ disk'[r.p].js \in Nat
        /\ disk[r.p].jsTime \in Nat /\ disk'[r.p].jsTime \in Nat
        /\ disk[r.p].goTime \in Nat /\ disk'[r.p].goTime \in Nat
    BY <1>7, <2>1 DEF Source, FilesOnDisk
  <2>3. JsOrder(r, disk'[r.p])
    BY <1>7, <2>1, <2>2 DEF ReadingTimes, JsOrder
  <2>4. GoOrder(r, disk'[r.p])
    BY <1>7, <2>1, <2>2 DEF ReadingTimes, GoOrder
  <2>5. r.read <= clock' /\ r.jsRead <= clock'
    BY <1>7, <2>1, <2>2 DEF ReadingTimes
  <2> QED
    BY <2>3, <2>4, <2>5 DEF ReadingTimes
<1> QED
  BY <1>4, <1>5, <1>6, <1>8, <1>9, <1>10 DEF Times

(* Nothing has been read at first.                                         *)
LEMMA TimesInit == Init => Times
<1> SUFFICES ASSUME Init PROVE Times
  OBVIOUS
<1>1. \A f : ~ FrameOf(proc, f)
  BY NothingThere DEF Init, Idle, FrameOf
<1>2. DOMAIN cacheDir = {}
  BY NothingThere DEF Init
<1>3. \A r : ~ ReadingOf(cacheDir, proc, r)
  BY <1>1, <1>2 DEF ReadingOf
<1>4. \A q \in Process : DOMAIN proc[q].sources = {}
  BY NothingThere DEF Init, Idle
<1>5. \A p \in Package : disk[p].goTime <= clock /\ disk[p].jsTime <= clock
  BY BuildAssumption DEF Init
<1> QED
  BY <1>1, <1>2, <1>3, <1>4, <1>5 DEF Times

(* Every step keeps the times in order.                                    *)
LEMMA TimesKept == TypeOK /\ TypeOK' /\ Times /\ [Next]_vars => Times'
<1> SUFFICES ASSUME TypeOK, TypeOK', Times, [Next]_vars PROVE Times'
  OBVIOUS
<1>1. CASE \E q \in Process : Step(q) \/ Crash(q)
  BY <1>1, TimesStep
<1>2. CASE World
  BY <1>2, TimesWorld
<1>3. CASE UNCHANGED vars
  BY <1>3 DEF vars, Times, FrameOf, ReadingOf, FrameTimes, ReadingTimes
<1> QED
  BY <1>1, <1>2, <1>3 DEF Next

(* Sources of the cache are older than the files only if a file was        *)
(* changed after it was read and not after the sources were stored.        *)
THEOREM OnlyARaceIsStale == Spec => []StaleOnlyByRace
<1>1. Spec => [](TypeOK /\ Times)
  BY TypeInit, TypeKept, TimesInit, TimesKept, PTL DEF Spec
<1>2. Times => StaleOnlyByRace
  BY DEF Times, Stale, StaleOnlyByRace
<1> QED
  BY <1>1, <1>2, PTL

-----------------------------------------------------------------------------
(* The sources fit.  A package of a test is loaded with its tests when it  *)
(* is a root, before anything that is loaded later can import it: every    *)
(* tested package below a frame is loaded, and so is every one below a     *)
(* root, or it comes before that root.                                     *)
Fits(src, p, tags, test) == src.p = p /\ src.tags = tags /\ src.test = test

FrameFit(rank, q, s, f) ==
    /\ f.at = "watch" => f.test = FALSE /\ (f.p \in conf.tested[q] => f.p \in DOMAIN s.sources)
    /\ f.at # "watch" => f.test = (f.p \in conf.tested[q])
    /\ \A t \in conf.tested[q] : rank[t] < rank[f.p] => t \in DOMAIN s.sources
    /\ \A i \in f.todo \cup f.listed : rank[i] < rank[f.p] \/ i = Runtime
    /\ f.at \in {"store", "rename"} => Fits(f.src, f.p, conf.tags[q], f.test)
    /\ f.at = "rename" => f.test = FALSE /\ f.file.src = f.src
    /\ f.at = "read" => f.test = FALSE /\ Fits(f.file.src, f.p, conf.tags[q], FALSE)
    /\ f.at = "unresolved" => f.p \in DOMAIN s.sources
RootsFit(rank, q, s) ==
    \A n \in DOMAIN s.roots : \A t \in conf.tested[q] : rank[t] < rank[s.roots[n]] =>
        \/ t \in DOMAIN s.sources \/ IsLoading(s, t)
        \/ \E m \in 1 .. n - 1 : s.roots[m] = t
SessionFit(rank, q, s) ==
    /\ \A p \in DOMAIN s.sources :
         Fits(s.sources[p], p, conf.tags[q], p \in conf.tested[q])
    /\ \A f \in ToSet(s.stack) : FrameFit(rank, q, s, f)
    /\ s.step = "import" => RootsFit(rank, q, s)
CacheFit == \A k \in DOMAIN cacheDir : Fits(cacheDir[k].src, k[2], k[1], FALSE)
Fit(rank) == CacheFit /\ \A q \in Process : SessionFit(rank, q, proc[q])

(* The Boolean that says that something is not there.                      *)
LEMMA Absent ==
    ASSUME NEW x, NEW S, x \notin S
    PROVE  (x \in S) = FALSE /\ FALSE = (x \in S)
BY SMT

(* What a rank of the packages says.                                       *)
LEMMA RankSays ==
    ASSUME NEW rank \in [Package -> Nat], Layered(rank), TypeOK, NEW q \in Process
    PROVE  /\ \A p \in Package : rank[p] \in Nat /\ rank[Runtime] <= rank[p]
           /\ \A p \in Package, v \in Version :
                \A i \in ImportsOf(p, v) \cup Overlay[p] : rank[i] < rank[p] /\ i \in Package
           /\ conf.tested[q] \subseteq Package
           /\ Runtime \notin conf.tested[q] /\ TestMain \notin conf.tested[q]
           /\ Runtime \in Package
<1>1. conf \in Scenarios
  BY DEF TypeOK
<1>2. /\ conf.tested[q] \subseteq Package
      /\ Runtime \notin conf.tested[q] /\ TestMain \notin conf.tested[q]
  BY <1>1, BuildAssumption DEF Layered
<1>3. ASSUME NEW p \in Package, NEW v \in Version, NEW i \in ImportsOf(p, v) \cup Overlay[p]
      PROVE  rank[i] < rank[p] /\ i \in Package
  BY BuildAssumption DEF Layered, ImportsOf
<1> QED
  BY <1>2, <1>3, BuildAssumption DEF Layered

(* It is enough that the sources, the frames and the roots that are new    *)
(* fit and that no sources are lost.                                       *)
LEMMA FitNext ==
    ASSUME NEW rank, NEW q, NEW s, NEW t, s.step = "import", SessionFit(rank, q, s),
           DOMAIN s.sources \subseteq DOMAIN t.sources,
           \A p \in DOMAIN t.sources :
               \/ p \in DOMAIN s.sources /\ t.sources[p] = s.sources[p]
               \/ Fits(t.sources[p], p, conf.tags[q], p \in conf.tested[q]),
           \A f \in ToSet(t.stack) : f \in ToSet(s.stack) \/ FrameFit(rank, q, t, f),
           t.roots = s.roots,
           \A i : IsLoading(s, i) => IsLoading(t, i) \/ i \in DOMAIN t.sources
    PROVE  SessionFit(rank, q, t)
<1>1. ASSUME NEW p \in DOMAIN t.sources
      PROVE  Fits(t.sources[p], p, conf.tags[q], p \in conf.tested[q])
  BY DEF SessionFit
<1>2. ASSUME NEW f \in ToSet(t.stack) PROVE FrameFit(rank, q, t, f)
  BY DEF SessionFit, FrameFit
<1>3. RootsFit(rank, q, t)
  BY DEF SessionFit, RootsFit
<1> QED
  BY <1>1, <1>2, <1>3 DEF SessionFit

(* The loading of the package on top goes on: a package that is tested is  *)
(* neither taken from the cache nor stored.                                *)
LEMMA AdvancesFit ==
    ASSUME NEW rank \in [Package -> Nat], Layered(rank), TypeOK, CacheFit, NEW q \in Process,
           NEW t, SessionFit(rank, q, proc[q]), Advances(q, proc[q], t)
    PROVE  SessionFit(rank, q, t)
<1> DEFINE s == proc[q]
           g == Head(s.stack)
<1>1. PICK f \in FrameType : Tops(s, t, f) /\ Advance(q, s, g, f)
  BY DEF Advances
<1>2. /\ t.sources = s.sources /\ t.roots = s.roots
      /\ ToSet(t.stack) = {f} \cup ToSet(Tail(s.stack))
      /\ s.stack \in Seq(FrameType) /\ s.stack # <<>> /\ s.step = "import"
  BY <1>1 DEF Advances, Tops, TypeOK, Session, SessionShape
<1>3. ToSet(s.stack) = {g} \cup ToSet(Tail(s.stack)) /\ g \in FrameType
  BY <1>2, StackTop
<1> HIDE DEF g
<1>4. FrameFit(rank, q, s, g)
  BY <1>3 DEF SessionFit
<1>5. /\ f.p = g.p /\ f.test = g.test /\ f.listed = g.listed /\ f.todo \subseteq g.todo
      /\ g.at # "watch" /\ f.at # "watch"
      /\ f.at = "unresolved" <=> g.at = "unresolved"
      /\ f.at = "read" =>
           /\ ~ IsTestPackage(q, f.p) /\ PackageKey(q, f.p) \in DOMAIN cacheDir
           /\ f.file = cacheDir[PackageKey(q, f.p)]
      /\ f.at = "store" => f.src = Parsed(q, g)
      /\ f.at = "rename" =>
           /\ g.at = "store" /\ ~ IsTestPackage(q, f.p)
           /\ f.src = g.src /\ f.file.src = g.src
  BY <1>1 DEF Advance, SameFiles
<1>6. f.test = (f.p \in conf.tested[q])
  BY <1>4, <1>5, Zenon DEF FrameFit
<1>7. f.at = "store" => Fits(f.src, f.p, conf.tags[q], f.test)
  <2>1. SUFFICES ASSUME f.at = "store" PROVE Fits(f.src, f.p, conf.tags[q], f.test)
    OBVIOUS
  <2>2. Parsed(q, g).p = g.p /\ Parsed(q, g).tags = conf.tags[q] /\ Parsed(q, g).test = g.test
    BY DEF Parsed
  <2> QED
    BY <1>5, <2>1, <2>2, Zenon DEF Fits
<1>8. f.at = "rename" =>
        Fits(f.src, f.p, conf.tags[q], f.test) /\ f.test = FALSE /\ f.file.src = f.src
  <2>1. SUFFICES ASSUME f.at = "rename"
                 PROVE  /\ Fits(f.src, f.p, conf.tags[q], f.test) /\ f.test = FALSE
                        /\ f.file.src = f.src
    OBVIOUS
  <2>2. Fits(g.src, g.p, conf.tags[q], g.test)
    BY <1>4, <1>5, <2>1 DEF FrameFit
  <2>3. f.test = FALSE
    <3>1. (f.p \in conf.tested[q]) = FALSE
      BY <1>5, <2>1, Absent DEF IsTestPackage
    <3> QED
      BY <1>6, <3>1, Zenon
  <2> QED
    BY <1>5, <2>1, <2>2, <2>3
<1>9. f.at = "read" => f.test = FALSE /\ Fits(f.file.src, f.p, conf.tags[q], FALSE)
  <2>1. SUFFICES ASSUME f.at = "read"
                 PROVE  f.test = FALSE /\ Fits(f.file.src, f.p, conf.tags[q], FALSE)
    OBVIOUS
  <2>2. f.test = FALSE
    <3>1. (f.p \in conf.tested[q]) = FALSE
      BY <1>5, <2>1, Absent DEF IsTestPackage
    <3> QED
      BY <1>6, <3>1, Zenon
  <2>3. PackageKey(q, f.p)[2] = f.p /\ PackageKey(q, f.p)[1] = conf.tags[q]
    BY DEF PackageKey
  <2> QED
    BY <1>5, <2>1, <2>2, <2>3 DEF CacheFit
<1>10. FrameFit(rank, q, t, f)
  <2>1. /\ \A x \in conf.tested[q] : rank[x] < rank[f.p] => x \in DOMAIN t.sources
        /\ \A i \in f.todo \cup f.listed : rank[i] < rank[f.p] \/ i = Runtime
        /\ f.at = "unresolved" => f.p \in DOMAIN t.sources
    BY <1>2, <1>4, <1>5 DEF FrameFit
  <2> QED
    BY <1>5, <1>6, <1>7, <1>8, <1>9, <2>1 DEF FrameFit
<1>11. \A i : IsLoading(s, i) => IsLoading(t, i)
  BY <1>2, <1>3, <1>5 DEF IsLoading
<1> QED
  BY <1>2, <1>3, <1>10, <1>11, FitNext

(* The sources of the package on top fit it, wherever they come from.      *)
LEMMA KeepsFit ==
    ASSUME NEW rank \in [Package -> Nat], Layered(rank), TypeOK, NEW q \in Process,
           NEW t, SessionFit(rank, q, proc[q]), Keeps(q, proc[q], t)
    PROVE  SessionFit(rank, q, t)
<1> DEFINE s == proc[q]
           g == Head(s.stack)
<1>1. PICK f \in FrameType, src \in Source : Keeping(q, s, t, g, f, src)
  BY DEF Keeps
<1>2. /\ Tops(s, t, f) /\ f.p = g.p /\ f.test = g.test /\ f.listed = g.listed
      /\ g.at \in Mid /\ f.at = "unresolved" /\ f.todo = FileImports(src) \ f.listed
      /\ t.sources = Put(s.sources, g.p, src) /\ Sourced(q, g, src)
  BY <1>1 DEF Keeping, SameFiles
<1>3. /\ t.roots = s.roots /\ ToSet(t.stack) = {f} \cup ToSet(Tail(s.stack))
      /\ s.stack \in Seq(FrameType) /\ s.stack # <<>> /\ s.step = "import"
  BY <1>2 DEF Tops, TypeOK, Session, SessionShape
<1>4. ToSet(s.stack) = {g} \cup ToSet(Tail(s.stack)) /\ g \in FrameType
  BY <1>3, StackTop
<1> HIDE DEF g
<1>5. FrameFit(rank, q, s, g) /\ g.p \in Package /\ FrameShape(g)
  BY <1>4 DEF SessionFit, FrameType, TypeOK, SessionShape
<1>6. g.test = (g.p \in conf.tested[q])
  BY <1>2, <1>5, Zenon DEF FrameFit, Mid
<1>7. Fits(src, g.p, conf.tags[q], g.test)
  <2>1. CASE /\ g.at = "read" /\ g.mod <= g.file.time
             /\ src = [g.file.src EXCEPT !.from = g.file.time, !.disk = g.disk]
    <3>1. g.test = FALSE /\ Fits(g.file.src, g.p, conf.tags[q], FALSE)
      BY <1>5, <2>1 DEF FrameFit
    <3>2. g.file.src \in Source
      BY <1>5, <2>1 DEF FrameShape, StoredFile
    <3>3. src.p = g.file.src.p /\ src.tags = g.file.src.tags /\ src.test = g.file.src.test
      BY <2>1, <3>2 DEF Source
    <3> QED
      BY <3>1, <3>3, Zenon DEF Fits
  <2>2. CASE g.at = "parse" /\ src = Parsed(q, g)
    <3>1. Parsed(q, g).p = g.p /\ Parsed(q, g).tags = conf.tags[q] /\ Parsed(q, g).test = g.test
      BY DEF Parsed
    <3> QED
      BY <2>2, <3>1, Zenon DEF Fits
  <2>3. CASE g.at \in {"store", "rename"} /\ src = g.src
    BY <1>5, <2>3 DEF FrameFit
  <2> QED
    BY <1>2, <2>1, <2>2, <2>3 DEF Sourced
<1>8. Fits(src, g.p, conf.tags[q], g.p \in conf.tested[q])
  BY <1>6, <1>7, Zenon
<1>9. /\ DOMAIN t.sources = DOMAIN s.sources \cup {g.p} /\ t.sources[g.p] = src
      /\ \A x \in DOMAIN s.sources \ {g.p} : t.sources[x] = s.sources[x]
  BY <1>2 DEF Put
<1>10. \A i \in FileImports(src) : rank[i] < rank[g.p]
  <2>1. src.p = g.p /\ src.go \in Version
    BY <1>7 DEF Fits, Source
  <2> QED
    BY <1>5, <2>1, RankSays DEF FileImports
<1>11. FrameFit(rank, q, t, f)
  <2>1. \A x \in conf.tested[q] : rank[x] < rank[f.p] => x \in DOMAIN t.sources
    BY <1>2, <1>5, <1>9 DEF FrameFit
  <2>2. \A i \in f.todo \cup f.listed : rank[i] < rank[f.p] \/ i = Runtime
    BY <1>2, <1>5, <1>10 DEF FrameFit
  <2>3. f.test = (f.p \in conf.tested[q])
    BY <1>2, <1>6, Zenon
  <2> QED
    BY <1>2, <1>9, <2>1, <2>2, <2>3 DEF FrameFit
<1>12. \A i : IsLoading(s, i) => IsLoading(t, i)
  BY <1>2, <1>3, <1>4 DEF IsLoading
<1>13. \A p \in DOMAIN t.sources :
          \/ p \in DOMAIN s.sources /\ t.sources[p] = s.sources[p]
          \/ Fits(t.sources[p], p, conf.tags[q], p \in conf.tested[q])
  BY <1>8, <1>9, Zenon
<1>14. DOMAIN s.sources \subseteq DOMAIN t.sources
  BY <1>9
<1>15. \A x \in ToSet(t.stack) : x \in ToSet(s.stack) \/ FrameFit(rank, q, t, x)
  BY <1>3, <1>4, <1>11
<1> QED
  BY <1>3, <1>12, <1>13, <1>14, <1>15, FitNext

(* A tested package is loaded before any other imports it, so that one     *)
(* that is imported has no tests.                                          *)
LEMMA WatchesFit ==
    ASSUME NEW rank \in [Package -> Nat], Layered(rank), TypeOK, NEW q \in Process,
           NEW t, SessionFit(rank, q, proc[q]), Watches(q, proc[q], t)
    PROVE  SessionFit(rank, q, t)
<1> DEFINE s == proc[q]
           g == Head(s.stack)
<1>1. PICK f \in FrameType : Watched(s, t, g, f)
  BY DEF Watches
<1>2. /\ Tops(s, t, f) /\ f.p = g.p /\ f.test = g.test /\ f.listed = g.listed
      /\ g.at = "watch" /\ f.at = "deps" /\ f.todo = g.todo
      /\ g.p \notin DOMAIN s.sources /\ t.sources = s.sources
  BY <1>1 DEF Watches, Watched, SameFiles
<1>3. /\ t.roots = s.roots /\ ToSet(t.stack) = {f} \cup ToSet(Tail(s.stack))
      /\ s.stack \in Seq(FrameType) /\ s.stack # <<>> /\ s.step = "import"
  BY <1>2 DEF Tops, TypeOK, Session, SessionShape
<1>4. ToSet(s.stack) = {g} \cup ToSet(Tail(s.stack))
  BY <1>3, StackTop
<1> HIDE DEF g
<1>5. FrameFit(rank, q, s, g)
  BY <1>4 DEF SessionFit
<1>6. g.test = FALSE /\ g.p \notin conf.tested[q]
  BY <1>2, <1>5 DEF FrameFit
<1>7. f.test = (f.p \in conf.tested[q])
  <2>1. f.test = FALSE /\ FALSE = (f.p \in conf.tested[q])
    BY <1>2, <1>6, Absent
  <2> QED
    BY <2>1, Zenon
<1>8. /\ \A x \in conf.tested[q] : rank[x] < rank[f.p] => x \in DOMAIN t.sources
      /\ \A i \in f.todo \cup f.listed : rank[i] < rank[f.p] \/ i = Runtime
  BY <1>2, <1>5 DEF FrameFit
<1>9. FrameFit(rank, q, t, f)
  BY <1>2, <1>7, <1>8 DEF FrameFit
<1>10. \A i : IsLoading(s, i) => IsLoading(t, i)
  BY <1>2, <1>3, <1>4 DEF IsLoading
<1> QED
  BY <1>2, <1>3, <1>4, <1>9, <1>10, FitNext

(* A package that returns has its sources.                                 *)
LEMMA ReturnsFit ==
    ASSUME NEW rank \in [Package -> Nat], Layered(rank), TypeOK, NEW q \in Process,
           NEW t, SessionFit(rank, q, proc[q]), Returns(q, proc[q], t)
    PROVE  SessionFit(rank, q, t)
<1> DEFINE s == proc[q]
           g == Head(s.stack)
           rest == Tail(s.stack)
           b == Head(rest)
<1>1. /\ s.stack \in Seq(FrameType) /\ s.stack # <<>> /\ t.sources = s.sources
      /\ t.roots = s.roots /\ s.step = "import" /\ Ends(s, t, g)
  BY DEF Returns, TypeOK, Session, SessionShape
<1>2. ToSet(s.stack) = {g} \cup ToSet(rest) /\ rest \in Seq(FrameType)
  BY <1>1, StackTop
<1>3. g.p \in DOMAIN t.sources
  BY <1>1, <1>2 DEF Ends, SessionFit, FrameFit
<1>4. CASE rest = <<>> /\ t.stack = <<>>
  <2>1. ToSet(t.stack) = {} /\ ToSet(rest) = {}
    BY <1>4, NothingThere
  <2>2. \A i : IsLoading(s, i) => i \in DOMAIN t.sources
    BY <1>2, <1>3, <2>1 DEF IsLoading
  <2> QED
    BY <1>1, <2>1, <2>2, FitNext
<1>5. CASE rest # <<>>
  <2>1. PICK f \in FrameType : ToSet(t.stack) = {f} \cup ToSet(Tail(rest)) /\ ReturnsTo(t, g, b, f)
    BY <1>5 DEF Returns
  <2>2. ToSet(rest) = {b} \cup ToSet(Tail(rest))
    BY <1>2, <1>5, StackTop
  <2>3. /\ f.p = b.p /\ f.test = b.test /\ f.listed = b.listed /\ f.at = b.at
        /\ f.file = b.file /\ f.src = b.src /\ f.todo \subseteq b.todo
    BY <2>1 DEF ReturnsTo, SameFiles
  <2> HIDE DEF g, b, rest
  <2>4. FrameFit(rank, q, s, b)
    BY <1>2, <2>2 DEF SessionFit
  <2>5. FrameFit(rank, q, t, f)
    <3>1. \A i \in f.todo \cup f.listed : rank[i] < rank[f.p] \/ i = Runtime
      BY <2>3, <2>4 DEF FrameFit
    <3> QED
      BY <1>1, <2>3, <2>4, <3>1 DEF FrameFit
  <2>6. \A i : IsLoading(s, i) => IsLoading(t, i) \/ i \in DOMAIN t.sources
    BY <1>2, <1>3, <2>1, <2>2, <2>3 DEF IsLoading
  <2> QED
    BY <1>1, <1>2, <2>1, <2>2, <2>5, <2>6, FitNext
<1> QED
  BY <1>4, <1>5 DEF Returns

(* An import of a package has a lower rank, or is the runtime.             *)
LEMMA PushesFit ==
    ASSUME NEW rank \in [Package -> Nat], Layered(rank), TypeOK, NEW q \in Process,
           NEW t, SessionFit(rank, q, proc[q]), Pushes(q, proc[q], t)
    PROVE  SessionFit(rank, q, t)
<1> DEFINE s == proc[q]
           g == Head(s.stack)
<1>1. /\ s.stack \in Seq(FrameType) /\ s.stack # <<>> /\ s.step = "import"
      /\ t.roots = s.roots /\ t.sources = s.sources
  BY DEF Pushes, TypeOK, Session, SessionShape
<1>2. PICK i \in g.todo : ToSet(t.stack) = {Frame(q, i, "watch", FALSE)} \cup ToSet(s.stack)
  BY DEF Pushes
<1>3. ToSet(s.stack) = {g} \cup ToSet(Tail(s.stack)) /\ g \in FrameType
  BY <1>1, StackTop
<1> HIDE DEF g
<1> DEFINE f == Frame(q, i, "watch", FALSE)
<1>4. FrameFit(rank, q, s, g) /\ i \in Package /\ g.p \in Package
  BY <1>3 DEF SessionFit, FrameType
<1>5. f.at = "watch" /\ f.test = FALSE /\ f.p = i
      /\ f.todo = ImportsOf(i, disk[i].go) /\ f.listed = ImportsOf(i, disk[i].go)
  BY DEF Frame
<1>6. disk[i].go \in Version
  BY <1>4 DEF TypeOK, FilesOnDisk
<1> HIDE DEF f
<1>7. rank[i] < rank[g.p] \/ i = Runtime
  BY <1>4 DEF FrameFit
<1>8. i \in conf.tested[q] => i \in DOMAIN t.sources
  BY <1>1, <1>4, <1>7, RankSays DEF FrameFit
<1>9. ASSUME NEW x \in conf.tested[q], rank[x] < rank[i] PROVE x \in DOMAIN t.sources
  <2>1. /\ rank[x] \in Nat /\ rank[i] \in Nat /\ rank[g.p] \in Nat
        /\ rank[Runtime] <= rank[x] /\ rank[Runtime] \in Nat
    BY <1>4, RankSays
  <2>2. rank[x] < rank[g.p]
    BY <1>7, <1>9, <2>1
  <2> QED
    BY <1>1, <1>4, <2>2 DEF FrameFit
<1>10. \A x \in f.todo \cup f.listed : rank[x] < rank[f.p] \/ x = Runtime
  BY <1>4, <1>5, <1>6, RankSays
<1>11. FrameFit(rank, q, t, f)
  BY <1>5, <1>8, <1>9, <1>10 DEF FrameFit
<1>12. ToSet(t.stack) = {f} \cup ToSet(s.stack)
  BY <1>2 DEF f
<1>13. \A x : IsLoading(s, x) => IsLoading(t, x)
  BY <1>12 DEF IsLoading
<1> QED
  BY <1>1, <1>11, <1>12, <1>13, FitNext

(* The next root: the tested packages that it can import are loaded.       *)
LEMMA RootsFitNext ==
    ASSUME TypeOK, NEW rank \in [Package -> Nat], NEW q \in Process,
           NEW s, s \in Session, RootsFit(rank, q, s), s.stack = <<>>, s.roots # <<>>,
           NEW t, t.roots = Tail(s.roots), DOMAIN s.sources \subseteq DOMAIN t.sources,
           \/ IsLoading(t, Head(s.roots))
           \/ Head(s.roots) \notin conf.tested[q]
    PROVE  /\ RootsFit(rank, q, t)
           /\ \A x \in conf.tested[q] : rank[x] < rank[Head(s.roots)] => x \in DOMAIN s.sources
<1>1. /\ s.roots \in Seq(Package) /\ \A i : ~ IsLoading(s, i)
  BY NothingThere DEF Session, IsLoading
<1>2. /\ Len(s.roots) \in Nat /\ Len(s.roots) >= 1 /\ Head(s.roots) = s.roots[1]
      /\ DOMAIN s.roots = 1 .. Len(s.roots)
  BY <1>1, EmptySeq, LenProperties
<1>3. \A x \in conf.tested[q] : rank[x] < rank[Head(s.roots)] => x \in DOMAIN s.sources
  BY <1>1, <1>2 DEF RootsFit
<1>4. /\ DOMAIN t.roots = 1 .. Len(s.roots) - 1
      /\ \A n \in DOMAIN t.roots : t.roots[n] = s.roots[n + 1]
  BY <1>1, <1>2, HeadTailProperties, LenProperties
<1>5. ASSUME NEW n \in DOMAIN t.roots, NEW x \in conf.tested[q], rank[x] < rank[t.roots[n]]
      PROVE  \/ x \in DOMAIN t.sources \/ IsLoading(t, x)
             \/ \E m \in 1 .. n - 1 : t.roots[m] = x
  <2>1. n + 1 \in DOMAIN s.roots /\ t.roots[n] = s.roots[n + 1] /\ n \in Nat
    BY <1>2, <1>4
  <2>2. x \in DOMAIN s.sources \/ \E m \in 1 .. (n + 1) - 1 : s.roots[m] = x
    BY <1>1, <1>5, <2>1 DEF RootsFit
  <2>3. ASSUME NEW m \in 1 .. (n + 1) - 1, s.roots[m] = x
        PROVE  IsLoading(t, x) \/ \E k \in 1 .. n - 1 : t.roots[k] = x
    <3>1. CASE m = 1
      BY <1>2, <1>5, <2>3, <3>1
    <3>2. CASE m # 1
      <4>1. m - 1 \in 1 .. n - 1 /\ m - 1 \in DOMAIN t.roots /\ (m - 1) + 1 = m
        BY <1>2, <1>4, <2>1, <3>2
      <4> QED
        BY <1>4, <2>3, <4>1
    <3> QED
      BY <3>1, <3>2
  <2> QED
    BY <2>2, <2>3
<1>6. RootsFit(rank, q, t)
  BY <1>5 DEF RootsFit
<1> QED
  BY <1>3, <1>6

(* A root is loaded with its tests if it is tested.                        *)
LEMMA RootFit ==
    ASSUME NEW rank \in [Package -> Nat], Layered(rank), TypeOK, NEW q \in Process,
           NEW t, SessionFit(rank, q, proc[q]), Roots(q, proc[q], t)
    PROVE  SessionFit(rank, q, t)
<1> DEFINE s == proc[q]
           p == Head(s.roots)
           f == RootFrame(q, p)
<1>1. /\ s \in Session /\ s.step = "import" /\ s.stack = <<>> /\ s.roots # <<>>
      /\ t.roots = Tail(s.roots) /\ t.sources = s.sources /\ ToSet(t.stack) = {f}
  BY DEF Roots, TypeOK
<1>2. p \in Package
  BY <1>1, StackTop DEF Session
<1>3. /\ f.at = "deps" /\ f.p = p
      /\ f.todo = ImportsOf(p, disk[p].go) \cup {Runtime} /\ f.listed = f.todo
  BY DEF RootFrame, Frame
<1>4. f.test = (p \in conf.tested[q])
  <2>1. f.test = IsTestPackage(q, p)
    BY DEF RootFrame, Frame
  <2> QED
    BY <2>1, Zenon DEF IsTestPackage
<1> HIDE DEF f, p, s
<1>5. IsLoading(t, p)
  BY <1>1, <1>3 DEF IsLoading
<1>6. RootsFit(rank, q, s)
  BY <1>1 DEF SessionFit, s
<1>7. /\ RootsFit(rank, q, t)
      /\ \A x \in conf.tested[q] : rank[x] < rank[p] => x \in DOMAIN s.sources
  BY <1>1, <1>5, <1>6, RootsFitNext DEF p
<1>8. disk[p].go \in Version
  BY <1>2 DEF TypeOK, FilesOnDisk
<1>9. \A i \in f.todo \cup f.listed : rank[i] < rank[f.p] \/ i = Runtime
  BY <1>2, <1>3, <1>8, RankSays
<1>10. f.test = (f.p \in conf.tested[q])
  BY <1>3, <1>4, Zenon
<1>11. FrameFit(rank, q, t, f)
  BY <1>1, <1>3, <1>7, <1>9, <1>10 DEF FrameFit
<1> QED
  BY <1>1, <1>7, <1>11 DEF SessionFit, s

(* The generated main package is not tested.                               *)
LEMMA MainFit ==
    ASSUME NEW rank \in [Package -> Nat], Layered(rank), TypeOK, NEW q \in Process,
           NEW t, SessionFit(rank, q, proc[q]), Mains(q, proc[q], t)
    PROVE  SessionFit(rank, q, t)
<1> DEFINE s == proc[q]
           f == TestFrame(q)
           src == Parsed(q, f)
<1>1. /\ s \in Session /\ s.step = "import" /\ s.stack = <<>> /\ s.roots # <<>>
      /\ Head(s.roots) = TestMain /\ t.roots = Tail(s.roots)
      /\ t.sources = Put(s.sources, TestMain, src) /\ ToSet(t.stack) = {f}
  BY DEF Mains, TypeOK
<1>2. /\ f.at = "unresolved" /\ f.p = TestMain /\ f.test = FALSE
      /\ f.todo = ImportsOf(TestMain, disk[TestMain].go) /\ f.listed = f.todo
  BY DEF TestFrame, Frame
<1>3. src.p = f.p /\ src.tags = conf.tags[q] /\ src.test = f.test
  BY DEF Parsed
<1>4. TestMain \notin conf.tested[q] /\ TestMain \in Package
  BY RankSays, BuildAssumption
<1> HIDE DEF f, src, s
<1>5. Fits(src, TestMain, conf.tags[q], TestMain \in conf.tested[q])
  <2>1. src.test = FALSE /\ src.p = TestMain /\ FALSE = (TestMain \in conf.tested[q])
    BY <1>2, <1>3, <1>4, Absent
  <2> QED
    BY <1>3, <2>1, Zenon DEF Fits
<1>6. /\ DOMAIN t.sources = DOMAIN s.sources \cup {TestMain} /\ t.sources[TestMain] = src
      /\ \A x \in DOMAIN s.sources \ {TestMain} : t.sources[x] = s.sources[x]
  BY <1>1 DEF Put
<1>7. \A x \in DOMAIN s.sources : Fits(s.sources[x], x, conf.tags[q], x \in conf.tested[q])
  BY DEF SessionFit, s
<1>8. ASSUME NEW x \in DOMAIN t.sources
      PROVE  Fits(t.sources[x], x, conf.tags[q], x \in conf.tested[q])
  <2>1. CASE x = TestMain
    BY <1>5, <1>6, <2>1, Zenon
  <2>2. CASE x # TestMain
    BY <1>6, <1>7, <2>2
  <2> QED
    BY <2>1, <2>2
<1>9. RootsFit(rank, q, s)
  BY <1>1 DEF SessionFit, s
<1>10. /\ RootsFit(rank, q, t)
       /\ \A x \in conf.tested[q] : rank[x] < rank[TestMain] => x \in DOMAIN s.sources
  BY <1>1, <1>4, <1>6, <1>9, RootsFitNext
<1>11. disk[TestMain].go \in Version
  BY <1>4 DEF TypeOK, FilesOnDisk
<1>12. \A i \in f.todo \cup f.listed : rank[i] < rank[f.p] \/ i = Runtime
  BY <1>2, <1>4, <1>11, RankSays
<1>13. f.test = (f.p \in conf.tested[q])
  <2>1. f.test = FALSE /\ FALSE = (f.p \in conf.tested[q])
    BY <1>2, <1>4, Absent
  <2> QED
    BY <2>1, Zenon
<1>14. FrameFit(rank, q, t, f)
  BY <1>2, <1>6, <1>10, <1>12, <1>13 DEF FrameFit
<1> QED
  BY <1>1, <1>8, <1>10, <1>14 DEF SessionFit

(* A new session has its roots in order.                                   *)
LEMMA ResetsFit ==
    ASSUME NEW rank \in [Package -> Nat], Layered(rank), TypeOK, NEW q \in Process,
           NEW t, SessionFit(rank, q, proc[q]), Resets(q, proc[q], t)
    PROVE  SessionFit(rank, q, t)
<1>1. ToSet(t.stack) = {}
  BY NothingThere DEF Resets
<1>2. t.sources = proc[q].sources \/ DOMAIN t.sources = {}
  BY NothingThere DEF Resets
<1>3. t.step = "import" => t.roots = conf.roots[q]
  BY DEF Resets
<1>4. conf \in Scenarios
  BY DEF TypeOK
<1>5. t.step = "import" => RootsFit(rank, q, t)
  BY <1>3, <1>4 DEF Layered, RootsFit
<1> QED
  BY <1>1, <1>2, <1>5 DEF SessionFit

(* What is stored fits its key: it was made for a session with these tags  *)
(* that does not test the package.                                         *)
LEMMA StoredFits ==
    ASSUME NEW rank, TypeOK, CacheFit, NEW q \in Process,
           SessionFit(rank, q, proc[q]), Turn(q, proc[q], proc'[q])
    PROVE  CacheFit'
<1>1. CASE UNCHANGED cacheDir
  BY <1>1 DEF CacheFit
<1>2. CASE Keeps(q, proc[q], proc'[q]) /\ ~ UNCHANGED cacheDir
  <2> DEFINE g == Head(proc[q].stack)
             key == PackageKey(q, g.p)
  <2>1. /\ proc[q].stack # <<>> /\ g.at = "rename" /\ cacheDir' = Put(cacheDir, key, g.file)
    BY <1>2 DEF Keeps, Keeping, Tops, Stores
  <2>2. g \in ToSet(proc[q].stack)
    <3>1. proc[q].stack \in Seq(FrameType)
      BY DEF TypeOK, Session
    <3> QED
      BY <2>1, <3>1, StackTop
  <2>3. key[2] = g.p /\ key[1] = conf.tags[q]
    BY DEF PackageKey
  <2> HIDE DEF g, key
  <2>4. /\ Fits(g.src, g.p, conf.tags[q], g.test) /\ g.test = FALSE /\ g.file.src = g.src
    BY <2>1, <2>2 DEF SessionFit, FrameFit
  <2>5. Fits(g.file.src, key[2], key[1], FALSE)
    BY <2>3, <2>4
  <2>6. /\ DOMAIN cacheDir' = DOMAIN cacheDir \cup {key} /\ cacheDir'[key] = g.file
        /\ \A k \in DOMAIN cacheDir \ {key} : cacheDir'[k] = cacheDir[k]
    BY <2>1 DEF Put
  <2>7. ASSUME NEW k \in DOMAIN cacheDir'
        PROVE  Fits(cacheDir'[k].src, k[2], k[1], FALSE)
    BY <2>5, <2>6, <2>7 DEF CacheFit
  <2> QED
    BY <2>7 DEF CacheFit, Fits
<1> QED
  BY <1>1, <1>2 DEF Turn, Advances, Watches, Returns, Pushes, Roots, Mains, Resets

(* What fits a session depends on its fields alone.                        *)
LEMMA SameFit ==
    ASSUME NEW rank, NEW q, NEW s, NEW t, SameSession(s, t), SessionFit(rank, q, s)
    PROVE  SessionFit(rank, q, t)
<1>1. /\ t.step = s.step /\ t.roots = s.roots /\ t.stack = s.stack /\ t.sources = s.sources
  BY DEF SameSession
<1>2. \A p \in DOMAIN t.sources : Fits(t.sources[p], p, conf.tags[q], p \in conf.tested[q])
  BY <1>1 DEF SessionFit
<1>3. \A f \in ToSet(t.stack) : FrameFit(rank, q, t, f)
  BY <1>1 DEF SessionFit, FrameFit
<1>4. t.step = "import" => RootsFit(rank, q, t)
  BY <1>1 DEF SessionFit, RootsFit, IsLoading
<1> QED
  BY <1>2, <1>3, <1>4 DEF SessionFit

(* There is nothing at first.                                              *)
LEMMA FitInit == ASSUME NEW rank PROVE Init => Fit(rank)
<1> SUFFICES ASSUME Init PROVE Fit(rank)
  OBVIOUS
<1>1. DOMAIN cacheDir = {}
  BY NothingThere DEF Init
<1>2. ASSUME NEW q \in Process
      PROVE  /\ DOMAIN proc[q].sources = {} /\ ToSet(proc[q].stack) = {}
             /\ proc[q].step = "idle"
  BY NothingThere DEF Init, Idle
<1> QED
  BY <1>1, <1>2 DEF Fit, CacheFit, SessionFit

(* Every step keeps what fits.                                             *)
LEMMA FitKept ==
    ASSUME NEW rank \in [Package -> Nat], Layered(rank)
    PROVE  TypeOK /\ Fit(rank) /\ [Next]_vars => Fit(rank)'
<1> SUFFICES ASSUME TypeOK, Fit(rank), [Next]_vars PROVE Fit(rank)'
  OBVIOUS
<1>1. conf' = conf
  BY EveryTurn, WorldTurn DEF Next, vars
<1>2. CacheFit'
  <2>1. ASSUME NEW q \in Process, Step(q) \/ Crash(q) PROVE CacheFit'
    BY <2>1, EveryTurn, StoredFits DEF Fit
  <2>2. CASE World
    BY <2>2, WorldTurn, NothingThere DEF Fit, CacheFit
  <2>3. CASE UNCHANGED vars
    BY <2>3 DEF vars, Fit, CacheFit
  <2> QED
    BY <2>1, <2>2, <2>3 DEF Next
<1>3. ASSUME NEW r \in Process PROVE SessionFit(rank, r, proc'[r])
  <2>1. SessionFit(rank, r, proc[r]) /\ CacheFit
    BY DEF Fit
  <2>2. ASSUME NEW q \in Process, Step(q) \/ Crash(q) PROVE SessionFit(rank, r, proc'[r])
    <3>1. /\ Turn(q, proc[q], proc'[q])
          /\ proc' = [proc EXCEPT ![q] = proc'[q]]
      BY <2>2, EveryTurn
    <3>2. CASE r # q
      BY <2>1, <3>1, <3>2 DEF TypeOK
    <3>3. CASE r = q
      BY <2>1, <3>1, <3>3, AdvancesFit, KeepsFit, WatchesFit, ReturnsFit, PushesFit,
         RootFit, MainFit, ResetsFit DEF Turn
    <3> QED
      BY <3>2, <3>3
  <2>3. CASE World
    BY <2>1, <2>3, WorldTurn, SameFit
  <2>4. CASE UNCHANGED vars
    BY <2>1, <2>4 DEF vars
  <2> QED
    BY <2>2, <2>3, <2>4 DEF Next
<1>4. ASSUME NEW r \in Process PROVE SessionFit(rank, r, proc[r])'
  BY <1>1, <1>3 DEF SessionFit, FrameFit, RootsFit, IsLoading
<1> QED
  BY <1>2, <1>4 DEF Fit

(* Whatever process stored them, a session has the sources of the packages *)
(* it names, with its tags, and with test files where it tests.  The trees *)
(* have no import cycles and a test lists the packages it tests before     *)
(* those that import them.                                                 *)
THEOREM SourcesAlwaysFit ==
    ASSUME NEW rank \in [Package -> Nat], Layered(rank)
    PROVE  Spec => []SourcesFit
<1>1. TypeOK /\ Fit(rank) /\ [Next]_vars => (TypeOK /\ Fit(rank))'
  BY TypeKept, FitKept
<1>2. Init => TypeOK /\ Fit(rank)
  BY TypeInit, FitInit
<1>3. Fit(rank) => SourcesFit
  BY Zenon DEF Fit, SessionFit, Fits, SourcesFit
<1> QED
  BY <1>1, <1>2, <1>3, PTL DEF Spec
=============================================================================
