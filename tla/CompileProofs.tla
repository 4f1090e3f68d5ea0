---------------------------- MODULE CompileProofs ----------------------------
(* Proofs about a session that compiles generic programs, and about the    *)
(* start of what it has written: what is collected is closed, the analysis *)
(* knows what blocks, what is written is all that can run, and it finds    *)
(* all it uses, for every program that is well typed.                      *)
EXTENDS ProgramStart, TLAPS, SequenceTheorems, FiniteSetTheorems, WellFoundedInduction

AllPkgs == ToSet(Pkgs)
Names == DOMAIN prog.objs

(* A type of the program without T, whose packages are in S.               *)
IsClosed(t, S) ==
    IsType(prog, t) /\ ~IsGeneric(t) /\ \A n \in DOMAIN t.named : Info(t.named[n]).pkg \in S

(* What the instances of an object have for arguments.                     *)
IsInst(i, S) ==
    /\ i = Inst(i.o, i.args, i.nest) /\ i.o \in Names /\ PkgOf(i) \in S
    /\ IF Info(i.o).generic THEN IsClosed(i.args, S) ELSE i.args = NoType
    /\ IF Info(i.o).nest # None THEN IsClosed(i.nest, S) ELSE i.nest = NoType

(* The instances that are collected, and all that the compiler may name.   *)
Collected == UNION {ToSet(instances[p]) : p \in sources}
Known(i) == IsInst(i, sources) /\ (IsTrivial(i) \/ i \in Collected)

SessionTypeOK ==
    /\ prog \in Programs /\ roots \in Seq(AllPkgs) /\ sources \subseteq AllPkgs
    /\ phase \in {"load", "collect", "propagate", "again", "compile", "select", "written", "panic"}
    /\ todo \subseteq sources /\ current \in sources \cup {None}
    /\ DOMAIN instances = sources /\ DOMAIN unprocessed = sources
    /\ \A p \in sources : /\ instances[p] \in Seq(ToSet(instances[p]))
                           /\ unprocessed[p] \in 1 .. Len(instances[p]) + 1
    /\ DOMAIN archives \subseteq sources

(* The packages S are there with their imports.                            *)
Closed(S) == S \subseteq AllPkgs /\ \A q \in S : ToSet(prog.imports[q]) \subseteq S
SourcesLinked ==
    Closed(sources) /\ (phase # "load" => roots # <<>> /\ {Root, Runtime} \subseteq sources)

(* Only generic objects and types nested in them are collected.            *)
OnlyInstances == \A p \in sources : \A i \in ToSet(instances[p]) :
    IsInst(i, sources) /\ PkgOf(i) = p /\ ~IsTrivial(i)

(* Everything the code that was visited names is collected: code without   *)
(* parameters, that of the instances that were processed, and that of the  *)
(* functions around nested types.                                          *)
Visited(p) == {n \in DOMAIN instances[p] : n < unprocessed[p]}
Processed == UNION {{instances[p][n] : n \in Visited(p)} : p \in sources}
CodeScanned == Scan(sources) \subseteq Collected
InstancesScanned == \A i \in Processed : ScanInstance(i) \subseteq Collected
NestedScanned == \A i \in Collected : i.nest # NoType =>
    /\ Inst(Info(i.o).nest, i.nest, NoType) \in Processed
    /\ \E u \in Info(Info(i.o).nest).uses : u.k = "decl" /\ u.o = i.o

(* With an instance, what its argument is made of, its methods, and the    *)
(* type it is a method of.                                                 *)
Complete(C) == \A i \in C :
    /\ \A t \in NamedIn(Arg(i)) : Info(Outer(t)).generic => Inst(Outer(t), ArgOf(t), NoType) \in C
    /\ Info(i.o).kind = "type" => \A m \in MethodsOf(prog, i.o) : [i EXCEPT !.o = m] \in C
    /\ Info(i.o).kind = "method" => Recv(i) \in C

CollectInv ==
    /\ SessionTypeOK /\ SourcesLinked
    /\ phase # "load" => /\ OnlyInstances /\ CodeScanned /\ InstancesScanned /\ NestedScanned
                         /\ Complete(Collected)
    /\ phase \notin {"load", "collect"} => \A p \in sources : Exhausted(p)

-----------------------------------------------------------------------------
(* Sequences.                                                              *)

LEMMA SeqFacts ==
    ASSUME NEW X, NEW s \in Seq(X)
    PROVE  /\ Len(s) \in Nat /\ DOMAIN s = 1 .. Len(s) /\ (s = <<>> <=> Len(s) = 0)
           /\ \A k \in 1 .. Len(s) : s[k] \in X
OBVIOUS

LEMMA ConcatAt ==
    ASSUME NEW X, NEW a \in Seq(X), NEW b \in Seq(X)
    PROVE  /\ a \o b \in Seq(X) /\ Len(a \o b) = Len(a) + Len(b)
           /\ DOMAIN (a \o b) = 1 .. Len(a) + Len(b)
           /\ \A n \in 1 .. Len(a) : (a \o b)[n] = a[n]
           /\ \A n \in Len(a) + 1 .. Len(a) + Len(b) :
                 n - Len(a) \in 1 .. Len(b) /\ (a \o b)[n] = b[n - Len(a)]
OBVIOUS

(* What is left of a sequence from n on.                                   *)
LEMMA Suffix ==
    ASSUME NEW X, NEW s \in Seq(X), NEW n \in 1 .. Len(s) + 1
    PROVE  /\ SubSeq(s, n, Len(s)) \in Seq(X) /\ Len(SubSeq(s, n, Len(s))) = Len(s) - n + 1
           /\ DOMAIN SubSeq(s, n, Len(s)) = 1 .. Len(s) - n + 1
           /\ \A k \in 1 .. Len(s) - n + 1 :
                 n + k - 1 \in 1 .. Len(s) /\ SubSeq(s, n, Len(s))[k] = s[n + k - 1]
OBVIOUS

LEMMA SuffixTail ==
    ASSUME NEW X, NEW s \in Seq(X), NEW n \in 1 .. Len(s)
    PROVE  /\ SubSeq(s, n, Len(s)) # <<>> /\ Head(SubSeq(s, n, Len(s))) = s[n]
           /\ Tail(SubSeq(s, n, Len(s))) = SubSeq(s, n + 1, Len(s))
<1>1. n \in 1 .. Len(s) + 1 /\ Len(s) \in n .. Len(s) /\ Len(s) - n + 1 # 0
  BY SeqFacts
<1>2. SubSeq(s, n, Len(s)) # <<>>
  <2>1. SubSeq(s, n, Len(s)) \in Seq(X) /\ Len(SubSeq(s, n, Len(s))) = Len(s) - n + 1
    BY <1>1, Suffix
  <2> QED
    BY <1>1, <2>1, EmptySeq
<1> QED
  BY <1>1, <1>2, HeadTailOfSubSeq

LEMMA SuffixOfSuffix ==
    ASSUME NEW X, NEW s \in Seq(X), NEW n \in 1 .. Len(s) + 1, NEW k \in 1 .. Len(s) - n + 1
    PROVE  /\ n + k - 1 \in 1 .. Len(s)
           /\ SubSeq(SubSeq(s, n, Len(s)), k, Len(SubSeq(s, n, Len(s)))) = SubSeq(s, n + k - 1, Len(s))
<1> DEFINE l == Len(s) - n + 1
<1>1. /\ n \in 1 .. Len(s) /\ Len(s) \in 1 .. Len(s) /\ l \in 1 .. l /\ k \in 1 .. l
      /\ n + k - 1 \in 1 .. Len(s) /\ n + l - 1 = Len(s)
  BY SeqFacts
<1>2. Len(SubSeq(s, n, Len(s))) = l
  BY Suffix
<1>3. SubSeq(SubSeq(s, n, Len(s)), k, l) = SubSeq(s, n + k - 1, n + l - 1)
  BY <1>1, SubSeqOfSubSeq
<1> QED
  BY <1>1, <1>2, <1>3

LEMMA HeadTailConcat ==
    ASSUME NEW X, NEW a \in Seq(X), a # <<>>, NEW b \in Seq(X)
    PROVE  Head(a \o b) = Head(a) /\ Tail(a \o b) = Tail(a) \o b
<1> DEFINE c == a \o b
           l == Tail(c)
           r == Tail(a) \o b
<1>1. Len(a) \in Nat /\ Len(a) # 0 /\ Len(b) \in Nat
  BY SeqFacts
<1>2. c \in Seq(X) /\ Len(c) = Len(a) + Len(b) /\ c # <<>> /\ c[1] = a[1]
  BY <1>1, ConcatAt, ConcatEqualIffEmpty
<1>3. /\ Tail(a) \in Seq(X) /\ Len(Tail(a)) = Len(a) - 1
      /\ \A i \in 1 .. Len(a) - 1 : Tail(a)[i] = a[i + 1]
  BY HeadTailProperties
<1>4. /\ l \in Seq(X) /\ Len(l) = Len(c) - 1 /\ \A i \in 1 .. Len(c) - 1 : l[i] = c[i + 1]
  <2> HIDE DEF c
  <2> QED
    BY <1>2, HeadTailProperties
<1>5. /\ r \in Seq(X) /\ Len(r) = Len(a) - 1 + Len(b)
      /\ \A n \in 1 .. Len(a) - 1 : r[n] = Tail(a)[n]
      /\ \A n \in Len(a) .. Len(a) - 1 + Len(b) : r[n] = b[n - (Len(a) - 1)]
  <2>1. /\ Tail(a) \o b \in Seq(X) /\ Len(Tail(a) \o b) = Len(Tail(a)) + Len(b)
        /\ \A n \in 1 .. Len(Tail(a)) : (Tail(a) \o b)[n] = Tail(a)[n]
        /\ \A n \in Len(Tail(a)) + 1 .. Len(Tail(a)) + Len(b) :
              (Tail(a) \o b)[n] = b[n - Len(Tail(a))]
    BY <1>3, ConcatAt
  <2>2. Len(Tail(a)) + 1 = Len(a)
    BY <1>1, <1>3
  <2> QED
    BY <1>3, <2>1, <2>2
<1>6. \A i \in 1 .. Len(l) : l[i] = r[i]
  <2> TAKE i \in 1 .. Len(l)
  <2>1. i \in 1 .. Len(c) - 1 /\ i + 1 \in 1 .. Len(a) + Len(b) /\ l[i] = c[i + 1]
    BY <1>1, <1>2, <1>4
  <2>2. CASE i <= Len(a) - 1
    <3>1. i \in 1 .. Len(a) - 1 /\ i + 1 \in 1 .. Len(a)
      BY <1>1, <2>2, <2>1
    <3>2. c[i + 1] = a[i + 1]
      BY <3>1, ConcatAt
    <3> QED
      BY <1>3, <1>5, <2>1, <3>1, <3>2
  <2>3. CASE i > Len(a) - 1
    <3>1. i + 1 \in Len(a) + 1 .. Len(a) + Len(b) /\ i \in Len(a) .. Len(a) - 1 + Len(b)
          /\ i + 1 - Len(a) = i - (Len(a) - 1)
      BY <1>1, <1>2, <2>3, <2>1
    <3>2. c[i + 1] = b[i + 1 - Len(a)]
      BY <3>1, ConcatAt
    <3> QED
      BY <1>5, <2>1, <3>1, <3>2
  <2> QED
    BY <1>1, <2>1, <2>2, <2>3
<1>7. l = r
  <2>1. Len(l) = Len(r)
    BY <1>1, <1>2, <1>4, <1>5
  <2> HIDE DEF l, r
  <2> QED
    BY <1>4, <1>5, <1>6, <2>1, SeqEqual
<1> QED
  BY <1>2, <1>7

(* What is left of a concatenation.                                        *)
LEMMA SuffixOfConcat ==
    ASSUME NEW X, NEW a \in Seq(X), NEW b \in Seq(X)
    PROVE  /\ \A n \in 1 .. Len(a) :
                 SubSeq(a \o b, n, Len(a) + Len(b)) = SubSeq(a, n, Len(a)) \o b
           /\ \A n \in Len(a) + 1 .. Len(a) + Len(b) :
                 SubSeq(a \o b, n, Len(a) + Len(b)) = SubSeq(b, n - Len(a), Len(b))
<1>1. ASSUME NEW n \in 1 .. Len(a)
      PROVE  SubSeq(a \o b, n, Len(a) + Len(b)) = SubSeq(a, n, Len(a)) \o b
  <2> DEFINE c == a \o b
             l == SubSeq(c, n, Len(c))
             q == SubSeq(a, n, Len(a))
             r == q \o b
  <2>1. c \in Seq(X) /\ Len(c) = Len(a) + Len(b) /\ n \in 1 .. Len(a) + 1 /\ n \in 1 .. Len(c) + 1
        /\ Len(a) \in Nat /\ Len(b) \in Nat
    BY ConcatAt, SeqFacts
  <2>2. /\ l \in Seq(X) /\ Len(l) = Len(c) - n + 1
        /\ \A k \in 1 .. Len(c) - n + 1 : l[k] = c[n + k - 1]
    <3> HIDE DEF c
    <3> QED
      BY <2>1, Suffix
  <2>3. /\ q \in Seq(X) /\ Len(q) = Len(a) - n + 1
        /\ \A k \in 1 .. Len(a) - n + 1 : q[k] = a[n + k - 1]
    BY <2>1, Suffix
  <2> HIDE DEF l, q
  <2>4. /\ r \in Seq(X) /\ Len(r) = Len(q) + Len(b)
        /\ \A k \in 1 .. Len(q) : r[k] = q[k]
        /\ \A k \in Len(q) + 1 .. Len(q) + Len(b) : r[k] = b[k - Len(q)]
    BY <2>3, ConcatAt
  <2>5. Len(l) = Len(r)
    BY <2>1, <2>2, <2>3, <2>4
  <2>6. ASSUME NEW k \in 1 .. Len(l)
        PROVE  l[k] = r[k]
    <3>1. l[k] = c[n + k - 1]
      BY <2>2, <2>6
    <3>2. CASE k <= Len(q)
      <4>1. n + k - 1 \in 1 .. Len(a) /\ k \in 1 .. Len(q) /\ k \in 1 .. Len(a) - n + 1
        BY <2>1, <2>2, <2>3, <3>2
      <4> QED
        BY <3>1, <4>1, <2>3, <2>4, ConcatAt
    <3>3. CASE k > Len(q)
      <4>1. /\ n + k - 1 \in Len(a) + 1 .. Len(a) + Len(b) /\ k \in Len(q) + 1 .. Len(q) + Len(b)
            /\ n + k - 1 - Len(a) = k - Len(q)
        BY <2>1, <2>2, <2>3, <3>3
      <4>2. c[n + k - 1] = b[n + k - 1 - Len(a)]
        BY <4>1, ConcatAt
      <4> QED
        BY <3>1, <4>1, <4>2, <2>4
    <3> QED
      BY <2>1, <2>2, <2>3, <3>2, <3>3
  <2> HIDE DEF r
  <2>7. l = r
    BY <2>2, <2>4, <2>5, <2>6, SeqEqual
  <2> QED
    BY <2>1, <2>7 DEF l, r, q
<1>2. ASSUME NEW n \in Len(a) + 1 .. Len(a) + Len(b)
      PROVE  SubSeq(a \o b, n, Len(a) + Len(b)) = SubSeq(b, n - Len(a), Len(b))
  <2>1. /\ Len(a) \in Nat /\ Len(b) \in Nat /\ Len(a) + Len(b) \in Len(a) + 1 .. Len(a) + Len(b)
        /\ Len(a) + Len(b) - Len(a) = Len(b)
    BY SeqFacts
  <2> QED
    BY <2>1, SubSeqOfConcat2
<1> QED
  BY <1>1, <1>2

-----------------------------------------------------------------------------
(* Types.                                                                  *)

(* The named types in q have an argument if they are generic.              *)
GenericAt(o, last) ==
    Info(o).kind = "type" /\ Info(o).nest = None /\ (Info(o).generic <=> ~last)
IsChain(q, base) ==
    /\ q \in Seq(Names) /\ base \in Basic \cup {T, None}
    /\ \A n \in 1 .. Len(q) : GenericAt(q[n], n = Len(q) /\ base = None)

(* What a type is made of.                                                 *)
LEMMA TypeIsChain ==
    ASSUME NEW t
    PROVE  IsType(prog, t) <=> t = Type(t.named, t.base) /\ IsChain(t.named, t.base) /\ t # NoType
<1> DEFINE R == [named : Seq(DOMAIN prog.objs), base : Basic \cup {T, None}]
<1>1. t \in R <=> /\ t = Type(t.named, t.base)
                  /\ t.named \in Seq(Names) /\ t.base \in Basic \cup {T, None}
  BY DEF Type, Names
<1>2. ASSUME t.named \in Seq(Names)
      PROVE  /\ DOMAIN t.named = 1 .. Len(t.named)
             /\ \A n \in 1 .. Len(t.named) : n < Len(t.named) <=> ~(n = Len(t.named))
  BY <1>2, SeqFacts
<1>3. ASSUME t.named \in Seq(Names)
      PROVE  (\A n \in DOMAIN t.named :
                LET o == Obj(prog, t.named[n])
                IN  o.kind = "type" /\ o.nest = None
                      /\ (o.generic <=> n < Len(t.named) \/ t.base # None))
             <=> \A n \in 1 .. Len(t.named) : GenericAt(t.named[n], n = Len(t.named) /\ t.base = None)
  BY <1>2, <1>3 DEF GenericAt, Obj, Info
<1> HIDE DEF R
<1>4. IsType(prog, t) <=> /\ t \in R /\ t # NoType
                         /\ \A n \in DOMAIN t.named :
                LET o == Obj(prog, t.named[n])
                IN  o.kind = "type" /\ o.nest = None
                      /\ (o.generic <=> n < Len(t.named) \/ t.base # None)
  BY DEF IsType, R
<1> QED
  BY <1>1, <1>3, <1>4 DEF IsChain

LEMMA ChainType ==
    ASSUME NEW q, NEW base, IsChain(q, base), ~(q = <<>> /\ base = None)
    PROVE  IsType(prog, Type(q, base))
<1>1. Type(q, base).named = q /\ Type(q, base).base = base
  BY DEF Type
<1>2. Type(q, base) # NoType
  BY <1>1 DEF NoType, Type
<1> QED
  BY <1>1, <1>2, TypeIsChain

LEMMA TypeFields ==
    ASSUME NEW t, IsType(prog, t)
    PROVE  /\ t = Type(t.named, t.base) /\ t.named \in Seq(Names) /\ IsChain(t.named, t.base)
           /\ t.base \in Basic \cup {T, None} /\ t # NoType
           /\ ~(t.named = <<>> /\ t.base = None)
BY TypeIsChain DEF Type, NoType, IsChain

(* The rest of a type is a type, or nothing is left.                       *)
LEMMA ChainSuffix ==
    ASSUME NEW q, NEW base, IsChain(q, base), NEW n \in 1 .. Len(q) + 1
    PROVE  IsChain(SubSeq(q, n, Len(q)), base)
<1> DEFINE r == SubSeq(q, n, Len(q))
<1>1. /\ q \in Seq(Names) /\ base \in Basic \cup {T, None} /\ Len(q) \in Nat
      /\ \A k \in 1 .. Len(q) : GenericAt(q[k], k = Len(q) /\ base = None)
  BY SeqFacts DEF IsChain
<1>2. /\ r \in Seq(Names) /\ Len(r) = Len(q) - n + 1
      /\ \A k \in 1 .. Len(q) - n + 1 : n + k - 1 \in 1 .. Len(q) /\ r[k] = q[n + k - 1]
  BY <1>1, Suffix
<1> HIDE DEF r
<1>3. ASSUME NEW k \in 1 .. Len(r)
      PROVE  GenericAt(r[k], k = Len(r) /\ base = None)
  <2>1. /\ n + k - 1 \in 1 .. Len(q) /\ r[k] = q[n + k - 1]
        /\ (k = Len(r)) <=> (n + k - 1 = Len(q))
    <3>1. k \in 1 .. Len(q) - n + 1
      BY <1>2, <1>3
    <3>2. n + k - 1 \in 1 .. Len(q) /\ r[k] = q[n + k - 1]
      BY <1>2, <3>1
    <3>3. Len(r) = Len(q) - n + 1 /\ Len(q) \in Nat /\ n \in Nat /\ k \in Nat
      BY <1>1, <1>2, <3>1
    <3>4. (k = Len(r)) <=> (n + k - 1 = Len(q))
      BY <3>3
    <3> QED
      BY <3>2, <3>4
  <2>2. GenericAt(q[n + k - 1], n + k - 1 = Len(q) /\ base = None)
    BY <1>1, <2>1
  <2> QED
    BY <2>1, <2>2 DEF GenericAt
<1>4. IsChain(r, base)
  BY <1>1, <1>2, <1>3 DEF IsChain
<1> QED
  BY <1>4 DEF r

(* A type put at the end of another one.                                   *)
LEMMA ChainConcat ==
    ASSUME NEW q, IsChain(q, T), NEW r, NEW base, IsChain(r, base), ~(r = <<>> /\ base = None),
           T # None
    PROVE  IsChain(q \o r, base)
<1> DEFINE c == q \o r
<1>1. /\ q \in Seq(Names) /\ r \in Seq(Names) /\ base \in Basic \cup {T, None}
      /\ Len(q) \in Nat /\ Len(r) \in Nat /\ (r = <<>> <=> Len(r) = 0)
      /\ \A k \in 1 .. Len(q) : GenericAt(q[k], k = Len(q) /\ T = None)
      /\ \A k \in 1 .. Len(r) : GenericAt(r[k], k = Len(r) /\ base = None)
  BY SeqFacts DEF IsChain
<1>2. /\ c \in Seq(Names) /\ Len(c) = Len(q) + Len(r)
      /\ \A n \in 1 .. Len(q) : c[n] = q[n]
      /\ \A n \in Len(q) + 1 .. Len(q) + Len(r) :
            n - Len(q) \in 1 .. Len(r) /\ c[n] = r[n - Len(q)]
  BY <1>1, ConcatAt
<1> HIDE DEF c
<1>3. ASSUME NEW n \in 1 .. Len(c)
      PROVE  GenericAt(c[n], n = Len(c) /\ base = None)
  <2>1. CASE n <= Len(q)
    <3>1. n \in 1 .. Len(q) /\ (n = Len(c) => Len(r) = 0)
      BY <1>1, <1>2, <1>3, <2>1
    <3>2. GenericAt(c[n], FALSE)
      BY <1>1, <1>2, <3>1 DEF GenericAt
    <3>3. ~(n = Len(c) /\ base = None)
      BY <1>1, <3>1
    <3> QED
      BY <3>2, <3>3 DEF GenericAt
  <2>2. CASE n > Len(q)
    <3>1. n \in Len(q) + 1 .. Len(q) + Len(r) /\ ((n - Len(q) = Len(r)) <=> (n = Len(c)))
      BY <1>1, <1>2, <1>3, <2>2
    <3>2. GenericAt(c[n], n - Len(q) = Len(r) /\ base = None)
      BY <1>1, <1>2, <3>1
    <3> QED
      BY <3>1, <3>2 DEF GenericAt
  <2> QED
    BY <1>1, <1>2, <1>3, <2>1, <2>2
<1>4. IsChain(c, base)
  BY <1>1, <1>2, <1>3 DEF IsChain
<1> QED
  BY <1>4 DEF c

(* The named types of a type without T stand for the whole.                *)
LEMMA SubstituteClosed ==
    ASSUME NEW t, NEW arg, ~IsGeneric(t)
    PROVE  Substitute(t, arg) = t
BY DEF Substitute, IsGeneric

LEMMA SubstituteFields ==
    ASSUME NEW t, NEW arg, IsGeneric(t)
    PROVE  /\ Substitute(t, arg) = Type(t.named \o arg.named, arg.base)
           /\ Substitute(t, arg).named = t.named \o arg.named /\ Substitute(t, arg).base = arg.base
BY DEF Substitute, IsGeneric, Type

(* The packages a type names.                                              *)
In(t, S) == \A o \in ToSet(t.named) : Info(o).pkg \in S

LEMMA ClosedIs ==
    ASSUME NEW t, NEW S
    PROVE  IsClosed(t, S) <=> IsType(prog, t) /\ ~IsGeneric(t) /\ In(t, S)
BY DEF IsClosed, In, ToSet

LEMMA ToSetConcat ==
    ASSUME NEW X, NEW a \in Seq(X), NEW b \in Seq(X)
    PROVE  ToSet(a \o b) = ToSet(a) \cup ToSet(b)
<1> DEFINE c == a \o b
<1>1. /\ DOMAIN a = 1 .. Len(a) /\ DOMAIN b = 1 .. Len(b) /\ DOMAIN c = 1 .. Len(a) + Len(b)
      /\ Len(a) \in Nat /\ Len(b) \in Nat
      /\ \A n \in 1 .. Len(a) : c[n] = a[n]
      /\ \A n \in Len(a) + 1 .. Len(a) + Len(b) : n - Len(a) \in 1 .. Len(b) /\ c[n] = b[n - Len(a)]
  BY ConcatAt, SeqFacts
<1> HIDE DEF c
<1>2. \A x \in ToSet(c) : x \in ToSet(a) \cup ToSet(b)
  <2> TAKE x \in ToSet(c)
  <2>1. PICK n \in 1 .. Len(a) + Len(b) : x = c[n]
    BY <1>1 DEF ToSet
  <2>2. n \in 1 .. Len(a) \/ n \in Len(a) + 1 .. Len(a) + Len(b)
    BY <1>1, <2>1
  <2>3. (\E k \in DOMAIN a : x = a[k]) \/ (\E k \in DOMAIN b : x = b[k])
    BY <1>1, <2>1, <2>2
  <2> QED
    BY <2>3 DEF ToSet
<1>3. \A x \in ToSet(a) : x \in ToSet(c)
  <2>1. \A k \in 1 .. Len(a) : k \in 1 .. Len(a) + Len(b)
    BY <1>1
  <2> QED
    BY <1>1, <2>1 DEF ToSet
<1>4. \A x \in ToSet(b) : x \in ToSet(c)
  <2>1. \A k \in 1 .. Len(b) : Len(a) + k \in Len(a) + 1 .. Len(a) + Len(b)
                                /\ Len(a) + k \in 1 .. Len(a) + Len(b) /\ Len(a) + k - Len(a) = k
    BY <1>1
  <2>2. \A k \in 1 .. Len(b) : c[Len(a) + k] = b[k]
    BY <1>1, <2>1
  <2> QED
    BY <1>1, <2>1, <2>2 DEF ToSet
<1>5. ToSet(c) = ToSet(a) \cup ToSet(b)
  BY <1>2, <1>3, <1>4
<1> QED
  BY <1>5 DEF c

(* With a type put in for T a type has no T left.                          *)
LEMMA SubstituteIsType ==
    ASSUME NEW S, NEW t, IsType(prog, t), In(t, S),
           NEW arg, IsGeneric(t) => IsClosed(arg, S), T # None
    PROVE  IsClosed(Substitute(t, arg), S)
<1>1. CASE ~IsGeneric(t)
  BY <1>1, SubstituteClosed, ClosedIs
<1>2. CASE IsGeneric(t)
  <2> DEFINE r == t.named \o arg.named
  <2>1. /\ IsType(prog, arg) /\ ~IsGeneric(arg) /\ In(arg, S) /\ t.base = T
    BY <1>2, ClosedIs DEF IsGeneric
  <2>2. /\ IsChain(t.named, T) /\ IsChain(arg.named, arg.base)
        /\ ~(arg.named = <<>> /\ arg.base = None)
        /\ t.named \in Seq(Names) /\ arg.named \in Seq(Names)
    BY <2>1, TypeFields
  <2>3. IsChain(r, arg.base)
    BY <2>2, ChainConcat
  <2>4. ~(r = <<>> /\ arg.base = None)
    BY <2>2, ConcatEqualIffEmpty
  <2>5. IsType(prog, Substitute(t, arg))
    <3>1. Substitute(t, arg) = Type(r, arg.base)
      BY <1>2, SubstituteFields
    <3> HIDE DEF r
    <3> QED
      BY <2>3, <2>4, <3>1, ChainType
  <2>6. ToSet(r) = ToSet(t.named) \cup ToSet(arg.named)
    BY <2>2, ToSetConcat
  <2>7. In(Substitute(t, arg), S)
    BY <1>2, <2>1, <2>6, SubstituteFields DEF In
  <2>8. ~IsGeneric(Substitute(t, arg))
    BY <1>2, <2>1, SubstituteFields DEF IsGeneric
  <2> QED
    BY <2>5, <2>7, <2>8, ClosedIs
<1> QED
  BY <1>1, <1>2

(* The named types in a type are types, down to what is their argument.    *)
LEMMA NamedPart ==
    ASSUME NEW t, IsType(prog, t), NEW n \in 1 .. Len(t.named),
           NEW p, p = Type(SubSeq(t.named, n, Len(t.named)), t.base)
    PROVE  /\ IsType(prog, p) /\ p.base = t.base /\ IsNamed(p)
           /\ p.named = SubSeq(t.named, n, Len(t.named))
           /\ Outer(p) = t.named[n] /\ Outer(p) \in Names
           /\ ArgOf(p) = Type(SubSeq(t.named, n + 1, Len(t.named)), t.base)
           /\ IsChain(SubSeq(t.named, n + 1, Len(t.named)), t.base)
           /\ GenericAt(Outer(p), n = Len(t.named) /\ t.base = None)
<1> DEFINE s == t.named
           q == SubSeq(s, n, Len(s))
           r == SubSeq(s, n + 1, Len(s))
<1>1. s \in Seq(Names) /\ IsChain(s, t.base)
  BY TypeFields
<1>2. n \in 1 .. Len(s) + 1 /\ n + 1 \in 1 .. Len(s) + 1
  BY <1>1, SeqFacts
<1>3. q # <<>> /\ Head(q) = s[n] /\ Tail(q) = r /\ s[n] \in Names
  BY <1>1, SuffixTail, SeqFacts
<1>4. IsChain(q, t.base) /\ IsChain(r, t.base) /\ GenericAt(s[n], n = Len(s) /\ t.base = None)
  <2>1. IsChain(q, t.base) /\ IsChain(r, t.base)
    <3> HIDE DEF s
    <3> QED
      BY <1>1, <1>2, ChainSuffix
  <2> QED
    BY <1>1, <2>1 DEF IsChain
<1> HIDE DEF q, r
<1>5. p = Type(q, t.base) /\ p.named = q /\ p.base = t.base
  BY DEF Type, q
<1>6. IsType(prog, p)
  BY <1>3, <1>4, <1>5, ChainType
<1>7. Outer(p) = s[n] /\ ArgOf(p) = Type(r, t.base)
  BY <1>3, <1>5 DEF Outer, ArgOf
<1> QED
  BY <1>3, <1>4, <1>5, <1>6, <1>7 DEF IsNamed, q, r

LEMMA PartIsType ==
    ASSUME NEW t, IsType(prog, t), NEW p \in NamedIn(t)
    PROVE  /\ IsType(prog, p) /\ p.base = t.base /\ IsNamed(p)
           /\ Outer(p) \in ToSet(t.named) /\ Outer(p) \in Names
           /\ Info(Outer(p)).kind = "type" /\ Info(Outer(p)).nest = None
           /\ ToSet(p.named) \subseteq ToSet(t.named)
           /\ ArgOf(p).base = t.base /\ ToSet(ArgOf(p).named) \subseteq ToSet(t.named)
           /\ NamedIn(ArgOf(p)) \subseteq NamedIn(t)
           /\ IF Info(Outer(p)).generic THEN IsType(prog, ArgOf(p)) ELSE ArgOf(p) = NoType
<1> DEFINE s == t.named
<1>1. s \in Seq(Names) /\ Len(s) \in Nat /\ DOMAIN s = 1 .. Len(s)
  BY TypeFields, SeqFacts
<1>2. PICK n \in 1 .. Len(s) : p = Type(SubSeq(s, n, Len(s)), t.base)
  BY <1>1 DEF NamedIn
<1> DEFINE r == SubSeq(s, n + 1, Len(s))
<1>3. /\ IsType(prog, p) /\ p.base = t.base /\ IsNamed(p) /\ p.named = SubSeq(s, n, Len(s))
      /\ Outer(p) = s[n] /\ Outer(p) \in Names /\ ArgOf(p) = Type(r, t.base)
      /\ IsChain(r, t.base) /\ GenericAt(Outer(p), n = Len(s) /\ t.base = None)
  BY <1>2, NamedPart
<1>4. ArgOf(p).named = r /\ ArgOf(p).base = t.base
  BY <1>3 DEF Type
<1>5. n \in 1 .. Len(s) + 1 /\ n + 1 \in 1 .. Len(s) + 1
  BY <1>1
<1>6. ASSUME NEW m \in {n, n + 1}
      PROVE  ToSet(SubSeq(s, m, Len(s))) \subseteq ToSet(s)
  <2>1. DOMAIN SubSeq(s, m, Len(s)) = 1 .. Len(s) - m + 1
        /\ \A k \in 1 .. Len(s) - m + 1 :
              m + k - 1 \in 1 .. Len(s) /\ SubSeq(s, m, Len(s))[k] = s[m + k - 1]
    <3>1. m \in 1 .. Len(s) + 1 /\ s \in Seq(Names)
      BY <1>1, <1>5, <1>6
    <3> HIDE DEF s
    <3> QED
      BY <3>1, Suffix
  <2> QED
    BY <1>1, <2>1 DEF ToSet
<1>7. NamedIn(ArgOf(p)) \subseteq NamedIn(t)
  <2> SUFFICES ASSUME NEW x \in NamedIn(ArgOf(p)) PROVE x \in NamedIn(t)
    OBVIOUS
  <2>1. PICK k \in DOMAIN r : x = Type(SubSeq(r, k, Len(r)), t.base)
    BY <1>4 DEF NamedIn
  <2>2. k \in 1 .. Len(s) - (n + 1) + 1
    BY <1>1, <1>5, <2>1, Suffix
  <2>3. (n + 1) + k - 1 \in 1 .. Len(s) /\ SubSeq(r, k, Len(r)) = SubSeq(s, (n + 1) + k - 1, Len(s))
    BY <1>1, <1>5, <2>2, SuffixOfSuffix
  <2> QED
    BY <1>1, <2>1, <2>3 DEF NamedIn
<1>8. IF Info(Outer(p)).generic THEN IsType(prog, ArgOf(p)) ELSE ArgOf(p) = NoType
  <2>1. Len(r) = Len(s) - (n + 1) + 1 /\ r \in Seq(Names)
    BY <1>1, <1>5, Suffix
  <2>2. r = <<>> <=> n = Len(s)
    <3>1. Len(s) - (n + 1) + 1 = 0 <=> n = Len(s)
      BY <1>1, <1>2
    <3> HIDE DEF r
    <3> QED
      BY <2>1, <3>1, SeqFacts
  <2> HIDE DEF r
  <2>3. CASE Info(Outer(p)).generic
    <3>1. ~(r = <<>> /\ t.base = None)
      BY <1>3, <2>2, <2>3 DEF GenericAt
    <3> QED
      BY <1>3, <2>3, <3>1, ChainType
  <2>4. CASE ~Info(Outer(p)).generic
    <3>1. r = <<>> /\ t.base = None
      BY <1>3, <2>2, <2>4 DEF GenericAt
    <3> QED
      BY <1>3, <2>4, <3>1 DEF NoType
  <2> QED
    BY <2>3, <2>4
<1>9. Outer(p) \in ToSet(s)
  BY <1>1, <1>3 DEF ToSet
<1> QED
  BY <1>3, <1>4, <1>6, <1>7, <1>8, <1>9 DEF GenericAt

(* The named types of a type with a type put in for T: its own, with their *)
(* arguments completed, and those of what was put in.                      *)
LEMMA PartsOfSubstitute ==
    ASSUME NEW t, IsType(prog, t), NEW arg, IsGeneric(t) => IsType(prog, arg),
           NEW p \in NamedIn(Substitute(t, arg))
    PROVE  \/ IsGeneric(t) /\ p \in NamedIn(arg)
           \/ \E x \in NamedIn(t) : Outer(p) = Outer(x) /\ ArgOf(p) = Substitute(ArgOf(x), arg)
                                      /\ p = Substitute(x, arg)
<1>1. CASE ~IsGeneric(t)
  <2>1. p \in NamedIn(t)
    BY <1>1, SubstituteClosed
  <2>2. ~IsGeneric(p) /\ ~IsGeneric(ArgOf(p))
    BY <1>1, <2>1, PartIsType DEF IsGeneric
  <2> QED
    BY <2>1, <2>2, SubstituteClosed
<1>2. CASE IsGeneric(t)
  <2> DEFINE a == t.named
             b == arg.named
             c == a \o b
  <2>1. /\ a \in Seq(Names) /\ b \in Seq(Names) /\ t.base = T
        /\ Len(a) \in Nat /\ Len(b) \in Nat /\ DOMAIN b = 1 .. Len(b) /\ DOMAIN a = 1 .. Len(a)
        /\ IsType(prog, arg)
    BY <1>2, TypeFields, SeqFacts DEF IsGeneric
  <2>2. Len(c) = Len(a) + Len(b) /\ DOMAIN c = 1 .. Len(a) + Len(b)
    BY <2>1, ConcatAt
  <2>3. Substitute(t, arg).named = c /\ Substitute(t, arg).base = arg.base
    BY <1>2, SubstituteFields
  <2>4. PICK n \in 1 .. Len(a) + Len(b) : p = Type(SubSeq(c, n, Len(a) + Len(b)), arg.base)
    <3>1. NamedIn(Substitute(t, arg)) = {Type(SubSeq(c, n, Len(c)), arg.base) : n \in DOMAIN c}
      BY <2>3 DEF NamedIn
    <3> QED
      BY <2>2, <3>1
  <2>5. CASE n \in 1 .. Len(a)
    <3> DEFINE x == Type(SubSeq(a, n, Len(a)), T)
    <3>1. x \in NamedIn(t)
      BY <2>1, <2>5 DEF NamedIn
    <3>2. /\ x.named = SubSeq(a, n, Len(a)) /\ x.base = T
          /\ Outer(x) = a[n] /\ ArgOf(x) = Type(SubSeq(a, n + 1, Len(a)), T)
      <4>1. n \in 1 .. Len(t.named) /\ x = Type(SubSeq(t.named, n, Len(t.named)), t.base)
        BY <2>1, <2>5
      <4> HIDE DEF x
      <4>2. /\ x.named = SubSeq(t.named, n, Len(t.named)) /\ x.base = t.base
            /\ Outer(x) = t.named[n] /\ ArgOf(x) = Type(SubSeq(t.named, n + 1, Len(t.named)), t.base)
        BY <4>1, NamedPart
      <4> QED
        BY <2>1, <4>2
    <3> HIDE DEF x
    <3>3. IsGeneric(x) /\ IsGeneric(ArgOf(x)) /\ ArgOf(x).named = SubSeq(a, n + 1, Len(a))
      <4>1. \A q : Type(q, T).base = T /\ Type(q, T).named = q
        BY DEF Type
      <4> QED
        BY <3>2, <4>1 DEF IsGeneric
    <3>4. SubSeq(c, n, Len(a) + Len(b)) = SubSeq(a, n, Len(a)) \o b
      BY <2>1, <2>5, SuffixOfConcat
    <3>5. p = Substitute(x, arg)
      <4>1. Substitute(x, arg) = Type(x.named \o b, arg.base)
        BY <3>3, SubstituteFields
      <4> QED
        BY <2>4, <3>2, <3>4, <4>1
    <3>6. SubSeq(a, n, Len(a)) # <<>> /\ Head(SubSeq(a, n, Len(a))) = a[n]
          /\ Tail(SubSeq(a, n, Len(a))) = SubSeq(a, n + 1, Len(a))
      BY <2>1, <2>5, SuffixTail
    <3>7. /\ SubSeq(a, n, Len(a)) \in Seq(Names)
      BY <2>1, <2>5, Suffix
    <3>8. Head(SubSeq(a, n, Len(a)) \o b) = a[n]
          /\ Tail(SubSeq(a, n, Len(a)) \o b) = SubSeq(a, n + 1, Len(a)) \o b
      BY <2>1, <3>6, <3>7, HeadTailConcat
    <3>9. p.named = SubSeq(a, n, Len(a)) \o b /\ p.base = arg.base
      BY <2>4, <3>4 DEF Type
    <3>10. Outer(p) = Outer(x)
      BY <3>2, <3>8, <3>9 DEF Outer
    <3>11. ArgOf(p) = Substitute(ArgOf(x), arg)
      <4>1. Substitute(ArgOf(x), arg) = Type(ArgOf(x).named \o b, arg.base)
        BY <3>3, SubstituteFields
      <4>2. ArgOf(p) = Type(Tail(p.named), p.base)
        BY DEF ArgOf
      <4> QED
        BY <3>3, <3>8, <3>9, <4>1, <4>2
    <3> QED
      BY <3>1, <3>5, <3>10, <3>11
  <2>6. CASE n \in Len(a) + 1 .. Len(a) + Len(b)
    <3>1. SubSeq(c, n, Len(a) + Len(b)) = SubSeq(b, n - Len(a), Len(b)) /\ n - Len(a) \in 1 .. Len(b)
      <4>1. SubSeq(c, n, Len(a) + Len(b)) = SubSeq(b, n - Len(a), Len(b))
        BY <2>1, <2>6, SuffixOfConcat
      <4>2. n - Len(a) \in 1 .. Len(b)
        <5> HIDE DEF a, b, c
        <5> QED
          BY <2>1, <2>6
      <4> QED
        BY <4>1, <4>2
    <3>2. p \in NamedIn(arg)
      BY <2>1, <2>4, <3>1 DEF NamedIn
    <3> QED
      BY <1>2, <3>2
  <2>7. n \in 1 .. Len(a) \/ n \in Len(a) + 1 .. Len(a) + Len(b)
    <3> HIDE DEF a, b
    <3> QED
      BY <2>1, <2>4
  <2> QED
    BY <2>5, <2>6, <2>7
<1> QED
  BY <1>1, <1>2

-----------------------------------------------------------------------------
(* Finite sets, and the sequence of what is added to a set of instances.   *)

LEMMA ImageFinite ==
    ASSUME NEW f, IsFiniteSet(DOMAIN f)
    PROVE  IsFiniteSet({f[x] : x \in DOMAIN f})
<1> DEFINE S == {f[x] : x \in DOMAIN f}
           g == [x \in DOMAIN f |-> f[x]]
<1>1. g \in Surjection(DOMAIN f, S)
  BY DEF Surjection
<1> QED
  BY <1>1, FS_Surjection

LEMMA UnionFinite ==
    ASSUME NEW f, IsFiniteSet(DOMAIN f), \A x \in DOMAIN f : IsFiniteSet(f[x])
    PROVE  IsFiniteSet(UNION {f[x] : x \in DOMAIN f})
<1>1. IsFiniteSet({f[x] : x \in DOMAIN f})
  BY ImageFinite
<1>2. \A T1 \in {f[x] : x \in DOMAIN f} : IsFiniteSet(T1)
  OBVIOUS
<1> QED
  BY <1>1, <1>2, FS_UNION

LEMMA ToSetFinite ==
    ASSUME NEW X, NEW s \in Seq(X)
    PROVE  IsFiniteSet(ToSet(s))
<1>1. DOMAIN s = 1 .. Len(s) /\ Len(s) \in Nat
  BY SeqFacts
<1>2. IsFiniteSet(DOMAIN s)
  BY <1>1, FS_Interval
<1> QED
  BY <1>2, ImageFinite DEF ToSet

LEMMA SetToSeqIs ==
    ASSUME NEW S, IsFiniteSet(S)
    PROVE  SetToSeq(S) \in Seq(S) /\ ToSet(SetToSeq(S)) = S
<1> DEFINE n == Cardinality(S)
           P(f) == f \in [1 .. n -> S] /\ IsInjective(f)
           s == SetToSeq(S)
<1>1. n \in Nat /\ ExistsBijection(1 .. n, S)
  BY FS_CardinalityType
<1>2. PICK g : g \in Injection(1 .. n, S)
  BY <1>1 DEF ExistsBijection, Bijection
<1>3. P(g)
  BY <1>2 DEF Injection, IsInjective
<1>4. s \in [1 .. n -> S] /\ IsInjective(s)
  BY <1>3 DEF SetToSeq
<1> HIDE DEF s
<1>5. s \in Injection(1 .. n, S)
  BY <1>4 DEF Injection, IsInjective
<1>6. s \in Surjection(1 .. n, S)
  <2>1. IsFiniteSet(1 .. n) /\ Cardinality(1 .. n) = n
    BY <1>1, FS_Interval
  <2> QED
    BY <1>1, <1>5, <2>1, FS_Injection
<1>7. s \in Seq(S) /\ DOMAIN s = 1 .. n
  BY <1>1, <1>4, SeqDef
<1>8. ToSet(s) = S
  BY <1>4, <1>6, <1>7 DEF Surjection, ToSet
<1> QED
  BY <1>7, <1>8 DEF s

LEMMA LeastOf ==
    ASSUME NEW S, S \subseteq Nat, S # {}
    PROVE  \E x \in S : \A y \in S : x <= y
<1>1. PICK x \in S : \A y \in S : ~ (<<y, x>> \in OpToRel(<, Nat))
  <2>1. IsWellFoundedOn(OpToRel(<, Nat), Nat)
    BY NatLessThanWellFounded, Zenon
  <2> QED
    BY <2>1, WFMin, Zenon
<1>2. \A y \in S : ~ (y < x)
  BY <1>1, Zenon DEF OpToRel
<1> QED
  BY <1>2

LEMMA FirstIn ==
    ASSUME NEW S, S \subseteq AllPkgs, S # {}
    PROVE  First(S) \in S
<1> DEFINE N == {n \in DOMAIN Pkgs : Pkgs[n] \in S}
<1>1. DOMAIN Pkgs = 1 .. Len(Pkgs) /\ Len(Pkgs) \in Nat
  BY CompileAssumption, SeqFacts
<1>2. N \subseteq Nat /\ N # {}
  BY <1>1 DEF AllPkgs, ToSet
<1>3. PICK n \in N : \A m \in N : n <= m
  <2> HIDE DEF N
  <2> QED
    BY <1>2, LeastOf
<1>4. Pkgs[n] \in S /\ \A m \in DOMAIN Pkgs : Pkgs[m] \in S => n <= m
  BY <1>3
<1> QED
  BY <1>3, <1>4 DEF First

(* What Add puts into the set of a package.                                *)
LEMMA AddIs ==
    ASSUME NEW sets, NEW found, IsFiniteSet(found), NEW p \in DOMAIN sets,
           sets[p] \in Seq(ToSet(sets[p]))
    PROVE  /\ DOMAIN Add(sets, found) = DOMAIN sets
           /\ Add(sets, found)[p] \in Seq(ToSet(Add(sets, found)[p]))
           /\ ToSet(Add(sets, found)[p]) = ToSet(sets[p]) \cup {i \in found : PkgOf(i) = p}
           /\ \A n \in DOMAIN sets[p] :
                 n \in DOMAIN Add(sets, found)[p] /\ Add(sets, found)[p][n] = sets[p][n]
<1> DEFINE new == {i \in found : PkgOf(i) = p} \ ToSet(sets[p])
           s == SetToSeq(new)
           a == sets[p]
           X == ToSet(a) \cup new
<1>1. IsFiniteSet(new)
  BY FS_Subset
<1>2. s \in Seq(new) /\ ToSet(s) = new
  <2> HIDE DEF new
  <2> QED
    BY <1>1, SetToSeqIs
<1> HIDE DEF s
<1>3. a \in Seq(X) /\ s \in Seq(X)
  BY <1>2, SeqMonotonic
<1>4. Add(sets, found)[p] = a \o s /\ DOMAIN Add(sets, found) = DOMAIN sets
  BY DEF Add, s
<1> DEFINE c == a \o s
<1> HIDE DEF X, new, a
<1>5. /\ c \in Seq(X) /\ DOMAIN c = 1 .. Len(a) + Len(s)
      /\ \A n \in 1 .. Len(a) : c[n] = a[n]
      /\ DOMAIN a = 1 .. Len(a) /\ Len(a) \in Nat /\ Len(s) \in Nat
  BY <1>3, ConcatAt, SeqFacts
<1>6. ToSet(c) = ToSet(a) \cup new
  BY <1>2, <1>3, ToSetConcat
<1>7. ToSet(c) = X
  BY <1>6 DEF X
<1>8. \A n \in DOMAIN a : n \in DOMAIN c /\ c[n] = a[n]
  BY <1>5
<1>9. ToSet(a) \cup new = ToSet(a) \cup {i \in found : PkgOf(i) = p}
  BY DEF new, a
<1> QED
  BY <1>4, <1>5, <1>6, <1>7, <1>8, <1>9 DEF a

-----------------------------------------------------------------------------
(* Programs.                                                               *)

LEMMA ProgramFacts ==
    ASSUME prog \in Programs
    PROVE  /\ None \notin Names /\ T # None /\ T \notin Basic /\ None \notin Basic
           /\ \A p \in AllPkgs : /\ prog.order[p] \in Seq(Names) /\ ToSet(prog.imports[p]) \subseteq AllPkgs
                                 /\ prog.inits[p] \in Seq(Names)
           /\ \A p \in AllPkgs : \A o \in ToSet(prog.order[p]) : o \in Names /\ Info(o).pkg = p
           /\ \A p \in AllPkgs : \A o \in ToSet(prog.inits[p]) :
                 o \in Names /\ Info(o).pkg = p /\ Info(o).kind = "var"
           /\ \A m, n \in Names : Info(m).name = Info(n).name => Info(m).exported = Info(n).exported
<1>1. WellTyped(prog, AllPkgs) /\ T # None /\ T \notin Basic /\ None \notin Basic
  BY CompileAssumption DEF AllPkgs
<1>2. /\ None \notin Names
      /\ prog.imports \in [AllPkgs -> Seq(AllPkgs)]
      /\ prog.order \in [AllPkgs -> Seq(Names)]
      /\ prog.inits \in [AllPkgs -> Seq(Names)]
      /\ \A p \in AllPkgs : /\ \A o \in ToSet(prog.order[p]) : Info(o).pkg = p
                            /\ \A o \in ToSet(prog.inits[p]) : Info(o).pkg = p /\ Info(o).kind = "var"
      /\ \A m, n \in Names : Info(m).name = Info(n).name => Info(m).exported = Info(n).exported
  BY <1>1 DEF WellTyped, Names, Info, Obj
<1>3. \A X : \A s \in Seq(X) : ToSet(s) \subseteq X
  BY SeqFacts DEF ToSet
<1> QED
  BY <1>1, <1>2, <1>3

LEMMA ObjectFacts ==
    ASSUME prog \in Programs, NEW o \in Names
    PROVE  /\ Info(o).pkg \in AllPkgs /\ o \in ToSet(prog.order[Info(o).pkg])
           /\ Info(o).kind \in {"func", "method", "type", "var"}
           /\ Info(o).generic \in BOOLEAN /\ Info(o).entry \in BOOLEAN
           /\ Info(o).kind = "var" => ~Info(o).generic
           /\ Info(o).entry \/ Info(o).impl # None => Info(o).kind = "func" /\ ~Info(o).generic
           /\ Info(o).impl # None =>
                 /\ Info(o).impl \in Names /\ Info(Info(o).impl).kind = "func"
                 /\ ~Info(Info(o).impl).generic
                 /\ Info(Info(o).impl).pkg \in ImportsOf(prog, AllPkgs, {Info(o).pkg})
           /\ Info(o).kind # "method" => Info(o).recv = None
           /\ Info(o).kind = "method" =>
                 /\ Info(o).recv \in Names /\ Info(Info(o).recv).kind = "type"
                 /\ Info(Info(o).recv).pkg = Info(o).pkg
                 /\ Info(Info(o).recv).generic = Info(o).generic /\ Info(Info(o).recv).nest = None
           /\ Info(o).nest # None =>
                 /\ Info(o).kind = "type" /\ ~Info(o).generic /\ Info(o).nest \in Names
                 /\ Info(Info(o).nest).kind \in {"func", "method"}
                 /\ Info(Info(o).nest).generic /\ Info(Info(o).nest).pkg = Info(o).pkg
           /\ IsFiniteSet(Info(o).uses) /\ \A u \in Info(o).uses : IsUse(prog, AllPkgs, o, u)
<1>1. IsObject(prog, AllPkgs, o)
  BY CompileAssumption DEF AllPkgs, WellTyped, Names
<1> QED
  BY <1>1 DEF IsObject, Obj, Info, Names

LEMMA ImportsFacts ==
    ASSUME NEW S, Closed(S), NEW A, A \subseteq S
    PROVE  ImportsOf(prog, AllPkgs, A) \subseteq S
BY DEF ImportsOf, Closed

LEMMA ImportsClosed ==
    ASSUME prog \in Programs, NEW A, A \subseteq AllPkgs
    PROVE  Closed(ImportsOf(prog, AllPkgs, A)) /\ A \subseteq ImportsOf(prog, AllPkgs, A)
<1> DEFINE I == ImportsOf(prog, AllPkgs, A)
<1>1. I \subseteq AllPkgs /\ A \subseteq I
  BY DEF ImportsOf
<1>2. ASSUME NEW q \in I, NEW r \in ToSet(prog.imports[q])
      PROVE  r \in I
  <2>1. q \in AllPkgs /\ r \in AllPkgs
    BY <1>1, <1>2, ProgramFacts
  <2>2. ASSUME NEW X \in SUBSET AllPkgs, A \subseteq X,
               \A x \in X : ToSet(prog.imports[x]) \subseteq X
        PROVE  r \in X
    <3>1. q \in X
      BY <1>2, <2>2 DEF ImportsOf
    <3> QED
      BY <1>2, <2>2, <3>1
  <2> QED
    BY <2>1, <2>2 DEF ImportsOf
<1> QED
  BY <1>1, <1>2 DEF Closed

LEMMA UnionClosed ==
    ASSUME NEW R, NEW S, Closed(R), Closed(S)
    PROVE  Closed(R \cup S)
BY DEF Closed

(* What the type checker knows of a use in the code of o.                  *)
LEMMA UseFacts ==
    ASSUME prog \in Programs, NEW o \in Names, NEW u \in Info(o).uses,
           NEW S, Closed(S), Info(o).pkg \in S
    PROVE  /\ u.k \in {"call", "value", "method", "iface", "var", "decl", "type", "block"}
           /\ u.k \in {"call", "value"} => u.o \in Names /\ Info(u.o).kind = "func"
           /\ u.k \in {"method", "iface"} => u.o \in Names /\ Info(u.o).kind = "method"
           /\ u.k = "var" => u.o \in Names /\ Info(u.o).kind = "var" /\ u.a = NoType
           /\ u.k = "decl" => /\ u.o \in Names /\ Info(u.o).kind = "type" /\ Info(u.o).nest = o
                              /\ u.a = NoType
           /\ u.k \in {"call", "value", "method"} =>
                 IF Info(u.o).generic
                 THEN /\ IsType(prog, u.a)
                      /\ IsGeneric(u.a) => Info(o).generic \/ Info(o).nest # None
                 ELSE u.a = NoType
           /\ u.k = "type" =>
                 \/ /\ IsType(prog, u.a)
                    /\ IsGeneric(u.a) => Info(o).generic \/ Info(o).nest # None
                 \/ \E d \in Info(o).uses : d.k = "decl" /\ u.a = Type(<<d.o>>, None)
           /\ u.k = "iface" =>
                 \/ u.a = NoType
                 \/ /\ IsType(prog, u.a)
                    /\ IsGeneric(u.a) => Info(o).generic \/ Info(o).nest # None
           /\ u.k = "block" => u.a = NoType
           /\ u.o \in Names => Info(u.o).pkg \in S
           /\ In(u.a, S)
<1>1. IsUse(prog, AllPkgs, o, u)
  BY ObjectFacts
<1>2. \A x \in ({u.o} \cap Names) \cup ToSet(u.a.named) :
        Info(x).pkg \in ImportsOf(prog, AllPkgs, {Info(o).pkg})
  BY <1>1 DEF IsUse, Obj, Info, Names
<1>3. ImportsOf(prog, AllPkgs, {Info(o).pkg}) \subseteq S
  BY ImportsFacts
<1>4. /\ u.o \in Names => Info(u.o).pkg \in S
      /\ In(u.a, S)
  BY <1>2, <1>3 DEF In
<1>5. u.k = "iface" =>
         u.a = NoType \/ (IsType(prog, u.a) /\ (IsGeneric(u.a) => Info(o).generic \/ Info(o).nest # None))
  BY <1>1 DEF IsUse, Obj, Info
<1>6. u.k = "type" =>
         \/ IsType(prog, u.a) /\ (IsGeneric(u.a) => Info(o).generic \/ Info(o).nest # None)
         \/ \E d \in Info(o).uses : d.k = "decl" /\ u.a = Type(<<d.o>>, None)
  BY <1>1 DEF IsUse, Obj, Info
<1>7. u.k \in {"call", "value", "method"} =>
         IF Info(u.o).generic
         THEN IsType(prog, u.a) /\ (IsGeneric(u.a) => Info(o).generic \/ Info(o).nest # None)
         ELSE u.a = NoType
  BY <1>1 DEF IsUse, IsArgument, Obj, Info
<1>8. /\ u.k \in {"call", "value", "method", "iface", "var", "decl", "type", "block"}
      /\ u.k \in {"call", "value"} => u.o \in Names /\ Info(u.o).kind = "func"
      /\ u.k \in {"method", "iface"} => u.o \in Names /\ Info(u.o).kind = "method"
      /\ u.k = "var" => u.o \in Names /\ Info(u.o).kind = "var" /\ u.a = NoType
      /\ u.k = "decl" => u.o \in Names /\ Info(u.o).kind = "type" /\ Info(u.o).nest = o /\ u.a = NoType
      /\ u.k = "block" => u.a = NoType
  BY <1>1 DEF IsUse, Obj, Info, Names
<1> QED
  BY <1>4, <1>5, <1>6, <1>7, <1>8

-----------------------------------------------------------------------------
(* Visiting code.                                                          *)

LEMMA SingleSeq ==
    ASSUME NEW X, NEW o \in X
    PROVE  /\ <<o>> \in Seq(X) /\ Len(<<o>>) = 1 /\ ToSet(<<o>>) = {o} /\ <<o>> # <<>>
           /\ Head(<<o>>) = o /\ Tail(<<o>>) = <<>> /\ SubSeq(<<o>>, 1, 1) = <<o>>
<1>1. <<o>> \in Seq(X) /\ Len(<<o>>) = 1 /\ <<o>>[1] = o /\ DOMAIN <<o>> = 1 .. 1
  OBVIOUS
<1>2. <<o>> # <<>> /\ Head(<<o>>) = o
  OBVIOUS
<1>3. Tail(<<o>>) \in Seq(X) /\ Len(Tail(<<o>>)) = 0
  BY <1>1, <1>2, HeadTailProperties
<1>4. Tail(<<o>>) = <<>>
  BY <1>3, EmptySeq
<1>5. SubSeq(<<o>>, 1, 1) = <<o>>
  BY <1>1, SubSeqFull
<1>6. ToSet(<<o>>) = {o}
  BY <1>1 DEF ToSet
<1> QED
  BY <1>1, <1>2, <1>4, <1>5, <1>6

LEMMA SingleType ==
    ASSUME NEW o, NEW base, NEW t, t = Type(<<o>>, base)
    PROVE  /\ t.named = <<o>> /\ t.base = base /\ Outer(t) = o /\ ArgOf(t) = Type(<<>>, base)
           /\ NamedIn(t) = {t} /\ IsNamed(t) /\ t # NoType
<1>1. t.named = <<o>> /\ t.base = base
  BY DEF Type
<1>2. Len(<<o>>) = 1 /\ DOMAIN <<o>> = {1} /\ SubSeq(<<o>>, 1, 1) = <<o>> /\ <<o>> # <<>>
  <2>1. DOMAIN <<o>> = 1 .. 1 /\ 1 .. 1 = {1}
    OBVIOUS
  <2> QED
    BY <2>1, SingleSeq
<1>3. NamedIn(t) = {Type(SubSeq(<<o>>, n, 1), base) : n \in {1}}
  BY <1>1, <1>2 DEF NamedIn
<1>4. NamedIn(t) = {t}
  BY <1>2, <1>3
<1>5. Outer(t) = o /\ ArgOf(t) = Type(<<>>, base)
  BY <1>1, SingleSeq DEF Outer, ArgOf
<1> QED
  BY <1>1, <1>2, <1>4, <1>5 DEF IsNamed, NoType, Type

LEMMA NoTypeFacts ==
    /\ NoType.named = <<>> /\ NoType.base = None /\ NamedIn(NoType) = {} /\ ~IsNamed(NoType)
    /\ T # None => ~IsGeneric(NoType)
    /\ \A t : ~IsGeneric(t) => Substitute(t, NoType) = t
    /\ \A S : In(NoType, S) /\ ~IsType(prog, NoType)
<1>1. NoType.named = <<>> /\ NoType.base = None
  BY DEF NoType, Type
<1>2. DOMAIN <<>> = {} /\ ToSet(<<>>) = {}
  BY DEF ToSet
<1>3. NamedIn(NoType) = {}
  BY <1>1, <1>2 DEF NamedIn
<1> QED
  BY <1>1, <1>2, <1>3, SubstituteClosed DEF IsNamed, IsGeneric, In, IsType

(* The code of o has a meaning for T.                                      *)
HasT(o) == Info(o).generic \/ Info(o).nest # None

(* The type of a composite literal or of a receiver.                       *)
LEMMA LiteralFacts ==
    ASSUME prog \in Programs, NEW o \in Names, NEW u \in Info(o).uses,
           NEW S, Closed(S), Info(o).pkg \in S
    PROVE  /\ In(Literal(prog, u), S)
           /\ \/ Literal(prog, u) = NoType
              \/ IsType(prog, Literal(prog, u)) /\ (IsGeneric(Literal(prog, u)) => HasT(o))
              \/ /\ u.k = "type"
                 /\ \E d \in Info(o).uses : d.k = "decl" /\ Literal(prog, u) = Type(<<d.o>>, None)
           /\ u.k \in {"call", "value", "type"} => Literal(prog, u) = u.a
           /\ u.k = "method" =>
                 /\ IsType(prog, Literal(prog, u)) /\ IsNamed(Literal(prog, u))
                 /\ Outer(Literal(prog, u)) = Info(u.o).recv /\ ArgOf(Literal(prog, u)) = u.a
                 /\ IsGeneric(Literal(prog, u)) <=> IsGeneric(u.a)
<1> DEFINE t == Literal(prog, u)
<1>1. CASE u.k # "method"
  <2>1. t = u.a
    BY <1>1 DEF Literal
  <2> QED
    BY <1>1, <2>1, UseFacts DEF HasT
<1>2. CASE u.k = "method"
  <2> DEFINE r == Info(u.o).recv
             c == <<r>> \o u.a.named
  <2>1. t = Type(c, u.a.base)
    BY <1>2 DEF Literal, Info, Obj
  <2>2. /\ u.o \in Names /\ Info(u.o).kind = "method"
        /\ IF Info(u.o).generic
           THEN IsType(prog, u.a) /\ (IsGeneric(u.a) => HasT(o)) ELSE u.a = NoType
        /\ Info(u.o).pkg \in S /\ In(u.a, S)
    BY <1>2, UseFacts DEF HasT
  <2>3. /\ r \in Names /\ Info(r).kind = "type" /\ Info(r).pkg \in S
        /\ Info(r).generic = Info(u.o).generic /\ Info(r).nest = None
        /\ Info(u.o).generic \in BOOLEAN
    BY <2>2, ObjectFacts
  <2>4. /\ <<r>> \in Seq(Names) /\ Len(<<r>>) = 1 /\ ToSet(<<r>>) = {r} /\ <<r>> # <<>>
        /\ Head(<<r>>) = r /\ Tail(<<r>>) = <<>> /\ <<r>>[1] = r
    BY <2>3, SingleSeq
  <2>5. u.a.named \in Seq(Names) /\ Type(u.a.named, u.a.base) = u.a
    <3>1. CASE u.a = NoType
      BY <3>1, NoTypeFacts, EmptySeq DEF NoType
    <3>2. CASE IsType(prog, u.a)
      BY <3>2, TypeFields
    <3> QED
      BY <2>2, <3>1, <3>2
  <2>6. c # <<>> /\ Head(c) = r /\ Tail(c) = u.a.named
    <3>1. Head(c) = r /\ Tail(c) = <<>> \o u.a.named
      BY <2>4, <2>5, HeadTailConcat
    <3> QED
      BY <2>4, <2>5, <3>1, ConcatEmptySeq, ConcatEqualIffEmpty
  <2>7. ToSet(c) = {r} \cup ToSet(u.a.named)
    <3>1. ToSet(c) = ToSet(<<r>>) \cup ToSet(u.a.named)
      <4>1. PICK a, b : a = <<r>> /\ b = u.a.named
        OBVIOUS
      <4>2. a \in Seq(Names) /\ b \in Seq(Names)
        BY <2>4, <2>5, <4>1
      <4>3. ToSet(a \o b) = ToSet(a) \cup ToSet(b)
        BY <4>2, ToSetConcat
      <4> QED
        BY <4>1, <4>3
    <3> QED
      BY <2>4, <3>1
  <2>8. IsChain(c, u.a.base)
    <3>1. CASE Info(u.o).generic
      <4>1. IsChain(<<r>>, T)
        <5>1. GenericAt(r, FALSE)
          BY <2>3, <3>1 DEF GenericAt
        <5>2. \A n \in 1 .. 1 : <<r>>[n] = r
          BY <2>4
        <5> QED
          BY <2>4, <5>1, <5>2, ProgramFacts DEF IsChain, GenericAt
      <4>2. IsChain(u.a.named, u.a.base) /\ ~(u.a.named = <<>> /\ u.a.base = None)
        BY <2>2, <3>1, TypeFields
      <4> QED
        BY <4>1, <4>2, ChainConcat, ProgramFacts
    <3>2. CASE ~Info(u.o).generic
      <4>1. c = <<r>> /\ u.a.base = None
        BY <2>2, <2>4, <3>2, NoTypeFacts, ConcatEmptySeq
      <4>2. GenericAt(r, TRUE)
        BY <2>3, <3>2 DEF GenericAt
      <4>3. \A n \in 1 .. 1 : n = 1 /\ <<r>>[n] = r
        BY <2>4
      <4> QED
        BY <2>4, <4>1, <4>2, <4>3 DEF IsChain, GenericAt
    <3> QED
      BY <3>1, <3>2
  <2> HIDE DEF c
  <2>9. t.named = c /\ t.base = u.a.base
    BY <2>1 DEF Type
  <2>10. IsType(prog, t) /\ IsNamed(t)
    BY <2>1, <2>6, <2>8, <2>9, ChainType DEF IsNamed
  <2>11. Outer(t) = r /\ ArgOf(t) = u.a
    BY <2>5, <2>6, <2>9 DEF Outer, ArgOf
  <2>12. IsGeneric(t) <=> IsGeneric(u.a)
    BY <2>9 DEF IsGeneric
  <2>13. IsGeneric(u.a) => HasT(o)
    BY <2>2, NoTypeFacts, ProgramFacts
  <2>14. In(t, S)
    BY <2>2, <2>3, <2>7, <2>9 DEF In
  <2> QED
    BY <1>2, <2>10, <2>11, <2>12, <2>13, <2>14
<1> QED
  BY <1>1, <1>2

(* A generic object that an expression names, and what its argument names. *)
LEMMA SiteFacts ==
    ASSUME prog \in Programs, NEW o \in Names, NEW u \in Info(o).uses,
           NEW S, Closed(S), Info(o).pkg \in S, NEW n \in Instantiated(u)
    PROVE  /\ n[1] \in Names /\ Info(n[1]).kind \in {"func", "type"} /\ Info(n[1]).generic
           /\ Info(n[1]).nest = None /\ Info(n[1]).pkg \in S
           /\ IsType(prog, n[2]) /\ In(n[2], S) /\ (IsGeneric(n[2]) => HasT(o))
           /\ \A t \in NamedIn(n[2]) :
                 Info(Outer(t)).generic => <<Outer(t), ArgOf(t)>> \in Instantiated(u)
<1> DEFINE l == Literal(prog, u)
           named == {<<Outer(t), ArgOf(t)>> : t \in NamedIn(l)}
<1>1. Info(n[1]).generic /\ ((u.k \in {"call", "value"} /\ n = <<u.o, u.a>>) \/ n \in named)
  BY DEF Instantiated
<1>2. \A t \in NamedIn(l) : Info(Outer(t)).generic => <<Outer(t), ArgOf(t)>> \in Instantiated(u)
  BY DEF Instantiated
<1>3. CASE u.k \in {"call", "value"} /\ n = <<u.o, u.a>>
  <2>1. n[1] = u.o /\ n[2] = u.a /\ l = u.a
    BY <1>3, LiteralFacts
  <2>2. u.o \in Names /\ Info(u.o).kind = "func" /\ Info(u.o).nest = None
    BY <1>3, UseFacts, ObjectFacts
  <2> QED
    BY <1>1, <1>2, <1>3, <2>1, <2>2, UseFacts DEF HasT
<1>4. CASE n \in named
  <2>1. PICK p \in NamedIn(l) : n = <<Outer(p), ArgOf(p)>>
    BY <1>4
  <2>2. n[1] = Outer(p) /\ n[2] = ArgOf(p) /\ Info(Outer(p)).generic
    BY <1>1, <2>1
  <2>3. l # NoType
    BY <2>1, NoTypeFacts
  <2>4. IsType(prog, l) /\ (IsGeneric(l) => HasT(o)) /\ In(l, S)
    <3>1. ASSUME NEW d \in Info(o).uses, d.k = "decl", l = Type(<<d.o>>, None)
          PROVE  FALSE
      <4>1. p = l /\ Outer(p) = d.o
        BY <2>1, <3>1, SingleType
      <4>2. d.o \in Names /\ Info(d.o).nest = o
        BY <3>1, UseFacts
      <4> QED
        <5>1. Info(d.o).nest # None
          BY <4>2, ProgramFacts
        <5>2. ~Info(d.o).generic
          BY <4>2, <5>1, ObjectFacts
        <5> QED
          BY <2>2, <4>1, <5>2
    <3> HIDE DEF l
    <3> QED
      BY <2>3, <3>1, LiteralFacts DEF l
  <2>5. /\ Outer(p) \in Names /\ Info(Outer(p)).kind = "type" /\ Info(Outer(p)).nest = None
        /\ Outer(p) \in ToSet(l.named) /\ IsType(prog, ArgOf(p)) /\ ArgOf(p).base = l.base
        /\ ToSet(ArgOf(p).named) \subseteq ToSet(l.named) /\ NamedIn(ArgOf(p)) \subseteq NamedIn(l)
    BY <2>1, <2>2, <2>4, PartIsType
  <2>6. Info(Outer(p)).pkg \in S /\ In(ArgOf(p), S)
    BY <2>4, <2>5 DEF In
  <2>7. IsGeneric(ArgOf(p)) => HasT(o)
    BY <2>4, <2>5 DEF IsGeneric
  <2> QED
    BY <1>2, <2>2, <2>5, <2>6, <2>7
<1> QED
  BY <1>1, <1>3, <1>4

-----------------------------------------------------------------------------
(* What the visitor finds.                                                 *)

LEMMA InstFields ==
    ASSUME NEW o, NEW a, NEW n, NEW i, i = Inst(o, a, n)
    PROVE  /\ i.o = o /\ i.args = a /\ i.nest = n
           /\ \A m : [i EXCEPT !.o = m] = Inst(m, a, n)
           /\ n = NoType => Arg(i) = a
           /\ n # NoType => Arg(i) = n
           /\ IsTrivial(i) <=> a = NoType /\ n = NoType
BY DEF Inst, Arg, IsTrivial

(* What an object is visited with.                                         *)
VisitOK(o, arg, S) ==
    /\ o \in Names /\ Info(o).nest = None /\ Info(o).pkg \in S
    /\ IF Info(o).generic THEN IsClosed(arg, S) ELSE arg = NoType

LEMMA CodeFacts ==
    ASSUME prog \in Programs, NEW S, Closed(S), NEW o, NEW arg, VisitOK(o, arg, S), NEW u \in Code(o)
    PROVE  \E x \in Names : /\ u \in Info(x).uses /\ Info(x).pkg \in S /\ (HasT(x) => Info(o).generic)
                            /\ u.k = "decl" => x = o
<1>1. CASE u \in Info(o).uses
  BY <1>1 DEF VisitOK, HasT
<1>2. CASE u \notin Info(o).uses
  <2>1. PICK d \in Info(o).uses : d.k = "decl" /\ u \in Info(d.o).uses
    BY <1>2 DEF Code
  <2>2. d.o \in Names /\ Info(d.o).nest = o /\ Info(d.o).kind = "type" /\ o \in Names
    BY <2>1, UseFacts DEF VisitOK
  <2>3. Info(d.o).nest # None
    BY <2>2, ProgramFacts
  <2>4. Info(o).generic /\ Info(d.o).pkg = Info(o).pkg
    BY <2>2, <2>3, ObjectFacts
  <2>5. Info(d.o).pkg \in S
    BY <2>4 DEF VisitOK
  <2>6. u.k # "decl"
    <3>1. SUFFICES ASSUME u.k = "decl" PROVE FALSE
      OBVIOUS
    <3>2. u.o \in Names /\ Info(u.o).nest = d.o
      BY <2>1, <2>2, <2>5, <3>1, UseFacts
    <3>3. Info(u.o).nest # None
      BY <2>2, <3>2, ProgramFacts
    <3>4. Info(d.o).kind \in {"func", "method"}
      BY <3>2, <3>3, ObjectFacts
    <3> QED
      BY <2>2, <3>4
  <2> QED
    BY <2>1, <2>2, <2>4, <2>5, <2>6
<1> QED
  BY <1>1, <1>2

LEMMA MethodFacts ==
    ASSUME prog \in Programs, NEW t \in Names, NEW m \in MethodsOf(prog, t)
    PROVE  /\ m \in Names /\ Info(m).kind = "method" /\ Info(m).recv = t /\ Info(m).nest = None
           /\ Info(m).pkg = Info(t).pkg /\ Info(m).generic = Info(t).generic
           /\ Info(t).kind = "type" /\ Info(t).nest = None
<1>1. m \in ToSet(prog.order[Info(t).pkg]) /\ Info(m).recv = t
  BY DEF MethodsOf, Info, Obj
<1>2. Info(t).pkg \in AllPkgs
  BY ObjectFacts
<1>3. m \in Names
  BY <1>1, <1>2, ProgramFacts
<1>4. t # None
  BY ProgramFacts
<1>5. Info(m).kind = "method"
  BY <1>1, <1>3, <1>4, ObjectFacts
<1>6. Info(m).nest = None
  BY <1>3, <1>5, ObjectFacts
<1> QED
  BY <1>1, <1>3, <1>5, <1>6, ObjectFacts

LEMMA AddInstanceIs ==
    ASSUME NEW o, NEW a, NEW n, ~IsGeneric(a), ~IsGeneric(n)
    PROVE  AddInstance(Inst(o, a, n)) =
             {Inst(o, a, n)} \cup
             {Inst(m, a, n) : m \in IF Info(o).kind = "type" THEN MethodsOf(prog, o) ELSE {}}
<1> DEFINE i == Inst(o, a, n)
<1>1. i.o = o /\ i.args = a /\ i.nest = n /\ \A m : [i EXCEPT !.o = m] = Inst(m, a, n)
  BY InstFields
<1> HIDE DEF i
<1>2. AddInstance(i) = {i} \cup {[i EXCEPT !.o = m] :
                m \in IF Info(o).kind = "type" THEN MethodsOf(prog, o) ELSE {}}
  BY <1>1 DEF AddInstance
<1> QED
  BY <1>1, <1>2 DEF i

(* A generic object with its argument, in the code of an instance.         *)
LEMMA VisitSite ==
    ASSUME prog \in Programs, NEW S, Closed(S), NEW o, NEW arg, VisitOK(o, arg, S), NEW u \in Code(o),
           u.k # "decl", NEW n \in Instantiated(u)
    PROVE  /\ IsClosed(Substitute(n[2], arg), S) /\ n[1] \in Names /\ Info(n[1]).pkg \in S
           /\ Info(n[1]).kind \in {"func", "type"} /\ Info(n[1]).generic /\ Info(n[1]).nest = None
           /\ Inst(n[1], Substitute(n[2], arg), NoType) \in Visit(o, arg)
           /\ Info(n[1]).kind = "type" => \A m \in MethodsOf(prog, n[1]) :
                 Inst(m, Substitute(n[2], arg), NoType) \in Visit(o, arg)
           /\ \A t \in NamedIn(Substitute(n[2], arg)) : Info(Outer(t)).generic =>
                 \/ Inst(Outer(t), ArgOf(t), NoType) \in Visit(o, arg)
                 \/ Info(o).generic /\ t \in NamedIn(arg)
<1> DEFINE a == Substitute(n[2], arg)
<1>1. PICK x \in Names : u \in Info(x).uses /\ Info(x).pkg \in S /\ (HasT(x) => Info(o).generic)
  BY CodeFacts
<1>2. /\ n[1] \in Names /\ Info(n[1]).kind \in {"func", "type"} /\ Info(n[1]).generic
      /\ Info(n[1]).nest = None /\ Info(n[1]).pkg \in S
      /\ IsType(prog, n[2]) /\ In(n[2], S) /\ (IsGeneric(n[2]) => HasT(x))
      /\ \A t \in NamedIn(n[2]) :
            Info(Outer(t)).generic => <<Outer(t), ArgOf(t)>> \in Instantiated(u)
  BY <1>1, SiteFacts
<1>3. IsGeneric(n[2]) => Info(o).generic /\ IsClosed(arg, S)
  BY <1>1, <1>2 DEF VisitOK
<1>4. T # None
  BY ProgramFacts
<1>5. IsClosed(a, S)
  BY <1>2, <1>3, <1>4, SubstituteIsType
<1>6. \A k \in Instantiated(u) :
        AddInstance(Inst(k[1], Substitute(k[2], arg), NoType)) \subseteq Visit(o, arg)
  BY DEF Visit, VisitInstance
<1>7. ~IsGeneric(a) /\ ~IsGeneric(NoType)
  BY <1>4, <1>5, ClosedIs, NoTypeFacts
<1>8. /\ Inst(n[1], a, NoType) \in Visit(o, arg)
      /\ Info(n[1]).kind = "type" =>
            \A m \in MethodsOf(prog, n[1]) : Inst(m, a, NoType) \in Visit(o, arg)
  <2> HIDE DEF a
  <2>1. AddInstance(Inst(n[1], a, NoType)) \subseteq Visit(o, arg)
    BY <1>6 DEF a
  <2> QED
    BY <1>7, <2>1, AddInstanceIs
<1>9. ASSUME NEW t \in NamedIn(a), Info(Outer(t)).generic
      PROVE  \/ Inst(Outer(t), ArgOf(t), NoType) \in Visit(o, arg)
             \/ Info(o).generic /\ t \in NamedIn(arg)
  <2>1. IsGeneric(n[2]) => IsType(prog, arg)
    BY <1>3, ClosedIs
  <2>2. CASE IsGeneric(n[2]) /\ t \in NamedIn(arg)
    BY <1>3, <2>2
  <2>3. CASE ~(IsGeneric(n[2]) /\ t \in NamedIn(arg))
    <3>1. PICK y \in NamedIn(n[2]) : Outer(t) = Outer(y) /\ ArgOf(t) = Substitute(ArgOf(y), arg)
      BY <1>2, <1>9, <2>1, <2>3, PartsOfSubstitute
    <3> DEFINE k == <<Outer(y), ArgOf(y)>>
    <3>2. k \in Instantiated(u)
      BY <1>2, <1>9, <3>1
    <3>3. k[1] = Outer(t) /\ Substitute(k[2], arg) = ArgOf(t)
      BY <3>1
    <3> HIDE DEF k
    <3>4. AddInstance(Inst(Outer(t), ArgOf(t), NoType)) \subseteq Visit(o, arg)
      BY <1>6, <3>2, <3>3
    <3>5. ~IsGeneric(ArgOf(t)) /\ ~IsGeneric(NoType)
      BY <1>5, <1>7, <1>9, ClosedIs, PartIsType DEF IsGeneric
    <3> QED
      BY <3>4, <3>5, AddInstanceIs
  <2> QED
    BY <2>2, <2>3
<1> QED
  BY <1>2, <1>5, <1>8, <1>9

(* A type declared in generic code.                                        *)
LEMMA VisitDecl ==
    ASSUME prog \in Programs, NEW S, Closed(S), NEW o, NEW arg, VisitOK(o, arg, S),
           NEW u \in Info(o).uses, u.k = "decl"
    PROVE  /\ arg # NoType /\ Info(o).generic /\ Inst(u.o, NoType, arg) \in Visit(o, arg)
           /\ IsInst(Inst(u.o, NoType, arg), S) /\ MethodsOf(prog, u.o) = {}
           /\ AddInstance(Inst(u.o, NoType, arg)) = {Inst(u.o, NoType, arg)}
           /\ Info(u.o).nest = o /\ Info(u.o).kind = "type"
<1>1. u.o \in Names /\ Info(u.o).nest = o /\ Info(u.o).kind = "type" /\ o \in Names /\ Info(u.o).pkg \in S
  BY UseFacts DEF VisitOK
<1>2. Info(u.o).nest # None
  BY <1>1, ProgramFacts
<1>3. Info(o).generic /\ ~Info(u.o).generic
  BY <1>1, <1>2, ObjectFacts
<1>4. IsClosed(arg, S)
  BY <1>3 DEF VisitOK
<1>5. arg # NoType /\ ~IsGeneric(arg) /\ ~IsGeneric(NoType)
  BY <1>4, ClosedIs, NoTypeFacts, ProgramFacts
<1>6. MethodsOf(prog, u.o) = {}
  BY <1>1, <1>2, MethodFacts
<1>7. AddInstance(Inst(u.o, NoType, arg)) = {Inst(u.o, NoType, arg)}
  BY <1>5, <1>6, AddInstanceIs
<1>8. AddInstance(Inst(u.o, NoType, arg)) \subseteq Visit(o, arg)
  BY <1>5 DEF Visit, VisitNestedType, Code
<1>9. IsInst(Inst(u.o, NoType, arg), S)
  <2> DEFINE i == Inst(u.o, NoType, arg)
  <2>1. i.o = u.o /\ i.args = NoType /\ i.nest = arg
    BY InstFields
  <2> HIDE DEF i
  <2>2. i = Inst(i.o, i.args, i.nest)
    BY <2>1 DEF i
  <2>3. IsInst(i, S)
    BY <1>1, <1>2, <1>3, <1>4, <2>1, <2>2 DEF IsInst, PkgOf
  <2> QED
    BY <2>3 DEF i
<1> QED
  BY <1>1, <1>3, <1>5, <1>6, <1>7, <1>8, <1>9

(* Where an instance that the visitor finds comes from.                    *)
LEMMA VisitFinds ==
    ASSUME prog \in Programs, NEW S, Closed(S), NEW o, NEW arg, VisitOK(o, arg, S),
           NEW j \in Visit(o, arg)
    PROVE  \/ \E u \in Info(o).uses : u.k = "decl" /\ j = Inst(u.o, NoType, arg)
           \/ \E u \in Code(o) : \E n \in Instantiated(u) :
                 /\ u.k # "decl"
                 /\ \/ j = Inst(n[1], Substitute(n[2], arg), NoType)
                    \/ \E m \in MethodsOf(prog, n[1]) :
                          j = Inst(m, Substitute(n[2], arg), NoType) /\ Info(n[1]).kind = "type"
<1>1. PICK u \in Code(o) : j \in IF u.k = "decl" THEN VisitNestedType(u.o, arg) ELSE VisitInstance(u, arg)
  BY DEF Visit
<1>2. CASE u.k = "decl"
  <2>1. u \in Info(o).uses
    <3>1. PICK x \in Names : u \in Info(x).uses /\ x = o
      BY <1>2, CodeFacts
    <3> QED
      BY <3>1
  <2>2. j \in AddInstance(Inst(u.o, NoType, arg))
    BY <1>1, <1>2, <2>1, VisitDecl DEF VisitNestedType
  <2> QED
    BY <1>2, <2>1, <2>2, VisitDecl
<1>3. CASE u.k # "decl"
  <2>1. PICK n \in Instantiated(u) : j \in AddInstance(Inst(n[1], Substitute(n[2], arg), NoType))
    BY <1>1, <1>3 DEF VisitInstance
  <2>2. ~IsGeneric(Substitute(n[2], arg)) /\ ~IsGeneric(NoType)
    BY <1>3, VisitSite, ClosedIs, NoTypeFacts, ProgramFacts
  <2>3. \/ j = Inst(n[1], Substitute(n[2], arg), NoType)
        \/ \E m \in MethodsOf(prog, n[1]) :
              j = Inst(m, Substitute(n[2], arg), NoType) /\ Info(n[1]).kind = "type"
    BY <2>1, <2>2, AddInstanceIs
  <2> QED
    BY <1>3, <2>3
<1> QED
  BY <1>2, <1>3

(* What the visitor finds is made of instances it finds, or that it had.   *)
LEMMA VisitSound ==
    ASSUME prog \in Programs, NEW S, Closed(S), NEW o, NEW arg, VisitOK(o, arg, S),
           NEW j \in Visit(o, arg)
    PROVE  /\ IsInst(j, S) /\ ~IsTrivial(j)
           /\ \A t \in NamedIn(Arg(j)) : Info(Outer(t)).generic =>
                 \/ Inst(Outer(t), ArgOf(t), NoType) \in Visit(o, arg)
                 \/ Info(o).generic /\ t \in NamedIn(arg)
           /\ Info(j.o).kind = "type" =>
                 \A m \in MethodsOf(prog, j.o) : [j EXCEPT !.o = m] \in Visit(o, arg)
           /\ Info(j.o).kind = "method" => Recv(j) \in Visit(o, arg)
           /\ j.nest # NoType => /\ Info(o).generic /\ j.nest = arg /\ Info(j.o).nest = o
                                 /\ \E u \in Info(o).uses : u.k = "decl" /\ u.o = j.o
<1>1. CASE \E u \in Info(o).uses : u.k = "decl" /\ j = Inst(u.o, NoType, arg)
  <2>1. PICK u \in Info(o).uses : u.k = "decl" /\ j = Inst(u.o, NoType, arg)
    BY <1>1
  <2>2. /\ arg # NoType /\ Info(o).generic /\ IsInst(j, S) /\ MethodsOf(prog, u.o) = {}
        /\ Info(u.o).nest = o /\ Info(u.o).kind = "type"
    BY <2>1, VisitDecl
  <2>3. j.o = u.o /\ j.nest = arg /\ Arg(j) = arg /\ ~IsTrivial(j)
    BY <2>1, <2>2, InstFields
  <2> QED
    BY <2>1, <2>2, <2>3
<1>2. ASSUME NEW u \in Code(o), NEW n \in Instantiated(u), u.k # "decl",
             \/ j = Inst(n[1], Substitute(n[2], arg), NoType)
             \/ \E m \in MethodsOf(prog, n[1]) :
                   j = Inst(m, Substitute(n[2], arg), NoType) /\ Info(n[1]).kind = "type"
      PROVE  /\ IsInst(j, S) /\ ~IsTrivial(j)
             /\ \A t \in NamedIn(Arg(j)) : Info(Outer(t)).generic =>
                   \/ Inst(Outer(t), ArgOf(t), NoType) \in Visit(o, arg)
                   \/ Info(o).generic /\ t \in NamedIn(arg)
             /\ Info(j.o).kind = "type" =>
                   \A m \in MethodsOf(prog, j.o) : [j EXCEPT !.o = m] \in Visit(o, arg)
             /\ Info(j.o).kind = "method" => Recv(j) \in Visit(o, arg)
             /\ j.nest = NoType
  <2> DEFINE a == Substitute(n[2], arg)
  <2>1. /\ IsClosed(a, S) /\ n[1] \in Names /\ Info(n[1]).pkg \in S
        /\ Info(n[1]).kind \in {"func", "type"} /\ Info(n[1]).generic /\ Info(n[1]).nest = None
        /\ Inst(n[1], a, NoType) \in Visit(o, arg)
        /\ Info(n[1]).kind = "type" =>
              \A m \in MethodsOf(prog, n[1]) : Inst(m, a, NoType) \in Visit(o, arg)
        /\ \A t \in NamedIn(a) : Info(Outer(t)).generic =>
              \/ Inst(Outer(t), ArgOf(t), NoType) \in Visit(o, arg)
              \/ Info(o).generic /\ t \in NamedIn(arg)
    BY <1>2, VisitSite
  <2> HIDE DEF a
  <2>2. PICK k \in Names : /\ j = Inst(k, a, NoType) /\ Info(k).pkg \in S /\ Info(k).generic
                           /\ Info(k).nest = None
                           /\ \/ k = n[1]
                              \/ k \in MethodsOf(prog, n[1]) /\ Info(n[1]).kind = "type"
    BY <1>2, <2>1, MethodFacts DEF a
  <2>3. /\ j.o = k /\ j.args = a /\ j.nest = NoType /\ Arg(j) = a
        /\ \A m : [j EXCEPT !.o = m] = Inst(m, a, NoType)
        /\ IsTrivial(j) <=> a = NoType
    BY <2>2, InstFields
  <2>4. a # NoType
    BY <2>1, ClosedIs, NoTypeFacts
  <2>5. IsInst(j, S)
    BY <2>1, <2>2, <2>3 DEF IsInst, PkgOf
  <2>6. CASE k = n[1]
    BY <2>1, <2>3, <2>4, <2>5, <2>6
  <2>7. CASE k \in MethodsOf(prog, n[1]) /\ Info(n[1]).kind = "type"
    <3>1. Info(k).kind = "method" /\ Info(k).recv = n[1]
      BY <2>1, <2>7, MethodFacts
    <3>2. Recv(j) = Inst(n[1], a, NoType)
      BY <2>3, <3>1 DEF Recv
    <3> QED
      BY <2>1, <2>3, <2>4, <2>5, <3>1, <3>2
  <2> QED
    BY <2>2, <2>6, <2>7
<1> QED
  BY <1>1, <1>2, VisitFinds

(* Code is finite.                                                         *)
LEMMA VisitFinite ==
    ASSUME prog \in Programs, NEW S, Closed(S), NEW o, NEW arg, VisitOK(o, arg, S)
    PROVE  IsFiniteSet(Visit(o, arg))
<1>1. IsFiniteSet(Code(o))
  <2> DEFINE D == {x \in Info(o).uses : x.k = "decl"}
             f == [u \in D |-> Info(u.o).uses]
  <2>1. o \in Names /\ IsFiniteSet(Info(o).uses)
    BY ObjectFacts DEF VisitOK
  <2>2. \A u \in D : u.o \in Names
    BY <2>1, UseFacts DEF VisitOK
  <2>3. IsFiniteSet(D)
    BY <2>1, FS_Subset
  <2>4. DOMAIN f = D /\ \A u \in DOMAIN f : IsFiniteSet(f[u])
    BY <2>2, ObjectFacts
  <2>5. IsFiniteSet(UNION {f[u] : u \in DOMAIN f})
    <3> HIDE DEF f
    <3> QED
      BY <2>3, <2>4, UnionFinite
  <2>6. UNION {f[u] : u \in DOMAIN f} = UNION {Info(u.o).uses : u \in D}
    OBVIOUS
  <2> QED
    BY <2>1, <2>5, <2>6, FS_Union DEF Code
<1>2. ASSUME NEW i, NEW k \in Names, i.o = k
      PROVE  IsFiniteSet(AddInstance(i))
  <2> DEFINE M == IF Info(i.o).kind = "type" THEN MethodsOf(prog, i.o) ELSE {}
             f == [m \in M |-> [i EXCEPT !.o = m]]
  <2>1. Info(k).pkg \in AllPkgs
    BY ObjectFacts
  <2>2. IsFiniteSet(ToSet(prog.order[Info(k).pkg]))
    BY <2>1, ProgramFacts, ToSetFinite
  <2>3. M \subseteq ToSet(prog.order[Info(k).pkg])
    BY <1>2 DEF MethodsOf, Info, Obj
  <2>4. IsFiniteSet(M)
    BY <2>2, <2>3, FS_Subset
  <2>5. IsFiniteSet({f[m] : m \in DOMAIN f})
    <3>1. IsFiniteSet(DOMAIN f)
      BY <2>4
    <3> HIDE DEF f
    <3> QED
      BY <3>1, ImageFinite
  <2>6. IsFiniteSet({i} \cup {f[m] : m \in DOMAIN f})
    BY <2>5, FS_Singleton, FS_Union
  <2>7. {f[m] : m \in DOMAIN f} = {[i EXCEPT !.o = m] : m \in M}
    OBVIOUS
  <2> QED
    BY <2>6, <2>7, FS_EmptySet DEF AddInstance
<1>3. ASSUME NEW u \in Code(o), u.k # "decl"
      PROVE  IsFiniteSet(VisitInstance(u, arg))
  <2>1. IsFiniteSet(Instantiated(u))
    <3>1. PICK x \in Names : u \in Info(x).uses /\ Info(x).pkg \in S
      BY <1>3, CodeFacts
    <3> DEFINE t == Literal(prog, u)
               g == [n \in DOMAIN t.named |-> Type(SubSeq(t.named, n, Len(t.named)), t.base)]
               h == [y \in NamedIn(t) |-> <<Outer(y), ArgOf(y)>>]
               own == IF u.k \in {"call", "value"} THEN {<<u.o, u.a>>} ELSE {}
    <3>2. t.named \in Seq({t.named[n] : n \in DOMAIN t.named})
      <4>1. CASE t = NoType
        BY <4>1, NoTypeFacts, EmptySeq
      <4>2. CASE IsType(prog, t)
        <5>1. t.named \in Seq(Names)
          BY <4>2, TypeFields
        <5> HIDE DEF t
        <5> QED
          BY <5>1, SeqDef
      <4>3. ASSUME NEW d, t = Type(<<d.o>>, None)
            PROVE  t.named \in Seq({t.named[n] : n \in DOMAIN t.named})
        <5>1. t.named = <<d.o>>
          BY <4>3, SingleType
        <5> HIDE DEF t
        <5>2. <<d.o>>[1] = d.o /\ DOMAIN <<d.o>> = 1 .. 1
          OBVIOUS
        <5>3. d.o \in {t.named[n] : n \in DOMAIN t.named}
          BY <5>1, <5>2
        <5> QED
          BY <5>1, <5>3, SingleSeq
      <4> HIDE DEF t
      <4> QED
        BY <3>1, <4>1, <4>2, <4>3, LiteralFacts DEF t
    <3>3. IsFiniteSet(DOMAIN t.named)
      <4> HIDE DEF t
      <4>1. DOMAIN t.named = 1 .. Len(t.named) /\ Len(t.named) \in Nat
        BY <3>2, SeqFacts
      <4> QED
        BY <4>1, FS_Interval
    <3> HIDE DEF t
    <3>4. IsFiniteSet({g[n] : n \in DOMAIN g})
      BY <3>3, ImageFinite
    <3>5. NamedIn(t) = {g[n] : n \in DOMAIN g}
      BY DEF NamedIn
    <3>6. IsFiniteSet({h[y] : y \in DOMAIN h})
      <4>1. IsFiniteSet(DOMAIN h)
        BY <3>4, <3>5
      <4> HIDE DEF h
      <4> QED
        BY <4>1, ImageFinite
    <3>7. IsFiniteSet(own)
      BY FS_EmptySet, FS_Singleton
    <3>8. IsFiniteSet(own \cup {h[y] : y \in DOMAIN h})
      BY <3>6, <3>7, FS_Union
    <3>9. Instantiated(u) \subseteq own \cup {h[y] : y \in DOMAIN h}
      BY DEF Instantiated, t
    <3> QED
      BY <3>8, <3>9, FS_Subset
  <2> DEFINE f == [n \in Instantiated(u) |-> AddInstance(Inst(n[1], Substitute(n[2], arg), NoType))]
  <2>2. \A n \in DOMAIN f : IsFiniteSet(f[n])
    BY <1>2, <1>3, VisitSite, InstFields
  <2>3. IsFiniteSet(UNION {f[n] : n \in DOMAIN f})
    <3>1. IsFiniteSet(DOMAIN f)
      BY <2>1
    <3> HIDE DEF f
    <3> QED
      BY <2>2, <3>1, UnionFinite
  <2>4. VisitInstance(u, arg) = UNION {f[n] : n \in DOMAIN f}
    BY DEF VisitInstance
  <2> QED
    BY <2>3, <2>4
<1>4. ASSUME NEW u \in Code(o), u.k = "decl"
      PROVE  IsFiniteSet(VisitNestedType(u.o, arg))
  <2>1. PICK x \in Names : u \in Info(x).uses /\ x = o
    BY <1>4, CodeFacts
  <2>2. VisitNestedType(u.o, arg) = {Inst(u.o, NoType, arg)}
    BY <1>4, <2>1, VisitDecl DEF VisitNestedType
  <2> QED
    BY <2>2, FS_Singleton
<1> DEFINE f == [u \in Code(o) |-> IF u.k = "decl" THEN VisitNestedType(u.o, arg) ELSE VisitInstance(u, arg)]
<1>5. \A u \in DOMAIN f : IsFiniteSet(f[u])
  BY <1>3, <1>4
<1>6. DOMAIN f = Code(o)
  OBVIOUS
<1>7. Visit(o, arg) = UNION {f[u] : u \in DOMAIN f}
  BY DEF Visit
<1> HIDE DEF f
<1> QED
  BY <1>1, <1>5, <1>6, <1>7, UnionFinite

-----------------------------------------------------------------------------
(* What is collected.                                                      *)

(* The program stays the same.                                             *)
LEMMA SameVisit ==
    ASSUME prog' = prog
    PROVE  /\ \A o : Info(o)' = Info(o)
           /\ \A i : PkgOf(i)' = PkgOf(i) /\ Recv(i)' = Recv(i)
           /\ \A i : ScanInstance(i)' = ScanInstance(i)
           /\ \A o, arg : Visit(o, arg)' = Visit(o, arg)
           /\ \A S : Closed(S)' <=> Closed(S)
           /\ \A i, S : IsInst(i, S)' <=> IsInst(i, S)
           /\ \A C : Complete(C)' <=> Complete(C)
<1>1. \A o : Info(o)' = Info(o)
  BY DEF Info
<1>2. \A i : PkgOf(i)' = PkgOf(i) /\ Recv(i)' = Recv(i)
  BY <1>1 DEF PkgOf, Recv
<1>3. \A S : Closed(S)' <=> Closed(S)
  BY DEF Closed
<1>4. \A i, S : IsInst(i, S)' <=> IsInst(i, S)
  BY <1>1, <1>2 DEF IsInst, IsClosed, Names
<1>5. \A i : AddInstance(i)' = AddInstance(i)
  BY <1>1 DEF AddInstance
<1>6. \A u : Instantiated(u)' = Instantiated(u)
  BY <1>1 DEF Instantiated
<1>7. \A u, arg : VisitInstance(u, arg)' = VisitInstance(u, arg)
  BY <1>5, <1>6 DEF VisitInstance
<1>8. \A o, arg : VisitNestedType(o, arg)' = VisitNestedType(o, arg)
  BY <1>5 DEF VisitNestedType
<1>9. \A o : Code(o)' = Code(o)
  BY <1>1 DEF Code
<1>10. \A o, arg : Visit(o, arg)' = Visit(o, arg)
  BY <1>7, <1>8, <1>9 DEF Visit
<1>11. \A i : ScanInstance(i)' = ScanInstance(i)
  BY <1>10 DEF ScanInstance
<1>12. \A C : Complete(C)' <=> Complete(C)
  BY <1>1, <1>2 DEF Complete
<1> QED
  BY <1>1, <1>2, <1>3, <1>4, <1>10, <1>11, <1>12

LEMMA ObjectsIn ==
    ASSUME prog \in Programs, NEW S, Closed(S)
    PROVE  /\ \A o \in Objects(prog, S) : o \in Names /\ Info(o).pkg \in S
           /\ \A o \in Names : Info(o).pkg \in S => o \in Objects(prog, S)
           /\ IsFiniteSet(Objects(prog, S))
<1>1. S \subseteq AllPkgs
  BY DEF Closed
<1>2. \A o \in Objects(prog, S) : o \in Names /\ Info(o).pkg \in S
  BY <1>1, ProgramFacts DEF Objects
<1>3. \A o \in Names : Info(o).pkg \in S => o \in Objects(prog, S)
  <2> TAKE o \in Names
  <2> HAVE Info(o).pkg \in S
  <2>1. o \in ToSet(prog.order[Info(o).pkg])
    BY ObjectFacts
  <2> QED
    BY <2>1 DEF Objects
<1> DEFINE f == [p \in S |-> ToSet(prog.order[p])]
<1>4. \A p \in DOMAIN f : IsFiniteSet(f[p])
  BY <1>1, ProgramFacts, ToSetFinite
<1>5. IsFiniteSet(AllPkgs)
  BY CompileAssumption, ToSetFinite DEF AllPkgs
<1>6. IsFiniteSet(DOMAIN f)
  BY <1>1, <1>5, FS_Subset
<1>7. Objects(prog, S) = UNION {f[p] : p \in DOMAIN f}
  BY DEF Objects
<1> HIDE DEF f
<1>8. IsFiniteSet(Objects(prog, S))
  BY <1>4, <1>6, <1>7, UnionFinite
<1> QED
  BY <1>2, <1>3, <1>8

(* What is found in code without parameters.                               *)
LEMMA ScanFacts ==
    ASSUME prog \in Programs, NEW S, Closed(S)
    PROVE  /\ IsFiniteSet(Scan(S)) /\ Complete(Scan(S))
           /\ \A j \in Scan(S) : IsInst(j, S) /\ ~IsTrivial(j) /\ j.nest = NoType
<1> DEFINE P == {x \in Objects(prog, S) : ~Info(x).generic /\ Info(x).nest = None}
           f == [o \in P |-> Visit(o, NoType)]
<1>1. \A o \in P : VisitOK(o, NoType, S) /\ ~Info(o).generic
  BY ObjectsIn DEF VisitOK
<1>2. \A o \in DOMAIN f : IsFiniteSet(f[o])
  BY <1>1, VisitFinite
<1>3. IsFiniteSet(P)
  BY ObjectsIn, FS_Subset
<1>4. Scan(S) = UNION {f[o] : o \in DOMAIN f} /\ DOMAIN f = P
  BY DEF Scan
<1>5. IsFiniteSet(Scan(S))
  <2> HIDE DEF f, P
  <2> QED
    BY <1>2, <1>3, <1>4, UnionFinite
<1>6. ASSUME NEW j \in Scan(S)
      PROVE  /\ IsInst(j, S) /\ ~IsTrivial(j) /\ j.nest = NoType
             /\ \A t \in NamedIn(Arg(j)) : Info(Outer(t)).generic =>
                   Inst(Outer(t), ArgOf(t), NoType) \in Scan(S)
             /\ Info(j.o).kind = "type" => \A m \in MethodsOf(prog, j.o) : [j EXCEPT !.o = m] \in Scan(S)
             /\ Info(j.o).kind = "method" => Recv(j) \in Scan(S)
  <2>1. PICK o \in P : j \in Visit(o, NoType)
    BY <1>6 DEF Scan
  <2>2. Visit(o, NoType) \subseteq Scan(S)
    BY <2>1 DEF Scan
  <2>3. VisitOK(o, NoType, S) /\ ~Info(o).generic
    BY <1>1, <2>1
  <2> QED
    BY <2>1, <2>2, <2>3, VisitSound
<1> QED
  BY <1>5, <1>6 DEF Complete

(* The instances of all sets after an Add.                                 *)
LEMMA AddAll ==
    ASSUME NEW sets, NEW found, IsFiniteSet(found),
           \A p \in DOMAIN sets : sets[p] \in Seq(ToSet(sets[p])),
           \A i \in found : PkgOf(i) \in DOMAIN sets
    PROVE  /\ DOMAIN Add(sets, found) = DOMAIN sets
           /\ \A p \in DOMAIN sets :
                 /\ Add(sets, found)[p] \in Seq(ToSet(Add(sets, found)[p]))
                 /\ \A i \in ToSet(Add(sets, found)[p]) :
                       i \in ToSet(sets[p]) \/ (i \in found /\ PkgOf(i) = p)
                 /\ \A n \in DOMAIN sets[p] :
                       n \in DOMAIN Add(sets, found)[p] /\ Add(sets, found)[p][n] = sets[p][n]
           /\ UNION {ToSet(Add(sets, found)[p]) : p \in DOMAIN sets}
                = (UNION {ToSet(sets[p]) : p \in DOMAIN sets}) \cup found
<1> DEFINE a == Add(sets, found)
<1>1. DOMAIN a = DOMAIN sets
  BY DEF Add
<1> HIDE DEF a
<1>2. ASSUME NEW p \in DOMAIN sets
      PROVE  /\ a[p] \in Seq(ToSet(a[p]))
             /\ ToSet(a[p]) = ToSet(sets[p]) \cup {i \in found : PkgOf(i) = p}
             /\ \A n \in DOMAIN sets[p] : n \in DOMAIN a[p] /\ a[p][n] = sets[p][n]
  BY AddIs DEF a
<1>3. UNION {ToSet(a[p]) : p \in DOMAIN sets} = (UNION {ToSet(sets[p]) : p \in DOMAIN sets}) \cup found
  <2>1. ASSUME NEW p \in DOMAIN sets, NEW i \in ToSet(a[p])
        PROVE  i \in (UNION {ToSet(sets[q]) : q \in DOMAIN sets}) \cup found
    <3>1. i \in ToSet(sets[p]) \/ i \in found
      BY <1>2, <2>1
    <3> QED
      BY <3>1
  <2>2. ASSUME NEW p \in DOMAIN sets, NEW i \in ToSet(sets[p])
        PROVE  i \in UNION {ToSet(a[q]) : q \in DOMAIN sets}
    BY <1>2, <2>2
  <2>3. ASSUME NEW i \in found
        PROVE  i \in UNION {ToSet(a[q]) : q \in DOMAIN sets}
    <3>1. PkgOf(i) \in DOMAIN sets /\ i \in ToSet(a[PkgOf(i)])
      BY <1>2, <2>3
    <3> QED
      BY <3>1
  <2> DEFINE A == UNION {ToSet(a[q]) : q \in DOMAIN sets}
             B == UNION {ToSet(sets[q]) : q \in DOMAIN sets}
  <2>4. \A i \in A : i \in B \cup found
    BY <2>1
  <2>5. \A i \in B : i \in A
    BY <2>2
  <2> HIDE DEF A, B
  <2>6. A = B \cup found
    BY <2>3, <2>4, <2>5 DEF A
  <2> QED
    BY <2>6 DEF A, B
<1>4. \A p \in DOMAIN sets : \A i \in ToSet(a[p]) : i \in ToSet(sets[p]) \/ (i \in found /\ PkgOf(i) = p)
  BY <1>2
<1> QED
  BY <1>1, <1>2, <1>3, <1>4 DEF a

(* The same, one element at a time.                                        *)
LEMMA AddElements ==
    ASSUME NEW sets, NEW found, IsFiniteSet(found),
           \A p \in DOMAIN sets : sets[p] \in Seq(ToSet(sets[p])),
           \A i \in found : PkgOf(i) \in DOMAIN sets
    PROVE  /\ \A p \in DOMAIN sets : \A i \in ToSet(Add(sets, found)[p]) : i \in ToSet(sets[p]) \/ i \in found
           /\ \A p \in DOMAIN sets : \A i \in ToSet(sets[p]) : i \in ToSet(Add(sets, found)[p])
           /\ \A i \in found : i \in ToSet(Add(sets, found)[PkgOf(i)])
<1>1. \A p \in DOMAIN sets : ToSet(Add(sets, found)[p]) = ToSet(sets[p]) \cup {i \in found : PkgOf(i) = p}
  BY AddIs
<1> QED
  BY <1>1

LEMMA InstMonotonic ==
    ASSUME NEW S, NEW R, S \subseteq R, NEW i, IsInst(i, S)
    PROVE  IsInst(i, R)
BY DEF IsInst, IsClosed

(* The packages of a root are loaded with their imports.                   *)
LEMMA LinkedFacts ==
    ASSUME prog \in Programs, roots \in Seq(AllPkgs), roots # <<>>
    PROVE  Closed(Linked) /\ {Root, Runtime} \subseteq Linked
<1>1. Root \in AllPkgs /\ Runtime \in AllPkgs
  BY CompileAssumption, HeadTailProperties DEF Root, AllPkgs
<1> QED
  BY <1>1, ImportsClosed DEF Linked, ImportDependencies, AllPkgs

LEMMA LoadStep ==
    ASSUME CollectInv, LoadAndScan
    PROVE  CollectInv'
<1> USE DEF SessionTypeOK
<1>1. /\ prog \in Programs /\ roots \in Seq(AllPkgs) /\ roots # <<>> /\ Closed(sources)
      /\ prog' = prog /\ roots' = roots /\ sources' = sources \cup Linked
      /\ phase' = "collect" /\ todo' = {} /\ current' = None /\ archives' = archives
      /\ DOMAIN archives \subseteq sources
  BY DEF CollectInv, LoadAndScan, SourcesLinked, Linked
<1>2. Closed(Linked) /\ {Root, Runtime} \subseteq Linked
  BY <1>1, LinkedFacts
<1>3. Closed(sources') /\ sources' \subseteq AllPkgs
  BY <1>1, <1>2, UnionClosed DEF Closed
<1>4. instances' = Add([p \in sources' |-> <<>>], Scan(sources')) /\ unprocessed' = [p \in sources' |-> 1]
  <2>1. Scan(sources') = Scan(sources')
    OBVIOUS
  <2> QED
    BY DEF LoadAndScan
<1> DEFINE R == sources'
           F == Scan(R)
           E == [p \in R |-> <<>>]
<1>5. IsFiniteSet(F) /\ Complete(F) /\ \A j \in F : IsInst(j, R) /\ ~IsTrivial(j) /\ j.nest = NoType
  BY <1>1, <1>3, ScanFacts
<1>6. /\ DOMAIN E = R /\ \A p \in R : E[p] \in Seq(ToSet(E[p])) /\ ToSet(E[p]) = {}
  BY EmptySeq DEF ToSet
<1>7. \A j \in F : PkgOf(j) \in R
  BY <1>5 DEF IsInst
<1> HIDE DEF E, F
<1>8. /\ DOMAIN instances' = R
      /\ \A p \in R : /\ instances'[p] \in Seq(ToSet(instances'[p]))
                      /\ \A i \in ToSet(instances'[p]) : i \in F /\ PkgOf(i) = p
      /\ UNION {ToSet(instances'[p]) : p \in R} = F
  <2>1. instances' = Add(E, F)
    BY <1>4 DEF E, F
  <2>2. /\ DOMAIN Add(E, F) = R
        /\ \A p \in R :
              /\ Add(E, F)[p] \in Seq(ToSet(Add(E, F)[p]))
              /\ \A i \in ToSet(Add(E, F)[p]) : i \in ToSet(E[p]) \/ (i \in F /\ PkgOf(i) = p)
        /\ UNION {ToSet(Add(E, F)[p]) : p \in R} = (UNION {ToSet(E[p]) : p \in R}) \cup F
    BY <1>5, <1>6, <1>7, AddAll
  <2>3. UNION {ToSet(E[p]) : p \in R} = {}
    BY <1>6
  <2> QED
    BY <1>6, <2>1, <2>2, <2>3
<1>9. Collected' = F
  BY <1>8 DEF Collected
<1>10. Processed' = {}
  <2>1. ASSUME NEW p \in R, NEW n \in DOMAIN instances'[p], n < unprocessed'[p]
        PROVE  FALSE
    <3>1. n \in 1 .. Len(instances'[p])
      BY <1>8, <2>1, SeqFacts
    <3>2. unprocessed'[p] = 1
      BY <1>4
    <3> QED
      BY <2>1, <3>1, <3>2
  <2> QED
    BY <2>1 DEF Processed, Visited
<1>11. SessionTypeOK'
  <2>1. DOMAIN unprocessed' = R /\ \A p \in R : unprocessed'[p] \in 1 .. Len(instances'[p]) + 1
    <3>1. \A p \in R : Len(instances'[p]) \in Nat
      BY <1>8, SeqFacts
    <3> QED
      BY <1>4, <3>1
  <2>2. DOMAIN archives' \subseteq R
    BY <1>1
  <2> QED
    BY <1>1, <1>3, <1>8, <2>1, <2>2
<1>12. SourcesLinked'
  <2>1. Root' = Root
    BY <1>1 DEF Root
  <2>2. Closed(sources)'
    BY <1>1, <1>3 DEF Closed
  <2> QED
    BY <1>1, <1>2, <2>1, <2>2 DEF SourcesLinked
<1>13. OnlyInstances'
  <2>1. \A i : IsInst(i, sources)' <=> IsInst(i, sources')
    BY <1>1 DEF IsInst, IsClosed, Names, PkgOf, Info
  <2>2. \A i : PkgOf(i)' = PkgOf(i) /\ (IsTrivial(i)' <=> IsTrivial(i))
    BY <1>1 DEF PkgOf, Info, IsTrivial
  <2> QED
    BY <1>5, <1>8, <2>1, <2>2 DEF OnlyInstances
<1>14. CodeScanned'
  <2>1. Scan(sources)' = Scan(sources')
    <3>1. (\A o : Info(o)' = Info(o)) /\ (\A o, arg : Visit(o, arg)' = Visit(o, arg))
      BY <1>1, SameVisit
    <3> QED
      BY <1>1, <3>1 DEF Scan
  <2> QED
    BY <1>9, <2>1 DEF CodeScanned, F
<1>15. InstancesScanned'
  BY <1>10 DEF InstancesScanned
<1>16. NestedScanned'
  BY <1>5, <1>9 DEF NestedScanned
<1>17. Complete(Collected)'
  <2>1. \A C : Complete(C)' <=> Complete(C)
    BY <1>1, SameVisit
  <2>2. Complete(F)
    BY <1>5
  <2> QED
    BY <1>1, <1>9, <2>2, SameVisit DEF Complete
<1> QED
  BY <1>1, <1>11, <1>12, <1>13, <1>14, <1>15, <1>16, <1>17 DEF CollectInv

(* An instance is visited with its argument, unless it was with its        *)
(* function.                                                               *)
LEMMA InstanceVisit ==
    ASSUME prog \in Programs, NEW S, Closed(S), NEW i, IsInst(i, S), ~IsTrivial(i), i.nest = NoType
    PROVE  /\ VisitOK(i.o, i.args, S) /\ Info(i.o).generic /\ ScanInstance(i) = Visit(i.o, i.args)
           /\ Arg(i) = i.args /\ i = Inst(i.o, i.args, NoType)
<1>1. i.args # NoType
  BY DEF IsTrivial
<1>2. Info(i.o).generic /\ IsClosed(i.args, S) /\ i.o \in Names /\ Info(i.o).pkg \in S
  BY <1>1 DEF IsInst, PkgOf
<1>3. Info(i.o).nest = None
  <2>1. ~IsClosed(NoType, S)
    BY NoTypeFacts, ClosedIs
  <2> QED
    BY <2>1 DEF IsInst
<1>4. i = Inst(i.o, i.args, NoType)
  BY DEF IsInst
<1> QED
  BY <1>2, <1>3, <1>4 DEF VisitOK, ScanInstance, Arg

LEMMA PropagateStep ==
    ASSUME CollectInv, NEW p \in AllPkgs, Propagate(p)
    PROVE  CollectInv'
<1> USE DEF SessionTypeOK
<1>1. /\ prog \in Programs /\ roots \in Seq(AllPkgs) /\ roots # <<>> /\ Closed(sources)
      /\ sources \subseteq AllPkgs /\ {Root, Runtime} \subseteq sources
      /\ prog' = prog /\ roots' = roots /\ sources' = sources /\ archives' = archives
      /\ phase = "collect" /\ phase' = "collect" /\ p \in sources /\ ~Exhausted(p)
      /\ current' = p /\ todo' \subseteq sources /\ DOMAIN archives \subseteq sources
      /\ DOMAIN instances = sources /\ DOMAIN unprocessed = sources
      /\ \A q \in sources : instances[q] \in Seq(ToSet(instances[q])) /\ unprocessed[q] \in 1 .. Len(instances[q]) + 1
      /\ OnlyInstances /\ CodeScanned /\ InstancesScanned /\ NestedScanned /\ Complete(Collected)
  BY DEF CollectInv, Propagate, SourcesLinked
<1> DEFINE k == unprocessed[p]
           i == instances[p][k]
           F == ScanInstance(i)
<1>2. instances' = Add(instances, F) /\ unprocessed' = [unprocessed EXCEPT ![p] = @ + 1]
  BY DEF Propagate
<1>3. k \in DOMAIN instances[p] /\ k \in Nat
  <2>1. DOMAIN instances[p] = 1 .. Len(instances[p]) /\ Len(instances[p]) \in Nat /\ k \in 1 .. Len(instances[p]) + 1
    BY <1>1, SeqFacts
  <2>2. ~(k > Len(instances[p]))
    BY <1>1 DEF Exhausted
  <2> QED
    BY <2>1, <2>2
<1>4. i \in ToSet(instances[p]) /\ i \in Collected
  BY <1>1, <1>3 DEF ToSet, Collected
<1>5. IsInst(i, sources) /\ ~IsTrivial(i)
  BY <1>1, <1>4 DEF OnlyInstances
<1> HIDE DEF i
<1>6. /\ IsFiniteSet(F)
      /\ \A j \in F :
            /\ IsInst(j, sources) /\ ~IsTrivial(j)
            /\ \A t \in NamedIn(Arg(j)) : Info(Outer(t)).generic =>
                  Inst(Outer(t), ArgOf(t), NoType) \in F \cup Collected
            /\ Info(j.o).kind = "type" => \A m \in MethodsOf(prog, j.o) : [j EXCEPT !.o = m] \in F
            /\ Info(j.o).kind = "method" => Recv(j) \in F
            /\ j.nest # NoType => /\ Inst(Info(j.o).nest, j.nest, NoType) = i
                                  /\ \E u \in Info(Info(j.o).nest).uses : u.k = "decl" /\ u.o = j.o
  <2>1. CASE i.nest # NoType
    <3>1. F = {}
      BY <2>1 DEF ScanInstance
    <3> QED
      BY <3>1, FS_EmptySet
  <2>2. CASE i.nest = NoType
    <3>1. /\ VisitOK(i.o, i.args, sources) /\ F = Visit(i.o, i.args) /\ Arg(i) = i.args
          /\ i = Inst(i.o, i.args, NoType)
      BY <1>1, <1>5, <2>2, InstanceVisit
    <3>2. IsFiniteSet(F)
      BY <1>1, <3>1, VisitFinite
    <3>3. \A t \in NamedIn(i.args) :
             Info(Outer(t)).generic => Inst(Outer(t), ArgOf(t), NoType) \in Collected
      BY <1>1, <1>4, <3>1 DEF Complete
    <3> HIDE DEF F
    <3>4. ASSUME NEW j \in F
          PROVE  /\ IsInst(j, sources) /\ ~IsTrivial(j)
                 /\ \A t \in NamedIn(Arg(j)) : Info(Outer(t)).generic =>
                      Inst(Outer(t), ArgOf(t), NoType) \in F \cup Collected
                 /\ Info(j.o).kind = "type" => \A m \in MethodsOf(prog, j.o) : [j EXCEPT !.o = m] \in F
                 /\ Info(j.o).kind = "method" => Recv(j) \in F
                 /\ j.nest # NoType => /\ Inst(Info(j.o).nest, j.nest, NoType) = i
                                       /\ \E u \in Info(Info(j.o).nest).uses : u.k = "decl" /\ u.o = j.o
      <4>1. /\ IsInst(j, sources) /\ ~IsTrivial(j)
            /\ \A t \in NamedIn(Arg(j)) : Info(Outer(t)).generic =>
                  \/ Inst(Outer(t), ArgOf(t), NoType) \in F
                  \/ Info(i.o).generic /\ t \in NamedIn(i.args)
            /\ Info(j.o).kind = "type" => \A m \in MethodsOf(prog, j.o) : [j EXCEPT !.o = m] \in F
            /\ Info(j.o).kind = "method" => Recv(j) \in F
            /\ j.nest # NoType => /\ j.nest = i.args /\ Info(j.o).nest = i.o
                                  /\ \E u \in Info(i.o).uses : u.k = "decl" /\ u.o = j.o
        <5>1. j \in Visit(i.o, i.args) /\ VisitOK(i.o, i.args, sources)
          BY <3>1, <3>4
        <5>2. Closed(sources) /\ prog \in Programs
          BY <1>1
        <5>3. /\ IsInst(j, sources) /\ ~IsTrivial(j)
              /\ \A t \in NamedIn(Arg(j)) : Info(Outer(t)).generic =>
                    \/ Inst(Outer(t), ArgOf(t), NoType) \in Visit(i.o, i.args)
                    \/ Info(i.o).generic /\ t \in NamedIn(i.args)
              /\ Info(j.o).kind = "type" =>
                    \A m \in MethodsOf(prog, j.o) : [j EXCEPT !.o = m] \in Visit(i.o, i.args)
              /\ Info(j.o).kind = "method" => Recv(j) \in Visit(i.o, i.args)
              /\ j.nest # NoType => /\ j.nest = i.args /\ Info(j.o).nest = i.o
                                    /\ \E u \in Info(i.o).uses : u.k = "decl" /\ u.o = j.o
          BY <5>1, <5>2, VisitSound
        <5> QED
          BY <3>1, <5>3
      <4> QED
        BY <3>1, <3>3, <4>1
    <3> QED
      BY <3>2, <3>4
  <2> QED
    BY <2>1, <2>2
<1>7. \A j \in F : PkgOf(j) \in sources
  BY <1>6 DEF IsInst
<1> HIDE DEF F
<1>8. /\ DOMAIN instances' = sources
      /\ \A q \in sources :
            /\ instances'[q] \in Seq(ToSet(instances'[q]))
            /\ \A j \in ToSet(instances'[q]) : j \in ToSet(instances[q]) \/ (j \in F /\ PkgOf(j) = q)
            /\ \A n \in DOMAIN instances[q] :
                  n \in DOMAIN instances'[q] /\ instances'[q][n] = instances[q][n]
      /\ Collected' = Collected \cup F
  <2>1. /\ DOMAIN Add(instances, F) = sources
        /\ \A q \in sources :
              /\ Add(instances, F)[q] \in Seq(ToSet(Add(instances, F)[q]))
              /\ \A j \in ToSet(Add(instances, F)[q]) :
                    j \in ToSet(instances[q]) \/ (j \in F /\ PkgOf(j) = q)
              /\ \A n \in DOMAIN instances[q] :
                    n \in DOMAIN Add(instances, F)[q] /\ Add(instances, F)[q][n] = instances[q][n]
        /\ UNION {ToSet(Add(instances, F)[q]) : q \in sources}
             = (UNION {ToSet(instances[q]) : q \in sources}) \cup F
    <3>1. \A q \in DOMAIN instances : instances[q] \in Seq(ToSet(instances[q]))
      BY <1>1
    <3>2. IsFiniteSet(F) /\ \A j \in F : PkgOf(j) \in DOMAIN instances
      BY <1>1, <1>6, <1>7
    <3>3. sources = DOMAIN instances
      BY <1>1
    <3> QED
      <4> DEFINE I == instances
                 A == Add(I, F)
      <4>1. /\ IsFiniteSet(F) /\ \A j \in F : PkgOf(j) \in DOMAIN I
            /\ \A q \in DOMAIN I : I[q] \in Seq(ToSet(I[q]))
            /\ DOMAIN I = sources
        BY <3>1, <3>2, <3>3
      <4> HIDE DEF I
      <4>2. /\ DOMAIN A = DOMAIN I
            /\ \A q \in DOMAIN I :
                  /\ A[q] \in Seq(ToSet(A[q]))
                  /\ \A j \in ToSet(A[q]) : j \in ToSet(I[q]) \/ (j \in F /\ PkgOf(j) = q)
                  /\ \A n \in DOMAIN I[q] : n \in DOMAIN A[q] /\ A[q][n] = I[q][n]
            /\ UNION {ToSet(A[q]) : q \in DOMAIN I} = (UNION {ToSet(I[q]) : q \in DOMAIN I}) \cup F
        <5>1. DOMAIN A = DOMAIN I
          BY <4>1, AddAll
        <5>2. UNION {ToSet(A[q]) : q \in DOMAIN I} = (UNION {ToSet(I[q]) : q \in DOMAIN I}) \cup F
          <6> DEFINE X == UNION {ToSet(A[q]) : q \in DOMAIN I}
                     Y == UNION {ToSet(I[q]) : q \in DOMAIN I}
          <6>1. /\ \A q \in DOMAIN I : \A j \in ToSet(A[q]) : j \in ToSet(I[q]) \/ j \in F
                /\ \A q \in DOMAIN I : \A j \in ToSet(I[q]) : j \in ToSet(A[q])
                /\ \A j \in F : PkgOf(j) \in DOMAIN I /\ j \in ToSet(A[PkgOf(j)])
            BY <4>1, AddElements
          <6> HIDE DEF A
          <6>2. \A j \in X : j \in Y \cup F
            BY <6>1
          <6>3. \A j \in Y \cup F : j \in X
            BY <6>1
          <6> HIDE DEF X, Y
          <6>4. X = Y \cup F
            BY <6>2, <6>3
          <6> QED
            BY <6>4 DEF X, Y
        <5>3. ASSUME NEW q \in DOMAIN I
              PROVE  A[q] \in Seq(ToSet(A[q]))
          BY <4>1, AddAll
        <5>4. ASSUME NEW q \in DOMAIN I, NEW j \in ToSet(A[q])
              PROVE  j \in ToSet(I[q]) \/ (j \in F /\ PkgOf(j) = q)
          BY <4>1, AddAll
        <5>5. ASSUME NEW q \in DOMAIN I, NEW n \in DOMAIN I[q]
              PROVE  n \in DOMAIN A[q] /\ A[q][n] = I[q][n]
          BY <4>1, AddAll
        <5> HIDE DEF A
        <5> QED
          BY <5>1, <5>2, <5>3, <5>4, <5>5
      <4> HIDE DEF A
      <4>3. /\ UNION {ToSet(A[q]) : q \in DOMAIN I} = UNION {ToSet(A[q]) : q \in sources}
            /\ UNION {ToSet(I[q]) : q \in DOMAIN I} = UNION {ToSet(I[q]) : q \in sources}
        BY <4>1
      <4>4. UNION {ToSet(A[q]) : q \in sources} = (UNION {ToSet(I[q]) : q \in sources}) \cup F
        BY <4>2, <4>3
      <4>5. /\ DOMAIN A = sources
            /\ \A q \in sources :
                  /\ A[q] \in Seq(ToSet(A[q]))
                  /\ \A j \in ToSet(A[q]) : j \in ToSet(I[q]) \/ (j \in F /\ PkgOf(j) = q)
                  /\ \A n \in DOMAIN I[q] : n \in DOMAIN A[q] /\ A[q][n] = I[q][n]
        BY <4>1, <4>2
      <4> QED
        BY <4>4, <4>5 DEF A, I
  <2>2. Collected' = UNION {ToSet(Add(instances, F)[q]) : q \in sources}
    BY <1>1, <1>2 DEF Collected
  <2> QED
    BY <1>2, <2>1, <2>2 DEF Collected
<1>9. Processed' = Processed \cup {i}
  <2>1. ASSUME NEW q \in sources
        PROVE  /\ Len(instances[q]) \in Nat /\ Len(instances'[q]) \in Nat
               /\ Len(instances[q]) <= Len(instances'[q])
               /\ DOMAIN instances[q] = 1 .. Len(instances[q])
               /\ DOMAIN instances'[q] = 1 .. Len(instances'[q])
               /\ unprocessed[q] \in 1 .. Len(instances[q]) + 1
               /\ unprocessed'[q] = IF q = p THEN k + 1 ELSE unprocessed[q]
    <3>1. /\ DOMAIN instances'[q] = 1 .. Len(instances'[q]) /\ Len(instances'[q]) \in Nat
          /\ DOMAIN instances[q] = 1 .. Len(instances[q]) /\ Len(instances[q]) \in Nat
          /\ unprocessed[q] \in 1 .. Len(instances[q]) + 1
      BY <1>1, <1>8, <2>1, SeqFacts
    <3>2. \A n \in DOMAIN instances[q] : n \in DOMAIN instances'[q]
      BY <1>8, <2>1
    <3>3. Len(instances[q]) <= Len(instances'[q])
      BY <3>1, <3>2
    <3>4. unprocessed'[q] = IF q = p THEN k + 1 ELSE unprocessed[q]
      BY <1>1, <1>2, <2>1
    <3> QED
      BY <3>1, <3>3, <3>4
  <2>2. ASSUME NEW q \in sources
        PROVE  Visited(q)' = Visited(q) \cup (IF q = p THEN {k} ELSE {})
    <3>1. Visited(q)' = {n \in 1 .. Len(instances'[q]) : n < unprocessed'[q]}
      BY <2>1, <2>2 DEF Visited
    <3>2. Visited(q) = {n \in 1 .. Len(instances[q]) : n < unprocessed[q]}
      BY <2>1, <2>2 DEF Visited
    <3>3. k \in 1 .. Len(instances[p])
      BY <1>1, <1>3, <2>1
    <3>4. CASE q = p
      BY <2>1, <3>1, <3>2, <3>3, <3>4
    <3>5. CASE q # p
      BY <2>1, <2>2, <3>1, <3>2, <3>5
    <3> QED
      BY <3>4, <3>5
  <2>3. ASSUME NEW q \in sources, NEW n \in Visited(q)
        PROVE  instances'[q][n] = instances[q][n]
    BY <1>8, <2>3 DEF Visited
  <2>4. i = instances'[p][k]
    BY <1>1, <1>3, <1>8 DEF i
  <2>5. ASSUME NEW j \in Processed'
        PROVE  j \in Processed \cup {i}
    <3>1. PICK q \in sources : \E n \in Visited(q)' : j = instances'[q][n]
      BY <1>1, <2>5 DEF Processed
    <3>2. PICK n \in Visited(q) \cup (IF q = p THEN {k} ELSE {}) : j = instances'[q][n]
      BY <2>2, <3>1
    <3> QED
      BY <2>3, <2>4, <3>1, <3>2 DEF Processed
  <2>6. ASSUME NEW j \in Processed
        PROVE  j \in Processed'
    <3>1. PICK q \in sources : \E n \in Visited(q) : j = instances[q][n]
      BY <2>6 DEF Processed
    <3>2. PICK n \in Visited(q) : j = instances'[q][n]
      BY <2>3, <3>1
    <3>3. n \in Visited(q)'
      BY <2>2, <3>1, <3>2
    <3>4. q \in sources'
      BY <1>1, <3>1
    <3> QED
      BY <3>2, <3>3, <3>4 DEF Processed
  <2>7. i \in Processed'
    <3>1. k \in Visited(p)'
      BY <1>1, <2>2
    <3>2. p \in sources'
      BY <1>1
    <3> QED
      BY <2>4, <3>1, <3>2 DEF Processed
  <2> QED
    BY <2>5, <2>6, <2>7
<1>10. SessionTypeOK'
  <2>1. ASSUME NEW q \in sources
        PROVE  unprocessed'[q] \in 1 .. Len(instances'[q]) + 1
    <3>1. /\ Len(instances[q]) \in Nat /\ Len(instances'[q]) \in Nat
          /\ Len(instances[q]) <= Len(instances'[q])
      <4>1. /\ DOMAIN instances'[q] = 1 .. Len(instances'[q]) /\ Len(instances'[q]) \in Nat
            /\ DOMAIN instances[q] = 1 .. Len(instances[q]) /\ Len(instances[q]) \in Nat
        BY <1>1, <1>8, <2>1, SeqFacts
      <4>2. \A n \in DOMAIN instances[q] : n \in DOMAIN instances'[q]
        BY <1>8, <2>1
      <4> QED
        BY <4>1, <4>2
    <3>2. unprocessed[q] \in 1 .. Len(instances[q]) + 1
      BY <1>1, <2>1
    <3>3. k \in 1 .. Len(instances[p])
      BY <1>1, <1>3, SeqFacts
    <3>4. CASE q = p
      <4>1. unprocessed'[q] = k + 1
        BY <1>1, <1>2, <3>4
      <4> QED
        BY <3>1, <3>3, <3>4, <4>1
    <3>5. CASE q # p
      <4>1. unprocessed'[q] = unprocessed[q]
        BY <1>1, <1>2, <2>1, <3>5
      <4> QED
        BY <3>1, <3>2, <4>1
    <3> QED
      BY <3>4, <3>5
  <2>2. DOMAIN unprocessed' = sources
    BY <1>1, <1>2
  <2> QED
    BY <1>1, <1>8, <2>1, <2>2
<1>11. SourcesLinked'
  <2>1. Root' = Root
    BY <1>1 DEF Root
  <2>2. Closed(sources)'
    BY <1>1 DEF Closed
  <2> QED
    BY <1>1, <2>1, <2>2 DEF SourcesLinked
<1>12. OnlyInstances'
  <2>1. \A j : IsInst(j, sources)' <=> IsInst(j, sources)
    BY <1>1 DEF IsInst, IsClosed, Names, PkgOf, Info
  <2>2. \A j : PkgOf(j)' = PkgOf(j) /\ (IsTrivial(j)' <=> IsTrivial(j))
    BY <1>1 DEF PkgOf, Info, IsTrivial
  <2>3. ASSUME NEW q \in sources, NEW j \in ToSet(instances'[q])
        PROVE  IsInst(j, sources) /\ PkgOf(j) = q /\ ~IsTrivial(j)
    BY <1>1, <1>6, <1>8, <2>3 DEF OnlyInstances
  <2> QED
    BY <1>1, <2>1, <2>2, <2>3 DEF OnlyInstances
<1>13. CodeScanned'
  <2>1. Scan(sources)' = Scan(sources)
    <3>1. (\A o : Info(o)' = Info(o)) /\ (\A o, arg : Visit(o, arg)' = Visit(o, arg))
      BY <1>1, SameVisit
    <3> QED
      BY <1>1, <3>1 DEF Scan
  <2> QED
    BY <1>1, <1>8, <2>1 DEF CodeScanned
<1>14. InstancesScanned'
  <2>1. \A j : ScanInstance(j)' = ScanInstance(j)
    BY <1>1, SameVisit
  <2>2. \A j \in Processed : ScanInstance(j) \subseteq Collected
    BY <1>1 DEF InstancesScanned
  <2>3. ScanInstance(i) = F
    BY DEF F
  <2>4. \A j \in Processed' : ScanInstance(j) \subseteq Collected'
    BY <1>8, <1>9, <2>2, <2>3
  <2> QED
    BY <2>1, <2>4 DEF InstancesScanned
<1>15. NestedScanned'
  <2>2. \A j \in Collected \cup F : j.nest # NoType =>
          /\ Inst(Info(j.o).nest, j.nest, NoType) \in Processed \cup {i}
          /\ \E u \in Info(Info(j.o).nest).uses : u.k = "decl" /\ u.o = j.o
    BY <1>1, <1>6 DEF NestedScanned
  <2>3. \A j \in Collected' : j.nest # NoType =>
          /\ Inst(Info(j.o).nest, j.nest, NoType) \in Processed'
          /\ \E u \in Info(Info(j.o).nest).uses : u.k = "decl" /\ u.o = j.o
    BY <1>8, <1>9, <2>2
  <2> QED
    BY <1>1, <2>3 DEF NestedScanned, Info
<1>16. Complete(Collected)'
  <2>1. Complete(Collected \cup F)
    BY <1>1, <1>6 DEF Complete
  <2> QED
    BY <1>1, <1>8, <2>1, SameVisit DEF Complete
<1> QED
  BY <1>1, <1>10, <1>11, <1>12, <1>13, <1>14, <1>15, <1>16 DEF CollectInv

(* A step that collects nothing.                                           *)
LEMMA CollectKept ==
    ASSUME CollectInv, SessionTypeOK', UNCHANGED <<prog, sources, instances, unprocessed>>,
           phase' # "load" => phase # "load" /\ roots' = roots,
           phase' \notin {"load", "collect"} => \A p \in sources : Exhausted(p)
    PROVE  CollectInv'
<1>1. prog' = prog /\ sources' = sources /\ instances' = instances /\ unprocessed' = unprocessed
  OBVIOUS
<1>2. SourcesLinked'
  <2>1. Closed(sources)'
    BY <1>1, SameVisit DEF CollectInv, SourcesLinked
  <2>2. phase' # "load" => roots' # <<>> /\ {Root', Runtime} \subseteq sources'
    BY <1>1 DEF CollectInv, SourcesLinked, Root
  <2> QED
    BY <2>1, <2>2 DEF SourcesLinked
<1>3. Collected' = Collected
  BY <1>1 DEF Collected
<1>4. Processed' = Processed
  BY <1>1 DEF Processed, Visited
<1>5. (\A i : IsTrivial(i)' <=> IsTrivial(i)) /\ (\A p : Exhausted(p)' <=> Exhausted(p))
  BY <1>1 DEF IsTrivial, Exhausted
<1>6. ASSUME phase' # "load"
      PROVE  OnlyInstances' /\ CodeScanned' /\ InstancesScanned' /\ NestedScanned' /\ Complete(Collected)'
  <2>1. OnlyInstances /\ CodeScanned /\ InstancesScanned /\ NestedScanned /\ Complete(Collected)
    BY <1>6 DEF CollectInv
  <2>2. OnlyInstances'
    BY <1>1, <1>5, <2>1, SameVisit DEF OnlyInstances
  <2>3. Scan(sources)' = Scan(sources)
    BY <1>1, SameVisit DEF Scan
  <2>4. CodeScanned'
    BY <1>3, <2>1, <2>3 DEF CodeScanned
  <2>5. InstancesScanned'
    BY <1>1, <1>3, <1>4, <2>1, SameVisit DEF InstancesScanned
  <2>6. NestedScanned'
    BY <1>1, <1>3, <1>4, <2>1 DEF NestedScanned, Info
  <2>7. Complete(Collected)'
    BY <1>1, <1>3, <2>1, SameVisit DEF Complete
  <2> QED
    BY <2>2, <2>4, <2>5, <2>6, <2>7
<1>7. phase' \notin {"load", "collect"} => \A p \in sources' : Exhausted(p)'
  BY <1>1, <1>5
<1> QED
  BY <1>2, <1>6, <1>7 DEF CollectInv

(* A session has the type of its state, and what it collects is closed.    *)
LEMMA CollectInit ==
    ASSUME Init
    PROVE  CollectInv
<1>1. /\ prog \in Programs /\ roots \in Roots /\ sources = {} /\ phase = "load" /\ todo = {}
      /\ instances = <<>> /\ unprocessed = <<>> /\ current = None /\ archives = <<>>
  BY DEF Init
<1>2. SessionTypeOK
  BY <1>1, CompileAssumption DEF SessionTypeOK, AllPkgs
<1>3. SourcesLinked
  BY <1>1 DEF SourcesLinked, Closed
<1> QED
  BY <1>1, <1>2, <1>3 DEF CollectInv

LEMMA CollectStep ==
    ASSUME CollectInv, [Next]_vars
    PROVE  CollectInv'
<1>1. CASE LoadAndScan
  BY <1>1, LoadStep
<1>2. ASSUME NEW p \in ToSet(Pkgs), Propagate(p)
      PROVE  CollectInv'
  BY <1>2, PropagateStep DEF AllPkgs
<1>3. SessionTypeOK /\ prog \in Programs /\ sources \subseteq AllPkgs /\ todo \subseteq sources
  BY DEF CollectInv, SessionTypeOK
<1>4. todo # {} => First(todo) \in todo
  BY <1>3, FirstIn
<1>5. CASE AnalyzeAll
  <2>1. /\ UNCHANGED <<prog, roots, sources, instances, unprocessed, current, archives>>
        /\ phase = "collect" /\ todo' = sources /\ phase' \in {"propagate", "panic"}
        /\ \A p \in sources : Exhausted(p)
    BY <1>5 DEF AnalyzeAll
  <2>2. SessionTypeOK'
    BY <1>3, <2>1 DEF SessionTypeOK
  <2> QED
    BY <2>1, <2>2, CollectKept
<1>6. CASE PropagateAnalysis
  <2>1. /\ UNCHANGED <<prog, roots, sources, instances, unprocessed, current, archives>>
        /\ phase \in {"propagate", "again"} /\ todo' \subseteq sources
        /\ phase' \in {"propagate", "again", "compile"}
    BY <1>3, <1>6 DEF PropagateAnalysis
  <2>2. SessionTypeOK'
    BY <1>3, <2>1 DEF SessionTypeOK
  <2>3. \A p \in sources : Exhausted(p)
    BY <2>1 DEF CollectInv
  <2> QED
    BY <2>1, <2>2, <2>3, CollectKept
<1>7. CASE CompilePackage
  <2>1. /\ UNCHANGED <<prog, roots, sources, instances, unprocessed, current>>
        /\ phase = "compile" /\ todo' \subseteq sources /\ phase' \in {"compile", "panic"}
    BY <1>3, <1>7 DEF CompilePackage
  <2>2. DOMAIN archives' \subseteq sources
    BY <1>3, <1>4, <1>7 DEF CompilePackage, SessionTypeOK
  <2>3. SessionTypeOK'
    BY <1>3, <2>1, <2>2 DEF SessionTypeOK
  <2>4. \A p \in sources : Exhausted(p)
    BY <2>1 DEF CollectInv
  <2> QED
    BY <2>1, <2>3, <2>4, CollectKept
<1>8. CASE LinkPackages \/ WriteProgram \/ Run
  <2>1. /\ UNCHANGED <<prog, roots, sources, instances, unprocessed, current, todo, archives>>
        /\ phase \in {"compile", "select", "written"} /\ phase' \in {"select", "written"}
    BY <1>8 DEF LinkPackages, WriteProgram, Run
  <2>2. SessionTypeOK'
    BY <1>3, <2>1 DEF SessionTypeOK
  <2>3. \A p \in sources : Exhausted(p)
    BY <2>1 DEF CollectInv
  <2> QED
    BY <2>1, <2>2, <2>3, CollectKept
<1>9. CASE NextRoot
  <2>1. /\ UNCHANGED <<prog, sources, instances, unprocessed, current, todo, archives>>
        /\ phase = "written" /\ phase' = "load" /\ roots' = Tail(roots)
    BY <1>9 DEF NextRoot
  <2>2. roots \in Seq(AllPkgs) /\ roots # <<>>
    BY <1>3, <2>1 DEF CollectInv, SessionTypeOK, SourcesLinked
  <2>3. roots' \in Seq(AllPkgs)
    BY <2>1, <2>2, HeadTailProperties
  <2>4. SessionTypeOK'
    BY <1>3, <2>1, <2>3 DEF SessionTypeOK
  <2> QED
    BY <2>1, <2>4, CollectKept
<1>10. CASE UNCHANGED vars
  <2>1. /\ UNCHANGED <<prog, roots, sources, phase, instances, unprocessed, current, todo, archives>>
    BY <1>10 DEF vars
  <2>2. SessionTypeOK'
    BY <1>3, <2>1 DEF SessionTypeOK
  <2> QED
    BY <2>1, <2>2, CollectKept DEF CollectInv
<1> QED
  BY <1>1, <1>2, <1>5, <1>6, <1>7, <1>8, <1>9, <1>10 DEF Next

(* The state of a session has its type, and what its visitors have met is  *)
(* in the sets of instances, with what it is made of, its methods and the  *)
(* type it is a method of (Collector.Finish, InstanceSet.Add).             *)
THEOREM WhatIsCollected == Spec => []CollectInv
<1>1. Init => CollectInv
  BY CollectInit
<1>2. CollectInv /\ [Next]_vars => CollectInv'
  BY CollectStep
<1> QED
  BY <1>1, <1>2, PTL DEF Spec

-----------------------------------------------------------------------------
(* What the code of a known instance refers to is known.                   *)

(* The sets of instances are exhausted.                                    *)
AllCollected == CollectInv /\ phase # "load" /\ \A p \in sources : Exhausted(p)

LEMMA CollectedFacts ==
    ASSUME AllCollected
    PROVE  /\ prog \in Programs /\ Closed(sources) /\ sources \subseteq AllPkgs
           /\ roots \in Seq(AllPkgs) /\ roots # <<>> /\ {Root, Runtime} \subseteq sources
           /\ todo \subseteq sources /\ DOMAIN archives \subseteq sources
           /\ DOMAIN instances = sources
           /\ \A p \in sources : instances[p] \in Seq(ToSet(instances[p]))
           /\ \A p \in sources : \A i \in ToSet(instances[p]) :
                 IsInst(i, sources) /\ PkgOf(i) = p /\ ~IsTrivial(i)
           /\ Scan(sources) \subseteq Collected /\ Complete(Collected)
           /\ \A i \in Collected : /\ IsInst(i, sources) /\ ~IsTrivial(i)
                                   /\ i \in ToSet(instances[PkgOf(i)])
                                   /\ ScanInstance(i) \subseteq Collected
           /\ \A i \in Collected : i.nest # NoType =>
                 /\ Inst(Info(i.o).nest, i.nest, NoType) \in Collected
                 /\ \E u \in Info(Info(i.o).nest).uses : u.k = "decl" /\ u.o = i.o
<1>1. /\ SessionTypeOK /\ SourcesLinked /\ OnlyInstances /\ CodeScanned /\ InstancesScanned
      /\ NestedScanned /\ Complete(Collected) /\ phase # "load"
  BY DEF AllCollected, CollectInv
<1>2. /\ prog \in Programs /\ Closed(sources) /\ sources \subseteq AllPkgs
      /\ roots \in Seq(AllPkgs) /\ roots # <<>> /\ {Root, Runtime} \subseteq sources
      /\ todo \subseteq sources /\ DOMAIN archives \subseteq sources /\ DOMAIN instances = sources
      /\ \A p \in sources : /\ instances[p] \in Seq(ToSet(instances[p]))
                            /\ unprocessed[p] \in 1 .. Len(instances[p]) + 1
  BY <1>1 DEF SessionTypeOK, SourcesLinked
<1>3. \A p \in sources : \A i \in ToSet(instances[p]) : IsInst(i, sources) /\ PkgOf(i) = p /\ ~IsTrivial(i)
  BY <1>1 DEF OnlyInstances
<1>4. \A i \in Collected : IsInst(i, sources) /\ ~IsTrivial(i) /\ i \in ToSet(instances[PkgOf(i)])
  BY <1>3 DEF Collected
<1>5. ASSUME NEW i \in Collected
      PROVE  i \in Processed
  <2>1. PICK p \in sources : i \in ToSet(instances[p])
    BY <1>5 DEF Collected
  <2>2. PICK n \in DOMAIN instances[p] : i = instances[p][n]
    BY <2>1 DEF ToSet
  <2>3. DOMAIN instances[p] = 1 .. Len(instances[p]) /\ Len(instances[p]) \in Nat
    BY <1>2, <2>1, SeqFacts
  <2>4. unprocessed[p] > Len(instances[p]) /\ unprocessed[p] \in 1 .. Len(instances[p]) + 1
    BY <1>2, <2>1 DEF AllCollected, Exhausted
  <2>5. n \in Visited(p)
    BY <2>2, <2>3, <2>4 DEF Visited
  <2> QED
    BY <2>1, <2>2, <2>5 DEF Processed
<1>6. Processed \subseteq Collected
  BY DEF Processed, Collected, Visited, ToSet
<1>7. \A i \in Collected : ScanInstance(i) \subseteq Collected
  BY <1>1, <1>5 DEF InstancesScanned
<1>8. \A i \in Collected : i.nest # NoType =>
          /\ Inst(Info(i.o).nest, i.nest, NoType) \in Collected
          /\ \E u \in Info(Info(i.o).nest).uses : u.k = "decl" /\ u.o = i.o
  BY <1>1, <1>6 DEF NestedScanned
<1>9. Scan(sources) \subseteq Collected
  BY <1>1 DEF CodeScanned
<1> QED
  BY <1>1, <1>2, <1>3, <1>4, <1>7, <1>8, <1>9

(* Instances of what has no parameter, and of what has one.                *)
LEMMA InstIs ==
    ASSUME prog \in Programs, NEW S, NEW i, IsInst(i, S)
    PROVE  /\ i.o \in Names /\ Info(i.o).pkg \in S /\ i = Inst(i.o, i.args, i.nest)
           /\ IsTrivial(i) <=> ~HasT(i.o)
           /\ i.nest # NoType <=> Info(i.o).nest # None
           /\ i.args # NoType <=> Info(i.o).generic
           /\ HasT(i.o) => IsClosed(Arg(i), S)
           /\ ~HasT(i.o) => i = Plain(i.o) /\ Arg(i) = NoType
<1>1. /\ i.o \in Names /\ Info(i.o).pkg \in S /\ i = Inst(i.o, i.args, i.nest)
      /\ IF Info(i.o).generic THEN IsClosed(i.args, S) ELSE i.args = NoType
      /\ IF Info(i.o).nest # None THEN IsClosed(i.nest, S) ELSE i.nest = NoType
  BY DEF IsInst, PkgOf
<1>2. ~IsClosed(NoType, S)
  BY NoTypeFacts, ClosedIs
<1>3. Info(i.o).nest # None => ~Info(i.o).generic
  BY <1>1, ObjectFacts
<1> QED
  BY <1>1, <1>2, <1>3 DEF IsTrivial, HasT, Arg, Plain

LEMMA PlainKnown ==
    ASSUME NEW o \in Names, Info(o).pkg \in sources, ~HasT(o)
    PROVE  Known(Plain(o)) /\ Plain(o).o = o
<1>1. /\ Plain(o).o = o /\ Plain(o).args = NoType /\ Plain(o).nest = NoType
      /\ Plain(o) = Inst(o, NoType, NoType)
  BY DEF Plain, Inst
<1> QED
  BY <1>1 DEF Known, IsInst, PkgOf, HasT, IsTrivial

(* The code of a known instance was visited, for its argument.             *)
LEMMA KnownVisit ==
    ASSUME AllCollected, NEW i, Known(i)
    PROVE  \E o : /\ VisitOK(o, Arg(i), sources) /\ Info(i.o).uses \subseteq Code(o)
                  /\ Visit(o, Arg(i)) \subseteq Collected
                  /\ HasT(i.o) <=> Info(o).generic
                  /\ o = i.o \/ Info(i.o).kind = "type"
<1>1. /\ IsInst(i, sources) /\ prog \in Programs /\ Closed(sources)
      /\ i.o \in Names /\ Info(i.o).pkg \in sources
  BY CollectedFacts, InstIs DEF Known
<1>2. CASE IsTrivial(i)
  <2>1. ~HasT(i.o) /\ Arg(i) = NoType
    BY <1>1, <1>2, InstIs
  <2>2. VisitOK(i.o, NoType, sources)
    BY <1>1, <2>1 DEF VisitOK, HasT
  <2>3. i.o \in Objects(prog, sources)
    BY <1>1, ObjectsIn
  <2>4. Visit(i.o, NoType) \subseteq Scan(sources)
    BY <2>1, <2>3 DEF Scan, HasT
  <2>5. Visit(i.o, NoType) \subseteq Collected
    BY <2>4, CollectedFacts
  <2> QED
    BY <2>1, <2>2, <2>5 DEF Code, HasT
<1>3. CASE ~IsTrivial(i) /\ i.nest = NoType
  <2>1. i \in Collected
    BY <1>3 DEF Known
  <2>2. VisitOK(i.o, i.args, sources) /\ Info(i.o).generic /\ ScanInstance(i) = Visit(i.o, i.args) /\ Arg(i) = i.args
    BY <1>1, <1>3, InstanceVisit
  <2>3. Visit(i.o, Arg(i)) \subseteq Collected
    BY <2>1, <2>2, CollectedFacts
  <2> QED
    BY <2>2, <2>3 DEF Code, HasT
<1>4. CASE i.nest # NoType
  <2>1. ~IsTrivial(i) /\ i \in Collected /\ Arg(i) = i.nest
    BY <1>4 DEF Known, IsTrivial, Arg
  <2> DEFINE o == Info(i.o).nest
             j == Inst(o, i.nest, NoType)
  <2>2. j \in Collected /\ \E u \in Info(o).uses : u.k = "decl" /\ u.o = i.o
    BY <1>4, <2>1, CollectedFacts
  <2>3. Info(i.o).nest # None /\ HasT(i.o) /\ Info(i.o).kind = "type"
    <3>1. Info(i.o).nest # None
      BY <1>1, <1>4, InstIs
    <3> QED
      BY <1>1, <3>1, ObjectFacts DEF HasT
  <2>4. j.o = o /\ j.args = i.nest /\ j.nest = NoType
    BY InstFields
  <2> HIDE DEF j
  <2>5. IsInst(j, sources) /\ ~IsTrivial(j) /\ ScanInstance(j) \subseteq Collected
    BY <2>2, CollectedFacts
  <2>6. VisitOK(o, i.nest, sources) /\ Info(o).generic /\ ScanInstance(j) = Visit(o, i.nest)
    BY <1>1, <2>4, <2>5, InstanceVisit
  <2>7. Info(i.o).uses \subseteq Code(o)
    BY <2>2 DEF Code
  <2> QED
    BY <2>1, <2>3, <2>5, <2>6, <2>7
<1> QED
  BY <1>2, <1>3, <1>4

(* The first part of a type is the type.                                   *)
LEMMA TypeIsPart ==
    ASSUME NEW t, IsType(prog, t), IsNamed(t)
    PROVE  t \in NamedIn(t)
<1>1. t = Type(t.named, t.base) /\ t.named \in Seq(Names)
  BY TypeFields
<1>2. t.named # <<>>
  BY DEF IsNamed
<1>3. Len(t.named) \in Nat /\ Len(t.named) # 0 /\ DOMAIN t.named = 1 .. Len(t.named)
  BY <1>1, <1>2, SeqFacts, EmptySeq
<1>4. 1 \in DOMAIN t.named
  BY <1>3
<1>5. SubSeq(t.named, 1, Len(t.named)) = t.named
  BY <1>1, SubSeqFull
<1> QED
  BY <1>1, <1>4, <1>5 DEF NamedIn

(* What a named type is an instance of.                                    *)
LEMMA KnownType ==
    ASSUME AllCollected, NEW i, NEW t, IsClosed(t, sources), IsNamed(t),
           Info(Outer(t)).generic => Inst(Outer(t), ArgOf(t), NoType) \in Collected
    PROVE  /\ TypeInst(prog, t, i) = Inst(Outer(t), ArgOf(t), NoType)
           /\ Known(TypeInst(prog, t, i)) /\ Info(Outer(t)).kind = "type"
<1> DEFINE j == TypeInst(prog, t, i)
<1>1. IsType(prog, t) /\ In(t, sources)
  BY ClosedIs
<1>2. t \in NamedIn(t)
  BY <1>1, TypeIsPart
<1>3. /\ Outer(t) \in ToSet(t.named) /\ Outer(t) \in Names /\ Info(Outer(t)).kind = "type"
      /\ Info(Outer(t)).nest = None
      /\ ~Info(Outer(t)).generic => ArgOf(t) = NoType
  BY <1>1, <1>2, PartIsType
<1>4. j = Inst(Outer(t), ArgOf(t), NoType)
  BY <1>3 DEF TypeInst, Obj, Info
<1>5. Info(Outer(t)).pkg \in sources
  BY <1>1, <1>3 DEF In
<1>6. CASE Info(Outer(t)).generic
  BY <1>3, <1>4, <1>6, CollectedFacts DEF Known
<1>7. CASE ~Info(Outer(t)).generic
  <2>1. j = Plain(Outer(t))
    BY <1>3, <1>4, <1>7 DEF Plain
  <2> QED
    BY <1>3, <1>4, <1>5, <1>7, <2>1, PlainKnown DEF HasT
<1> QED
  BY <1>3, <1>4, <1>6, <1>7

(* A function that code calls or takes the value of, a method it calls on  *)
(* a value, a variable it uses.                                            *)
LEMMA KnownCallee ==
    ASSUME AllCollected, NEW i, Known(i), NEW u \in Info(i.o).uses,
           u.k \in {"call", "value", "method", "var"}
    PROVE  /\ Known(CalleeInst(u, i)) /\ CalleeInst(u, i).o = u.o
           /\ CalleeInst(u, i) = Inst(u.o, Substitute(u.a, Arg(i)), NoType)
           /\ u.k \in {"call", "value"} => Info(u.o).kind = "func"
           /\ u.k = "method" => Info(u.o).kind = "method"
           /\ u.k = "var" => Info(u.o).kind = "var"
<1> DEFINE c == CalleeInst(u, i)
           a == Substitute(u.a, Arg(i))
<1>1. /\ prog \in Programs /\ Closed(sources) /\ i.o \in Names /\ Info(i.o).pkg \in sources
      /\ IsInst(i, sources)
  BY CollectedFacts, InstIs DEF Known
<1>2. /\ u.k \in {"call", "value"} => u.o \in Names /\ Info(u.o).kind = "func"
      /\ u.k = "method" => u.o \in Names /\ Info(u.o).kind = "method"
      /\ u.k = "var" => u.o \in Names /\ Info(u.o).kind = "var" /\ u.a = NoType
      /\ u.k \in {"call", "value", "method"} => (~Info(u.o).generic => u.a = NoType)
      /\ u.o \in Names => Info(u.o).pkg \in sources
  BY <1>1, UseFacts
<1>3. u.o \in Names /\ Info(u.o).pkg \in sources /\ Info(u.o).kind \in {"func", "method", "var"}
  BY <1>2
<1>4. c = Inst(u.o, a, NoType) /\ c.o = u.o
  BY InstFields DEF CalleeInst
<1>5. Info(u.o).nest = None /\ (Info(u.o).kind = "var" => ~Info(u.o).generic)
  BY <1>1, <1>3, ObjectFacts
<1>6. CASE ~Info(u.o).generic
  <2>1. a = NoType
    BY <1>1, <1>2, <1>6, ProgramFacts, NoTypeFacts, SubstituteClosed
  <2>2. c = Plain(u.o)
    BY <1>4, <2>1 DEF Plain
  <2> QED
    BY <1>2, <1>3, <1>4, <1>5, <1>6, <2>2, PlainKnown DEF HasT
<1>7. CASE Info(u.o).generic
  <2>1. PICK o : /\ VisitOK(o, Arg(i), sources) /\ Info(i.o).uses \subseteq Code(o)
                 /\ Visit(o, Arg(i)) \subseteq Collected
    BY KnownVisit
  <2>2. u \in Code(o) /\ u.k # "decl"
    BY <2>1
  <2>3. CASE u.k \in {"call", "value"}
    <3>1. <<u.o, u.a>> \in Instantiated(u)
      BY <1>7, <2>3 DEF Instantiated
    <3> DEFINE n == <<u.o, u.a>>
    <3>2. n[1] = u.o /\ n[2] = u.a
      OBVIOUS
    <3> HIDE DEF n
    <3>3. Inst(n[1], Substitute(n[2], Arg(i)), NoType) \in Visit(o, Arg(i))
      BY <1>1, <2>1, <2>2, <3>1, VisitSite DEF n
    <3>4. c \in Collected
      BY <1>4, <2>1, <3>2, <3>3
    <3>5. Known(c)
      BY <3>4, CollectedFacts DEF Known
    <3> QED
      BY <1>2, <1>4, <2>3, <3>5
  <2>4. CASE u.k = "method"
    <3> DEFINE L == Literal(prog, u)
               n == <<Info(u.o).recv, u.a>>
    <3>1. IsType(prog, L) /\ IsNamed(L) /\ Outer(L) = Info(u.o).recv /\ ArgOf(L) = u.a
      BY <1>1, <2>4, LiteralFacts
    <3>2. L \in NamedIn(L)
      BY <3>1, TypeIsPart
    <3>3. /\ Info(u.o).recv \in Names /\ Info(Info(u.o).recv).kind = "type"
          /\ Info(Info(u.o).recv).pkg = Info(u.o).pkg /\ Info(Info(u.o).recv).generic
      BY <1>1, <1>2, <1>7, <2>4, ObjectFacts
    <3>4. n \in Instantiated(u)
      <4> HIDE DEF L
      <4>1. \E t \in NamedIn(L) : n = <<Outer(t), ArgOf(t)>>
        BY <3>1, <3>2
      <4>2. Info(n[1]).generic
        BY <3>3
      <4> QED
        BY <4>1, <4>2 DEF Instantiated, L
    <3>5. n[1] = Info(u.o).recv /\ n[2] = u.a
      OBVIOUS
    <3> HIDE DEF n
    <3>6. \A m \in MethodsOf(prog, n[1]) : Inst(m, Substitute(n[2], Arg(i)), NoType) \in Visit(o, Arg(i))
      BY <1>1, <2>1, <2>2, <3>3, <3>4, <3>5, VisitSite
    <3>7. u.o \in MethodsOf(prog, Info(u.o).recv)
      <4>1. u.o \in ToSet(prog.order[Info(u.o).pkg])
        BY <1>1, <1>3, ObjectFacts
      <4> QED
        BY <3>3, <4>1 DEF MethodsOf, Obj, Info
    <3>8. c \in Collected
      BY <1>4, <2>1, <3>5, <3>6, <3>7
    <3>9. Known(c)
      BY <3>8, CollectedFacts DEF Known
    <3> QED
      BY <1>2, <1>4, <2>4, <3>9
  <2> QED
    BY <1>2, <1>5, <1>7, <2>3, <2>4
<1> QED
  BY <1>6, <1>7

(* A type that code makes a value of, or has the method of called.         *)
LEMMA KnownMade ==
    ASSUME AllCollected, NEW i, Known(i), NEW j \in Makes(prog, i)
    PROVE  Known(j) /\ Info(j.o).kind = "type"
<1>1. PICK u \in Info(i.o).uses : /\ u.k \in {"type", "method"} /\ IsNamed(LiteralType(prog, u, i))
                                  /\ j = TypeInst(prog, LiteralType(prog, u, i), i)
  BY DEF Makes, UsesOf, Uses, Obj, Info
<1> DEFINE L == Literal(prog, u)
           t == LiteralType(prog, u, i)
<1>2. /\ prog \in Programs /\ Closed(sources) /\ i.o \in Names /\ Info(i.o).pkg \in sources
      /\ IsInst(i, sources) /\ T # None
  BY CollectedFacts, InstIs, ProgramFacts DEF Known
<1>3. t = Substitute(L, Arg(i)) /\ IsNamed(t)
  BY <1>1 DEF LiteralType
<1>4. PICK o : /\ VisitOK(o, Arg(i), sources) /\ Info(i.o).uses \subseteq Code(o)
               /\ Visit(o, Arg(i)) \subseteq Collected
               /\ HasT(i.o) <=> Info(o).generic
               /\ o = i.o \/ Info(i.o).kind = "type"
  BY KnownVisit
<1>5. /\ In(L, sources)
      /\ \/ L = NoType
         \/ IsType(prog, L) /\ (IsGeneric(L) => HasT(i.o))
         \/ \E d \in Info(i.o).uses : d.k = "decl" /\ L = Type(<<d.o>>, None)
  BY <1>2, LiteralFacts
<1>6. CASE L = NoType
  <2>1. t = NoType
    BY <1>2, <1>3, <1>6, NoTypeFacts, SubstituteClosed
  <2> QED
    BY <1>3, <2>1, NoTypeFacts
<1>7. CASE IsType(prog, L) /\ (IsGeneric(L) => HasT(i.o))
  <2>1. HasT(i.o) => IsClosed(Arg(i), sources)
    BY <1>2, InstIs
  <2>2. IsClosed(t, sources)
    BY <1>2, <1>3, <1>5, <1>7, <2>1, SubstituteIsType
  <2>3. IsType(prog, t)
    BY <2>2, ClosedIs
  <2>4. t \in NamedIn(t)
    BY <1>3, <2>3, TypeIsPart
  <2>5. IsGeneric(L) => IsType(prog, Arg(i))
    BY <1>7, <2>1, ClosedIs
  <2> HIDE DEF t, L
  <2>6. ASSUME Info(Outer(t)).generic
        PROVE  Inst(Outer(t), ArgOf(t), NoType) \in Collected
    <3>1. \/ IsGeneric(L) /\ t \in NamedIn(Arg(i))
          \/ \E x \in NamedIn(L) : Outer(t) = Outer(x) /\ ArgOf(t) = Substitute(ArgOf(x), Arg(i))
      BY <1>3, <1>7, <2>4, <2>5, PartsOfSubstitute
    <3>2. CASE IsGeneric(L) /\ t \in NamedIn(Arg(i))
      <4>1. i \in Collected
        BY <1>2, <1>7, <3>2, InstIs DEF Known
      <4> QED
        BY <2>6, <3>2, <4>1, CollectedFacts DEF Complete
    <3>3. ASSUME NEW x \in NamedIn(L), Outer(t) = Outer(x), ArgOf(t) = Substitute(ArgOf(x), Arg(i))
          PROVE  Inst(Outer(t), ArgOf(t), NoType) \in Collected
      <4> DEFINE n == <<Outer(x), ArgOf(x)>>
      <4>1. n \in Instantiated(u)
        BY <2>6, <3>3 DEF Instantiated, L
      <4>2. n[1] = Outer(x) /\ n[2] = ArgOf(x)
        OBVIOUS
      <4> HIDE DEF n
      <4>3. u \in Code(o) /\ u.k # "decl"
        BY <1>1, <1>4
      <4>4. Inst(n[1], Substitute(n[2], Arg(i)), NoType) \in Visit(o, Arg(i))
        BY <1>2, <1>4, <4>1, <4>3, VisitSite
      <4> QED
        BY <1>4, <3>3, <4>2, <4>4
    <3> QED
      BY <3>1, <3>2, <3>3
  <2>7. Known(j) /\ j = Inst(Outer(t), ArgOf(t), NoType) /\ Info(Outer(t)).kind = "type"
    BY <1>1, <1>3, <2>2, <2>6, KnownType DEF t
  <2> QED
    BY <2>7, InstFields
<1>8. ASSUME NEW d \in Info(i.o).uses, d.k = "decl", L = Type(<<d.o>>, None)
      PROVE  Known(j) /\ Info(j.o).kind = "type"
  <2>1. d.o \in Names /\ Info(d.o).nest = i.o /\ Info(d.o).kind = "type"
    BY <1>2, <1>8, UseFacts
  <2>2. Info(d.o).nest # None
    BY <1>2, <2>1, ProgramFacts
  <2>3. Info(i.o).kind \in {"func", "method"} /\ ~Info(d.o).generic
    BY <1>2, <2>1, <2>2, ObjectFacts
  <2>4. o = i.o
    BY <1>4, <2>3
  <2>5. Inst(d.o, NoType, Arg(i)) \in Collected
    BY <1>2, <1>4, <1>8, <2>4, VisitDecl
  <2>6. t = L /\ L.base = None /\ Outer(L) = d.o /\ ArgOf(L) = Type(<<>>, None)
    <3>1. L.base = None /\ Outer(L) = d.o /\ ArgOf(L) = Type(<<>>, None)
      BY <1>8, SingleType
    <3>2. ~IsGeneric(L)
      BY <1>2, <3>1 DEF IsGeneric
    <3> QED
      BY <1>3, <3>1, <3>2, SubstituteClosed
  <2>7. j = Inst(d.o, NoType, Arg(i))
    BY <1>1, <2>2, <2>6 DEF TypeInst, Obj, Info, NoType
  <2> QED
    BY <2>1, <2>5, <2>7, CollectedFacts, InstFields DEF Known
<1> QED
  BY <1>5, <1>6, <1>7, <1>8

(* The methods of a type, the type of a method, and the implementation     *)
(* that a function is linked to.                                           *)
LEMMA KnownMethod ==
    ASSUME AllCollected, NEW i, Known(i), NEW m \in MethodsOf(prog, i.o)
    PROVE  /\ Known(Inst(m, i.args, NoType)) /\ Inst(m, i.args, NoType).o = m
           /\ Info(m).kind = "method" /\ Recv(Inst(m, i.args, NoType)) = i
<1>1. /\ prog \in Programs /\ IsInst(i, sources) /\ i.o \in Names /\ Info(i.o).pkg \in sources
  BY CollectedFacts, InstIs DEF Known
<1>2. /\ m \in Names /\ Info(m).kind = "method" /\ Info(m).recv = i.o /\ Info(m).nest = None
      /\ Info(m).pkg = Info(i.o).pkg /\ Info(m).generic = Info(i.o).generic
      /\ Info(i.o).kind = "type" /\ Info(i.o).nest = None
  BY <1>1, MethodFacts
<1>3. i.nest = NoType /\ i = Inst(i.o, i.args, NoType)
  BY <1>1, <1>2, InstIs
<1> DEFINE j == Inst(m, i.args, NoType)
<1>4. j.o = m /\ j.args = i.args /\ j.nest = NoType /\ [i EXCEPT !.o = m] = j
  BY <1>3, InstFields
<1>5. Recv(j) = i
  BY <1>2, <1>3, <1>4 DEF Recv
<1>6. CASE IsTrivial(i)
  <2>1. ~HasT(m) /\ i.args = NoType
    BY <1>1, <1>2, <1>6, InstIs DEF HasT, IsTrivial
  <2>2. j = Plain(m)
    BY <2>1 DEF Plain
  <2> QED
    BY <1>1, <1>2, <1>5, <2>1, <2>2, PlainKnown
<1>7. CASE ~IsTrivial(i)
  <2>1. i \in Collected
    BY <1>7 DEF Known
  <2>2. j \in Collected
    <3>1. \A x \in MethodsOf(prog, i.o) : [i EXCEPT !.o = x] \in Collected
      BY <1>2, <2>1, CollectedFacts DEF Complete
    <3> QED
      BY <1>4, <3>1
  <2>3. Known(j)
    BY <2>2, CollectedFacts DEF Known
  <2> QED
    BY <1>2, <1>4, <1>5, <2>3
<1> QED
  BY <1>6, <1>7

LEMMA KnownRecv ==
    ASSUME AllCollected, NEW i, Known(i), Info(i.o).kind = "method"
    PROVE  /\ Known(Recv(i)) /\ Recv(i).o = Info(i.o).recv /\ Info(Recv(i).o).kind = "type"
           /\ i.o \in MethodsOf(prog, Recv(i).o) /\ i = Inst(i.o, Recv(i).args, NoType)
<1>1. /\ prog \in Programs /\ IsInst(i, sources) /\ i.o \in Names /\ Info(i.o).pkg \in sources
      /\ i = Inst(i.o, i.args, i.nest)
  BY CollectedFacts, InstIs DEF Known
<1> DEFINE t == Info(i.o).recv
<1>2. /\ t \in Names /\ Info(t).kind = "type" /\ Info(t).pkg = Info(i.o).pkg
      /\ Info(t).generic = Info(i.o).generic /\ Info(t).nest = None /\ Info(i.o).nest = None
      /\ i.o \in ToSet(prog.order[Info(i.o).pkg])
  BY <1>1, ObjectFacts
<1>3. Recv(i) = Inst(t, i.args, NoType) /\ Recv(i).o = t /\ Recv(i).args = i.args
  BY InstFields DEF Recv
<1>4. i.o \in MethodsOf(prog, t)
  BY <1>2 DEF MethodsOf, Obj, Info
<1>5. i.nest = NoType
  BY <1>1, <1>2, InstIs
<1>6. CASE IsTrivial(i)
  <2>1. ~HasT(t) /\ i.args = NoType
    BY <1>1, <1>2, <1>6, InstIs DEF HasT, IsTrivial
  <2>2. Recv(i) = Plain(t)
    BY <1>3, <2>1 DEF Plain
  <2>3. Known(Recv(i))
    BY <1>1, <1>2, <2>1, <2>2, PlainKnown
  <2> QED
    BY <1>1, <1>2, <1>3, <1>4, <1>5, <2>3
<1>7. CASE ~IsTrivial(i)
  <2>1. i \in Collected
    BY <1>7 DEF Known
  <2>2. Recv(i) \in Collected
    BY <2>1, CollectedFacts DEF Complete
  <2>3. Known(Recv(i))
    BY <2>2, CollectedFacts DEF Known
  <2> QED
    BY <1>1, <1>2, <1>3, <1>4, <1>5, <2>3
<1> QED
  BY <1>6, <1>7

LEMMA KnownLinked ==
    ASSUME AllCollected, NEW i, Known(i), NEW j \in LinkedTo(prog, i)
    PROVE  /\ Known(j) /\ Info(j.o).kind = "func" /\ j = Plain(Info(i.o).impl) /\ j.o = Info(i.o).impl
           /\ Info(i.o).impl # None
<1>1. /\ prog \in Programs /\ Closed(sources) /\ i.o \in Names /\ Info(i.o).pkg \in sources
  BY CollectedFacts, InstIs DEF Known
<1>2. Info(i.o).impl # None /\ j = Plain(Info(i.o).impl)
  BY DEF LinkedTo, Obj, Info
<1> DEFINE o == Info(i.o).impl
<1>3. o \in Names /\ Info(o).kind = "func" /\ ~Info(o).generic /\ Info(o).pkg \in ImportsOf(prog, AllPkgs, {Info(i.o).pkg})
  BY <1>1, <1>2, ObjectFacts
<1>4. Info(o).pkg \in sources
  BY <1>1, <1>3, ImportsFacts
<1>5. Info(o).nest = None
  BY <1>1, <1>3, ObjectFacts
<1> HIDE DEF o
<1>6. Known(Plain(o)) /\ Plain(o).o = o
  BY <1>3, <1>4, <1>5, PlainKnown DEF HasT
<1> QED
  BY <1>2, <1>3, <1>6 DEF o

(* The instances of an object are those that are known of it.              *)
LEMMA KnownInstancesAre ==
    ASSUME AllCollected, NEW o \in Names, Info(o).pkg \in sources, NEW i
    PROVE  i \in KnownInstances(o) <=> Known(i) /\ i.o = o
<1>1. prog \in Programs /\ \A p \in sources : \A j \in ToSet(instances[p]) :
          IsInst(j, sources) /\ PkgOf(j) = p /\ ~IsTrivial(j)
  BY CollectedFacts
<1>2. \A j \in ForObj(o) : IsInst(j, sources) /\ ~IsTrivial(j) /\ j.o = o /\ j \in Collected
  BY <1>1 DEF ForObj, Collected
<1>3. CASE ~HasT(o)
  <2>1. ForObj(o) = {}
    BY <1>1, <1>2, <1>3, InstIs
  <2>2. KnownInstances(o) = {Plain(o)}
    BY <1>3, <2>1 DEF KnownInstances, HasT
  <2>3. Known(Plain(o)) /\ Plain(o).o = o
    BY <1>3, PlainKnown
  <2>4. Known(i) /\ i.o = o => i = Plain(o)
    BY <1>1, <1>3, InstIs DEF Known
  <2> QED
    BY <2>2, <2>3, <2>4
<1>4. CASE HasT(o)
  <2>1. KnownInstances(o) = ForObj(o)
    BY <1>4 DEF KnownInstances, HasT
  <2>2. ASSUME Known(i), i.o = o
        PROVE  i \in ForObj(o)
    <3>1. IsInst(i, sources) /\ ~IsTrivial(i)
      BY <1>1, <1>4, <2>2, InstIs DEF Known
    <3>2. i \in Collected
      BY <2>2, <3>1 DEF Known
    <3>3. i \in ToSet(instances[PkgOf(i)])
      BY <3>2, CollectedFacts
    <3> QED
      BY <2>2, <3>3 DEF ForObj, PkgOf
  <2> QED
    BY <1>2, <2>1, <2>2 DEF Known
<1> QED
  BY <1>3, <1>4

LEMMA FuncInstancesAre ==
    ASSUME AllCollected, NEW i
    PROVE  i \in FuncInstances(sources) <=> Known(i) /\ Info(i.o).kind # "type"
<1>1. prog \in Programs /\ Closed(sources)
  BY CollectedFacts
<1>2. ASSUME i \in FuncInstances(sources)
      PROVE  Known(i) /\ Info(i.o).kind # "type"
  <2>1. PICK o \in Objects(prog, sources) : Info(o).kind # "type" /\ i \in KnownInstances(o)
    BY <1>2 DEF FuncInstances
  <2>2. o \in Names /\ Info(o).pkg \in sources
    BY <1>1, ObjectsIn
  <2> QED
    BY <2>1, <2>2, KnownInstancesAre
<1>3. ASSUME Known(i), Info(i.o).kind # "type"
      PROVE  i \in FuncInstances(sources)
  <2>1. i.o \in Names /\ Info(i.o).pkg \in sources
    BY <1>1, <1>3, InstIs DEF Known
  <2>2. i \in KnownInstances(i.o)
    BY <1>3, <2>1, KnownInstancesAre
  <2>3. i.o \in Objects(prog, sources)
    BY <1>1, <2>1, ObjectsIn
  <2> QED
    BY <1>3, <2>2, <2>3 DEF FuncInstances
<1> QED
  BY <1>2, <1>3

(* The compiler finds the number of every instance it names, and what the  *)
(* analysis says of every function that is called.                         *)
LEMMA KnownCompiles ==
    ASSUME AllCollected, NEW p \in sources, \A i : Known(i) /\ Info(i.o).kind # "type" => i \in DOMAIN infos
    PROVE  Compiles(p)
<1>1. prog \in Programs /\ sources \subseteq AllPkgs
  BY CollectedFacts
<1>2. ASSUME NEW o \in Functions(p) \cup TypeNames(p) \cup ToSet(prog.inits[p])
      PROVE  o \in Names /\ Info(o).pkg = p
  BY <1>1, <1>2, ProgramFacts DEF Functions, TypeNames
<1>3. ASSUME NEW o \in Functions(p) \cup TypeNames(p) \cup ToSet(prog.inits[p]), NEW i \in KnownInstances(o)
      PROVE  Known(i)
  BY <1>2, <1>3, KnownInstancesAre
<1>4. ASSUME NEW i, Known(i), NEW u \in UsesOf(prog, i, {"call", "value", "method", "var"})
      PROVE  /\ Known(CalleeInst(u, i)) /\ Info(CalleeInst(u, i).o).kind # "type"
  <2>1. u \in Info(i.o).uses /\ u.k \in {"call", "value", "method", "var"}
    BY <1>4 DEF UsesOf, Uses, Obj, Info
  <2> QED
    BY <1>4, <2>1, KnownCallee
<1>5. ASSUME NEW i, Known(i), NEW j \in Mentioned(i)
      PROVE  HasId(j)
  <2>1. Known(j)
    <3>1. CASE j \in Makes(prog, i)
      BY <1>5, <3>1, KnownMade
    <3>2. CASE j \notin Makes(prog, i)
      <4>1. PICK u \in UsesOf(prog, i, {"call", "value"}) : j = CalleeInst(u, i)
        BY <1>5, <3>2 DEF Mentioned
      <4>2. u \in UsesOf(prog, i, {"call", "value", "method", "var"})
        BY <4>1 DEF UsesOf
      <4> QED
        BY <1>4, <1>5, <4>1, <4>2
    <3> QED
      BY <3>1, <3>2
  <2> QED
    BY <2>1, CollectedFacts DEF HasId, Known
<1>6. ASSUME NEW i, Known(i), NEW u \in UsesOf(prog, i, {"call", "method"})
      PROVE  CalleeInst(u, i) \in DOMAIN infos
  <2>1. u \in UsesOf(prog, i, {"call", "value", "method", "var"})
    BY DEF UsesOf
  <2> QED
    BY <1>4, <1>6, <2>1
<1> QED
  BY <1>3, <1>5, <1>6 DEF Compiles

-----------------------------------------------------------------------------
(* What the analysis knows.                                                *)

(* Every function instance has an info, whose callees have one too; what   *)
(* the code of a function says of it, and a callee is dropped only from an *)
(* info that blocks.                                                       *)
InfosOK ==
    /\ DOMAIN infos = FuncInstances(sources)
    /\ \A i \in DOMAIN infos :
          /\ infos[i].callees \subseteq DOMAIN infos
          /\ NewFuncInfo(i).blocking => infos[i].blocking
          /\ \A c \in NewFuncInfo(i).callees : c \in infos[i].callees \/ infos[i].blocking
Settled(i) == \A c \in infos[i].callees : ~infos[c].blocking
AnalysisInv ==
    /\ CollectInv /\ phase # "panic"
    /\ phase \notin {"load", "collect"} => InfosOK
    /\ phase = "propagate" => \A i \in DOMAIN infos : PkgOf(i) \notin todo => Settled(i)
    /\ phase \in {"compile", "select", "written"} => \A i \in DOMAIN infos : Settled(i)

LEMMA SameInfos ==
    ASSUME prog' = prog, sources' = sources, instances' = instances
    PROVE  /\ FuncInstances(sources)' = FuncInstances(sources)
           /\ \A i : NewFuncInfo(i)' = NewFuncInfo(i)
           /\ \A o : KnownInstances(o)' = KnownInstances(o)
<1>1. \A o : Info(o)' = Info(o)
  BY DEF Info
<1>2. \A o : ForObj(o)' = ForObj(o)
  BY <1>1 DEF ForObj
<1>3. \A o : KnownInstances(o)' = KnownInstances(o)
  BY <1>1, <1>2 DEF KnownInstances
<1>4. FuncInstances(sources)' = FuncInstances(sources)
  BY <1>1, <1>3 DEF FuncInstances
<1>5. \A i : NewFuncInfo(i)' = NewFuncInfo(i)
  BY <1>1 DEF NewFuncInfo
<1> QED
  BY <1>3, <1>4, <1>5

(* Steps that leave the infos as they are.                                 *)
LEMMA InfosKept ==
    ASSUME AnalysisInv, CollectInv', UNCHANGED <<prog, sources, instances, infos>>, phase' # "panic",
           phase' \notin {"load", "collect"} => phase \notin {"load", "collect"},
           phase' = "propagate" => phase = "propagate" /\ todo' = todo,
           phase' \in {"compile", "select", "written"} => phase \in {"compile", "select", "written"}
    PROVE  AnalysisInv'
<1>1. prog' = prog /\ sources' = sources /\ instances' = instances /\ infos' = infos
  OBVIOUS
<1>2. \A i : (Settled(i)' <=> Settled(i)) /\ PkgOf(i)' = PkgOf(i)
  BY <1>1 DEF Settled, PkgOf, Info
<1>3. InfosOK' <=> InfosOK
  BY <1>1, SameInfos DEF InfosOK
<1> QED
  BY <1>1, <1>2, <1>3 DEF AnalysisInv

(* What is called is an instance that has an info.                         *)
LEMMA AnalyzeStep ==
    ASSUME AnalysisInv, CollectInv', AnalyzeAll
    PROVE  AnalysisInv'
<1>1. /\ AllCollected /\ prog' = prog /\ sources' = sources /\ instances' = instances
      /\ todo' = sources
      /\ phase' = IF \A i \in DOMAIN infos' : infos'[i].callees \subseteq DOMAIN infos'
                  THEN "propagate" ELSE "panic"
  BY DEF AnalyzeAll, AnalysisInv, AllCollected
<1>2. infos' = [i \in FuncInstances(sources) |-> NewFuncInfo(i)]
  BY DEF AnalyzeAll
<1>3. DOMAIN infos' = FuncInstances(sources) /\ \A i \in FuncInstances(sources) : infos'[i] = NewFuncInfo(i)
  BY <1>2
<1>4. ASSUME NEW i \in FuncInstances(sources)
      PROVE  NewFuncInfo(i).callees \subseteq FuncInstances(sources)
  <2>1. Known(i)
    BY <1>1, <1>4, FuncInstancesAre
  <2>2. ASSUME NEW u \in UsesOf(prog, i, {"call", "method"})
        PROVE  CalleeInst(u, i) \in FuncInstances(sources)
    <3>1. u \in Info(i.o).uses /\ u.k \in {"call", "method"}
      BY DEF UsesOf, Uses, Obj, Info
    <3>2. Known(CalleeInst(u, i)) /\ Info(CalleeInst(u, i).o).kind # "type"
      BY <1>1, <2>1, <3>1, KnownCallee
    <3> QED
      BY <1>1, <3>2, FuncInstancesAre
  <2>3. NewFuncInfo(i).callees = {CalleeInst(u, i) : u \in UsesOf(prog, i, {"call", "method"})}
    BY DEF NewFuncInfo
  <2> QED
    BY <2>2, <2>3
<1>5. phase' = "propagate"
  BY <1>1, <1>3, <1>4
<1>6. /\ FuncInstances(sources)' = FuncInstances(sources)
      /\ \A i : NewFuncInfo(i)' = NewFuncInfo(i)
  BY <1>1, SameInfos
<1>7. InfosOK'
  BY <1>1, <1>3, <1>4, <1>6 DEF InfosOK
<1>8. ASSUME NEW i \in DOMAIN infos'
      PROVE  PkgOf(i)' \in todo'
  <2>1. Known(i)
    BY <1>1, <1>3, <1>8, FuncInstancesAre
  <2>2. PkgOf(i)' = PkgOf(i)
    BY <1>1, SameVisit
  <2> QED
    BY <1>1, <2>1, <2>2 DEF Known, IsInst
<1> QED
  BY <1>5, <1>7, <1>8 DEF AnalysisInv

(* A round over the packages loses nothing, and ends the propagation only  *)
(* if it changes nothing.                                                  *)
LEMMA PropagateAnalysisStep ==
    ASSUME AnalysisInv, CollectInv', PropagateAnalysis
    PROVE  AnalysisInv'
<1>1. /\ AllCollected /\ InfosOK /\ prog' = prog /\ sources' = sources /\ instances' = instances
      /\ phase \in {"propagate", "again"}
      /\ phase = "propagate" => \A i \in DOMAIN infos : PkgOf(i) \notin todo => Settled(i)
  BY DEF PropagateAnalysis, AnalysisInv, AllCollected, CollectInv
<1>2. /\ FuncInstances(sources)' = FuncInstances(sources)
      /\ \A i : NewFuncInfo(i)' = NewFuncInfo(i)
      /\ \A i : PkgOf(i)' = PkgOf(i)
  BY <1>1, SameInfos, SameVisit
<1>3. CASE todo # {}
  <2> DEFINE p == First(todo)
  <2>1. /\ infos' = PropagateFunctionBlocking(infos, p) /\ todo' = todo \ {p}
        /\ phase' = IF infos' = infos THEN phase ELSE "again"
    BY <1>3 DEF PropagateAnalysis
  <2> HIDE DEF p
  <2>2. /\ DOMAIN infos' = DOMAIN infos
        /\ \A i \in DOMAIN infos : PkgOf(i) # p => infos'[i] = infos[i]
        /\ \A i \in DOMAIN infos : PkgOf(i) = p =>
              /\ infos'[i].blocking = (infos[i].blocking \/ \E c \in infos[i].callees : infos[c].blocking)
              /\ infos'[i].callees = {c \in infos[i].callees : ~infos[c].blocking}
    BY <2>1 DEF PropagateFunctionBlocking, IsBlocking
  <2>3. ASSUME NEW i \in DOMAIN infos
        PROVE  /\ infos'[i].callees \subseteq DOMAIN infos
               /\ NewFuncInfo(i).blocking => infos'[i].blocking
               /\ \A c \in NewFuncInfo(i).callees : c \in infos'[i].callees \/ infos'[i].blocking
    <3>1. /\ infos[i].callees \subseteq DOMAIN infos
          /\ NewFuncInfo(i).blocking => infos[i].blocking
          /\ \A c \in NewFuncInfo(i).callees : c \in infos[i].callees \/ infos[i].blocking
      BY <1>1 DEF InfosOK
    <3>2. CASE PkgOf(i) # p
      BY <2>2, <3>1, <3>2
    <3>3. CASE PkgOf(i) = p
      BY <2>2, <3>1, <3>3
    <3> QED
      BY <3>2, <3>3
  <2>4. InfosOK'
    BY <1>1, <1>2, <2>2, <2>3 DEF InfosOK
  <2>5. ASSUME phase' = "propagate", NEW i \in DOMAIN infos', PkgOf(i) \notin todo'
        PROVE  Settled(i)'
    <3>1. infos' = infos /\ phase = "propagate"
      BY <2>1, <2>5
    <3>2. Settled(i)
      <4>1. CASE PkgOf(i) = p
        BY <2>2, <2>5, <3>1, <4>1 DEF Settled
      <4>2. CASE PkgOf(i) # p
        BY <1>1, <2>1, <2>5, <3>1, <4>2
      <4> QED
        BY <4>1, <4>2
    <3> QED
      BY <3>1, <3>2 DEF Settled
  <2>6. phase' \in {"propagate", "again"}
    BY <1>1, <2>1
  <2> QED
    BY <1>2, <2>4, <2>5, <2>6 DEF AnalysisInv
<1>4. CASE todo = {}
  <2>1. /\ infos' = infos /\ todo' = sources
        /\ phase' = IF phase = "again" THEN "propagate" ELSE "compile"
    BY <1>4 DEF PropagateAnalysis
  <2>2. InfosOK'
    BY <1>1, <1>2, <2>1 DEF InfosOK
  <2>3. ASSUME NEW i \in DOMAIN infos'
        PROVE  PkgOf(i) \in todo'
    <3>1. Known(i)
      BY <1>1, <2>1, <2>3, FuncInstancesAre DEF InfosOK
    <3> QED
      BY <2>1, <3>1 DEF Known, IsInst
  <2>4. ASSUME phase' = "compile", NEW i \in DOMAIN infos'
        PROVE  Settled(i)'
    <3>1. Settled(i)
      BY <1>1, <1>4, <2>1, <2>4
    <3> QED
      BY <2>1, <3>1 DEF Settled
  <2>5. phase' \in {"propagate", "compile"}
    BY <2>1
  <2> QED
    BY <1>2, <2>2, <2>3, <2>4, <2>5 DEF AnalysisInv
<1> QED
  BY <1>3, <1>4

LEMMA AnalysisInit ==
    ASSUME Init
    PROVE  AnalysisInv
<1>1. phase = "load"
  BY DEF Init
<1> QED
  BY <1>1, CollectInit DEF AnalysisInv

LEMMA AnalysisStep ==
    ASSUME AnalysisInv, [Next]_vars
    PROVE  AnalysisInv'
<1>1. CollectInv'
  BY CollectStep DEF AnalysisInv
<1>2. CASE LoadAndScan \/ \E p \in ToSet(Pkgs) : Propagate(p)
  <2>1. phase' = "collect"
    BY <1>2 DEF LoadAndScan, Propagate
  <2> QED
    BY <1>1, <2>1 DEF AnalysisInv
<1>3. CASE AnalyzeAll
  BY <1>1, <1>3, AnalyzeStep
<1>4. CASE PropagateAnalysis
  BY <1>1, <1>4, PropagateAnalysisStep
<1>5. CASE CompilePackage
  <2>1. UNCHANGED <<prog, sources, instances, infos>> /\ phase = "compile" /\ todo # {}
    BY <1>5 DEF CompilePackage
  <2>2. AllCollected
    BY <2>1 DEF AnalysisInv, AllCollected, CollectInv
  <2>3. First(todo) \in todo /\ todo \subseteq sources
    BY <2>1, <2>2, CollectedFacts, FirstIn
  <2>4. \A i : Known(i) /\ Info(i.o).kind # "type" => i \in DOMAIN infos
    BY <2>1, <2>2, FuncInstancesAre DEF AnalysisInv, InfosOK
  <2>5. Compiles(First(todo))
    BY <2>2, <2>3, <2>4, KnownCompiles
  <2>6. phase' = phase
    BY <1>5, <2>5 DEF CompilePackage
  <2> QED
    BY <1>1, <2>1, <2>6, InfosKept
<1>6. CASE LinkPackages \/ WriteProgram \/ Run
  <2>1. /\ UNCHANGED <<prog, sources, instances, infos>>
        /\ phase \in {"compile", "select", "written"} /\ phase' \in {"select", "written"}
    BY <1>6 DEF LinkPackages, WriteProgram, Run
  <2> QED
    BY <1>1, <2>1, InfosKept
<1>7. CASE NextRoot
  <2>1. UNCHANGED <<prog, sources, instances, infos>> /\ phase' = "load"
    BY <1>7 DEF NextRoot
  <2> QED
    BY <1>1, <2>1, InfosKept
<1>8. CASE UNCHANGED vars
  <2>1. UNCHANGED <<prog, sources, phase, instances, infos, todo>>
    BY <1>8 DEF vars
  <2> QED
    BY <1>1, <2>1, InfosKept DEF AnalysisInv
<1> QED
  BY <1>2, <1>3, <1>4, <1>5, <1>6, <1>7, <1>8 DEF Next

LEMMA AnalysisHolds == Spec => []AnalysisInv
<1>1. Init => AnalysisInv
  BY AnalysisInit
<1>2. AnalysisInv /\ [Next]_vars => AnalysisInv'
  BY AnalysisStep
<1> QED
  BY <1>1, <1>2, PTL DEF Spec

(* The analysis and the compiler never meet an instance that they do not   *)
(* know: whatever order the packages are visited in, the instances of all  *)
(* functions that are called and of all types that are made were collected *)
(* (the panics of Info.IsBlocking and InstanceSet.ID).                     *)
THEOREM PanicsNever == Spec => []NeverPanics
<1>1. AnalysisInv => NeverPanics
  BY DEF AnalysisInv, NeverPanics
<1> QED
  BY <1>1, AnalysisHolds, PTL

-----------------------------------------------------------------------------
(* What may block, of all the instances that the program could have: the   *)
(* least set with the functions that the analysis takes to block by their  *)
(* own code, and those that call one of the set.                           *)
AnyType == [named : Seq(Names), base : Basic \cup {T, None}]
AnyInst == [o : Names, args : AnyType, nest : AnyType]
BlocksClosed(B) == \A i \in AnyInst :
    NewFuncInfo(i).blocking \/ NewFuncInfo(i).callees \cap B # {} => i \in B
EverBlocks == {i \in AnyInst : \A B \in SUBSET AnyInst : BlocksClosed(B) => i \in B}

LEMMA EverBlocksClosed == BlocksClosed(EverBlocks)
<1>1. ASSUME NEW i \in AnyInst, NewFuncInfo(i).blocking \/ NewFuncInfo(i).callees \cap EverBlocks # {},
             NEW B \in SUBSET AnyInst, BlocksClosed(B)
      PROVE  i \in B
  <2>1. EverBlocks \subseteq B
    BY <1>1 DEF EverBlocks
  <2>2. NewFuncInfo(i).blocking \/ NewFuncInfo(i).callees \cap B # {}
    BY <1>1, <2>1
  <2> QED
    BY <1>1, <2>2 DEF BlocksClosed
<1>2. ASSUME NEW i \in AnyInst, NewFuncInfo(i).blocking \/ NewFuncInfo(i).callees \cap EverBlocks # {}
      PROVE  i \in EverBlocks
  BY <1>1, <1>2 DEF EverBlocks
<1> QED
  BY <1>2 DEF BlocksClosed

LEMMA KnownIsInst ==
    ASSUME prog \in Programs, NEW S, NEW i, IsInst(i, S)
    PROVE  i \in AnyInst
<1>1. /\ i = Inst(i.o, i.args, i.nest) /\ i.o \in Names
      /\ i.args = NoType \/ IsType(prog, i.args)
      /\ i.nest = NoType \/ IsType(prog, i.nest)
  BY ClosedIs DEF IsInst
<1>2. NoType \in AnyType
  <2>1. <<>> \in Seq(Names)
    BY EmptySeq
  <2> QED
    BY <2>1 DEF NoType, Type, AnyType
<1>3. \A t : IsType(prog, t) => t \in AnyType
  BY DEF IsType, AnyType, Names
<1> QED
  BY <1>1, <1>2, <1>3 DEF AnyInst, Inst

(* When the infos have settled, each function that may ever block is seen  *)
(* to block, of those that have an info.                                   *)
LEMMA AnalysisFinds ==
    ASSUME InfosOK, \A i \in DOMAIN infos : Settled(i), NEW j \in DOMAIN infos, j \in EverBlocks
    PROVE  infos[j].blocking
<1> DEFINE B == {i \in AnyInst : i \in DOMAIN infos => infos[i].blocking}
<1>1. ASSUME NEW i \in AnyInst, NewFuncInfo(i).blocking \/ NewFuncInfo(i).callees \cap B # {},
             i \in DOMAIN infos
      PROVE  infos[i].blocking
  <2>1. /\ infos[i].callees \subseteq DOMAIN infos
        /\ NewFuncInfo(i).blocking => infos[i].blocking
        /\ \A c \in NewFuncInfo(i).callees : c \in infos[i].callees \/ infos[i].blocking
    BY <1>1 DEF InfosOK
  <2>2. ASSUME NEW c \in NewFuncInfo(i).callees, c \in B
        PROVE  infos[i].blocking
    <3>1. CASE c \in infos[i].callees
      <4>1. infos[c].blocking
        BY <2>1, <2>2, <3>1
      <4>2. ~infos[c].blocking
        BY <1>1, <3>1 DEF Settled
      <4> QED
        BY <4>1, <4>2
    <3> QED
      BY <2>1, <2>2, <3>1
  <2> QED
    BY <1>1, <2>1, <2>2
<1>2. BlocksClosed(B)
  BY <1>1 DEF BlocksClosed
<1>3. j \in B
  <2>1. B \in SUBSET AnyInst
    OBVIOUS
  <2> HIDE DEF B
  <2> QED
    BY <1>2, <2>1 DEF EverBlocks
<1> QED
  BY <1>3

(* The program never does more than that when it runs.                     *)
LEMMA RunBlocks ==
    ASSUME NEW S, S \subseteq AnyInst, NEW B, B \subseteq EverBlocks
    PROVE  BlocksNext(prog, S, B) \subseteq EverBlocks
<1>1. ASSUME NEW i \in S, UsesOf(prog, i, {"block"}) # {} \/ Calls(prog, S, i) \cap B # {}
      PROVE  i \in EverBlocks
  <2>1. i \in AnyInst
    BY <1>1
  <2>2. /\ UsesOf(prog, i, {"block"}) \subseteq UsesOf(prog, i, {"block", "iface"})
        /\ UsesOf(prog, i, {"iface"}) \subseteq UsesOf(prog, i, {"block", "iface"})
    BY DEF UsesOf
  <2>3. CASE UsesOf(prog, i, {"block", "iface"}) # {} \/ Info(i.o).impl # None
    <3>1. NewFuncInfo(i).blocking
      BY <2>3 DEF NewFuncInfo
    <3> QED
      BY <2>1, <3>1, EverBlocksClosed DEF BlocksClosed
  <2>4. CASE UsesOf(prog, i, {"block", "iface"}) = {} /\ Info(i.o).impl = None
    <3>1. PICK c \in Calls(prog, S, i) : c \in B
      BY <1>1, <2>2, <2>4
    <3>2. LinkedTo(prog, i) = {}
      BY <2>4 DEF LinkedTo, Obj, Info
    <3>3. UsesOf(prog, i, {"iface"}) = {}
      BY <2>2, <2>4
    <3>4. c \in {CalleeInst(u, i) : u \in UsesOf(prog, i, {"call", "method"})}
      BY <3>1, <3>2, <3>3 DEF Calls
    <3>5. c \in NewFuncInfo(i).callees
      BY <3>4 DEF NewFuncInfo
    <3>6. NewFuncInfo(i).callees \cap EverBlocks # {}
      BY <3>1, <3>5
    <3> QED
      BY <2>1, <3>6, EverBlocksClosed DEF BlocksClosed
  <2> QED
    BY <2>3, <2>4
<1> QED
  BY <1>1 DEF BlocksNext

-----------------------------------------------------------------------------
(* What the program may run.                                               *)

LEMMA StartsKnown ==
    ASSUME AllCollected, NEW S, S \subseteq sources, NEW i \in Starts(prog, S)
    PROVE  Known(i) /\ i = Plain(i.o) /\ Info(i.o).kind # "type" /\ i.o \in Objects(prog, S)
<1>1. prog \in Programs /\ Closed(sources) /\ sources \subseteq AllPkgs
  BY CollectedFacts
<1>2. PICK o \in Objects(prog, S) :
          /\ i = Plain(o)
          /\ Info(o).entry \/ Info(o).kind = "var"
  BY DEF Starts, Obj, Info
<1>3. PICK p \in S : o \in ToSet(prog.order[p])
  BY DEF Objects
<1>4. o \in Names /\ Info(o).pkg = p /\ p \in sources
  BY <1>1, <1>3, ProgramFacts
<1>5. Info(o).kind # "type" /\ ~HasT(o)
  <2>1. Info(o).kind \in {"func", "var"} /\ ~Info(o).generic
    BY <1>1, <1>2, <1>4, ObjectFacts
  <2> QED
    BY <1>1, <1>4, <2>1, ObjectFacts DEF HasT
<1>6. Known(Plain(o)) /\ Plain(o).o = o
  BY <1>4, <1>5, PlainKnown
<1> QED
  BY <1>2, <1>5, <1>6

(* What has run leads to known instances only.                             *)
LEMMA RunsKnown ==
    ASSUME AllCollected, NEW S, \A i \in S : Known(i), NEW j \in RunsNext(prog, S)
    PROVE  Known(j)
<1>1. CASE j \in S
  BY <1>1
<1>2. ASSUME NEW i \in S, j \in Refers(prog, i)
      PROVE  Known(j)
  <2>1. PICK u \in Info(i.o).uses : u.k \in {"call", "value", "method", "var"} /\ j = CalleeInst(u, i)
    BY <1>2 DEF Refers, UsesOf, Uses, Obj, Info
  <2> QED
    BY <1>2, <2>1, KnownCallee
<1>3. ASSUME NEW i \in S, j \in Makes(prog, i)
      PROVE  Known(j)
  BY <1>3, KnownMade
<1>4. ASSUME NEW i \in S, j \in LinkedTo(prog, i)
      PROVE  Known(j)
  BY <1>4, KnownLinked
<1>5. ASSUME NEW i \in S, NEW t \in S, NEW m \in CalledOn(prog, i, t), j = Inst(m, t.args, NoType)
      PROVE  Known(j)
  <2>1. m \in MethodsOf(prog, t.o)
    BY <1>5 DEF CalledOn
  <2> QED
    BY <1>5, <2>1, KnownMethod
<1> QED
  BY <1>1, <1>2, <1>3, <1>4, <1>5 DEF RunsNext

-----------------------------------------------------------------------------
(* Declarations.                                                           *)

UseDepsOf(i) == UNION {UseDeps(u, i) : u \in Uses(prog, i)}
ValueDecl(o) ==
    LET i == Plain(o)
        d == SetName(Decl("value", i), o, NoType, NoType)
        deps == UNION {UseDeps(u, i) : u \in Uses(prog, i)}
    IN  [CollectDCEDeps(IF HasSideEffect(prog, o) THEN SetAsAlive(d) ELSE d, deps) EXCEPT
            !.refs = References(i), !.calls = CallSites(i)]

LEMMA VarDeclIs ==
    ASSUME NEW o
    PROVE  /\ VarDecl(o).kind = "var" /\ VarDecl(o).inst = Plain(o) /\ VarDecl(o).id = Id(Plain(o))
           /\ VarDecl(o).filters = GetFilters(o, NoType, NoType)
           /\ VarDecl(o).refs = {} /\ VarDecl(o).calls = {} /\ VarDecl(o).pkg = PkgOf(Plain(o))
BY DEF VarDecl, SetName, Decl

LEMMA TypeDeclIs ==
    ASSUME NEW i
    PROVE  /\ TypeDecl(i).kind = "type" /\ TypeDecl(i).inst = i /\ TypeDecl(i).id = Id(i)
           /\ TypeDecl(i).filters = GetFilters(i.o, i.nest, i.args)
           /\ TypeDecl(i).refs = References(i) /\ TypeDecl(i).calls = {} /\ TypeDecl(i).pkg = PkgOf(i)
           /\ InstName(i, Nowhere) \subseteq TypeDecl(i).deps
           /\ UseDepsOf(i) \subseteq TypeDecl(i).deps
           /\ \A m \in MethodsOf(prog, i.o) :
                 TypeName(Substitute(Info(m).sig, i.args), i) \subseteq TypeDecl(i).deps
<1> DEFINE d == SetName(Decl("type", i), i.o, i.nest, i.args)
           deps == InstName(i, Nowhere) \cup (UNION {UseDeps(u, i) : u \in Uses(prog, i)})
                     \cup (UNION {TypeName(Substitute(Info(m).sig, i.args), i) :
                                     m \in MethodsOf(prog, i.o)})
<1>1. /\ d.kind = "type" /\ d.inst = i /\ d.id = Id(i) /\ d.filters = GetFilters(i.o, i.nest, i.args)
      /\ d.calls = {} /\ d.pkg = PkgOf(i)
      /\ d = [kind |-> d.kind, pkg |-> d.pkg, inst |-> d.inst, id |-> d.id, alive |-> d.alive,
              filters |-> d.filters, deps |-> d.deps, refs |-> d.refs, calls |-> d.calls,
              blocking |-> d.blocking]
  <2>1. /\ d.kind = "type" /\ d.inst = i /\ d.id = Id(i) /\ d.pkg = PkgOf(i)
        /\ d.filters = GetFilters(i.o, i.nest, i.args)
    BY DEF SetName, Decl
  <2>2. d.calls = {}
    BY DEF SetName, Decl
  <2>3. d = [kind |-> d.kind, pkg |-> d.pkg, inst |-> d.inst, id |-> d.id, alive |-> d.alive,
             filters |-> d.filters, deps |-> d.deps, refs |-> d.refs, calls |-> d.calls,
             blocking |-> d.blocking]
    <3> DEFINE c == Decl("type", i)
    <3>1. c = [kind |-> c.kind, pkg |-> c.pkg, inst |-> c.inst, id |-> c.id, alive |-> c.alive,
               filters |-> c.filters, deps |-> c.deps, refs |-> c.refs, calls |-> c.calls,
               blocking |-> c.blocking]
      BY DEF Decl
    <3>2. d = [c EXCEPT !.filters = GetFilters(i.o, i.nest, i.args)]
      BY DEF SetName
    <3> HIDE DEF c, d
    <3> QED
      BY <3>1, <3>2
  <2> QED
    BY <2>1, <2>2, <2>3
<1>2. TypeDecl(i) = [CollectDCEDeps(d, deps) EXCEPT !.refs = References(i)]
  BY DEF TypeDecl
<1>3. /\ InstName(i, Nowhere) \subseteq deps /\ UseDepsOf(i) \subseteq deps
      /\ \A m \in MethodsOf(prog, i.o) : TypeName(Substitute(Info(m).sig, i.args), i) \subseteq deps
  BY DEF UseDepsOf
<1> HIDE DEF d, deps
<1>4. /\ TypeDecl(i).kind = "type" /\ TypeDecl(i).inst = i /\ TypeDecl(i).id = Id(i)
      /\ TypeDecl(i).filters = GetFilters(i.o, i.nest, i.args)
      /\ TypeDecl(i).refs = References(i) /\ TypeDecl(i).calls = {} /\ TypeDecl(i).pkg = PkgOf(i)
      /\ deps \subseteq TypeDecl(i).deps
  BY <1>1, <1>2 DEF CollectDCEDeps
<1> QED
  BY <1>3, <1>4

LEMMA FuncDeclIs ==
    ASSUME NEW i
    PROVE  /\ FuncDecl(i).kind = "func" /\ FuncDecl(i).inst = i /\ FuncDecl(i).id = Id(i)
           /\ FuncDecl(i).filters = GetFilters(i.o, i.nest, i.args)
           /\ FuncDecl(i).refs = References(i)
                \cup {[o |-> Lvalue(i).o, id |-> Id(Lvalue(i)), inst |-> Lvalue(i)]}
           /\ FuncDecl(i).calls = CallSites(i) /\ FuncDecl(i).pkg = PkgOf(i)
           /\ FuncDecl(i).blocking = IsBlocking(infos, i)
           /\ InstName(Lvalue(i), i) \subseteq FuncDecl(i).deps
           /\ UseDepsOf(i) \subseteq FuncDecl(i).deps
           /\ Info(i.o).entry => FuncDecl(i).alive
<1> DEFINE d == SetName(Decl("func", i), i.o, i.nest, i.args)
           e == IF Info(i.o).entry THEN SetAsAlive(d) ELSE d
           deps == InstName(Lvalue(i), i) \cup UNION {UseDeps(u, i) : u \in Uses(prog, i)}
           refs == References(i) \cup {[o |-> Lvalue(i).o, id |-> Id(Lvalue(i)), inst |-> Lvalue(i)]}
<1>1. /\ e.kind = "func" /\ e.inst = i /\ e.id = Id(i) /\ e.filters = GetFilters(i.o, i.nest, i.args)
      /\ e.pkg = PkgOf(i) /\ (Info(i.o).entry => e.alive)
      /\ e = [kind |-> e.kind, pkg |-> e.pkg, inst |-> e.inst, id |-> e.id, alive |-> e.alive,
              filters |-> e.filters, deps |-> e.deps, refs |-> e.refs, calls |-> e.calls,
              blocking |-> e.blocking]
  BY DEF SetName, Decl, SetAsAlive
<1>2. FuncDecl(i) = [CollectDCEDeps(e, deps) EXCEPT
                        !.refs = refs, !.calls = CallSites(i), !.blocking = IsBlocking(infos, i)]
  BY DEF FuncDecl
<1>3. InstName(Lvalue(i), i) \subseteq deps /\ UseDepsOf(i) \subseteq deps
  BY DEF UseDepsOf
<1> HIDE DEF e, deps, d
<1>4. /\ FuncDecl(i).kind = "func" /\ FuncDecl(i).inst = i /\ FuncDecl(i).id = Id(i)
      /\ FuncDecl(i).filters = GetFilters(i.o, i.nest, i.args)
      /\ FuncDecl(i).refs = refs /\ FuncDecl(i).calls = CallSites(i) /\ FuncDecl(i).pkg = PkgOf(i)
      /\ FuncDecl(i).blocking = IsBlocking(infos, i) /\ FuncDecl(i).alive = e.alive
      /\ deps \subseteq FuncDecl(i).deps
  <2> HIDE DEF refs
  <2> QED
    BY <1>1, <1>2 DEF CollectDCEDeps
<1> QED
  BY <1>1, <1>3, <1>4

LEMMA ValueDeclIs ==
    ASSUME NEW o
    PROVE  /\ ValueDecl(o).kind = "value" /\ ValueDecl(o).inst = Plain(o)
           /\ ValueDecl(o).id = Id(Plain(o))
           /\ ValueDecl(o).filters = GetFilters(o, NoType, NoType)
           /\ ValueDecl(o).refs = References(Plain(o))
           /\ ValueDecl(o).calls = CallSites(Plain(o)) /\ ValueDecl(o).pkg = PkgOf(Plain(o))
           /\ UseDepsOf(Plain(o)) \subseteq ValueDecl(o).deps
           /\ HasSideEffect(prog, o) => ValueDecl(o).alive
<1> DEFINE i == Plain(o)
           d == SetName(Decl("value", i), o, NoType, NoType)
           e == IF HasSideEffect(prog, o) THEN SetAsAlive(d) ELSE d
           deps == UNION {UseDeps(u, i) : u \in Uses(prog, i)}
<1>1. /\ e.kind = "value" /\ e.inst = i /\ e.id = Id(i) /\ e.filters = GetFilters(o, NoType, NoType)
      /\ e.pkg = PkgOf(i) /\ (HasSideEffect(prog, o) => e.alive)
      /\ e = [kind |-> e.kind, pkg |-> e.pkg, inst |-> e.inst, id |-> e.id, alive |-> e.alive,
              filters |-> e.filters, deps |-> e.deps, refs |-> e.refs, calls |-> e.calls,
              blocking |-> e.blocking]
  BY DEF SetName, Decl, SetAsAlive
<1>2. ValueDecl(o) = [CollectDCEDeps(e, deps) EXCEPT !.refs = References(i), !.calls = CallSites(i)]
  BY DEF ValueDecl
<1>3. UseDepsOf(i) \subseteq deps
  BY DEF UseDepsOf
<1> HIDE DEF e, deps, d, i
<1>4. /\ ValueDecl(o).kind = "value" /\ ValueDecl(o).inst = i /\ ValueDecl(o).id = Id(i)
      /\ ValueDecl(o).filters = GetFilters(o, NoType, NoType)
      /\ ValueDecl(o).refs = References(i) /\ ValueDecl(o).calls = CallSites(i)
      /\ ValueDecl(o).pkg = PkgOf(i) /\ ValueDecl(o).alive = e.alive /\ deps \subseteq ValueDecl(o).deps
  BY <1>1, <1>2 DEF CollectDCEDeps
<1> QED
  BY <1>1, <1>3, <1>4 DEF i

(* The declarations of a package are made for what is known of it.         *)
LEMMA DeclsAre ==
    ASSUME AllCollected, NEW p \in sources, NEW d \in Decls(p)
    PROVE  \/ \E o \in Names : Info(o).pkg = p /\ Info(o).kind \in {"type", "func"} /\ d = VarDecl(o)
           \/ \E i : Known(i) /\ PkgOf(i) = p /\ Info(i.o).kind = "type" /\ d = TypeDecl(i)
           \/ \E o \in Names : /\ Info(o).pkg = p /\ Info(o).kind = "var" /\ d = ValueDecl(o)
                               /\ Known(Plain(o)) /\ Plain(o).o = o
           \/ \E i : /\ Known(i) /\ PkgOf(i) = p /\ Info(i.o).kind \in {"func", "method"}
                     /\ d = FuncDecl(i)
<1>1. prog \in Programs /\ sources \subseteq AllPkgs
  BY CollectedFacts
<1>2. \A o \in ToSet(prog.order[p]) : o \in Names /\ Info(o).pkg = p
  BY <1>1, ProgramFacts
<1>3. ASSUME NEW o \in ToSet(prog.order[p]), NEW i \in KnownInstances(o)
      PROVE  Known(i) /\ i.o = o /\ PkgOf(i) = p
  BY <1>2, <1>3, KnownInstancesAre DEF PkgOf
<1>4. CASE d \in NamedTypeDecls(p)
  <2>1. CASE \E o \in TypeNames(p) : d = VarDecl(o)
    BY <1>2, <2>1 DEF TypeNames
  <2>2. CASE \E o \in TypeNames(p) : \E i \in KnownInstances(o) : d = TypeDecl(i)
    BY <1>3, <2>2 DEF TypeNames
  <2> QED
    BY <1>4, <2>1, <2>2 DEF NamedTypeDecls
<1>5. CASE d \in VarDecls(p)
  <2>1. PICK o \in ToSet(prog.order[p]) : Info(o).kind = "var" /\ d = ValueDecl(o)
    BY <1>5 DEF VarDecls, ValueDecl
  <2>2. o \in Names /\ Info(o).pkg = p /\ ~HasT(o)
    BY <1>1, <1>2, <2>1, ObjectFacts DEF HasT
  <2>3. Known(Plain(o)) /\ Plain(o).o = o
    BY <2>2, PlainKnown
  <2> QED
    BY <2>1, <2>2, <2>3
<1>6. CASE d \in FuncDecls(p)
  <2>1. CASE \E o \in Functions(p) : Info(o).kind = "func" /\ d = VarDecl(o)
    BY <1>2, <2>1 DEF Functions
  <2>2. CASE \E o \in Functions(p) : \E i \in KnownInstances(o) : d = FuncDecl(i)
    BY <1>3, <2>2 DEF Functions
  <2> QED
    BY <1>6, <2>1, <2>2 DEF FuncDecls
<1> QED
  BY <1>4, <1>5, <1>6 DEF Decls

(* And all that is known has its declarations.                             *)
LEMMA DeclsHave ==
    ASSUME AllCollected, NEW i, Known(i)
    PROVE  /\ Info(i.o).kind = "type" => VarDecl(i.o) \in Decls(PkgOf(i)) /\ TypeDecl(i) \in Decls(PkgOf(i))
           /\ Info(i.o).kind = "var" => ValueDecl(i.o) \in Decls(PkgOf(i))
           /\ Info(i.o).kind = "func" => VarDecl(i.o) \in Decls(PkgOf(i))
           /\ Info(i.o).kind \in {"func", "method"} => FuncDecl(i) \in Decls(PkgOf(i))
           /\ PkgOf(i) \in sources
<1> DEFINE p == PkgOf(i)
<1>1. /\ prog \in Programs /\ IsInst(i, sources) /\ i.o \in Names /\ Info(i.o).pkg = p /\ p \in sources
      /\ i.o \in ToSet(prog.order[p])
  <2>1. prog \in Programs /\ IsInst(i, sources)
    BY CollectedFacts DEF Known
  <2>2. i.o \in Names /\ Info(i.o).pkg \in sources
    BY <2>1, InstIs
  <2> QED
    BY <2>1, <2>2, ObjectFacts DEF PkgOf
<1>2. i \in KnownInstances(i.o)
  BY <1>1, KnownInstancesAre
<1> HIDE DEF p
<1>3. CASE Info(i.o).kind = "type"
  <2>1. Info(i.o).nest = None \/ KnownInstances(Info(i.o).nest) # {}
    <3>1. SUFFICES ASSUME Info(i.o).nest # None
                   PROVE  KnownInstances(Info(i.o).nest) # {}
      OBVIOUS
    <3>2. i.nest # NoType /\ ~IsTrivial(i)
      BY <1>1, <3>1, InstIs DEF IsTrivial
    <3> DEFINE j == Inst(Info(i.o).nest, i.nest, NoType)
    <3>3. j \in Collected /\ j.o = Info(i.o).nest
      BY <3>2, CollectedFacts, InstFields DEF Known
    <3> HIDE DEF j
    <3>4. Known(j) /\ j.o \in Names /\ Info(j.o).pkg \in sources
      BY <1>1, <3>3, CollectedFacts, InstIs DEF Known
    <3>5. j \in KnownInstances(Info(i.o).nest)
      BY <3>3, <3>4, KnownInstancesAre
    <3> QED
      BY <3>5
  <2>2. i.o \in TypeNames(p)
    BY <1>1, <1>3, <2>1 DEF TypeNames
  <2>3. VarDecl(i.o) \in NamedTypeDecls(p) /\ TypeDecl(i) \in NamedTypeDecls(p)
    BY <1>2, <2>2 DEF NamedTypeDecls
  <2> QED
    BY <1>1, <1>3, <2>3 DEF Decls, p
<1>4. CASE Info(i.o).kind = "var"
  <2>1. ValueDecl(i.o) \in VarDecls(p)
    BY <1>1, <1>4 DEF VarDecls, ValueDecl
  <2> QED
    BY <1>1, <1>4, <2>1 DEF Decls, p
<1>5. CASE Info(i.o).kind \in {"func", "method"}
  <2>1. i.o \in Functions(p)
    BY <1>1, <1>2, <1>5 DEF Functions
  <2>2. FuncDecl(i) \in FuncDecls(p) /\ (Info(i.o).kind = "func" => VarDecl(i.o) \in FuncDecls(p))
    BY <1>2, <2>1 DEF FuncDecls
  <2> QED
    BY <1>1, <1>5, <2>2 DEF Decls, p
<1>6. Info(i.o).kind \in {"func", "method", "type", "var"}
  BY <1>1, ObjectFacts
<1> QED
  BY <1>1, <1>3, <1>4, <1>5, <1>6 DEF p

-----------------------------------------------------------------------------
(* What may block is compiled to be resumed.                               *)

DeclBlocks(d) ==
    /\ d.kind = "func" /\ d.inst \in EverBlocks => d.blocking
    /\ \A c \in d.calls : c.callee \in EverBlocks => c.blocking

(* In every archive, old ones too, and so in what is written.              *)
ArchivesThere ==
    /\ phase = "compile" => sources \ todo \subseteq DOMAIN archives
    /\ phase \in {"select", "written"} => sources \subseteq DOMAIN archives
RunInv ==
    /\ AnalysisInv /\ ArchivesThere
    /\ \A p \in DOMAIN archives : \A d \in archives[p] : DeclBlocks(d)
    /\ phase \in {"select", "written"} => \A d \in program : DeclBlocks(d)
    /\ phase = "written" => \A i \in ran : Known(i)
    /\ blocked \subseteq EverBlocks

LEMMA SameBlocks ==
    ASSUME prog' = prog
    PROVE  /\ EverBlocks' = EverBlocks
           /\ \A d : DeclBlocks(d)' <=> DeclBlocks(d)
<1>1. AnyInst' = AnyInst
  BY DEF AnyInst, AnyType, Names
<1>2. \A i : NewFuncInfo(i)' = NewFuncInfo(i)
  BY DEF NewFuncInfo, Info
<1>3. \A B : BlocksClosed(B)' <=> BlocksClosed(B)
  BY <1>1, <1>2 DEF BlocksClosed
<1>4. EverBlocks' = EverBlocks
  BY <1>1, <1>3 DEF EverBlocks
<1> QED
  BY <1>4 DEF DeclBlocks

LEMMA SameKnown ==
    ASSUME prog' = prog, sources' = sources, instances' = instances
    PROVE  \A i : Known(i)' <=> Known(i)
<1>1. Collected' = Collected
  BY DEF Collected
<1>2. \A i : IsTrivial(i)' <=> IsTrivial(i)
  BY DEF IsTrivial
<1> QED
  BY <1>1, <1>2, SameVisit DEF Known

LEMMA LinkedIn ==
    ASSUME AllCollected
    PROVE  Linked \subseteq sources
<1>1. Closed(sources) /\ {Root, Runtime} \subseteq sources
  BY CollectedFacts
<1> QED
  BY <1>1, ImportsFacts DEF Linked, ImportDependencies, AllPkgs

(* The calls of compiled code and the code itself are as the analysis says.*)
LEMMA DeclsBlock ==
    ASSUME AllCollected, InfosOK, \A i \in DOMAIN infos : Settled(i), NEW p \in sources, NEW d \in Decls(p)
    PROVE  DeclBlocks(d)
<1>1. \A i : i \in DOMAIN infos <=> Known(i) /\ Info(i.o).kind # "type"
  BY FuncInstancesAre DEF InfosOK
<1>2. \A i \in DOMAIN infos : i \in EverBlocks => infos[i].blocking
  BY AnalysisFinds
<1>3. ASSUME NEW i, Known(i), NEW c \in CallSites(i), c.callee \in EverBlocks
      PROVE  c.blocking
  <2>1. PICK u \in UsesOf(prog, i, {"call", "method"}) :
            c = [callee |-> CalleeInst(u, i), blocking |-> IsBlocking(infos, CalleeInst(u, i))]
    BY <1>3 DEF CallSites
  <2>2. u \in Info(i.o).uses /\ u.k \in {"call", "method"}
    BY DEF UsesOf, Uses, Obj, Info
  <2>3. Known(CalleeInst(u, i)) /\ Info(CalleeInst(u, i).o).kind # "type"
    BY <1>3, <2>2, KnownCallee
  <2>4. c.callee = CalleeInst(u, i) /\ c.blocking = infos[CalleeInst(u, i)].blocking
    BY <2>1 DEF IsBlocking
  <2> QED
    BY <1>1, <1>2, <1>3, <2>3, <2>4
<1>4. CASE \E o \in Names : d = VarDecl(o)
  BY <1>4, VarDeclIs DEF DeclBlocks
<1>5. CASE \E i : d = TypeDecl(i)
  BY <1>5, TypeDeclIs DEF DeclBlocks
<1>6. CASE \E o \in Names : d = ValueDecl(o) /\ Known(Plain(o))
  BY <1>3, <1>6, ValueDeclIs DEF DeclBlocks
<1>7. CASE \E i : Known(i) /\ Info(i.o).kind \in {"func", "method"} /\ d = FuncDecl(i)
  <2>1. PICK i : Known(i) /\ Info(i.o).kind \in {"func", "method"} /\ d = FuncDecl(i)
    BY <1>7
  <2>2. d.inst = i /\ d.calls = CallSites(i) /\ d.blocking = infos[i].blocking
    BY <2>1, FuncDeclIs DEF IsBlocking
  <2>3. i \in DOMAIN infos
    BY <1>1, <2>1
  <2> QED
    BY <1>2, <1>3, <2>1, <2>2, <2>3 DEF DeclBlocks
<1> QED
  BY <1>4, <1>5, <1>6, <1>7, DeclsAre

LEMMA RunInit ==
    ASSUME Init
    PROVE  RunInv
<1>1. phase = "load" /\ archives = <<>> /\ blocked = {}
  BY DEF Init
<1> QED
  BY <1>1, AnalysisInit DEF RunInv, ArchivesThere

(* Steps that leave the archives and what runs as they are.                *)
LEMMA RunKept ==
    ASSUME RunInv, AnalysisInv', UNCHANGED <<prog, archives>>, ArchivesThere',
           phase' \notin {"select", "written"}, blocked' \subseteq EverBlocks
    PROVE  RunInv'
<1>1. archives' = archives /\ EverBlocks' = EverBlocks /\ \A d : DeclBlocks(d)' <=> DeclBlocks(d)
  BY SameBlocks
<1>2. \A p \in DOMAIN archives' : \A d \in archives'[p] : DeclBlocks(d)'
  BY <1>1 DEF RunInv
<1> QED
  BY <1>1, <1>2 DEF RunInv

LEMMA CompileStep ==
    ASSUME RunInv, AnalysisInv', CompilePackage
    PROVE  RunInv'
<1> DEFINE p == First(todo)
<1>1. /\ prog' = prog /\ sources' = sources /\ blocked' = blocked /\ phase = "compile" /\ todo # {}
      /\ todo' = todo \ {p}
  BY DEF CompilePackage
<1>2. /\ AllCollected /\ InfosOK /\ \A i \in DOMAIN infos : Settled(i)
  BY <1>1 DEF RunInv, AnalysisInv, AllCollected, CollectInv
<1>3. p \in todo /\ p \in sources
  BY <1>1, <1>2, CollectedFacts, FirstIn
<1>4. Compiles(p)
  <2>1. \A i : Known(i) /\ Info(i.o).kind # "type" => i \in DOMAIN infos
    BY <1>2, FuncInstancesAre DEF InfosOK
  <2> QED
    BY <1>2, <1>3, <2>1, KnownCompiles
<1>5. /\ phase' = phase
      /\ IF p \in DOMAIN archives THEN archives' = archives
         ELSE archives' = [q \in DOMAIN archives \cup {p} |-> IF q = p THEN Decls(p) ELSE archives[q]]
  BY <1>4 DEF CompilePackage
<1> HIDE DEF p
<1>6. /\ DOMAIN archives' = DOMAIN archives \cup {p}
      /\ \A q \in DOMAIN archives' : archives'[q] = (IF q \in DOMAIN archives THEN archives[q] ELSE Decls(p))
  BY <1>5
<1>7. \A q \in DOMAIN archives' : \A d \in archives'[q] : DeclBlocks(d)
  <2>1. \A d \in Decls(p) : DeclBlocks(d)
    BY <1>2, <1>3, DeclsBlock
  <2> QED
    BY <1>6, <2>1 DEF RunInv
<1>8. ArchivesThere'
  BY <1>1, <1>5, <1>6 DEF RunInv, ArchivesThere
<1> QED
  BY <1>1, <1>5, <1>7, <1>8, SameBlocks DEF RunInv

LEMMA WriteStep ==
    ASSUME RunInv, AnalysisInv', WriteProgram
    PROVE  RunInv'
<1>1. /\ prog' = prog /\ sources' = sources /\ instances' = instances /\ todo' = todo
      /\ archives' = archives /\ phase = "select" /\ phase' \in {"select", "written"} /\ blocked' = {}
      /\ program' = program \cup Alive(UNION {archives[p] : p \in Linked}, Linked, program)
      /\ ran' \subseteq Starts(prog, Linked)
  BY DEF WriteProgram
<1>2. AllCollected
  BY <1>1 DEF RunInv, AnalysisInv, AllCollected, CollectInv
<1>3. Linked \subseteq sources /\ sources \subseteq DOMAIN archives
  BY <1>1, <1>2, LinkedIn DEF RunInv, ArchivesThere
<1>4. ASSUME NEW d \in program'
      PROVE  DeclBlocks(d)
  <2>1. CASE d \in program
    BY <1>1, <2>1 DEF RunInv
  <2>2. CASE d \notin program
    <3>1. d \in UNION {archives[p] : p \in Linked}
      BY <1>1, <1>4, <2>2 DEF Alive
    <3>2. PICK p \in Linked : d \in archives[p]
      BY <3>1
    <3> QED
      BY <1>3, <3>2 DEF RunInv
  <2> QED
    BY <2>1, <2>2
<1>5. \A i \in ran' : Known(i)'
  <2>1. \A i \in ran' : Known(i)
    BY <1>1, <1>2, <1>3, StartsKnown
  <2> QED
    BY <1>1, <2>1, SameKnown
<1>6. ArchivesThere'
  BY <1>1 DEF RunInv, ArchivesThere
<1>7. \A p \in DOMAIN archives : \A d \in archives[p] : DeclBlocks(d)
  BY DEF RunInv
<1> QED
  BY <1>1, <1>4, <1>5, <1>6, <1>7, SameBlocks DEF RunInv

LEMMA RunStep ==
    ASSUME RunInv, AnalysisInv', Run
    PROVE  RunInv'
<1>1. /\ prog' = prog /\ sources' = sources /\ instances' = instances /\ todo' = todo
      /\ archives' = archives /\ phase = "written" /\ phase' = "written" /\ program' = program
      /\ ran' = RunsNext(prog, ran) /\ blocked' = BlocksNext(prog, ran, blocked)
  BY DEF Run
<1>2. AllCollected /\ \A i \in ran : Known(i)
  BY <1>1 DEF RunInv, AnalysisInv, AllCollected, CollectInv
<1>3. ran \subseteq AnyInst
  BY <1>2, CollectedFacts, KnownIsInst DEF Known
<1>4. blocked' \subseteq EverBlocks
  BY <1>1, <1>3, RunBlocks DEF RunInv
<1>5. \A i \in ran' : Known(i)'
  <2>1. \A i \in ran' : Known(i)
    BY <1>1, <1>2, RunsKnown
  <2> QED
    BY <1>1, <2>1, SameKnown
<1>6. ArchivesThere'
  BY <1>1 DEF RunInv, ArchivesThere
<1>7. /\ \A p \in DOMAIN archives : \A d \in archives[p] : DeclBlocks(d)
      /\ \A d \in program : DeclBlocks(d)
  BY <1>1 DEF RunInv
<1> QED
  BY <1>1, <1>4, <1>5, <1>6, <1>7, SameBlocks DEF RunInv

LEMMA RunInvStep ==
    ASSUME RunInv, [Next]_vars
    PROVE  RunInv'
<1>1. AnalysisInv'
  BY AnalysisStep DEF RunInv
<1>2. CASE LoadAndScan \/ (\E p \in ToSet(Pkgs) : Propagate(p)) \/ AnalyzeAll
  <2>1. /\ UNCHANGED <<prog, archives, blocked>> /\ phase' \in {"collect", "propagate", "panic"}
    BY <1>2 DEF LoadAndScan, Propagate, AnalyzeAll
  <2>2. ArchivesThere' /\ blocked' \subseteq EverBlocks
    BY <2>1 DEF ArchivesThere, RunInv
  <2> QED
    BY <1>1, <2>1, <2>2, RunKept
<1>3. CASE PropagateAnalysis
  <2>1. /\ UNCHANGED <<prog, sources, archives, blocked>>
        /\ phase' \in {"propagate", "again", "compile"} /\ (phase' = "compile" => todo' = sources)
    BY <1>3 DEF PropagateAnalysis
  <2>2. ArchivesThere' /\ blocked' \subseteq EverBlocks
    BY <2>1 DEF ArchivesThere, RunInv
  <2> QED
    BY <1>1, <2>1, <2>2, RunKept
<1>4. CASE CompilePackage
  BY <1>1, <1>4, CompileStep
<1>5. CASE LinkPackages
  <2>1. /\ UNCHANGED <<prog, sources, archives, blocked>> /\ phase = "compile" /\ todo = {}
        /\ phase' = "select" /\ program' = {}
    BY <1>5 DEF LinkPackages
  <2>2. ArchivesThere'
    BY <2>1 DEF ArchivesThere, RunInv
  <2>3. \A p \in DOMAIN archives : \A d \in archives[p] : DeclBlocks(d)
    BY DEF RunInv
  <2> QED
    BY <1>1, <2>1, <2>2, <2>3, SameBlocks DEF RunInv
<1>6. CASE WriteProgram
  BY <1>1, <1>6, WriteStep
<1>7. CASE Run
  BY <1>1, <1>7, RunStep
<1>8. CASE NextRoot
  <2>1. UNCHANGED <<prog, archives>> /\ phase' = "load" /\ blocked' = {}
    BY <1>8 DEF NextRoot
  <2>2. ArchivesThere' /\ blocked' \subseteq EverBlocks
    BY <2>1 DEF ArchivesThere
  <2> QED
    BY <1>1, <2>1, <2>2, RunKept
<1>9. CASE UNCHANGED vars
  <2>1. UNCHANGED <<prog, sources, phase, instances, todo, archives, program, ran, blocked>>
    BY <1>9 DEF vars
  <2>2. ArchivesThere'
    BY <2>1 DEF ArchivesThere, RunInv
  <2> QED
    BY <1>1, <2>1, <2>2, SameBlocks, SameKnown DEF RunInv
<1> QED
  BY <1>2, <1>3, <1>4, <1>5, <1>6, <1>7, <1>8, <1>9 DEF Next

LEMMA RunHolds == Spec => []RunInv
<1>1. Init => RunInv
  BY RunInit
<1>2. RunInv /\ [Next]_vars => RunInv'
  BY RunInvStep
<1> QED
  BY <1>1, <1>2, PTL DEF Spec

(* A function that may block while the program runs is compiled so that it *)
(* can be resumed, and so is every call of it: for all roots of a session, *)
(* although the archives of the earlier ones were compiled when less was   *)
(* known (propagateFunctionBlocking, Session.UpToDateArchives).            *)
THEOREM BlockingIsCompiled == Spec => []BlockingIsKnown
<1>1. RunInv => BlockingIsKnown
  <2>1. ASSUME RunInv, phase = "written", NEW d \in program
        PROVE  /\ d.kind = "func" /\ d.inst \in blocked => d.blocking
               /\ \A c \in d.calls : c.callee \in blocked => c.blocking
    <3>1. DeclBlocks(d) /\ blocked \subseteq EverBlocks
      BY <2>1 DEF RunInv
    <3> QED
      BY <3>1 DEF DeclBlocks
  <2> QED
    BY <2>1 DEF BlockingIsKnown
<1> QED
  BY <1>1, RunHolds, PTL

-----------------------------------------------------------------------------
(* Declarations are a function of the program, the instances and the infos.*)
LEMMA SameNames ==
    ASSUME prog' = prog
    PROVE  /\ \A o, nest, arg : GetFilters(o, nest, arg)' = GetFilters(o, nest, arg)
           /\ \A i, ctx : InstName(i, ctx)' = InstName(i, ctx)
           /\ \A t, ctx : TypeName(t, ctx)' = TypeName(t, ctx)
           /\ \A u, ctx : UseDeps(u, ctx)' = UseDeps(u, ctx)
<1>1. \A o : Info(o)' = Info(o)
  BY DEF Info
<1>2. \A o, nest, arg : ObjectFilter(o, nest, arg)' = ObjectFilter(o, nest, arg)
  BY <1>1 DEF ObjectFilter
<1>3. \A m, arg : MethodFilter(m, arg)' = MethodFilter(m, arg)
  BY <1>1 DEF MethodFilter
<1>4. \A o, nest, arg : GetFilters(o, nest, arg)' = GetFilters(o, nest, arg)
  BY <1>1, <1>2, <1>3 DEF GetFilters
<1>5. \A o, ctx : ObjectName(o, ctx)' = ObjectName(o, ctx)
  BY <1>1, <1>2 DEF ObjectName
<1>6. \A i, ctx : InstName(i, ctx)' = InstName(i, ctx)
  BY <1>4, <1>5 DEF InstName
<1>7. \A t, ctx : TypeName(t, ctx)' = TypeName(t, ctx)
  BY <1>6 DEF TypeName
<1>8. ASSUME NEW u, NEW ctx
      PROVE  UseDeps(u, ctx)' = UseDeps(u, ctx)
  <2>1. /\ InstName(CalleeInst(u, ctx), ctx)' = InstName(CalleeInst(u, ctx), ctx)
        /\ TypeName(LiteralType(prog, u, ctx), ctx)' = TypeName(LiteralType(prog, u, ctx), ctx)
        /\ GetFilters(u.o, NoType, Substitute(u.a, Arg(ctx)))' = GetFilters(u.o, NoType, Substitute(u.a, Arg(ctx)))
        /\ ObjectFilter(u.o, ctx.args, NoType)' = ObjectFilter(u.o, ctx.args, NoType)
        /\ ObjectName(u.o, Nowhere)' = ObjectName(u.o, Nowhere)
        /\ Info(u.o)' = Info(u.o)
    BY <1>1, <1>2, <1>4, <1>5, <1>6, <1>7
  <2> QED
    BY <2>1 DEF UseDeps
<1> QED
  BY <1>4, <1>6, <1>7, <1>8

(* The declaration of the code of an instance.                             *)
DeclOf(i) == IF Info(i.o).kind = "type" THEN TypeDecl(i)
             ELSE IF Info(i.o).kind = "var" THEN ValueDecl(i.o) ELSE FuncDecl(i)
IndexIn(s, i) == CHOOSE n \in DOMAIN s : s[n] = i

LEMMA SameDecls ==
    ASSUME prog' = prog, sources' = sources, instances' = instances, infos' = infos
    PROVE  /\ \A p : Decls(p)' = Decls(p)
           /\ \A i : DeclOf(i)' = DeclOf(i)
<1>1. \A o : Info(o)' = Info(o) /\ KnownInstances(o)' = KnownInstances(o)
  BY SameInfos DEF Info
<1>2. \A i : PkgOf(i)' = PkgOf(i) /\ Lvalue(i)' = Lvalue(i)
  BY <1>1 DEF PkgOf, Lvalue, Recv
<1>3. /\ \A o, nest, arg : GetFilters(o, nest, arg)' = GetFilters(o, nest, arg)
      /\ \A i, ctx : InstName(i, ctx)' = InstName(i, ctx)
      /\ \A t, ctx : TypeName(t, ctx)' = TypeName(t, ctx)
      /\ \A u, ctx : UseDeps(u, ctx)' = UseDeps(u, ctx)
  BY SameNames
<1>4. \A i : Id(i)' = Id(i)
  <2>1. \A i : Id(i) = IF IsTrivial(i) THEN 0 ELSE IndexIn(instances[PkgOf(i)], i)
    BY DEF Id, IndexIn
  <2>2. \A i : Id(i)' = IF IsTrivial(i) THEN 0 ELSE IndexIn(instances'[PkgOf(i)'], i)
    BY DEF Id, IndexIn
  <2> QED
    BY <1>2, <2>1, <2>2
<1>5. \A i : Mentioned(i)' = Mentioned(i)
  BY DEF Mentioned
<1>6. \A i : References(i)' = References(i)
  BY <1>4, <1>5 DEF References
<1>7. \A i : CallSites(i)' = CallSites(i) /\ IsBlocking(infos, i)' = IsBlocking(infos, i)
  BY DEF CallSites, IsBlocking
<1>8. \A kind, i : Decl(kind, i)' = Decl(kind, i)
  BY <1>2, <1>4 DEF Decl
<1>9. \A o : VarDecl(o)' = VarDecl(o)
  BY <1>3, <1>8 DEF VarDecl, SetName
<1>10. ASSUME NEW i
       PROVE  TypeDecl(i)' = TypeDecl(i)
  <2>1. MethodsOf(prog, i.o)' = MethodsOf(prog, i.o) /\ Uses(prog, i)' = Uses(prog, i)
    OBVIOUS
  <2>2. (UNION {UseDeps(u, i) : u \in Uses(prog, i)})' = UNION {UseDeps(u, i) : u \in Uses(prog, i)}
    BY <1>3, <2>1
  <2>3. (UNION {TypeName(Substitute(Info(m).sig, i.args), i) : m \in MethodsOf(prog, i.o)})'
          = UNION {TypeName(Substitute(Info(m).sig, i.args), i) : m \in MethodsOf(prog, i.o)}
    BY <1>1, <1>3, <2>1
  <2>4. GetFilters(i.o, i.nest, i.args)' = GetFilters(i.o, i.nest, i.args)
    BY <1>3
  <2> QED
    BY <1>3, <1>6, <1>8, <2>2, <2>3, <2>4 DEF TypeDecl, SetName, CollectDCEDeps
<1>11. ASSUME NEW i
       PROVE  FuncDecl(i)' = FuncDecl(i)
  <2>1. (UNION {UseDeps(u, i) : u \in Uses(prog, i)})' = UNION {UseDeps(u, i) : u \in Uses(prog, i)}
    BY <1>3
  <2>2. GetFilters(i.o, i.nest, i.args)' = GetFilters(i.o, i.nest, i.args)
    BY <1>3
  <2>3. InstName(Lvalue(i), i)' = InstName(Lvalue(i), i) /\ Id(Lvalue(i))' = Id(Lvalue(i))
    BY <1>2, <1>3, <1>4
  <2> QED
    BY <1>1, <1>2, <1>6, <1>7, <1>8, <2>1, <2>2, <2>3 DEF FuncDecl, SetName, CollectDCEDeps, SetAsAlive
<1>12. ASSUME NEW o
       PROVE  ValueDecl(o)' = ValueDecl(o)
  <2>1. (UNION {UseDeps(u, Plain(o)) : u \in Uses(prog, Plain(o))})'
          = UNION {UseDeps(u, Plain(o)) : u \in Uses(prog, Plain(o))}
    BY <1>3
  <2>2. /\ Decl("value", Plain(o))' = Decl("value", Plain(o))
        /\ References(Plain(o))' = References(Plain(o)) /\ CallSites(Plain(o))' = CallSites(Plain(o))
        /\ GetFilters(o, NoType, NoType)' = GetFilters(o, NoType, NoType)
    BY <1>3, <1>6, <1>7, <1>8
  <2> QED
    BY <2>1, <2>2 DEF ValueDecl, SetName, CollectDCEDeps, SetAsAlive
<1>13. \A p : NamedTypeDecls(p)' = NamedTypeDecls(p)
  <2>1. \A p : TypeNames(p)' = TypeNames(p)
    BY <1>1 DEF TypeNames
  <2> QED
    BY <1>1, <1>9, <1>10, <2>1 DEF NamedTypeDecls
<1>14. \A p : FuncDecls(p)' = FuncDecls(p)
  <2>1. \A p : Functions(p)' = Functions(p)
    BY <1>1 DEF Functions
  <2> QED
    BY <1>1, <1>9, <1>11, <2>1 DEF FuncDecls
<1>15. \A p : VarDecls(p)' = VarDecls(p)
  <2>1. \A p : VarDecls(p) = {ValueDecl(o) : o \in {x \in ToSet(prog.order[p]) : Info(x).kind = "var"}}
    BY DEF VarDecls, ValueDecl
  <2>2. \A p : VarDecls(p)' = {ValueDecl(o) : o \in {x \in ToSet(prog.order[p]) : Info(x).kind = "var"}}'
    BY DEF VarDecls, ValueDecl
  <2> QED
    BY <1>1, <1>12, <2>1, <2>2
<1>16. \A i : DeclOf(i)' = DeclOf(i)
  BY <1>1, <1>10, <1>11, <1>12 DEF DeclOf
<1> QED
  BY <1>13, <1>14, <1>15, <1>16 DEF Decls

-----------------------------------------------------------------------------
(* What the code of a declaration depends on names the declarations of     *)
(* all that it refers to.                                                  *)

LEMMA InstNameHas ==
    ASSUME prog \in Programs, NEW S, NEW j, IsInst(j, S), Info(j.o).kind \in {"func", "type"},
           NEW ctx, ctx = Nowhere \/ ctx.o \in Names
    PROVE  /\ GetFilters(j.o, j.nest, j.args) \subseteq InstName(j, ctx)
           /\ GetFilters(j.o, j.nest, j.args) = {ObjectFilter(j.o, j.nest, j.args)}
           /\ Info(j.o).nest # ctx.o => ObjectFilter(j.o, NoType, NoType) \in InstName(j, ctx)
           /\ ObjectFilter(j.o, NoType, NoType) \in InstName(j, Nowhere)
<1>1. GetFilters(j.o, j.nest, j.args) = {ObjectFilter(j.o, j.nest, j.args)}
  BY DEF GetFilters
<1>2. Info(j.o).nest # ctx.o => ObjectName(j.o, ctx) = {ObjectFilter(j.o, NoType, NoType)}
  BY DEF ObjectName
<1>3. ObjectName(j.o, Nowhere) = {ObjectFilter(j.o, NoType, NoType)}
  BY DEF ObjectName
<1>4. CASE IsTrivial(j)
  <2>1. Info(j.o).nest = None /\ j.args = NoType /\ j.nest = NoType
    BY <1>4, InstIs DEF HasT, IsTrivial
  <2>2. ObjectName(j.o, ctx) = {ObjectFilter(j.o, NoType, NoType)}
    <3>1. ctx = Nowhere \/ ctx.o # None
      BY ProgramFacts
    <3> QED
      BY <1>2, <1>3, <2>1, <3>1
  <2> QED
    BY <1>1, <1>2, <1>3, <2>1, <2>2 DEF InstName
<1>5. CASE ~IsTrivial(j)
  BY <1>1, <1>2, <1>3, <1>5 DEF InstName
<1> QED
  BY <1>4, <1>5

(* The receiver of a static method call.                                   *)
LEMMA MethodLiteral ==
    ASSUME AllCollected, NEW i, Known(i), NEW u \in Info(i.o).uses, u.k = "method"
    PROVE  /\ IsNamed(LiteralType(prog, u, i))
           /\ TypeInst(prog, LiteralType(prog, u, i), i) = Recv(CalleeInst(u, i))
<1> DEFINE L == Literal(prog, u)
           t == LiteralType(prog, u, i)
           a == Arg(i)
           r == Info(u.o).recv
<1>1. /\ prog \in Programs /\ Closed(sources) /\ i.o \in Names /\ Info(i.o).pkg \in sources
      /\ IsInst(i, sources) /\ T # None
  BY CollectedFacts, InstIs, ProgramFacts DEF Known
<1>2. /\ IsType(prog, L) /\ IsNamed(L) /\ Outer(L) = r /\ ArgOf(L) = u.a /\ (IsGeneric(L) => HasT(i.o))
      /\ IsGeneric(L) <=> IsGeneric(u.a)
  BY <1>1, LiteralFacts, NoTypeFacts
<1>3. t = Substitute(L, a)
  BY DEF LiteralType
<1>4. IsNamed(t) /\ Outer(t) = r /\ ArgOf(t) = Substitute(u.a, a)
  <2>1. CASE IsGeneric(L)
    <3>1. IsType(prog, a)
      BY <1>1, <1>2, <2>1, InstIs, ClosedIs
    <3>2. L.named \in Seq(Names) /\ a.named \in Seq(Names) /\ L.named # <<>>
      BY <1>2, <3>1, TypeFields DEF IsNamed
    <3>3. t.named = L.named \o a.named /\ t.base = a.base
      BY <1>3, <2>1, SubstituteFields
    <3>4. Head(t.named) = Head(L.named) /\ Tail(t.named) = Tail(L.named) \o a.named
      BY <3>2, <3>3, HeadTailConcat
    <3>5. Outer(t) = r
      BY <1>2, <3>4 DEF Outer
    <3>6. u.a.named = Tail(L.named) /\ u.a.base = L.base
      <4>1. ArgOf(L).named = Tail(L.named) /\ ArgOf(L).base = L.base
        BY DEF ArgOf, Type
      <4> QED
        BY <1>2, <4>1
    <3>7. ArgOf(t) = Substitute(u.a, a)
      <4>1. Substitute(u.a, a) = Type(u.a.named \o a.named, a.base)
        BY <1>2, <2>1, SubstituteFields
      <4> QED
        BY <3>3, <3>4, <3>6, <4>1 DEF ArgOf
    <3>8. t.named # <<>>
      BY <3>2, <3>3, ConcatEqualIffEmpty
    <3> QED
      BY <3>5, <3>7, <3>8 DEF IsNamed
  <2>2. CASE ~IsGeneric(L)
    <3>1. t = L /\ Substitute(u.a, a) = u.a
      BY <1>2, <1>3, <2>2, SubstituteClosed
    <3> QED
      BY <1>2, <3>1
  <2> QED
    BY <2>1, <2>2
<1>5. Info(r).nest = None
  <2>1. u.o \in Names /\ Info(u.o).kind = "method"
    BY <1>1, UseFacts
  <2> QED
    BY <1>1, <2>1, ObjectFacts
<1>6. TypeInst(prog, t, i) = Inst(r, Substitute(u.a, a), NoType)
  BY <1>4, <1>5 DEF TypeInst, Obj, Info
<1>7. Recv(CalleeInst(u, i)) = Inst(r, Substitute(u.a, a), NoType)
  <2>1. CalleeInst(u, i).o = u.o /\ CalleeInst(u, i).args = Substitute(u.a, a)
    BY InstFields DEF CalleeInst
  <2> QED
    BY <2>1 DEF Recv
<1> QED
  BY <1>4, <1>6, <1>7

-----------------------------------------------------------------------------
(* What is selected: all declarations that are alive, given those that are *)
(* selected.                                                               *)
LinkedDecls == UNION {Decls(p) : p \in sources}
NamedDeps == UNION {d.deps : d \in program}
Chosen == program \subseteq LinkedDecls /\ Alive(LinkedDecls, sources, program) \subseteq program

LEMMA ChosenHas ==
    ASSUME Chosen, NEW d \in LinkedDecls,
           d.alive \/ IsImplementation(d, sources) \/ d.filters \subseteq NamedDeps
    PROVE  d \in program
BY DEF Chosen, Alive, NamedDeps

(* The declaration of a known instance.                                    *)
LEMMA DeclOfIs ==
    ASSUME AllCollected, NEW i, Known(i)
    PROVE  /\ DeclOf(i) \in LinkedDecls /\ DeclOf(i).inst = i /\ DeclOf(i).id = Id(i)
           /\ DeclOf(i).kind \in {"func", "type", "value"}
           /\ Info(i.o).kind # "var" => DeclOf(i).kind \in {"func", "type"}
           /\ DeclOf(i).filters = GetFilters(i.o, i.nest, i.args)
           /\ UseDepsOf(i) \subseteq DeclOf(i).deps
<1>1. /\ prog \in Programs /\ IsInst(i, sources) /\ i.o \in Names /\ PkgOf(i) \in sources
      /\ Info(i.o).kind \in {"func", "method", "type", "var"}
  BY CollectedFacts, InstIs, ObjectFacts DEF Known, PkgOf
<1>2. Info(i.o).kind = "var" => i = Plain(i.o) /\ i.nest = NoType /\ i.args = NoType
  <2>1. SUFFICES ASSUME Info(i.o).kind = "var"
                 PROVE  i = Plain(i.o) /\ i.nest = NoType /\ i.args = NoType
    OBVIOUS
  <2>2. ~HasT(i.o)
    BY <1>1, <2>1, ObjectFacts DEF HasT
  <2> QED
    BY <1>1, <2>2, InstIs DEF HasT
<1>3. DeclOf(i) \in Decls(PkgOf(i))
  BY <1>1, DeclsHave DEF DeclOf
<1>4. DeclOf(i) \in LinkedDecls
  BY <1>1, <1>3 DEF LinkedDecls
<1>5. CASE Info(i.o).kind = "type"
  BY <1>4, <1>5, TypeDeclIs DEF DeclOf
<1>6. CASE Info(i.o).kind = "var"
  <2>1. DeclOf(i) = ValueDecl(i.o)
    BY <1>6 DEF DeclOf
  <2> QED
    BY <1>2, <1>4, <1>6, <2>1, ValueDeclIs
<1>7. CASE Info(i.o).kind \in {"func", "method"}
  <2>1. DeclOf(i) = FuncDecl(i)
    BY <1>7 DEF DeclOf
  <2> QED
    BY <1>4, <1>7, <2>1, FuncDeclIs
<1> QED
  BY <1>1, <1>5, <1>6, <1>7

(* What is selected once it is named.                                      *)
LEMMA NamedIsWritten ==
    ASSUME AllCollected, Chosen, NEW j, Known(j), GetFilters(j.o, j.nest, j.args) \subseteq NamedDeps
    PROVE  DeclOf(j) \in program
BY DeclOfIs, ChosenHas

(* The functions that selected code calls or takes the values of, and the  *)
(* types it makes values of, are selected.                                 *)
LEMMA MentionedIsWritten ==
    ASSUME AllCollected, Chosen, NEW i, Known(i), UseDepsOf(i) \subseteq NamedDeps, NEW j \in Mentioned(i)
    PROVE  Known(j) /\ Info(j.o).kind \in {"func", "type"} /\ DeclOf(j) \in program
<1>1. prog \in Programs /\ IsInst(i, sources) /\ i.o \in Names
  BY CollectedFacts, InstIs DEF Known
<1>2. ASSUME NEW u \in Info(i.o).uses, Known(j), Info(j.o).kind \in {"func", "type"},
             InstName(j, i) \subseteq UseDeps(u, i)
      PROVE  DeclOf(j) \in program
  <2>1. UseDeps(u, i) \subseteq NamedDeps
    BY DEF UseDepsOf, Uses, Obj, Info
  <2>2. GetFilters(j.o, j.nest, j.args) \subseteq InstName(j, i)
    BY <1>1, <1>2, InstNameHas DEF Known
  <2> QED
    BY <1>2, <2>1, <2>2, NamedIsWritten
<1>3. CASE j \in {CalleeInst(u, i) : u \in UsesOf(prog, i, {"call", "value"})}
  <2>1. PICK u \in Info(i.o).uses : u.k \in {"call", "value"} /\ j = CalleeInst(u, i)
    BY <1>3 DEF UsesOf, Uses, Obj, Info
  <2>2. Known(j) /\ Info(j.o).kind = "func"
    BY <2>1, KnownCallee
  <2>3. InstName(j, i) \subseteq UseDeps(u, i)
    BY <2>1 DEF UseDeps
  <2> QED
    BY <1>2, <2>2, <2>3
<1>4. CASE j \in Makes(prog, i)
  <2>1. PICK u \in Info(i.o).uses : /\ u.k \in {"type", "method"} /\ IsNamed(LiteralType(prog, u, i))
                                    /\ j = TypeInst(prog, LiteralType(prog, u, i), i)
    BY <1>4 DEF Makes, UsesOf, Uses, Obj, Info
  <2>2. Known(j) /\ Info(j.o).kind = "type"
    BY <1>4, KnownMade
  <2>3. InstName(j, i) \subseteq UseDeps(u, i)
    <3>1. TypeName(LiteralType(prog, u, i), i) = InstName(j, i)
      BY <2>1 DEF TypeName
    <3>2. TypeName(LiteralType(prog, u, i), i) \subseteq UseDeps(u, i)
      BY <2>1 DEF UseDeps
    <3> QED
      BY <3>1, <3>2
  <2> QED
    BY <1>2, <2>2, <2>3
<1> QED
  BY <1>3, <1>4 DEF Mentioned

(* Two instances of an object have different numbers.                      *)
LEMMA IdIs ==
    ASSUME AllCollected, NEW j, NEW k, Known(j), Known(k), j.o = k.o, Id(j) = Id(k)
    PROVE  j = k
<1>1. prog \in Programs /\ IsInst(j, sources) /\ IsInst(k, sources)
  BY CollectedFacts DEF Known
<1>2. CASE ~HasT(j.o)
  BY <1>1, <1>2, InstIs
<1>3. CASE HasT(j.o)
  <2> DEFINE s == instances[PkgOf(j)]
  <2>1. ~IsTrivial(j) /\ ~IsTrivial(k)
    BY <1>1, <1>3, InstIs
  <2>2. j \in ToSet(s) /\ k \in ToSet(s) /\ PkgOf(k) = PkgOf(j)
    <3>1. PkgOf(k) = PkgOf(j)
      BY DEF PkgOf
    <3> QED
      BY <2>1, <3>1, CollectedFacts DEF Known
  <2>3. Id(j) = IndexIn(s, j) /\ Id(k) = IndexIn(s, k)
    BY <2>1, <2>2 DEF Id, IndexIn
  <2> HIDE DEF s
  <2>4. (\E n \in DOMAIN s : s[n] = j) /\ \E n \in DOMAIN s : s[n] = k
    BY <2>2 DEF ToSet
  <2>5. s[IndexIn(s, j)] = j /\ s[IndexIn(s, k)] = k
    BY <2>4 DEF IndexIn
  <2> QED
    BY <2>3, <2>5
<1> QED
  BY <1>2, <1>3

(* A reference to a selected declaration leads to it, and to no other.     *)
LEMMA FindsReference ==
    ASSUME AllCollected, Chosen, NEW j, Known(j), Info(j.o).kind \in {"func", "type"}, DeclOf(j) \in program,
           NEW r, r = [o |-> j.o, id |-> Id(j), inst |-> j]
    PROVE  LET found == {e \in program : /\ e.kind \in {"func", "type"}
                                         /\ e.inst.o = r.o /\ e.id = r.id}
           IN  found # {} /\ \A e \in found : e.inst = r.inst
<1> DEFINE found == {e \in program : /\ e.kind \in {"func", "type"} /\ e.inst.o = r.o /\ e.id = r.id}
<1>1. r.o = j.o /\ r.id = Id(j) /\ r.inst = j
  OBVIOUS
<1>2. DeclOf(j) \in found
  <2>1. DeclOf(j).kind \in {"func", "type"} /\ DeclOf(j).inst = j /\ DeclOf(j).id = Id(j)
    BY DeclOfIs
  <2> QED
    BY <1>1, <2>1
<1>3. ASSUME NEW e \in found
      PROVE  e.inst = j
  <2>1. e \in program /\ e.kind \in {"func", "type"} /\ e.inst.o = j.o /\ e.id = Id(j)
    BY <1>1
  <2>2. PICK p \in sources : e \in Decls(p)
    BY <2>1 DEF Chosen, LinkedDecls
  <2>3. \E k : Known(k) /\ (e = TypeDecl(k) \/ e = FuncDecl(k))
    BY <2>1, <2>2, DeclsAre, VarDeclIs, ValueDeclIs
  <2>4. PICK k : Known(k) /\ (e = TypeDecl(k) \/ e = FuncDecl(k))
    BY <2>3
  <2>5. e.inst = k /\ e.id = Id(k)
    <3>1. CASE e = TypeDecl(k)
      BY <3>1, TypeDeclIs
    <3>2. CASE e = FuncDecl(k)
      BY <3>2, FuncDeclIs
    <3> QED
      BY <2>4, <3>1, <3>2
  <2> QED
    BY <2>1, <2>4, <2>5, IdIs
<1> QED
  BY <1>1, <1>2, <1>3

(* All references of what is selected.                                     *)
LEMMA ReferencesFound ==
    ASSUME AllCollected, Chosen, NEW d \in program, NEW r \in d.refs
    PROVE  \E j : /\ Known(j) /\ Info(j.o).kind \in {"func", "type"} /\ DeclOf(j) \in program
                  /\ r = [o |-> j.o, id |-> Id(j), inst |-> j]
<1>1. PICK p \in sources : d \in Decls(p)
  BY DEF Chosen, LinkedDecls
<1>2. d.deps \subseteq NamedDeps
  BY DEF NamedDeps
<1>3. ASSUME NEW i, Known(i), UseDepsOf(i) \subseteq d.deps, r \in References(i)
      PROVE  \E j : /\ Known(j) /\ Info(j.o).kind \in {"func", "type"} /\ DeclOf(j) \in program
                    /\ r = [o |-> j.o, id |-> Id(j), inst |-> j]
  <2>1. PICK j \in Mentioned(i) : r = [o |-> j.o, id |-> Id(j), inst |-> j]
    BY <1>3 DEF References
  <2>2. UseDepsOf(i) \subseteq NamedDeps
    BY <1>2, <1>3
  <2> QED
    BY <1>3, <2>1, <2>2, MentionedIsWritten
<1>4. CASE \E o \in Names : d = VarDecl(o)
  BY <1>4, VarDeclIs
<1>5. CASE \E i : Known(i) /\ d = TypeDecl(i)
  BY <1>3, <1>5, TypeDeclIs
<1>6. CASE \E o \in Names : d = ValueDecl(o) /\ Known(Plain(o))
  BY <1>3, <1>6, ValueDeclIs
<1>7. CASE \E i : Known(i) /\ Info(i.o).kind \in {"func", "method"} /\ d = FuncDecl(i)
  <2>1. PICK i : Known(i) /\ Info(i.o).kind \in {"func", "method"} /\ d = FuncDecl(i)
    BY <1>7
  <2>2. /\ UseDepsOf(i) \subseteq d.deps /\ InstName(Lvalue(i), i) \subseteq d.deps
        /\ d.refs = References(i) \cup {[o |-> Lvalue(i).o, id |-> Id(Lvalue(i)), inst |-> Lvalue(i)]}
    BY <2>1, FuncDeclIs
  <2>3. CASE r \in References(i)
    BY <1>3, <2>1, <2>2, <2>3
  <2>4. CASE r = [o |-> Lvalue(i).o, id |-> Id(Lvalue(i)), inst |-> Lvalue(i)]
    <3>1. Known(Lvalue(i)) /\ Info(Lvalue(i).o).kind \in {"func", "type"}
      BY <2>1, KnownRecv DEF Lvalue
    <3>2. prog \in Programs /\ i.o \in Names
      BY <2>1, CollectedFacts, InstIs DEF Known
    <3>3. GetFilters(Lvalue(i).o, Lvalue(i).nest, Lvalue(i).args) \subseteq InstName(Lvalue(i), i)
      BY <3>1, <3>2, InstNameHas DEF Known
    <3>4. DeclOf(Lvalue(i)) \in program
      BY <1>2, <2>2, <3>1, <3>3, NamedIsWritten
    <3> QED
      BY <2>4, <3>1, <3>4
  <2> QED
    BY <2>2, <2>3, <2>4
<1> QED
  BY <1>1, <1>4, <1>5, <1>6, <1>7, DeclsAre

(* What selected code leads to when it runs is selected.                   *)
RunsWritten(S) == \A i \in S : Known(i) /\ DeclOf(i) \in program

LEMMA StartsWritten ==
    ASSUME AllCollected, Chosen
    PROVE  RunsWritten(Starts(prog, sources))
<1>1. SUFFICES ASSUME NEW i \in Starts(prog, sources)
               PROVE  Known(i) /\ DeclOf(i) \in program
  BY DEF RunsWritten
<1>2. Known(i) /\ Info(i.o).kind # "type" /\ i = Plain(i.o)
  BY StartsKnown
<1>3. PICK o : i = Plain(o) /\ (Info(o).entry \/ (Info(o).kind = "var" /\ HasSideEffect(prog, o)))
  BY DEF Starts, Obj, Info
<1>4. i.o = o
  BY <1>3, InstFields DEF Plain
<1>5. DeclOf(i) \in LinkedDecls
  BY <1>2, DeclOfIs
<1>6. DeclOf(i).alive
  <2>1. CASE Info(o).kind = "var" /\ HasSideEffect(prog, o)
    <3>1. DeclOf(i) = ValueDecl(o)
      BY <1>4, <2>1 DEF DeclOf
    <3> QED
      BY <2>1, <3>1, ValueDeclIs
  <2>2. CASE Info(o).entry
    <3>1. Info(o).kind = "func"
      <4>1. prog \in Programs /\ o \in Names
        BY <1>2, <1>4, CollectedFacts, InstIs DEF Known
      <4> QED
        BY <2>2, <4>1, ObjectFacts
    <3>2. DeclOf(i) = FuncDecl(i)
      BY <1>4, <3>1 DEF DeclOf
    <3> QED
      BY <1>4, <2>2, <3>2, FuncDeclIs
  <2> QED
    BY <1>3, <2>1, <2>2
<1> QED
  BY <1>2, <1>5, <1>6, ChosenHas

LEMMA RunsNextWritten ==
    ASSUME AllCollected, Chosen, NEW S, RunsWritten(S)
    PROVE  RunsWritten(RunsNext(prog, S))
<1>1. prog \in Programs /\ Closed(sources)
  BY CollectedFacts
<1>2. ASSUME NEW i \in S
      PROVE  /\ Known(i) /\ IsInst(i, sources) /\ i.o \in Names /\ DeclOf(i) \in program
             /\ UseDepsOf(i) \subseteq NamedDeps
             /\ \A u \in Info(i.o).uses : UseDeps(u, i) \subseteq NamedDeps
  <2>1. Known(i) /\ DeclOf(i) \in program
    BY <1>2 DEF RunsWritten
  <2>2. UseDepsOf(i) \subseteq DeclOf(i).deps
    BY <2>1, DeclOfIs
  <2>3. UseDepsOf(i) \subseteq NamedDeps
    BY <2>1, <2>2 DEF NamedDeps
  <2>4. \A u \in Info(i.o).uses : UseDeps(u, i) \subseteq NamedDeps
    BY <2>3 DEF UseDepsOf, Uses, Obj, Info
  <2> QED
    BY <1>1, <2>1, <2>3, <2>4, InstIs DEF Known
<1>3. SUFFICES ASSUME NEW j \in RunsNext(prog, S)
               PROVE  Known(j) /\ DeclOf(j) \in program
  BY DEF RunsWritten
<1>4. CASE j \in S
  BY <1>2, <1>4
<1>5. ASSUME NEW i \in S, j \in Refers(prog, i)
      PROVE  Known(j) /\ DeclOf(j) \in program
  <2>1. PICK u \in Info(i.o).uses : u.k \in {"call", "value", "method", "var"} /\ j = CalleeInst(u, i)
    BY <1>5 DEF Refers, UsesOf, Uses, Obj, Info
  <2>2. /\ Known(j) /\ j.o = u.o /\ j = Inst(u.o, Substitute(u.a, Arg(i)), NoType)
        /\ u.k = "method" => Info(u.o).kind = "method"
        /\ u.k = "var" => Info(u.o).kind = "var"
    BY <1>2, <2>1, KnownCallee
  <2>3. UseDeps(u, i) \subseteq NamedDeps
    BY <1>2, <2>1
  <2>4. CASE u.k \in {"call", "value"}
    <3>1. j \in Mentioned(i)
      BY <2>1, <2>4 DEF Mentioned, UsesOf, Uses, Obj, Info
    <3> QED
      BY <1>2, <3>1, MentionedIsWritten
  <2>5. CASE u.k = "var"
    <3>1. IsInst(j, sources) /\ j.o \in Names /\ Info(j.o).kind = "var"
      BY <1>1, <2>2, <2>5, InstIs DEF Known
    <3>2. ~HasT(j.o)
      BY <1>1, <3>1, ObjectFacts DEF HasT
    <3>3. j.nest = NoType /\ j.args = NoType /\ Info(j.o).nest = None
      BY <1>1, <3>1, <3>2, InstIs DEF HasT
    <3>4. UseDeps(u, i) = {ObjectFilter(j.o, NoType, NoType)}
      BY <2>2, <2>5 DEF UseDeps, ObjectName
    <3>5. GetFilters(j.o, j.nest, j.args) = {ObjectFilter(j.o, NoType, NoType)}
      BY <3>1, <3>3 DEF GetFilters
    <3> QED
      BY <2>2, <2>3, <3>4, <3>5, NamedIsWritten
  <2>6. CASE u.k = "method"
    <3> DEFINE a == Substitute(u.a, Arg(i))
    <3>1. /\ j.o = u.o /\ j.args = a /\ j.nest = NoType /\ Info(j.o).kind = "method"
      BY <2>2, <2>6, InstFields
    <3>2. /\ Known(Recv(j)) /\ Info(Recv(j).o).kind = "type" /\ Recv(j).o = Info(j.o).recv
          /\ Recv(j).args = a /\ Recv(j).nest = NoType
      BY <2>2, <3>1, KnownRecv, InstFields DEF Recv
    <3>3. TypeName(LiteralType(prog, u, i), i) = InstName(Recv(j), i)
      BY <1>2, <2>1, <2>6, MethodLiteral DEF TypeName
    <3>4. /\ TypeName(LiteralType(prog, u, i), i) \subseteq UseDeps(u, i)
          /\ ~Info(u.o).exported => GetFilters(u.o, NoType, a) \subseteq UseDeps(u, i)
      BY <2>6 DEF UseDeps
    <3> HIDE DEF a
    <3>5. ObjectFilter(Info(j.o).recv, NoType, a) \in NamedDeps
      <4>1. ObjectFilter(Info(j.o).recv, NoType, a) \in InstName(Recv(j), i)
        BY <1>1, <1>2, <3>2, InstNameHas DEF Known
      <4> QED
        BY <2>3, <3>3, <3>4, <4>1
    <3>6. GetFilters(j.o, j.nest, j.args) \subseteq NamedDeps
      <4>1. CASE Info(u.o).exported
        <5>1. GetFilters(j.o, j.nest, j.args) = {ObjectFilter(Info(j.o).recv, NoType, a)}
          BY <3>1, <4>1 DEF GetFilters
        <5> QED
          BY <3>5, <5>1
      <4>2. CASE ~Info(u.o).exported
        BY <2>3, <3>1, <3>4, <4>2
      <4> QED
        BY <4>1, <4>2
    <3> QED
      BY <2>2, <3>6, NamedIsWritten
  <2> QED
    BY <2>1, <2>4, <2>5, <2>6
<1>6. ASSUME NEW i \in S, j \in Makes(prog, i)
      PROVE  Known(j) /\ DeclOf(j) \in program
  BY <1>2, <1>6, MentionedIsWritten DEF Mentioned
<1>7. ASSUME NEW i \in S, j \in LinkedTo(prog, i)
      PROVE  Known(j) /\ DeclOf(j) \in program
  <2>1. Known(j) /\ Info(j.o).kind = "func" /\ j.o = Info(i.o).impl
    BY <1>2, <1>7, KnownLinked
  <2>2. DeclOf(j) = FuncDecl(j) /\ DeclOf(j).kind = "func" /\ DeclOf(j).inst = j
    BY <2>1, FuncDeclIs DEF DeclOf
  <2>3. i.o \in Objects(prog, sources)
    BY <1>1, <1>2, InstIs, ObjectsIn
  <2>4. IsImplementation(DeclOf(j), sources)
    BY <2>1, <2>2, <2>3 DEF IsImplementation
  <2>5. DeclOf(j) \in LinkedDecls
    BY <2>1, DeclOfIs
  <2> QED
    BY <2>1, <2>4, <2>5, ChosenHas
<1>8. ASSUME NEW i \in S, NEW t \in S, Info(t.o).kind = "type",
             NEW m \in CalledOn(prog, i, t), j = Inst(m, t.args, NoType)
      PROVE  Known(j) /\ DeclOf(j) \in program
  <2>1. PICK u \in Info(i.o).uses :
            /\ u.k = "iface" /\ Info(u.o).name = Info(m).name
            /\ Substitute(Info(m).sig, t.args) = Substitute(u.a, Arg(i))
    BY <1>8 DEF CalledOn, UsesOf, Uses, Obj, Info
  <2>2. m \in MethodsOf(prog, t.o)
    BY DEF CalledOn
  <2>3. /\ Known(j) /\ j.o = m /\ Info(m).kind = "method" /\ Recv(j) = t
        /\ j.args = t.args /\ j.nest = NoType
    <3>1. Known(t)
      BY <1>2, <1>8
    <3>2. j.o = m /\ j.args = t.args /\ j.nest = NoType
      BY <1>8, InstFields
    <3> QED
      BY <1>8, <2>2, <3>1, <3>2, KnownMethod
  <2>4. m \in Names /\ u.o \in Names
    <3>1. IsInst(j, sources)
      BY <2>3 DEF Known
    <3>2. m \in Names
      BY <1>1, <2>3, <3>1, InstIs
    <3>3. Info(i.o).pkg \in sources
      BY <1>1, <1>2, InstIs
    <3> QED
      BY <1>1, <1>2, <2>1, <3>2, <3>3, UseFacts
  <2>5. Info(u.o).exported = Info(m).exported
    BY <1>1, <2>1, <2>4, ProgramFacts
  <2>6. ObjectFilter(Info(m).recv, NoType, t.args) \in NamedDeps
    <3>1. t.o = Info(m).recv /\ t.nest = NoType
      BY <2>3, InstFields DEF Recv
    <3>2. DeclOf(t) = TypeDecl(t) /\ InstName(t, Nowhere) \subseteq TypeDecl(t).deps
      BY <1>8, TypeDeclIs DEF DeclOf
    <3>3. ObjectFilter(t.o, t.nest, t.args) \in InstName(t, Nowhere)
      BY <1>1, <1>2, <1>8, InstNameHas
    <3>4. DeclOf(t) \in program
      BY <1>2
    <3> QED
      BY <3>1, <3>2, <3>3, <3>4 DEF NamedDeps
  <2>7. GetFilters(j.o, j.nest, j.args) \subseteq NamedDeps
    <3>1. CASE Info(m).exported
      <4>1. GetFilters(j.o, j.nest, j.args) = {ObjectFilter(Info(m).recv, NoType, t.args)}
        BY <2>3, <3>1 DEF GetFilters
      <4> QED
        BY <2>6, <4>1
    <3>2. CASE ~Info(m).exported
      <4>1. UseDeps(u, i) = {<<Info(u.o).name, "method", Substitute(u.a, Arg(i))>>}
        BY <2>1, <2>5, <3>2 DEF UseDeps
      <4>2. MethodFilter(m, t.args) = <<Info(u.o).name, "method", Substitute(u.a, Arg(i))>>
        BY <2>1 DEF MethodFilter
      <4>3. MethodFilter(m, t.args) \in NamedDeps
        BY <1>2, <2>1, <4>1, <4>2
      <4>4. GetFilters(j.o, j.nest, j.args)
              = {ObjectFilter(Info(m).recv, NoType, t.args)} \cup {MethodFilter(m, t.args)}
        BY <2>3, <3>2 DEF GetFilters
      <4> QED
        BY <2>6, <4>3, <4>4
    <3> QED
      BY <3>1, <3>2
  <2> QED
    BY <2>3, <2>7, NamedIsWritten
<1> QED
  BY <1>4, <1>5, <1>6, <1>7, <1>8 DEF RunsNext, Obj, Info

-----------------------------------------------------------------------------
(* A session that builds one root.                                         *)

(* The archives of such a session are compiled from what is known when its *)
(* program is written.                                                     *)
OneRoot == \A r \in Roots : Len(r) <= 1
Fresh == \A p \in DOMAIN archives : archives[p] = Decls(p)
SingleInv ==
    /\ RunInv /\ Len(roots) <= 1
    /\ phase = "load" /\ roots # <<>> => sources = {}
    /\ phase # "load" => sources = Linked
    /\ phase \in {"load", "collect", "propagate", "again"} /\ roots # <<>> => DOMAIN archives = {}
    /\ phase \in {"compile", "select", "written"} => Fresh
    /\ phase \in {"select", "written"} => program \subseteq LinkedDecls
    /\ phase = "written" => Chosen /\ RunsWritten(ran)

(* The frame of the steps that follow the analysis.                        *)
LEMMA SameProgram ==
    ASSUME UNCHANGED <<prog, sources, instances, infos, program>>
    PROVE  /\ LinkedDecls' = LinkedDecls /\ (Chosen' <=> Chosen)
           /\ \A S : RunsWritten(S)' <=> RunsWritten(S)
<1>1. (\A p : Decls(p)' = Decls(p)) /\ \A i : DeclOf(i)' = DeclOf(i)
  BY SameDecls
<1>2. LinkedDecls' = LinkedDecls
  BY <1>1 DEF LinkedDecls
<1>3. \A d : IsImplementation(d, sources)' <=> IsImplementation(d, sources)
  BY DEF IsImplementation, Info
<1>4. Alive(LinkedDecls, sources, program)' = Alive(LinkedDecls, sources, program)
  BY <1>2, <1>3 DEF Alive
<1>5. Chosen' <=> Chosen
  BY <1>2, <1>4 DEF Chosen
<1>6. \A i : Known(i)' <=> Known(i)
  BY SameKnown
<1> QED
  BY <1>1, <1>2, <1>5, <1>6 DEF RunsWritten

LEMMA SameLinked ==
    ASSUME UNCHANGED <<prog, roots>>
    PROVE  Linked' = Linked
BY DEF Linked, ImportDependencies, Root

LEMMA SingleInit ==
    ASSUME OneRoot, Init
    PROVE  SingleInv
<1>1. roots \in Roots /\ sources = {} /\ phase = "load" /\ archives = <<>>
  BY DEF Init
<1>2. Len(roots) <= 1 /\ DOMAIN archives = {}
  BY <1>1 DEF OneRoot
<1> QED
  BY <1>1, <1>2, RunInit DEF SingleInv

(* The steps up to the last of the analysis: nothing is compiled yet.      *)
LEMMA SingleEarly ==
    ASSUME SingleInv, RunInv',
           LoadAndScan \/ (\E p \in ToSet(Pkgs) : Propagate(p)) \/ AnalyzeAll \/ PropagateAnalysis
    PROVE  SingleInv'
<1>1. /\ UNCHANGED <<prog, roots, archives>> /\ phase \in {"load", "collect", "propagate", "again"}
      /\ phase' \in {"collect", "propagate", "again", "compile", "panic"}
  BY DEF LoadAndScan, Propagate, AnalyzeAll, PropagateAnalysis
<1>2. roots # <<>>
  <2>1. CASE LoadAndScan
    BY <2>1 DEF LoadAndScan
  <2>2. CASE ~LoadAndScan
    <3>1. phase # "load"
      BY <2>2 DEF Propagate, AnalyzeAll, PropagateAnalysis
    <3> QED
      BY <3>1 DEF SingleInv, RunInv, AnalysisInv, CollectInv, SourcesLinked
  <2> QED
    BY <2>1, <2>2
<1>3. DOMAIN archives = {}
  BY <1>1, <1>2 DEF SingleInv
<1>4. Linked' = Linked
  BY <1>1, SameLinked
<1>5. sources' = Linked
  <2>1. CASE LoadAndScan
    BY <1>2, <2>1 DEF SingleInv, LoadAndScan, Linked
  <2>2. CASE ~LoadAndScan
    <3>1. phase # "load" /\ sources' = sources
      BY <2>2 DEF Propagate, AnalyzeAll, PropagateAnalysis
    <3> QED
      BY <3>1 DEF SingleInv
  <2> QED
    BY <2>1, <2>2
<1>6. Fresh' /\ DOMAIN archives' = {}
  BY <1>1, <1>3 DEF Fresh
<1>7. Len(roots') <= 1
  BY <1>1 DEF SingleInv
<1>8. /\ phase' # "load" /\ phase' \notin {"select", "written"} /\ phase' # "written"
  BY <1>1
<1> QED
  BY <1>4, <1>5, <1>6, <1>7, <1>8 DEF SingleInv

LEMMA SingleCompile ==
    ASSUME SingleInv, RunInv', CompilePackage
    PROVE  SingleInv'
<1>1. /\ UNCHANGED <<prog, roots, sources, instances, infos, program>> /\ phase = "compile"
      /\ phase' \in {"compile", "panic"}
  BY DEF CompilePackage
<1>2. Linked' = Linked /\ sources = Linked
  BY <1>1, SameLinked DEF SingleInv
<1>3. \A p : Decls(p)' = Decls(p)
  BY <1>1, SameDecls
<1>4. \A p \in DOMAIN archives : archives[p] = Decls(p)
  BY <1>1 DEF SingleInv, Fresh
<1>5. ASSUME NEW q \in DOMAIN archives'
      PROVE  archives'[q] = Decls(q)
  <2> DEFINE p == First(todo)
  <2>1. \/ archives' = archives
        \/ archives' = [r \in DOMAIN archives \cup {p} |-> IF r = p THEN Decls(p) ELSE archives[r]]
    BY DEF CompilePackage
  <2> HIDE DEF p
  <2> QED
    BY <1>4, <1>5, <2>1
<1>6. Fresh'
  BY <1>3, <1>5 DEF Fresh
<1>7. Len(roots') <= 1
  BY <1>1 DEF SingleInv
<1> QED
  BY <1>1, <1>2, <1>6, <1>7 DEF SingleInv

(* Once everything is compiled.                                            *)
LEMMA SingleKept ==
    ASSUME SingleInv, RunInv', UNCHANGED <<prog, roots, sources, instances, infos, archives>>,
           phase \in {"compile", "select", "written"}, phase' \in {"select", "written"},
           (program \subseteq LinkedDecls)',
           phase' = "written" => Chosen' /\ RunsWritten(ran)'
    PROVE  SingleInv'
<1>1. Linked' = Linked /\ sources = Linked
  BY SameLinked DEF SingleInv
<1>2. \A p : Decls(p)' = Decls(p)
  BY SameDecls
<1>3. Fresh'
  BY <1>2 DEF SingleInv, Fresh
<1>4. Len(roots') <= 1
  BY DEF SingleInv
<1> QED
  BY <1>1, <1>3, <1>4 DEF SingleInv

LEMMA SingleWrite ==
    ASSUME SingleInv, RunInv', WriteProgram
    PROVE  SingleInv'
<1>1. /\ UNCHANGED <<prog, roots, sources, instances, infos, archives>> /\ phase = "select"
      /\ program' = program \cup Alive(UNION {archives[p] : p \in Linked}, Linked, program)
      /\ phase' = (IF program' = program THEN "written" ELSE phase)
      /\ ran' = (IF program' = program THEN Starts(prog, Linked) ELSE {})
  BY DEF WriteProgram
<1>2. sources = Linked /\ Fresh /\ program \subseteq LinkedDecls /\ sources \subseteq DOMAIN archives
  BY <1>1 DEF SingleInv, RunInv, ArchivesThere
<1>3. UNION {archives[p] : p \in Linked} = LinkedDecls
  <2>1. \A p \in Linked : archives[p] = Decls(p)
    BY <1>2 DEF Fresh
  <2>2. {archives[p] : p \in Linked} = {Decls(p) : p \in sources}
    BY <1>2, <2>1
  <2> QED
    BY <2>2 DEF LinkedDecls
<1>4. program' = program \cup Alive(LinkedDecls, sources, program)
  BY <1>1, <1>2, <1>3
<1>5. (program \subseteq LinkedDecls)'
  <2>1. program' \subseteq LinkedDecls
    BY <1>2, <1>4 DEF Alive
  <2>2. LinkedDecls' = LinkedDecls
    <3>1. \A p : Decls(p)' = Decls(p)
      BY <1>1, SameDecls
    <3> QED
      BY <1>1, <3>1 DEF LinkedDecls
  <2> QED
    BY <2>1, <2>2
<1>6. ASSUME phase' = "written"
      PROVE  Chosen' /\ RunsWritten(ran)'
  <2>1. program' = program /\ ran' = Starts(prog, sources)
    BY <1>1, <1>2, <1>6
  <2>2. Chosen
    BY <1>2, <1>4, <2>1 DEF Chosen
  <2>3. AllCollected
    BY <1>1 DEF SingleInv, RunInv, AnalysisInv, AllCollected, CollectInv
  <2>4. RunsWritten(ran')
    BY <2>1, <2>2, <2>3, StartsWritten
  <2>5. /\ Chosen' <=> Chosen
        /\ \A S : RunsWritten(S)' <=> RunsWritten(S)
    BY <1>1, <2>1, SameProgram
  <2> QED
    BY <2>2, <2>4, <2>5 DEF RunsWritten
<1> QED
  BY <1>1, <1>5, <1>6, SingleKept

LEMMA SingleRun ==
    ASSUME SingleInv, RunInv', Run
    PROVE  SingleInv'
<1>1. /\ UNCHANGED <<prog, roots, sources, instances, infos, archives, program>> /\ phase = "written"
      /\ phase' = "written" /\ ran' = RunsNext(prog, ran)
  BY DEF Run
<1>2. Chosen /\ RunsWritten(ran) /\ AllCollected /\ program \subseteq LinkedDecls
  BY <1>1 DEF SingleInv, RunInv, AnalysisInv, AllCollected, CollectInv
<1>3. RunsWritten(ran')
  BY <1>1, <1>2, RunsNextWritten
<1>4. /\ LinkedDecls' = LinkedDecls /\ (Chosen' <=> Chosen)
      /\ \A S : RunsWritten(S)' <=> RunsWritten(S)
  BY <1>1, SameProgram
<1>5. Chosen' /\ RunsWritten(ran)' /\ (program \subseteq LinkedDecls)'
  BY <1>1, <1>2, <1>3, <1>4 DEF RunsWritten
<1> QED
  BY <1>1, <1>5, SingleKept

LEMMA SingleNextRoot ==
    ASSUME SingleInv, RunInv', NextRoot
    PROVE  SingleInv'
<1>1. /\ UNCHANGED <<prog, sources, instances, infos, archives>> /\ phase = "written"
      /\ roots' = Tail(roots) /\ phase' = "load"
  BY DEF NextRoot
<1>2. roots \in Seq(AllPkgs) /\ roots # <<>> /\ Len(roots) <= 1
  BY <1>1 DEF SingleInv, RunInv, AnalysisInv, CollectInv, SessionTypeOK, SourcesLinked
<1>3. roots' = <<>> /\ Len(roots') <= 1
  BY <1>1, <1>2
<1> QED
  BY <1>1, <1>3 DEF SingleInv

LEMMA SingleStep ==
    ASSUME SingleInv, [Next]_vars
    PROVE  SingleInv'
<1>1. RunInv'
  BY RunInvStep DEF SingleInv
<1>2. CASE LoadAndScan \/ (\E p \in ToSet(Pkgs) : Propagate(p)) \/ AnalyzeAll \/ PropagateAnalysis
  BY <1>1, <1>2, SingleEarly
<1>3. CASE CompilePackage
  BY <1>1, <1>3, SingleCompile
<1>4. CASE LinkPackages
  <2>1. /\ UNCHANGED <<prog, roots, sources, instances, infos, archives>> /\ phase = "compile"
        /\ phase' = "select" /\ program' = {}
    BY <1>4 DEF LinkPackages
  <2>2. (program \subseteq LinkedDecls)'
    BY <2>1
  <2> QED
    BY <1>1, <2>1, <2>2, SingleKept
<1>5. CASE WriteProgram
  BY <1>1, <1>5, SingleWrite
<1>6. CASE Run
  BY <1>1, <1>6, SingleRun
<1>7. CASE NextRoot
  BY <1>1, <1>7, SingleNextRoot
<1>8. CASE UNCHANGED vars
  <2>1. UNCHANGED <<prog, roots, sources, phase, instances, infos, archives, program, ran>>
    BY <1>8 DEF vars
  <2>2. /\ LinkedDecls' = LinkedDecls /\ (Chosen' <=> Chosen)
        /\ \A S : RunsWritten(S)' <=> RunsWritten(S)
    BY <2>1, SameProgram
  <2>3. (\A p : Decls(p)' = Decls(p)) /\ Linked' = Linked
    BY <2>1, SameDecls, SameLinked
  <2>4. Fresh' <=> Fresh
    BY <2>1, <2>3 DEF Fresh
  <2>5. RunsWritten(ran)' <=> RunsWritten(ran)
    BY <2>1, <2>2 DEF RunsWritten
  <2> QED
    BY <1>1, <2>1, <2>2, <2>3, <2>4, <2>5 DEF SingleInv
<1> QED
  BY <1>2, <1>3, <1>4, <1>5, <1>6, <1>7, <1>8 DEF Next

LEMMA SingleHolds ==
    ASSUME OneRoot
    PROVE  Spec => []SingleInv
<1>1. Init => SingleInv
  BY SingleInit
<1>2. SingleInv /\ [Next]_vars => SingleInv'
  BY SingleStep
<1> QED
  BY <1>1, <1>2, PTL DEF Spec

LEMMA WrittenFacts ==
    ASSUME SingleInv, phase = "written"
    PROVE  AllCollected /\ Chosen /\ RunsWritten(ran)
BY DEF SingleInv, RunInv, AnalysisInv, AllCollected, CollectInv

(* A reference of the written code leads by its number to the instance it  *)
(* was made for, and to no other, across packages, in a session that       *)
(* builds one root.  With two it does not (the program_two_roots run): the *)
(* archives of the first are kept and the instances numbered again         *)
(* (Session.UpToDateArchives, InstanceSet.ID).                             *)
THEOREM ReferencesLead ==
    ASSUME OneRoot
    PROVE  Spec => []ReferencesResolve
<1>1. SingleInv => ReferencesResolve
  <2>1. ASSUME SingleInv, phase = "written", NEW d \in program, NEW r \in d.refs
        PROVE  LET found == {e \in program : /\ e.kind \in {"func", "type"}
                                             /\ e.inst.o = r.o /\ e.id = r.id}
               IN  found # {} /\ \A e \in found : e.inst = r.inst
    <3>1. AllCollected /\ Chosen
      BY <2>1, WrittenFacts
    <3>2. PICK j : /\ Known(j) /\ Info(j.o).kind \in {"func", "type"} /\ DeclOf(j) \in program
                   /\ r = [o |-> j.o, id |-> Id(j), inst |-> j]
      BY <3>1, <2>1, ReferencesFound
    <3> QED
      BY <3>1, <3>2, FindsReference
  <2> QED
    BY <2>1 DEF ReferencesResolve
<1> QED
  BY <1>1, SingleHolds, PTL

(* The variable that holds a function or a type is selected with it.       *)
LEMMA VariableIsWritten ==
    ASSUME AllCollected, Chosen, NEW i, Known(i), Info(i.o).kind \in {"func", "type"},
           DeclOf(i) \in program
    PROVE  VarDecl(i.o) \in program
<1>1. prog \in Programs /\ IsInst(i, sources) /\ i.o \in Names
  BY CollectedFacts, InstIs DEF Known
<1>2. VarDecl(i.o).filters = {ObjectFilter(i.o, NoType, NoType)}
  <2>1. GetFilters(i.o, NoType, NoType) = {ObjectFilter(i.o, NoType, NoType)}
    BY DEF GetFilters
  <2> QED
    BY <2>1, VarDeclIs
<1>3. ObjectFilter(i.o, NoType, NoType) \in DeclOf(i).deps
  <2>1. CASE Info(i.o).kind = "type"
    <3>1. InstName(i, Nowhere) \subseteq TypeDecl(i).deps
      BY TypeDeclIs
    <3>2. ObjectFilter(i.o, NoType, NoType) \in InstName(i, Nowhere)
      BY <1>1, InstNameHas
    <3> QED
      BY <2>1, <3>1, <3>2 DEF DeclOf
  <2>2. CASE Info(i.o).kind = "func"
    <3>1. DeclOf(i) = FuncDecl(i) /\ Lvalue(i) = i
      BY <2>2 DEF DeclOf, Lvalue
    <3>2. InstName(i, i) \subseteq FuncDecl(i).deps
      BY <3>1, FuncDeclIs
    <3>3. Info(i.o).nest # i.o
      <4>1. None \notin Names
        BY <1>1, ProgramFacts
      <4>2. Info(i.o).nest # None => Info(i.o).kind = "type"
        BY <1>1, ObjectFacts
      <4> QED
        BY <1>1, <2>2, <4>1, <4>2
    <3>4. ObjectFilter(i.o, NoType, NoType) \in InstName(i, i)
      BY <1>1, <3>3, InstNameHas
    <3> QED
      BY <3>1, <3>2, <3>4
  <2> QED
    BY <2>1, <2>2
<1>4. VarDecl(i.o) \in LinkedDecls
  BY DeclsHave DEF LinkedDecls
<1> QED
  BY <1>2, <1>3, <1>4, ChosenHas DEF NamedDeps

(* Everything the language lets the program of a session with one root     *)
(* call, and the types of the values it makes, are in the program that is  *)
(* written, each with the variable that holds it: dead-code elimination    *)
(* leaves out nothing that can run (AliveDecls, WriteProgramCode).         *)
THEOREM RunnableIsWritten ==
    ASSUME OneRoot
    PROVE  Spec => []WhatRunsIsWritten
<1>1. SingleInv => WhatRunsIsWritten
  <2>1. ASSUME SingleInv, phase = "written", NEW i \in ran
        PROVE  /\ \E d \in program : d.inst = i /\ d.kind \in {"func", "type", "value"}
               /\ Info(i.o).kind \in {"func", "type"} =>
                     \E d \in program : d.kind = "var" /\ d.inst.o = i.o
    <3>1. AllCollected /\ Chosen /\ Known(i) /\ DeclOf(i) \in program
      BY <2>1, WrittenFacts DEF RunsWritten
    <3>2. DeclOf(i).inst = i /\ DeclOf(i).kind \in {"func", "type", "value"}
      BY <3>1, DeclOfIs
    <3>3. ASSUME Info(i.o).kind \in {"func", "type"}
          PROVE  \E d \in program : d.kind = "var" /\ d.inst.o = i.o
      <4>1. VarDecl(i.o) \in program
        BY <3>1, <3>3, VariableIsWritten
      <4>2. VarDecl(i.o).kind = "var" /\ VarDecl(i.o).inst.o = i.o
        BY VarDeclIs, InstFields DEF Plain
      <4> QED
        BY <4>1, <4>2
    <3> QED
      BY <3>1, <3>2, <3>3
  <2> QED
    BY <2>1 DEF WhatRunsIsWritten
<1> QED
  BY <1>1, SingleHolds, PTL


-----------------------------------------------------------------------------
(* The start of the program.                                               *)

(* Loading and starting a program is no step of the session that wrote it: *)
(* what is proved of the session holds of ProgramStart.                    *)
THEOREM SessionHolds == StartSpec => Spec
<1>1. StartInit => Init
  BY DEF StartInit
<1>2. [StartNext]_<<vars, svars>> => [Next]_vars
  <2>1. CASE SessionStep
    BY <2>1 DEF SessionStep
  <2>2. CASE UNCHANGED <<vars, svars>>
    BY <2>2
  <2>3. CASE Load
    BY <2>3 DEF Load
  <2>4. CASE CollectDependencies
    BY <2>4 DEF CollectDependencies
  <2>5. CASE DefinePackage \/ FinishSetup \/ InitLinknames
    BY <2>5 DEF DefinePackage, FinishSetup, InitLinknames, Pass
  <2>6. CASE CallRuntime \/ InitImport \/ Execute
    BY <2>6 DEF CallRuntime, InitImport, Execute
  <2>7. CASE InitVar \/ CallFunction
    BY <2>7 DEF InitVar, CallFunction, Finish
  <2>8. CASE Block \/ Resume \/ InitReturns
    BY <2>8 DEF Block, Resume, InitReturns
  <2> QED
    BY <2>1, <2>2, <2>3, <2>4, <2>5, <2>6, <2>7, <2>8 DEF StartNext
<1> QED
  BY <1>1, <1>2, PTL DEF StartSpec, Spec

-----------------------------------------------------------------------------
(* What is written.                                                        *)

Written == SingleInv /\ phase = "written"

LEMMA WrittenIs ==
    ASSUME Written
    PROVE  /\ AllCollected /\ Chosen /\ prog \in Programs /\ sources = Linked /\ Closed(Linked)
           /\ Linked \subseteq AllPkgs /\ Root \in Linked /\ Runtime \in Linked
<1>1. AllCollected /\ Chosen
  BY WrittenFacts DEF Written
<1>2. sources = Linked
  BY DEF Written, SingleInv
<1> QED
  BY <1>1, <1>2, CollectedFacts

LEMMA DeclIs ==
    ASSUME Written, NEW d \in program
    PROVE  /\ d.pkg \in Linked
           /\ d.kind = "type" => /\ Known(d.inst) /\ Info(d.inst.o).kind = "type"
                                 /\ PkgOf(d.inst) = d.pkg /\ d = TypeDecl(d.inst)
           /\ d.kind = "func" => /\ Known(d.inst) /\ Info(d.inst.o).kind \in {"func", "method"}
                                 /\ PkgOf(d.inst) = d.pkg /\ d = FuncDecl(d.inst)
           /\ d.kind = "value" => /\ Known(d.inst) /\ Info(d.inst.o).kind = "var"
                                  /\ PkgOf(d.inst) = d.pkg /\ d.inst = Plain(d.inst.o)
                                  /\ d = ValueDecl(d.inst.o)
<1>1. AllCollected /\ Chosen /\ sources = Linked
  BY WrittenIs
<1>2. PICK p \in sources : d \in Decls(p)
  BY <1>1 DEF Chosen, LinkedDecls
<1>3. CASE \E o \in Names : Info(o).pkg = p /\ Info(o).kind \in {"type", "func"} /\ d = VarDecl(o)
  <2>1. PICK o \in Names : Info(o).pkg = p /\ d = VarDecl(o)
    BY <1>3
  <2>2. d.kind = "var" /\ d.pkg = PkgOf(Plain(o)) /\ PkgOf(Plain(o)) = p
    BY <2>1, VarDeclIs, InstFields DEF PkgOf, Plain
  <2> QED
    BY <1>1, <1>2, <2>2
<1>4. CASE \E i : Known(i) /\ PkgOf(i) = p /\ Info(i.o).kind = "type" /\ d = TypeDecl(i)
  <2>1. PICK i : Known(i) /\ PkgOf(i) = p /\ Info(i.o).kind = "type" /\ d = TypeDecl(i)
    BY <1>4
  <2>2. d.kind = "type" /\ d.inst = i
    BY <2>1, TypeDeclIs
  <2>3. d.pkg = PkgOf(i)
    BY <2>1 DEF TypeDecl, CollectDCEDeps, SetName, Decl
  <2> QED
    BY <1>1, <1>2, <2>1, <2>2, <2>3
<1>5. CASE \E o \in Names : /\ Info(o).pkg = p /\ Info(o).kind = "var" /\ d = ValueDecl(o)
                            /\ Known(Plain(o)) /\ Plain(o).o = o
  <2>1. PICK o \in Names : /\ Info(o).pkg = p /\ Info(o).kind = "var" /\ d = ValueDecl(o)
                           /\ Known(Plain(o)) /\ Plain(o).o = o
    BY <1>5
  <2>2. d.kind = "value" /\ d.inst = Plain(o)
    BY <2>1, ValueDeclIs
  <2>3. d.pkg = PkgOf(Plain(o))
    BY <2>1 DEF ValueDecl, CollectDCEDeps, SetName, Decl, SetAsAlive
  <2> QED
    BY <1>1, <1>2, <2>1, <2>2, <2>3 DEF PkgOf
<1>6. CASE \E i : /\ Known(i) /\ PkgOf(i) = p /\ Info(i.o).kind \in {"func", "method"}
                  /\ d = FuncDecl(i)
  <2>1. PICK i : Known(i) /\ PkgOf(i) = p /\ Info(i.o).kind \in {"func", "method"} /\ d = FuncDecl(i)
    BY <1>6
  <2>2. d.kind = "func" /\ d.inst = i
    BY <2>1, FuncDeclIs
  <2>3. d.pkg = PkgOf(i)
    BY <2>1 DEF FuncDecl, CollectDCEDeps, SetName, Decl, SetAsAlive
  <2> QED
    BY <1>1, <1>2, <2>1, <2>2, <2>3
<1> QED
  BY <1>1, <1>2, <1>3, <1>4, <1>5, <1>6, DeclsAre

(* What the instances of the packages are, and where they are found.       *)
LEMMA InstsAre ==
    ASSUME Written, NEW i, Known(i), DeclOf(i) \in program
    PROVE  /\ PkgOf(i) \in Linked
           /\ Info(i.o).kind = "type" => i \in InstsOf(PkgOf(i), "type")
           /\ Info(i.o).kind \in {"func", "method"} => i \in InstsOf(PkgOf(i), "func")
           /\ Info(i.o).kind = "var" => i \in InstsOf(PkgOf(i), "value") /\ i = Plain(i.o)
           /\ Info(i.o).kind \in {"type", "func", "method", "var"}
<1>1. /\ AllCollected /\ sources = Linked /\ prog \in Programs /\ IsInst(i, sources) /\ i.o \in Names
      /\ DeclOf(i).inst = i
  BY WrittenIs, CollectedFacts, InstIs, DeclOfIs DEF Known
<1>2. Info(i.o).kind \in {"type", "func", "method", "var"} /\ PkgOf(i) \in sources
  BY <1>1, ObjectFacts, InstIs DEF PkgOf
<1>3. CASE Info(i.o).kind = "type"
  <2>1. DeclOf(i).kind = "type"
    BY <1>3, TypeDeclIs DEF DeclOf
  <2>2. DeclOf(i).pkg = PkgOf(i)
    BY <1>1, <2>1, DeclIs
  <2> QED
    BY <1>1, <1>2, <1>3, <2>1, <2>2 DEF InstsOf, DeclsOf
<1>4. CASE Info(i.o).kind \in {"func", "method"}
  <2>1. DeclOf(i).kind = "func"
    BY <1>4, FuncDeclIs DEF DeclOf
  <2>2. DeclOf(i).pkg = PkgOf(i)
    BY <1>1, <2>1, DeclIs
  <2> QED
    BY <1>1, <1>2, <1>4, <2>1, <2>2 DEF InstsOf, DeclsOf
<1>5. CASE Info(i.o).kind = "var"
  <2>1. DeclOf(i).kind = "value"
    BY <1>5, ValueDeclIs DEF DeclOf
  <2>2. DeclOf(i).pkg = PkgOf(i) /\ i = Plain(i.o)
    BY <1>1, <2>1, DeclIs
  <2> QED
    BY <1>1, <1>2, <1>5, <2>1, <2>2 DEF InstsOf, DeclsOf
<1> QED
  BY <1>1, <1>2, <1>3, <1>4, <1>5

(* Methods are set up after the type of their receiver, and types after    *)
(* what they are made of.                                                  *)
LEMMA ReceiversAre ==
    ASSUME Written, NEW p \in Linked
    PROVE  Receivers(p) \subseteq InstsOf(p, "type")
<1>1. SUFFICES ASSUME NEW r \in Receivers(p)
               PROVE  r \in InstsOf(p, "type")
  OBVIOUS
<1>2. PICK i \in InstsOf(p, "func") : r = Recv(i) /\ Info(i.o).kind = "method"
  BY DEF Receivers
<1>3. PICK d \in program : d.pkg = p /\ d.kind = "func" /\ d.inst = i
  BY DEF InstsOf, DeclsOf
<1>4. Known(i) /\ PkgOf(i) = p /\ d = FuncDecl(i)
  BY <1>3, DeclIs
<1>5. AllCollected /\ Chosen /\ prog \in Programs
  BY WrittenIs
<1>6. [o |-> Recv(i).o, id |-> Id(Recv(i)), inst |-> Recv(i)] \in d.refs
  <2>1. Lvalue(i) = Recv(i)
    BY <1>2 DEF Lvalue
  <2> QED
    BY <1>4, <2>1, FuncDeclIs
<1>7. PICK j : /\ Known(j) /\ DeclOf(j) \in program
               /\ [o |-> Recv(i).o, id |-> Id(Recv(i)), inst |-> Recv(i)] = [o |-> j.o, id |-> Id(j), inst |-> j]
  BY <1>3, <1>5, <1>6, ReferencesFound
<1>8. j = Recv(i)
  BY <1>7
<1>9. Info(j.o).kind = "type" /\ PkgOf(j) = p
  <2>1. Recv(i).o = Info(i.o).recv /\ Info(Recv(i).o).kind = "type"
    BY <1>2, <1>4, <1>5, KnownRecv
  <2>2. i.o \in Names
    BY <1>4, <1>5, CollectedFacts, InstIs DEF Known
  <2>3. Info(Info(i.o).recv).pkg = Info(i.o).pkg
    BY <1>2, <1>5, <2>2, ObjectFacts
  <2> QED
    BY <1>4, <1>8, <2>1, <2>3 DEF PkgOf
<1> QED
  BY <1>2, <1>7, <1>8, <1>9, InstsAre

LEMMA TypeReferencesAre ==
    ASSUME Written, NEW p \in Linked, NEW j \in TypeReferences(p)
    PROVE  \/ \E q \in Linked : j \in InstsOf(q, "type")
           \/ \E q \in ImportsOf(prog, AllPkgs, {p}) : j \in InstsOf(q, "func")
<1>d. PICK d \in program : d.pkg = p /\ d.kind = "type" /\ \E r \in d.refs : j = r.inst
  BY DEF TypeReferences, DeclsOf
<1>1. PICK r \in d.refs : d.pkg = p /\ d.kind = "type" /\ j = r.inst
  BY <1>d
<1>2. AllCollected /\ Chosen /\ prog \in Programs /\ Linked \subseteq AllPkgs
  BY WrittenIs
<1>3. PICK k : /\ Known(k) /\ Info(k.o).kind \in {"func", "type"} /\ DeclOf(k) \in program
               /\ r = [o |-> k.o, id |-> Id(k), inst |-> k]
  BY <1>1, <1>2, ReferencesFound
<1>4. j = k
  BY <1>1, <1>3
<1>5. CASE Info(j.o).kind = "type"
  BY <1>3, <1>4, <1>5, InstsAre
<1>6. CASE Info(j.o).kind # "type"
  <2> DEFINE i == d.inst
             S == ImportsOf(prog, AllPkgs, {p})
  <2>1. Known(i) /\ PkgOf(i) = p /\ d = TypeDecl(i)
    BY <1>1, DeclIs
  <2>2. r \in References(i)
    BY <1>1, <2>1, TypeDeclIs
  <2>3. j \in Mentioned(i)
    <3>1. PICK m \in Mentioned(i) : r = [o |-> m.o, id |-> Id(m), inst |-> m]
      BY <2>2 DEF References
    <3> QED
      BY <1>1, <3>1
  <2>4. j \notin Makes(prog, i)
    BY <1>2, <1>6, <2>1, KnownMade
  <2>5. PICK u \in Info(i.o).uses : u.k \in {"call", "value"} /\ j = CalleeInst(u, i)
    BY <2>3, <2>4 DEF Mentioned, UsesOf, Uses, Obj, Info
  <2>6. j.o = u.o
    BY <1>2, <2>1, <2>5, KnownCallee
  <2>7. Closed(S) /\ p \in S
    BY <1>2, ImportsClosed
  <2>8. i.o \in Names /\ Info(i.o).pkg = p
    BY <1>2, <2>1, CollectedFacts, InstIs DEF Known, PkgOf
  <2>9. Info(u.o).pkg \in S
    <3> HIDE DEF S
    <3>1. u.o \in Names
      BY <1>2, <2>5, <2>7, <2>8, UseFacts
    <3> QED
      BY <1>2, <2>5, <2>7, <2>8, <3>1, UseFacts
  <2>10. j \in InstsOf(PkgOf(j), "func")
    BY <1>3, <1>4, <1>6, InstsAre
  <2> QED
    BY <2>6, <2>9, <2>10 DEF PkgOf
<1> QED
  BY <1>5, <1>6

(* A function that another one is linked to is written and exposed.        *)
LEMMA LinknamesAre ==
    ASSUME Written, ToSet(order) = Linked, NEW p \in Linked, NEW i \in InstsOf(p, "func"),
           Info(i.o).impl # None
    PROVE  \E q \in Linked : Info(i.o).impl \in Linknames(q)
<1> DEFINE o == Info(i.o).impl
           j == Plain(o)
<1>1. /\ AllCollected /\ Chosen /\ prog \in Programs /\ sources = Linked /\ Closed(Linked)
      /\ Linked \subseteq AllPkgs
  BY WrittenIs
<1>2. PICK d \in program : d.pkg = p /\ d.kind = "func" /\ d.inst = i
  BY DEF InstsOf, DeclsOf
<1>3. Known(i) /\ PkgOf(i) = p
  BY <1>2, DeclIs
<1>4. i.o \in Names /\ Info(i.o).pkg = p
  BY <1>1, <1>3, CollectedFacts, InstIs DEF Known, PkgOf
<1>5. /\ o \in Names /\ Info(o).kind = "func" /\ ~Info(o).generic
      /\ Info(o).pkg \in ImportsOf(prog, AllPkgs, {p}) /\ i.o \in ToSet(prog.order[p])
  BY <1>1, <1>4, ObjectFacts
<1>6. Info(o).nest = None /\ Info(o).pkg \in Linked
  <2>1. Info(o).nest = None
    BY <1>1, <1>5, ObjectFacts
  <2>2. ImportsOf(prog, AllPkgs, {p}) \subseteq Linked
    BY <1>1, ImportsFacts
  <2> QED
    BY <1>5, <2>1, <2>2
<1>7. Known(j) /\ j.o = o
  BY <1>1, <1>5, <1>6, PlainKnown DEF HasT
<1>8. DeclOf(j) = FuncDecl(j) /\ DeclOf(j).kind = "func" /\ DeclOf(j).inst = j
  BY <1>5, <1>7, FuncDeclIs DEF DeclOf
<1>9. i.o \in Objects(prog, Linked)
  BY <1>5 DEF Objects
<1>10. IsImplementation(DeclOf(j), Linked)
  BY <1>7, <1>8, <1>9 DEF IsImplementation
<1>11. DeclOf(j) \in program
  BY <1>1, <1>7, <1>10, DeclOfIs, ChosenHas
<1>12. DeclOf(j).pkg \in Linked
  BY <1>11, DeclIs
<1> QED
  BY <1>7, <1>8, <1>10, <1>11, <1>12 DEF Linknames, DeclsOf

-----------------------------------------------------------------------------
(* Sequences that are used as stacks.                                      *)

LEMMA AppendIs ==
    ASSUME NEW X, NEW s \in Seq(X), NEW e \in X
    PROVE  /\ Append(s, e) \in Seq(X) /\ Len(Append(s, e)) = Len(s) + 1 /\ Append(s, e) # <<>>
           /\ \A n \in 1 .. Len(s) : Append(s, e)[n] = s[n]
           /\ Append(s, e)[Len(s) + 1] = e
           /\ ToSet(Append(s, e)) = ToSet(s) \cup {e}
<1>1. /\ Append(s, e) \in Seq(X) /\ Len(Append(s, e)) = Len(s) + 1
      /\ \A n \in 1 .. Len(s) : Append(s, e)[n] = s[n]
      /\ Append(s, e)[Len(s) + 1] = e
  OBVIOUS
<1>2. Len(s) \in Nat /\ DOMAIN s = 1 .. Len(s) /\ DOMAIN Append(s, e) = 1 .. Len(s) + 1
  BY <1>1, SeqFacts
<1>3. ToSet(Append(s, e)) = ToSet(s) \cup {e}
  <2> DEFINE a == Append(s, e)
  <2> HIDE DEF a
  <2>1. /\ \A n \in 1 .. Len(s) : a[n] = s[n]
        /\ a[Len(s) + 1] = e /\ DOMAIN a = 1 .. Len(s) + 1
    BY <1>1, <1>2 DEF a
  <2>2. ToSet(a) = ToSet(s) \cup {e}
    <3>1. \A x : x \in ToSet(a) <=> \E n \in 1 .. Len(s) + 1 : x = a[n]
      BY <2>1 DEF ToSet
    <3>2. \A x : x \in ToSet(s) <=> \E n \in 1 .. Len(s) : x = s[n]
      BY <1>2 DEF ToSet
    <3>3. \A n \in 1 .. Len(s) + 1 : n \in 1 .. Len(s) \/ n = Len(s) + 1
      BY <1>2
    <3>4. \A n \in 1 .. Len(s) : n \in 1 .. Len(s) + 1
      BY <1>2
    <3>5. Len(s) + 1 \in 1 .. Len(s) + 1
      BY <1>2
    <3> QED
      BY <2>1, <3>1, <3>2, <3>3, <3>4, <3>5
  <2> QED
    BY <2>2 DEF a
<1> QED
  BY <1>1, <1>3, AppendProperties

LEMMA FrontIs ==
    ASSUME NEW X, NEW s \in Seq(X), s # <<>>
    PROVE  /\ Last(s) = s[Len(s)] /\ Last(s) \in X /\ Len(s) \in Nat /\ Len(s) >= 1
           /\ Front(s) \in Seq(X) /\ Len(Front(s)) = Len(s) - 1
           /\ \A n \in 1 .. Len(s) - 1 : Front(s)[n] = s[n]
<1>1. Len(s) \in Nat /\ Len(s) >= 1
  BY SeqFacts
<1>2. Last(s) = s[Len(s)] /\ Last(s) \in X
  BY <1>1, SeqFacts DEF Last
<1>3. /\ SubSeq(s, 1, Len(s) - 1) \in Seq(X) /\ Len(SubSeq(s, 1, Len(s) - 1)) = Len(s) - 1
      /\ \A n \in 1 .. Len(s) - 1 : SubSeq(s, 1, Len(s) - 1)[n] = s[n]
  <2> DEFINE f == SubSeq(s, 1, Len(s) - 1)
             l == Len(s) - 1
  <2>1. \A n \in 1 .. l : s[n] \in X
    BY <1>1, SeqFacts
  <2>2. l \in Nat /\ 1 \in Int /\ l \in Int
    BY <1>1
  <2> HIDE DEF l
  <2>3. /\ SubSeq(s, 1, l) \in Seq(X) /\ Len(SubSeq(s, 1, l)) = IF 1 <= l THEN l - 1 + 1 ELSE 0
        /\ \A n \in 1 .. l - 1 + 1 : SubSeq(s, 1, l)[n] = s[1 + n - 1]
    BY <2>1, <2>2, SubSeqProperties
  <2>4. Len(SubSeq(s, 1, l)) = l /\ \A n \in 1 .. l : SubSeq(s, 1, l)[n] = s[n]
    BY <2>2, <2>3
  <2> QED
    BY <2>3, <2>4 DEF l
<1> QED
  BY <1>1, <1>2, <1>3 DEF Front

LEMMA InToSet ==
    ASSUME NEW X, NEW s \in Seq(X)
    PROVE  /\ \A x : x \in ToSet(s) <=> \E n \in 1 .. Len(s) : s[n] = x
           /\ ToSet(s) \subseteq X
BY SeqFacts DEF ToSet

LEMMA MinIs ==
    ASSUME NEW S, S \subseteq Nat, S # {}
    PROVE  Min(S) \in S /\ \A n \in S : Min(S) <= n
BY LeastOf DEF Min

-----------------------------------------------------------------------------
(* The invariant: the packages are in order, what the passes over them     *)
(* have set, and where the $init functions on the stack are.               *)

AfterDefine == {"finish", "link", "run", "start", "finished"}
AfterFinish == {"link", "run", "start", "finished"}
AfterLink == {"run", "start", "finished"}
Stages == {"none", "collect", "define"} \cup AfterDefine

Idle == /\ order = <<>> /\ visit = <<>> /\ at = 1 /\ js = Unset /\ missing = {}
        /\ stack = <<>> /\ parked = FALSE /\ reach = {} /\ waits = {}

Ordered == \A n \in 1 .. Len(order) : \A q \in ToSet(prog.imports[order[n]]) :
              \E m \in 1 .. n - 1 : order[m] = q
OrderInv ==
    /\ order \in Seq(Linked) /\ Ordered
    /\ stage = "collect" =>
          /\ visit \in Seq(Linked) /\ visit # <<>> /\ visit[1] = Root /\ at = 1
          /\ Runtime \in ToSet(order) \/ (Len(visit) >= 2 /\ visit[2] = Runtime)
    /\ stage # "collect" => ToSet(order) = Linked
    /\ stage \in {"define", "finish", "link"} => at \in 1 .. Len(order)

(* The packages that a pass has come to the end of.                        *)
Passed(name, later) ==
    IF stage = name THEN {order[n] : n \in 1 .. at - 1} ELSE IF stage \in later THEN Linked ELSE {}
Defined == Passed("define", AfterDefine)
SetUp == Passed("finish", AfterFinish)
Relinked == Passed("link", AfterLink)
SetInv ==
    /\ DOMAIN js = DOMAIN Unset /\ missing = {}
    /\ stage = "define" => Defined \subseteq js.packages
    /\ \A p \in Defined : InstsOf(p, "type") \subseteq js.set
    /\ \A p \in SetUp : /\ InstsOf(p, "func") \subseteq js.set
                        /\ InstsOf(p, "type") \subseteq js.complete
                        /\ Linknames(p) \subseteq js.linknames
    /\ \A p \in Relinked : \A i \in InstsOf(p, "func") : Info(i.o).impl # None => i.o \in js.linked

(* A step that is not left to do has been done.                            *)
Did(t) == /\ t.k = "import" => t.x \in js.ended
          /\ t.k \in {"zero", "var"} => Plain(t.x) \in js.set
Frames == {f \in [pkg : Linked, left : SUBSET UNION {InitCode(p) : p \in Linked}] :
              f.left \subseteq InitCode(f.pkg)}
InImport(f, q) == f.left # {} /\ Position(f).k = "import" /\ Position(f).x = q
GoodStack(st) ==
    /\ st \in Seq(Frames) /\ st # <<>>
    /\ \A n \in 1 .. Len(st) : \A t \in InitCode(st[n].pkg) \ st[n].left : Did(t)
    /\ \A n \in 1 .. Len(st) - 1 : InImport(st[n], st[n + 1].pkg)
    /\ \A n \in 1 .. Len(st) : \A m \in 1 .. n - 1 :
          st[n].pkg \in ImportsOf(prog, AllPkgs, ToSet(prog.imports[st[m].pkg]))
    /\ st[1].pkg = Runtime \/ (st[1].pkg = Root /\ Runtime \in js.ended)
StackInv ==
    /\ GoodStack(stack)
    /\ \A q \in js.begun : q \in js.ended \/ \E n \in 1 .. Len(stack) : stack[n].pkg = q
EndedInv ==
    /\ js.ended \subseteq Linked
    /\ \A q \in js.ended : /\ ToSet(prog.imports[q]) \subseteq js.ended
                           /\ \A t \in VarSteps(q) : Plain(t.x) \in js.set
(* What the code of a step has used is in whatever is closed under that.   *)
CodeInv ==
    /\ waits \subseteq EverBlocks
    /\ reach # {} =>
          /\ ~AtEnd(Top) /\ Position(Top).k \in OwnCode
          /\ \A S : Plain(Position(Top).x) \in S /\ RunsNext(prog, S) \subseteq S => reach \subseteq S
RunningInv ==
    /\ stage \notin {"start", "finished"} => js.ended = {} /\ reach = {} /\ waits = {}
    /\ EndedInv
    /\ stage = "start" => StackInv /\ CodeInv
    /\ stage = "finished" => js.ended = Linked

StartInv ==
    /\ stage \in Stages
    /\ IF stage = "none" THEN Idle ELSE phase = "written" /\ OrderInv /\ SetInv /\ RunningInv

(* The program and what was made of it stay as they are.                   *)
LEMMA SameWritten ==
    ASSUME UNCHANGED vars
    PROVE  /\ Linked' = Linked /\ Root' = Root /\ EverBlocks' = EverBlocks /\ AllPkgs' = AllPkgs
           /\ \A p, k : InstsOf(p, k)' = InstsOf(p, k) /\ DeclsOf(p, k)' = DeclsOf(p, k)
           /\ \A p : InitCode(p)' = InitCode(p) /\ VarSteps(p)' = VarSteps(p)
           /\ \A o : Info(o)' = Info(o)
<1>1. prog' = prog /\ roots' = roots /\ program' = program /\ infos' = infos
  BY DEF vars
<1>2. Root' = Root /\ AllPkgs' = AllPkgs
  BY <1>1 DEF Root, AllPkgs
<1>3. Linked' = Linked
  BY <1>1, SameLinked
<1>4. EverBlocks' = EverBlocks
  BY <1>1, SameBlocks
<1>5. \A o : Info(o)' = Info(o)
  BY <1>1 DEF Info
<1>6. \A p, k : DeclsOf(p, k)' = DeclsOf(p, k)
  BY <1>1 DEF DeclsOf
<1>7. \A p, k : InstsOf(p, k)' = InstsOf(p, k)
  BY <1>6 DEF InstsOf
<1>8. \A p : VarSteps(p)' = VarSteps(p)
  BY <1>1, <1>7 DEF VarSteps, Steps
<1>9. \A p : InitCode(p)' = InitCode(p)
  BY <1>1, <1>2, <1>5, <1>8 DEF InitCode, ImportSteps, CallSteps, Steps
<1> QED
  BY <1>2, <1>3, <1>4, <1>5, <1>6, <1>7, <1>8, <1>9

LEMMA StartsIdle ==
    ASSUME StartInit
    PROVE  StartInv
BY DEF StartInit, StartInv, Idle, Stages

LEMMA SessionStepKept ==
    ASSUME StartInv, SessionStep
    PROVE  StartInv'
BY DEF StartInv, SessionStep, Idle, Stages, svars, collecting, executing

-----------------------------------------------------------------------------
(* Loading keeps the invariant.                                            *)

EarlyStages == {"none", "collect", "define", "finish", "link", "run"}

LEMMA NothingRuns ==
    ASSUME StartInv, stage \in EarlyStages, stage' \in EarlyStages,
           UNCHANGED <<vars, executing>>, js'.ended = js.ended
    PROVE  RunningInv'
<1>1. js.ended = {} /\ reach = {} /\ waits = {}
  <2>1. CASE stage = "none"
    BY <2>1 DEF StartInv, Idle, Unset
  <2>2. CASE stage # "none"
    BY <2>2 DEF StartInv, RunningInv, EarlyStages
  <2> QED
    BY <2>1, <2>2
<1>2. js'.ended = {} /\ reach' = {} /\ waits' = {} /\ stage' \notin {"start", "finished"}
  BY <1>1 DEF executing, EarlyStages
<1>3. EndedInv'
  BY <1>2 DEF EndedInv
<1> QED
  BY <1>2, <1>3 DEF RunningInv

LEMMA LoadKept ==
    ASSUME StartInv, Written, Load
    PROVE  StartInv'
<1>1. /\ stage = "none" /\ stage' = "collect" /\ visit' = <<Root, Runtime>> /\ phase' = phase
      /\ UNCHANGED <<vars, executing>> /\ order' = order /\ at' = at /\ js' = js /\ missing' = missing
  BY DEF Load, vars
<1>2. Idle /\ phase = "written"
  BY <1>1 DEF StartInv, Written
<1>3. Linked' = Linked /\ Root' = Root /\ Root \in Linked /\ Runtime \in Linked
  BY <1>1, WrittenIs, SameWritten
<1>4. OrderInv'
  <2>1. <<Root, Runtime>> \in Seq(Linked) /\ Len(<<Root, Runtime>>) = 2 /\ <<Root, Runtime>> # <<>>
        /\ <<Root, Runtime>>[1] = Root /\ <<Root, Runtime>>[2] = Runtime
    BY <1>3
  <2>2. order' \in Seq(Linked) /\ Len(order') = 0 /\ at' = 1
    BY <1>1, <1>2 DEF Idle
  <2>3. Ordered'
    BY <2>2 DEF Ordered
  <2> QED
    BY <1>1, <1>3, <2>1, <2>2, <2>3 DEF OrderInv
<1>5. SetInv'
  <2>1. Defined' = {} /\ SetUp' = {} /\ Relinked' = {}
    BY <1>1 DEF Defined, SetUp, Relinked, Passed, AfterDefine, AfterFinish, AfterLink
  <2>2. DOMAIN js' = DOMAIN Unset /\ missing' = {}
    BY <1>1, <1>2 DEF Idle
  <2> QED
    BY <1>1, <2>1, <2>2 DEF SetInv
<1>6. RunningInv'
  <2>1. stage \in EarlyStages /\ stage' \in EarlyStages /\ js'.ended = js.ended
    BY <1>1 DEF EarlyStages
  <2> QED
    BY <1>1, <2>1, NothingRuns
<1> QED
  BY <1>1, <1>2, <1>4, <1>5, <1>6 DEF StartInv, Stages

(* A sequence whose members come after their imports is closed.            *)
LEMMA OrderedClosed ==
    ASSUME Written, order \in Seq(Linked), Ordered, NEW n \in 0 .. Len(order)
    PROVE  Closed({order[m] : m \in 1 .. n})
<1> DEFINE S == {order[m] : m \in 1 .. n}
<1>1. Len(order) \in Nat /\ Linked \subseteq AllPkgs /\ \A m \in 1 .. Len(order) : order[m] \in Linked
  BY WrittenIs, SeqFacts
<1>2. \A m \in 1 .. n : m \in 1 .. Len(order) /\ 1 .. m - 1 \subseteq 1 .. n
  BY <1>1
<1>3. ASSUME NEW m \in 1 .. n, NEW q \in ToSet(prog.imports[order[m]])
      PROVE  q \in S
  BY <1>2, <1>3 DEF Ordered
<1>4. S \subseteq AllPkgs
  BY <1>1, <1>2
<1> QED
  BY <1>3, <1>4 DEF Closed

LEMMA CollectDependenciesKept ==
    ASSUME StartInv, Written, CollectDependencies
    PROVE  StartInv'
<1> DEFINE p == Last(visit)
           imports == prog.imports[p]
           left == {n \in DOMAIN imports : imports[n] \notin ToSet(order)}
<1>1. /\ stage = "collect" /\ UNCHANGED <<vars, executing>> /\ at' = at /\ js' = js /\ missing' = missing
      /\ phase = "written" /\ phase' = phase
      /\ IF left # {} THEN visit' = Append(visit, imports[Min(left)]) /\ stage' = stage /\ order' = order
         ELSE /\ order' = Append(order, p) /\ visit' = Front(visit)
              /\ stage' = IF Len(visit) = 1 THEN "define" ELSE stage
  BY DEF CollectDependencies, vars, Written
<1>2. OrderInv /\ SetInv
  BY <1>1 DEF StartInv
<1>3. /\ order \in Seq(Linked) /\ Ordered /\ visit \in Seq(Linked) /\ visit # <<>> /\ visit[1] = Root
      /\ at = 1 /\ (Runtime \in ToSet(order) \/ (Len(visit) >= 2 /\ visit[2] = Runtime))
  BY <1>1, <1>2 DEF OrderInv
<1>4. /\ prog \in Programs /\ Closed(Linked) /\ Linked \subseteq AllPkgs /\ Root \in Linked
      /\ Linked' = Linked /\ Root' = Root /\ prog' = prog
  BY <1>1, WrittenIs, SameWritten DEF vars
<1>5. /\ p = visit[Len(visit)] /\ p \in Linked /\ Len(visit) \in Nat /\ Len(visit) >= 1
      /\ Front(visit) \in Seq(Linked) /\ Len(Front(visit)) = Len(visit) - 1
      /\ \A n \in 1 .. Len(visit) - 1 : Front(visit)[n] = visit[n]
  BY <1>3, FrontIs
<1>6. imports \in Seq(Linked) /\ Len(imports) \in Nat /\ DOMAIN imports = 1 .. Len(imports)
  <2>1. imports \in Seq(AllPkgs) /\ ToSet(imports) \subseteq Linked
    <3>1. prog.imports \in [AllPkgs -> Seq(AllPkgs)]
      BY <1>4, CompileAssumption DEF AllPkgs, WellTyped
    <3> QED
      BY <1>4, <1>5, <3>1 DEF Closed
  <2>2. Len(imports) \in Nat /\ DOMAIN imports = 1 .. Len(imports) /\ \A n \in 1 .. Len(imports) : imports[n] \in Linked
    BY <2>1, SeqFacts, InToSet
  <2> QED
    BY <2>1, <2>2
<1>7. CASE left # {}
  <2> DEFINE q == imports[Min(left)]
  <2>1. Min(left) \in left /\ q \in Linked
    <3>1. left \subseteq Nat
      BY <1>6
    <3>2. Min(left) \in left
      BY <1>7, <3>1, MinIs
    <3> QED
      BY <1>6, <3>2, SeqFacts
  <2>2. /\ visit' \in Seq(Linked) /\ Len(visit') = Len(visit) + 1 /\ visit' # <<>>
        /\ \A n \in 1 .. Len(visit) : visit'[n] = visit[n]
    <3> HIDE DEF q
    <3>1. visit' = Append(visit, q)
      BY <1>1, <1>7 DEF q
    <3> QED
      BY <1>3, <2>1, <3>1, AppendIs
  <2>3. visit'[1] = Root /\ (Len(visit) >= 2 => visit'[2] = visit[2] /\ Len(visit') >= 2)
    BY <1>3, <1>5, <2>2
  <2>4. stage' = "collect" /\ order' = order /\ Ordered'
    BY <1>1, <1>3, <1>4, <1>7 DEF Ordered
  <2>5. OrderInv'
    BY <1>1, <1>3, <1>4, <2>2, <2>3, <2>4 DEF OrderInv
  <2>6. SetInv'
    <3>1. Defined' = {} /\ SetUp' = {} /\ Relinked' = {}
      BY <2>4 DEF Defined, SetUp, Relinked, Passed, AfterDefine, AfterFinish, AfterLink
    <3> QED
      BY <1>1, <1>2, <2>4, <3>1 DEF SetInv
  <2>7. RunningInv'
    BY <1>1, <2>4, NothingRuns DEF EarlyStages
  <2> QED
    BY <1>1, <2>4, <2>5, <2>6, <2>7 DEF StartInv, Stages
<1>8. CASE left = {}
  <2>1. order' = Append(order, p) /\ visit' = Front(visit) /\ stage' = IF Len(visit) = 1 THEN "define" ELSE "collect"
    BY <1>1, <1>8
  <2>2. /\ order' \in Seq(Linked) /\ Len(order') = Len(order) + 1 /\ Len(order) \in Nat
        /\ \A n \in 1 .. Len(order) : order'[n] = order[n]
        /\ order'[Len(order) + 1] = p /\ ToSet(order') = ToSet(order) \cup {p}
    BY <1>3, <1>5, <2>1, AppendIs, SeqFacts
  <2>3. ToSet(imports) \subseteq ToSet(order)
    BY <1>6, <1>8 DEF ToSet
  <2>4. Ordered'
    <3>1. ASSUME NEW n \in 1 .. Len(order'), NEW q \in ToSet(prog.imports[order'[n]])
          PROVE  \E m \in 1 .. n - 1 : order'[m] = q
      <4>1. CASE n \in 1 .. Len(order)
        <5>1. order'[n] = order[n]
          BY <2>2, <4>1
        <5>2. PICK m \in 1 .. n - 1 : order[m] = q
          BY <1>3, <3>1, <4>1, <5>1 DEF Ordered
        <5>3. m \in 1 .. Len(order)
          BY <2>2, <4>1
        <5> QED
          BY <2>2, <5>2, <5>3
      <4>2. CASE n = Len(order) + 1
        <5>1. q \in ToSet(order)
          BY <2>2, <2>3, <3>1, <4>2
        <5>2. PICK m \in 1 .. Len(order) : order[m] = q
          BY <1>3, <5>1, InToSet
        <5>3. m \in 1 .. n - 1
          BY <2>2, <4>2
        <5> QED
          BY <2>2, <5>2, <5>3
      <4> QED
        BY <2>2, <4>1, <4>2
    <3> QED
      BY <1>4, <3>1 DEF Ordered
  <2>5. CASE Len(visit) = 1
    <3>1. stage' = "define" /\ p = Root /\ Runtime \in ToSet(order)
      BY <1>3, <1>5, <2>1, <2>5
    <3>2. ToSet(order') \subseteq Linked /\ {Root, Runtime} \subseteq ToSet(order')
      BY <2>2, <3>1, InToSet
    <3>3. Closed(ToSet(order'))
      <4>1. ASSUME NEW q \in ToSet(order'), NEW r \in ToSet(prog.imports[q])
            PROVE  r \in ToSet(order')
        <5>1. PICK n \in 1 .. Len(order') : order'[n] = q
          BY <2>2, InToSet
        <5>2. PICK m \in 1 .. n - 1 : order'[m] = r
          BY <1>4, <2>4, <4>1, <5>1 DEF Ordered
        <5>3. m \in 1 .. Len(order')
          BY <2>2
        <5> QED
          BY <2>2, <5>2, <5>3, InToSet
      <4> QED
        BY <1>4, <3>2, <4>1 DEF Closed
    <3>4. Linked \subseteq ToSet(order')
      BY <3>2, <3>3, ImportsFacts DEF Linked, ImportDependencies, AllPkgs
    <3>5. at' \in 1 .. Len(order')
      BY <1>1, <1>3, <2>2
    <3>6. OrderInv'
      BY <1>4, <2>2, <2>4, <3>1, <3>2, <3>4, <3>5 DEF OrderInv
    <3>7. SetInv'
      <4>1. Defined' = {} /\ SetUp' = {} /\ Relinked' = {}
        <5>1. 1 .. at' - 1 = {}
          BY <1>1, <1>3
        <5> QED
          BY <3>1, <5>1 DEF Defined, SetUp, Relinked, Passed, AfterDefine, AfterFinish, AfterLink
      <4> QED
        BY <1>1, <1>2, <4>1 DEF SetInv
    <3>8. RunningInv'
      BY <1>1, <3>1, NothingRuns DEF EarlyStages
    <3> QED
      BY <1>1, <3>1, <3>6, <3>7, <3>8 DEF StartInv, Stages, AfterDefine
  <2>6. CASE Len(visit) # 1
    <3>1. stage' = "collect" /\ Len(visit) >= 2 /\ Len(visit') >= 1
      BY <1>5, <2>1, <2>6
    <3>2. visit' \in Seq(Linked) /\ visit' # <<>> /\ visit'[1] = Root
      BY <1>3, <1>5, <2>1, <3>1
    <3>3. Runtime \in ToSet(order') \/ (Len(visit') >= 2 /\ visit'[2] = Runtime)
      <4>1. CASE Len(visit) = 2
        BY <1>3, <1>5, <2>2, <4>1
      <4>2. CASE Len(visit) # 2
        BY <1>3, <1>5, <2>1, <2>2, <3>1, <4>2
      <4> QED
        BY <4>1, <4>2
    <3>4. OrderInv'
      BY <1>1, <1>3, <1>4, <2>2, <2>4, <3>1, <3>2, <3>3 DEF OrderInv
    <3>5. SetInv'
      <4>1. Defined' = {} /\ SetUp' = {} /\ Relinked' = {}
        BY <3>1 DEF Defined, SetUp, Relinked, Passed, AfterDefine, AfterFinish, AfterLink
      <4> QED
        BY <1>1, <1>2, <3>1, <4>1 DEF SetInv
    <3>6. RunningInv'
      BY <1>1, <3>1, NothingRuns DEF EarlyStages
    <3> QED
      BY <1>1, <3>1, <3>4, <3>5, <3>6 DEF StartInv, Stages
  <2> QED
    BY <2>5, <2>6
<1> QED
  BY <1>7, <1>8
(* A pass moves to the next package, or to what comes after it.            *)
LEMMA PassMoves ==
    ASSUME Written, OrderInv, NEW name \in {"define", "finish", "link"},
           NEW next \in AfterDefine, next # name, NEW later, next \in later,
           name \notin later, Pass(name, next)
    PROVE  /\ order \in Seq(Linked) /\ Ordered /\ at \in 1 .. Len(order) /\ order[at] \in Linked
           /\ order' = order /\ stage = name
           /\ stage' = name \/ (stage' = next /\ {order[n] : n \in 1 .. at' - 1} = {})
           /\ UNCHANGED <<vars, executing>>
           /\ Passed(name, later) = {order[n] : n \in 1 .. at - 1}
           /\ Passed(name, later)' = Passed(name, later) \cup {order[at]}
           /\ OrderInv'
<1>1. /\ stage = name /\ stage # "collect" /\ order' = order /\ UNCHANGED <<vars, executing>>
      /\ IF at < Len(order) THEN at' = at + 1 /\ stage' = stage ELSE at' = 1 /\ stage' = next
  BY DEF Pass, collecting
<1>2. /\ order \in Seq(Linked) /\ Ordered /\ at \in 1 .. Len(order) /\ ToSet(order) = Linked
  BY <1>1 DEF OrderInv
<1>3. Len(order) \in Nat /\ order[at] \in Linked
  BY <1>2, SeqFacts
<1>4. /\ stage' = name \/ (stage' = next /\ {order[n] : n \in 1 .. at' - 1} = {})
      /\ stage' # "collect" /\ at' \in 1 .. Len(order)
  <2>1. CASE at < Len(order)
    BY <1>1, <1>2, <1>3, <2>1 DEF AfterDefine
  <2>2. CASE ~(at < Len(order))
    BY <1>1, <1>2, <1>3, <2>2 DEF AfterDefine
  <2> QED
    BY <2>1, <2>2
<1>5. Linked' = Linked /\ Root' = Root /\ prog' = prog
  BY <1>1, SameWritten DEF vars
<1>6. Passed(name, later) = {order[n] : n \in 1 .. at - 1}
  BY <1>1 DEF Passed
<1>7. Passed(name, later)' = Passed(name, later) \cup {order[at]}
  <2>1. 1 .. at = (1 .. at - 1) \cup {at}
    BY <1>2, <1>3
  <2>2. CASE at < Len(order)
    <3>1. at' - 1 = at /\ stage' = name
      BY <1>1, <1>2, <1>3, <2>2
    <3>2. Passed(name, later)' = {order[n] : n \in 1 .. at}
      BY <1>1, <3>1 DEF Passed
    <3> QED
      BY <1>6, <2>1, <3>2
  <2>3. CASE ~(at < Len(order))
    <3>1. at = Len(order) /\ stage' = next
      BY <1>1, <1>2, <1>3, <2>3
    <3>2. Passed(name, later)' = Linked
      BY <1>1, <1>5, <3>1 DEF Passed
    <3>3. Linked = {order[n] : n \in 1 .. at}
      BY <1>2, <3>1, SeqFacts DEF ToSet
    <3> QED
      BY <1>6, <2>1, <3>2, <3>3
  <2> QED
    BY <2>2, <2>3
<1>8. OrderInv'
  <2>1. Ordered' <=> Ordered
    BY <1>1, <1>5 DEF Ordered
  <2> QED
    BY <1>1, <1>2, <1>4, <1>5, <2>1 DEF OrderInv
<1> QED
  BY <1>1, <1>2, <1>3, <1>4, <1>6, <1>7, <1>8

LEMMA UnsetHas ==
    DOMAIN Unset = {"packages", "set", "complete", "linknames", "linked", "begun", "ended"}
BY DEF Unset

LEMMA DefinePackageKept ==
    ASSUME StartInv, Written, DefinePackage
    PROVE  StartInv'
<1> DEFINE p == order[at]
<1>1. /\ Pass("define", "finish") /\ missing' = missing \cup (ToSet(prog.imports[p]) \ js.packages)
      /\ js' = [js EXCEPT !.packages = @ \cup {p}, !.set = @ \cup InstsOf(p, "type")]
  BY DEF DefinePackage, Need
<1>2. stage = "define" /\ phase = "written"
  BY <1>1 DEF Pass, Written
<1>3. OrderInv /\ SetInv
  BY <1>2 DEF StartInv
<1>4. /\ order \in Seq(Linked) /\ Ordered /\ at \in 1 .. Len(order) /\ p \in Linked
      /\ stage' = "define" \/ (stage' = "finish" /\ {order[n] : n \in 1 .. at' - 1} = {})
      /\ UNCHANGED <<vars, executing>> /\ order' = order
      /\ Defined = {order[n] : n \in 1 .. at - 1} /\ Defined' = Defined \cup {p} /\ OrderInv'
  BY <1>1, <1>3, PassMoves DEF Defined, AfterDefine
<1>5. /\ DOMAIN js' = DOMAIN Unset /\ js'.packages = js.packages \cup {p}
      /\ js'.set = js.set \cup InstsOf(p, "type") /\ js'.complete = js.complete
      /\ js'.linknames = js.linknames /\ js'.linked = js.linked /\ js'.ended = js.ended
  BY <1>1, <1>3, UnsetHas DEF SetInv
<1>6. missing' = {}
  <2>1. ASSUME NEW q \in ToSet(prog.imports[p])
        PROVE  q \in Defined
    <3>1. \E m \in 1 .. at - 1 : order[m] = q
      BY <1>4, <2>1 DEF Ordered
    <3> QED
      BY <1>4, <3>1
  <2> QED
    BY <1>1, <1>2, <1>3, <2>1 DEF SetInv
<1>7. SetUp' = {} /\ Relinked' = {}
  BY <1>4 DEF SetUp, Relinked, Passed, AfterFinish, AfterLink
<1>8. SetInv'
  <2>1. \A q, k : InstsOf(q, k)' = InstsOf(q, k)
    BY <1>4, SameWritten
  <2>2. \A q \in Defined' : InstsOf(q, "type")' \subseteq js'.set
    BY <1>3, <1>4, <1>5, <2>1 DEF SetInv
  <2>3. Defined' \subseteq js'.packages
    BY <1>2, <1>3, <1>4, <1>5 DEF SetInv
  <2> QED
    BY <1>5, <1>6, <1>7, <2>2, <2>3 DEF SetInv
<1>9. RunningInv'
  BY <1>2, <1>4, <1>5, NothingRuns DEF EarlyStages
<1>10. stage' \in Stages /\ stage' # "none" /\ phase' = "written"
  BY <1>2, <1>4 DEF Stages, AfterDefine, vars
<1> QED
  BY <1>4, <1>8, <1>9, <1>10 DEF StartInv

LEMMA FinishSetupKept ==
    ASSUME StartInv, Written, FinishSetup
    PROVE  StartInv'
<1> DEFINE p == order[at]
           set == js.set \cup InstsOf(p, "func")
<1>1. /\ Pass("finish", "link") /\ missing' = missing \cup ((Receivers(p) \cup TypeReferences(p)) \ set)
      /\ js' = [js EXCEPT !.set = set, !.complete = @ \cup InstsOf(p, "type"),
                          !.linknames = @ \cup Linknames(p)]
  BY DEF FinishSetup, Need
<1>2. stage = "finish" /\ phase = "written"
  BY <1>1 DEF Pass, Written
<1>3. OrderInv /\ SetInv
  BY <1>2 DEF StartInv
<1>4. /\ order \in Seq(Linked) /\ Ordered /\ at \in 1 .. Len(order) /\ p \in Linked
      /\ stage' = "finish" \/ (stage' = "link" /\ {order[n] : n \in 1 .. at' - 1} = {})
      /\ UNCHANGED <<vars, executing>> /\ order' = order
      /\ SetUp = {order[n] : n \in 1 .. at - 1} /\ SetUp' = SetUp \cup {p} /\ OrderInv'
  BY <1>1, <1>3, PassMoves DEF SetUp, AfterDefine, AfterFinish
<1>5. /\ DOMAIN js' = DOMAIN Unset /\ js'.set = js.set \cup InstsOf(p, "func")
      /\ js'.complete = js.complete \cup InstsOf(p, "type")
      /\ js'.linknames = js.linknames \cup Linknames(p)
      /\ js'.linked = js.linked /\ js'.ended = js.ended
  BY <1>1, <1>3, UnsetHas DEF SetInv
<1>6. Linked' = Linked /\ Defined = Linked /\ Defined' = Linked
  <2>1. Linked' = Linked
    BY <1>4, SameWritten
  <2> QED
    BY <1>2, <1>4, <2>1 DEF Defined, Passed, AfterDefine
<1>7. missing' = {}
  <2>1. \A q \in Linked : InstsOf(q, "type") \subseteq js.set
    BY <1>3, <1>6 DEF SetInv
  <2>2. \A q \in SetUp : InstsOf(q, "func") \subseteq js.set
    BY <1>3 DEF SetInv
  <2>3. Receivers(p) \subseteq js.set
    BY <1>4, <2>1, ReceiversAre
  <2>4. TypeReferences(p) \subseteq set
    <3>1. ASSUME NEW j \in TypeReferences(p)
          PROVE  j \in set
      <4>1. CASE \E q \in Linked : j \in InstsOf(q, "type")
        BY <2>1, <4>1
      <4>2. CASE \E q \in ImportsOf(prog, AllPkgs, {p}) : j \in InstsOf(q, "func")
        <5> DEFINE B == {order[m] : m \in 1 .. at}
        <5>1. Len(order) \in Nat /\ at \in 0 .. Len(order)
          BY <1>4, SeqFacts
        <5>2. Closed(B)
          BY <1>4, <5>1, OrderedClosed
        <5>3. 1 .. at = (1 .. at - 1) \cup {at}
          BY <1>4
        <5>4. B = SetUp \cup {p}
          BY <1>4, <5>3
        <5>5. ImportsOf(prog, AllPkgs, {p}) \subseteq B
          BY <5>2, <5>4, ImportsFacts
        <5> QED
          BY <2>2, <4>2, <5>4, <5>5
      <4> QED
        BY <1>4, <3>1, <4>1, <4>2, TypeReferencesAre
    <3> QED
      BY <3>1
  <2> QED
    BY <1>1, <1>3, <2>3, <2>4 DEF SetInv
<1>8. SetInv'
  <2>1. \A q, k : InstsOf(q, k)' = InstsOf(q, k)
    BY <1>4, SameWritten
  <2>2. \A q \in Defined' : InstsOf(q, "type")' \subseteq js'.set
    BY <1>3, <1>5, <1>6, <2>1 DEF SetInv
  <2>3. \A q : Linknames(q)' = Linknames(q)
    <3>1. program' = program /\ prog' = prog
      BY <1>4 DEF vars
    <3> QED
      BY <1>4, <3>1 DEF Linknames, DeclsOf, IsImplementation, Info
  <2>4. \A q \in SetUp' : /\ InstsOf(q, "func")' \subseteq js'.set
                          /\ InstsOf(q, "type")' \subseteq js'.complete
                          /\ Linknames(q)' \subseteq js'.linknames
    BY <1>3, <1>4, <1>5, <2>1, <2>3 DEF SetInv
  <2>5. Relinked' = {}
    BY <1>4 DEF Relinked, Passed, AfterLink
  <2> QED
    BY <1>4, <1>5, <1>7, <2>2, <2>4, <2>5 DEF SetInv
<1>9. RunningInv'
  BY <1>2, <1>4, <1>5, NothingRuns DEF EarlyStages
<1>10. stage' \in Stages /\ stage' # "none" /\ phase' = "written"
  BY <1>2, <1>4 DEF Stages, AfterDefine, vars
<1> QED
  BY <1>4, <1>8, <1>9, <1>10 DEF StartInv

LEMMA InitLinknamesKept ==
    ASSUME StartInv, Written, InitLinknames
    PROVE  StartInv'
<1> DEFINE p == order[at]
           references == {i.o : i \in {j \in InstsOf(p, "func") : Info(j.o).impl # None}}
<1>1. /\ Pass("link", "run") /\ missing' = missing \cup ({Info(o).impl : o \in references} \ js.linknames)
      /\ js' = [js EXCEPT !.linked = @ \cup references]
  BY DEF InitLinknames, Need
<1>2. stage = "link" /\ phase = "written"
  BY <1>1 DEF Pass, Written
<1>3. OrderInv /\ SetInv
  BY <1>2 DEF StartInv
<1>4. /\ order \in Seq(Linked) /\ at \in 1 .. Len(order) /\ p \in Linked
      /\ stage' \in {"link", "run"} /\ UNCHANGED <<vars, executing>> /\ order' = order
      /\ Relinked' = Relinked \cup {p} /\ OrderInv'
  BY <1>1, <1>3, PassMoves DEF Relinked, AfterDefine, AfterLink
<1>5. /\ DOMAIN js' = DOMAIN Unset /\ js'.set = js.set /\ js'.complete = js.complete
      /\ js'.linknames = js.linknames /\ js'.linked = js.linked \cup references
      /\ js'.ended = js.ended
  BY <1>1, <1>3, UnsetHas DEF SetInv
<1>6. Linked' = Linked /\ Defined = Linked /\ Defined' = Linked /\ SetUp = Linked /\ SetUp' = Linked
  <2>1. Linked' = Linked
    BY <1>4, SameWritten
  <2> QED
    BY <1>2, <1>4, <2>1 DEF Defined, SetUp, Passed, AfterDefine, AfterFinish
<1>7. missing' = {}
  <2>1. ToSet(order) = Linked
    BY <1>2, <1>3 DEF OrderInv
  <2>2. ASSUME NEW o \in references
        PROVE  Info(o).impl \in js.linknames
    <3>1. PICK i \in InstsOf(p, "func") : Info(i.o).impl # None /\ o = i.o
      OBVIOUS
    <3>2. PICK q \in Linked : Info(i.o).impl \in Linknames(q)
      BY <1>4, <2>1, <3>1, LinknamesAre
    <3> QED
      BY <1>3, <1>6, <3>1, <3>2 DEF SetInv
  <2> QED
    BY <1>1, <1>3, <2>2 DEF SetInv
<1>8. SetInv'
  <2>1. /\ \A q, k : InstsOf(q, k)' = InstsOf(q, k)
        /\ \A o : Info(o)' = Info(o)
    BY <1>4, SameWritten
  <2>2. \A q \in Defined' : InstsOf(q, "type")' \subseteq js'.set
    BY <1>3, <1>5, <1>6, <2>1 DEF SetInv
  <2>3. \A q : Linknames(q)' = Linknames(q)
    <3>1. program' = program /\ prog' = prog
      BY <1>4 DEF vars
    <3> QED
      BY <1>4, <3>1 DEF Linknames, DeclsOf, IsImplementation, Info
  <2>4. \A q \in SetUp' : /\ InstsOf(q, "func")' \subseteq js'.set
                          /\ InstsOf(q, "type")' \subseteq js'.complete
                          /\ Linknames(q)' \subseteq js'.linknames
    BY <1>3, <1>5, <1>6, <2>1, <2>3 DEF SetInv
  <2>5. \A q \in Relinked' : \A i \in InstsOf(q, "func")' : Info(i.o)'.impl # None => i.o \in js'.linked
    BY <1>3, <1>4, <1>5, <2>1 DEF SetInv
  <2> QED
    BY <1>4, <1>5, <1>7, <2>2, <2>4, <2>5 DEF SetInv
<1>9. RunningInv'
  BY <1>2, <1>4, <1>5, NothingRuns DEF EarlyStages
<1>10. stage' \in Stages /\ stage' # "none" /\ phase' = "written"
  BY <1>2, <1>4 DEF Stages, AfterDefine, vars
<1> QED
  BY <1>4, <1>8, <1>9, <1>10 DEF StartInv

-----------------------------------------------------------------------------
(* What code leads to stays in the packages that it imports.               *)

LEMMA CalleeIn ==
    ASSUME prog \in Programs, NEW S, Closed(S), NEW i, IsInst(i, S), NEW u \in Info(i.o).uses,
           u.k \in {"call", "value", "method", "var"}
    PROVE  IsInst(CalleeInst(u, i), S)
<1> DEFINE c == CalleeInst(u, i)
           a == Substitute(u.a, Arg(i))
<1>1. i.o \in Names /\ Info(i.o).pkg \in S /\ T # None /\ (HasT(i.o) => IsClosed(Arg(i), S))
  BY InstIs, ProgramFacts
<1>2. /\ u.k \in {"call", "value"} => u.o \in Names /\ Info(u.o).kind = "func"
      /\ u.k = "method" => u.o \in Names /\ Info(u.o).kind = "method"
      /\ u.k = "var" => u.o \in Names /\ Info(u.o).kind = "var" /\ u.a = NoType
      /\ u.k \in {"call", "value", "method"} =>
            IF Info(u.o).generic THEN IsType(prog, u.a) /\ (IsGeneric(u.a) => HasT(i.o))
            ELSE u.a = NoType
      /\ u.o \in Names => Info(u.o).pkg \in S
      /\ In(u.a, S)
  BY <1>1, UseFacts DEF HasT
<1>3. u.o \in Names /\ Info(u.o).pkg \in S /\ Info(u.o).kind \in {"func", "method", "var"}
  BY <1>2
<1>4. c = Inst(u.o, a, NoType) /\ c.o = u.o /\ c.args = a /\ c.nest = NoType
  BY InstFields DEF CalleeInst
<1>5. Info(u.o).nest = None /\ (Info(u.o).kind = "var" => ~Info(u.o).generic)
  BY <1>3, ObjectFacts
<1>6. IF Info(u.o).generic THEN IsClosed(a, S) ELSE a = NoType
  <2>1. CASE Info(u.o).generic
    BY <1>1, <1>2, <1>5, <2>1, SubstituteIsType
  <2>2. CASE ~Info(u.o).generic
    <3>1. u.a = NoType
      BY <1>2, <2>2
    <3> QED
      BY <1>1, <2>2, <3>1, NoTypeFacts, SubstituteClosed
  <2> QED
    BY <2>1, <2>2
<1> QED
  BY <1>3, <1>4, <1>5, <1>6 DEF IsInst, PkgOf

LEMMA MadeIn ==
    ASSUME prog \in Programs, NEW S, Closed(S), NEW i, IsInst(i, S), NEW j \in Makes(prog, i)
    PROVE  IsInst(j, S)
<1>1. PICK u \in Info(i.o).uses : /\ u.k \in {"type", "method"} /\ IsNamed(LiteralType(prog, u, i))
                                  /\ j = TypeInst(prog, LiteralType(prog, u, i), i)
  BY DEF Makes, UsesOf, Uses, Obj, Info
<1> DEFINE L == Literal(prog, u)
           t == LiteralType(prog, u, i)
<1>2. i.o \in Names /\ Info(i.o).pkg \in S /\ T # None /\ (HasT(i.o) => IsClosed(Arg(i), S))
  BY InstIs, ProgramFacts
<1>3. t = Substitute(L, Arg(i)) /\ IsNamed(t)
  BY <1>1 DEF LiteralType
<1>4. /\ In(L, S)
      /\ \/ L = NoType
         \/ IsType(prog, L) /\ (IsGeneric(L) => HasT(i.o))
         \/ \E d \in Info(i.o).uses : d.k = "decl" /\ L = Type(<<d.o>>, None)
  BY <1>2, LiteralFacts
<1>5. CASE L = NoType
  <2>1. t = NoType
    BY <1>2, <1>3, <1>5, NoTypeFacts, SubstituteClosed
  <2> QED
    BY <1>3, <2>1, NoTypeFacts
<1>6. CASE IsType(prog, L) /\ (IsGeneric(L) => HasT(i.o))
  <2>1. IsClosed(t, S)
    BY <1>2, <1>3, <1>4, <1>6, SubstituteIsType
  <2>2. IsType(prog, t) /\ ~IsGeneric(t) /\ In(t, S)
    BY <2>1, ClosedIs
  <2> HIDE DEF t, L
  <2>3. t \in NamedIn(t)
    BY <1>3, <2>2, TypeIsPart
  <2>4. /\ Outer(t) \in ToSet(t.named) /\ Outer(t) \in Names /\ Info(Outer(t)).nest = None
        /\ ArgOf(t).base = t.base /\ ToSet(ArgOf(t).named) \subseteq ToSet(t.named)
        /\ IF Info(Outer(t)).generic THEN IsType(prog, ArgOf(t)) ELSE ArgOf(t) = NoType
    BY <2>2, <2>3, PartIsType
  <2>5. j = Inst(Outer(t), ArgOf(t), NoType)
    BY <1>1, <2>4 DEF TypeInst, Obj, Info, t
  <2>6. j.o = Outer(t) /\ j.args = ArgOf(t) /\ j.nest = NoType
    BY <2>5, InstFields
  <2>7. Info(Outer(t)).pkg \in S
    BY <2>2, <2>4 DEF In
  <2>8. IF Info(Outer(t)).generic THEN IsClosed(ArgOf(t), S) ELSE ArgOf(t) = NoType
    <3>1. ~IsGeneric(ArgOf(t)) /\ In(ArgOf(t), S)
      BY <2>2, <2>4 DEF IsGeneric, In
    <3> QED
      BY <2>4, <3>1, ClosedIs
  <2> QED
    BY <2>4, <2>5, <2>6, <2>7, <2>8 DEF IsInst, PkgOf
<1>7. ASSUME NEW d \in Info(i.o).uses, d.k = "decl", L = Type(<<d.o>>, None)
      PROVE  IsInst(j, S)
  <2>1. d.o \in Names /\ Info(d.o).nest = i.o /\ Info(d.o).kind = "type" /\ Info(d.o).pkg \in S
    BY <1>2, <1>7, UseFacts
  <2>2. Info(d.o).nest # None
    BY <1>2, <2>1, ProgramFacts
  <2>3. Info(i.o).generic /\ ~Info(d.o).generic
    BY <2>1, <2>2, ObjectFacts
  <2>4. t = L /\ Outer(L) = d.o /\ ArgOf(L) = NoType
    <3>1. L.base = None /\ Outer(L) = d.o /\ ArgOf(L) = Type(<<>>, None)
      BY <1>7, SingleType
    <3>2. ~IsGeneric(L)
      BY <1>2, <3>1 DEF IsGeneric
    <3> QED
      BY <1>3, <3>1, <3>2, SubstituteClosed DEF NoType
  <2>5. j = Inst(d.o, NoType, Arg(i)) /\ IsClosed(Arg(i), S)
    BY <1>1, <1>2, <2>2, <2>3, <2>4 DEF TypeInst, Obj, Info, HasT
  <2>6. j.o = d.o /\ j.args = NoType /\ j.nest = Arg(i)
    BY <2>5, InstFields
  <2> QED
    BY <2>1, <2>2, <2>3, <2>5, <2>6 DEF IsInst, PkgOf
<1> QED
  BY <1>4, <1>5, <1>6, <1>7

LEMMA PlainIn ==
    ASSUME NEW o \in Names, NEW S, Info(o).pkg \in S, ~HasT(o)
    PROVE  IsInst(Plain(o), S)
BY InstFields DEF Plain, IsInst, PkgOf, HasT

LEMMA RunsIn ==
    ASSUME prog \in Programs, NEW S, Closed(S), NEW A, \A i \in A : IsInst(i, S)
    PROVE  \A j \in RunsNext(prog, A) : IsInst(j, S)
<1> SUFFICES ASSUME NEW j \in RunsNext(prog, A)
             PROVE  IsInst(j, S)
  OBVIOUS
<1>1. ASSUME NEW i \in A, j \in Refers(prog, i)
      PROVE  IsInst(j, S)
  <2>1. PICK u \in Info(i.o).uses : u.k \in {"call", "value", "method", "var"} /\ j = CalleeInst(u, i)
    BY <1>1 DEF Refers, UsesOf, Uses, Obj, Info
  <2> QED
    BY <1>1, <2>1, CalleeIn
<1>2. ASSUME NEW i \in A, j \in Makes(prog, i)
      PROVE  IsInst(j, S)
  BY <1>2, MadeIn
<1>3. ASSUME NEW i \in A, j \in LinkedTo(prog, i)
      PROVE  IsInst(j, S)
  <2> DEFINE o == Info(i.o).impl
  <2>1. i.o \in Names /\ Info(i.o).pkg \in S
    BY InstIs
  <2>2. o # None /\ j = Plain(o)
    BY <1>3 DEF LinkedTo, Obj, Info
  <2>3. o \in Names /\ Info(o).kind = "func" /\ ~Info(o).generic
        /\ Info(o).pkg \in ImportsOf(prog, AllPkgs, {Info(i.o).pkg})
    BY <2>1, <2>2, ObjectFacts
  <2>4. Info(o).pkg \in S
    BY <2>1, <2>3, ImportsFacts
  <2> HIDE DEF o
  <2>5. ~HasT(o)
    BY <2>3, ObjectFacts DEF HasT
  <2> QED
    BY <2>2, <2>3, <2>4, <2>5, PlainIn
<1>4. ASSUME NEW i \in A, NEW t \in A, NEW m \in CalledOn(prog, i, t), j = Inst(m, t.args, NoType)
      PROVE  IsInst(j, S)
  <2>1. m \in MethodsOf(prog, t.o)
    BY <1>4 DEF CalledOn
  <2>2. t.o \in Names /\ Info(t.o).pkg \in S
    BY InstIs
  <2>3. /\ m \in Names /\ Info(m).nest = None /\ Info(m).pkg = Info(t.o).pkg
        /\ Info(m).generic = Info(t.o).generic
    BY <2>1, <2>2, MethodFacts
  <2>4. IF Info(t.o).generic THEN IsClosed(t.args, S) ELSE t.args = NoType
    BY DEF IsInst
  <2>5. j.o = m /\ j.args = t.args /\ j.nest = NoType
    BY <1>4, InstFields
  <2> QED
    BY <1>4, <2>2, <2>3, <2>4, <2>5 DEF IsInst, PkgOf
<1> QED
  BY <1>1, <1>2, <1>3, <1>4 DEF RunsNext

LEMMA RunsMonotone ==
    ASSUME NEW S, NEW A, A \subseteq S
    PROVE  RunsNext(prog, A) \subseteq RunsNext(prog, S)
<1> SUFFICES ASSUME NEW j \in RunsNext(prog, A)
             PROVE  j \in RunsNext(prog, S)
  OBVIOUS
<1> DEFINE called(X) == {i \in X : Obj(prog, i.o).kind # "type"}
           made(X) == X \ called(X)
           Leads(i) == Refers(prog, i) \cup Makes(prog, i) \cup LinkedTo(prog, i)
           Met(i, t) == {Inst(m, t.args, NoType) : m \in CalledOn(prog, i, t)}
<1>1. \A X : RunsNext(prog, X) = X \cup (UNION {Leads(i) : i \in called(X)})
                                   \cup (UNION {Met(i, t) : i \in called(X), t \in made(X)})
  BY DEF RunsNext
<1>2. called(A) \subseteq called(S) /\ made(A) \subseteq made(S)
  OBVIOUS
<1> HIDE DEF called, made, Leads, Met
<1>3. CASE j \in A
  BY <1>1, <1>3
<1>4. CASE j \in UNION {Leads(i) : i \in called(A)}
  BY <1>1, <1>2, <1>4
<1>5. CASE j \in UNION {Met(i, t) : i \in called(A), t \in made(A)}
  <2>1. PICK i \in called(A) : \E t \in made(A) : j \in Met(i, t)
    BY <1>5
  <2>2. PICK t \in made(A) : j \in Met(i, t)
    BY <2>1
  <2>3. j \in UNION {Met(x, y) : x \in called(S), y \in made(S)}
    BY <1>2, <2>2
  <2> QED
    BY <1>1, <2>3
<1> QED
  BY <1>1, <1>3, <1>4, <1>5

-----------------------------------------------------------------------------
(* The steps of $init.                                                     *)

LEMMA StepsAre ==
    ASSUME NEW X, NEW k, NEW s \in Seq(X), NEW S
    PROVE  /\ \A t \in Steps(k, s, S) : /\ t.k = k /\ t.n \in 1 .. Len(s) /\ t.x = s[t.n] /\ t.x \in S
                                        /\ t.x \in ToSet(s) /\ t.n \in Nat
                                        /\ t = [k |-> k, n |-> t.n, x |-> t.x]
           /\ \A n \in 1 .. Len(s) : s[n] \in S => [k |-> k, n |-> n, x |-> s[n]] \in Steps(k, s, S)
           /\ \A x \in S \cap ToSet(s) : \E t \in Steps(k, s, S) : t.x = x
<1>1. DOMAIN s = 1 .. Len(s) /\ Len(s) \in Nat
  BY SeqFacts
<1>2. \A n \in 1 .. Len(s) : s[n] \in S => [k |-> k, n |-> n, x |-> s[n]] \in Steps(k, s, S)
  BY <1>1 DEF Steps
<1>3. \A t \in Steps(k, s, S) : \E n \in 1 .. Len(s) : s[n] \in S /\ t = [k |-> k, n |-> n, x |-> s[n]]
  BY <1>1 DEF Steps
<1>4. ASSUME NEW t \in Steps(k, s, S)
      PROVE  /\ t.k = k /\ t.n \in 1 .. Len(s) /\ t.x = s[t.n] /\ t.x \in S
             /\ t.x \in ToSet(s) /\ t.n \in Nat
             /\ t = [k |-> k, n |-> t.n, x |-> t.x]
  <2>1. PICK n \in 1 .. Len(s) : s[n] \in S /\ t = [k |-> k, n |-> n, x |-> s[n]]
    BY <1>3
  <2>2. t.k = k /\ t.n = n /\ t.x = s[n]
    BY <2>1
  <2>3. s[n] \in ToSet(s) /\ n \in Nat
    BY <1>1, InToSet
  <2> QED
    BY <2>1, <2>2, <2>3
<1>5. ASSUME NEW x \in S \cap ToSet(s)
      PROVE  \E t \in Steps(k, s, S) : t.x = x
  <2>1. PICK n \in 1 .. Len(s) : s[n] = x
    BY InToSet
  <2>2. [k |-> k, n |-> n, x |-> s[n]] \in Steps(k, s, S)
    BY <1>2, <2>1
  <2> QED
    BY <2>1, <2>2
<1> QED
  BY <1>2, <1>4, <1>5

(* The steps of a kind carry that kind.                                    *)
LEMMA StepKind ==
    ASSUME NEW k, NEW s, NEW S, NEW t \in Steps(k, s, S)
    PROVE  t.k = k
BY DEF Steps

(* The steps of a package's variables are the zero values and the          *)
(* initialisers, never calls.                                              *)
LEMMA VarStepKind ==
    ASSUME NEW p, NEW t \in VarSteps(p)
    PROVE  t.k \in {"zero", "var"}
<1> DEFINE W == {i.o : i \in InstsOf(p, "value")} \ ToSet(prog.inits[p])
           V == {i.o : i \in InstsOf(p, "value")}
<1>1. t \in Steps("zero", prog.order[p], W) \/ t \in Steps("var", prog.inits[p], V)
  BY DEF VarSteps
<1> HIDE DEF V, W
<1> QED
  BY <1>1, StepKind

LEMMA InitCodeIs ==
    ASSUME Written, NEW p \in Linked
    PROVE  /\ VarSteps(p) \subseteq InitCode(p)
           /\ \A q \in ToSet(prog.imports[p]) : \E t \in InitCode(p) : t.k = "import" /\ t.x = q
           /\ \A i \in InstsOf(p, "value") :
                 i = Plain(i.o) /\ \E t \in VarSteps(p) : t.x = i.o /\ Plain(t.x) = i
           /\ \A n \in 1 .. Len(prog.inits[p]) :
                 Plain(prog.inits[p][n]) \in InstsOf(p, "value") =>
                    [k |-> "var", n |-> n, x |-> prog.inits[p][n]] \in VarSteps(p)
           /\ \A t \in InitCode(p) :
                 /\ t.k \in {"import", "zero", "var", "call", "main"} /\ t.n \in Nat
                 /\ t = [k |-> t.k, n |-> t.n, x |-> t.x]
                 /\ t.k = "import" => t.x \in ToSet(prog.imports[p]) /\ t.x \in Linked
                 /\ t.k \in {"zero", "var"} => t \in VarSteps(p) /\ Plain(t.x) \in InstsOf(p, "value")
                 /\ t.k = "zero" => t.x \notin ToSet(prog.inits[p])
                 /\ t.k = "var" => t.n \in 1 .. Len(prog.inits[p]) /\ t.x = prog.inits[p][t.n]
                 /\ t.k \in {"call", "main"} => t.x \in ToSet(prog.order[p]) /\ Info(t.x).entry
<1> DEFINE written == {i.o : i \in InstsOf(p, "value")}
           rest == written \ ToSet(prog.inits[p])
           entries == {o \in ToSet(prog.order[p]) : Info(o).entry}
           I == Steps("import", Pkgs, ToSet(prog.imports[p]))
           Z == Steps("zero", prog.order[p], rest)
           V == Steps("var", prog.inits[p], written)
           C == Steps("call", prog.order[p], entries \ {"main"})
           M == Steps("main", prog.order[p], entries \cap {"main"})
<1>1. /\ prog \in Programs /\ Closed(Linked) /\ Linked \subseteq AllPkgs
  BY WrittenIs
<1>2. /\ prog.order[p] \in Seq(Names) /\ prog.inits[p] \in Seq(Names) /\ Pkgs \in Seq(AllPkgs)
      /\ ToSet(prog.imports[p]) \subseteq AllPkgs /\ ToSet(prog.imports[p]) \subseteq Linked
  BY <1>1, ProgramFacts, CompileAssumption DEF AllPkgs, Closed
<1>3. VarSteps(p) = Z \cup V
  BY DEF VarSteps
<1>4. InitCode(p) = I \cup VarSteps(p) \cup C \cup (IF p = Root THEN M ELSE {})
  BY DEF InitCode, ImportSteps, CallSteps
<1>5. \A i \in InstsOf(p, "value") : i = Plain(i.o) /\ i.o \in ToSet(prog.order[p])
  <2>1. ASSUME NEW d \in program, d.pkg = p, d.kind = "value"
        PROVE  d.inst = Plain(d.inst.o) /\ d.inst.o \in ToSet(prog.order[p])
    <3>1. Known(d.inst) /\ PkgOf(d.inst) = p /\ d.inst = Plain(d.inst.o)
      BY <2>1, DeclIs
    <3>2. d.inst.o \in Names
      BY <1>1, <3>1, InstIs DEF Known
    <3> QED
      BY <1>1, <3>1, <3>2, ObjectFacts DEF PkgOf
  <2> QED
    BY <2>1 DEF InstsOf, DeclsOf
<1>6. \A o \in written : Plain(o) \in InstsOf(p, "value") /\ o \in ToSet(prog.order[p])
  BY <1>5
<1>7. \A i \in InstsOf(p, "value") : i.o \in written
  OBVIOUS
<1> HIDE DEF written, rest, entries
<1>i. /\ \A t \in I : /\ t.k = "import" /\ t.x \in ToSet(prog.imports[p]) /\ t.n \in Nat
                      /\ t = [k |-> t.k, n |-> t.n, x |-> t.x]
      /\ \A q \in ToSet(prog.imports[p]) : \E t \in I : t.x = q
  <2> DEFINE S == ToSet(prog.imports[p])
  <2>1. \A q \in S : q \in S \cap ToSet(Pkgs)
    BY <1>2 DEF AllPkgs
  <2> HIDE DEF S
  <2>2. /\ \A t \in Steps("import", Pkgs, S) :
              /\ t.k = "import" /\ t.x \in S /\ t.n \in Nat /\ t = [k |-> "import", n |-> t.n, x |-> t.x]
        /\ \A x \in S \cap ToSet(Pkgs) : \E t \in Steps("import", Pkgs, S) : t.x = x
    BY <1>2, StepsAre
  <2> QED
    BY <2>1, <2>2 DEF S
<1>z. /\ \A t \in Z : /\ t.k = "zero" /\ t.x \in rest /\ t.n \in Nat
                      /\ t = [k |-> t.k, n |-> t.n, x |-> t.x]
      /\ \A x \in rest \cap ToSet(prog.order[p]) : \E t \in Z : t.x = x
  <2> DEFINE s == prog.order[p]
  <2>1. s \in Seq(Names)
    BY <1>2
  <2> HIDE DEF s
  <2>2. /\ \A t \in Steps("zero", s, rest) :
              /\ t.k = "zero" /\ t.x \in rest /\ t.n \in Nat /\ t = [k |-> "zero", n |-> t.n, x |-> t.x]
        /\ \A x \in rest \cap ToSet(s) : \E t \in Steps("zero", s, rest) : t.x = x
    BY <2>1, StepsAre
  <2> QED
    BY <2>2 DEF s
<1>v. /\ \A t \in V : /\ t.k = "var" /\ t.x \in written /\ t.n \in Nat
                      /\ t.n \in 1 .. Len(prog.inits[p]) /\ t.x = prog.inits[p][t.n]
                      /\ t = [k |-> t.k, n |-> t.n, x |-> t.x]
      /\ \A x \in written \cap ToSet(prog.inits[p]) : \E t \in V : t.x = x
      /\ \A n \in 1 .. Len(prog.inits[p]) : prog.inits[p][n] \in written =>
            [k |-> "var", n |-> n, x |-> prog.inits[p][n]] \in V
  <2> DEFINE s == prog.inits[p]
  <2>1. s \in Seq(Names)
    BY <1>2
  <2> HIDE DEF s
  <2>2. /\ \A t \in Steps("var", s, written) :
              /\ t.k = "var" /\ t.x \in written /\ t.n \in Nat /\ t = [k |-> "var", n |-> t.n, x |-> t.x]
              /\ t.n \in 1 .. Len(s) /\ t.x = s[t.n]
        /\ \A x \in written \cap ToSet(s) : \E t \in Steps("var", s, written) : t.x = x
        /\ \A n \in 1 .. Len(s) : s[n] \in written =>
              [k |-> "var", n |-> n, x |-> s[n]] \in Steps("var", s, written)
    BY <2>1, StepsAre
  <2> QED
    BY <2>2 DEF s
<1>c. \A t \in C : /\ t.k = "call" /\ t.x \in entries /\ t.n \in Nat
                   /\ t = [k |-> t.k, n |-> t.n, x |-> t.x]
  BY <1>2, StepsAre
<1>m. \A t \in M : /\ t.k = "main" /\ t.x \in entries /\ t.n \in Nat
                   /\ t = [k |-> t.k, n |-> t.n, x |-> t.x]
  BY <1>2, StepsAre
<1>e. \A x \in entries : x \in ToSet(prog.order[p]) /\ Info(x).entry
  BY DEF entries
<1>r. \A x : x \in rest <=> x \in written /\ x \notin ToSet(prog.inits[p])
  BY DEF rest
<1> HIDE DEF I, Z, V, C, M
<1>8. \A q \in ToSet(prog.imports[p]) : \E t \in InitCode(p) : t.k = "import" /\ t.x = q
  BY <1>4, <1>i
<1>9. \A i \in InstsOf(p, "value") :
         i = Plain(i.o) /\ \E t \in VarSteps(p) : t.x = i.o /\ Plain(t.x) = i
  <2> SUFFICES ASSUME NEW i \in InstsOf(p, "value")
               PROVE  i = Plain(i.o) /\ \E t \in VarSteps(p) : t.x = i.o
    OBVIOUS
  <2>1. i = Plain(i.o) /\ i.o \in written /\ i.o \in ToSet(prog.order[p])
    BY <1>5, <1>7
  <2>2. \E t \in Z \cup V : t.x = i.o
    BY <2>1, <1>z, <1>v, <1>r
  <2> QED
    BY <1>3, <2>1, <2>2
<1>10. \A n \in 1 .. Len(prog.inits[p]) :
          Plain(prog.inits[p][n]) \in InstsOf(p, "value") =>
             [k |-> "var", n |-> n, x |-> prog.inits[p][n]] \in VarSteps(p)
  <2>1. \A o : Plain(o).o = o
    BY InstFields DEF Plain
  <2>2. \A o : Plain(o) \in InstsOf(p, "value") => o \in written
    BY <1>7, <2>1
  <2> QED
    BY <1>3, <1>v, <2>2
<1>11. ASSUME NEW t \in InitCode(p)
       PROVE  /\ t.k \in {"import", "zero", "var", "call", "main"} /\ t.n \in Nat
              /\ t = [k |-> t.k, n |-> t.n, x |-> t.x]
              /\ t.k = "import" => t.x \in ToSet(prog.imports[p]) /\ t.x \in Linked
              /\ t.k \in {"zero", "var"} => t \in VarSteps(p) /\ Plain(t.x) \in InstsOf(p, "value")
              /\ t.k = "zero" => t.x \notin ToSet(prog.inits[p])
              /\ t.k = "var" => t.n \in 1 .. Len(prog.inits[p]) /\ t.x = prog.inits[p][t.n]
              /\ t.k \in {"call", "main"} => t.x \in ToSet(prog.order[p]) /\ Info(t.x).entry
  <2>1. t \in I \/ t \in Z \/ t \in V \/ t \in C \/ t \in M
    BY <1>3, <1>4
  <2>2. CASE t \in I
    BY <1>2, <1>i, <2>2
  <2>3. CASE t \in Z
    BY <1>3, <1>6, <1>z, <1>r, <2>3
  <2>4. CASE t \in V
    BY <1>3, <1>6, <1>v, <2>4
  <2>5. CASE t \in C
    BY <1>c, <1>e, <2>5
  <2>6. CASE t \in M
    BY <1>m, <1>e, <2>6
  <2> QED
    BY <2>1, <2>2, <2>3, <2>4, <2>5, <2>6
<1>12. VarSteps(p) \subseteq InitCode(p)
  BY <1>4
<1> QED
  BY <1>8, <1>9, <1>10, <1>11, <1>12

(* The next step of a frame: none of those left comes before it.           *)
LEMMA PositionIs ==
    ASSUME Written, NEW f \in Frames, ~AtEnd(f)
    PROVE  /\ Position(f) \in f.left /\ f.pkg \in Linked /\ Position(f) \in InitCode(f.pkg)
           /\ \A x \in f.left : ~Before(x, Position(f))
<1>1. f.pkg \in Linked /\ f.left \subseteq InitCode(f.pkg) /\ f.left # {}
  BY DEF Frames, AtEnd
<1>2. \A t \in f.left : t.k \in {"import", "zero", "var", "call", "main"} /\ t.n \in Nat
  BY <1>1, InitCodeIs
<1>3. \A t \in f.left : Part[t.k] \in Nat
  BY <1>2 DEF Part
<1>4. PICK t \in f.left : \A x \in f.left : Part[t.k] <= Part[x.k]
  <2> DEFINE S == {Part[x.k] : x \in f.left}
  <2>1. S \subseteq Nat /\ S # {}
    BY <1>1, <1>3
  <2>2. PICK m \in S : \A y \in S : m <= y
    BY <2>1, LeastOf
  <2> QED
    BY <2>2
<1>5. PICK u \in f.left : u.k = t.k /\ \A x \in f.left : x.k = t.k => u.n <= x.n
  <2> DEFINE S == {x.n : x \in {y \in f.left : y.k = t.k}}
  <2>1. S \subseteq Nat /\ S # {}
    BY <1>2, <1>4
  <2>2. PICK m \in S : \A y \in S : m <= y
    BY <2>1, LeastOf
  <2> QED
    BY <2>2
<1>6. ASSUME NEW x \in f.left
      PROVE  ~Before(x, u)
  <2>1. Part[u.k] <= Part[x.k] /\ Part[u.k] \in Nat /\ Part[x.k] \in Nat
    BY <1>3, <1>4, <1>5
  <2>2. x.k = u.k => u.n <= x.n /\ u.n \in Nat /\ x.n \in Nat
    BY <1>2, <1>5
  <2> QED
    BY <2>1, <2>2 DEF Before
<1>7. Position(f) \in f.left /\ \A x \in f.left : ~Before(x, Position(f))
  BY <1>6 DEF Position
<1> QED
  BY <1>1, <1>7

-----------------------------------------------------------------------------
(* The $init functions on the stack.                                       *)

LEMMA ExceptIs ==
    ASSUME NEW X, NEW s \in Seq(X), NEW n \in 1 .. Len(s), NEW e \in X
    PROVE  /\ [s EXCEPT ![n] = e] \in Seq(X) /\ Len([s EXCEPT ![n] = e]) = Len(s)
           /\ [s EXCEPT ![n] = e][n] = e
           /\ \A m \in 1 .. Len(s) : m # n => [s EXCEPT ![n] = e][m] = s[m]
BY ExceptSeq, SeqFacts

(* The program gets further: nothing that was done is undone.              *)
Further == UNCHANGED vars /\ js.set \subseteq js'.set /\ js.ended \subseteq js'.ended

LEMMA FurtherDid ==
    ASSUME Further
    PROVE  /\ Linked' = Linked /\ Root' = Root /\ Frames' = Frames /\ prog' = prog /\ AllPkgs' = AllPkgs
           /\ \A p : InitCode(p)' = InitCode(p)
           /\ \A t : Did(t) => Did(t)'
<1>1. /\ Linked' = Linked /\ Root' = Root /\ AllPkgs' = AllPkgs /\ \A p : InitCode(p)' = InitCode(p)
  BY SameWritten DEF Further
<1>2. Frames' = Frames
  BY <1>1 DEF Frames
<1>3. prog' = prog
  BY DEF Further, vars
<1>4. \A t : Did(t) => Did(t)'
  BY DEF Further, Did
<1> QED
  BY <1>1, <1>2, <1>3, <1>4

LEMMA StackKept ==
    ASSUME Further, NEW st, GoodStack(st)
    PROVE  GoodStack(st)'
<1>1. /\ st \in Seq(Frames)' /\ st # <<>>
  BY FurtherDid DEF GoodStack
<1>2. \A n \in 1 .. Len(st) : \A t \in InitCode(st[n].pkg)' \ st[n].left : Did(t)'
  BY FurtherDid DEF GoodStack
<1>3. st[1].pkg = Runtime \/ (st[1].pkg = Root' /\ Runtime \in js'.ended)
  BY FurtherDid DEF GoodStack, Further
<1>4. \A n \in 1 .. Len(st) : \A m \in 1 .. n - 1 :
         st[n].pkg \in ImportsOf(prog, AllPkgs, ToSet(prog.imports[st[m].pkg]))'
  BY FurtherDid DEF GoodStack, AllPkgs
<1> QED
  BY <1>1, <1>2, <1>3, <1>4 DEF GoodStack, InImport

LEMMA TopIs ==
    ASSUME NEW st, GoodStack(st)
    PROVE  /\ st \in Seq(Frames) /\ Len(st) \in Nat /\ Len(st) >= 1 /\ Len(st) \in 1 .. Len(st)
           /\ Last(st) = st[Len(st)] /\ Last(st) \in Frames
           /\ \A n \in 1 .. Len(st) :
                 /\ st[n] \in Frames /\ st[n].pkg \in Linked
                 /\ st[n].left \subseteq InitCode(st[n].pkg)
                 /\ st[n] = [pkg |-> st[n].pkg, left |-> st[n].left]
<1>1. st \in Seq(Frames) /\ st # <<>>
  BY DEF GoodStack
<1>2. Last(st) = st[Len(st)] /\ Last(st) \in Frames /\ Len(st) \in Nat /\ Len(st) >= 1
  BY <1>1, FrontIs
<1>3. \A n \in 1 .. Len(st) : st[n] \in Frames
  BY <1>1, SeqFacts
<1> QED
  BY <1>1, <1>2, <1>3 DEF Frames

LEMMA LeftExcept ==
    ASSUME NEW p, NEW A, NEW f, f = [pkg |-> p, left |-> A], NEW B
    PROVE  [f EXCEPT !.left = B] = [pkg |-> f.pkg, left |-> B]
<1>1. f.pkg = p /\ DOMAIN f = {"pkg", "left"}
  OBVIOUS
<1> DEFINE g == [f EXCEPT !.left = B]
           h == [pkg |-> p, left |-> B]
<1>2. DOMAIN g = {"pkg", "left"} /\ g.pkg = p /\ g.left = B
  BY <1>1
<1>3. DOMAIN h = {"pkg", "left"} /\ h.pkg = p /\ h.left = B
  OBVIOUS
<1>4. g = [x \in {"pkg", "left"} |-> g[x]] /\ h = [x \in {"pkg", "left"} |-> h[x]]
  BY <1>1
<1> HIDE DEF g, h
<1>5. g = h
  BY <1>2, <1>3, <1>4
<1> QED
  BY <1>1, <1>5 DEF g, h

(* A step of the last $init is done.                                       *)
LEMMA AdvanceKept ==
    ASSUME Written, Further, NEW st, GoodStack(st), ~AtEnd(Last(st)), Did(Position(Last(st)))'
    PROVE  /\ GoodStack(Advance(st))' /\ Len(Advance(st)) = Len(st)
           /\ \A n \in 1 .. Len(st) : Advance(st)[n].pkg = st[n].pkg
<1> DEFINE l == Len(st)
           f == st[l]
           P == Position(f)
           e == [pkg |-> f.pkg, left |-> f.left \ {P}]
           a == [st EXCEPT ![l] = e]
<1>1. /\ st \in Seq(Frames) /\ l \in Nat /\ l >= 1 /\ l \in 1 .. l /\ Last(st) = f /\ f \in Frames
      /\ f.pkg \in Linked /\ f.left \subseteq InitCode(f.pkg)
      /\ f = [pkg |-> f.pkg, left |-> f.left]
      /\ \A n \in 1 .. l : st[n] \in Frames
  BY TopIs
<1>2. e \in Frames /\ e.pkg = f.pkg /\ e.left = f.left \ {P}
  BY <1>1 DEF Frames
<1>3. Advance(st) = a
  <2>1. [f EXCEPT !.left = @ \ {P}] = e
    BY <1>1, LeftExcept
  <2>2. Advance(st) = [st EXCEPT ![l] = [f EXCEPT !.left = @ \ {P}]]
    BY <1>1 DEF Advance
  <2> QED
    BY <2>1, <2>2
<1> HIDE DEF e, P
<1>4. a \in Seq(Frames) /\ Len(a) = l /\ a[l] = e /\ \A n \in 1 .. l : n # l => a[n] = st[n]
  <2>1. l \in 1 .. Len(st)
    BY <1>1
  <2> HIDE DEF l
  <2> QED
    BY <1>1, <1>2, <2>1, ExceptIs DEF l
<1> HIDE DEF a
<1>5. \A n \in 1 .. l : a[n].pkg = st[n].pkg
  BY <1>1, <1>2, <1>4
<1>6. a # <<>>
  BY <1>1, <1>4, SeqFacts
<1>7. \A n \in 1 .. l : \A t \in InitCode(a[n].pkg) \ a[n].left : Did(t)'
  <2>1. ASSUME NEW n \in 1 .. l, NEW t \in InitCode(a[n].pkg) \ a[n].left
        PROVE  Did(t)'
    <3>1. CASE t \in InitCode(st[n].pkg) \ st[n].left
      <4>1. Did(t)
        BY <3>1 DEF GoodStack
      <4> QED
        BY <4>1, FurtherDid
    <3>2. CASE t \in st[n].left
      <4>1. n = l /\ t = P
        BY <1>2, <1>4, <2>1, <3>2
      <4> QED
        BY <1>1, <4>1 DEF P
    <3> QED
      BY <1>5, <2>1, <3>1, <3>2
  <2> QED
    BY <2>1
<1>8. \A n \in 1 .. l - 1 : InImport(a[n], a[n + 1].pkg)
  <2>1. ASSUME NEW n \in 1 .. l - 1
        PROVE  InImport(a[n], a[n + 1].pkg)
    <3>1. n \in 1 .. l /\ n # l /\ n + 1 \in 1 .. l
      BY <1>1, <2>1
    <3>2. a[n] = st[n] /\ a[n + 1].pkg = st[n + 1].pkg
      BY <1>4, <1>5, <3>1
    <3>3. InImport(st[n], st[n + 1].pkg)
      BY <2>1 DEF GoodStack
    <3> QED
      BY <3>2, <3>3
  <2> QED
    BY <2>1
<1>9. \A n \in 1 .. l : \A m \in 1 .. n - 1 :
         a[n].pkg \in ImportsOf(prog, AllPkgs, ToSet(prog.imports[a[m].pkg]))
  <2>1. \A n \in 1 .. l : \A m \in 1 .. n - 1 : m \in 1 .. l
    BY <1>1
  <2> QED
    BY <1>5, <2>1 DEF GoodStack
<1>10. a[1].pkg = Runtime \/ (a[1].pkg = Root /\ Runtime \in js'.ended)
  <2>1. 1 \in 1 .. l
    BY <1>1
  <2> QED
    BY <1>5, <2>1 DEF GoodStack, Further
<1>11. GoodStack(a)'
  <2>1. a \in Seq(Frames)'
    BY <1>4, FurtherDid
  <2>2. \A n \in 1 .. Len(a) : \A t \in InitCode(a[n].pkg)' \ a[n].left : Did(t)'
    BY <1>4, <1>7, FurtherDid
  <2>3. \A n \in 1 .. Len(a) : \A m \in 1 .. n - 1 :
           a[n].pkg \in ImportsOf(prog, AllPkgs, ToSet(prog.imports[a[m].pkg]))'
    BY <1>4, <1>9, FurtherDid DEF AllPkgs
  <2>4. \A n \in 1 .. Len(a) - 1 : InImport(a[n], a[n + 1].pkg)
    BY <1>4, <1>8
  <2>5. a[1].pkg = Runtime \/ (a[1].pkg = Root' /\ Runtime \in js'.ended)
    BY <1>10, FurtherDid
  <2> QED
    BY <1>6, <2>1, <2>2, <2>3, <2>4, <2>5 DEF GoodStack, InImport
<1> QED
  BY <1>3, <1>4, <1>5, <1>11

LEMMA FrameIs ==
    ASSUME NEW q \in Linked
    PROVE  Frame(q) \in Frames /\ Frame(q).pkg = q /\ Frame(q).left = InitCode(q)
<1>1. Frame(q).pkg = q /\ Frame(q).left = InitCode(q)
  BY DEF Frame
<1>2. InitCode(q) \in SUBSET UNION {InitCode(p) : p \in Linked}
  OBVIOUS
<1>3. Frame(q) \in [pkg : Linked, left : SUBSET UNION {InitCode(p) : p \in Linked}]
  BY <1>2 DEF Frame
<1> QED
  BY <1>1, <1>3 DEF Frames

LEMMA ImportStep ==
    ASSUME Written, NEW f \in Frames, NEW q, InImport(f, q)
    PROVE  q \in ToSet(prog.imports[f.pkg]) /\ q \in Linked /\ f.pkg \in Linked
<1>1. ~AtEnd(f) /\ Position(f).k = "import" /\ Position(f).x = q
  BY DEF InImport, AtEnd
<1>2. f.pkg \in Linked /\ Position(f) \in InitCode(f.pkg)
  BY <1>1, PositionIs
<1> QED
  BY <1>1, <1>2, InitCodeIs

(* $init of an imported package is called.                                 *)
LEMMA PushKept ==
    ASSUME Written, Further, NEW st, GoodStack(st), NEW q, InImport(Last(st), q),
           NEW e, e = Frame(q)
    PROVE  /\ GoodStack(Append(st, e))' /\ Len(Append(st, e)) = Len(st) + 1
           /\ \A n \in 1 .. Len(st) : Append(st, e)[n] = st[n]
           /\ Append(st, e)[Len(st) + 1].pkg = q
<1> DEFINE l == Len(st)
           a == Append(st, e)
<1>1. /\ st \in Seq(Frames) /\ l \in Nat /\ l >= 1 /\ l \in 1 .. l /\ Last(st) = st[l]
      /\ Last(st) \in Frames /\ \A n \in 1 .. l : st[n].pkg \in Linked
  BY TopIs
<1>2. q \in ToSet(prog.imports[st[l].pkg]) /\ q \in Linked
  BY <1>1, ImportStep
<1>3. e \in Frames /\ e.pkg = q /\ e.left = InitCode(q)
  BY <1>2, FrameIs
<1>4. /\ a \in Seq(Frames) /\ Len(a) = l + 1 /\ a # <<>> /\ a[l + 1] = e
      /\ \A n \in 1 .. l : a[n] = st[n]
  BY <1>1, <1>3, AppendIs
<1> HIDE DEF a
<1>5. \A n \in 1 .. l + 1 : n \in 1 .. l \/ n = l + 1
  BY <1>1
<1>6. \A n \in 1 .. l + 1 : \A t \in InitCode(a[n].pkg) \ a[n].left : Did(t)'
  <2>1. ASSUME NEW n \in 1 .. l, NEW t \in InitCode(a[n].pkg) \ a[n].left
        PROVE  Did(t)'
    <3>1. Did(t)
      BY <1>4, <2>1 DEF GoodStack
    <3> QED
      BY <3>1, FurtherDid
  <2>2. InitCode(a[l + 1].pkg) \ a[l + 1].left = {}
    BY <1>3, <1>4
  <2> QED
    BY <1>5, <2>1, <2>2
<1>7. \A n \in 1 .. l : InImport(a[n], a[n + 1].pkg)
  <2>1. ASSUME NEW n \in 1 .. l
        PROVE  InImport(a[n], a[n + 1].pkg)
    <3>1. CASE n = l
      BY <1>1, <1>3, <1>4, <3>1
    <3>2. CASE n # l
      <4>1. n \in 1 .. l - 1 /\ n + 1 \in 1 .. l
        BY <1>1, <3>2
      <4>2. a[n] = st[n] /\ a[n + 1] = st[n + 1]
        BY <1>4, <4>1
      <4> QED
        BY <4>1, <4>2 DEF GoodStack
    <3> QED
      BY <3>1, <3>2
  <2> QED
    BY <2>1
<1>8. \A n \in 1 .. l + 1 : \A m \in 1 .. n - 1 :
         a[n].pkg \in ImportsOf(prog, AllPkgs, ToSet(prog.imports[a[m].pkg]))
  <2>1. ASSUME NEW n \in 1 .. l + 1, NEW m \in 1 .. n - 1
        PROVE  a[n].pkg \in ImportsOf(prog, AllPkgs, ToSet(prog.imports[a[m].pkg]))
    <3> DEFINE I == ToSet(prog.imports[a[m].pkg])
               S == ImportsOf(prog, AllPkgs, I)
    <3>1. m \in 1 .. l /\ a[m] = st[m] /\ a[m].pkg \in Linked
      BY <1>1, <1>4
    <3>2. Closed(S) /\ I \subseteq S
      <4>1. prog \in Programs /\ I \subseteq AllPkgs
        BY <3>1, WrittenIs DEF Closed
      <4> QED
        BY <4>1, ImportsClosed
    <3> HIDE DEF S, I
    <3>3. CASE n \in 1 .. l
      <4>1. a[n] = st[n]
        BY <1>4, <3>3
      <4> QED
        BY <3>1, <3>3, <4>1 DEF GoodStack
    <3>4. CASE n = l + 1
      <4>1. st[l].pkg \in S \/ st[l].pkg = a[m].pkg
        <5>1. CASE m = l
          BY <3>1, <5>1
        <5>2. CASE m # l
          <6>1. m \in 1 .. l - 1
            BY <1>1, <3>1, <5>2
          <6> QED
            BY <1>1, <3>1, <6>1 DEF GoodStack, S, I
        <5> QED
          BY <5>1, <5>2
      <4>2. q \in S
        <5>1. CASE st[l].pkg \in S
          BY <1>2, <3>2, <5>1 DEF Closed
        <5>2. CASE st[l].pkg = a[m].pkg
          BY <1>2, <3>2, <5>2 DEF I
        <5> QED
          BY <4>1, <5>1, <5>2
      <4> QED
        BY <1>3, <1>4, <3>4, <4>2 DEF S, I
    <3> QED
      BY <1>5, <3>3, <3>4
  <2> QED
    BY <2>1
<1>9. a[1].pkg = Runtime \/ (a[1].pkg = Root /\ Runtime \in js'.ended)
  <2>1. 1 \in 1 .. l
    BY <1>1
  <2> QED
    BY <1>4, <2>1 DEF GoodStack, Further
<1>10. GoodStack(a)'
  <2>1. a \in Seq(Frames)'
    BY <1>4, FurtherDid
  <2>2. \A n \in 1 .. Len(a) : \A t \in InitCode(a[n].pkg)' \ a[n].left : Did(t)'
    BY <1>4, <1>6, FurtherDid
  <2>3. \A n \in 1 .. Len(a) : \A m \in 1 .. n - 1 :
           a[n].pkg \in ImportsOf(prog, AllPkgs, ToSet(prog.imports[a[m].pkg]))'
    BY <1>4, <1>8, FurtherDid DEF AllPkgs
  <2>4. \A n \in 1 .. Len(a) - 1 : InImport(a[n], a[n + 1].pkg)
    BY <1>1, <1>4, <1>7
  <2>5. a[1].pkg = Runtime \/ (a[1].pkg = Root' /\ Runtime \in js'.ended)
    BY <1>9, FurtherDid
  <2> QED
    BY <1>4, <2>1, <2>2, <2>3, <2>4, <2>5 DEF GoodStack, InImport
<1> QED
  BY <1>3, <1>4, <1>10 DEF a

(* The first $init of the program, and that of the main package.           *)
LEMMA FirstKept ==
    ASSUME Written, Further, NEW q, q = Runtime \/ (q = Root /\ Runtime \in js'.ended),
           NEW e, e = Frame(q)
    PROVE  GoodStack(<<e>>)' /\ Len(<<e>>) = 1 /\ <<e>>[1].pkg = q
<1>1. e \in Frames /\ e.pkg = q /\ e.left = InitCode(q)
  BY WrittenIs, FrameIs
<1>2. e \in Frames' /\ e.pkg = q /\ e.left = InitCode(q)' /\ (q = Runtime \/ (q = Root' /\ Runtime \in js'.ended))
  BY <1>1, FurtherDid
<1>3. <<e>> \in Seq(Frames)' /\ Len(<<e>>) = 1 /\ <<e>>[1] = e /\ <<e>> # <<>>
  BY <1>2
<1>4. \A n \in 1 .. Len(<<e>>) : n = 1
  BY <1>3
<1>5. 1 .. Len(<<e>>) - 1 = {} /\ \A n \in 1 .. Len(<<e>>) : 1 .. n - 1 = {}
  BY <1>3, <1>4
<1> DEFINE s == <<e>>
<1> HIDE DEF s
<1>6. GoodStack(s)'
  BY <1>2, <1>3, <1>4, <1>5 DEF s, GoodStack
<1> QED
  BY <1>1, <1>3, <1>6 DEF s

(* The $init below the last one waits for it.                              *)
LEMMA FrontGood ==
    ASSUME NEW st, GoodStack(st), Len(st) > 1
    PROVE  /\ GoodStack(Front(st)) /\ Len(Front(st)) = Len(st) - 1
           /\ \A n \in 1 .. Len(st) - 1 : Front(st)[n] = st[n]
           /\ InImport(Last(Front(st)), Last(st).pkg)
<1> DEFINE l == Len(st)
           f == Front(st)
<1>1. st \in Seq(Frames) /\ st # <<>> /\ l \in Nat /\ l > 1 /\ Last(st) = st[l]
  BY TopIs DEF GoodStack
<1>2. f \in Seq(Frames) /\ Len(f) = l - 1 /\ \A n \in 1 .. l - 1 : f[n] = st[n]
  BY <1>1, FrontIs
<1> HIDE DEF f
<1>3. f # <<>>
  BY <1>1, <1>2, SeqFacts
<1>4. Last(f) = f[l - 1]
  BY <1>2, <1>3, FrontIs
<1>5. /\ \A n \in 1 .. l - 1 : n \in 1 .. l
      /\ \A n \in 1 .. l - 2 : n \in 1 .. l - 1 /\ n + 1 \in 1 .. l - 1
      /\ \A n \in 1 .. l - 1 : \A m \in 1 .. n - 1 : m \in 1 .. l - 1
      /\ l - 1 - 1 = l - 2 /\ 1 \in 1 .. l - 1 /\ l - 1 \in 1 .. l - 1 /\ (l - 1) + 1 = l
  BY <1>1
<1>6. InImport(Last(f), Last(st).pkg)
  BY <1>1, <1>2, <1>4, <1>5 DEF GoodStack
<1>7. \A n \in 1 .. l - 1 : \A t \in InitCode(f[n].pkg) \ f[n].left : Did(t)
  BY <1>2, <1>5 DEF GoodStack
<1>8. \A n \in 1 .. l - 2 : InImport(f[n], f[n + 1].pkg)
  BY <1>2, <1>5 DEF GoodStack
<1>9. \A n \in 1 .. l - 1 : \A m \in 1 .. n - 1 :
         f[n].pkg \in ImportsOf(prog, AllPkgs, ToSet(prog.imports[f[m].pkg]))
  BY <1>2, <1>5 DEF GoodStack
<1>10. f[1].pkg = Runtime \/ (f[1].pkg = Root /\ Runtime \in js.ended)
  BY <1>2, <1>5 DEF GoodStack
<1>11. GoodStack(f)
  BY <1>2, <1>3, <1>5, <1>7, <1>8, <1>9, <1>10 DEF GoodStack
<1> QED
  BY <1>2, <1>6, <1>11 DEF f

(* Once no import is left, the imports are initialized to the end.         *)
LEMMA ImportsDone ==
    ASSUME Written, EndedInv, NEW st, GoodStack(st),
           AtEnd(Last(st)) \/ Position(Last(st)).k # "import"
    PROVE  /\ ToSet(prog.imports[Last(st).pkg]) \subseteq js.ended
           /\ ImportsOf(prog, AllPkgs, {Last(st).pkg}) \subseteq {Last(st).pkg} \cup js.ended
<1> DEFINE f == Last(st)
           p == f.pkg
<1>1. f \in Frames /\ p \in Linked /\ f.left \subseteq InitCode(p)
      /\ \A t \in InitCode(p) \ f.left : Did(t)
  BY TopIs DEF GoodStack
<1>2. \A t \in f.left : t.k # "import"
  <2>1. ASSUME NEW t \in f.left, t.k = "import"
        PROVE  FALSE
    <3>1. ~AtEnd(f) /\ Position(f).k # "import"
      BY <2>1 DEF AtEnd
    <3>2. Position(f) \in InitCode(p) /\ ~Before(t, Position(f))
      BY <1>1, <2>1, <3>1, PositionIs
    <3>3. Position(f).k \in {"import", "zero", "var", "call", "main"}
      BY <1>1, <3>2, InitCodeIs
    <3>4. Part[t.k] = 1 /\ Part[Position(f).k] \in {2, 3, 4, 5}
      BY <2>1, <3>1, <3>3 DEF Part
    <3> QED
      BY <3>2, <3>4 DEF Before
  <2> QED
    BY <2>1
<1>3. ToSet(prog.imports[p]) \subseteq js.ended
  <2>1. ASSUME NEW q \in ToSet(prog.imports[p])
        PROVE  q \in js.ended
    <3>1. PICK t \in InitCode(p) : t.k = "import" /\ t.x = q
      BY <1>1, InitCodeIs
    <3> QED
      BY <1>1, <1>2, <3>1 DEF Did
  <2> QED
    BY <2>1
<1>4. Closed({p} \cup js.ended)
  <2>1. {p} \cup js.ended \subseteq AllPkgs
    BY <1>1, WrittenIs DEF EndedInv
  <2> QED
    BY <1>3, <2>1 DEF EndedInv, Closed
<1>5. ImportsOf(prog, AllPkgs, {p}) \subseteq {p} \cup js.ended
  <2> HIDE DEF p
  <2> QED
    BY <1>4, ImportsFacts
<1> QED
  BY <1>3, <1>5

-----------------------------------------------------------------------------
(* What the code of a step uses.                                           *)

(* What is written of the packages that p imports.                         *)
Within(p) == {i \in AnyInst :
    Known(i) /\ DeclOf(i) \in program /\ IsInst(i, ImportsOf(prog, AllPkgs, {p}))}

LEMMA StepWithin ==
    ASSUME Written, NEW p \in Linked, NEW s \in InitCode(p), s.k \in OwnCode
    PROVE  Plain(s.x) \in Within(p) /\ PkgOf(Plain(s.x)) = p /\ Plain(s.x).o = s.x
<1>1. /\ AllCollected /\ Chosen /\ prog \in Programs /\ sources = Linked /\ Linked \subseteq AllPkgs
  BY WrittenIs
<1>2. p \in ImportsOf(prog, AllPkgs, {p})
  BY <1>1, ImportsClosed
<1>3. Plain(s.x).o = s.x
  BY InstFields DEF Plain
<1>4. /\ Known(Plain(s.x)) /\ DeclOf(Plain(s.x)) \in program /\ PkgOf(Plain(s.x)) = p
  <2>1. CASE s.k \in {"zero", "var"}
    <3>1. Plain(s.x) \in InstsOf(p, "value")
      BY <2>1, InitCodeIs
    <3>2. PICK d \in program : d.pkg = p /\ d.kind = "value" /\ d.inst = Plain(s.x)
      BY <3>1 DEF InstsOf, DeclsOf
    <3>3. /\ Known(d.inst) /\ Info(d.inst.o).kind = "var" /\ PkgOf(d.inst) = p
          /\ d = ValueDecl(d.inst.o)
      BY <3>2, DeclIs
    <3> QED
      BY <1>3, <3>2, <3>3 DEF DeclOf
  <2>2. CASE s.k \in {"call", "main"}
    <3>1. s.x \in ToSet(prog.order[p]) /\ Info(s.x).entry
      BY <2>2, InitCodeIs
    <3>2. Plain(s.x) \in Starts(prog, sources)
      BY <1>1, <3>1 DEF Starts, Objects, Obj, Info
    <3>3. Known(Plain(s.x)) /\ DeclOf(Plain(s.x)) \in program
      BY <1>1, <3>2, StartsWritten DEF RunsWritten
    <3>4. Info(s.x).pkg = p
      BY <1>1, <3>1, ProgramFacts
    <3> QED
      BY <1>3, <3>3, <3>4 DEF PkgOf
  <2> QED
    BY <2>1, <2>2 DEF OwnCode
<1>5. IsInst(Plain(s.x), sources)
  BY <1>4 DEF Known
<1>6. IsInst(Plain(s.x), ImportsOf(prog, AllPkgs, {p})) /\ Plain(s.x) \in AnyInst
  <2>1. s.x \in Names /\ IsTrivial(Plain(s.x))
    BY <1>1, <1>3, <1>5, InstIs, InstFields DEF Plain
  <2>2. ~HasT(s.x)
    BY <1>1, <1>3, <1>5, <2>1, InstIs
  <2>3. Info(s.x).pkg = p
    BY <1>3, <1>4 DEF PkgOf
  <2> QED
    BY <1>1, <1>2, <1>5, <2>1, <2>2, <2>3, PlainIn, KnownIsInst
<1> QED
  BY <1>3, <1>4, <1>6 DEF Within

LEMMA WithinClosed ==
    ASSUME Written, NEW p \in Linked
    PROVE  RunsNext(prog, Within(p)) \subseteq Within(p)
<1> DEFINE S == ImportsOf(prog, AllPkgs, {p})
<1>1. /\ AllCollected /\ Chosen /\ prog \in Programs /\ Linked \subseteq AllPkgs
  BY WrittenIs
<1>2. Closed(S)
  BY <1>1, ImportsClosed
<1>3. RunsWritten(Within(p)) /\ \A i \in Within(p) : IsInst(i, S)
  BY DEF Within, RunsWritten
<1>4. RunsWritten(RunsNext(prog, Within(p)))
  BY <1>1, <1>3, RunsNextWritten
<1> HIDE DEF S
<1>5. \A j \in RunsNext(prog, Within(p)) : IsInst(j, S)
  BY <1>1, <1>2, <1>3, RunsIn
<1>6. \A j \in RunsNext(prog, Within(p)) : j \in AnyInst
  BY <1>1, <1>5, KnownIsInst
<1> QED
  BY <1>4, <1>5, <1>6 DEF Within, RunsWritten, S

(* What the passes over the packages have done by then.                    *)
LEMMA LoadedIs ==
    ASSUME Written, SetInv, stage = "start", NEW i, Known(i), DeclOf(i) \in program,
           Info(i.o).kind # "var"
    PROVE  Ready(i)
<1>1. Defined = Linked /\ SetUp = Linked /\ Relinked = Linked
  BY DEF Defined, SetUp, Relinked, Passed, AfterDefine, AfterFinish, AfterLink
<1>2. /\ PkgOf(i) \in Linked
      /\ Info(i.o).kind = "type" => i \in InstsOf(PkgOf(i), "type")
      /\ Info(i.o).kind \in {"func", "method"} => i \in InstsOf(PkgOf(i), "func")
      /\ Info(i.o).kind \in {"type", "func", "method"}
  BY InstsAre
<1>3. Info(i.o).impl # None => Info(i.o).kind = "func"
  <2>1. prog \in Programs /\ i.o \in Names
    BY WrittenIs, CollectedFacts, InstIs DEF Known
  <2> QED
    BY <2>1, ObjectFacts
<1>4. /\ InstsOf(PkgOf(i), "type") \subseteq js.set
      /\ InstsOf(PkgOf(i), "func") \subseteq js.set
      /\ InstsOf(PkgOf(i), "type") \subseteq js.complete
      /\ \A j \in InstsOf(PkgOf(i), "func") : Info(j.o).impl # None => j.o \in js.linked
  BY <1>1, <1>2 DEF SetInv
<1> QED
  BY <1>2, <1>3, <1>4 DEF Ready

(* A variable without an initializer uses nothing.                         *)
LEMMA ZeroUses ==
    ASSUME prog \in Programs, NEW o \in Names, Info(o).kind = "var",
           o \notin ToSet(prog.inits[Info(o).pkg])
    PROVE  RunsNext(prog, {Plain(o)}) \subseteq {Plain(o)}
<1> DEFINE i == Plain(o)
<1>1. i.o = o
  BY InstFields DEF Plain
<1>2. Info(o).uses = {} /\ Info(o).impl = None
  <2>1. WellTyped(prog, AllPkgs)
    BY CompileAssumption DEF AllPkgs
  <2>2. IsObject(prog, AllPkgs, o)
    BY <2>1 DEF WellTyped, Names
  <2>3. Info(o).uses = {}
    BY <2>2 DEF IsObject, Obj, Info
  <2>4. Info(o).impl = None
    BY ObjectFacts
  <2> QED
    BY <2>3, <2>4
<1>3. Uses(prog, i) = {} /\ \A k : UsesOf(prog, i, k) = {}
  BY <1>1, <1>2 DEF Uses, UsesOf, Obj, Info
<1>4. Refers(prog, i) = {} /\ Makes(prog, i) = {} /\ LinkedTo(prog, i) = {}
  BY <1>1, <1>2, <1>3 DEF Refers, Makes, LinkedTo, Obj, Info
<1>5. \A t : CalledOn(prog, i, t) = {}
  BY <1>3 DEF CalledOn
<1> HIDE DEF i
<1>6. RunsNext(prog, {i}) \subseteq {i}
  BY <1>4, <1>5 DEF RunsNext
<1> QED
  BY <1>6 DEF i

(* A variable that the code of a step uses has been initialized.           *)
LEMMA VariableSet ==
    ASSUME Written, EndedInv, InitOrdered(prog), GoodStack(stack), CodeInv, reach # {},
           NEW i \in Used(Position(Top)), Info(i.o).kind = "var"
    PROVE  i \in js.set
<1> DEFINE p == Top.pkg
           s == Position(Top)
           q == PkgOf(i)
<1>1. Top \in Frames /\ ~AtEnd(Top) /\ s.k \in OwnCode /\ s.k # "import"
      /\ \A S : Plain(s.x) \in S /\ RunsNext(prog, S) \subseteq S => reach \subseteq S
  BY TopIs DEF CodeInv, Top, OwnCode
<1>2. /\ p \in Linked /\ s \in Top.left /\ s \in InitCode(p)
      /\ \A t \in Top.left : ~Before(t, s)
      /\ \A t \in InitCode(p) \ Top.left : Did(t)
  BY <1>1, PositionIs, TopIs DEF GoodStack, Top
<1>3. Plain(s.x).o = s.x /\ Plain(s.x) \in Within(p) /\ PkgOf(Plain(s.x)) = p
  BY <1>1, <1>2, StepWithin
<1>4. reach \subseteq Within(p)
  BY <1>1, <1>2, <1>3, WithinClosed
<1>5. i \in Within(p) /\ i \in reach /\ (s.k \in {"zero", "var"} => i # Plain(s.x))
  BY <1>4 DEF Used
<1>6. /\ Known(i) /\ DeclOf(i) \in program /\ q \in ImportsOf(prog, AllPkgs, {p})
      /\ q \in Linked /\ i \in InstsOf(q, "value") /\ i = Plain(i.o) /\ i.o \in Names
  <2>1. Known(i) /\ DeclOf(i) \in program /\ IsInst(i, ImportsOf(prog, AllPkgs, {p})) /\ prog \in Programs
    BY <1>5, WrittenIs DEF Within
  <2>2. q \in Linked /\ i \in InstsOf(q, "value") /\ i = Plain(i.o)
    BY <2>1, InstsAre
  <2>3. i.o \in Names /\ q \in ImportsOf(prog, AllPkgs, {p})
    BY <2>1, InstIs DEF PkgOf
  <2> QED
    BY <2>1, <2>2, <2>3
<1>7. PICK t \in VarSteps(q) : t.x = i.o /\ Plain(t.x) = i
  BY <1>6, InitCodeIs
<1>8. CASE q # p
  <2>1. q \in js.ended
    BY <1>1, <1>6, <1>8, ImportsDone DEF Top
  <2> QED
    BY <1>7, <2>1 DEF EndedInv
<1>9. CASE q = p
  <2>1. /\ t \in InitCode(p) /\ t.k \in {"zero", "var"} /\ t.n \in Nat
        /\ t.k = "var" => t.n \in 1 .. Len(prog.inits[p]) /\ t.x = prog.inits[p][t.n]
    <3>1. t \in InitCode(p) /\ t \in VarSteps(p)
      BY <1>2, <1>7, <1>9, InitCodeIs
    <3>2. t.k \in {"zero", "var"}
      BY <3>1, VarStepKind
    <3> QED
      BY <1>2, <3>1, <3>2, InitCodeIs
  <2>2. CASE t \notin Top.left
    BY <1>2, <1>7, <2>1, <2>2 DEF Did
  <2>3. CASE t \in Top.left
    <3>1. ~Before(t, s)
      BY <1>2, <2>3
    <3>2. s.k \in {"zero", "var"}
      <4>1. Part[t.k] \in {2, 3}
        BY <2>1 DEF Part
      <4>2. s.k \in {"call", "main"} => Part[s.k] \in {4, 5}
        BY DEF Part
      <4> QED
        BY <1>1, <3>1, <4>1, <4>2 DEF Before, OwnCode
    <3>3. CASE s.k = "zero"
      <4>1. s.x \notin ToSet(prog.inits[p]) /\ Plain(s.x) \in InstsOf(p, "value")
        BY <1>2, <3>3, InitCodeIs
      <4>2. PICK d \in program : d.pkg = p /\ d.kind = "value" /\ d.inst = Plain(s.x)
        BY <4>1 DEF InstsOf, DeclsOf
      <4>3. Known(Plain(s.x)) /\ Info(s.x).kind = "var" /\ Info(s.x).pkg = p
        BY <1>3, <4>2, DeclIs DEF PkgOf
      <4>4. prog \in Programs /\ s.x \in Names
        BY <1>3, <4>3, WrittenIs, InstIs DEF Known
      <4>5. reach \subseteq {Plain(s.x)}
        <5> DEFINE X == {Plain(s.x)}
        <5>1. Plain(s.x) \in X /\ RunsNext(prog, X) \subseteq X
          BY <4>1, <4>3, <4>4, ZeroUses
        <5> QED
          BY <1>1, <5>1
      <4> QED
        BY <1>5, <3>3, <4>5
    <3>4. CASE s.k = "var"
      <4> DEFINE I == prog.inits[p]
                 n == s.n
      <4>1. n \in 1 .. Len(I) /\ s.x = I[n] /\ I \in Seq(Names) /\ Len(I) \in Nat
        <5>1. n \in 1 .. Len(I) /\ s.x = I[n]
          BY <1>2, <3>4, InitCodeIs
        <5>2. I \in Seq(Names)
          BY <1>2, WrittenIs, ProgramFacts
        <5> QED
          BY <5>1, <5>2, SeqFacts
      <4>2. DOMAIN I = 1 .. Len(I)
        BY <4>1, SeqFacts
      <4>3. t.k = "var"
        <5>1. Part["zero"] < Part["var"]
          BY DEF Part
        <5> QED
          BY <2>1, <3>1, <3>4, <5>1 DEF Before
      <4>4. t.n \in 1 .. Len(I) /\ i.o = I[t.n]
        BY <1>7, <2>1, <4>3
      <4>5. PICK S : InitializedBefore(prog, p, n, S)
        <5>1. p \in ToSet(Pkgs) /\ n \in DOMAIN prog.inits[p]
          BY <1>2, <4>1, <4>2, WrittenIs DEF AllPkgs
        <5> QED
          BY <5>1 DEF InitOrdered
      <4>6. reach \subseteq S
        BY <1>1, <4>1, <4>5 DEF InitializedBefore
      <4>7. i.o \notin {I[m] : m \in DOMAIN I} \ {I[m] : m \in 1 .. n}
        BY <1>5, <1>9, <4>5, <4>6 DEF InitializedBefore, Obj, Info, PkgOf
      <4>8. PICK m \in 1 .. n : i.o = I[m]
        BY <4>2, <4>4, <4>7
      <4>9. m # n
        BY <1>5, <1>6, <3>4, <4>1, <4>8
      <4> DEFINE u == [k |-> "var", n |-> m, x |-> I[m]]
      <4>10. m \in 1 .. Len(I) /\ m < n
        BY <4>1, <4>9
      <4>11. u \in VarSteps(p) /\ u \in InitCode(p)
        <5>1. Plain(prog.inits[p][m]) \in InstsOf(p, "value")
          <6>1. i \in InstsOf(p, "value")
            BY <1>6, <1>9
          <6>2. i = Plain(i.o)
            BY <1>2, <6>1, InitCodeIs
          <6> QED
            BY <4>8, <6>1, <6>2
        <5>2. u \in VarSteps(p)
          BY <1>2, <4>10, <5>1, InitCodeIs
        <5> HIDE DEF u
        <5>3. VarSteps(p) \subseteq InitCode(p)
          BY <1>2, InitCodeIs
        <5> QED
          BY <5>2, <5>3
      <4>12. u.k = "var" /\ u.n = m /\ u.x = i.o
        BY <4>8
      <4> HIDE DEF u
      <4>13. u \notin Top.left
        BY <1>2, <3>4, <4>10, <4>12 DEF Before
      <4>14. Did(u)
        BY <1>2, <4>11, <4>13
      <4> QED
        BY <1>6, <4>12, <4>14 DEF Did
    <3> QED
      BY <3>2, <3>3, <3>4
  <2> QED
    BY <2>2, <2>3
<1> QED
  BY <1>8, <1>9

LEMMA UsedIsReady ==
    ASSUME Written, SetInv, EndedInv, stage = "start", InitOrdered(prog), GoodStack(stack), CodeInv,
           reach # {}
    PROVE  \A i \in Used(Position(Top)) : Ready(i)
<1> SUFFICES ASSUME NEW i \in Used(Position(Top))
             PROVE  Ready(i)
  OBVIOUS
<1>1. /\ Top \in Frames /\ ~AtEnd(Top) /\ Position(Top).k \in OwnCode
      /\ \A S : Plain(Position(Top).x) \in S /\ RunsNext(prog, S) \subseteq S => reach \subseteq S
  BY TopIs DEF CodeInv, Top
<1>2. Top.pkg \in Linked /\ Position(Top) \in InitCode(Top.pkg)
  BY <1>1, PositionIs
<1>3. reach \subseteq Within(Top.pkg)
  BY <1>1, <1>2, StepWithin, WithinClosed
<1>4. Known(i) /\ DeclOf(i) \in program /\ i.o \in Names /\ prog \in Programs
  BY <1>3, WrittenIs, InstIs DEF Used, Within, Known
<1>5. CASE Info(i.o).kind # "var"
  BY <1>4, <1>5, LoadedIs
<1>6. CASE Info(i.o).kind = "var"
  BY <1>4, <1>6, VariableSet, ObjectFacts DEF Ready
<1> QED
  BY <1>5, <1>6

-----------------------------------------------------------------------------
(* Running the program keeps the invariant.                                *)

LEMMA StackIs ==
    ASSUME NEW st, stack' = st, GoodStack(st)'
    PROVE  GoodStack(stack)'
BY DEF GoodStack

LEMMA RunningKeeps ==
    ASSUME Written, OrderInv, SetInv, stage \in {"run", "start"}, stage' \in {"start", "finished"},
           UNCHANGED <<vars, collecting>>, missing' = {}, DOMAIN js' = DOMAIN js,
           js.set \subseteq js'.set, js'.complete = js.complete, js'.linknames = js.linknames,
           js'.linked = js.linked
    PROVE  OrderInv' /\ SetInv' /\ phase' = "written" /\ stage' \in Stages /\ stage' # "none"
<1>1. /\ Linked' = Linked /\ Root' = Root /\ prog' = prog /\ program' = program /\ order' = order
      /\ \A p, k : InstsOf(p, k)' = InstsOf(p, k) /\ DeclsOf(p, k)' = DeclsOf(p, k)
      /\ \A o : Info(o)' = Info(o)
  BY SameWritten DEF vars, collecting
<1>2. OrderInv'
  <2>1. Ordered' <=> Ordered
    BY <1>1 DEF Ordered
  <2> QED
    BY <1>1, <2>1 DEF OrderInv
<1>3. /\ Defined = Linked /\ SetUp = Linked /\ Relinked = Linked
      /\ Defined' = Linked /\ SetUp' = Linked /\ Relinked' = Linked
  BY <1>1 DEF Defined, SetUp, Relinked, Passed, AfterDefine, AfterFinish, AfterLink
<1>4. \A p : Linknames(p)' = Linknames(p)
  BY <1>1 DEF Linknames, DeclsOf, IsImplementation, Info
<1>5. SetInv'
  <2>1. \A p \in Linked : InstsOf(p, "type")' \subseteq js'.set
    BY <1>1, <1>3 DEF SetInv
  <2>2. \A p \in Linked : /\ InstsOf(p, "func")' \subseteq js'.set
                          /\ InstsOf(p, "type")' \subseteq js'.complete
                          /\ Linknames(p)' \subseteq js'.linknames
    BY <1>1, <1>3, <1>4 DEF SetInv
  <2>3. \A p \in Linked : \A i \in InstsOf(p, "func")' : Info(i.o)'.impl # None => i.o \in js'.linked
    BY <1>1, <1>3 DEF SetInv
  <2> QED
    BY <1>3, <2>1, <2>2, <2>3 DEF SetInv
<1> QED
  BY <1>2, <1>5 DEF Stages, AfterDefine, vars, Written

LEMMA CallRuntimeKept ==
    ASSUME StartInv, Written, CallRuntime
    PROVE  StartInv'
<1>1. /\ stage = "run" /\ stage' = "start" /\ stack' = <<Frame(Runtime)>>
      /\ js' = [js EXCEPT !.begun = {Runtime}]
      /\ UNCHANGED <<vars, collecting, missing, parked, reach, waits>>
  BY DEF CallRuntime
<1>2. OrderInv /\ SetInv /\ js.ended = {} /\ reach = {} /\ waits = {}
  BY <1>1 DEF StartInv, RunningInv
<1>3. /\ DOMAIN js' = DOMAIN js /\ js'.begun = {Runtime} /\ js'.ended = {} /\ js'.set = js.set
      /\ js'.complete = js.complete /\ js'.linknames = js.linknames /\ js'.linked = js.linked
  BY <1>1, <1>2, UnsetHas DEF SetInv
<1>4. OrderInv' /\ SetInv' /\ phase' = "written" /\ stage' \in Stages /\ stage' # "none"
  BY <1>1, <1>2, <1>3, RunningKeeps DEF SetInv
<1>5. Further
  BY <1>1, <1>2, <1>3 DEF Further
<1>6. PICK e : e = Frame(Runtime)
  OBVIOUS
<1>7. GoodStack(<<e>>)' /\ Len(<<e>>) = 1 /\ <<e>>[1].pkg = Runtime
  BY <1>5, <1>6, FirstKept
<1>8. GoodStack(stack)' /\ Len(stack') = 1 /\ stack'[1].pkg = Runtime
  <2>1. PICK st : st = <<e>>
    OBVIOUS
  <2>2. GoodStack(st)' /\ stack' = st
    BY <1>1, <1>6, <1>7, <2>1
  <2> QED
    BY <1>7, <2>1, <2>2, StackIs
<1>9. StackInv'
  BY <1>3, <1>8 DEF StackInv
<1>10. CodeInv' /\ EndedInv'
  BY <1>1, <1>2, <1>3 DEF CodeInv, EndedInv
<1> QED
  BY <1>1, <1>4, <1>9, <1>10 DEF StartInv, RunningInv

(* What a step while $init functions run starts from.                      *)
LEMMA RunningIs ==
    ASSUME StartInv, Written, stage = "start"
    PROVE  /\ OrderInv /\ SetInv /\ missing = {} /\ EndedInv /\ GoodStack(stack) /\ CodeInv
           /\ DOMAIN js = DOMAIN Unset
           /\ \A q \in js.begun : q \in js.ended \/ \E n \in 1 .. Len(stack) : stack[n].pkg = q
           /\ Top = stack[Len(stack)] /\ Top = Last(stack) /\ Top \in Frames /\ Len(stack) \in Nat
           /\ Len(stack) \in 1 .. Len(stack) /\ Len(stack) >= 1
<1>1. OrderInv /\ SetInv /\ missing = {} /\ EndedInv /\ StackInv /\ CodeInv /\ DOMAIN js = DOMAIN Unset
  BY DEF StartInv, RunningInv, SetInv
<1>2. GoodStack(stack)
  BY <1>1 DEF StackInv
<1> QED
  BY <1>1, <1>2, TopIs DEF StackInv, Top

LEMMA RunningKept ==
    ASSUME Written, StartInv, stage = "start", stage' = "start", UNCHANGED <<vars, collecting>>,
           missing' = {}, DOMAIN js' = DOMAIN js,
           js.set \subseteq js'.set, js'.complete = js.complete, js'.linknames = js.linknames,
           js'.linked = js.linked, GoodStack(stack)', CodeInv', EndedInv',
           \A q \in js'.begun : q \in js'.ended \/ \E n \in 1 .. Len(stack') : stack'[n].pkg = q
    PROVE  StartInv'
<1>1. OrderInv /\ SetInv
  BY RunningIs
<1>2. OrderInv' /\ SetInv' /\ phase' = "written" /\ stage' \in Stages /\ stage' # "none"
  BY <1>1, RunningKeeps
<1>3. StackInv'
  BY DEF StackInv
<1> QED
  BY <1>2, <1>3 DEF StartInv, RunningInv

(* Nothing of the code of a step has run.                                  *)
LEMMA NoCode ==
    ASSUME UNCHANGED vars, reach' = {}, waits' \subseteq EverBlocks
    PROVE  CodeInv'
BY SameWritten DEF CodeInv

LEMMA SameEnded ==
    ASSUME UNCHANGED vars, js'.ended = js.ended, js.set \subseteq js'.set, EndedInv
    PROVE  EndedInv'
<1>1. Linked' = Linked /\ prog' = prog /\ \A p : VarSteps(p)' = VarSteps(p)
  BY SameWritten DEF vars
<1> QED
  BY <1>1 DEF EndedInv

(* $init of a package that has begun is at its end, or imports would be    *)
(* cyclic.                                                                 *)
LEMMA BegunIsEnded ==
    ASSUME Written, NEW st, GoodStack(st), NEW q, InImport(Last(st), q),
           NEW n \in 1 .. Len(st), st[n].pkg = q
    PROVE  FALSE
<1> DEFINE l == Len(st)
           I == ToSet(prog.imports[q])
           S == ImportsOf(prog, AllPkgs, I)
<1>1. /\ st \in Seq(Frames) /\ l \in Nat /\ l >= 1 /\ l \in 1 .. l /\ Last(st) = st[l]
      /\ Last(st) \in Frames /\ q \in Linked
  BY TopIs
<1>2. q \in ToSet(prog.imports[st[l].pkg])
  BY <1>1, ImportStep
<1>3. q \in AllPkgs /\ I \subseteq AllPkgs /\ q \notin S /\ prog \in Programs
  <2>1. q \in AllPkgs /\ prog \in Programs /\ I \subseteq AllPkgs
    BY <1>1, WrittenIs DEF Closed
  <2>2. WellTyped(prog, AllPkgs)
    BY <2>1, CompileAssumption DEF AllPkgs
  <2>3. q \notin S
    BY <2>1, <2>2 DEF WellTyped
  <2> QED
    BY <2>1, <2>3
<1>4. Closed(S) /\ I \subseteq S
  BY <1>3, ImportsClosed
<1>5. CASE n = l
  BY <1>2, <1>3, <1>4, <1>5
<1>6. CASE n # l
  <2>1. n \in 1 .. l - 1
    BY <1>1, <1>6
  <2>2. st[l].pkg \in S
    BY <1>1, <2>1 DEF GoodStack
  <2> HIDE DEF S
  <2>3. q \in S
    BY <1>2, <1>4, <2>2 DEF Closed
  <2> QED
    BY <1>3, <2>3
<1> QED
  BY <1>5, <1>6

LEMMA InitImportKept ==
    ASSUME StartInv, Written, InitImport
    PROVE  StartInv'
<1> DEFINE q == Position(Top).x
<1>1. /\ stage = "start" /\ stage' = "start" /\ ~AtEnd(Top) /\ Position(Top).k = "import"
      /\ UNCHANGED <<vars, collecting, missing, reach, waits>>
      /\ IF q \in js.begun THEN stack' = Advance(stack) /\ js' = js
         ELSE stack' = Append(stack, Frame(q)) /\ js' = [js EXCEPT !.begun = @ \cup {q}]
  BY DEF InitImport, Executing
<1>2. /\ SetInv /\ missing = {} /\ EndedInv /\ GoodStack(stack) /\ CodeInv /\ DOMAIN js = DOMAIN Unset
      /\ \A r \in js.begun : r \in js.ended \/ \E n \in 1 .. Len(stack) : stack[n].pkg = r
      /\ Top = Last(stack) /\ Len(stack) \in Nat
  BY <1>1, RunningIs
<1>3. InImport(Last(stack), q)
  BY <1>1, <1>2 DEF InImport, AtEnd
<1>4. CodeInv'
  <2>1. reach = {} /\ waits \subseteq EverBlocks
    BY <1>1, <1>2 DEF CodeInv, OwnCode
  <2> QED
    BY <1>1, <2>1, NoCode
<1>5. PICK st : st = stack
  OBVIOUS
<1>6. CASE q \in js.begun
  <2>1. stack' = Advance(st) /\ js' = js
    BY <1>1, <1>5, <1>6
  <2>2. q \in js.ended
    BY <1>2, <1>3, <1>6, BegunIsEnded
  <2>3. Did(Position(Last(st)))' /\ ~AtEnd(Last(st)) /\ Further /\ GoodStack(st)
    BY <1>1, <1>2, <1>5, <2>1, <2>2 DEF Did, Further
  <2>4. /\ GoodStack(Advance(st))' /\ Len(Advance(st)) = Len(st)
        /\ \A n \in 1 .. Len(st) : Advance(st)[n].pkg = st[n].pkg
    BY <2>3, AdvanceKept
  <2>5. GoodStack(stack)' /\ Len(stack') = Len(stack) /\ \A n \in 1 .. Len(stack) : stack'[n].pkg = stack[n].pkg
    <3>1. PICK a : a = Advance(st)
      OBVIOUS
    <3>2. GoodStack(a)' /\ stack' = a
      BY <2>1, <2>4, <3>1
    <3> QED
      BY <1>5, <2>4, <3>1, <3>2, StackIs
  <2>6. EndedInv'
    BY <1>1, <1>2, <2>1, SameEnded
  <2> QED
    BY <1>1, <1>2, <1>4, <2>1, <2>5, <2>6, RunningKept
<1>7. CASE q \notin js.begun
  <2>1. PICK e : e = Frame(q)
    OBVIOUS
  <2>2. stack' = Append(st, e) /\ js' = [js EXCEPT !.begun = @ \cup {q}]
    BY <1>1, <1>5, <1>7, <2>1
  <2>3. /\ DOMAIN js' = DOMAIN js /\ js'.begun = js.begun \cup {q} /\ js'.ended = js.ended
        /\ js'.set = js.set /\ js'.complete = js.complete /\ js'.linknames = js.linknames
        /\ js'.linked = js.linked
    BY <1>2, <2>2, UnsetHas
  <2>4. Further /\ GoodStack(st) /\ InImport(Last(st), q)
    BY <1>1, <1>2, <1>3, <1>5, <2>3 DEF Further
  <2>5. /\ GoodStack(Append(st, e))' /\ Len(Append(st, e)) = Len(st) + 1
        /\ \A n \in 1 .. Len(st) : Append(st, e)[n] = st[n]
        /\ Append(st, e)[Len(st) + 1].pkg = q
    BY <2>1, <2>4, PushKept
  <2>6. /\ GoodStack(stack)' /\ Len(stack') = Len(stack) + 1
        /\ \A n \in 1 .. Len(stack) : stack'[n] = stack[n]
        /\ stack'[Len(stack) + 1].pkg = q
    <3>1. PICK a : a = Append(st, e)
      OBVIOUS
    <3>2. GoodStack(a)' /\ stack' = a
      BY <2>2, <2>5, <3>1
    <3> QED
      BY <1>5, <2>5, <3>1, <3>2, StackIs
  <2>7. \A r \in js'.begun : r \in js'.ended \/ \E n \in 1 .. Len(stack') : stack'[n].pkg = r
    <3>1. Len(stack) + 1 \in 1 .. Len(stack') /\ \A n \in 1 .. Len(stack) : n \in 1 .. Len(stack')
      BY <1>2, <2>6
    <3> QED
      BY <1>2, <2>3, <2>6, <3>1
  <2>8. EndedInv'
    BY <1>1, <1>2, <2>3, SameEnded
  <2> QED
    BY <1>1, <1>2, <1>4, <2>3, <2>6, <2>7, <2>8, RunningKept
<1> QED
  BY <1>6, <1>7

LEMMA ExecuteKept ==
    ASSUME StartInv, Written, Execute
    PROVE  StartInv'
<1> DEFINE s == Position(Top)
           p == Top.pkg
           X == IF reach = {} THEN {Plain(s.x)} ELSE reach
<1>1. /\ stage = "start" /\ stage' = "start" /\ ~AtEnd(Top) /\ s.k \in OwnCode
      /\ UNCHANGED <<vars, collecting, js, missing, stack>>
      /\ reach' = RunsNext(prog, X) /\ waits' = BlocksNext(prog, reach', waits)
  BY DEF Execute, Executing
<1>2. /\ SetInv /\ missing = {} /\ EndedInv /\ GoodStack(stack) /\ CodeInv /\ DOMAIN js = DOMAIN Unset
      /\ \A r \in js.begun : r \in js.ended \/ \E n \in 1 .. Len(stack) : stack[n].pkg = r
      /\ Top \in Frames
  BY <1>1, RunningIs
<1>3. p \in Linked /\ s \in InitCode(p)
  BY <1>1, <1>2, PositionIs
<1>4. \A S : Plain(s.x) \in S /\ RunsNext(prog, S) \subseteq S => X \subseteq S
  BY <1>2 DEF CodeInv
<1>5. \A S : Plain(s.x) \in S /\ RunsNext(prog, S) \subseteq S => RunsNext(prog, X) \subseteq S
  <2>1. ASSUME NEW S, Plain(s.x) \in S, RunsNext(prog, S) \subseteq S
        PROVE  RunsNext(prog, X) \subseteq S
    <3>1. X \subseteq S
      BY <1>4, <2>1
    <3> HIDE DEF X
    <3>2. RunsNext(prog, X) \subseteq RunsNext(prog, S)
      BY <3>1, RunsMonotone
    <3> QED
      BY <2>1, <3>2
  <2> QED
    BY <2>1
<1> HIDE DEF X
<1>6. PICK R : R = RunsNext(prog, X)
  OBVIOUS
<1>7. R \subseteq AnyInst
  <2>1. R \subseteq Within(p)
    BY <1>1, <1>3, <1>5, <1>6, StepWithin, WithinClosed
  <2> QED
    BY <2>1 DEF Within
<1>8. BlocksNext(prog, R, waits) \subseteq EverBlocks
  BY <1>2, <1>7, RunBlocks DEF CodeInv
<1>9. /\ reach' = R /\ waits' \subseteq EverBlocks /\ EverBlocks' = EverBlocks
      /\ prog' = prog /\ Top' = Top
  BY <1>1, <1>6, <1>8, SameWritten DEF vars, Top
<1>10. CodeInv'
  <2>1. \A S : Plain(s.x) \in S /\ RunsNext(prog, S) \subseteq S => R \subseteq S
    BY <1>5, <1>6
  <2>2. PICK t : t = s
    OBVIOUS
  <2>3. \A S : Plain(t.x) \in S /\ RunsNext(prog', S) \subseteq S => R \subseteq S
    BY <1>9, <2>1, <2>2
  <2>4. Position(Top)' = t /\ ~AtEnd(Top)' /\ t.k \in OwnCode
    BY <1>1, <1>9, <2>2
  <2> QED
    BY <1>9, <2>3, <2>4 DEF CodeInv
<1>11. GoodStack(stack)'
  <2>1. PICK st : st = stack
    OBVIOUS
  <2>2. Further /\ GoodStack(st) /\ stack' = st
    BY <1>1, <1>2, <2>1 DEF Further
  <2> QED
    BY <2>2, StackKept, StackIs
<1>12. EndedInv'
  BY <1>1, <1>2, SameEnded
<1> QED
  BY <1>1, <1>2, <1>10, <1>11, <1>12, RunningKept

(* A step comes to its end: all it has used was there.                     *)
LEMMA FinishKept ==
    ASSUME StartInv, Written, InitOrdered(prog), InitVar \/ CallFunction
    PROVE  StartInv'
<1> DEFINE s == Position(Top)
<1>1. /\ stage = "start" /\ stage' = "start" /\ ~AtEnd(Top) /\ s.k \in OwnCode
      /\ UNCHANGED <<vars, collecting>> /\ reach # {}
      /\ missing' = missing \cup {i \in Used(s) : ~Ready(i)}
      /\ stack' = Advance(stack) /\ reach' = {} /\ waits' = {}
      /\ \/ s.k \in {"zero", "var"} /\ js' = [js EXCEPT !.set = @ \cup {Plain(s.x)}]
         \/ s.k \in {"call", "main"} /\ js' = js
  BY DEF InitVar, CallFunction, Finish, Executing, Ran, OwnCode
<1>2. /\ SetInv /\ missing = {} /\ EndedInv /\ GoodStack(stack) /\ CodeInv /\ DOMAIN js = DOMAIN Unset
      /\ \A r \in js.begun : r \in js.ended \/ \E n \in 1 .. Len(stack) : stack[n].pkg = r
      /\ Top = Last(stack)
  BY <1>1, RunningIs
<1>3. missing' = {}
  BY <1>1, <1>2, UsedIsReady
<1>4. /\ DOMAIN js' = DOMAIN js /\ js'.begun = js.begun /\ js'.ended = js.ended
      /\ js.set \subseteq js'.set /\ js'.complete = js.complete /\ js'.linknames = js.linknames
      /\ js'.linked = js.linked /\ (s.k \in {"zero", "var"} => Plain(s.x) \in js'.set)
  <2>1. CASE s.k \in {"zero", "var"} /\ js' = [js EXCEPT !.set = @ \cup {Plain(s.x)}]
    BY <1>2, <2>1, UnsetHas
  <2>2. CASE s.k \in {"call", "main"} /\ js' = js
    BY <2>2
  <2> QED
    BY <1>1, <2>1, <2>2
<1>5. PICK st : st = stack
  OBVIOUS
<1>6. Did(Position(Last(st)))' /\ ~AtEnd(Last(st)) /\ Further /\ GoodStack(st)
  <2>1. PICK t : t = s
    OBVIOUS
  <2>2. Position(Last(st)) = t /\ ~AtEnd(Last(st))
    BY <1>1, <1>2, <1>5, <2>1
  <2>3. Did(t)'
    BY <1>1, <1>4, <2>1 DEF Did, OwnCode
  <2>4. Further /\ GoodStack(st)
    BY <1>1, <1>2, <1>4, <1>5 DEF Further
  <2>5. Did(Position(Last(st)))'
    BY <2>2, <2>3
  <2> QED
    BY <2>2, <2>4, <2>5
<1>7. /\ GoodStack(Advance(st))' /\ Len(Advance(st)) = Len(st)
      /\ \A n \in 1 .. Len(st) : Advance(st)[n].pkg = st[n].pkg
  BY <1>6, AdvanceKept
<1>8. GoodStack(stack)' /\ Len(stack') = Len(stack) /\ \A n \in 1 .. Len(stack) : stack'[n].pkg = stack[n].pkg
  <2>1. PICK a : a = Advance(st)
    OBVIOUS
  <2>2. GoodStack(a)' /\ stack' = a
    BY <1>1, <1>5, <1>7, <2>1
  <2> QED
    BY <1>5, <1>7, <2>1, <2>2, StackIs
<1>9. EndedInv'
  BY <1>1, <1>2, <1>4, SameEnded
<1>10. CodeInv'
  BY <1>1, NoCode
<1> QED
  BY <1>1, <1>2, <1>3, <1>4, <1>8, <1>9, <1>10, RunningKept

(* An entry point is a function: main and the init functions are.          *)
LEMMA EntryIsFunc ==
    ASSUME prog \in Programs, NEW o \in Names, Info(o).entry
    PROVE  Info(o).kind = "func"
BY ObjectFacts

(* What blocks was compiled to be resumed, and so were all calls on the    *)
(* stack: nothing is lost.                                                 *)
LEMMA NothingLost ==
    ASSUME StartInv, Written, stage = "start", ~AtEnd(Top), Position(Top).k \in OwnCode,
           Plain(Position(Top).x) \in waits
    PROVE  \A n \in DOMAIN stack : Resumes(Position(stack[n]))
<1> DEFINE s == Position(Top)
           p == Top.pkg
           i == Plain(s.x)
<1>1. /\ GoodStack(stack) /\ CodeInv /\ Top = stack[Len(stack)] /\ Top \in Frames
      /\ Len(stack) \in Nat /\ Len(stack) >= 1 /\ stack \in Seq(Frames)
  BY RunningIs, TopIs
<1>2. \A d \in program : DeclBlocks(d)
  BY DEF Written, SingleInv, RunInv
<1>3. p \in Linked /\ s \in InitCode(p)
  BY <1>1, PositionIs
<1>4. i \in EverBlocks /\ waits \subseteq EverBlocks
  BY <1>1 DEF CodeInv
<1>5. i \in Within(p) /\ PkgOf(i) = p /\ i.o = s.x
  BY <1>3, StepWithin
<1>6. Resumes(s)
  <2>1. CASE s.k \in {"zero", "var"}
    <3>1. Plain(s.x) \in InstsOf(p, "value")
      BY <1>3, <2>1, InitCodeIs
    <3>2. PICK d \in program : d.kind = "value" /\ d.inst = Plain(s.x)
      BY <3>1 DEF InstsOf, DeclsOf
    <3>3. d.inst.o = s.x /\ \A c \in d.calls : c.callee \in waits => c.blocking
      BY <1>2, <1>4, <1>5, <3>2 DEF DeclBlocks
    <3> QED
      BY <2>1, <3>2, <3>3 DEF Resumes
  <2>2. CASE s.k \in {"call", "main"}
    <3>1. Info(s.x).entry
      BY <1>3, <2>2, InitCodeIs
    <3>2. Known(i) /\ DeclOf(i) \in program /\ i.o \in Names /\ prog \in Programs
      BY <1>5, WrittenIs, InstIs DEF Within, Known
    <3>3. Info(i.o).kind = "func"
      <4>1. Info(i.o).entry
        BY <1>5, <3>1
      <4> HIDE DEF i, s, p
      <4> QED
        BY <3>2, <4>1, EntryIsFunc
    <3>4. DeclOf(i).kind = "func" /\ DeclOf(i).inst = i
      BY <3>3, FuncDeclIs DEF DeclOf
    <3>5. DeclOf(i).blocking
      BY <1>2, <1>4, <3>2, <3>4 DEF DeclBlocks
    <3> QED
      BY <1>5, <2>2, <3>2, <3>4, <3>5 DEF Resumes
  <2> QED
    BY <2>1, <2>2 DEF OwnCode
<1>7. ASSUME NEW n \in 1 .. Len(stack), n # Len(stack)
      PROVE  Resumes(Position(stack[n]))
  <2>1. n \in 1 .. Len(stack) - 1
    BY <1>1, <1>7
  <2>2. Position(stack[n]).k = "import"
    BY <1>1, <2>1 DEF GoodStack, InImport
  <2> QED
    BY <2>2 DEF Resumes, ImportResumes
<1>8. DOMAIN stack = 1 .. Len(stack)
  BY <1>1, SeqFacts
<1> QED
  BY <1>1, <1>6, <1>7, <1>8

(* Waiting and going on change nothing else.                               *)
LEMMA StaysKept ==
    ASSUME StartInv, stage # "none",
           UNCHANGED <<vars, stage, collecting, at, js, missing, stack, reach, waits>>
    PROVE  StartInv'
<1>1. /\ stage' = stage /\ at' = at /\ js' = js /\ missing' = missing /\ stack' = stack
      /\ reach' = reach /\ waits' = waits /\ order' = order /\ visit' = visit /\ UNCHANGED vars
      /\ prog' = prog /\ phase' = phase /\ program' = program
  BY DEF vars, collecting
<1>2. /\ Linked' = Linked /\ Root' = Root /\ EverBlocks' = EverBlocks /\ AllPkgs' = AllPkgs
      /\ \A p, k : InstsOf(p, k)' = InstsOf(p, k) /\ DeclsOf(p, k)' = DeclsOf(p, k)
      /\ \A p : InitCode(p)' = InitCode(p) /\ VarSteps(p)' = VarSteps(p)
      /\ \A o : Info(o)' = Info(o)
  BY SameWritten
<1>3. OrderInv /\ SetInv /\ RunningInv /\ phase = "written" /\ stage \in Stages
  BY DEF StartInv
<1>4. OrderInv'
  <2>1. Ordered' <=> Ordered
    BY <1>1 DEF Ordered
  <2> QED
    BY <1>1, <1>2, <1>3, <2>1 DEF OrderInv
<1>5. SetInv'
  <2>1. Defined' = Defined /\ SetUp' = SetUp /\ Relinked' = Relinked
    BY <1>1, <1>2 DEF Defined, SetUp, Relinked, Passed
  <2>2. \A p : Linknames(p)' = Linknames(p)
    BY <1>1, <1>2 DEF Linknames, DeclsOf, IsImplementation, Info
  <2> QED
    BY <1>1, <1>2, <1>3, <2>1, <2>2 DEF SetInv
<1>6. EndedInv'
  BY <1>1, <1>3, SameEnded DEF RunningInv
<1>7. ASSUME stage = "start"
      PROVE  StackInv' /\ CodeInv'
  <2>1. StackInv /\ CodeInv
    BY <1>3, <1>7 DEF RunningInv
  <2>2. PICK st : st = stack
    OBVIOUS
  <2>3. Further /\ GoodStack(st) /\ stack' = st
    BY <1>1, <2>1, <2>2 DEF Further, StackInv
  <2>4. GoodStack(stack)'
    BY <2>3, StackKept, StackIs
  <2>5. CodeInv'
    BY <1>1, <1>2, <2>1 DEF CodeInv, Top
  <2> QED
    BY <1>1, <2>1, <2>4, <2>5 DEF StackInv
<1>8. RunningInv'
  BY <1>1, <1>2, <1>3, <1>6, <1>7 DEF RunningInv
<1> QED
  BY <1>1, <1>3, <1>4, <1>5, <1>8 DEF StartInv

LEMMA BlockKept ==
    ASSUME StartInv, Written, Block \/ Resume
    PROVE  StartInv'
<1>1. CASE Block
  <2>1. /\ stage = "start" /\ stage' = stage /\ ~AtEnd(Top) /\ Position(Top).k \in OwnCode
        /\ Plain(Position(Top).x) \in waits
        /\ UNCHANGED <<vars, collecting, at, js, missing>>
    BY <1>1 DEF Block, Executing
  <2>2. {n \in DOMAIN stack : ~Resumes(Position(stack[n]))} = {}
    BY <2>1, NothingLost
  <2>3. UNCHANGED <<stack, reach, waits>>
    BY <1>1, <2>2 DEF Block
  <2> QED
    BY <2>1, <2>3, StaysKept
<1>2. CASE Resume
  <2>1. stage # "none"
    BY <1>2 DEF Resume, StartInv, Idle
  <2> QED
    BY <1>2, <2>1, StaysKept DEF Resume
<1> QED
  BY <1>1, <1>2


(* $init of a package comes to its end: all its imports and variables are  *)
(* done.                                                                   *)
LEMMA InitReturnsKept ==
    ASSUME StartInv, Written, InitReturns
    PROVE  StartInv'
<1> DEFINE p == Top.pkg
<1>1. /\ stage = "start" /\ AtEnd(Top) /\ UNCHANGED <<vars, collecting, at, missing, reach, waits>>
      /\ js' = [js EXCEPT !.ended = @ \cup {p}, !.begun = @ \cup (IF Len(stack) = 1 THEN {Root} ELSE {})]
      /\ IF Len(stack) > 1 THEN stack' = Advance(Front(stack)) /\ stage' = stage
         ELSE IF p = Root THEN stack' = <<>> /\ stage' = "finished"
         ELSE stack' = <<Frame(Root)>> /\ stage' = stage
  BY DEF InitReturns
<1>2. /\ OrderInv /\ SetInv /\ missing = {} /\ EndedInv /\ GoodStack(stack) /\ CodeInv
      /\ DOMAIN js = DOMAIN Unset
      /\ \A q \in js.begun : q \in js.ended \/ \E n \in 1 .. Len(stack) : stack[n].pkg = q
      /\ Top = stack[Len(stack)] /\ Top = Last(stack) /\ Top \in Frames /\ Len(stack) \in Nat
      /\ Len(stack) \in 1 .. Len(stack) /\ Len(stack) >= 1
  BY <1>1, RunningIs
<1>3. reach = {} /\ waits \subseteq EverBlocks
  BY <1>1, <1>2 DEF CodeInv
<1>4. CodeInv'
  BY <1>1, <1>3, NoCode
<1>5. /\ DOMAIN js' = DOMAIN js /\ js'.ended = js.ended \cup {p} /\ js'.set = js.set
      /\ js'.begun = js.begun \cup (IF Len(stack) = 1 THEN {Root} ELSE {})
      /\ js'.complete = js.complete /\ js'.linknames = js.linknames /\ js'.linked = js.linked
  BY <1>1, <1>2, UnsetHas
<1>6. p \in Linked /\ \A t \in VarSteps(p) : Plain(t.x) \in js.set
  <2>1. p \in Linked /\ \A t \in InitCode(p) \ Top.left : Did(t)
    BY <1>2, TopIs DEF GoodStack
  <2>2. Top.left = {}
    BY <1>1 DEF AtEnd
  <2>3. VarSteps(p) \subseteq InitCode(p)
    BY <2>1, InitCodeIs
  <2>4. \A t \in VarSteps(p) : t.k \in {"zero", "var"}
    BY VarStepKind
  <2> QED
    BY <2>1, <2>2, <2>3, <2>4 DEF Did
<1>7. /\ ToSet(prog.imports[p]) \subseteq js.ended
      /\ ImportsOf(prog, AllPkgs, {p}) \subseteq {p} \cup js.ended
  BY <1>1, <1>2, ImportsDone
<1>8. EndedInv'
  <2>1. Linked' = Linked /\ prog' = prog /\ \A q : VarSteps(q)' = VarSteps(q)
    BY <1>1, SameWritten DEF vars
  <2>2. js'.ended \subseteq Linked
    BY <1>2, <1>5, <1>6 DEF EndedInv
  <2>3. ASSUME NEW q \in js'.ended
        PROVE  ToSet(prog.imports[q]) \subseteq js'.ended /\ \A t \in VarSteps(q) : Plain(t.x) \in js'.set
    BY <1>2, <1>5, <1>6, <1>7, <2>3 DEF EndedInv
  <2> QED
    BY <2>1, <2>2, <2>3 DEF EndedInv
<1>9. Further
  BY <1>1, <1>5 DEF Further
<1>10. PICK st : st = stack
  OBVIOUS
<1>11. CASE Len(stack) > 1
  <2>1. /\ GoodStack(Front(st)) /\ Len(Front(st)) = Len(st) - 1
        /\ \A n \in 1 .. Len(st) - 1 : Front(st)[n] = st[n]
        /\ InImport(Last(Front(st)), Last(st).pkg)
    BY <1>2, <1>10, <1>11, FrontGood
  <2>2. PICK b : b = Front(st)
    OBVIOUS
  <2>3. PICK t : t = Position(Last(b))
    OBVIOUS
  <2>4. t.k = "import" /\ t.x = p /\ ~AtEnd(Last(b)) /\ GoodStack(b)
    BY <1>2, <1>10, <2>1, <2>2, <2>3 DEF InImport, AtEnd
  <2>5. Did(t)'
    <3>1. t.k = "import" /\ t.x \in js'.ended
      BY <1>5, <2>4
    <3> QED
      BY <3>1 DEF Did
  <2>6. Did(Position(Last(b)))'
    BY <2>3, <2>5
  <2>7. /\ GoodStack(Advance(b))' /\ Len(Advance(b)) = Len(b)
        /\ \A n \in 1 .. Len(b) : Advance(b)[n].pkg = b[n].pkg
    BY <1>9, <2>4, <2>6, AdvanceKept
  <2>8. PICK a : a = Advance(b)
    OBVIOUS
  <2>9. stack' = a /\ stage' = "start" /\ GoodStack(a)'
    BY <1>1, <1>10, <1>11, <2>2, <2>7, <2>8
  <2>10. GoodStack(stack)'
    BY <2>9, StackIs
  <2>11. Len(stack') = Len(stack) - 1 /\ \A n \in 1 .. Len(stack) - 1 : stack'[n].pkg = stack[n].pkg
    BY <1>10, <2>1, <2>2, <2>7, <2>8, <2>9
  <2>12. \A r \in js'.begun : r \in js'.ended \/ \E n \in 1 .. Len(stack') : stack'[n].pkg = r
    <3>1. ASSUME NEW r \in js'.begun
          PROVE  r \in js'.ended \/ \E n \in 1 .. Len(stack') : stack'[n].pkg = r
      <4>1. r \in js.begun
        <5>1. Len(stack) # 1
          BY <1>2, <1>11
        <5> QED
          BY <1>5, <3>1, <5>1
      <4>2. CASE r \in js.ended
        BY <1>5, <4>2
      <4>3. CASE \E n \in 1 .. Len(stack) : stack[n].pkg = r
        <5>1. PICK n \in 1 .. Len(stack) : stack[n].pkg = r
          BY <4>3
        <5>2. CASE n = Len(stack)
          BY <1>2, <1>5, <5>1, <5>2
        <5>3. CASE n # Len(stack)
          <6>1. n \in 1 .. Len(stack) - 1 /\ n \in 1 .. Len(stack')
            BY <1>2, <2>11, <5>3
          <6> QED
            BY <2>11, <5>1, <6>1
        <5> QED
          BY <5>2, <5>3
      <4> QED
        BY <1>2, <4>1, <4>2, <4>3
    <3> QED
      BY <3>1
  <2> QED
    BY <1>1, <1>2, <1>4, <1>5, <1>8, <2>9, <2>10, <2>12, RunningKept
<1>12. CASE Len(stack) = 1 /\ p # Root
  <2>1. stage' = "start" /\ stack' = <<Frame(Root)>> /\ js'.begun = js.begun \cup {Root}
    BY <1>1, <1>5, <1>12
  <2>2. p = Runtime /\ Runtime \in js'.ended
    BY <1>2, <1>5, <1>12 DEF GoodStack
  <2>3. PICK e : e = Frame(Root)
    OBVIOUS
  <2>4. GoodStack(<<e>>)' /\ Len(<<e>>) = 1 /\ <<e>>[1].pkg = Root
    BY <1>9, <2>2, <2>3, FirstKept
  <2>5. PICK a : a = <<e>>
    OBVIOUS
  <2>6. stack' = a /\ GoodStack(a)' /\ Len(a) = 1 /\ a[1].pkg = Root
    BY <2>1, <2>3, <2>4, <2>5
  <2>7. GoodStack(stack)'
    BY <2>6, StackIs
  <2>8. \A r \in js'.begun : r \in js'.ended \/ \E n \in 1 .. Len(stack') : stack'[n].pkg = r
    <3>1. \A r \in js.begun : r \in js.ended \/ r = p
      <4>1. Len(stack) = 1
        BY <1>12
      <4>2. \A n \in 1 .. Len(stack) : n = 1
        BY <4>1
      <4>3. Top = stack[1]
        BY <1>2, <4>1
      <4> QED
        BY <1>2, <4>2, <4>3
    <3>2. 1 \in 1 .. Len(stack')
      BY <2>6
    <3> QED
      BY <1>5, <2>1, <2>6, <3>1, <3>2
  <2> QED
    BY <1>1, <1>2, <1>4, <1>5, <1>8, <2>1, <2>7, <2>8, RunningKept
<1>13. CASE Len(stack) = 1 /\ p = Root
  <2>1. stage' = "finished"
    BY <1>1, <1>13
  <2>2. js'.ended = Linked
    <3>1. Runtime \in js'.ended /\ Root \in js'.ended
      BY <1>2, <1>5, <1>13 DEF GoodStack
    <3>2. Closed(js'.ended)
      <4>1. Linked' = Linked /\ prog' = prog
        BY <1>1, SameWritten DEF vars
      <4> QED
        BY <1>8, <4>1, WrittenIs DEF EndedInv, Closed
    <3>3. PICK E : E = js'.ended
      OBVIOUS
    <3>4. Linked \subseteq E
      <4>1. {Root, Runtime} \subseteq E /\ Closed(E)
        BY <3>1, <3>2, <3>3
      <4>2. ImportsOf(prog, AllPkgs, {Root, Runtime}) \subseteq E
        BY <4>1, ImportsFacts
      <4> QED
        BY <4>2 DEF Linked, ImportDependencies, AllPkgs
    <3> QED
      BY <1>2, <1>5, <1>6, <3>3, <3>4 DEF EndedInv
  <2>3. OrderInv' /\ SetInv' /\ phase' = "written" /\ stage' \in Stages /\ stage' # "none"
    BY <1>1, <1>2, <1>5, <2>1, RunningKeeps
  <2>4. Linked' = Linked
    BY <1>1, SameWritten
  <2> QED
    BY <1>8, <2>1, <2>2, <2>3, <2>4 DEF StartInv, RunningInv
<1> QED
  BY <1>2, <1>11, <1>12, <1>13

LEMMA StaysStill ==
    ASSUME StartInv, UNCHANGED <<vars, svars>>
    PROVE  StartInv'
<1>1. CASE stage = "none"
  BY <1>1 DEF StartInv, Idle, svars, collecting, executing, Stages
<1>2. CASE stage # "none"
  BY <1>2, StaysKept DEF svars, executing
<1> QED
  BY <1>1, <1>2

(* Every step keeps the invariant.                                         *)
LEMMA StartKept ==
    ASSUME StartInv, SingleInv, \A P \in Programs : InitOrdered(P), [StartNext]_<<vars, svars>>
    PROVE  StartInv'
<1>1. CASE SessionStep
  BY <1>1, SessionStepKept
<1>2. CASE UNCHANGED <<vars, svars>>
  BY <1>2, StaysStill
<1>3. CASE Load
  BY <1>3, LoadKept DEF Load, Written
<1>4. CASE stage # "none" /\ ~SessionStep /\ ~Load /\ ~UNCHANGED <<vars, svars>>
  <2>1. Written
    BY <1>4 DEF StartInv, Written
  <2>2. InitOrdered(prog)
    BY <2>1, WrittenIs
  <2>3. CASE CollectDependencies
    BY <2>1, <2>3, CollectDependenciesKept
  <2>4. CASE DefinePackage
    BY <2>1, <2>4, DefinePackageKept
  <2>5. CASE FinishSetup
    BY <2>1, <2>5, FinishSetupKept
  <2>6. CASE InitLinknames
    BY <2>1, <2>6, InitLinknamesKept
  <2>7. CASE CallRuntime
    BY <2>1, <2>7, CallRuntimeKept
  <2>8. CASE InitImport
    BY <2>1, <2>8, InitImportKept
  <2>9. CASE Execute
    BY <2>1, <2>9, ExecuteKept
  <2>10. CASE InitVar \/ CallFunction
    BY <2>1, <2>2, <2>10, FinishKept
  <2>11. CASE Block \/ Resume
    BY <2>1, <2>11, BlockKept
  <2>12. CASE InitReturns
    BY <2>1, <2>12, InitReturnsKept
  <2> QED
    BY <1>4, <2>3, <2>4, <2>5, <2>6, <2>7, <2>8, <2>9, <2>10, <2>11, <2>12 DEF StartNext
<1>5. CASE stage = "none" /\ ~SessionStep /\ ~Load /\ ~UNCHANGED <<vars, svars>>
  <2>1. parked = FALSE
    BY <1>5 DEF StartInv, Idle
  <2> QED
    BY <1>5, <2>1 DEF StartNext, CollectDependencies, DefinePackage, FinishSetup, InitLinknames,
        Pass, CallRuntime, InitImport, Execute, InitVar, CallFunction, Executing, Block, Resume,
        InitReturns
<1> QED
  BY <1>1, <1>2, <1>3, <1>4, <1>5

LEMMA StartIsSound ==
    ASSUME StartInv, SingleInv
    PROVE  StartFindsAll
<1>1. missing = {}
  BY DEF StartInv, Idle, SetInv
<1>2. ASSUME stage = "start", ~AtEnd(Top), Position(Top).k # "import"
      PROVE  ToSet(prog.imports[Top.pkg]) \subseteq js.ended
  <2>1. Written
    BY <1>2 DEF StartInv, Written
  <2>2. EndedInv /\ GoodStack(stack) /\ Top = Last(stack)
    BY <1>2, <2>1, RunningIs
  <2> QED
    BY <1>2, <2>1, <2>2, ImportsDone
<1>3. stage = "finished" => js.ended = Linked
  BY DEF StartInv, RunningInv
<1> QED
  BY <1>1, <1>2, <1>3 DEF StartFindsAll

(* Whatever the program uses from its first line to the end of main is     *)
(* there, and the packages that a package imports are initialized to the   *)
(* end before its own code runs, also when an initializer blocks: in a     *)
(* session with one root, for every program whose initializers do not      *)
(* reach a variable of their package that is initialized later             *)
(* (WritePkgCode, varDecls, importInitializer, $initLinknames).            *)
THEOREM StartsWithAll ==
    ASSUME OneRoot, \A P \in Programs : InitOrdered(P)
    PROVE  StartSpec => []StartFindsAll
<1>1. StartSpec => []SingleInv
  BY SessionHolds, SingleHolds, PTL
<1>2. StartInit => StartInv
  BY StartsIdle
<1>3. StartInv /\ SingleInv /\ [StartNext]_<<vars, svars>> => StartInv'
  BY StartKept
<1>4. StartInv /\ SingleInv => StartFindsAll
  BY StartIsSound
<1> QED
  BY <1>1, <1>2, <1>3, <1>4, PTL DEF StartSpec

=============================================================================
