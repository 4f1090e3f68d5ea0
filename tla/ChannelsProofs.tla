--------------------------- MODULE ChannelsProofs ---------------------------
(* Proofs about channels and select, for every set of goroutines and       *)
(* channels, every capacity and every set of select statements.            *)
EXTENDS Channels, GoroutinesProofs

-----------------------------------------------------------------------------
(* Queues of entries.                                                      *)

(* Somebody's entry is in q.                                               *)
In(q, g) == \E i \in DOMAIN q : q[i].g = g
(* No goroutine has two entries in q; $noGoroutine may.                    *)
OneEach(q) ==
    \A i, j \in DOMAIN q : q[i].g = q[j].g /\ q[i].g # NoGoroutine => i = j

(* Every entry of p is the one of q in its place, or e.                    *)
Longer(p, q, e) == \A i \in DOMAIN p : (i \in DOMAIN q /\ p[i] = q[i]) \/ p[i] = e

(* p is q without some of its entries, in the order of q.                  *)
Thinner(p, q) ==
    \E f \in [DOMAIN p -> DOMAIN q] :
        /\ \A i \in DOMAIN p : p[i] = q[f[i]]
        /\ \A i, j \in DOMAIN p : i < j => f[i] < f[j]

(* Thinner is a preorder.                                                  *)
LEMMA ThinnerSelf == ASSUME NEW q PROVE Thinner(q, q)
<1> DEFINE f == [i \in DOMAIN q |-> i]
<1>1. f \in [DOMAIN q -> DOMAIN q]
  OBVIOUS
<1>2. \A i \in DOMAIN q : q[i] = q[f[i]]
  OBVIOUS
<1>3. \A i, j \in DOMAIN q : i < j => f[i] < f[j]
  OBVIOUS
<1> QED
  BY <1>1, <1>2, <1>3 DEF Thinner

(* What is left of what is left of a queue is left of it.                  *)
LEMMA ThinnerTrans ==
    ASSUME NEW o, NEW p, NEW q, Thinner(o, p), Thinner(p, q)
    PROVE  Thinner(o, q)
<1>1. PICK f \in [DOMAIN o -> DOMAIN p] :
         /\ \A i \in DOMAIN o : o[i] = p[f[i]]
         /\ \A i, j \in DOMAIN o : i < j => f[i] < f[j]
  BY DEF Thinner
<1>2. PICK h \in [DOMAIN p -> DOMAIN q] :
         /\ \A i \in DOMAIN p : p[i] = q[h[i]]
         /\ \A i, j \in DOMAIN p : i < j => h[i] < h[j]
  BY DEF Thinner
<1> DEFINE k == [i \in DOMAIN o |-> h[f[i]]]
<1>3. k \in [DOMAIN o -> DOMAIN q]
  OBVIOUS
<1>4. \A i \in DOMAIN o : o[i] = q[k[i]]
  BY <1>1, <1>2
<1>5. \A i, j \in DOMAIN o : i < j => k[i] < k[j]
  BY <1>1, <1>2
<1> QED
  BY <1>3, <1>4, <1>5 DEF Thinner

(* shift: the first entry leaves.                                          *)
LEMMA TailThinner ==
    ASSUME NEW S, NEW q \in Seq(S), q # <<>>
    PROVE  /\ Tail(q) \in Seq(S) /\ Thinner(Tail(q), q)
           /\ Head(q) \in S /\ Head(q) = q[1] /\ 1 \in DOMAIN q
           /\ \A i \in DOMAIN q : i = 1 \/ (i - 1 \in DOMAIN Tail(q) /\ q[i] = Tail(q)[i - 1])
           /\ \A i \in DOMAIN Tail(q) : i + 1 \in DOMAIN q /\ Tail(q)[i] = q[i + 1]
<1>1. /\ Len(q) \in Nat \ {0} /\ DOMAIN q = 1 .. Len(q)
      /\ Head(q) = q[1] /\ Head(q) \in S
      /\ Tail(q) \in Seq(S) /\ Len(Tail(q)) = Len(q) - 1
      /\ \A i \in 1 .. Len(Tail(q)) : Tail(q)[i] = q[i + 1]
  BY HeadTailProperties, EmptySeq
<1>2. DOMAIN Tail(q) = 1 .. (Len(q) - 1)
  BY <1>1
<1> DEFINE f == [i \in DOMAIN Tail(q) |-> i + 1]
<1>3. f \in [DOMAIN Tail(q) -> DOMAIN q]
  BY <1>1, <1>2
<1>4. \A i \in DOMAIN Tail(q) : Tail(q)[i] = q[f[i]]
  BY <1>1, <1>2
<1>5. \A i, j \in DOMAIN Tail(q) : i < j => f[i] < f[j]
  BY <1>2
<1>6. Thinner(Tail(q), q)
  BY <1>3, <1>4, <1>5 DEF Thinner
<1>7. \A i \in DOMAIN q : i = 1 \/ (i - 1 \in DOMAIN Tail(q) /\ q[i] = Tail(q)[i - 1])
  BY <1>1, <1>2
<1>8. \A i \in DOMAIN Tail(q) : i + 1 \in DOMAIN q /\ Tail(q)[i] = q[i + 1]
  BY <1>1, <1>2
<1> QED
  BY <1>1, <1>6, <1>7, <1>8

(* removeFromQueues: the goroutine's entry leaves, the others stay.        *)
LEMMA WithoutThinner ==
    ASSUME NEW S, NEW q \in Seq(S), NEW g
    PROVE  /\ Without(q, g) \in Seq(S) /\ Thinner(Without(q, g), q)
           /\ \A h : h # g => (In(Without(q, g), h) <=> In(q, h))
           /\ OneEach(q) /\ g # NoGoroutine => ~In(Without(q, g), g)
<1> DEFINE found == {i \in DOMAIN q : q[i].g = g}
           w     == Without(q, g)
<1>0. DOMAIN q = 1 .. Len(q) /\ Len(q) \in Nat
  OBVIOUS
<1>len. Len(q) \in Nat
  BY <1>0
<1>1. CASE found = {}
  <2>1. w = q
    BY <1>1 DEF Without
  <2> QED
    BY <1>1, <2>1, ThinnerSelf DEF In
<1>2. CASE found # {}
  <2> DEFINE k == CHOOSE k \in found : TRUE
  <2>1. k \in found /\ w = SubSeq(q, 1, k - 1) \o SubSeq(q, k + 1, Len(q))
    BY <1>2 DEF Without
  <2>2. k \in 1 .. Len(q) /\ q[k].g = g
    BY <1>0, <2>1
  <2> HIDE DEF k, found, w
  <2>3. /\ w \in Seq(S) /\ Len(w) = Len(q) - 1 /\ DOMAIN w = 1 .. (Len(q) - 1)
        /\ \A i \in 1 .. (Len(q) - 1) : w[i] = IF i < k THEN q[i] ELSE q[i + 1]
    <3> DEFINE a == SubSeq(q, 1, k - 1)
               b == SubSeq(q, k + 1, Len(q))
    <3>1. /\ a \in Seq(S) /\ Len(a) = k - 1
          /\ \A i \in 1 .. (k - 1) : a[i] = q[i]
      <4>1. \A i \in 1 .. (k - 1) : q[i] \in S
        BY <1>0, <2>2
      <4>2. k - 1 \in Int
        BY <2>2
      <4> HIDE DEF a
      <4>3. /\ a \in Seq(S)
            /\ Len(a) = IF 1 <= k - 1 THEN (k - 1) - 1 + 1 ELSE 0
            /\ \A i \in 1 .. ((k - 1) - 1 + 1) : a[i] = q[1 + i - 1]
        BY <4>1, <4>2, SubSeqProperties DEF a
      <4>4. Len(a) = k - 1
        <5>1. Len(a) = IF 1 <= k - 1 THEN (k - 1) - 1 + 1 ELSE 0
          BY <4>3
        <5> QED
          BY <2>2, <5>1
      <4>5. ASSUME NEW i \in 1 .. (k - 1) PROVE a[i] = q[i]
        <5>1. 1 + i - 1 = i /\ i \in 1 .. ((k - 1) - 1 + 1)
          BY <2>2
        <5> QED
          BY <4>3, <5>1
      <4> QED
        BY <4>3, <4>4, <4>5
    <3>2. /\ b \in Seq(S) /\ Len(b) = Len(q) - k
          /\ \A i \in 1 .. (Len(q) - k) : b[i] = q[k + i]
      <4>1. \A i \in (k + 1) .. Len(q) : q[i] \in S
        BY <1>0, <2>2
      <4>2. k + 1 \in Int /\ Len(q) \in Int
        BY <1>0, <2>2
      <4> HIDE DEF b
      <4>3. /\ b \in Seq(S)
            /\ Len(b) = IF k + 1 <= Len(q) THEN Len(q) - (k + 1) + 1 ELSE 0
            /\ \A i \in 1 .. (Len(q) - (k + 1) + 1) : b[i] = q[(k + 1) + i - 1]
        BY <4>1, <4>2, SubSeqProperties DEF b
      <4>4. Len(b) = Len(q) - k
        <5>1. Len(b) = IF k + 1 <= Len(q) THEN Len(q) - (k + 1) + 1 ELSE 0
          BY <4>3
        <5> QED
          BY <1>len, <2>2, <5>1
      <4>5. ASSUME NEW i \in 1 .. (Len(q) - k) PROVE b[i] = q[k + i]
        <5>1. (k + 1) + i - 1 = k + i /\ i \in 1 .. (Len(q) - (k + 1) + 1)
          BY <1>0, <2>2
        <5> QED
          BY <4>3, <5>1
      <4> QED
        BY <4>3, <4>4, <4>5
    <3> HIDE DEF a, b
    <3>3. /\ a \o b \in Seq(S) /\ Len(a \o b) = Len(q) - 1
          /\ \A i \in 1 .. (Len(q) - 1) : (a \o b)[i] = IF i < k THEN a[i] ELSE b[i - (k - 1)]
      <4>1. /\ a \o b \in Seq(S) /\ Len(a \o b) = Len(a) + Len(b)
            /\ \A i \in 1 .. (Len(a) + Len(b)) :
                  (a \o b)[i] = IF i <= Len(a) THEN a[i] ELSE b[i - Len(a)]
        <5>1. a \in Seq(S) /\ b \in Seq(S)
          BY <3>1, <3>2
        <5> QED
          BY <5>1
      <4> QED
        BY <1>0, <2>2, <3>1, <3>2, <4>1
    <3>4. ASSUME NEW i \in 1 .. (Len(q) - 1)
          PROVE  (a \o b)[i] = IF i < k THEN q[i] ELSE q[i + 1]
      <4>1. CASE i < k
        BY <1>0, <2>2, <3>1, <3>3, <4>1
      <4>2. CASE ~(i < k)
        <5>1. i - (k - 1) \in 1 .. (Len(q) - k) /\ k + (i - (k - 1)) = i + 1
          BY <1>0, <2>2, <4>2
        <5>2. (a \o b)[i] = b[i - (k - 1)]
          BY <3>3, <4>2
        <5> QED
          BY <3>2, <4>2, <5>1, <5>2
      <4> QED
        BY <4>1, <4>2
    <3>5. w = a \o b
      BY <2>1 DEF a, b
    <3>6. /\ w \in Seq(S) /\ Len(w) = Len(q) - 1
          /\ \A i \in 1 .. (Len(q) - 1) : w[i] = IF i < k THEN q[i] ELSE q[i + 1]
      BY <3>3, <3>4, <3>5, Zenon
    <3>7. DOMAIN w = 1 .. (Len(q) - 1)
      BY <3>6
    <3> QED
      BY <3>6, <3>7
  <2> DEFINE f == [i \in DOMAIN w |-> IF i < k THEN i ELSE i + 1]
  <2>4. f \in [DOMAIN w -> DOMAIN q]
    BY <1>0, <2>2, <2>3
  <2>5. \A i \in DOMAIN w : w[i] = q[f[i]]
    BY <2>3
  <2>6. \A i, j \in DOMAIN w : i < j => f[i] < f[j]
    BY <1>0, <2>2, <2>3
  <2>7. Thinner(w, q)
    BY <2>4, <2>5, <2>6 DEF Thinner
  <2>8. ASSUME NEW h, h # g, In(q, h) PROVE In(w, h)
    <3>1. PICK i \in 1 .. Len(q) : q[i].g = h
      BY <1>0, <2>8 DEF In
    <3>2. i # k
      BY <2>2, <2>8, <3>1
    <3>3. CASE i < k
      <4>1. i \in 1 .. (Len(q) - 1) /\ w[i] = q[i]
        BY <1>0, <2>2, <2>3, <3>1, <3>3
      <4> QED
        BY <2>3, <3>1, <4>1 DEF In
    <3>4. CASE i > k
      <4>1. i - 1 \in 1 .. (Len(q) - 1) /\ w[i - 1] = q[i]
        BY <1>0, <2>2, <2>3, <3>1, <3>4
      <4> QED
        BY <2>3, <3>1, <4>1 DEF In
    <3> QED
      BY <1>0, <2>2, <3>1, <3>2, <3>3, <3>4
  <2>9. ASSUME NEW h, In(w, h) PROVE In(q, h)
    BY <2>4, <2>5, <2>9 DEF In
  <2>10. ASSUME OneEach(q), g # NoGoroutine PROVE ~In(w, g)
    <3>1. ASSUME NEW i \in DOMAIN w, w[i].g = g PROVE FALSE
      <4>1. f[i] \in DOMAIN q /\ q[f[i]].g = g /\ f[i] # k
        BY <1>0, <2>2, <2>3, <2>4, <2>5, <3>1
      <4> QED
        BY <1>0, <2>2, <2>10, <4>1 DEF OneEach
    <3> QED
      BY <3>1 DEF In
  <2> QED
    BY <2>3, <2>7, <2>8, <2>9, <2>10 DEF w
<1> QED
  BY <1>1, <1>2

(* What holds of the entries of a queue holds of a thinner one.            *)
LEMMA ThinnerKeeps ==
    ASSUME NEW S, NEW p \in Seq(S), NEW q \in Seq(S), Thinner(p, q)
    PROVE  /\ \A i \in DOMAIN p : \E k \in DOMAIN q : p[i] = q[k]
           /\ OneEach(q) => OneEach(p)
           /\ \A g : In(p, g) => In(q, g)
           /\ p # <<>> => q # <<>>
           /\ (\A i, j \in DOMAIN q : i < j => q[i].val < q[j].val)
              => \A i, j \in DOMAIN p : i < j => p[i].val < p[j].val
<1>0. /\ DOMAIN p = 1 .. Len(p) /\ Len(p) \in Nat
      /\ DOMAIN q = 1 .. Len(q) /\ Len(q) \in Nat
  OBVIOUS
<1>1. PICK f \in [DOMAIN p -> DOMAIN q] :
         /\ \A i \in DOMAIN p : p[i] = q[f[i]]
         /\ \A i, j \in DOMAIN p : i < j => f[i] < f[j]
  BY DEF Thinner
<1>2. \A i \in DOMAIN p : f[i] \in DOMAIN q
  BY <1>1
<1>3. OneEach(q) => OneEach(p)
  <2> SUFFICES ASSUME OneEach(q), NEW i \in DOMAIN p, NEW j \in DOMAIN p,
                      p[i].g = p[j].g, p[i].g # NoGoroutine
               PROVE  i = j
    BY DEF OneEach
  <2>1. f[i] = f[j]
    BY <1>1, <1>2 DEF OneEach
  <2>2. f[i] \in Int /\ i \in Int /\ j \in Int
    BY <1>0, <1>2
  <2> QED
    BY <1>1, <2>1, <2>2
<1>4. \A g : In(p, g) => In(q, g)
  BY <1>1, <1>2 DEF In
<1>5. p # <<>> => q # <<>>
  <2>1. p # <<>> => 1 \in DOMAIN p
    BY <1>0
  <2> QED
    BY <1>0, <1>2, <2>1
<1>6. (\A i, j \in DOMAIN q : i < j => q[i].val < q[j].val)
      => \A i, j \in DOMAIN p : i < j => p[i].val < p[j].val
  BY <1>1, <1>2
<1> QED
  BY <1>1, <1>2, <1>3, <1>4, <1>5, <1>6

(* push: one more entry at the end.                                        *)
LEMMA AppendIn ==
    ASSUME NEW S, NEW q \in Seq(S), NEW e \in S
    PROVE  /\ Append(q, e) \in Seq(S) /\ DOMAIN Append(q, e) = 1 .. (Len(q) + 1)
           /\ \A i \in DOMAIN q : Append(q, e)[i] = q[i]
           /\ Append(q, e)[Len(q) + 1] = e
           /\ \A g : In(Append(q, e), g) <=> In(q, g) \/ e.g = g
           /\ OneEach(q) /\ (e.g = NoGoroutine \/ ~In(q, e.g)) => OneEach(Append(q, e))
           /\ Longer(Append(q, e), q, e)
<1>1. /\ DOMAIN q = 1 .. Len(q) /\ Len(q) \in Nat /\ Append(q, e) \in Seq(S)
      /\ DOMAIN Append(q, e) = 1 .. (Len(q) + 1)
      /\ \A i \in 1 .. Len(q) : Append(q, e)[i] = q[i]
      /\ Append(q, e)[Len(q) + 1] = e
  BY AppendProperties
<1>2. \A g : In(Append(q, e), g) <=> In(q, g) \/ e.g = g
  BY <1>1 DEF In
<1>3. OneEach(q) /\ (e.g = NoGoroutine \/ ~In(q, e.g)) => OneEach(Append(q, e))
  BY <1>1 DEF In, OneEach
<1>4. Longer(Append(q, e), q, e)
  BY <1>1 DEF Longer
<1> QED
  BY <1>1, <1>2, <1>3, <1>4

-----------------------------------------------------------------------------
(* The scheduler below channels.  Its own invariant (Inv) does not hold    *)
(* here as it stands: $noGoroutine may be queued, and twice.               *)

USE GoroutineAssumption, SwitchAssumption, BoundAssumption, ChanAssumption
USE DEF life, wake, loop, machine, flags, ended, pending
USE DEF queues, parked, history

(* The types of the variables of the scheduler that channels rely on.      *)
SchedTypes ==
    /\ curGoroutine \in Contexts
    /\ scheduled \in Seq(Contexts)
    /\ live \subseteq Goroutine
    /\ asleep \in [Goroutine -> BOOLEAN]
    /\ exit \in [Goroutine -> BOOLEAN]
    /\ nextRun \in 0 .. MaxRuns

(* A goroutine is queued once, awake, and not while it runs.               *)
OnceEach(s) == \A i, j \in DOMAIN s : s[i] = s[j] /\ s[i] # NoGoroutine => i = j
RunOrder ==
    /\ OnceEach(scheduled)
    /\ curGoroutine # NoGoroutine => curGoroutine \notin Queued /\ runLoop # "off"
    /\ \A g \in Goroutine : g \in Queued \/ g = curGoroutine => g \in live /\ ~asleep[g]

(* The invariant of the scheduler below channels.                          *)
SchedInv == SchedTypes /\ RunOrder /\ NoLostRun

(* The goroutine is parked.                                                *)
Sleeps(g) == g \in live /\ asleep[g]

(* push on $scheduled.                                                     *)
LEMMA QueueAppend ==
    ASSUME NEW s \in Seq(Contexts), NEW g \in Contexts
    PROVE  /\ Append(s, g) \in Seq(Contexts) /\ Append(s, g) # <<>>
           /\ Elems(Append(s, g)) = Elems(s) \cup {g}
           /\ OnceEach(s) /\ (g # NoGoroutine => g \notin Elems(s)) => OnceEach(Append(s, g))
<1>1. /\ DOMAIN s = 1 .. Len(s) /\ Len(s) \in Nat
      /\ DOMAIN Append(s, g) = 1 .. (Len(s) + 1)
      /\ \A i \in 1 .. Len(s) : Append(s, g)[i] = s[i]
      /\ Append(s, g)[Len(s) + 1] = g
      /\ Append(s, g) \in Seq(Contexts) /\ Append(s, g) # <<>>
  BY AppendProperties
<1>2. Elems(Append(s, g)) = Elems(s) \cup {g}
  BY <1>1 DEF Elems
<1>3. OnceEach(s) /\ (g # NoGoroutine => g \notin Elems(s)) => OnceEach(Append(s, g))
  BY <1>1 DEF Elems, OnceEach
<1> QED
  BY <1>1, <1>2, <1>3

(* shift of $scheduled.                                                    *)
LEMMA QueueTail ==
    ASSUME NEW s \in Seq(Contexts), s # <<>>, OnceEach(s)
    PROVE  /\ Head(s) \in Contexts /\ Head(s) \in Elems(s)
           /\ Tail(s) \in Seq(Contexts) /\ OnceEach(Tail(s))
           /\ Elems(Tail(s)) \subseteq Elems(s)
           /\ Head(s) # NoGoroutine => Head(s) \notin Elems(Tail(s))
           /\ Len(s) = 1 <=> Tail(s) = <<>>
<1>1. /\ Len(s) \in Nat \ {0} /\ DOMAIN s = 1 .. Len(s)
      /\ Head(s) = s[1] /\ Head(s) \in Contexts
      /\ Tail(s) \in Seq(Contexts) /\ Len(Tail(s)) = Len(s) - 1
      /\ \A i \in 1 .. Len(Tail(s)) : Tail(s)[i] = s[i + 1]
  BY HeadTailProperties, EmptySeq
<1>2. DOMAIN Tail(s) = 1 .. (Len(s) - 1)
  BY <1>1
<1>3. Head(s) \in Elems(s) /\ Elems(Tail(s)) \subseteq Elems(s)
  BY <1>1, <1>2 DEF Elems
<1>4. OnceEach(Tail(s))
  BY <1>1, <1>2 DEF OnceEach
<1>5. Head(s) # NoGoroutine => Head(s) \notin Elems(Tail(s))
  BY <1>1, <1>2 DEF OnceEach, Elems
<1>6. Len(s) = 1 <=> Tail(s) = <<>>
  <2>1. Tail(s) = <<>> <=> Len(Tail(s)) = 0
    BY <1>1, EmptySeq
  <2>2. Len(Tail(s)) = 0 <=> Len(s) = 1
    BY <1>1
  <2> QED
    BY <2>1, <2>2
<1> QED
  BY <1>1, <1>3, <1>4, <1>5, <1>6

(* A context joins the run queue: $noGoroutine, or a goroutine that was    *)
(* not awake.                                                              *)
LEMMA JoinSched ==
    ASSUME SchedInv, NEW g \in Contexts, Enqueue(g),
           g \in Goroutine => ~(g \in live /\ ~asleep[g]),
           asleep' = IF g = NoGoroutine THEN asleep ELSE [asleep EXCEPT ![g] = FALSE],
           live' = IF g = NoGoroutine THEN live ELSE live \cup {g},
           exit' \in [Goroutine -> BOOLEAN], UNCHANGED curGoroutine
    PROVE  SchedInv'
<1> USE DEF SchedInv, SchedTypes
<1>1. g # NoGoroutine => g \in Goroutine /\ g \notin Queued /\ g # curGoroutine
  BY DEF RunOrder, Contexts
<1>2. /\ scheduled' \in Seq(Contexts) /\ scheduled' # <<>> /\ OnceEach(scheduled')
      /\ Queued' = Queued \cup {g}
  <2>1. scheduled' = Append(scheduled, g) /\ scheduled \in Seq(Contexts)
    BY DEF Enqueue
  <2>2. Queued = Elems(scheduled) /\ Queued' = Elems(scheduled')
    BY DEF Queued, Elems
  <2> QED
    BY <1>1, <2>1, <2>2, QueueAppend DEF RunOrder
<1>3. /\ nextRun' \in 0 .. MaxRuns /\ nextRun' > 0
      /\ runLoop' # "off" \/ runLoop' = runLoop
  BY DEF Enqueue, EnterRun, NoLostRun, RunOrder
<1>4. SchedTypes'
  BY <1>1, <1>2, <1>3
<1>5. RunOrder'
  BY <1>1, <1>2, <1>3 DEF RunOrder
<1> QED
  BY <1>3, <1>4, <1>5 DEF NoLostRun

(* A queue entry wakes its goroutine.                                      *)
LEMMA WakeSched ==
    ASSUME SchedInv, NEW e, NEW result, e.g \in Contexts,
           e.g \in Goroutine => Sleeps(e.g),
           Wake(e, result), UNCHANGED notWaking
    PROVE  SchedInv'
<1>1. CASE e.g = NoGoroutine
  BY <1>1, JoinSched DEF Wake, notWaking, SchedInv, SchedTypes, Contexts
<1>2. CASE e.g # NoGoroutine
  <2>1. e.g \in Goroutine
    BY <1>2 DEF Contexts
  <2>2. live' = live \cup {e.g} /\ exit' = exit /\ curGoroutine' = curGoroutine
    BY <2>1 DEF notWaking, Sleeps
  <2>3. Enqueue(e.g) /\ asleep' = [asleep EXCEPT ![e.g] = FALSE]
    BY <1>2 DEF Wake, Schedule
  <2> QED
    BY <1>2, <2>1, <2>2, <2>3, JoinSched DEF SchedInv, SchedTypes, Sleeps
<1> QED
  BY <1>1, <1>2

(* The running goroutine parks.                                            *)
LEMMA ParkSched ==
    ASSUME SchedInv, NEW x \in Goroutine, curGoroutine = x,
           Settle(x, exit[x], awakeGoroutines, mainFinished), UNCHANGED notParking
    PROVE  SchedInv'
<1> USE DEF SchedInv, SchedTypes
<1>1. /\ curGoroutine' = NoGoroutine /\ asleep' = [asleep EXCEPT ![x] = TRUE]
      /\ UNCHANGED <<scheduled, live, exit, runLoop, nextRun>>
  BY DEF Settle, notParking
<1>2. x \notin Queued /\ Queued' = Queued
  BY <1>1 DEF RunOrder, Queued
<1>3. RunOrder'
  BY <1>1, <1>2 DEF RunOrder
<1> QED
  BY <1>1, <1>3 DEF NoLostRun, Contexts

(* The scheduler, the host and other Go code: the same goroutines sleep.   *)
LEMMA OtherSched ==
    ASSUME SchedInv, RunGoroutine \/ RunNoGoroutine \/ Between
    PROVE  SchedInv' /\ \A g \in Goroutine : Sleeps(g)' <=> Sleeps(g)
<1> USE DEF SchedInv, SchedTypes
<1> DEFINE Goal == SchedInv' /\ \A g \in Goroutine : Sleeps(g)' <=> Sleeps(g)
<1>1. CASE RunGoroutine
  <2>1. /\ scheduled # <<>> /\ curGoroutine' = Head(scheduled)
        /\ scheduled' = Tail(scheduled) /\ runLoop' = "ran"
        /\ UNCHANGED <<live, asleep, exit, nextRun>>
        /\ curGoroutine' \in Goroutine
    BY <1>1 DEF RunGoroutine, RunNext
  <2>2. /\ scheduled' \in Seq(Contexts) /\ OnceEach(scheduled')
        /\ curGoroutine' \in Queued /\ curGoroutine' \notin Queued'
        /\ Queued' \subseteq Queued
    <3>1. scheduled \in Seq(Contexts) /\ OnceEach(scheduled) /\ scheduled # <<>>
      BY <2>1 DEF RunOrder
    <3>2. /\ Head(scheduled) \in Elems(scheduled) /\ Tail(scheduled) \in Seq(Contexts)
          /\ OnceEach(Tail(scheduled)) /\ Elems(Tail(scheduled)) \subseteq Elems(scheduled)
          /\ Head(scheduled) # NoGoroutine => Head(scheduled) \notin Elems(Tail(scheduled))
      BY <3>1, QueueTail
    <3>3. Queued = Elems(scheduled) /\ Queued' = Elems(Tail(scheduled))
      BY <2>1 DEF Queued, Elems
    <3> QED
      BY <2>1, <3>2, <3>3
  <2>3. RunOrder'
    BY <2>1, <2>2 DEF RunOrder
  <2> QED
    BY <2>1, <2>2, <2>3 DEF NoLostRun, Sleeps, Contexts
<1>2. CASE RunNoGoroutine
  <2>1. /\ scheduled # <<>> /\ curGoroutine' = NoGoroutine
        /\ scheduled' = Tail(scheduled) /\ runLoop' = "off"
        /\ UNCHANGED <<live, asleep, exit>>
        /\ nextRun' = IF Len(scheduled) = 1 THEN nextRun - 1 ELSE nextRun
    BY <1>2 DEF RunNoGoroutine, Looping
  <2>2. /\ scheduled' \in Seq(Contexts) /\ OnceEach(scheduled')
        /\ Queued' \subseteq Queued /\ (Len(scheduled) = 1 <=> scheduled' = <<>>)
    BY <2>1, QueueTail DEF RunOrder, Queued, Elems
  <2>3. nextRun' \in 0 .. MaxRuns /\ NoLostRun'
    BY <2>1, <2>2 DEF NoLostRun
  <2>4. RunOrder'
    BY <2>1, <2>2 DEF RunOrder
  <2> QED
    BY <2>1, <2>2, <2>3, <2>4 DEF Sleeps, Contexts
<1>3. CASE LoopEnd \/ FireRun \/ CallbackEnter \/ CallbackReturn
  <2>1. /\ UNCHANGED <<curGoroutine, scheduled, live, asleep, exit>>
        /\ \/ /\ curGoroutine = NoGoroutine
              /\ runLoop' = "off"
              /\ runLoop # "off"
              /\ nextRun' = IF scheduled = <<>> THEN nextRun - 1 ELSE nextRun
           \/ nextRun > 0 /\ nextRun' = nextRun /\ runLoop' = "fresh"
           \/ UNCHANGED <<nextRun, runLoop>>
    BY <1>3 DEF LoopEnd, FireRun, CallbackEnter, CallbackReturn, Looping
  <2>2. nextRun' \in 0 .. MaxRuns /\ NoLostRun'
    BY <2>1 DEF NoLostRun
  <2>3. RunOrder'
    BY <2>1 DEF RunOrder, Queued
  <2> QED
    BY <2>1, <2>2, <2>3 DEF Sleeps
<1>4. ASSUME NEW g \in Goroutine, Externalize PROVE Goal
  BY <1>4 DEF Externalize, RunOrder, Queued, NoLostRun, Sleeps
<1>5. ASSUME NEW g \in Goroutine, Return(g) PROVE Goal
  <2>1. /\ curGoroutine = g /\ curGoroutine' = NoGoroutine
        /\ asleep' = [asleep EXCEPT ![g] = TRUE] /\ live' = live \ {g}
        /\ exit' = [exit EXCEPT ![g] = TRUE]
        /\ UNCHANGED <<scheduled, runLoop, nextRun>>
    BY <1>5, Zenon DEF Return, Settle, Running
  <2>2. g \notin Queued /\ Queued' = Queued /\ g \in live /\ ~asleep[g]
    BY <2>1 DEF RunOrder, Queued
  <2>3. RunOrder'
    BY <2>1, <2>2 DEF RunOrder
  <2> QED
    BY <2>1, <2>2, <2>3 DEF NoLostRun, Sleeps, Contexts
<1>6. ASSUME NEW g \in Goroutine, Go(g) PROVE Goal
  <2>1. /\ g \notin live /\ Enqueue(g) /\ live' = live \cup {g}
        /\ asleep' = [asleep EXCEPT ![g] = FALSE]
        /\ exit' = [exit EXCEPT ![g] = FALSE] /\ curGoroutine' = curGoroutine
    BY <1>6 DEF Go, Spawn
  <2>2. SchedInv'
    BY <2>1, JoinSched DEF Contexts
  <2> QED
    BY <2>1, <2>2 DEF Sleeps
<1>7. ASSUME NEW g \in Goroutine, Throw(g) PROVE Goal
  <2>1. /\ curGoroutine = g /\ curGoroutine' = NoGoroutine /\ runLoop' = "off"
        /\ nextRun' = IF scheduled = <<>> THEN nextRun - 1 ELSE nextRun
        /\ UNCHANGED <<scheduled, live, asleep, exit>>
    BY <1>7, Zenon DEF Throw, Running
  <2>2. nextRun' \in 0 .. MaxRuns /\ NoLostRun'
    BY <2>1 DEF NoLostRun, RunOrder
  <2>3. RunOrder'
    BY <2>1 DEF RunOrder, Queued
  <2> QED
    BY <2>1, <2>2, <2>3 DEF Sleeps, Contexts
<1> HIDE DEF SchedInv, SchedTypes
<1> QED
  BY <1>1, <1>2, <1>3, <1>4, <1>5, <1>6, <1>7 DEF Between

-----------------------------------------------------------------------------
(* The invariant of the channels.                                          *)

Value     == 1 .. MaxSends
(* The entries of $sendQueue and $recvQueue, and what frames hold.         *)
SendEntry == [g : Contexts, val : Value, select : BOOLEAN]
RecvEntry == [g : Contexts, select : BOOLEAN]
CaseSet   == [ch : Chan, dir : {"send", "recv"}]
Frame     == {NoFrame} \cup [op : {"recv"}, ch : Chan, val : Value]
                       \cup [op : {"close"}, ch : Closable]

(* The types of the variables of the channels.                             *)
ChanTypes ==
    /\ closed \in [Chan -> BOOLEAN]
    /\ buffer \in [Chan -> Seq(Value)]
    /\ sendQueue \in [Chan -> Seq(SendEntry)]
    /\ recvQueue \in [Chan -> Seq(RecvEntry)]
    /\ op \in [Goroutine -> {"none", "send", "recv", "select"}]
    /\ offers \in [Goroutine -> SUBSET CaseSet]
    /\ slot \in [Goroutine -> {"empty", "done", "closed"}]
    /\ frame \in [Contexts -> Frame]
    /\ sends \in 0 .. MaxSends
    /\ sent \in [Chan -> Seq(Value)]
    /\ rcvd \in [Chan -> Seq(Value)]

(* An entry is marked as a case of a select exactly when its goroutine is  *)
(* parked in one; another waiter waits on one case.                        *)
Marked(q) == \A i \in DOMAIN q :
    q[i].select <=> q[i].g # NoGoroutine /\ op[q[i].g] = "select"

(* g is parked on c as a case with direction dir.                          *)
Awaits(g, c, dir) == Waiting(g) /\ c # NilChan /\ Case(c, dir) \in offers[g]

(* Parked goroutines have one entry in the queue of each of their cases,   *)
(* and nobody else has any.                                                *)
WaitInv ==
    /\ \A g \in Goroutine : Waiting(g) <=> Sleeps(g)
    /\ \A c \in Chan : /\ OneEach(sendQueue[c]) /\ OneEach(recvQueue[c])
                       /\ Marked(sendQueue[c]) /\ Marked(recvQueue[c])
    /\ \A g \in Goroutine, c \in Chan :
          /\ In(sendQueue[c], g) <=> Awaits(g, c, "send")
          /\ In(recvQueue[c], g) <=> Awaits(g, c, "recv")
    /\ \A g \in Goroutine :
          Waiting(g) /\ op[g] # "select" => \E case \in CaseSet : offers[g] = {case}

(* What serving a waiter g does to the queues.                             *)
Served(g) ==
    /\ sendQueue' \in [Chan -> Seq(SendEntry)]
    /\ recvQueue' \in [Chan -> Seq(RecvEntry)]
    /\ \A d \in Chan : /\ Thinner(sendQueue'[d], sendQueue[d])
                       /\ Thinner(recvQueue'[d], recvQueue[d])
    /\ \A d \in Chan, h \in Goroutine :
          /\ In(sendQueue'[d], h) <=> h # g /\ In(sendQueue[d], h)
          /\ In(recvQueue'[d], h) <=> h # g /\ In(recvQueue[d], h)

(* Shift takes the first entry of one queue away.                          *)
LEMMA ShiftQueue ==
    ASSUME NEW S, NEW Q \in [Chan -> Seq(S)], NEW c \in Chan, Q[c] # <<>>,
           OneEach(Q[c])
    PROVE  /\ Shift(Q, c) \in [Chan -> Seq(S)] /\ Head(Q[c]) \in S
           /\ \A d \in Chan : Thinner(Shift(Q, c)[d], Q[d])
           /\ \A d \in Chan, h \in Goroutine :
                 In(Shift(Q, c)[d], h) <=> In(Q[d], h) /\ ~(d = c /\ h = Head(Q[c]).g)
           /\ In(Q[c], Head(Q[c]).g)
<1>1. Q[c] \in Seq(S)
  OBVIOUS
<1> DEFINE q == Q[c]
           t == Tail(q)
<1>2. /\ t \in Seq(S) /\ Thinner(t, q)
      /\ Head(q) \in S /\ Head(q) = q[1] /\ 1 \in DOMAIN q
      /\ \A i \in DOMAIN q : i = 1 \/ (i - 1 \in DOMAIN t /\ q[i] = t[i - 1])
      /\ \A i \in DOMAIN t : i + 1 \in DOMAIN q /\ t[i] = q[i + 1]
  BY <1>1, TailThinner
<1>3. DOMAIN t \subseteq Nat
  BY <1>2
<1>4. ASSUME NEW h \in Goroutine
      PROVE  In(t, h) <=> In(q, h) /\ h # Head(q).g
  <2>1. In(t, h) => In(q, h)
    BY <1>2 DEF In
  <2>2. ASSUME NEW i \in DOMAIN t, t[i].g = h, h = Head(q).g PROVE FALSE
    <3>1. i + 1 \in DOMAIN q /\ q[i + 1].g = q[1].g /\ q[1].g # NoGoroutine
      BY <1>2, <2>2
    <3>2. i + 1 = 1
      BY <1>2, <3>1, Zenon DEF OneEach
    <3> QED
      BY <1>3, <3>2
  <2>3. ASSUME NEW i \in DOMAIN q, q[i].g = h, h # Head(q).g PROVE In(t, h)
    <3>1. i # 1
      BY <1>2, <2>3
    <3> QED
      BY <1>2, <2>3, <3>1 DEF In
  <2> QED
    BY <2>1, <2>2, <2>3 DEF In
<1>5. Shift(Q, c) \in [Chan -> Seq(S)]
  BY <1>2 DEF Shift
<1>6. \A d \in Chan : Shift(Q, c)[d] = IF d = c THEN t ELSE Q[d]
  BY DEF Shift
<1>7. In(q, Head(q).g)
  BY <1>2 DEF In
<1> HIDE DEF t
<1> QED
  BY <1>2, <1>4, <1>5, <1>6, <1>7, ThinnerSelf

(* Dequeued takes every entry of the goroutine away, given that one        *)
(* without the select mark waits nowhere else.                             *)
LEMMA DequeuedQueue ==
    ASSUME NEW S, NEW Q \in [Chan -> Seq(S)], NEW e,
           \A c \in Chan : OneEach(Q[c]),
           e.select => e.g # NoGoroutine,
           ~e.select /\ e.g # NoGoroutine => \A c \in Chan : ~In(Q[c], e.g)
    PROVE  /\ Dequeued(Q, e) \in [Chan -> Seq(S)]
           /\ \A d \in Chan : Thinner(Dequeued(Q, e)[d], Q[d])
           /\ \A d \in Chan, h \in Goroutine :
                 In(Dequeued(Q, e)[d], h) <=> h # e.g /\ In(Q[d], h)
<1>1. CASE e.select
  <2>1. \A d \in Chan : /\ Without(Q[d], e.g) \in Seq(S)
                        /\ Thinner(Without(Q[d], e.g), Q[d])
                        /\ \A h : h # e.g => (In(Without(Q[d], e.g), h) <=> In(Q[d], h))
                        /\ ~In(Without(Q[d], e.g), e.g)
    BY <1>1, WithoutThinner
  <2> QED
    BY <1>1, <2>1 DEF Dequeued
<1>2. CASE ~e.select
  BY <1>2, ThinnerSelf DEF Dequeued
<1> QED
  BY <1>1, <1>2

(* A waiter that is not in a select waits in one queue only.               *)
LEMMA OnlyEntry ==
    ASSUME ChanTypes, WaitInv, NEW c \in Chan, NEW g \in Goroutine, op[g] # "select",
           NEW d \in Chan
    PROVE  /\ In(sendQueue[c], g) => ~In(recvQueue[d], g)
           /\ In(sendQueue[c], g) /\ d # c => ~In(sendQueue[d], g)
           /\ In(recvQueue[c], g) /\ d # c => ~In(recvQueue[d], g)
<1> USE DEF WaitInv
<1>1. ASSUME Waiting(g) PROVE \E case \in CaseSet : offers[g] = {case}
  BY <1>1
<1>2. /\ Case(c, "send") # Case(d, "recv")
      /\ d # c => Case(c, "send") # Case(d, "send") /\ Case(c, "recv") # Case(d, "recv")
  BY DEF Case
<1> QED
  BY <1>1, <1>2 DEF Awaits

(* Serving the first sender of a channel.                                  *)
LEMMA ServeSender ==
    ASSUME ChanTypes, WaitInv, NEW c \in Chan, sendQueue[c] # <<>>,
           NEW e, e = Head(sendQueue[c]),
           sendQueue' = Dequeued(Shift(sendQueue, c), e),
           recvQueue' = Dequeued(recvQueue, e)
    PROVE  /\ Served(e.g) /\ e \in SendEntry
           /\ e.g \in Goroutine => Sleeps(e.g)
           /\ Thinner(sendQueue'[c], Tail(sendQueue[c]))
<1> DEFINE Q == Shift(sendQueue, c)
<1>1. /\ Q \in [Chan -> Seq(SendEntry)] /\ e \in SendEntry
      /\ \A d \in Chan : Thinner(Q[d], sendQueue[d])
      /\ \A d \in Chan, h \in Goroutine :
            In(Q[d], h) <=> In(sendQueue[d], h) /\ ~(d = c /\ h = e.g)
      /\ In(sendQueue[c], e.g)
  <2>1. sendQueue \in [Chan -> Seq(SendEntry)] /\ OneEach(sendQueue[c])
    BY DEF ChanTypes, WaitInv
  <2> QED
    BY <2>1, ShiftQueue
<1>2. e.select <=> e.g # NoGoroutine /\ op[e.g] = "select"
  <2>1. sendQueue[c] \in Seq(SendEntry)
    BY DEF ChanTypes
  <2>2. 1 \in DOMAIN sendQueue[c] /\ e = sendQueue[c][1]
    BY <2>1, TailThinner
  <2>3. Marked(sendQueue[c])
    BY DEF WaitInv
  <2> QED
    BY <2>2, <2>3 DEF Marked
<1>3. e.g # NoGoroutine => e.g \in Goroutine
  BY <1>1 DEF SendEntry, Contexts
<1>4. \A d \in Chan : OneEach(Q[d])
  <2> TAKE d \in Chan
  <2>1. Q[d] \in Seq(SendEntry) /\ sendQueue[d] \in Seq(SendEntry) /\ Thinner(Q[d], sendQueue[d])
    BY <1>1 DEF ChanTypes
  <2>2. OneEach(sendQueue[d])
    BY DEF WaitInv
  <2> QED
    BY <2>1, <2>2, ThinnerKeeps
<1>5. ~e.select /\ e.g # NoGoroutine
      => \A d \in Chan : ~In(Q[d], e.g) /\ ~In(recvQueue[d], e.g)
  BY <1>1, <1>2, <1>3, OnlyEntry
<1> HIDE DEF Q
<1>6. /\ sendQueue' \in [Chan -> Seq(SendEntry)]
      /\ \A d \in Chan : Thinner(sendQueue'[d], Q[d])
      /\ \A d \in Chan, h \in Goroutine : In(sendQueue'[d], h) <=> h # e.g /\ In(Q[d], h)
  <2>1. sendQueue' = Dequeued(Q, e)
    BY DEF Q
  <2>2. ~e.select /\ e.g # NoGoroutine => \A d \in Chan : ~In(Q[d], e.g)
    BY <1>5
  <2>3. e.select => e.g # NoGoroutine
    BY <1>2
  <2>4. Q \in [Chan -> Seq(SendEntry)]
    BY <1>1
  <2>5. /\ Dequeued(Q, e) \in [Chan -> Seq(SendEntry)]
        /\ \A d \in Chan : Thinner(Dequeued(Q, e)[d], Q[d])
        /\ \A d \in Chan, h \in Goroutine :
              In(Dequeued(Q, e)[d], h) <=> h # e.g /\ In(Q[d], h)
    BY <1>4, <2>2, <2>3, <2>4, DequeuedQueue, SMTT(40)
  <2> QED
    BY <2>1, <2>5
<1>7. /\ recvQueue' \in [Chan -> Seq(RecvEntry)]
      /\ \A d \in Chan : Thinner(recvQueue'[d], recvQueue[d])
      /\ \A d \in Chan, h \in Goroutine : In(recvQueue'[d], h) <=> h # e.g /\ In(recvQueue[d], h)
  <2>1. recvQueue \in [Chan -> Seq(RecvEntry)] /\ \A d \in Chan : OneEach(recvQueue[d])
    BY DEF ChanTypes, WaitInv
  <2>2. ~e.select /\ e.g # NoGoroutine => \A d \in Chan : ~In(recvQueue[d], e.g)
    BY <1>5
  <2>3. e.select => e.g # NoGoroutine
    BY <1>2
  <2>4. /\ Dequeued(recvQueue, e) \in [Chan -> Seq(RecvEntry)]
        /\ \A d \in Chan : Thinner(Dequeued(recvQueue, e)[d], recvQueue[d])
        /\ \A d \in Chan, h \in Goroutine :
              In(Dequeued(recvQueue, e)[d], h) <=> h # e.g /\ In(recvQueue[d], h)
    <3>1. PICK R : R = recvQueue
      OBVIOUS
    <3>2. R \in [Chan -> Seq(RecvEntry)] /\ \A d \in Chan : OneEach(R[d])
      BY <2>1, <3>1
    <3>3. ~e.select /\ e.g # NoGoroutine => \A d \in Chan : ~In(R[d], e.g)
      BY <2>2, <3>1
    <3>4. /\ Dequeued(R, e) \in [Chan -> Seq(RecvEntry)]
          /\ \A d \in Chan : Thinner(Dequeued(R, e)[d], R[d])
          /\ \A d \in Chan, h \in Goroutine :
                In(Dequeued(R, e)[d], h) <=> h # e.g /\ In(R[d], h)
      BY <2>3, <3>2, <3>3, DequeuedQueue, SMTT(40)
    <3> QED
      BY <3>1, <3>4
  <2> QED
    BY <2>4
<1>8. Served(e.g)
  BY <1>1, <1>6, <1>7, ThinnerTrans DEF Served
<1>9. e.g \in Goroutine => Sleeps(e.g)
  BY <1>1 DEF WaitInv, Awaits
<1>10. Thinner(sendQueue'[c], Tail(sendQueue[c]))
  <2>1. Q[c] = Tail(sendQueue[c])
    BY DEF Q, Shift, ChanTypes
  <2> QED
    BY <1>6, <2>1
<1> QED
  BY <1>1, <1>8, <1>9, <1>10

(* Serving the first receiver of a channel.                                *)
LEMMA ServeReceiver ==
    ASSUME ChanTypes, WaitInv, NEW c \in Chan, recvQueue[c] # <<>>,
           NEW e, e = Head(recvQueue[c]),
           recvQueue' = Dequeued(Shift(recvQueue, c), e),
           sendQueue' = Dequeued(sendQueue, e)
    PROVE  /\ Served(e.g) /\ e \in RecvEntry
           /\ e.g \in Goroutine => Sleeps(e.g)
           /\ e = recvQueue[c][1] /\ 1 \in DOMAIN recvQueue[c]
           /\ e.select => e.g # NoGoroutine
<1> DEFINE Q == Shift(recvQueue, c)
<1>1. /\ Q \in [Chan -> Seq(RecvEntry)] /\ e \in RecvEntry
      /\ \A d \in Chan : Thinner(Q[d], recvQueue[d])
      /\ \A d \in Chan, h \in Goroutine :
            In(Q[d], h) <=> In(recvQueue[d], h) /\ ~(d = c /\ h = e.g)
      /\ In(recvQueue[c], e.g)
  <2>1. recvQueue \in [Chan -> Seq(RecvEntry)] /\ OneEach(recvQueue[c])
    BY DEF ChanTypes, WaitInv
  <2> QED
    BY <2>1, ShiftQueue
<1>0. 1 \in DOMAIN recvQueue[c] /\ e = recvQueue[c][1]
  <2>1. recvQueue[c] \in Seq(RecvEntry)
    BY DEF ChanTypes
  <2> QED
    BY <2>1, TailThinner
<1>2. e.select <=> e.g # NoGoroutine /\ op[e.g] = "select"
  <2>3. Marked(recvQueue[c])
    BY DEF WaitInv
  <2> QED
    BY <1>0, <2>3 DEF Marked
<1>3. e.g # NoGoroutine => e.g \in Goroutine
  BY <1>1 DEF RecvEntry, Contexts
<1>4. \A d \in Chan : OneEach(Q[d])
  <2> TAKE d \in Chan
  <2>1. Q[d] \in Seq(RecvEntry) /\ recvQueue[d] \in Seq(RecvEntry) /\ Thinner(Q[d], recvQueue[d])
    BY <1>1 DEF ChanTypes
  <2>2. OneEach(recvQueue[d])
    BY DEF WaitInv
  <2> QED
    BY <2>1, <2>2, ThinnerKeeps
<1>5. ~e.select /\ e.g # NoGoroutine
      => \A d \in Chan : ~In(Q[d], e.g) /\ ~In(sendQueue[d], e.g)
  BY <1>1, <1>2, <1>3, OnlyEntry
<1> HIDE DEF Q
<1>6. /\ recvQueue' \in [Chan -> Seq(RecvEntry)]
      /\ \A d \in Chan : Thinner(recvQueue'[d], Q[d])
      /\ \A d \in Chan, h \in Goroutine : In(recvQueue'[d], h) <=> h # e.g /\ In(Q[d], h)
  <2>1. recvQueue' = Dequeued(Q, e)
    BY DEF Q
  <2>2. ~e.select /\ e.g # NoGoroutine => \A d \in Chan : ~In(Q[d], e.g)
    BY <1>5
  <2>3. e.select => e.g # NoGoroutine
    BY <1>2
  <2>4. Q \in [Chan -> Seq(RecvEntry)]
    BY <1>1
  <2>5. /\ Dequeued(Q, e) \in [Chan -> Seq(RecvEntry)]
        /\ \A d \in Chan : Thinner(Dequeued(Q, e)[d], Q[d])
        /\ \A d \in Chan, h \in Goroutine :
              In(Dequeued(Q, e)[d], h) <=> h # e.g /\ In(Q[d], h)
    BY <1>4, <2>2, <2>3, <2>4, DequeuedQueue, SMTT(40)
  <2> QED
    BY <2>1, <2>5
<1>7. /\ sendQueue' \in [Chan -> Seq(SendEntry)]
      /\ \A d \in Chan : Thinner(sendQueue'[d], sendQueue[d])
      /\ \A d \in Chan, h \in Goroutine : In(sendQueue'[d], h) <=> h # e.g /\ In(sendQueue[d], h)
  <2>1. sendQueue \in [Chan -> Seq(SendEntry)] /\ \A d \in Chan : OneEach(sendQueue[d])
    BY DEF ChanTypes, WaitInv
  <2>2. ~e.select /\ e.g # NoGoroutine => \A d \in Chan : ~In(sendQueue[d], e.g)
    BY <1>5
  <2>3. e.select => e.g # NoGoroutine
    BY <1>2
  <2>4. /\ Dequeued(sendQueue, e) \in [Chan -> Seq(SendEntry)]
        /\ \A d \in Chan : Thinner(Dequeued(sendQueue, e)[d], sendQueue[d])
        /\ \A d \in Chan, h \in Goroutine :
              In(Dequeued(sendQueue, e)[d], h) <=> h # e.g /\ In(sendQueue[d], h)
    <3>1. PICK R : R = sendQueue
      OBVIOUS
    <3>2. R \in [Chan -> Seq(SendEntry)] /\ \A d \in Chan : OneEach(R[d])
      BY <2>1, <3>1
    <3>3. ~e.select /\ e.g # NoGoroutine => \A d \in Chan : ~In(R[d], e.g)
      BY <2>2, <3>1
    <3>4. /\ Dequeued(R, e) \in [Chan -> Seq(SendEntry)]
          /\ \A d \in Chan : Thinner(Dequeued(R, e)[d], R[d])
          /\ \A d \in Chan, h \in Goroutine :
                In(Dequeued(R, e)[d], h) <=> h # e.g /\ In(R[d], h)
      BY <2>3, <3>2, <3>3, DequeuedQueue, SMTT(40)
    <3> QED
      BY <3>1, <3>4
  <2> QED
    BY <2>4
<1>8. Served(e.g)
  BY <1>1, <1>6, <1>7, ThinnerTrans DEF Served
<1>9. e.g \in Goroutine => Sleeps(e.g)
  BY <1>1 DEF WaitInv, Awaits
<1> QED
  BY <1>0, <1>1, <1>2, <1>8, <1>9

(* The entry of a served waiter wakes its goroutine.                       *)
LEMMA WaitWake ==
    ASSUME ChanTypes, WaitInv, SchedInv, NEW e, e.g \in Contexts,
           e.g \in Goroutine => Sleeps(e.g), Served(e.g),
           NEW result \in {"done", "closed"}, Wake(e, result),
           UNCHANGED notWaking, UNCHANGED <<op, offers>>
    PROVE  WaitInv' /\ slot' \in [Goroutine -> {"empty", "done", "closed"}]
<1> DEFINE g == e.g
<1>0. /\ live' = live /\ asleep \in [Goroutine -> BOOLEAN]
      /\ slot \in [Goroutine -> {"empty", "done", "closed"}]
  BY DEF notWaking, SchedInv, SchedTypes, ChanTypes
<1>1. /\ slot' \in [Goroutine -> {"empty", "done", "closed"}]
      /\ \A h \in Goroutine : Waiting(h)' <=> Waiting(h) /\ h # g
      /\ \A h \in Goroutine : Sleeps(h)' <=> Sleeps(h) /\ h # g
  <2>1. CASE g = NoGoroutine
    <3>1. UNCHANGED <<slot, asleep>>
      BY <2>1 DEF Wake
    <3> QED
      BY <1>0, <2>1, <3>1 DEF Waiting, Sleeps
  <2>2. CASE g # NoGoroutine
    <3>1. slot' = [slot EXCEPT ![g] = result] /\ asleep' = [asleep EXCEPT ![g] = FALSE]
          /\ g \in Goroutine
      BY <2>2 DEF Wake, Schedule, Contexts
    <3> QED
      BY <1>0, <3>1 DEF Waiting, Sleeps
  <2> QED
    BY <2>1, <2>2
<1>2. \A h \in Goroutine : Waiting(h)' <=> Sleeps(h)'
  BY <1>1 DEF WaitInv
<1>3. ASSUME NEW c \in Chan
      PROVE  /\ OneEach(sendQueue'[c]) /\ OneEach(recvQueue'[c])
             /\ Marked(sendQueue[c])' /\ Marked(recvQueue[c])'
  <2>1. /\ sendQueue[c] \in Seq(SendEntry) /\ sendQueue'[c] \in Seq(SendEntry)
        /\ recvQueue[c] \in Seq(RecvEntry) /\ recvQueue'[c] \in Seq(RecvEntry)
        /\ Thinner(sendQueue'[c], sendQueue[c]) /\ Thinner(recvQueue'[c], recvQueue[c])
    BY DEF Served, ChanTypes
  <2>2. OneEach(sendQueue[c]) /\ Marked(sendQueue[c])
        /\ OneEach(recvQueue[c]) /\ Marked(recvQueue[c])
    BY DEF WaitInv
  <2>3. OneEach(sendQueue'[c]) /\ OneEach(recvQueue'[c])
    BY <2>1, <2>2, ThinnerKeeps
  <2>4. /\ \A i \in DOMAIN sendQueue'[c] : \E k \in DOMAIN sendQueue[c] :
               sendQueue'[c][i] = sendQueue[c][k]
        /\ \A i \in DOMAIN recvQueue'[c] : \E k \in DOMAIN recvQueue[c] :
               recvQueue'[c][i] = recvQueue[c][k]
    BY <2>1, ThinnerKeeps
  <2>5. Marked(sendQueue[c])' /\ Marked(recvQueue[c])'
    BY <2>2, <2>4 DEF Marked
  <2> QED
    BY <2>3, <2>5
<1>4. ASSUME NEW h \in Goroutine, NEW c \in Chan
      PROVE  /\ In(sendQueue'[c], h) <=> Awaits(h, c, "send")'
             /\ In(recvQueue'[c], h) <=> Awaits(h, c, "recv")'
  <2>1. /\ In(sendQueue[c], h) <=> Awaits(h, c, "send")
        /\ In(recvQueue[c], h) <=> Awaits(h, c, "recv")
    BY DEF WaitInv
  <2> QED
    BY <1>1, <2>1 DEF Served, Awaits
<1>5. \A h \in Goroutine :
         Waiting(h)' /\ op'[h] # "select" => \E case \in CaseSet : offers'[h] = {case}
  BY <1>1 DEF WaitInv
<1> QED
  BY <1>1, <1>2, <1>3, <1>4, <1>5 DEF WaitInv

(* The queue in which every case in cases with direction dir has one more  *)
(* entry.                                                                  *)
Joined(queue, cases, dir, entry) ==
    [c \in Chan |-> IF c # NilChan /\ Case(c, dir) \in cases
                    THEN Append(queue[c], entry) ELSE queue[c]]

(* What joining send queues does to them.                                  *)
LEMMA JoinedSend ==
    ASSUME ChanTypes, WaitInv, NEW cases, NEW entry \in SendEntry,
           entry.g # NoGoroutine => \A c \in Chan : ~In(sendQueue[c], entry.g)
    PROVE  /\ Joined(sendQueue, cases, "send", entry) \in [Chan -> Seq(SendEntry)]
           /\ \A c \in Chan : OneEach(Joined(sendQueue, cases, "send", entry)[c])
           /\ \A c \in Chan : \A h :
                 In(Joined(sendQueue, cases, "send", entry)[c], h)
                 <=> In(sendQueue[c], h)
                     \/ (h = entry.g /\ c # NilChan /\ Case(c, "send") \in cases)
           /\ \A c \in Chan : Longer(Joined(sendQueue, cases, "send", entry)[c], sendQueue[c], entry)
<1> DEFINE J == Joined(sendQueue, cases, "send", entry)
<1>1. ASSUME NEW c \in Chan
      PROVE  /\ sendQueue[c] \in Seq(SendEntry)
             /\ Append(sendQueue[c], entry) \in Seq(SendEntry)
             /\ OneEach(sendQueue[c]) /\ OneEach(Append(sendQueue[c], entry))
             /\ \A h : In(Append(sendQueue[c], entry), h) <=> In(sendQueue[c], h) \/ entry.g = h
             /\ Longer(Append(sendQueue[c], entry), sendQueue[c], entry)
  <2>1. sendQueue[c] \in Seq(SendEntry) /\ OneEach(sendQueue[c])
    BY DEF ChanTypes, WaitInv
  <2> QED
    BY <2>1, AppendIn
<1>2. \A c \in Chan : J[c] = IF c # NilChan /\ Case(c, "send") \in cases
                             THEN Append(sendQueue[c], entry) ELSE sendQueue[c]
  BY DEF Joined
<1>3. J \in [Chan -> Seq(SendEntry)]
  BY <1>1 DEF Joined
<1> HIDE DEF J
<1>4. ASSUME NEW c \in Chan
      PROVE  /\ OneEach(J[c])
             /\ \A h : In(J[c], h)
                   <=> In(sendQueue[c], h)
                       \/ (h = entry.g /\ c # NilChan /\ Case(c, "send") \in cases)
             /\ Longer(J[c], sendQueue[c], entry)
  <2>1. CASE c # NilChan /\ Case(c, "send") \in cases
    <3>1. J[c] = Append(sendQueue[c], entry)
      BY <1>2, <2>1
    <3>2. \A h : In(J[c], h) <=> In(sendQueue[c], h) \/ entry.g = h
      BY <1>1, <3>1
    <3>3. OneEach(J[c]) /\ Longer(J[c], sendQueue[c], entry)
      BY <1>1, <3>1
    <3> QED
      BY <2>1, <3>2, <3>3
  <2>2. CASE ~(c # NilChan /\ Case(c, "send") \in cases)
    <3>1. J[c] = sendQueue[c]
      BY <1>2, <2>2
    <3> QED
      BY <1>1, <2>2, <3>1 DEF Longer
  <2> QED
    BY <2>1, <2>2
<1> QED
  BY <1>3, <1>4 DEF J

(* What joining receive queues does to them.                               *)
LEMMA JoinedRecv ==
    ASSUME ChanTypes, WaitInv, NEW cases, NEW entry \in RecvEntry,
           entry.g # NoGoroutine => \A c \in Chan : ~In(recvQueue[c], entry.g)
    PROVE  /\ Joined(recvQueue, cases, "recv", entry) \in [Chan -> Seq(RecvEntry)]
           /\ \A c \in Chan : OneEach(Joined(recvQueue, cases, "recv", entry)[c])
           /\ \A c \in Chan : \A h :
                 In(Joined(recvQueue, cases, "recv", entry)[c], h)
                 <=> In(recvQueue[c], h)
                     \/ (h = entry.g /\ c # NilChan /\ Case(c, "recv") \in cases)
           /\ \A c \in Chan : Longer(Joined(recvQueue, cases, "recv", entry)[c], recvQueue[c], entry)
<1> DEFINE J == Joined(recvQueue, cases, "recv", entry)
<1>1. ASSUME NEW c \in Chan
      PROVE  /\ recvQueue[c] \in Seq(RecvEntry)
             /\ Append(recvQueue[c], entry) \in Seq(RecvEntry)
             /\ OneEach(recvQueue[c]) /\ OneEach(Append(recvQueue[c], entry))
             /\ \A h : In(Append(recvQueue[c], entry), h) <=> In(recvQueue[c], h) \/ entry.g = h
             /\ Longer(Append(recvQueue[c], entry), recvQueue[c], entry)
  <2>1. recvQueue[c] \in Seq(RecvEntry) /\ OneEach(recvQueue[c])
    BY DEF ChanTypes, WaitInv
  <2> QED
    BY <2>1, AppendIn
<1>2. \A c \in Chan : J[c] = IF c # NilChan /\ Case(c, "recv") \in cases
                             THEN Append(recvQueue[c], entry) ELSE recvQueue[c]
  BY DEF Joined
<1>3. J \in [Chan -> Seq(RecvEntry)]
  BY <1>1 DEF Joined
<1> HIDE DEF J
<1>4. ASSUME NEW c \in Chan
      PROVE  /\ OneEach(J[c])
             /\ \A h : In(J[c], h)
                   <=> In(recvQueue[c], h)
                       \/ (h = entry.g /\ c # NilChan /\ Case(c, "recv") \in cases)
             /\ Longer(J[c], recvQueue[c], entry)
  <2>1. CASE c # NilChan /\ Case(c, "recv") \in cases
    <3>1. J[c] = Append(recvQueue[c], entry)
      BY <1>2, <2>1
    <3>2. \A h : In(J[c], h) <=> In(recvQueue[c], h) \/ entry.g = h
      BY <1>1, <3>1
    <3>3. OneEach(J[c]) /\ Longer(J[c], recvQueue[c], entry)
      BY <1>1, <3>1
    <3> QED
      BY <2>1, <3>2, <3>3
  <2>2. CASE ~(c # NilChan /\ Case(c, "recv") \in cases)
    <3>1. J[c] = recvQueue[c]
      BY <1>2, <2>2
    <3> QED
      BY <1>1, <2>2, <3>1 DEF Longer
  <2> QED
    BY <2>1, <2>2
<1> QED
  BY <1>3, <1>4 DEF J

(* The running goroutine parks on cases.                                   *)
LEMMA WaitPark ==
    ASSUME ChanTypes, WaitInv, SchedInv, NEW x \in Goroutine, curGoroutine = x,
           NEW kind \in {"send", "recv", "select"}, NEW cases \in SUBSET CaseSet,
           kind # "select" => \E case \in CaseSet : cases = {case},
           NEW se \in SendEntry, se.g = x, se.select <=> kind = "select",
           NEW re \in RecvEntry, re.g = x, re.select <=> kind = "select",
           sendQueue' = Joined(sendQueue, cases, "send", se),
           recvQueue' = Joined(recvQueue, cases, "recv", re),
           op' = [op EXCEPT ![x] = kind], offers' = [offers EXCEPT ![x] = cases],
           slot' = [slot EXCEPT ![x] = "empty"],
           asleep' = [asleep EXCEPT ![x] = TRUE], live' = live
    PROVE  /\ WaitInv'
           /\ sendQueue' \in [Chan -> Seq(SendEntry)]
           /\ recvQueue' \in [Chan -> Seq(RecvEntry)]
<1>1. x \in live /\ ~asleep[x] /\ x # NoGoroutine
  BY DEF SchedInv, RunOrder
<1>2. ~Waiting(x) /\ \A c \in Chan : ~In(sendQueue[c], x) /\ ~In(recvQueue[c], x)
  BY <1>1 DEF WaitInv, Sleeps, Awaits
<1>3. /\ sendQueue' \in [Chan -> Seq(SendEntry)]
      /\ \A c \in Chan : OneEach(sendQueue'[c])
      /\ \A c \in Chan : \A h : In(sendQueue'[c], h)
            <=> In(sendQueue[c], h) \/ (h = x /\ c # NilChan /\ Case(c, "send") \in cases)
      /\ \A c \in Chan : Longer(sendQueue'[c], sendQueue[c], se)
  <2> DEFINE J == Joined(sendQueue, cases, "send", se)
  <2>0. se.g # NoGoroutine => \A c \in Chan : ~In(sendQueue[c], se.g)
    BY <1>2
  <2>2. /\ J \in [Chan -> Seq(SendEntry)]
        /\ \A c \in Chan : OneEach(J[c])
        /\ \A c \in Chan : \A h : In(J[c], h)
              <=> In(sendQueue[c], h) \/ (h = se.g /\ c # NilChan /\ Case(c, "send") \in cases)
        /\ \A c \in Chan : Longer(J[c], sendQueue[c], se)
    BY <2>0, JoinedSend, Zenon
  <2>3. sendQueue' = J
    OBVIOUS
  <2> HIDE DEF J
  <2> QED
    BY <2>2, <2>3
<1>4. /\ recvQueue' \in [Chan -> Seq(RecvEntry)]
      /\ \A c \in Chan : OneEach(recvQueue'[c])
      /\ \A c \in Chan : \A h : In(recvQueue'[c], h)
            <=> In(recvQueue[c], h) \/ (h = x /\ c # NilChan /\ Case(c, "recv") \in cases)
      /\ \A c \in Chan : Longer(recvQueue'[c], recvQueue[c], re)
  <2> DEFINE J == Joined(recvQueue, cases, "recv", re)
  <2>0. re.g # NoGoroutine => \A c \in Chan : ~In(recvQueue[c], re.g)
    BY <1>2
  <2>2. /\ J \in [Chan -> Seq(RecvEntry)]
        /\ \A c \in Chan : OneEach(J[c])
        /\ \A c \in Chan : \A h : In(J[c], h)
              <=> In(recvQueue[c], h) \/ (h = re.g /\ c # NilChan /\ Case(c, "recv") \in cases)
        /\ \A c \in Chan : Longer(J[c], recvQueue[c], re)
    BY <2>0, JoinedRecv, Zenon
  <2>3. recvQueue' = J
    OBVIOUS
  <2> HIDE DEF J
  <2> QED
    BY <2>2, <2>3
<1>5. /\ op'[x] = kind /\ offers'[x] = cases /\ Waiting(x)' /\ Sleeps(x)'
      /\ \A h \in Goroutine : h # x =>
            /\ op'[h] = op[h] /\ offers'[h] = offers[h]
            /\ (Waiting(h)' <=> Waiting(h)) /\ (Sleeps(h)' <=> Sleeps(h))
  BY <1>1 DEF ChanTypes, SchedInv, SchedTypes, Waiting, Sleeps
<1>6. \A h \in Goroutine : Waiting(h)' <=> Sleeps(h)'
  BY <1>5 DEF WaitInv
<1>7. ASSUME NEW c \in Chan PROVE Marked(sendQueue[c])'
  <2>1. ASSUME NEW i \in DOMAIN sendQueue[c]
        PROVE  sendQueue[c][i].select <=> sendQueue[c][i].g # NoGoroutine
                                          /\ op'[sendQueue[c][i].g] = "select"
    <3>1. sendQueue[c][i].g # x
      BY <1>2, <2>1 DEF In
    <3>2. sendQueue[c][i] \in SendEntry
      BY <2>1 DEF ChanTypes
    <3>3. sendQueue[c][i].g # NoGoroutine => sendQueue[c][i].g \in Goroutine
      BY <3>2 DEF SendEntry, Contexts
    <3>4. sendQueue[c][i].select <=> sendQueue[c][i].g # NoGoroutine
                                     /\ op[sendQueue[c][i].g] = "select"
      BY <2>1 DEF WaitInv, Marked
    <3> QED
      BY <1>5, <3>1, <3>3, <3>4
  <2> QED
    BY <1>1, <1>3, <1>5, <2>1 DEF Marked, Longer
<1>8. ASSUME NEW c \in Chan PROVE Marked(recvQueue[c])'
  <2>1. ASSUME NEW i \in DOMAIN recvQueue[c]
        PROVE  recvQueue[c][i].select <=> recvQueue[c][i].g # NoGoroutine
                                          /\ op'[recvQueue[c][i].g] = "select"
    <3>1. recvQueue[c][i].g # x
      BY <1>2, <2>1 DEF In
    <3>2. recvQueue[c][i] \in RecvEntry
      BY <2>1 DEF ChanTypes
    <3>3. recvQueue[c][i].g # NoGoroutine => recvQueue[c][i].g \in Goroutine
      BY <3>2 DEF RecvEntry, Contexts
    <3>4. recvQueue[c][i].select <=> recvQueue[c][i].g # NoGoroutine
                                     /\ op[recvQueue[c][i].g] = "select"
      BY <2>1 DEF WaitInv, Marked
    <3> QED
      BY <1>5, <3>1, <3>3, <3>4
  <2> QED
    BY <1>1, <1>4, <1>5, <2>1 DEF Marked, Longer
<1>9. ASSUME NEW h \in Goroutine, NEW c \in Chan
      PROVE  /\ In(sendQueue'[c], h) <=> Awaits(h, c, "send")'
             /\ In(recvQueue'[c], h) <=> Awaits(h, c, "recv")'
  <2>1. /\ In(sendQueue[c], h) <=> Awaits(h, c, "send")
        /\ In(recvQueue[c], h) <=> Awaits(h, c, "recv")
    BY DEF WaitInv
  <2>2. CASE h = x
    BY <1>2, <1>3, <1>4, <1>5, <2>2 DEF Awaits
  <2>3. CASE h # x
    BY <1>3, <1>4, <1>5, <2>1, <2>3 DEF Awaits
  <2> QED
    BY <2>2, <2>3
<1>10. \A h \in Goroutine :
         Waiting(h)' /\ op'[h] # "select" => \E case \in CaseSet : offers'[h] = {case}
  BY <1>5 DEF WaitInv
<1> QED
  BY <1>3, <1>4, <1>6, <1>7, <1>8, <1>9, <1>10 DEF WaitInv

(* A callback that would have to block leaves an entry of $noGoroutine.    *)
LEMMA WaitStale ==
    ASSUME ChanTypes, WaitInv, NEW cases,
           NEW se \in SendEntry, se.g = NoGoroutine, ~se.select,
           NEW re \in RecvEntry, re.g = NoGoroutine, ~re.select,
           sendQueue' = Joined(sendQueue, cases, "send", se),
           recvQueue' = Joined(recvQueue, cases, "recv", re),
           UNCHANGED <<op, offers, slot, live, asleep>>
    PROVE  /\ WaitInv'
           /\ sendQueue' \in [Chan -> Seq(SendEntry)]
           /\ recvQueue' \in [Chan -> Seq(RecvEntry)]
<1>1. /\ sendQueue' \in [Chan -> Seq(SendEntry)]
      /\ \A c \in Chan : OneEach(sendQueue'[c])
      /\ \A c \in Chan, h \in Goroutine : In(sendQueue'[c], h) <=> In(sendQueue[c], h)
      /\ \A c \in Chan : Longer(sendQueue'[c], sendQueue[c], se)
  <2> DEFINE J == Joined(sendQueue, cases, "send", se)
  <2>0. se.g # NoGoroutine => \A c \in Chan : ~In(sendQueue[c], se.g)
    OBVIOUS
  <2>2. /\ J \in [Chan -> Seq(SendEntry)]
        /\ \A c \in Chan : OneEach(J[c])
        /\ \A c \in Chan : \A h : In(J[c], h)
              <=> In(sendQueue[c], h) \/ (h = se.g /\ c # NilChan /\ Case(c, "send") \in cases)
        /\ \A c \in Chan : Longer(J[c], sendQueue[c], se)
    BY <2>0, JoinedSend, Zenon
  <2>3. sendQueue' = J
    OBVIOUS
  <2> HIDE DEF J
  <2> QED
    BY <2>2, <2>3
<1>2. /\ recvQueue' \in [Chan -> Seq(RecvEntry)]
      /\ \A c \in Chan : OneEach(recvQueue'[c])
      /\ \A c \in Chan, h \in Goroutine : In(recvQueue'[c], h) <=> In(recvQueue[c], h)
      /\ \A c \in Chan : Longer(recvQueue'[c], recvQueue[c], re)
  <2> DEFINE J == Joined(recvQueue, cases, "recv", re)
  <2>0. re.g # NoGoroutine => \A c \in Chan : ~In(recvQueue[c], re.g)
    OBVIOUS
  <2>2. /\ J \in [Chan -> Seq(RecvEntry)]
        /\ \A c \in Chan : OneEach(J[c])
        /\ \A c \in Chan : \A h : In(J[c], h)
              <=> In(recvQueue[c], h) \/ (h = re.g /\ c # NilChan /\ Case(c, "recv") \in cases)
        /\ \A c \in Chan : Longer(J[c], recvQueue[c], re)
    BY <2>0, JoinedRecv, Zenon
  <2>3. recvQueue' = J
    OBVIOUS
  <2> HIDE DEF J
  <2> QED
    BY <2>2, <2>3
<1>3. \A h \in Goroutine : (Waiting(h)' <=> Waiting(h)) /\ (Sleeps(h)' <=> Sleeps(h))
  BY DEF Waiting, Sleeps
<1>4. ASSUME NEW c \in Chan PROVE Marked(sendQueue[c])' /\ Marked(recvQueue[c])'
  <2>1. Marked(sendQueue[c]) /\ Marked(recvQueue[c]) /\ op' = op
    BY DEF WaitInv
  <2>2. Marked(sendQueue[c])'
    BY <1>1, <2>1 DEF Marked, Longer
  <2>3. Marked(recvQueue[c])'
    BY <1>2, <2>1 DEF Marked, Longer
  <2> QED
    BY <2>2, <2>3
<1> QED
  BY <1>1, <1>2, <1>3, <1>4 DEF WaitInv, Awaits

(* The queues stay as they are, and the same goroutines sleep.             *)
LEMMA WaitSame ==
    ASSUME WaitInv, UNCHANGED <<sendQueue, recvQueue, op, offers, slot>>,
           \A g \in Goroutine : Sleeps(g)' <=> Sleeps(g)
    PROVE  WaitInv'
BY DEF WaitInv, Waiting, Awaits, Marked

(* A goroutine that has been woken goes on.                                *)
LEMMA WaitResume ==
    ASSUME ChanTypes, WaitInv, SchedInv, NEW g \in Goroutine, Resume(g)
    PROVE  WaitInv'
<1>1. g \in live /\ ~asleep[g] /\ UNCHANGED <<live, asleep, sendQueue, recvQueue>>
  BY DEF Resume, Running, SchedInv, RunOrder, vars
<1>2. ~Waiting(g) /\ \A c \in Chan : ~In(sendQueue[c], g) /\ ~In(recvQueue[c], g)
  BY <1>1 DEF WaitInv, Sleeps, Awaits
<1>3. /\ ~Waiting(g)'
      /\ \A h \in Goroutine : h # g => /\ op'[h] = op[h] /\ offers'[h] = offers[h]
                                       /\ (Waiting(h)' <=> Waiting(h))
      /\ \A h \in Goroutine : Sleeps(h)' <=> Sleeps(h)
  BY <1>1 DEF ChanTypes, Resume, Waiting, Sleeps
<1>4. ASSUME NEW c \in Chan PROVE Marked(sendQueue[c])' /\ Marked(recvQueue[c])'
  <2>1. ASSUME NEW i \in DOMAIN sendQueue[c]
        PROVE  sendQueue[c][i].g \in Contexts /\ sendQueue[c][i].g # g
    <3>1. sendQueue[c][i] \in SendEntry
      BY <2>1 DEF ChanTypes
    <3> QED
      BY <1>2, <2>1, <3>1 DEF SendEntry, In
  <2>2. ASSUME NEW i \in DOMAIN recvQueue[c]
        PROVE  recvQueue[c][i].g \in Contexts /\ recvQueue[c][i].g # g
    <3>1. recvQueue[c][i] \in RecvEntry
      BY <2>2 DEF ChanTypes
    <3> QED
      BY <1>2, <2>2, <3>1 DEF RecvEntry, In
  <2>3. Marked(sendQueue[c]) /\ Marked(recvQueue[c])
    BY DEF WaitInv
  <2> QED
    BY <1>1, <1>3, <2>1, <2>2, <2>3 DEF Marked, Contexts
<1> QED
  BY <1>1, <1>2, <1>3, <1>4 DEF WaitInv, Awaits

-----------------------------------------------------------------------------
(* What the invariant takes for granted of the program: no select sends on *)
(* a channel that the program closes.  One that waits when the channel is  *)
(* closed throws in the goroutine that closes it, which leaves $close with *)
(* waiters behind.                                                         *)
SelectSafe ==
    \A cases \in SelectCases : \A i \in DOMAIN cases :
        cases[i].dir = "send" => cases[i].ch \notin Closable

(* Only channels that the program closes are closed, and no select waits   *)
(* to send on one of those.                                                *)
SelectInv ==
    \A c \in Chan :
        /\ closed[c] => c \in Closable
        /\ c \in Closable => \A i \in DOMAIN sendQueue[c] : ~sendQueue[c][i].select

(* The part of ChanTypes that the queues and the parked goroutines leave.  *)
DataTypes ==
    /\ closed \in [Chan -> BOOLEAN]
    /\ buffer \in [Chan -> Seq(Value)]
    /\ frame \in [Contexts -> Frame]
    /\ sends \in 0 .. MaxSends
    /\ sent \in [Chan -> Seq(Value)]
    /\ rcvd \in [Chan -> Seq(Value)]

(* The inductive invariant of the channels.                                *)
ChanCore == SchedInv /\ ChanTypes /\ WaitInv /\ SelectInv

(* An entry is called: its goroutine has left the queues and is woken.     *)
LEMMA CoreServe ==
    ASSUME ChanCore, NEW e, e.g \in Contexts, e.g \in Goroutine => Sleeps(e.g),
           Served(e.g), NEW result \in {"done", "closed"}, Wake(e, result),
           UNCHANGED notWaking, UNCHANGED <<op, offers, closed>>, DataTypes'
    PROVE  ChanCore'
<1>1. SchedInv /\ ChanTypes /\ WaitInv /\ SelectInv
  BY DEF ChanCore
<1>2. SchedInv'
  BY <1>1, WakeSched
<1>3. WaitInv' /\ slot' \in [Goroutine -> {"empty", "done", "closed"}]
  BY <1>1, WaitWake
<1>4. ChanTypes'
  BY <1>1, <1>3 DEF ChanTypes, DataTypes, Served
<1>5. SelectInv'
  <2>1. ASSUME NEW c \in Chan, c \in Closable, NEW i \in DOMAIN sendQueue'[c]
        PROVE  ~sendQueue'[c][i].select
    <3>1. Thinner(sendQueue'[c], sendQueue[c])
      BY DEF Served
    <3>2. PICK k \in DOMAIN sendQueue[c] : sendQueue'[c][i] = sendQueue[c][k]
      BY <2>1, <3>1 DEF Thinner
    <3> QED
      BY <1>1, <2>1, <3>2 DEF SelectInv
  <2> QED
    BY <1>1, <2>1 DEF SelectInv
<1> QED
  BY <1>2, <1>3, <1>4, <1>5 DEF ChanCore

(* An operation that cannot go on: its entries join the queues, and $block *)
(* parks the goroutine or throws in a callback.                            *)
LEMMA CoreBlock ==
    ASSUME ChanCore, NEW x \in Contexts, curGoroutine = x,
           NEW kind \in {"send", "recv", "select"}, NEW cases \in SUBSET CaseSet,
           Block(x, kind, cases),
           kind # "select" => \E case \in CaseSet : cases = {case},
           kind = "select" => x # NoGoroutine
                              /\ \A c \in Closable : Case(c, "send") \notin cases,
           NEW se \in SendEntry, se.g = x, se.select <=> kind = "select",
           NEW re \in RecvEntry, re.g = x, re.select <=> kind = "select",
           sendQueue' = Joined(sendQueue, cases, "send", se),
           recvQueue' = Joined(recvQueue, cases, "recv", re),
           UNCHANGED closed, DataTypes'
    PROVE  ChanCore'
<1>1. SchedInv /\ ChanTypes /\ WaitInv /\ SelectInv
  BY DEF ChanCore
<1>2. /\ SchedInv' /\ WaitInv'
      /\ sendQueue' \in [Chan -> Seq(SendEntry)]
      /\ recvQueue' \in [Chan -> Seq(RecvEntry)]
      /\ op' \in [Goroutine -> {"none", "send", "recv", "select"}]
      /\ offers' \in [Goroutine -> SUBSET CaseSet]
      /\ slot' \in [Goroutine -> {"empty", "done", "closed"}]
  <2>1. CASE x = NoGoroutine
    <3>1. UNCHANGED <<vars, parked>>
      BY <2>1 DEF Block
    <3>2. SchedInv'
      BY <1>1, <3>1 DEF SchedInv, SchedTypes, RunOrder, NoLostRun, Queued, vars
    <3>3. ~se.select /\ ~re.select
      BY <2>1
    <3>4. /\ WaitInv'
          /\ sendQueue' \in [Chan -> Seq(SendEntry)]
          /\ recvQueue' \in [Chan -> Seq(RecvEntry)]
      BY <1>1, <2>1, <3>1, <3>3, WaitStale DEF vars
    <3> QED
      BY <1>1, <3>1, <3>2, <3>4 DEF ChanTypes
  <2>2. CASE x # NoGoroutine
    <3>1. /\ x \in Goroutine
          /\ Settle(x, exit[x], awakeGoroutines, mainFinished) /\ UNCHANGED notParking
          /\ op' = [op EXCEPT ![x] = kind] /\ offers' = [offers EXCEPT ![x] = cases]
          /\ slot' = [slot EXCEPT ![x] = "empty"]
      BY <2>2 DEF Block, Contexts
    <3>2. SchedInv'
      BY <1>1, <3>1, ParkSched
    <3>3. asleep' = [asleep EXCEPT ![x] = TRUE] /\ live' = live
      BY <3>1 DEF Settle, notParking
    <3>4. /\ WaitInv'
          /\ sendQueue' \in [Chan -> Seq(SendEntry)]
          /\ recvQueue' \in [Chan -> Seq(RecvEntry)]
      BY <1>1, <3>1, <3>3, WaitPark
    <3> QED
      BY <1>1, <3>1, <3>2, <3>4 DEF ChanTypes
  <2> QED
    BY <2>1, <2>2
<1>3. ChanTypes'
  BY <1>2 DEF ChanTypes, DataTypes
<1>4. SelectInv'
  <2>1. ASSUME NEW c \in Chan, c \in Closable, NEW i \in DOMAIN sendQueue'[c]
        PROVE  ~sendQueue'[c][i].select
    <3>1. CASE Case(c, "send") \in cases
      <4>1. ~se.select
        BY <2>1, <3>1
      <4>2. se.g # NoGoroutine => \A d \in Chan : ~In(sendQueue[d], se.g)
        BY <1>1 DEF WaitInv, Awaits, Sleeps, SchedInv, RunOrder, Contexts
      <4>3. Longer(sendQueue'[c], sendQueue[c], se)
        BY <1>1, <4>2, JoinedSend
      <4> QED
        BY <1>1, <2>1, <4>1, <4>3 DEF Longer, SelectInv
    <3>2. CASE Case(c, "send") \notin cases
      <4>1. sendQueue'[c] = sendQueue[c]
        BY <3>2 DEF Joined
      <4> QED
        BY <1>1, <2>1, <4>1 DEF SelectInv
    <3> QED
      BY <3>1, <3>2
  <2> QED
    BY <1>1, <2>1 DEF SelectInv
<1> QED
  BY <1>2, <1>3, <1>4 DEF ChanCore

(* Nobody is woken and nobody parks.                                       *)
LEMMA CoreKeep ==
    ASSUME ChanCore, UNCHANGED <<vars, sendQueue, recvQueue, parked>>, DataTypes',
           \A c \in Chan : closed'[c] => c \in Closable
    PROVE  ChanCore'
<1>1. SchedInv /\ ChanTypes /\ WaitInv /\ SelectInv
  BY DEF ChanCore
<1>2. SchedInv' /\ \A g \in Goroutine : Sleeps(g)' <=> Sleeps(g)
  BY <1>1 DEF SchedInv, SchedTypes, RunOrder, NoLostRun, Queued, vars, Sleeps
<1>3. WaitInv'
  BY <1>1, <1>2, WaitSame
<1>4. ChanTypes' /\ SelectInv'
  BY <1>1 DEF ChanTypes, DataTypes, SelectInv
<1> QED
  BY <1>2, <1>3, <1>4 DEF ChanCore

(* A push on one queue, as what a goroutine that waits on one case does.   *)
LEMMA PushJoins ==
    ASSUME ChanTypes, NEW c \in Chan, NEW entry, NEW other
    PROVE  /\ Push(sendQueue, c, entry)
                 = Joined(sendQueue, {Case(c, "send")}, "send", entry)
           /\ recvQueue = Joined(recvQueue, {Case(c, "send")}, "recv", other)
           /\ Push(recvQueue, c, entry)
                 = Joined(recvQueue, {Case(c, "recv")}, "recv", entry)
           /\ sendQueue = Joined(sendQueue, {Case(c, "recv")}, "send", other)
<1> USE DEF ChanTypes, Case
<1>1. \A d \in Chan : /\ Case(d, "send") \in {Case(c, "send")} <=> d = c
                      /\ Case(d, "recv") \in {Case(c, "recv")} <=> d = c
                      /\ Case(d, "recv") \notin {Case(c, "send")}
                      /\ Case(d, "send") \notin {Case(c, "recv")}
  OBVIOUS
<1> HIDE DEF Case
<1>3. /\ sendQueue = Joined(sendQueue, {Case(c, "recv")}, "send", other)
      /\ recvQueue = Joined(recvQueue, {Case(c, "send")}, "recv", other)
  BY <1>1 DEF Joined
<1>4. Push(sendQueue, c, entry) = Joined(sendQueue, {Case(c, "send")}, "send", entry)
  <2> DEFINE J == [d \in Chan |-> IF d # NilChan /\ d = c THEN Append(sendQueue[d], entry)
                                  ELSE sendQueue[d]]
  <2>1. Push(sendQueue, c, entry) = J
    BY DEF Push
  <2>2. Joined(sendQueue, {Case(c, "send")}, "send", entry) = J
    BY <1>1 DEF Joined
  <2> QED
    BY <2>1, <2>2
<1>5. Push(recvQueue, c, entry) = Joined(recvQueue, {Case(c, "recv")}, "recv", entry)
  <2> DEFINE J == [d \in Chan |-> IF d # NilChan /\ d = c THEN Append(recvQueue[d], entry)
                                  ELSE recvQueue[d]]
  <2>1. Push(recvQueue, c, entry) = J
    BY DEF Push
  <2>2. Joined(recvQueue, {Case(c, "recv")}, "recv", entry) = J
    BY <1>1 DEF Joined
  <2> QED
    BY <2>1, <2>2
<1> QED
  BY <1>3, <1>4, <1>5

-----------------------------------------------------------------------------

(* $send hands its value to the first waiting receiver.                    *)
LEMMA CoreHandOver ==
    ASSUME ChanCore, NEW c \in Chan, NEW v \in Value, recvQueue[c] # <<>>,
           HandOver(c, v), UNCHANGED frame, sends' \in 0 .. MaxSends
    PROVE  ChanCore' /\ Served(Head(recvQueue[c]).g)
<1> DEFINE e == Head(recvQueue[c])
<1>1. ChanTypes /\ WaitInv
  BY DEF ChanCore
<1>2. /\ recvQueue' = Dequeued(Shift(recvQueue, c), e)
      /\ sendQueue' = Dequeued(sendQueue, e)
      /\ Wake(e, "done")
      /\ sent' = [sent EXCEPT ![c] = Append(@, v)]
      /\ rcvd' = [rcvd EXCEPT ![c] = Append(@, v)]
      /\ UNCHANGED notWaking /\ UNCHANGED <<closed, buffer, op, offers>>
  BY DEF HandOver
<1> HIDE DEF e
<1>3. Served(e.g) /\ e \in RecvEntry /\ (e.g \in Goroutine => Sleeps(e.g))
  BY <1>1, <1>2, ServeReceiver DEF e
<1>4. sent'[c] \in Seq(Value) /\ rcvd'[c] \in Seq(Value)
  BY <1>1, <1>2, AppendProperties DEF ChanTypes
<1>5. DataTypes'
  BY <1>1, <1>2, <1>4 DEF ChanTypes, DataTypes
<1>6. e.g \in Contexts
  BY <1>3 DEF RecvEntry
<1>7. ChanCore'
  BY <1>2, <1>3, <1>5, <1>6, CoreServe
<1> QED
  BY <1>3, <1>7 DEF e

(* $recv calls the entry of the first waiting sender.                      *)
LEMMA CoreTakeFromSender ==
    ASSUME ChanCore, NEW x \in Contexts, NEW c \in Chan, sendQueue[c] # <<>>,
           NEW e, e = Head(sendQueue[c]), TakeFromSender(x, c, e, e.val),
           sends' \in 0 .. MaxSends
    PROVE  /\ ChanCore' /\ Served(e.g) /\ e \in SendEntry
           /\ Thinner(sendQueue'[c], Tail(sendQueue[c]))
<1>1. ChanTypes /\ WaitInv
  BY DEF ChanCore
<1>2. /\ sendQueue' = Dequeued(Shift(sendQueue, c), e)
      /\ recvQueue' = Dequeued(recvQueue, e)
      /\ Wake(e, "done")
      /\ sent' = [sent EXCEPT ![c] = Append(@, e.val)]
      /\ frame' = [frame EXCEPT ![x] = [op |-> "recv", ch |-> c, val |-> e.val]]
      /\ UNCHANGED notWaking /\ UNCHANGED <<closed, buffer, op, offers, rcvd>>
  BY DEF TakeFromSender
<1>3. /\ Served(e.g) /\ e \in SendEntry /\ (e.g \in Goroutine => Sleeps(e.g))
      /\ Thinner(sendQueue'[c], Tail(sendQueue[c]))
  BY <1>1, <1>2, ServeSender
<1>4. sent'[c] \in Seq(Value) /\ e.val \in Value /\ e.g \in Contexts
  BY <1>1, <1>2, <1>3, AppendProperties DEF ChanTypes, SendEntry
<1>5. [op |-> "recv", ch |-> c, val |-> e.val] \in Frame
  BY <1>4 DEF Frame
<1>6. DataTypes'
  BY <1>1, <1>2, <1>4, <1>5 DEF ChanTypes, DataTypes
<1>7. ChanCore'
  BY <1>2, <1>3, <1>4, <1>6, CoreServe
<1> QED
  BY <1>3, <1>7

(* The first loop of $close; its sender is not in a select.                *)
LEMMA CoreCloseSender ==
    ASSUME ChanCore, NEW x \in Contexts, NEW c \in Closable, sendQueue[c] # <<>>,
           NEW e, e = Head(sendQueue[c]), CloseSender(x, c, e),
           UNCHANGED <<closed, buffer, sends, sent, rcvd>>
    PROVE  /\ ChanCore' /\ Served(e.g) /\ UNCHANGED frame
           /\ Wake(e, "closed") /\ UNCHANGED notWaking /\ UNCHANGED <<op, offers>>
<1>1. ChanTypes /\ WaitInv /\ SelectInv
  BY DEF ChanCore
<1>2. ~e.select
  <2>1. sendQueue[c] \in Seq(SendEntry)
    BY <1>1 DEF ChanTypes
  <2>2. 1 \in DOMAIN sendQueue[c] /\ e = sendQueue[c][1]
    BY <2>1, TailThinner
  <2> QED
    BY <1>1, <2>2 DEF SelectInv
<1>3. /\ sendQueue' = Dequeued(Shift(sendQueue, c), e)
      /\ recvQueue' = Dequeued(recvQueue, e)
      /\ Wake(e, "closed")
      /\ UNCHANGED notWaking /\ UNCHANGED <<op, offers, frame>>
  BY <1>2 DEF CloseSender, Dequeued
<1>4. Served(e.g) /\ e \in SendEntry /\ (e.g \in Goroutine => Sleeps(e.g))
  BY <1>1, <1>3, ServeSender
<1>5. e.g \in Contexts
  BY <1>4 DEF SendEntry
<1>6. DataTypes'
  BY <1>1, <1>3 DEF ChanTypes, DataTypes
<1>7. ChanCore'
  BY <1>3, <1>4, <1>5, <1>6, CoreServe
<1> QED
  BY <1>3, <1>4, <1>7

(* The second loop of $close.                                              *)
LEMMA CoreCloseReceiver ==
    ASSUME ChanCore, NEW c \in Chan, recvQueue[c] # <<>>,
           NEW e, e = Head(recvQueue[c]), CloseReceiver(c, e),
           UNCHANGED <<closed, buffer, sends, sent, rcvd>>
    PROVE  ChanCore' /\ Served(e.g) /\ UNCHANGED frame
<1>1. ChanTypes /\ WaitInv
  BY DEF ChanCore
<1>2. /\ recvQueue' = Dequeued(Shift(recvQueue, c), e)
      /\ sendQueue' = Dequeued(sendQueue, e)
      /\ Wake(e, "done")
      /\ UNCHANGED notWaking /\ UNCHANGED <<op, offers, frame>>
  BY DEF CloseReceiver
<1>3. Served(e.g) /\ e \in RecvEntry /\ (e.g \in Goroutine => Sleeps(e.g))
  BY <1>1, <1>2, ServeReceiver
<1>4. e.g \in Contexts
  BY <1>3 DEF RecvEntry
<1>5. DataTypes'
  BY <1>1, <1>2 DEF ChanTypes, DataTypes
<1>6. ChanCore'
  BY <1>2, <1>3, <1>4, <1>5, CoreServe
<1> QED
  BY <1>2, <1>3, <1>6

(* $send puts its value into the buffer.                                   *)
LEMMA CoreFill ==
    ASSUME ChanCore, NEW c \in Chan, NEW v \in Value, Fill(c, v), UNCHANGED frame,
           sends' \in 0 .. MaxSends
    PROVE  ChanCore'
<1>1. ChanTypes /\ SelectInv
  BY DEF ChanCore
<1>2. /\ buffer' = [buffer EXCEPT ![c] = Append(@, v)]
      /\ sent' = [sent EXCEPT ![c] = Append(@, v)]
      /\ UNCHANGED <<vars, closed, sendQueue, recvQueue, parked, rcvd>>
  BY DEF Fill
<1>3. sent'[c] \in Seq(Value) /\ buffer'[c] \in Seq(Value)
  BY <1>1, <1>2, AppendProperties DEF ChanTypes
<1>4. DataTypes'
  BY <1>1, <1>2, <1>3 DEF ChanTypes, DataTypes
<1> QED
  BY <1>1, <1>2, <1>4, CoreKeep DEF SelectInv

(* $send queues its entry and parks.                                       *)
LEMMA CoreWaitToSend ==
    ASSUME ChanCore, NEW x \in Contexts, NEW c \in Chan, NEW v \in Value,
           curGoroutine = x, WaitToSend(x, c, v), UNCHANGED frame,
           sends' \in 0 .. MaxSends
    PROVE  ChanCore'
<1> DEFINE se    == [g |-> x, val |-> v, select |-> FALSE]
           re    == [g |-> x, select |-> FALSE]
           cases == {Case(c, "send")}
<1>1. ChanTypes
  BY DEF ChanCore
<1>2. /\ sendQueue' = Push(sendQueue, c, se) /\ Block(x, "send", cases)
      /\ UNCHANGED <<closed, buffer, recvQueue, history>>
  BY DEF WaitToSend
<1>3. /\ sendQueue' = Joined(sendQueue, cases, "send", se)
      /\ recvQueue' = Joined(recvQueue, cases, "recv", re)
  BY <1>1, <1>2, PushJoins
<1>4. DataTypes'
  BY <1>1, <1>2 DEF ChanTypes, DataTypes
<1>5. se \in SendEntry /\ re \in RecvEntry /\ Case(c, "send") \in CaseSet
  BY DEF SendEntry, RecvEntry, CaseSet, Case
<1>6. /\ se.g = x /\ re.g = x /\ ~se.select /\ ~re.select
      /\ \E case \in CaseSet : cases = {case}
  BY <1>5
<1> HIDE DEF se, re, cases
<1>7. cases \in SUBSET CaseSet
  BY <1>5 DEF cases
<1> QED
  <2>1. Block(x, "send", cases) /\ UNCHANGED closed
    BY <1>2 DEF cases
  <2> QED
    BY <1>3, <1>4, <1>5, <1>6, <1>7, <2>1, CoreBlock

(* The second half of $recv.                                               *)
LEMMA CoreTakeFrom ==
    ASSUME ChanCore, NEW x \in Contexts, NEW c \in Chan, NEW buf \in Seq(Value),
           curGoroutine = x, TakeFrom(x, c, buf), sends' \in 0 .. MaxSends
    PROVE  ChanCore'
<1>1. ChanTypes /\ SelectInv
  BY DEF ChanCore
<1>2. /\ frame' = [frame EXCEPT ![x] = NoFrame]
      /\ buffer' = [buffer EXCEPT ![c] = IF buf = <<>> THEN buf ELSE Tail(buf)]
      /\ UNCHANGED <<closed, sent>>
  BY DEF TakeFrom
<1>3. buf # <<>> => Tail(buf) \in Seq(Value) /\ Head(buf) \in Value
  BY HeadTailProperties
<1>4. /\ frame' \in [Contexts -> Frame] /\ buffer' \in [Chan -> Seq(Value)]
      /\ UNCHANGED <<closed, sent>>
  BY <1>1, <1>2, <1>3 DEF ChanTypes, Frame
<1>5. CASE buf # <<>> /\ rcvd' = [rcvd EXCEPT ![c] = Append(@, Head(buf))]
           /\ UNCHANGED <<vars, sendQueue, recvQueue, parked>>
  <2>1. rcvd'[c] \in Seq(Value)
    BY <1>1, <1>3, <1>5, AppendProperties DEF ChanTypes
  <2>2. DataTypes'
    BY <1>1, <1>4, <1>5, <2>1 DEF ChanTypes, DataTypes
  <2> QED
    BY <1>1, <1>4, <1>5, <2>2, CoreKeep DEF SelectInv
<1>6. CASE UNCHANGED <<vars, sendQueue, recvQueue, parked, rcvd>>
  <2>1. DataTypes'
    BY <1>1, <1>4, <1>6 DEF ChanTypes, DataTypes
  <2> QED
    BY <1>1, <1>4, <1>6, <2>1, CoreKeep DEF SelectInv
<1>7. CASE /\ recvQueue' = Push(recvQueue, c, [g |-> x, select |-> FALSE])
           /\ Block(x, "recv", {Case(c, "recv")})
           /\ UNCHANGED <<sendQueue, history>>
  <2> DEFINE re    == [g |-> x, select |-> FALSE]
             se    == [g |-> x, val |-> 1, select |-> FALSE]
             cases == {Case(c, "recv")}
  <2>1. /\ sendQueue' = Joined(sendQueue, cases, "send", se)
        /\ recvQueue' = Joined(recvQueue, cases, "recv", re)
    BY <1>1, <1>7, PushJoins
  <2>2. DataTypes'
    BY <1>1, <1>4, <1>7 DEF ChanTypes, DataTypes
  <2>3. 1 \in Value
    BY DEF Value
  <2>4. se \in SendEntry /\ re \in RecvEntry /\ Case(c, "recv") \in CaseSet
    BY <2>3 DEF SendEntry, RecvEntry, CaseSet, Case
  <2>5. /\ se.g = x /\ re.g = x /\ ~se.select /\ ~re.select
        /\ \E case \in CaseSet : cases = {case}
    BY <2>4
  <2>6. Block(x, "recv", cases)
    BY <1>7
  <2> HIDE DEF se, re, cases
  <2>7. cases \in SUBSET CaseSet
    BY <2>4 DEF cases
  <2> QED
    BY <1>2, <2>1, <2>2, <2>4, <2>5, <2>6, <2>7, CoreBlock
<1> QED
  BY <1>2, <1>5, <1>6, <1>7 DEF TakeFrom

(* $close sets the flag.                                                   *)
LEMMA CoreClose ==
    ASSUME ChanCore, NEW x \in Contexts, NEW c \in Chan, Close(x, c)
    PROVE  ChanCore'
<1>1. ChanTypes /\ SelectInv
  BY DEF ChanCore
<1>2. /\ closed' = [closed EXCEPT ![c] = TRUE] /\ c \in Closable
      /\ frame' = [frame EXCEPT ![x] = [op |-> "close", ch |-> c]]
      /\ UNCHANGED <<vars, buffer, sendQueue, recvQueue, parked, sends, history>>
  BY DEF Close
<1>3. [op |-> "close", ch |-> c] \in Frame
  BY <1>2 DEF Frame
<1>4. DataTypes'
  BY <1>1, <1>2, <1>3 DEF ChanTypes, DataTypes
<1> QED
  BY <1>1, <1>2, <1>4, CoreKeep DEF SelectInv, ChanTypes

(* $close has told everyone.                                               *)
LEMMA CoreCloseDone ==
    ASSUME ChanCore, NEW x \in Contexts, CloseDone(x),
           UNCHANGED <<closed, buffer, sends, sent, rcvd>>
    PROVE  ChanCore'
<1>1. ChanTypes /\ SelectInv
  BY DEF ChanCore
<1>2. frame' = [frame EXCEPT ![x] = NoFrame] /\ UNCHANGED <<vars, sendQueue, recvQueue, parked>>
  BY DEF CloseDone
<1>3. DataTypes'
  BY <1>1, <1>2 DEF ChanTypes, DataTypes, Frame
<1> QED
  BY <1>1, <1>2, <1>3, CoreKeep DEF SelectInv

(* A select with nothing ready.                                            *)
SelectWaits(g, cases, v) ==
    /\ sendQueue' = Offered(sendQueue, "send", cases,
                            [g |-> g, val |-> v, select |-> TRUE])
    /\ recvQueue' = Offered(recvQueue, "recv", cases, [g |-> g, select |-> TRUE])
    /\ Block(g, "select", {cases[i] : i \in DOMAIN cases})
    /\ UNCHANGED <<closed, buffer, frame, history>>

(* A select with nothing ready queues an entry per case and parks.         *)
LEMMA CoreSelect ==
    ASSUME ChanCore, SelectSafe, NEW g \in Goroutine, NEW cases \in SelectCases,
           NEW v \in Value, curGoroutine = g, SelectWaits(g, cases, v),
           sends' \in 0 .. MaxSends
    PROVE  ChanCore'
<1> DEFINE se  == [g |-> g, val |-> v, select |-> TRUE]
           re  == [g |-> g, select |-> TRUE]
           all == {cases[i] : i \in DOMAIN cases}
<1>1. ChanTypes
  BY DEF ChanCore
<1>2. \A i \in DOMAIN cases : cases[i] \in CaseSet
  BY DEF CaseSet
<1>3. /\ sendQueue' = Joined(sendQueue, all, "send", se)
      /\ recvQueue' = Joined(recvQueue, all, "recv", re)
  BY DEF SelectWaits, Offered, Joined
<1>4. \A c \in Closable : Case(c, "send") \notin all
  BY DEF SelectSafe, Case
<1>5. DataTypes' /\ UNCHANGED closed
  BY <1>1 DEF ChanTypes, DataTypes, SelectWaits
<1>6. g \in Contexts /\ g # NoGoroutine
  BY DEF Contexts
<1>7. se \in SendEntry /\ re \in RecvEntry
  BY <1>6 DEF SendEntry, RecvEntry
<1>8. se.g = g /\ re.g = g /\ se.select /\ re.select
  OBVIOUS
<1>9. Block(g, "select", all) /\ all \in SUBSET CaseSet
  BY <1>2 DEF SelectWaits
<1> HIDE DEF se, re, all
<1> QED
  BY <1>3, <1>4, <1>5, <1>6, <1>7, <1>8, <1>9, CoreBlock

(* A woken goroutine goes on.                                              *)
LEMMA CoreResume ==
    ASSUME ChanCore, NEW g \in Goroutine, Resume(g)
    PROVE  ChanCore'
<1>1. SchedInv /\ ChanTypes /\ WaitInv /\ SelectInv
  BY DEF ChanCore
<1>2. /\ op' = [op EXCEPT ![g] = "none"] /\ offers' = [offers EXCEPT ![g] = {}]
      /\ slot' = [slot EXCEPT ![g] = "empty"]
      /\ UNCHANGED <<vars, queues, frame, sends, history>>
  BY DEF Resume
<1>3. SchedInv'
  BY <1>1, <1>2 DEF SchedInv, SchedTypes, RunOrder, NoLostRun, Queued, vars
<1>4. WaitInv'
  BY <1>1, WaitResume
<1>5. ChanTypes' /\ SelectInv'
  BY <1>1, <1>2 DEF ChanTypes, SelectInv
<1> QED
  BY <1>3, <1>4, <1>5 DEF ChanCore

(* The scheduler around them.                                              *)
LEMMA OtherKeeps ==
    ASSUME RunGoroutine \/ RunNoGoroutine \/ Between
    PROVE  /\ UNCHANGED <<queues, parked, sends, history>>
           /\ \/ frame' = frame
              \/ frame' = [frame EXCEPT ![NoGoroutine] = NoFrame]
BY DEF RunGoroutine, RunNoGoroutine, Between, EndCallback, chanVars

(* What an exception ends is a $close of the callback, or none.            *)
LEMMA OtherTears ==
    ASSUME RunGoroutine \/ RunNoGoroutine \/ Between
    PROVE  \/ frame' = frame /\ torn' = torn
           \/ /\ frame' = [frame EXCEPT ![NoGoroutine] = NoFrame]
              /\ torn' = torn \cup (IF frame[NoGoroutine].op = "close"
                                    THEN {frame[NoGoroutine].ch} ELSE {})
BY DEF RunGoroutine, RunNoGoroutine, Between, EndCallback, chanVars

(* The scheduler keeps the invariant of the channels.                      *)
LEMMA CoreOther ==
    ASSUME ChanCore, RunGoroutine \/ RunNoGoroutine \/ Between
    PROVE  ChanCore'
<1>1. SchedInv /\ ChanTypes /\ WaitInv /\ SelectInv
  BY DEF ChanCore
<1>2. SchedInv' /\ \A g \in Goroutine : Sleeps(g)' <=> Sleeps(g)
  BY <1>1, OtherSched
<1>3. /\ UNCHANGED <<queues, parked, sends, history>>
      /\ frame' = frame \/ frame' = [frame EXCEPT ![NoGoroutine] = NoFrame]
  BY OtherKeeps
<1>4. WaitInv'
  BY <1>1, <1>2, <1>3, WaitSame
<1>5. ChanTypes' /\ SelectInv'
  BY <1>1, <1>3 DEF ChanTypes, SelectInv, Frame
<1> QED
  BY <1>2, <1>4, <1>5 DEF ChanCore

(* The first sender that waits on a closed channel is not in a select.     *)
LEMMA HeadPlain ==
    ASSUME ChanCore, NEW c \in Chan, sendQueue[c] # <<>>, closed[c]
    PROVE  ~Head(sendQueue[c]).select
<1>1. sendQueue[c] \in Seq(SendEntry)
  BY DEF ChanCore, ChanTypes
<1>2. 1 \in DOMAIN sendQueue[c] /\ Head(sendQueue[c]) = sendQueue[c][1]
  BY <1>1, TailThinner
<1> QED
  BY <1>2 DEF ChanCore, SelectInv

(* $send keeps the invariant of the channels.                              *)
LEMMA CoreSendOn ==
    ASSUME ChanCore, NEW x \in Contexts, NEW c \in Chan, NEW v \in Value,
           curGoroutine = x, SendOn(x, c, v), sends' \in 0 .. MaxSends
    PROVE  ChanCore'
<1>1. CASE SendPanics(c)
  <2>1. UNCHANGED <<vars, queues, parked, history, frame>>
    BY <1>1 DEF SendPanics, SendOn
  <2>2. DataTypes'
    BY <2>1 DEF ChanCore, ChanTypes, DataTypes
  <2> QED
    BY <2>1, <2>2, CoreKeep DEF ChanCore, SelectInv
<1>2. CASE recvQueue[c] # <<>> /\ HandOver(c, v)
  BY <1>2, CoreHandOver DEF SendOn
<1>3. CASE Fill(c, v)
  BY <1>3, CoreFill DEF SendOn
<1>4. CASE WaitToSend(x, c, v)
  BY <1>4, CoreWaitToSend DEF SendOn
<1> QED
  BY <1>1, <1>2, <1>3, <1>4 DEF SendOn

(* $recv keeps the invariant of the channels.                              *)
LEMMA CoreRecvOn ==
    ASSUME ChanCore, NEW x \in Contexts, NEW c \in Chan,
           curGoroutine = x, RecvOn(x, c), sends' \in 0 .. MaxSends
    PROVE  ChanCore'
<1>1. CASE sendQueue[c] # <<>>
  <2> DEFINE e == Head(sendQueue[c])
  <2>1. ~(e.select /\ closed[c])
    BY <1>1, HeadPlain
  <2>2. TakeFromSender(x, c, e, e.val)
    BY <1>1, <2>1 DEF RecvOn
  <2> QED
    BY <1>1, <2>2, CoreTakeFromSender
<1>2. CASE sendQueue[c] = <<>>
  <2>1. TakeFrom(x, c, buffer[c])
    BY <1>2 DEF RecvOn
  <2>2. buffer[c] \in Seq(Value)
    BY DEF ChanCore, ChanTypes
  <2> QED
    BY <2>1, <2>2, CoreTakeFrom
<1> QED
  BY <1>1, <1>2

(* What an operation is about: its context runs, and frames name channels. *)
LEMMA FrameTyped ==
    ASSUME ChanCore, NEW x \in Contexts
    PROVE  /\ frame[x].op = "recv" => frame[x].ch \in Chan /\ frame[x].val \in Value
           /\ frame[x].op = "close" => frame[x].ch \in Closable
           /\ frame[x] = NoFrame => frame[x].op = "none"
BY DEF ChanCore, ChanTypes, Frame, NoFrame

(* Every operation of a goroutine or of a callback keeps it.               *)
LEMMA CoreOperation ==
    ASSUME ChanCore, NEW x \in Contexts, Operation(x)
    PROVE  ChanCore'
<1>1. ChanTypes
  BY DEF ChanCore
<1>2. ASSUME NEW c \in Chan, Send(x, c) PROVE ChanCore'
  <2>1. /\ curGoroutine = x /\ SendOn(x, c, sends + 1) /\ sends + 1 \in Value
        /\ sends' \in 0 .. MaxSends
    BY <1>1, <1>2 DEF Send, Free, ChanTypes, Value
  <2> QED
    BY <2>1, CoreSendOn
<1>3. ASSUME NEW c \in Chan, Recv(x, c) PROVE ChanCore'
  <2>1. curGoroutine = x /\ RecvOn(x, c) /\ sends' \in 0 .. MaxSends
    BY <1>1, <1>3 DEF Recv, Free, ChanTypes
  <2> QED
    BY <2>1, CoreRecvOn
<1>4. ASSUME NEW c \in Chan, Close(x, c) PROVE ChanCore'
  BY <1>4, CoreClose
<1>5. CASE RecvFinish(x)
  <2> DEFINE c == frame[x].ch
             buf == Append(buffer[c], frame[x].val)
  <2>1. c \in Chan /\ frame[x].val \in Value
    BY <1>5, FrameTyped DEF RecvFinish
  <2>2. buf \in Seq(Value)
    BY <1>1, <2>1, AppendProperties DEF ChanTypes
  <2>3. curGoroutine = x /\ TakeFrom(x, c, buf) /\ sends' \in 0 .. MaxSends
    BY <1>1, <1>5 DEF RecvFinish, ChanTypes
  <2> HIDE DEF c, buf
  <2> QED
    BY <2>1, <2>2, <2>3, CoreTakeFrom
<1>6. CASE CloseStep(x)
  <2> DEFINE c == frame[x].ch
  <2>1. c \in Closable /\ UNCHANGED <<closed, buffer, sends, sent, rcvd>>
    BY <1>6, FrameTyped DEF CloseStep
  <2>2. CASE sendQueue[c] # <<>> /\ CloseSender(x, c, Head(sendQueue[c]))
    BY <2>1, <2>2, CoreCloseSender
  <2>3. CASE recvQueue[c] # <<>> /\ CloseReceiver(c, Head(recvQueue[c]))
    BY <2>1, <2>3, CoreCloseReceiver
  <2>4. CASE CloseDone(x)
    BY <2>1, <2>4, CoreCloseDone
  <2> QED
    BY <1>6, <2>2, <2>3, <2>4 DEF CloseStep
<1> QED
  BY <1>2, <1>3, <1>4, <1>5, <1>6 DEF Operation

(* Every step keeps it.                                                    *)
LEMMA CoreStep ==
    ASSUME ChanCore, SelectSafe, ChanNext
    PROVE  ChanCore'
<1>1. ASSUME NEW g \in Goroutine, NEW cases \in SelectCases, Select(g, cases)
      PROVE  ChanCore'
  <2> DEFINE all     == {cases[i] : i \in DOMAIN cases}
             sending == {case \in all : case.dir = "send"}
             ready   == {case \in all : ReadyCase(case)}
             v       == sends + 1
  <2>1. /\ Free(g)
        /\ sending # {} => v <= MaxSends
        /\ sends' = IF sending = {} THEN sends ELSE v
        /\ \/ \E case \in ready : IF case.dir = "recv" THEN RecvOn(g, case.ch)
                                                     ELSE SendOn(g, case.ch, v)
           \/ SelectWaits(g, cases, v)
    BY <1>1, Zenon DEF Select, SelectWaits
  <2>2. curGoroutine = g /\ g \in Contexts /\ sends \in 0 .. MaxSends
    BY <2>1 DEF Free, Contexts, ChanCore, ChanTypes
  <2>3. sends' \in 0 .. MaxSends
    BY <2>1, <2>2
  <2>4. \A case \in all : case \in [ch : Chan, dir : {"send", "recv"}]
    OBVIOUS
  <2> HIDE DEF all, v
  <2>5. ASSUME NEW case \in all, case.dir = "recv", RecvOn(g, case.ch)
        PROVE  ChanCore'
    BY <2>2, <2>3, <2>4, <2>5, CoreRecvOn
  <2>6. ASSUME NEW case \in all, case.dir = "send", SendOn(g, case.ch, v)
        PROVE  ChanCore'
    <3>1. v \in Value
      BY <2>1, <2>2, <2>6 DEF v, Value
    <3> QED
      BY <2>2, <2>3, <2>4, <2>6, <3>1, CoreSendOn
  <2>7. CASE SelectWaits(g, cases, v)
    <3>1. CASE sending # {}
      <4>1. v \in Value
        BY <2>1, <2>2, <3>1 DEF v, Value
      <4> QED
        BY <2>2, <2>3, <2>7, <4>1, CoreSelect
    <3>2. CASE sending = {}
      <4>1. \A c \in Chan, i \in DOMAIN cases : cases[i] # Case(c, "send")
        BY <3>2 DEF Case, all
      <4>2. Offered(sendQueue, "send", cases, [g |-> g, val |-> v, select |-> TRUE])
              = Offered(sendQueue, "send", cases, [g |-> g, val |-> 1, select |-> TRUE])
        BY <4>1 DEF Offered
      <4>3. SelectWaits(g, cases, 1) /\ 1 \in Value
        BY <2>7, <4>2 DEF SelectWaits, Value
      <4> QED
        BY <2>2, <2>3, <4>3, CoreSelect
    <3> QED
      BY <3>1, <3>2
  <2> QED
    BY <2>1, <2>4, <2>5, <2>6, <2>7
<1> QED
  BY <1>1, CoreOther, CoreOperation, CoreResume DEF ChanNext

(* It holds before the program starts.                                     *)
LEMMA CoreInit == ChanInit => ChanCore
<1> SUFFICES ASSUME ChanInit PROVE ChanCore
  OBVIOUS
<1>1. SchedInv
  <2>1. Init /\ scheduled = <<Main>> /\ Main \in Contexts /\ Main # NoGoroutine
    BY DEF ChanInit, Init, Contexts
  <2>2. /\ scheduled \in Seq(Contexts) /\ DOMAIN scheduled = {1} /\ Queued = {Main}
    BY <2>1 DEF Queued
  <2>3. SchedTypes
    BY <2>1, <2>2 DEF Init, SchedTypes, Contexts
  <2>4. OnceEach(scheduled)
    BY <2>2 DEF OnceEach
  <2>5. RunOrder
    BY <2>1, <2>2, <2>4 DEF Init, RunOrder
  <2> QED
    BY <2>1, <2>3, <2>5 DEF Init, SchedInv, NoLostRun
<1>2. ChanTypes
  BY DEF ChanInit, ChanTypes, Frame
<1>3. WaitInv
  <2>1. /\ \A c \in Chan : sendQueue[c] = <<>> /\ recvQueue[c] = <<>>
        /\ \A g \in Goroutine : op[g] = "none" /\ ~Sleeps(g)
    BY DEF ChanInit, Init, Sleeps
  <2>2. \A g \in Goroutine : ~Waiting(g)
    BY <2>1 DEF Waiting
  <2>3. DOMAIN <<>> = {}
    OBVIOUS
  <2>4. \A c \in Chan : /\ OneEach(sendQueue[c]) /\ OneEach(recvQueue[c])
                         /\ Marked(sendQueue[c]) /\ Marked(recvQueue[c])
                         /\ \A g \in Goroutine : ~In(sendQueue[c], g) /\ ~In(recvQueue[c], g)
    BY <2>1, <2>3 DEF OneEach, Marked, In
  <2> QED
    BY <2>1, <2>2, <2>4 DEF WaitInv, Awaits
<1>4. SelectInv
  BY DEF ChanInit, SelectInv
<1> QED
  BY <1>1, <1>2, <1>3, <1>4 DEF ChanCore

(* Queues, parked goroutines and the run queue agree after every step of   *)
(* $send, $recv, $close, $select and the scheduler, whatever the program   *)
(* does but to close a channel on which a select may send.                 *)
THEOREM ChannelsCore ==
    ASSUME SelectSafe
    PROVE  ChanSpec => []ChanCore
<1>1. ChanCore /\ UNCHANGED allVars => ChanCore'
  <2> SUFFICES ASSUME ChanCore, UNCHANGED allVars PROVE ChanCore'
    OBVIOUS
  <2>1. UNCHANGED <<vars, queues, parked, frame, sends, history>>
    BY DEF allVars, chanVars
  <2>2. DataTypes'
    BY <2>1 DEF ChanCore, ChanTypes, DataTypes
  <2> QED
    BY <2>1, <2>2, CoreKeep DEF ChanCore, SelectInv
<1>2. ChanCore /\ [ChanNext]_allVars => ChanCore'
  BY <1>1, CoreStep
<1> QED
  BY <1>2, CoreInit, PTL DEF ChanSpec

-----------------------------------------------------------------------------
(* Who waits is queued, once, and nobody else is.                          *)

(* In a queue without double entries, counting is looking.                 *)
LEMMA EntriesCount ==
    ASSUME NEW q, NEW g, g # NoGoroutine, OneEach(q)
    PROVE  Entries(q, g) = IF In(q, g) THEN 1 ELSE 0
<1> DEFINE S == {i \in DOMAIN q : q[i].g = g}
<1>1. CASE In(q, g)
  <2>1. PICK k \in DOMAIN q : q[k].g = g
    BY <1>1 DEF In
  <2>2. S = {k}
    BY <2>1 DEF OneEach
  <2> QED
    BY <1>1, <2>2, FS_Singleton DEF Entries
<1>2. CASE ~In(q, g)
  <2>1. S = {}
    BY <1>2 DEF In
  <2> QED
    BY <1>2, <2>1, FS_EmptySet DEF Entries
<1> QED
  BY <1>1, <1>2

(* A parked goroutine has one entry in the queue of each case it waits on  *)
(* and no other goroutine has any ($send, $recv, $select,                  *)
(* removeFromQueues), whatever the program does but to close a channel on  *)
(* which a select may send.                                                *)
THEOREM WaitersAreQueued ==
    ASSUME SelectSafe
    PROVE  ChanSpec => []WaitersQueued
<1>1. ASSUME ChanCore PROVE WaitersQueued
  <2>1. SchedInv /\ WaitInv
    BY <1>1 DEF ChanCore
  <2>2. ASSUME NEW g \in live
        PROVE  /\ Waiting(g) <=> asleep[g]
               /\ \A c \in Chan : QueuedOnce(g, sendQueue, c, "send")
                                  /\ QueuedOnce(g, recvQueue, c, "recv")
    <3>1. g \in Goroutine /\ g # NoGoroutine /\ asleep[g] \in BOOLEAN
      BY <2>1 DEF SchedInv, SchedTypes
    <3>2. Waiting(g) <=> asleep[g]
      BY <2>1, <2>2, <3>1 DEF WaitInv, Sleeps
    <3>3. ASSUME NEW c \in Chan
          PROVE  QueuedOnce(g, sendQueue, c, "send") /\ QueuedOnce(g, recvQueue, c, "recv")
      <4>1. /\ OneEach(sendQueue[c]) /\ OneEach(recvQueue[c])
            /\ In(sendQueue[c], g) <=> Awaits(g, c, "send")
            /\ In(recvQueue[c], g) <=> Awaits(g, c, "recv")
        BY <2>1, <3>1 DEF WaitInv
      <4>2. /\ Entries(sendQueue[c], g) = IF In(sendQueue[c], g) THEN 1 ELSE 0
            /\ Entries(recvQueue[c], g) = IF In(recvQueue[c], g) THEN 1 ELSE 0
        BY <3>1, <4>1, EntriesCount
      <4> QED
        BY <4>1, <4>2 DEF QueuedOnce, Awaits
    <3> QED
      BY <3>2, <3>3
  <2> QED
    BY <2>2 DEF WaitersQueued
<1> QED
  BY <1>1, ChannelsCore, PTL

-----------------------------------------------------------------------------
(* What goes through a channel: the queues against the buffer, and the     *)
(* order of the values.  Values are named by their sends.                  *)

(* Senders wait only on a full channel, receivers only on an empty one,    *)
(* and both only when they are one select.                                 *)
Matched(sq, rq, buf, capacity) ==
    /\ sq # <<>> => Len(buf) = capacity
    /\ Len(buf) <= capacity
    /\ rq # <<>> => buf = <<>>
    /\ \A i \in DOMAIN sq, j \in DOMAIN rq : sq[i].g = rq[j].g /\ rq[j].select

(* The values accepted, then those of the waiting senders, are in the      *)
(* order of their sends.                                                   *)
Ordered(q, s, n) ==
    /\ \A i, j \in DOMAIN s : i < j => s[i] < s[j]
    /\ \A i, j \in DOMAIN q : i < j => q[i].val < q[j].val
    /\ \A i \in DOMAIN s : s[i] <= n
    /\ \A i \in DOMAIN q : q[i].val <= n
    /\ \A i \in DOMAIN s, j \in DOMAIN q : s[i] < q[j].val

(* The invariant of the values.                                            *)
FlowInv ==
    \A c \in Chan : /\ Matched(sendQueue[c], recvQueue[c], buffer[c], Capacity[c])
                    /\ Ordered(sendQueue[c], sent[c], sends)

(* A sequence without places is empty.                                     *)
LEMMA EmptyDomain ==
    ASSUME NEW S, NEW p \in Seq(S), DOMAIN p = {}
    PROVE  p = <<>>
<1>1. DOMAIN p = 1 .. Len(p) /\ Len(p) \in Nat
  OBVIOUS
<1>2. Len(p) = 0
  BY <1>1
<1> QED
  BY <1>2, EmptySeq

(* Nothing is thinner than the empty queue but itself.                     *)
LEMMA ThinnerEmpty ==
    ASSUME NEW S, NEW p \in Seq(S), Thinner(p, <<>>)
    PROVE  p = <<>>
<1>1. DOMAIN <<>> = {}
  OBVIOUS
<1>2. DOMAIN p = {}
  BY <1>1 DEF Thinner
<1> QED
  BY <1>2, EmptyDomain

(* Waiters that leave keep the queues matched.                             *)
LEMMA MatchedThin ==
    ASSUME NEW S, NEW R, NEW sq \in Seq(S), NEW rq \in Seq(R), NEW buf, NEW capacity,
           NEW p \in Seq(S), NEW r \in Seq(R), Thinner(p, sq), Thinner(r, rq),
           Matched(sq, rq, buf, capacity)
    PROVE  Matched(p, r, buf, capacity)
<1>1. (p # <<>> => sq # <<>>) /\ (r # <<>> => rq # <<>>)
  BY ThinnerEmpty
<1>2. ASSUME NEW i \in DOMAIN p, NEW j \in DOMAIN r
      PROVE  p[i].g = r[j].g /\ r[j].select
  <2>1. PICK k \in DOMAIN sq : p[i] = sq[k]
    BY DEF Thinner
  <2>2. PICK l \in DOMAIN rq : r[j] = rq[l]
    BY DEF Thinner
  <2> QED
    BY <2>1, <2>2 DEF Matched
<1> QED
  BY <1>1, <1>2 DEF Matched

(* Values are numbers.                                                     *)
LEMMA EntryValues ==
    ASSUME NEW q \in Seq(SendEntry), NEW s \in Seq(Value)
    PROVE  /\ \A i \in DOMAIN q : q[i].val \in Nat
           /\ \A i \in DOMAIN s : s[i] \in Nat
<1>1. \A i \in DOMAIN q : q[i] \in SendEntry
  OBVIOUS
<1>2. \A i \in DOMAIN s : s[i] \in Value
  OBVIOUS
<1>3. Value \subseteq Nat
  BY DEF Value
<1>4. \A i \in DOMAIN q : q[i].val \in Value
  BY <1>1 DEF SendEntry
<1> QED
  BY <1>2, <1>3, <1>4

(* Waiters that leave keep the values ordered.                             *)
LEMMA OrderedThin ==
    ASSUME NEW q \in Seq(SendEntry), NEW s \in Seq(Value), NEW n \in Nat, NEW m \in Nat,
           n <= m, NEW p \in Seq(SendEntry), Thinner(p, q), Ordered(q, s, n)
    PROVE  Ordered(p, s, m)
<1>1. PICK f \in [DOMAIN p -> DOMAIN q] :
         /\ \A i \in DOMAIN p : p[i] = q[f[i]]
         /\ \A i, j \in DOMAIN p : i < j => f[i] < f[j]
  BY DEF Thinner
<1>2. /\ \A i \in DOMAIN q : q[i].val \in Nat
      /\ \A i \in DOMAIN s : s[i] \in Nat
  BY EntryValues
<1>3. \A i, j \in DOMAIN p : i < j => p[i].val < p[j].val
  BY <1>1 DEF Ordered
<1>4. \A i \in DOMAIN p : p[i].val <= m
  BY <1>1, <1>2 DEF Ordered
<1>5. \A i \in DOMAIN s : s[i] <= m
  BY <1>2 DEF Ordered
<1>6. \A i \in DOMAIN s, j \in DOMAIN p : s[i] < p[j].val
  BY <1>1 DEF Ordered
<1> QED
  BY <1>3, <1>4, <1>5, <1>6 DEF Ordered

(* A value goes in when no sender waits.                                   *)
LEMMA OrderedSend ==
    ASSUME NEW s \in Seq(Value), NEW n \in Nat, NEW v \in Value, v = n + 1,
           Ordered(<<>>, s, n)
    PROVE  Ordered(<<>>, Append(s, v), v)
<1>1. /\ DOMAIN s = 1 .. Len(s) /\ Len(s) \in Nat
      /\ DOMAIN Append(s, v) = 1 .. (Len(s) + 1)
      /\ \A i \in 1 .. Len(s) : Append(s, v)[i] = s[i]
      /\ Append(s, v)[Len(s) + 1] = v
  BY AppendProperties
<1>2. \A i \in DOMAIN s : s[i] \in Nat /\ s[i] <= n
  BY DEF Value, Ordered
<1>3. DOMAIN <<>> = {}
  OBVIOUS
<1>4. v \in Nat
  BY DEF Value
<1>5. \A i \in DOMAIN Append(s, v) : Append(s, v)[i] <= v
  BY <1>1, <1>2, <1>4
<1>6. \A i, j \in DOMAIN Append(s, v) : i < j => Append(s, v)[i] < Append(s, v)[j]
  BY <1>1, <1>2, <1>4 DEF Ordered
<1> QED
  BY <1>3, <1>5, <1>6 DEF Ordered

(* A sender waits.                                                         *)
LEMMA OrderedWait ==
    ASSUME NEW q \in Seq(SendEntry), NEW s \in Seq(Value), NEW n \in Nat,
           NEW e \in SendEntry, e.val = n + 1, Ordered(q, s, n)
    PROVE  Ordered(Append(q, e), s, n + 1)
<1>1. /\ DOMAIN q = 1 .. Len(q) /\ Len(q) \in Nat
      /\ DOMAIN Append(q, e) = 1 .. (Len(q) + 1)
      /\ \A i \in 1 .. Len(q) : Append(q, e)[i] = q[i]
      /\ Append(q, e)[Len(q) + 1] = e
  BY AppendProperties
<1>2. /\ \A i \in DOMAIN q : q[i].val \in Nat /\ q[i].val <= n
      /\ \A i \in DOMAIN s : s[i] \in Nat /\ s[i] <= n
  BY EntryValues DEF Ordered
<1>3. \A i \in DOMAIN s : s[i] <= n + 1
  BY <1>2
<1>4. \A i \in DOMAIN Append(q, e) : Append(q, e)[i].val <= n + 1
  BY <1>1, <1>2
<1>5. \A i, j \in DOMAIN Append(q, e) : i < j => Append(q, e)[i].val < Append(q, e)[j].val
  <2>1. ASSUME NEW i \in DOMAIN Append(q, e), NEW j \in DOMAIN Append(q, e), i < j
        PROVE  Append(q, e)[i].val < Append(q, e)[j].val
    <3>1. i \in DOMAIN q
      BY <1>1, <2>1
    <3>2. CASE j \in DOMAIN q
      BY <1>1, <2>1, <3>1, <3>2 DEF Ordered
    <3>3. CASE j = Len(q) + 1
      BY <1>1, <1>2, <3>1, <3>3
    <3> QED
      BY <1>1, <3>2, <3>3
  <2> QED
    BY <2>1
<1>6. \A i \in DOMAIN s, j \in DOMAIN Append(q, e) : s[i] < Append(q, e)[j].val
  <2>1. ASSUME NEW i \in DOMAIN s, NEW j \in DOMAIN Append(q, e)
        PROVE  s[i] < Append(q, e)[j].val
    <3>1. CASE j \in DOMAIN q
      BY <1>1, <3>1 DEF Ordered
    <3>2. CASE j = Len(q) + 1
      BY <1>1, <1>2, <3>2
    <3> QED
      BY <1>1, <3>1, <3>2
  <2> QED
    BY <2>1
<1> QED
  BY <1>3, <1>4, <1>5, <1>6 DEF Ordered

(* The first waiting sender is served.                                     *)
LEMMA OrderedTake ==
    ASSUME NEW q \in Seq(SendEntry), NEW s \in Seq(Value), NEW n \in Nat, q # <<>>,
           Ordered(q, s, n)
    PROVE  Ordered(Tail(q), Append(s, Head(q).val), n)
<1> DEFINE v == Head(q).val
           t == Tail(q)
           a == Append(s, v)
<1>1. /\ t \in Seq(SendEntry)
      /\ Head(q) \in SendEntry /\ Head(q) = q[1] /\ 1 \in DOMAIN q
      /\ \A i \in DOMAIN t : i + 1 \in DOMAIN q /\ t[i] = q[i + 1]
  BY TailThinner
<1>2. v \in Value /\ v = q[1].val /\ v \in Nat
  BY <1>1 DEF SendEntry, Value
<1> HIDE DEF v, t
<1>3. /\ DOMAIN s = 1 .. Len(s) /\ Len(s) \in Nat
      /\ DOMAIN a = 1 .. (Len(s) + 1)
      /\ \A i \in 1 .. Len(s) : a[i] = s[i]
      /\ a[Len(s) + 1] = v
  BY <1>2, AppendProperties
<1> HIDE DEF a
<1>4. DOMAIN t \subseteq Nat \ {0}
  <2>1. DOMAIN t = 1 .. Len(t) /\ Len(t) \in Nat
    BY <1>1
  <2> QED
    BY <2>1
<1>5. /\ \A i \in DOMAIN q : q[i].val \in Nat
      /\ \A i \in DOMAIN s : s[i] \in Nat
  BY EntryValues
<1>6. \A i \in DOMAIN t : t[i].val <= n /\ v < t[i].val
  <2> TAKE i \in DOMAIN t
  <2>1. i + 1 \in DOMAIN q /\ t[i] = q[i + 1] /\ 1 < i + 1
    BY <1>1, <1>4
  <2> QED
    BY <1>1, <1>2, <2>1 DEF Ordered
<1>7. \A i, j \in DOMAIN t : i < j => t[i].val < t[j].val
  <2> TAKE i, j \in DOMAIN t
  <2>1. i + 1 \in DOMAIN q /\ t[i] = q[i + 1] /\ j + 1 \in DOMAIN q /\ t[j] = q[j + 1]
    BY <1>1
  <2>2. i < j => i + 1 < j + 1
    BY <1>4
  <2> QED
    BY <2>1, <2>2 DEF Ordered
<1>8. \A i \in DOMAIN s : s[i] < v /\ s[i] <= n
  BY <1>1, <1>2 DEF Ordered
<1>9. v <= n
  BY <1>1, <1>2 DEF Ordered
<1>10. \A i \in DOMAIN a : a[i] <= n
  BY <1>3, <1>8, <1>9
<1>11. \A i, j \in DOMAIN a : i < j => a[i] < a[j]
  <2> TAKE i, j \in DOMAIN a
  <2>1. CASE j \in DOMAIN s
    BY <1>3, <2>1 DEF Ordered
  <2>2. CASE j = Len(s) + 1
    BY <1>3, <1>8, <2>2
  <2> QED
    BY <1>3, <2>1, <2>2
<1>12. \A i \in DOMAIN a, j \in DOMAIN t : a[i] < t[j].val
  <2> TAKE i \in DOMAIN a, j \in DOMAIN t
  <2>1. t[j].val \in Nat /\ v < t[j].val
    BY <1>1, <1>5, <1>6
  <2>2. CASE i \in DOMAIN s
    BY <1>2, <1>3, <1>5, <1>8, <2>1, <2>2
  <2>3. CASE i = Len(s) + 1
    BY <1>3, <2>1, <2>3
  <2> QED
    BY <1>3, <2>2, <2>3
<1>13. Ordered(t, a, n)
  BY <1>6, <1>7, <1>10, <1>11, <1>12 DEF Ordered
<1> QED
  BY <1>13 DEF t, a, v

(* A queue without waiters stays so, whatever its order.                   *)
LEMMA ThinnerNone ==
    ASSUME NEW S, NEW q \in Seq(S)
    PROVE  Thinner(<<>>, q)
<1>1. DOMAIN <<>> = {}
  OBVIOUS
<1>2. << >> \in [DOMAIN <<>> -> DOMAIN q]
  OBVIOUS
<1> QED
  BY <1>1, <1>2 DEF Thinner

(* No queue, no buffer and no accepted value changes.                      *)
LEMMA FlowSame ==
    ASSUME ChanCore, FlowInv, UNCHANGED <<sendQueue, recvQueue, buffer, sent>>,
           sends' \in Nat, sends <= sends'
    PROVE  FlowInv'
<1>1. ASSUME NEW c \in Chan
      PROVE  /\ Matched(sendQueue[c], recvQueue[c], buffer[c], Capacity[c])
             /\ Ordered(sendQueue[c], sent[c], sends')
  <2>1. sendQueue[c] \in Seq(SendEntry) /\ sent[c] \in Seq(Value) /\ sends \in Nat
    BY DEF ChanCore, ChanTypes
  <2>2. Ordered(sendQueue[c], sent[c], sends)
    BY DEF FlowInv
  <2>3. Thinner(sendQueue[c], sendQueue[c])
    BY ThinnerSelf
  <2> QED
    BY <2>1, <2>2, <2>3, OrderedThin DEF FlowInv
<1> QED
  BY <1>1 DEF FlowInv

(* Waiters leave, and no value is accepted on d.                           *)
LEMMA FlowServed ==
    ASSUME ChanCore, FlowInv, NEW g, Served(g), UNCHANGED buffer,
           sends' \in Nat, sends <= sends', NEW d \in Chan, sent'[d] = sent[d]
    PROVE  /\ Matched(sendQueue'[d], recvQueue'[d], buffer'[d], Capacity[d])
           /\ Ordered(sendQueue'[d], sent'[d], sends')
<1>1. /\ sendQueue[d] \in Seq(SendEntry) /\ sendQueue'[d] \in Seq(SendEntry)
      /\ recvQueue[d] \in Seq(RecvEntry) /\ recvQueue'[d] \in Seq(RecvEntry)
      /\ Thinner(sendQueue'[d], sendQueue[d]) /\ Thinner(recvQueue'[d], recvQueue[d])
      /\ sent[d] \in Seq(Value) /\ sends \in Nat
  BY DEF ChanCore, ChanTypes, Served
<1>2. /\ Matched(sendQueue[d], recvQueue[d], buffer[d], Capacity[d])
      /\ Ordered(sendQueue[d], sent[d], sends)
  BY DEF FlowInv
<1>3. Matched(sendQueue'[d], recvQueue'[d], buffer[d], Capacity[d])
  BY <1>1, <1>2, MatchedThin
<1>4. Ordered(sendQueue'[d], sent[d], sends')
  BY <1>1, <1>2, OrderedThin
<1> QED
  BY <1>3, <1>4

(* $send hands its value to the first waiting receiver.                    *)
LEMMA FlowHandOver ==
    ASSUME ChanCore, FlowInv, NEW c \in Chan, NEW v \in Value, recvQueue[c] # <<>>,
           HandOver(c, v), UNCHANGED frame, v = sends + 1, sends' = v
    PROVE  FlowInv'
<1> DEFINE e == Head(recvQueue[c])
<1>1. ChanTypes /\ sends \in Nat /\ sends' \in Nat /\ sends <= sends'
      /\ sends' \in 0 .. MaxSends
  BY DEF ChanCore, ChanTypes, Value
<1>2. /\ Served(e.g) /\ UNCHANGED buffer
      /\ sent' = [sent EXCEPT ![c] = Append(@, v)]
  BY <1>1, CoreHandOver DEF HandOver
<1>3. 1 \in DOMAIN recvQueue[c] /\ e = recvQueue[c][1] /\ e \in RecvEntry
  <2>1. recvQueue[c] \in Seq(RecvEntry)
    BY <1>1 DEF ChanTypes
  <2> QED
    BY <2>1, TailThinner
<1>4. sendQueue'[c] = <<>>
  <2>1. /\ sendQueue[c] \in Seq(SendEntry) /\ sendQueue'[c] \in Seq(SendEntry)
        /\ Thinner(sendQueue'[c], sendQueue[c])
    BY <1>1, <1>2 DEF ChanTypes, Served
  <2>2. ASSUME NEW i \in DOMAIN sendQueue'[c] PROVE FALSE
    <3>1. PICK k \in DOMAIN sendQueue[c] : sendQueue'[c][i] = sendQueue[c][k]
      BY <2>1 DEF Thinner
    <3>2. sendQueue[c][k].g = e.g /\ e.select
      BY <1>3 DEF FlowInv, Matched
    <3>3. e.g \in Goroutine
      BY <1>3, <3>2 DEF RecvEntry, Contexts, ChanCore, WaitInv, Marked
    <3>4. In(sendQueue'[c], e.g)
      BY <3>1, <3>2 DEF In
    <3> QED
      BY <1>2, <3>3, <3>4 DEF Served
  <2>3. DOMAIN sendQueue'[c] = {}
    BY <2>2
  <2> QED
    BY <2>1, <2>3, EmptyDomain
<1> HIDE DEF e
<1>5. ASSUME NEW d \in Chan, d # c
      PROVE  /\ Matched(sendQueue'[d], recvQueue'[d], buffer'[d], Capacity[d])
             /\ Ordered(sendQueue'[d], sent'[d], sends')
  <2>1. sent'[d] = sent[d]
    BY <1>1, <1>2, <1>5 DEF ChanTypes
  <2> QED
    BY <1>1, <1>2, <2>1, FlowServed
<1>6. Ordered(sendQueue'[c], sent'[c], sends')
  <2>1. sent'[c] = Append(sent[c], v) /\ sent[c] \in Seq(Value)
    BY <1>1, <1>2 DEF ChanTypes
  <2>2. sendQueue[c] \in Seq(SendEntry) /\ <<>> \in Seq(SendEntry)
    BY <1>1 DEF ChanTypes
  <2>3. Ordered(sendQueue[c], sent[c], sends) /\ Thinner(<<>>, sendQueue[c])
    BY <2>2, ThinnerNone DEF FlowInv
  <2>4. sends <= sends
    BY <1>1
  <2>5. Ordered(<<>>, sent[c], sends)
    BY <1>1, <2>1, <2>2, <2>3, <2>4, OrderedThin
  <2>6. Ordered(<<>>, Append(sent[c], v), v)
    BY <1>1, <2>1, <2>5, OrderedSend
  <2> QED
    BY <1>4, <2>1, <2>6
<1>7. Matched(sendQueue'[c], recvQueue'[c], buffer'[c], Capacity[c])
  <2>1. /\ sendQueue[c] \in Seq(SendEntry) /\ sendQueue'[c] \in Seq(SendEntry)
        /\ recvQueue[c] \in Seq(RecvEntry) /\ recvQueue'[c] \in Seq(RecvEntry)
        /\ Thinner(sendQueue'[c], sendQueue[c]) /\ Thinner(recvQueue'[c], recvQueue[c])
    BY <1>1, <1>2 DEF ChanTypes, Served
  <2>2. Matched(sendQueue[c], recvQueue[c], buffer[c], Capacity[c])
    BY DEF FlowInv
  <2> QED
    BY <1>2, <2>1, <2>2, MatchedThin
<1> QED
  BY <1>5, <1>6, <1>7 DEF FlowInv

(* $send puts its value into the buffer.                                   *)
LEMMA FlowFill ==
    ASSUME ChanCore, FlowInv, NEW c \in Chan, NEW v \in Value, recvQueue[c] = <<>>,
           Len(buffer[c]) < Capacity[c], Fill(c, v), v = sends + 1, sends' = v
    PROVE  FlowInv'
<1>1. ChanTypes /\ sends \in Nat /\ sends' \in Nat /\ sends <= sends'
  BY DEF ChanCore, ChanTypes, Value
<1>2. /\ buffer' = [buffer EXCEPT ![c] = Append(@, v)]
      /\ sent' = [sent EXCEPT ![c] = Append(@, v)]
      /\ UNCHANGED <<sendQueue, recvQueue>>
  BY DEF Fill
<1>3. /\ buffer[c] \in Seq(Value) /\ sent[c] \in Seq(Value)
      /\ buffer'[c] = Append(buffer[c], v) /\ sent'[c] = Append(sent[c], v)
      /\ Capacity[c] \in Nat
  BY <1>1, <1>2 DEF ChanTypes
<1>4. sendQueue[c] = <<>>
  <2>1. Len(buffer[c]) \in Nat
    BY <1>3
  <2>2. sendQueue[c] # <<>> => Len(buffer[c]) = Capacity[c]
    BY DEF FlowInv, Matched
  <2> QED
    BY <1>3, <2>1, <2>2
<1>5. Matched(sendQueue'[c], recvQueue'[c], buffer'[c], Capacity[c])
  <2>1. Len(buffer'[c]) = Len(buffer[c]) + 1 /\ Len(buffer[c]) \in Nat
    BY <1>3, AppendProperties
  <2>2. Len(buffer'[c]) <= Capacity[c]
    BY <1>3, <2>1
  <2>3. DOMAIN <<>> = {}
    OBVIOUS
  <2> QED
    BY <1>2, <1>4, <2>2, <2>3 DEF Matched
<1>6. Ordered(sendQueue'[c], sent'[c], sends')
  <2>1. Ordered(<<>>, sent[c], sends)
    BY <1>4 DEF FlowInv
  <2>2. Ordered(<<>>, Append(sent[c], v), v)
    BY <1>1, <1>3, <2>1, OrderedSend
  <2> QED
    BY <1>2, <1>3, <1>4, <2>2
<1>7. ASSUME NEW d \in Chan, d # c
      PROVE  /\ Matched(sendQueue'[d], recvQueue'[d], buffer'[d], Capacity[d])
             /\ Ordered(sendQueue'[d], sent'[d], sends')
  <2>1. sent'[d] = sent[d] /\ buffer'[d] = buffer[d]
    BY <1>1, <1>2, <1>7 DEF ChanTypes
  <2>2. /\ Matched(sendQueue[d], recvQueue[d], buffer[d], Capacity[d])
        /\ Ordered(sendQueue[d], sent[d], sends)
    BY DEF FlowInv
  <2>3. /\ sendQueue[d] \in Seq(SendEntry) /\ sent[d] \in Seq(Value)
        /\ Thinner(sendQueue[d], sendQueue[d])
    BY <1>1, ThinnerSelf DEF ChanTypes
  <2>4. Ordered(sendQueue[d], sent[d], sends')
    BY <1>1, <2>2, <2>3, OrderedThin
  <2> QED
    BY <1>2, <2>1, <2>2, <2>4
<1> QED
  BY <1>5, <1>6, <1>7 DEF FlowInv

(* $send finds the channel full and waits.                                 *)
LEMMA FlowWaitToSend ==
    ASSUME ChanCore, FlowInv, NEW x \in Contexts, NEW c \in Chan, NEW v \in Value,
           recvQueue[c] = <<>>, ~(Len(buffer[c]) < Capacity[c]), WaitToSend(x, c, v),
           v = sends + 1, sends' = v
    PROVE  FlowInv'
<1> DEFINE se == [g |-> x, val |-> v, select |-> FALSE]
<1>1. ChanTypes /\ sends \in Nat /\ sends' \in Nat /\ sends <= sends'
  BY DEF ChanCore, ChanTypes, Value
<1>2. sendQueue' = Push(sendQueue, c, se) /\ UNCHANGED <<buffer, recvQueue, sent>>
  BY DEF WaitToSend
<1>3. se \in SendEntry /\ se.val = v
  BY DEF SendEntry
<1> HIDE DEF se
<1>4. \A d \in Chan : /\ sendQueue[d] \in Seq(SendEntry) /\ sent[d] \in Seq(Value)
                      /\ Matched(sendQueue[d], recvQueue[d], buffer[d], Capacity[d])
                      /\ Ordered(sendQueue[d], sent[d], sends)
  BY <1>1 DEF ChanTypes, FlowInv
<1>5. ASSUME NEW d \in Chan, sendQueue'[d] = sendQueue[d]
      PROVE  /\ Matched(sendQueue'[d], recvQueue'[d], buffer'[d], Capacity[d])
             /\ Ordered(sendQueue'[d], sent'[d], sends')
  <2>1. Ordered(sendQueue[d], sent[d], sends')
    BY <1>1, <1>4, ThinnerSelf, OrderedThin
  <2> QED
    BY <1>2, <1>4, <1>5, <2>1
<1>6. ASSUME sendQueue'[c] = Append(sendQueue[c], se)
      PROVE  /\ Matched(sendQueue'[c], recvQueue'[c], buffer'[c], Capacity[c])
             /\ Ordered(sendQueue'[c], sent'[c], sends')
  <2>1. Ordered(Append(sendQueue[c], se), sent[c], sends + 1)
    BY <1>1, <1>3, <1>4, OrderedWait
  <2>2. Len(buffer[c]) = Capacity[c]
    <3>1. Len(buffer[c]) \in Nat /\ Capacity[c] \in Nat
      BY <1>1 DEF ChanTypes
    <3>2. Len(buffer[c]) <= Capacity[c]
      BY <1>4 DEF Matched
    <3> QED
      BY <3>1, <3>2
  <2>3. DOMAIN <<>> = {}
    OBVIOUS
  <2>4. Matched(Append(sendQueue[c], se), recvQueue[c], buffer[c], Capacity[c])
    BY <1>4, <2>2, <2>3 DEF Matched
  <2> QED
    BY <1>2, <1>6, <2>1, <2>4
<1>7. \A d \in Chan : \/ sendQueue'[d] = sendQueue[d]
                      \/ d = c /\ sendQueue'[d] = Append(sendQueue[d], se)
  BY <1>1, <1>2 DEF Push, ChanTypes
<1> QED
  BY <1>5, <1>6, <1>7 DEF FlowInv

(* $recv takes the value of the first waiting sender.                      *)
LEMMA FlowTakeFromSender ==
    ASSUME ChanCore, FlowInv, NEW x \in Contexts, NEW c \in Chan, sendQueue[c] # <<>>,
           NEW e, e = Head(sendQueue[c]), TakeFromSender(x, c, e, e.val),
           sends' \in 0 .. MaxSends, sends <= sends'
    PROVE  FlowInv'
<1>1. ChanTypes /\ sends \in Nat /\ sends' \in Nat
  BY DEF ChanCore, ChanTypes
<1>2. /\ Served(e.g) /\ Thinner(sendQueue'[c], Tail(sendQueue[c])) /\ UNCHANGED buffer
      /\ sent' = [sent EXCEPT ![c] = Append(@, e.val)] /\ e \in SendEntry
  BY CoreTakeFromSender DEF TakeFromSender
<1>3. ASSUME NEW d \in Chan, d # c
      PROVE  /\ Matched(sendQueue'[d], recvQueue'[d], buffer'[d], Capacity[d])
             /\ Ordered(sendQueue'[d], sent'[d], sends')
  <2>1. sent'[d] = sent[d]
    BY <1>1, <1>2, <1>3 DEF ChanTypes
  <2> QED
    BY <1>1, <1>2, <2>1, FlowServed
<1>4. /\ sendQueue[c] \in Seq(SendEntry) /\ sendQueue'[c] \in Seq(SendEntry)
      /\ recvQueue[c] \in Seq(RecvEntry) /\ recvQueue'[c] \in Seq(RecvEntry)
      /\ Thinner(sendQueue'[c], sendQueue[c]) /\ Thinner(recvQueue'[c], recvQueue[c])
      /\ sent[c] \in Seq(Value) /\ sent'[c] = Append(sent[c], e.val)
  BY <1>1, <1>2 DEF ChanTypes, Served
<1>5. Matched(sendQueue'[c], recvQueue'[c], buffer'[c], Capacity[c])
  <2>1. Matched(sendQueue[c], recvQueue[c], buffer[c], Capacity[c])
    BY DEF FlowInv
  <2> QED
    BY <1>2, <1>4, <2>1, MatchedThin
<1>6. Ordered(sendQueue'[c], sent'[c], sends')
  <2>1. Ordered(sendQueue[c], sent[c], sends)
    BY DEF FlowInv
  <2>2. Ordered(Tail(sendQueue[c]), Append(sent[c], e.val), sends)
    BY <1>1, <1>4, <2>1, OrderedTake
  <2>3. Tail(sendQueue[c]) \in Seq(SendEntry) /\ Append(sent[c], e.val) \in Seq(Value)
    BY <1>2, <1>4, TailThinner, AppendProperties DEF SendEntry
  <2>4. Thinner(sendQueue'[c], Tail(sendQueue[c])) /\ sendQueue'[c] \in Seq(SendEntry)
    BY <1>2, <1>4
  <2>5. Ordered(sendQueue'[c], Append(sent[c], e.val), sends')
    BY <1>1, <2>2, <2>3, <2>4, OrderedThin
  <2> QED
    BY <1>4, <2>5
<1> QED
  BY <1>3, <1>5, <1>6 DEF FlowInv

(* The buffer as RecvOn or RecvFinish hand it to the second half of $recv. *)
LEMMA FlowTakeFrom ==
    ASSUME ChanCore, FlowInv, UndefinedSends = {}, NEW x \in Contexts, NEW c \in Chan,
           NEW buf, TakeFrom(x, c, buf),
           \/ buf = buffer[c] /\ sendQueue[c] = <<>>
           \/ \E v \in Value : buf = Append(buffer[c], v),
           sends' \in 0 .. MaxSends, sends <= sends'
    PROVE  FlowInv'
<1>1. ChanTypes /\ sends \in Nat /\ sends' \in Nat
  BY DEF ChanCore, ChanTypes
<1>2. /\ buffer[c] \in Seq(Value) /\ Capacity[c] \in Nat /\ Len(buffer[c]) \in Nat
      /\ Matched(sendQueue[c], recvQueue[c], buffer[c], Capacity[c])
  BY <1>1 DEF ChanTypes, FlowInv
<1>3. buf \in Seq(Value)
  <2>1. CASE buf = buffer[c]
    BY <1>2, <2>1
  <2>2. CASE \E v \in Value : buf = Append(buffer[c], v)
    <3>1. PICK v \in Value : buf = Append(buffer[c], v)
      BY <2>2
    <3>2. PICK b : b = buffer[c]
      OBVIOUS
    <3>3. Append(b, v) \in Seq(Value)
      BY <1>2, <3>2, AppendProperties
    <3> QED
      BY <3>1, <3>2, <3>3
  <2> QED
    BY <2>1, <2>2
<1>4. CASE buf # <<>>
  <2>1. /\ UNCHANGED <<sendQueue, recvQueue, sent>>
        /\ buffer' = [buffer EXCEPT ![c] = Tail(buf)]
    BY <1>4 DEF TakeFrom
  <2>2. /\ Tail(buf) \in Seq(Value) /\ Len(Tail(buf)) = Len(buf) - 1 /\ Len(buf) \in Nat
    BY <1>3, <1>4, HeadTailProperties
  <2>3. Matched(sendQueue[c], recvQueue[c], Tail(buf), Capacity[c])
    <3>1. CASE buf = buffer[c] /\ sendQueue[c] = <<>>
      <4>1. recvQueue[c] = <<>>
        BY <1>2, <1>4, <3>1 DEF Matched
      <4>2. Len(Tail(buf)) <= Capacity[c]
        BY <1>2, <2>2, <3>1 DEF Matched
      <4>3. DOMAIN <<>> = {}
        OBVIOUS
      <4> QED
        BY <3>1, <4>1, <4>2, <4>3 DEF Matched
    <3>2. CASE \E v \in Value : buf = Append(buffer[c], v)
      <4>1. PICK v \in Value : buf = Append(buffer[c], v)
        BY <3>2
      <4>2. Len(buf) = Len(buffer[c]) + 1
        BY <1>2, <4>1, AppendProperties
      <4>3. Len(Tail(buf)) = Len(buffer[c])
        BY <1>2, <2>2, <4>2
      <4>4. buffer[c] = <<>> => Tail(buf) = <<>>
        <5>1. buffer[c] = <<>> => Len(buffer[c]) = 0
          OBVIOUS
        <5> QED
          BY <2>2, <4>3, <5>1, EmptySeq
      <4> QED
        BY <1>2, <4>3, <4>4 DEF Matched
    <3> QED
      BY <3>1, <3>2
  <2>4. ASSUME NEW d \in Chan
        PROVE  /\ Matched(sendQueue'[d], recvQueue'[d], buffer'[d], Capacity[d])
               /\ Ordered(sendQueue'[d], sent'[d], sends')
    <3>1. sendQueue[d] \in Seq(SendEntry) /\ sent[d] \in Seq(Value)
      BY <1>1 DEF ChanTypes
    <3>2. Ordered(sendQueue[d], sent[d], sends)
      BY DEF FlowInv
    <3>3. Ordered(sendQueue[d], sent[d], sends')
      BY <1>1, <3>1, <3>2, ThinnerSelf, OrderedThin
    <3>4. Matched(sendQueue[d], recvQueue[d], buffer'[d], Capacity[d])
      BY <1>1, <2>1, <2>3 DEF ChanTypes, FlowInv
    <3> QED
      BY <2>1, <3>3, <3>4
  <2> QED
    BY <2>4 DEF FlowInv
<1>5. CASE buf = <<>>
  <2>1. buffer[c] = <<>> /\ sendQueue[c] = <<>>
    <3>1. ASSUME NEW v \in Value, buf = Append(buffer[c], v) PROVE FALSE
      BY <1>2, <1>5, <3>1, AppendProperties
    <3> QED
      BY <1>5, <3>1
  <2>2. buffer' = [buffer EXCEPT ![c] = <<>>] /\ UNCHANGED <<sendQueue, sent>>
    BY <1>5 DEF TakeFrom
  <2>3. buffer' = buffer
    BY <1>1, <2>1, <2>2 DEF ChanTypes
  <2>4. \A d \in Chan : recvQueue'[d] = recvQueue[d] \/ d = c
    BY <1>1, <1>5 DEF TakeFrom, Push, ChanTypes
  <2>5. ASSUME NEW d \in Chan
        PROVE  /\ Matched(sendQueue'[d], recvQueue'[d], buffer'[d], Capacity[d])
               /\ Ordered(sendQueue'[d], sent'[d], sends')
    <3>1. sendQueue[d] \in Seq(SendEntry) /\ sent[d] \in Seq(Value)
      BY <1>1 DEF ChanTypes
    <3>2. /\ Ordered(sendQueue[d], sent[d], sends)
          /\ Matched(sendQueue[d], recvQueue[d], buffer[d], Capacity[d])
      BY DEF FlowInv
    <3>3. Ordered(sendQueue[d], sent[d], sends')
      BY <1>1, <3>1, <3>2, ThinnerSelf, OrderedThin
    <3>4. DOMAIN <<>> = {}
      OBVIOUS
    <3>5. Matched(sendQueue[d], recvQueue'[d], buffer[d], Capacity[d])
      BY <2>1, <2>4, <3>2, <3>4 DEF Matched
    <3> QED
      BY <2>2, <2>3, <3>3, <3>5
  <2> QED
    BY <2>5 DEF FlowInv
<1> QED
  BY <1>4, <1>5

(* A select waits only when none of its cases was ready.                   *)
LEMMA FlowSelect ==
    ASSUME ChanCore, FlowInv, NEW g \in Goroutine, NEW cases \in SelectCases,
           {case \in {cases[i] : i \in DOMAIN cases} : ReadyCase(case)} = {},
           NEW v \in Nat, SelectWaits(g, cases, v), v = sends + 1,
           sends' \in 0 .. MaxSends,
           sends' = IF \E i \in DOMAIN cases : cases[i].dir = "send" THEN v ELSE sends
    PROVE  FlowInv'
<1> DEFINE se == [g |-> g, val |-> v, select |-> TRUE]
           re == [g |-> g, select |-> TRUE]
           Offers(d, dir) == d # NilChan /\ \E i \in DOMAIN cases : cases[i] = Case(d, dir)
<1>1. ChanTypes /\ sends \in Nat /\ sends' \in Nat /\ sends <= sends'
  BY DEF ChanCore, ChanTypes
<1>2. /\ UNCHANGED <<buffer, sent>>
      /\ \A d \in Chan : /\ sendQueue'[d] = IF Offers(d, "send") THEN Append(sendQueue[d], se)
                                            ELSE sendQueue[d]
                         /\ recvQueue'[d] = IF Offers(d, "recv") THEN Append(recvQueue[d], re)
                                            ELSE recvQueue[d]
  BY DEF SelectWaits, Offered
<1>3. ASSUME NEW d \in Chan
      PROVE  /\ Offers(d, "recv") => sendQueue[d] = <<>> /\ buffer[d] = <<>>
             /\ Offers(d, "send") => /\ recvQueue[d] = <<>> /\ ~(Len(buffer[d]) < Capacity[d])
                                     /\ sends' = v
  <2>1. \A i \in DOMAIN cases : ~ReadyCase(cases[i])
    OBVIOUS
  <2>2. Offers(d, "recv") => ~ReadyCase(Case(d, "recv"))
    BY <2>1
  <2>3. Offers(d, "send") => ~ReadyCase(Case(d, "send"))
    BY <2>1
  <2>4. Offers(d, "send") => sends' = v
    BY DEF Case
  <2> QED
    BY <2>2, <2>3, <2>4 DEF ReadyCase, Case
<1> HIDE DEF Offers
<1>4. ASSUME NEW d \in Chan
      PROVE  /\ Matched(sendQueue'[d], recvQueue'[d], buffer'[d], Capacity[d])
             /\ Ordered(sendQueue'[d], sent'[d], sends')
  <2>1. /\ sendQueue[d] \in Seq(SendEntry) /\ sent[d] \in Seq(Value)
        /\ recvQueue[d] \in Seq(RecvEntry) /\ buffer[d] \in Seq(Value)
        /\ Ordered(sendQueue[d], sent[d], sends)
        /\ Matched(sendQueue[d], recvQueue[d], buffer[d], Capacity[d])
        /\ Capacity[d] \in Nat /\ Len(buffer[d]) \in Nat
    BY <1>1 DEF ChanTypes, FlowInv
  <2>2. Offers(d, "send") => v \in Value
    BY <1>1, <1>3 DEF Value
  <2>3. Ordered(sendQueue'[d], sent'[d], sends')
    <3>1. CASE Offers(d, "send")
      <4>1. se \in SendEntry /\ se.val = sends + 1
        BY <2>2, <3>1 DEF SendEntry, Contexts
      <4>2. Ordered(Append(sendQueue[d], se), sent[d], sends + 1)
        BY <1>1, <2>1, <4>1, OrderedWait
      <4> QED
        BY <1>2, <1>3, <3>1, <4>2
    <3>2. CASE ~Offers(d, "send")
      <4>1. Ordered(sendQueue[d], sent[d], sends')
        BY <1>1, <2>1, ThinnerSelf, OrderedThin
      <4> QED
        BY <1>2, <3>2, <4>1
    <3> QED
      BY <3>1, <3>2
  <2>4. Matched(sendQueue'[d], recvQueue'[d], buffer'[d], Capacity[d])
    <3> DEFINE sq == sendQueue'[d]
               rq == recvQueue'[d]
    <3>1. /\ Offers(d, "send") => se \in SendEntry
          /\ re \in RecvEntry
      BY <2>2 DEF SendEntry, RecvEntry, Contexts
    <3>2. /\ sq = IF Offers(d, "send") THEN Append(sendQueue[d], se) ELSE sendQueue[d]
          /\ rq = IF Offers(d, "recv") THEN Append(recvQueue[d], re) ELSE recvQueue[d]
      BY <1>2
    <3> HIDE DEF sq, rq
    <3>3. /\ Offers(d, "send") => Longer(Append(sendQueue[d], se), sendQueue[d], se)
          /\ Longer(Append(recvQueue[d], re), recvQueue[d], re)
      BY <2>1, <3>1, AppendIn
    <3>4. /\ se.g = g /\ re.g = g /\ re.select
          /\ DOMAIN <<>> = {}
      OBVIOUS
    <3> HIDE DEF se, re
    <3>5. \A i \in DOMAIN sq : (i \in DOMAIN sendQueue[d] /\ sq[i] = sendQueue[d][i])
                              \/ (Offers(d, "send") /\ sq[i] = se)
      BY <3>2, <3>3 DEF Longer
    <3>6. \A i \in DOMAIN rq : (i \in DOMAIN recvQueue[d] /\ rq[i] = recvQueue[d][i])
                              \/ (Offers(d, "recv") /\ rq[i] = re)
      BY <3>2, <3>3 DEF Longer
    <3>7. ASSUME NEW i \in DOMAIN sq, NEW j \in DOMAIN rq
          PROVE  sq[i].g = rq[j].g /\ rq[j].select
      <4>1. CASE i \in DOMAIN sendQueue[d] /\ sq[i] = sendQueue[d][i]
        <5>1. ~Offers(d, "recv")
          BY <1>3, <3>4, <4>1
        <5> QED
          BY <2>1, <3>6, <4>1, <5>1 DEF Matched
      <4>2. CASE Offers(d, "send") /\ sq[i] = se
        <5>1. recvQueue[d] = <<>>
          BY <1>3, <4>2
        <5>2. rq[j] = re
          BY <3>4, <3>6, <5>1
        <5> QED
          BY <3>4, <4>2, <5>2
      <4> QED
        BY <3>5, <4>1, <4>2
    <3>8. sq # <<>> => Len(buffer[d]) = Capacity[d]
      <4>1. Len(buffer[d]) <= Capacity[d] /\ (sendQueue[d] # <<>> => Len(buffer[d]) = Capacity[d])
        BY <2>1 DEF Matched
      <4>2. Offers(d, "send") => ~(Len(buffer[d]) < Capacity[d])
        BY <1>3
      <4> QED
        BY <2>1, <3>2, <4>1, <4>2
    <3>9. rq # <<>> => buffer[d] = <<>>
      BY <1>3, <2>1, <3>2 DEF Matched
    <3>10. Matched(sq, rq, buffer[d], Capacity[d])
      BY <2>1, <3>7, <3>8, <3>9 DEF Matched
    <3> QED
      BY <1>2, <3>10 DEF sq, rq
  <2> QED
    BY <2>3, <2>4
<1> QED
  BY <1>4 DEF FlowInv

(* $send keeps the invariant of the values.                                *)
LEMMA FlowSendOn ==
    ASSUME ChanCore, FlowInv, NEW x \in Contexts, NEW c \in Chan, NEW v \in Value,
           SendOn(x, c, v), v = sends + 1, sends' = v
    PROVE  FlowInv'
<1>1. CASE SendPanics(c)
  <2>1. UNCHANGED <<sendQueue, recvQueue, buffer, sent>>
    BY <1>1 DEF SendPanics
  <2>2. sends' \in Nat /\ sends <= sends'
    BY DEF ChanCore, ChanTypes, Value
  <2> QED
    BY <2>1, <2>2, FlowSame
<1>2. CASE recvQueue[c] # <<>> /\ HandOver(c, v)
  BY <1>2, FlowHandOver DEF SendOn
<1>3. CASE recvQueue[c] = <<>> /\ Len(buffer[c]) < Capacity[c] /\ Fill(c, v)
  BY <1>3, FlowFill
<1>4. CASE recvQueue[c] = <<>> /\ ~(Len(buffer[c]) < Capacity[c]) /\ WaitToSend(x, c, v)
  BY <1>4, FlowWaitToSend
<1> QED
  BY <1>1, <1>2, <1>3, <1>4 DEF SendOn

(* $recv keeps the invariant of the values.                                *)
LEMMA FlowRecvOn ==
    ASSUME ChanCore, FlowInv, UndefinedSends = {}, NEW x \in Contexts, NEW c \in Chan,
           RecvOn(x, c), sends' \in 0 .. MaxSends, sends <= sends'
    PROVE  FlowInv'
<1>1. CASE sendQueue[c] # <<>>
  <2> DEFINE e == Head(sendQueue[c])
  <2>1. CASE RecvPanics(c) /\ e.select /\ closed[c]
    BY <1>1, <2>1, HeadPlain DEF ChanCore, SelectInv
  <2>2. CASE TakeFromSender(x, c, e, e.val)
    BY <1>1, <2>2, FlowTakeFromSender
  <2> QED
    BY <1>1, <2>1, <2>2 DEF RecvOn
<1>2. CASE sendQueue[c] = <<>>
  <2>1. TakeFrom(x, c, buffer[c])
    BY <1>2 DEF RecvOn
  <2> QED
    BY <1>2, <2>1, FlowTakeFrom
<1> QED
  BY <1>1, <1>2

(* Every operation of a goroutine or of a callback keeps it.               *)
LEMMA FlowOperation ==
    ASSUME ChanCore, FlowInv, UndefinedSends = {}, NEW x \in Contexts, Operation(x)
    PROVE  FlowInv'
<1>1. ChanTypes /\ sends \in 0 .. MaxSends /\ sends \in Nat /\ sends <= sends
  BY DEF ChanCore, ChanTypes
<1>2. ASSUME NEW c \in Chan, Send(x, c) PROVE FlowInv'
  <2>1. SendOn(x, c, sends + 1) /\ sends + 1 \in Value /\ sends' = sends + 1
    BY <1>1, <1>2 DEF Send, Value
  <2> QED
    BY <2>1, FlowSendOn
<1>3. ASSUME NEW c \in Chan, Recv(x, c) PROVE FlowInv'
  <2>1. RecvOn(x, c) /\ sends' = sends
    BY <1>3 DEF Recv
  <2> QED
    BY <1>1, <2>1, FlowRecvOn
<1>4. ASSUME NEW c \in Chan, Close(x, c) PROVE FlowInv'
  BY <1>1, <1>4, FlowSame DEF Close
<1>5. CASE RecvFinish(x)
  <2> DEFINE c == frame[x].ch
             v == frame[x].val
  <2>1. c \in Chan /\ v \in Value
    BY <1>5, FrameTyped DEF RecvFinish
  <2>2. TakeFrom(x, c, Append(buffer[c], v)) /\ sends' = sends
    BY <1>5 DEF RecvFinish
  <2> HIDE DEF c, v
  <2> QED
    BY <1>1, <2>1, <2>2, FlowTakeFrom
<1>6. CASE CloseStep(x)
  <2> DEFINE c == frame[x].ch
  <2>1. c \in Closable /\ UNCHANGED <<closed, buffer, sends, sent, rcvd>>
    BY <1>6, FrameTyped DEF CloseStep
  <2>2. ASSUME NEW g, Served(g) PROVE FlowInv'
    BY <1>1, <2>1, <2>2, FlowServed DEF FlowInv
  <2>3. CASE sendQueue[c] # <<>> /\ CloseSender(x, c, Head(sendQueue[c]))
    BY <2>1, <2>2, <2>3, CoreCloseSender
  <2>4. CASE recvQueue[c] # <<>> /\ CloseReceiver(c, Head(recvQueue[c]))
    BY <2>1, <2>2, <2>4, CoreCloseReceiver
  <2>5. CASE CloseDone(x)
    BY <1>1, <2>1, <2>5, FlowSame DEF CloseDone
  <2> QED
    BY <1>6, <2>3, <2>4, <2>5 DEF CloseStep
<1> QED
  BY <1>2, <1>3, <1>4, <1>5, <1>6 DEF Operation

(* Every step keeps it.                                                    *)
LEMMA FlowStep ==
    ASSUME ChanCore, FlowInv, UndefinedSends = {}, ChanNext
    PROVE  FlowInv'
<1>0. sends \in 0 .. MaxSends /\ sends \in Nat /\ sends <= sends
  BY DEF ChanCore, ChanTypes
<1>1. ASSUME NEW g \in Goroutine, NEW cases \in SelectCases, Select(g, cases)
      PROVE  FlowInv'
  <2> DEFINE all     == {cases[i] : i \in DOMAIN cases}
             sending == {case \in all : case.dir = "send"}
             ready   == {case \in all : ReadyCase(case)}
             v       == sends + 1
  <2>1. /\ sending # {} => v <= MaxSends
        /\ sends' = IF sending = {} THEN sends ELSE v
        /\ \/ \E case \in ready : IF case.dir = "recv" THEN RecvOn(g, case.ch)
                                                     ELSE SendOn(g, case.ch, v)
           \/ ready = {} /\ SelectWaits(g, cases, v)
    BY <1>1, Zenon DEF Select, SelectWaits
  <2>2. \A case \in all : case \in [ch : Chan, dir : {"send", "recv"}]
    OBVIOUS
  <2>3. g \in Contexts
    BY DEF Contexts
  <2>4. sends' \in 0 .. MaxSends /\ sends <= sends' /\ v \in Nat
    BY <1>0, <2>1
  <2>5. ASSUME NEW case \in all, case.dir = "recv", RecvOn(g, case.ch)
        PROVE  FlowInv'
    BY <2>2, <2>3, <2>4, <2>5, FlowRecvOn
  <2>6. ASSUME NEW case \in all, case.dir = "send", SendOn(g, case.ch, v)
        PROVE  FlowInv'
    <3>1. sending # {}
      BY <2>6
    <3>2. v \in Value /\ sends' = v
      BY <1>0, <2>1, <3>1 DEF Value
    <3>3. case.ch \in Chan
      BY <2>2, <2>6
    <3> QED
      BY <2>3, <2>6, <3>2, <3>3, FlowSendOn
  <2>7. CASE ready = {} /\ SelectWaits(g, cases, v)
    <3>1. sends' = IF \E i \in DOMAIN cases : cases[i].dir = "send" THEN v ELSE sends
      BY <2>1
    <3> QED
      BY <2>4, <2>7, <3>1, FlowSelect
  <2> QED
    BY <2>1, <2>2, <2>5, <2>6, <2>7
<1>2. ASSUME NEW g \in Goroutine, Resume(g) PROVE FlowInv'
  BY <1>0, <1>2, FlowSame DEF Resume
<1>3. CASE RunGoroutine \/ RunNoGoroutine \/ Between
  BY <1>0, <1>3, OtherKeeps, FlowSame
<1> QED
  BY <1>1, <1>2, <1>3, FlowOperation DEF ChanNext

(* It holds before the program starts.                                     *)
LEMMA FlowInit == ChanInit => FlowInv
<1>1. DOMAIN <<>> = {} /\ Len(<<>>) = 0
  OBVIOUS
<1> QED
  BY <1>1 DEF ChanInit, FlowInv, Matched, Ordered

(* Waiting senders, waiting receivers and the buffer of a channel stay     *)
(* matched, and values stay in the order of their sends, through every     *)
(* step of $send, $recv, $close and $select, when no *js.Object that is    *)
(* undefined in JavaScript is sent.                                        *)
THEOREM ChannelsFlow ==
    ASSUME SelectSafe, UndefinedSends = {}
    PROVE  ChanSpec => []FlowInv
<1>1. ChanCore /\ FlowInv /\ [ChanNext]_allVars => FlowInv'
  <2>1. ASSUME ChanCore, FlowInv, UNCHANGED allVars PROVE FlowInv'
    <3>1. sends' \in Nat /\ sends <= sends'
      BY <2>1 DEF allVars, chanVars, ChanCore, ChanTypes
    <3> QED
      BY <2>1, <3>1, FlowSame DEF allVars, chanVars
  <2> QED
    BY <2>1, FlowStep
<1> QED
  BY <1>1, FlowInit, ChannelsCore, PTL DEF ChanSpec

(* Values enter a channel in the order of their sends ($send and $recv     *)
(* serve $sendQueue and $buffer first in, first out), when no *js.Object   *)
(* that is undefined in JavaScript is sent.                                *)
THEOREM SendsAreInOrder ==
    ASSUME SelectSafe, UndefinedSends = {}
    PROVE  ChanSpec => []SendsInOrder
<1>1. FlowInv => SendsInOrder
  BY DEF FlowInv, Ordered, SendsInOrder
<1> QED
  BY <1>1, ChannelsFlow, PTL

-----------------------------------------------------------------------------
(* Nobody waits in vain.                                                   *)

(* Waiters on a closed channel are about to be told, unless its $close was *)
(* ended halfway.                                                          *)
CloseInv ==
    \A c \in Chan :
        closed[c] /\ (sendQueue[c] # <<>> \/ recvQueue[c] # <<>>)
        => c \in torn \/ Closing(c)

(* No queue of a closed channel gets longer, and at most one operation     *)
(* that is not a $close begins or ends.                                    *)
LEMMA CloseKeep ==
    ASSUME ChanCore, CloseInv, UNCHANGED <<closed, torn>>,
           \A d \in Chan : closed[d] =>
               /\ sendQueue'[d] # <<>> => sendQueue[d] # <<>>
               /\ recvQueue'[d] # <<>> => recvQueue[d] # <<>>,
           NEW x \in Contexts, frame[x].op # "close",
           \/ frame' = frame
           \/ \E f : frame' = [frame EXCEPT ![x] = f] /\ f.op # "close"
    PROVE  CloseInv'
<1>1. frame \in [Contexts -> Frame] /\ NoGoroutine \in Contexts
  BY DEF ChanCore, ChanTypes, Contexts
<1>2. /\ frame'[x].op # "close"
      /\ \A y \in Contexts : y # x => frame'[y] = frame[y]
  BY <1>1
<1>3. ASSUME NEW d \in Chan, Closing(d) PROVE Closing(d)'
  <2>1. PICK y \in Contexts : frame[y] = [op |-> "close", ch |-> d]
    BY <1>3 DEF Closing
  <2>2. y # x
    BY <2>1
  <2>3. frame'[y] = [op |-> "close", ch |-> d]
    BY <1>2, <2>1, <2>2
  <2> QED
    BY <2>3 DEF Closing
<1>4. ASSUME NEW d \in Chan, closed'[d], sendQueue'[d] # <<>> \/ recvQueue'[d] # <<>>
      PROVE  d \in torn \/ Closing(d)'
  BY <1>3, <1>4 DEF CloseInv
<1> QED
  BY <1>4 DEF CloseInv

(* Serving a waiter makes no queue longer.                                 *)
LEMMA ServedShorter ==
    ASSUME ChanCore, NEW g, Served(g), NEW d \in Chan
    PROVE  /\ sendQueue'[d] # <<>> => sendQueue[d] # <<>>
           /\ recvQueue'[d] # <<>> => recvQueue[d] # <<>>
<1>1. /\ sendQueue'[d] \in Seq(SendEntry) /\ Thinner(sendQueue'[d], sendQueue[d])
      /\ recvQueue'[d] \in Seq(RecvEntry) /\ Thinner(recvQueue'[d], recvQueue[d])
  BY DEF Served
<1>2. sendQueue[d] = <<>> => sendQueue'[d] = <<>>
  BY <1>1, ThinnerEmpty
<1>3. recvQueue[d] = <<>> => recvQueue'[d] = <<>>
  BY <1>1, ThinnerEmpty
<1> QED
  BY <1>2, <1>3

(* $send panics on a closed channel before it could wait there.            *)
LEMMA CloseSendOn ==
    ASSUME ChanCore, CloseInv, NEW x \in Contexts, NEW c \in Chan, NEW v \in Value,
           UNCHANGED torn, ~halted, frame[x] = NoFrame, SendOn(x, c, v),
           sends' \in 0 .. MaxSends
    PROVE  CloseInv'
<1>1. frame' = frame /\ frame[x].op # "close"
  BY DEF SendOn, NoFrame
<1>2. CASE SendPanics(c)
  BY <1>1, <1>2, CloseKeep DEF SendPanics
<1>3. CASE recvQueue[c] # <<>> /\ HandOver(c, v)
  <2>1. Served(Head(recvQueue[c]).g) /\ UNCHANGED closed
    BY <1>1, <1>3, CoreHandOver DEF HandOver
  <2> QED
    BY <1>1, <2>1, ServedShorter, CloseKeep
<1>4. CASE Fill(c, v)
  BY <1>1, <1>4, CloseKeep DEF Fill
<1>5. CASE ~closed[c] /\ WaitToSend(x, c, v)
  <2>1. /\ UNCHANGED <<closed, recvQueue>>
        /\ \A d \in Chan : d # c => sendQueue'[d] = sendQueue[d]
    BY <1>5 DEF WaitToSend, Push, ChanCore, ChanTypes
  <2> QED
    BY <1>1, <1>5, <2>1, CloseKeep
<1> QED
  BY <1>2, <1>3, <1>4, <1>5 DEF SendOn

(* $recv does not wait on a closed channel.                                *)
LEMMA CloseTakeFrom ==
    ASSUME ChanCore, CloseInv, NEW x \in Contexts, NEW c \in Chan, NEW buf,
           UNCHANGED torn, frame[x].op # "close", TakeFrom(x, c, buf)
    PROVE  CloseInv'
<1>1. /\ frame' = [frame EXCEPT ![x] = NoFrame] /\ NoFrame.op # "close"
      /\ UNCHANGED <<closed, sendQueue>>
  BY DEF TakeFrom, NoFrame
<1>2. \A d \in Chan : closed[d] => recvQueue'[d] = recvQueue[d]
  <2>1. CASE recvQueue' = recvQueue
    BY <2>1
  <2>2. CASE ~closed[c] /\ recvQueue' = Push(recvQueue, c, [g |-> x, select |-> FALSE])
    <3>1. \A d : d # c => recvQueue'[d] = recvQueue[d]
      BY <2>2 DEF Push, ChanCore, ChanTypes
    <3> QED
      BY <2>2, <3>1
  <2> QED
    BY <2>1, <2>2 DEF TakeFrom
<1> QED
  BY <1>1, <1>2, CloseKeep

(* Neither half of $recv adds waiters to a closed channel.                 *)
LEMMA CloseRecvOn ==
    ASSUME ChanCore, CloseInv, NEW x \in Contexts, NEW c \in Chan,
           UNCHANGED torn, ~halted, frame[x] = NoFrame, RecvOn(x, c),
           sends' \in 0 .. MaxSends
    PROVE  CloseInv'
<1>1. frame[x].op # "close"
  BY DEF NoFrame
<1>2. CASE sendQueue[c] # <<>>
  <2> DEFINE e == Head(sendQueue[c])
             f == [op |-> "recv", ch |-> c, val |-> e.val]
  <2>1. CASE RecvPanics(c) /\ e.select /\ closed[c]
    BY <1>2, <2>1, HeadPlain DEF ChanCore, SelectInv
  <2>2. CASE TakeFromSender(x, c, e, e.val)
    <3>1. Served(e.g)
      BY <1>2, <2>2, CoreTakeFromSender
    <3>2. UNCHANGED closed /\ frame' = [frame EXCEPT ![x] = f] /\ f.op # "close"
      BY <2>2 DEF TakeFromSender
    <3> QED
      BY <1>1, <3>1, <3>2, ServedShorter, CloseKeep
  <2> QED
    BY <1>2, <2>1, <2>2 DEF RecvOn
<1>3. CASE sendQueue[c] = <<>>
  BY <1>1, <1>3, CloseTakeFrom DEF RecvOn
<1> QED
  BY <1>2, <1>3

(* Every operation of a goroutine or of a callback keeps CloseInv: $close  *)
(* itself holds its frame until both queues are empty.                     *)
LEMMA CloseOperation ==
    ASSUME ChanCore, CloseInv, NEW x \in Contexts, Operation(x), UNCHANGED torn
    PROVE  CloseInv'
<1>1. ChanTypes /\ sends \in 0 .. MaxSends /\ NoGoroutine \in Contexts
  BY DEF ChanCore, ChanTypes, Contexts
<1>2. ~halted
  BY DEF Operation, Send, Recv, Close, RecvFinish, CloseStep, Free, InGo, InCallback, Running
<1>3. ASSUME NEW c \in Chan, Send(x, c) PROVE CloseInv'
  <2>1. SendOn(x, c, sends + 1) /\ sends + 1 \in Value /\ sends' \in 0 .. MaxSends
        /\ frame[x] = NoFrame
    BY <1>1, <1>3 DEF Send, Free, Value
  <2> QED
    BY <1>2, <2>1, CloseSendOn
<1>4. ASSUME NEW c \in Chan, Recv(x, c) PROVE CloseInv'
  <2>1. RecvOn(x, c) /\ sends' \in 0 .. MaxSends /\ frame[x] = NoFrame
    BY <1>1, <1>4 DEF Recv, Free
  <2> QED
    BY <1>2, <2>1, CloseRecvOn
<1>5. ASSUME NEW c \in Chan, Close(x, c) PROVE CloseInv'
  <2>1. /\ frame[x] = NoFrame /\ closed' = [closed EXCEPT ![c] = TRUE]
        /\ frame' = [frame EXCEPT ![x] = [op |-> "close", ch |-> c]]
        /\ UNCHANGED <<sendQueue, recvQueue>>
    BY <1>5 DEF Close, Free
  <2>2. Closing(c)'
    BY <1>1, <2>1 DEF Closing, ChanTypes
  <2>3. ASSUME NEW d \in Chan, Closing(d) PROVE Closing(d)'
    <3>1. PICK y \in Contexts : frame[y] = [op |-> "close", ch |-> d]
      BY <2>3 DEF Closing
    <3>2. y # x
      BY <2>1, <3>1 DEF NoFrame
    <3>3. frame'[y] = [op |-> "close", ch |-> d]
      BY <1>1, <2>1, <3>1, <3>2 DEF ChanTypes
    <3> QED
      BY <3>3 DEF Closing
  <2>4. ASSUME NEW d \in Chan, closed'[d], sendQueue'[d] # <<>> \/ recvQueue'[d] # <<>>
        PROVE  d \in torn \/ Closing(d)'
    BY <1>1, <2>1, <2>2, <2>3, <2>4 DEF CloseInv, ChanTypes
  <2> QED
    BY <2>4 DEF CloseInv
<1>6. CASE RecvFinish(x)
  <2> DEFINE c == frame[x].ch
             buf == Append(buffer[c], frame[x].val)
  <2>1. c \in Chan /\ frame[x].op # "close" /\ TakeFrom(x, c, buf)
    BY <1>6, FrameTyped DEF RecvFinish
  <2> HIDE DEF c, buf
  <2> QED
    BY <1>2, <2>1, CloseTakeFrom
<1>7. CASE CloseStep(x)
  <2> DEFINE c == frame[x].ch
  <2>1. c \in Closable /\ UNCHANGED <<closed, buffer, sends, sent, rcvd>>
    BY <1>7, FrameTyped DEF CloseStep
  <2>2. ASSUME NEW g, Served(g), UNCHANGED frame PROVE CloseInv'
    <3>1. \A d \in Chan : /\ sendQueue'[d] # <<>> => sendQueue[d] # <<>>
                          /\ recvQueue'[d] # <<>> => recvQueue[d] # <<>>
      BY <2>2, ServedShorter
    <3>2. \A d \in Chan : Closing(d)' <=> Closing(d)
      BY <2>2 DEF Closing
    <3> QED
      BY <1>2, <2>1, <2>2, <3>1, <3>2 DEF CloseInv
  <2>3. CASE sendQueue[c] # <<>> /\ CloseSender(x, c, Head(sendQueue[c]))
    BY <2>1, <2>2, <2>3, CoreCloseSender
  <2>4. CASE recvQueue[c] # <<>> /\ CloseReceiver(c, Head(recvQueue[c]))
    BY <2>1, <2>2, <2>4, CoreCloseReceiver
  <2>5. CASE sendQueue[c] = <<>> /\ recvQueue[c] = <<>> /\ CloseDone(x)
    <3>1. /\ frame' = [frame EXCEPT ![x] = NoFrame]
          /\ UNCHANGED <<sendQueue, recvQueue>>
      BY <2>5 DEF CloseDone
    <3>2. ASSUME NEW d \in Chan, Closing(d), d # c PROVE Closing(d)'
      <4>1. PICK y \in Contexts : frame[y] = [op |-> "close", ch |-> d]
        BY <3>2 DEF Closing
      <4>2. y # x
        BY <3>2, <4>1
      <4>3. frame'[y] = [op |-> "close", ch |-> d]
        BY <1>1, <3>1, <4>1, <4>2 DEF ChanTypes
      <4> QED
        BY <4>3 DEF Closing
    <3> HIDE DEF c
    <3> QED
      BY <2>1, <2>5, <3>1, <3>2 DEF CloseInv
  <2> QED
    BY <1>7, <2>3, <2>4, <2>5 DEF CloseStep
<1> QED
  BY <1>3, <1>4, <1>5, <1>6, <1>7 DEF Operation

(* A select does not wait on a closed channel.                             *)
LEMMA CloseSelect ==
    ASSUME ChanCore, CloseInv, NEW g \in Goroutine, NEW cases \in SelectCases,
           Select(g, cases), UNCHANGED torn
    PROVE  CloseInv'
<1> DEFINE all     == {cases[i] : i \in DOMAIN cases}
           sending == {case \in all : case.dir = "send"}
           ready   == {case \in all : ReadyCase(case)}
           v       == sends + 1
<1>1. /\ Free(g)
      /\ sending # {} => v <= MaxSends
      /\ sends' = IF sending = {} THEN sends ELSE v
      /\ \A case \in sending : ~closed[case.ch]
      /\ \/ \E case \in ready : IF case.dir = "recv" THEN RecvOn(g, case.ch)
                                                   ELSE SendOn(g, case.ch, v)
         \/ ready = {} /\ SelectWaits(g, cases, v)
  BY Zenon DEF Select, SelectWaits
<1>2. \A case \in all : case \in [ch : Chan, dir : {"send", "recv"}]
  OBVIOUS
<1>3. /\ g \in Contexts /\ ~halted /\ frame[g] = NoFrame
      /\ sends \in 0 .. MaxSends /\ closed \in [Chan -> BOOLEAN]
  BY <1>1 DEF Contexts, Free, InGo, InCallback, Running, ChanCore, ChanTypes
<1>4. sends' \in 0 .. MaxSends
  BY <1>1, <1>3
<1>5. ASSUME NEW case \in all, case.dir = "recv", RecvOn(g, case.ch)
      PROVE  CloseInv'
  BY <1>2, <1>3, <1>4, <1>5, CloseRecvOn
<1>6. ASSUME NEW case \in all, case.dir = "send", SendOn(g, case.ch, v)
      PROVE  CloseInv'
  <2>1. sending # {}
    BY <1>6
  <2>2. v \in Value
    BY <1>1, <1>3, <2>1 DEF Value
  <2>3. case.ch \in Chan
    BY <1>2, <1>6
  <2> QED
    BY <1>3, <1>4, <1>6, <2>2, <2>3, CloseSendOn
<1>7. CASE ready = {} /\ SelectWaits(g, cases, v)
  <2>1. UNCHANGED <<closed, frame>> /\ frame[g].op # "close"
    BY <1>3, <1>7 DEF SelectWaits, NoFrame
  <2>2. ASSUME NEW d \in Chan, closed[d]
        PROVE  sendQueue'[d] = sendQueue[d] /\ recvQueue'[d] = recvQueue[d]
    <3>1. \A i \in DOMAIN cases : cases[i] # Case(d, "send")
      BY <1>1, <2>2 DEF Case
    <3>2. \A i \in DOMAIN cases : cases[i] # Case(d, "recv")
      BY <1>7, <2>2 DEF Case, ReadyCase
    <3> QED
      BY <1>7, <3>1, <3>2 DEF SelectWaits, Offered
  <2> QED
    BY <1>3, <2>1, <2>2, CloseKeep
<1> QED
  BY <1>1, <1>2, <1>5, <1>6, <1>7

(* An exception that ends a callback in the middle of $close tears it.     *)
LEMMA CloseOther ==
    ASSUME ChanCore, CloseInv, RunGoroutine \/ RunNoGoroutine \/ Between
    PROVE  CloseInv'
<1>1. /\ UNCHANGED <<closed, sendQueue, recvQueue>>
      /\ frame \in [Contexts -> Frame] /\ NoGoroutine \in Contexts
  BY OtherKeeps DEF ChanCore, ChanTypes, Contexts
<1>2. CASE frame' = frame /\ torn' = torn
  BY <1>1, <1>2 DEF CloseInv, Closing
<1>3. CASE /\ frame' = [frame EXCEPT ![NoGoroutine] = NoFrame]
           /\ torn' = torn \cup (IF frame[NoGoroutine].op = "close"
                                 THEN {frame[NoGoroutine].ch} ELSE {})
  <2>1. ASSUME NEW d \in Chan, Closing(d) PROVE d \in torn' \/ Closing(d)'
    <3>1. PICK y \in Contexts : frame[y] = [op |-> "close", ch |-> d]
      BY <2>1 DEF Closing
    <3>2. CASE y = NoGoroutine
      BY <1>3, <3>1, <3>2
    <3>3. CASE y # NoGoroutine
      <4>1. frame'[y] = [op |-> "close", ch |-> d]
        BY <1>1, <1>3, <3>1, <3>3
      <4> QED
        BY <4>1 DEF Closing
    <3> QED
      BY <3>2, <3>3
  <2>2. torn \subseteq torn'
    BY <1>3
  <2> QED
    BY <1>1, <2>1, <2>2 DEF CloseInv
<1> QED
  BY <1>2, <1>3, OtherTears

(* Whoever waits on a closed channel is about to be told by the $close     *)
(* that is in progress, unless an exception ended that halfway.            *)
THEOREM ClosesTellAll ==
    ASSUME SelectSafe
    PROVE  ChanSpec => []CloseInv
<1>1. ChanInit => CloseInv
  BY DEF ChanInit, CloseInv
<1>2. ASSUME ChanCore, CloseInv, [ChanNext]_allVars PROVE CloseInv'
  <2>1. ASSUME NEW g \in Goroutine, Resume(g), UNCHANGED torn PROVE CloseInv'
    BY <1>2, <2>1 DEF Resume, CloseInv, Closing
  <2>2. CASE UNCHANGED allVars
    BY <1>2, <2>2 DEF allVars, chanVars, vars, CloseInv, Closing
  <2> QED
    BY <1>2, <2>1, <2>2, CloseOther, CloseOperation, CloseSelect DEF ChanNext
<1> QED
  BY <1>1, <1>2, ChannelsCore, PTL DEF ChanSpec

(* A receiver waits only on an open, empty channel, a sender only on an    *)
(* open, full one, and both on one channel only as cases of one select     *)
(* ($send, $recv, $select and $close look for a partner before they wait). *)
THEOREM NoMatchIsMissed ==
    ASSUME SelectSafe, UndefinedSends = {}
    PROVE  ChanSpec => []NoMissedMatch
<1>1. ASSUME CloseInv, FlowInv, ChanCore PROVE NoMissedMatch
  <2>1. ASSUME NEW c \in Chan, Settled(c)
        PROVE  /\ recvQueue[c] # <<>> => ~closed[c] /\ buffer[c] = <<>>
               /\ sendQueue[c] # <<>> => ~closed[c] /\ Len(buffer[c]) = Capacity[c]
               /\ \A i \in DOMAIN sendQueue[c], j \in DOMAIN recvQueue[c] :
                     sendQueue[c][i].g = recvQueue[c][j].g
    <3>1. c \notin torn /\ ~Closing(c)
      BY <2>1 DEF Settled, Closing, NoFrame
    <3>2. closed[c] => sendQueue[c] = <<>> /\ recvQueue[c] = <<>>
      BY <1>1, <3>1 DEF CloseInv
    <3>3. Matched(sendQueue[c], recvQueue[c], buffer[c], Capacity[c])
      BY <1>1 DEF FlowInv
    <3> QED
      BY <3>2, <3>3 DEF Matched
  <2> QED
    BY <2>1 DEF NoMissedMatch
<1> QED
  BY <1>1, ClosesTellAll, ChannelsFlow, ChannelsCore, PTL

-----------------------------------------------------------------------------
(* A channel implements Pipe.                                              *)

(* A callback takes no value from a waiting sender of a channel that the   *)
(* program closes: the sender runs on at once and might close it before    *)
(* the value has gone through the buffer.                                  *)
CallbackRecvSafe ==
    \A o \in CallbackOps : o.dir = "recv" => o.ch \notin Closable

(* Goroutines leave no operation half done when they are switched, and     *)
(* nobody closes a channel on which a value is between sender and buffer.  *)
FramesInv ==
    /\ \A g \in Goroutine : frame[g] # NoFrame => g = curGoroutine
    /\ frame[NoGoroutine].op = "recv" => frame[NoGoroutine].ch \notin Closable
    /\ \A g \in Goroutine : frame[g].op = "recv" => ~Told(frame[g].ch)

(* The running context x begins, goes on with or ends an operation.        *)
LEMMA FramesSet ==
    ASSUME ChanCore, FramesInv, NEW x \in Contexts, curGoroutine = x, NEW f,
           frame' = [frame EXCEPT ![x] = f],
           f # NoFrame => curGoroutine' = curGoroutine,
           f.op = "recv" => /\ x = NoGoroutine => f.ch \notin Closable
                            /\ ~Told(f.ch)'
    PROVE  FramesInv'
<1>1. frame \in [Contexts -> Frame] /\ NoGoroutine \in Contexts /\ Goroutine \subseteq Contexts
  BY DEF ChanCore, ChanTypes, Contexts
<1>2. frame'[x] = f /\ \A y \in Contexts : y # x => frame'[y] = frame[y]
  BY <1>1
<1>3. NoFrame.op # "recv"
  BY DEF NoFrame
<1>4. \A g \in Goroutine : frame'[g] # NoFrame => g = x /\ g = curGoroutine'
  BY <1>1, <1>2 DEF FramesInv
<1>5. (\A g \in Goroutine : frame[g].op = "recv" => ~Told(frame[g].ch))'
  <2>1. ASSUME NEW g \in Goroutine, frame'[g].op = "recv"
        PROVE  ~(/\ closed'[frame'[g].ch] /\ frame'[g].ch \notin torn'
                 /\ ~\E y \in Contexts : frame'[y] = [op |-> "close", ch |-> frame'[g].ch])
    <3>1. g = x
      BY <1>3, <1>4, <2>1
    <3>2. frame'[g] = f
      BY <1>2, <3>1, <1>1
    <3>3. ~(/\ closed'[f.ch] /\ f.ch \notin torn'
            /\ ~\E y \in Contexts : frame'[y] = [op |-> "close", ch |-> f.ch])
      BY <2>1, <3>2 DEF Told, Closing
    <3> QED
      BY <2>1, <3>2, <3>3
  <2> QED
    BY <2>1 DEF Told, Closing
<1>6. frame'[NoGoroutine].op = "recv" => frame'[NoGoroutine].ch \notin Closable
  <2>1. CASE x = NoGoroutine
    BY <1>2, <2>1
  <2>2. CASE x # NoGoroutine
    BY <1>1, <1>2, <2>2 DEF FramesInv
  <2> QED
    BY <2>1, <2>2
<1> QED
  BY <1>4, <1>5, <1>6 DEF FramesInv

(* An operation of the running context ends.                               *)
LEMMA FramesFree ==
    ASSUME ChanCore, FramesInv, NEW x \in Contexts, curGoroutine = x,
           frame' = [frame EXCEPT ![x] = NoFrame]
    PROVE  FramesInv'
BY FramesSet DEF NoFrame

(* $recv holds the value of a waiting sender in its frame.                 *)
LEMMA FramesTakeFromSender ==
    ASSUME ChanCore, CloseInv, FramesInv, NEW x \in Contexts, curGoroutine = x,
           frame[x] = NoFrame, NEW c \in Chan, sendQueue[c] # <<>>, ~halted,
           x = NoGoroutine => c \notin Closable, UNCHANGED torn,
           NEW e, TakeFromSender(x, c, e, e.val)
    PROVE  FramesInv'
<1> DEFINE f == [op |-> "recv", ch |-> c, val |-> e.val]
<1>1. /\ frame' = [frame EXCEPT ![x] = f] /\ UNCHANGED closed
      /\ curGoroutine' = curGoroutine
  BY DEF TakeFromSender, notWaking
<1>2. closed[c] => c \in torn \/ Closing(c)
  BY DEF CloseInv
<1>3. Closing(c) => Closing(c)'
  <2>1. ASSUME NEW y \in Contexts, frame[y] = [op |-> "close", ch |-> c]
        PROVE  Closing(c)'
    <3>1. y # x
      BY <2>1 DEF NoFrame
    <3>2. frame'[y] = frame[y]
      BY <1>1, <3>1 DEF ChanCore, ChanTypes
    <3> QED
      BY <2>1, <3>2 DEF Closing
  <2> QED
    BY <2>1 DEF Closing
<1>4. f.ch = c /\ ~Told(c)'
  BY <1>1, <1>2, <1>3 DEF Told
<1> HIDE DEF f
<1> QED
  BY <1>1, <1>4, FramesSet

(* $send leaves no operation in progress.                                  *)
LEMMA FramesSendOn ==
    ASSUME ChanCore, FramesInv, NEW x \in Contexts, curGoroutine = x,
           frame[x] = NoFrame, NEW c, NEW v, SendOn(x, c, v)
    PROVE  FramesInv'
<1>1. frame' = [frame EXCEPT ![x] = NoFrame]
  BY DEF SendOn, ChanCore, ChanTypes
<1> QED
  BY <1>1, FramesFree

(* $recv keeps the invariant of the frames.                                *)
LEMMA FramesRecvOn ==
    ASSUME ChanCore, CloseInv, FramesInv, NEW x \in Contexts, curGoroutine = x,
           frame[x] = NoFrame, NEW c \in Chan, ~halted,
           x = NoGoroutine => c \notin Closable, RecvOn(x, c), UNCHANGED torn
    PROVE  FramesInv'
<1>1. CASE sendQueue[c] # <<>>
  <2> DEFINE e == Head(sendQueue[c])
  <2>1. CASE RecvPanics(c) /\ e.select /\ closed[c]
    BY <1>1, <2>1, HeadPlain DEF ChanCore, SelectInv
  <2>2. CASE TakeFromSender(x, c, e, e.val)
    BY <1>1, <2>2, FramesTakeFromSender
  <2> QED
    BY <1>1, <2>1, <2>2 DEF RecvOn
<1>2. CASE sendQueue[c] = <<>>
  <2>1. frame' = [frame EXCEPT ![x] = NoFrame]
    BY <1>2 DEF RecvOn, TakeFrom
  <2> QED
    BY <2>1, FramesFree
<1> QED
  BY <1>1, <1>2

(* Every operation of a goroutine or of a callback keeps it.               *)
LEMMA FramesOperation ==
    ASSUME ChanCore, CloseInv, FramesInv, CallbackRecvSafe, NEW x \in Contexts,
           Operation(x), UNCHANGED torn
    PROVE  FramesInv'
<1>1. ChanTypes
  BY DEF ChanCore
<1>2. ~halted /\ curGoroutine = x
  BY DEF Operation, Send, Recv, Close, RecvFinish, CloseStep, Free, InGo, InCallback, Running
<1>3. ASSUME NEW c \in Chan, Send(x, c) PROVE FramesInv'
  BY <1>2, <1>3, FramesSendOn DEF Send, Free
<1>4. ASSUME NEW c \in Chan, Recv(x, c) PROVE FramesInv'
  <2>1. x = NoGoroutine => c \notin Closable
    BY <1>4 DEF Recv, May, Case, CallbackRecvSafe
  <2>2. frame[x] = NoFrame /\ RecvOn(x, c)
    BY <1>4 DEF Recv, Free
  <2> QED
    BY <1>2, <2>1, <2>2, FramesRecvOn
<1>5. ASSUME NEW c \in Chan, Close(x, c) PROVE FramesInv'
  <2> DEFINE f == [op |-> "close", ch |-> c]
  <2>1. frame' = [frame EXCEPT ![x] = f] /\ UNCHANGED curGoroutine /\ f.op # "recv"
    BY <1>5 DEF Close, vars
  <2> QED
    BY <1>2, <2>1, FramesSet
<1>6. CASE RecvFinish(x)
  BY <1>2, <1>6, FramesFree DEF RecvFinish, TakeFrom
<1>7. CASE CloseStep(x)
  <2> DEFINE c == frame[x].ch
  <2>1. /\ c \in Closable /\ UNCHANGED <<closed, buffer, sends, sent, rcvd>>
        /\ frame[x].op # "recv"
    BY <1>7, FrameTyped DEF CloseStep
  <2>2. ASSUME UNCHANGED <<frame, curGoroutine>> PROVE FramesInv'
    <3>1. frame' = [frame EXCEPT ![x] = frame[x]]
      BY <1>1, <2>2 DEF ChanTypes
    <3> QED
      BY <1>2, <2>1, <2>2, <3>1, FramesSet
  <2>3. CASE sendQueue[c] # <<>> /\ CloseSender(x, c, Head(sendQueue[c]))
    <3>1. UNCHANGED <<frame, curGoroutine>>
      BY <2>1, <2>3, CoreCloseSender DEF notWaking
    <3> QED
      BY <2>2, <3>1
  <2>4. CASE CloseReceiver(c, Head(recvQueue[c]))
    BY <2>2, <2>4 DEF CloseReceiver, notWaking
  <2>5. CASE CloseDone(x)
    BY <1>2, <2>5, FramesFree DEF CloseDone
  <2> QED
    BY <1>7, <2>3, <2>4, <2>5 DEF CloseStep
<1> QED
  BY <1>3, <1>4, <1>5, <1>6, <1>7 DEF Operation

(* So does every select.                                                   *)
LEMMA FramesSelect ==
    ASSUME ChanCore, CloseInv, FramesInv, NEW g \in Goroutine,
           NEW cases \in SelectCases, Select(g, cases), UNCHANGED torn
    PROVE  FramesInv'
<1> DEFINE all == {cases[i] : i \in DOMAIN cases}
<1>1. /\ Free(g)
      /\ \/ \E case \in all : RecvOn(g, case.ch) \/ SendOn(g, case.ch, sends + 1)
         \/ UNCHANGED frame
  BY Zenon DEF Select
<1>2. \A case \in all : case \in [ch : Chan, dir : {"send", "recv"}]
  OBVIOUS
<1>3. /\ g \in Contexts /\ g # NoGoroutine /\ ~halted /\ frame[g] = NoFrame
      /\ curGoroutine = g
  BY <1>1 DEF Contexts, Free, InGo, InCallback, Running
<1>4. ASSUME NEW case \in all, RecvOn(g, case.ch) PROVE FramesInv'
  <2>1. case.ch \in Chan
    BY <1>2
  <2> QED
    BY <1>3, <1>4, <2>1, FramesRecvOn
<1>5. ASSUME NEW case \in all, SendOn(g, case.ch, sends + 1) PROVE FramesInv'
  BY <1>3, <1>5, FramesSendOn
<1>6. CASE UNCHANGED frame
  <2>1. frame' = [frame EXCEPT ![g] = NoFrame]
    BY <1>3, <1>6 DEF ChanCore, ChanTypes
  <2> QED
    BY <1>3, <2>1, FramesFree
<1> QED
  BY <1>1, <1>4, <1>5, <1>6

(* Goroutines are switched only between two operations.                    *)
LEMMA FramesOther ==
    ASSUME ChanCore, FramesInv, RunGoroutine \/ RunNoGoroutine \/ Between
    PROVE  FramesInv'
<1>1. frame \in [Contexts -> Frame] /\ RunOrder /\ NoFrame.op # "recv"
  BY DEF ChanCore, ChanTypes, SchedInv, NoFrame
<1>2. UNCHANGED closed /\ (frame' = frame \/ frame' = [frame EXCEPT ![NoGoroutine] = NoFrame])
  BY OtherKeeps
<1>3. curGoroutine = NoGoroutine \/ \E x \in Goroutine : Free(x)
  BY <1>1 DEF RunOrder, RunGoroutine, RunNoGoroutine, Between, RunNext, Looping, LoopEnd,
              FireRun, CallbackEnter, CallbackReturn, Idle, InCallback
<1>4. \A g \in Goroutine : frame[g] = NoFrame
  BY <1>3 DEF FramesInv, Free
<1>5. \A g \in Goroutine : frame'[g] = NoFrame
  BY <1>1, <1>2, <1>4 DEF Contexts
<1>6. frame'[NoGoroutine] = frame[NoGoroutine] \/ frame'[NoGoroutine] = NoFrame
  BY <1>1, <1>2 DEF Contexts
<1> QED
  BY <1>1, <1>2, <1>5, <1>6 DEF FramesInv

(* The callee of $recv comes back before anybody could close the channel   *)
(* it took a value for: a goroutine is not interrupted, and callbacks are  *)
(* assumed not to receive from channels that the program closes.           *)
THEOREM ChannelsFrames ==
    ASSUME SelectSafe, CallbackRecvSafe
    PROVE  ChanSpec => []FramesInv
<1>1. ChanInit => FramesInv
  BY DEF ChanInit, FramesInv, NoFrame, Contexts
<1>2. ASSUME ChanCore, CloseInv, FramesInv, [ChanNext]_allVars PROVE FramesInv'
  <2>1. ASSUME NEW g \in Goroutine, Resume(g), UNCHANGED torn PROVE FramesInv'
    BY <1>2, <2>1 DEF Resume, vars, FramesInv, Told, Closing
  <2>2. CASE UNCHANGED allVars
    BY <1>2, <2>2 DEF allVars, chanVars, vars, FramesInv, Told, Closing
  <2> QED
    BY <1>2, <2>1, <2>2, FramesOther, FramesOperation, FramesSelect DEF ChanNext
<1> QED
  BY <1>1, <1>2, ChannelsCore, ClosesTellAll, PTL DEF ChanSpec

(* What the pipe has taken: what has come out of it and what is inside.    *)
LEMMA PipeSeq ==
    ASSUME NEW S, NEW r \in Seq(S), NEW b \in Seq(S)
    PROVE  /\ \A v \in S : r \o Append(b, v) = Append(r \o b, v)
           /\ Len(r \o b) = Len(r) + Len(b)
           /\ b # <<>> => /\ Append(r, Head(b)) \o Tail(b) = r \o b
                          /\ (r \o b)[Len(r) + 1] = Head(b)
<1>1. Len(r \o b) = Len(r) + Len(b) /\ r \o b \in Seq(S)
  BY ConcatProperties
<1>2. ASSUME NEW v \in S PROVE r \o Append(b, v) = Append(r \o b, v)
  <2>1. <<v>> \in Seq(S)
    OBVIOUS
  <2>2. r \o Append(b, v) = r \o (b \o <<v>>)
    BY AppendIsConcat
  <2>3. Append(r \o b, v) = (r \o b) \o <<v>>
    BY <1>1, AppendIsConcat
  <2> QED
    BY <2>1, <2>2, <2>3, ConcatAssociative
<1>3. ASSUME b # <<>>
      PROVE  /\ Append(r, Head(b)) \o Tail(b) = r \o b
             /\ (r \o b)[Len(r) + 1] = Head(b)
  <2>1. /\ Head(b) \in S /\ Tail(b) \in Seq(S) /\ Len(Tail(b)) = Len(b) - 1
        /\ Head(b) = b[1] /\ Len(b) >= 1 /\ <<Head(b)>> \in Seq(S)
    BY <1>3
  <2>2. <<Head(b)>> \o Tail(b) = b
    <3>1. \A i \in 1 .. Len(b) - 1 : Tail(b)[i] = b[i + 1]
      BY <1>3
    <3>2. Len(<<Head(b)>> \o Tail(b)) = Len(b) /\ <<Head(b)>> \o Tail(b) \in Seq(S)
      BY <2>1
    <3>3. ASSUME NEW i \in 1 .. Len(b) PROVE (<<Head(b)>> \o Tail(b))[i] = b[i]
      <4>1. CASE i = 1
        BY <2>1, <4>1
      <4>2. CASE i # 1
        BY <2>1, <3>1, <4>2
      <4> QED
        BY <4>1, <4>2
    <3> QED
      BY <3>2, <3>3, SeqEqual
  <2>3. Append(r, Head(b)) = r \o <<Head(b)>>
    BY <2>1, AppendIsConcat
  <2>4. (r \o <<Head(b)>>) \o Tail(b) = r \o (<<Head(b)>> \o Tail(b))
    BY <2>1, ConcatAssociative
  <2>5. (r \o b)[Len(r) + 1] = b[1]
    BY <2>1, ConcatProperties
  <2> QED
    BY <2>1, <2>2, <2>3, <2>4, <2>5
<1> QED
  BY <1>1, <1>2, <1>3

(* The closed channels of the pipe stay when no channel's Told changes.     *)
LEMMA ToldUnchanged ==
    ASSUME \A c \in Chan : Told(c)' <=> Told(c)
    PROVE  UNCHANGED [c \in Chan |-> Told(c)]
<1>1. ASSUME NEW c \in Chan PROVE Told(c)' = Told(c)
  <2>1. Told(c)' \in BOOLEAN /\ Told(c) \in BOOLEAN
    BY Zenon DEF Told
  <2> QED
    BY <2>1
<1> QED
  BY <1>1, Zenon

(* An operation that begins or ends no close leaves the closed channels.   *)
LEMMA ToldSame ==
    ASSUME frame \in [Contexts -> Frame], NEW x \in Contexts, frame[x].op # "close",
           \/ frame' = frame
           \/ \E f : frame' = [frame EXCEPT ![x] = f] /\ f.op # "close",
           UNCHANGED <<closed, torn>>
    PROVE  UNCHANGED [c \in Chan |-> Told(c)]
<1>1. \A y \in Contexts : frame'[y] = frame[y]
                          \/ (frame'[y].op # "close" /\ frame[y].op # "close")
  OBVIOUS
<1>2. \A c \in Chan : Closing(c)' <=> Closing(c)
  BY <1>1 DEF Closing
<1>3. \A c \in Chan : Told(c)' <=> Told(c)
  BY <1>2 DEF Told
<1> QED
  BY <1>3, ToldUnchanged

(* The end of a close shows at most the channel it closed.                 *)
LEMMA ToldClosed ==
    ASSUME ChanTypes, NEW x \in Contexts, frame' = [frame EXCEPT ![x] = NoFrame],
           UNCHANGED <<closed, torn, rcvd, buffer>>
    PROVE  [Pipes!PipeNext]_Pipes!pipeVars
<1> DEFINE told == [c \in Chan |-> Told(c)]
<1>1. frame \in [Contexts -> Frame] /\ NoFrame.op # "close"
  BY DEF ChanTypes, NoFrame
<1>2. UNCHANGED [c \in Chan |-> rcvd[c] \o buffer[c]]
  OBVIOUS
<1>3. CASE frame[x].op # "close"
  <2>1. UNCHANGED told
    BY <1>1, <1>3, ToldSame
  <2> QED
    BY <1>2, <2>1 DEF Pipes!pipeVars
<1>4. CASE frame[x].op = "close"
  <2>1. PICK d \in Chan : frame[x] = [op |-> "close", ch |-> d]
    BY <1>1, <1>4, ChanAssumption DEF Frame, NoFrame
  <2>2. \A c \in Chan : c # d => (Closing(c)' <=> Closing(c))
    <3>1. \A y \in Contexts : y # x => frame'[y] = frame[y]
      BY <1>1
    <3>2. frame'[x] = NoFrame
      BY <1>1
    <3> QED
      BY <1>1, <2>1, <3>1, <3>2 DEF Closing
  <2>3. Closing(d)
    BY <2>1 DEF Closing
  <2>4. CASE Closing(d)' \/ ~closed[d] \/ d \in torn
    <3>1. \A c \in Chan : Told(c)' <=> Told(c)
      BY <2>2, <2>3, <2>4 DEF Told
    <3>2. UNCHANGED told
      BY <3>1, ToldUnchanged
    <3> QED
      BY <1>2, <3>2 DEF Pipes!pipeVars
  <2>5. CASE ~Closing(d)' /\ closed[d] /\ d \notin torn
    <3>1. ~told[d] /\ told' = [told EXCEPT ![d] = TRUE]
      <4>1. \A c \in Chan : c # d => (Told(c)' <=> Told(c))
        BY <2>2 DEF Told
      <4>2. Told(d)'
        BY <2>5 DEF Told
      <4>3. ~Told(d)
        BY <2>3 DEF Told
      <4>4. ASSUME NEW c \in Chan
            PROVE  Told(c)' = [told EXCEPT ![d] = TRUE][c]
        <5>1. Told(c)' \in BOOLEAN /\ Told(c) \in BOOLEAN
          BY Zenon DEF Told
        <5>2. CASE c = d
          BY <4>2, <5>1, <5>2
        <5>3. CASE c # d
          BY <4>1, <5>1, <5>3
        <5> QED
          BY <5>2, <5>3
      <4>5. [told EXCEPT ![d] = TRUE] = [c \in Chan |-> [told EXCEPT ![d] = TRUE][c]]
        OBVIOUS
      <4>6. told' = [c \in Chan |-> [told EXCEPT ![d] = TRUE][c]]
        BY <4>4, Zenon
      <4> QED
        BY <4>3, <4>5, <4>6
    <3>2. Pipes!CloseChan(d)
      BY <1>2, <3>1 DEF Pipes!CloseChan
    <3> QED
      BY <2>1, <3>2 DEF Pipes!PipeNext
  <2> QED
    BY <2>4, <2>5
<1> QED
  BY <1>3, <1>4

(* A $close that an exception ends is never seen: its channel is torn.     *)
LEMMA ToldTorn ==
    ASSUME ChanTypes, UNCHANGED closed,
           frame' = [frame EXCEPT ![NoGoroutine] = NoFrame],
           torn' = torn \cup (IF frame[NoGoroutine].op = "close"
                             THEN {frame[NoGoroutine].ch} ELSE {})
    PROVE  UNCHANGED [c \in Chan |-> Told(c)]
<1>1. /\ frame \in [Contexts -> Frame] /\ NoFrame.op # "close"
      /\ NoGoroutine \in Contexts
  BY DEF ChanTypes, NoFrame, Contexts
<1>2. CASE frame[NoGoroutine].op # "close"
  <2>1. torn' = torn
    BY <1>2
  <2> QED
    BY <1>1, <1>2, <2>1, ToldSame
<1>3. CASE frame[NoGoroutine].op = "close"
  <2>1. PICK d \in Chan : frame[NoGoroutine] = [op |-> "close", ch |-> d]
    BY <1>1, <1>3, ChanAssumption DEF Frame, NoFrame
  <2>2. torn' = torn \cup {d}
    BY <1>3, <2>1
  <2>3. ~Told(d) /\ ~Told(d)'
    BY <1>1, <2>1, <2>2 DEF Told, Closing
  <2>4. ASSUME NEW c \in Chan, c # d PROVE Told(c)' <=> Told(c)
    <3>1. \A y \in Contexts : frame'[y] = [op |-> "close", ch |-> c]
                             <=> frame[y] = [op |-> "close", ch |-> c]
      <4>1. frame'[NoGoroutine] = NoFrame
            /\ \A y \in Contexts : y # NoGoroutine => frame'[y] = frame[y]
        BY <1>1
      <4> QED
        BY <1>1, <2>1, <2>4, <4>1
    <3>2. Closing(c)' <=> Closing(c)
      BY <3>1 DEF Closing
    <3>3. c \in torn' <=> c \in torn
      BY <2>2, <2>4
    <3> QED
      BY <3>2, <3>3 DEF Told
  <2>5. \A c \in Chan : Told(c)' <=> Told(c)
    BY <2>3, <2>4
  <2> QED
    BY <2>5, ToldUnchanged
<1> QED
  BY <1>2, <1>3

(* What a value that moves through a channel is to the pipe.               *)
LEMMA PipeMoves ==
    ASSUME ChanTypes, NEW c \in Chan, NEW v \in Value,
           UNCHANGED [d \in Chan |-> Told(d)]
    PROVE  /\ UNCHANGED <<rcvd, buffer>> => UNCHANGED Pipes!pipeVars
           /\ /\ UNCHANGED rcvd /\ buffer' = [buffer EXCEPT ![c] = Append(@, v)]
              /\ ~closed[c] /\ Len(buffer[c]) < Capacity[c]
              => Pipes!Accept(c, v)
           /\ /\ buffer[c] # <<>>
              /\ rcvd' = [rcvd EXCEPT ![c] = Append(@, Head(buffer[c]))]
              /\ buffer' = [buffer EXCEPT ![c] = Tail(@)]
              => Pipes!Deliver(c)
           /\ /\ ~Told(c)
              /\ rcvd' = [rcvd EXCEPT ![c] = Append(@, Head(Append(buffer[c], v)))]
              /\ buffer' = [buffer EXCEPT ![c] = Tail(Append(@, v))]
              => Pipes!Exchange(c, v)
<1> DEFINE inside == [d \in Chan |-> rcvd[d] \o buffer[d]]
<1>1. /\ buffer \in [Chan -> Seq(Value)] /\ rcvd \in [Chan -> Seq(Value)]
      /\ Len(buffer[c]) \in Nat /\ Len(rcvd[c]) \in Nat
  BY DEF ChanTypes
<1>2. /\ rcvd[c] \o Append(buffer[c], v) = Append(inside[c], v)
      /\ Len(inside[c]) = Len(rcvd[c]) + Len(buffer[c])
  BY <1>1, PipeSeq
<1>3. ASSUME UNCHANGED <<rcvd, buffer>> PROVE UNCHANGED Pipes!pipeVars
  BY <1>3 DEF Pipes!pipeVars
<1>4. ASSUME UNCHANGED rcvd, buffer' = [buffer EXCEPT ![c] = Append(@, v)],
             ~closed[c], Len(buffer[c]) < Capacity[c]
      PROVE  Pipes!Accept(c, v)
  <2>1. buffer'[c] = Append(buffer[c], v) /\ \A d \in Chan : d # c => buffer'[d] = buffer[d]
    BY <1>1, <1>4
  <2>2. inside' = [inside EXCEPT ![c] = Append(@, v)]
    <3>1. \A d \in Chan : rcvd'[d] \o buffer'[d]
                          = IF d = c THEN Append(inside[c], v) ELSE inside[d]
      <4>1. rcvd' = rcvd
        BY <1>4
      <4>2. rcvd[c] \o buffer'[c] = Append(inside[c], v)
        BY <1>2, <2>1
      <4>3. \A d \in Chan : d # c => rcvd[d] \o buffer'[d] = inside[d]
        BY <2>1
      <4> HIDE DEF inside
      <4> QED
        BY <4>1, <4>2, <4>3
    <3> QED
      BY <3>1
  <2>3. Len(inside[c]) - Len(rcvd[c]) < Capacity[c]
    BY <1>1, <1>2, <1>4
  <2>4. ~Told(c)
    BY <1>4 DEF Told
  <2> QED
    BY <1>4, <2>2, <2>3, <2>4 DEF Pipes!Accept
<1>5. ASSUME buffer[c] # <<>>,
             rcvd' = [rcvd EXCEPT ![c] = Append(@, Head(buffer[c]))],
             buffer' = [buffer EXCEPT ![c] = Tail(@)]
      PROVE  Pipes!Deliver(c)
  <2>1. /\ buffer'[c] = Tail(buffer[c]) /\ \A d \in Chan : d # c => buffer'[d] = buffer[d]
        /\ rcvd'[c] = Append(rcvd[c], Head(buffer[c]))
        /\ \A d \in Chan : d # c => rcvd'[d] = rcvd[d]
    BY <1>1, <1>5
  <2>2. /\ Append(rcvd[c], Head(buffer[c])) \o Tail(buffer[c]) = inside[c]
        /\ inside[c][Len(rcvd[c]) + 1] = Head(buffer[c])
    BY <1>1, <1>5, PipeSeq
  <2>3. inside' = inside
    <3>1. \A d \in Chan : rcvd'[d] \o buffer'[d] = inside[d]
      BY <2>1, <2>2
    <3> QED
      BY <3>1
  <2>4. Len(buffer[c]) > 0
    BY <1>1, <1>5
  <2>5. Len(rcvd[c]) < Len(inside[c])
    BY <1>1, <1>2, <2>4
  <2> QED
    BY <1>5, <2>2, <2>3, <2>5 DEF Pipes!Deliver, Pipes!Next
<1>6. ASSUME ~Told(c),
             rcvd' = [rcvd EXCEPT ![c] = Append(@, Head(Append(buffer[c], v)))],
             buffer' = [buffer EXCEPT ![c] = Tail(Append(@, v))]
      PROVE  Pipes!Exchange(c, v)
  <2> DEFINE b == Append(buffer[c], v)
  <2>1. /\ buffer'[c] = Tail(b) /\ \A d \in Chan : d # c => buffer'[d] = buffer[d]
        /\ rcvd'[c] = Append(rcvd[c], Head(b))
        /\ \A d \in Chan : d # c => rcvd'[d] = rcvd[d]
    BY <1>1, <1>6
  <2>2. b \in Seq(Value) /\ b # <<>>
    <3>1. buffer[c] \in Seq(Value)
      BY <1>1
    <3> QED
      BY <3>1, AppendProperties
  <2>3. /\ Append(rcvd[c], Head(b)) \o Tail(b) = Append(inside[c], v)
        /\ Append(inside[c], v)[Len(rcvd[c]) + 1] = Head(b)
    <3> HIDE DEF b
    <3>0. rcvd[c] \in Seq(Value)
      BY <1>1
    <3>1. /\ Append(rcvd[c], Head(b)) \o Tail(b) = rcvd[c] \o b
          /\ (rcvd[c] \o b)[Len(rcvd[c]) + 1] = Head(b)
      <4> DEFINE r == rcvd[c]
      <4>1. r \in Seq(Value)
        BY <3>0
      <4> HIDE DEF r
      <4>2. Append(r, Head(b)) \o Tail(b) = r \o b /\ (r \o b)[Len(r) + 1] = Head(b)
        BY <2>2, <4>1, PipeSeq
      <4> QED
        BY <4>2 DEF r
    <3> QED
      BY <1>2, <3>1 DEF b
  <2>4. inside' = [inside EXCEPT ![c] = Append(@, v)]
    <3>1. \A d \in Chan : rcvd'[d] \o buffer'[d]
                          = IF d = c THEN Append(inside[c], v) ELSE inside[d]
      <4> HIDE DEF b
      <4> QED
        BY <2>1, <2>3
    <3> QED
      BY <3>1
  <2>5. rcvd' = [rcvd EXCEPT ![c] = Append(@, Append(inside[c], v)[Len(@) + 1])]
    BY <1>6, <2>3
  <2> QED
    BY <1>6, <2>4, <2>5 DEF Pipes!Exchange
<1> QED
  BY <1>3, <1>4, <1>5, <1>6

(* $send is a step of the pipe, or none.                                   *)
LEMMA PipeSendOn ==
    ASSUME ChanCore, FlowInv, NEW x \in Contexts, NEW c \in Chan, NEW v \in Value,
           frame[x] = NoFrame, SendOn(x, c, v), UNCHANGED torn
    PROVE  [Pipes!PipeNext]_Pipes!pipeVars
<1>1. /\ ChanTypes /\ frame \in [Contexts -> Frame] /\ buffer \in [Chan -> Seq(Value)]
      /\ frame[x].op # "close"
  BY DEF ChanCore, ChanTypes, NoFrame
<1>2. UNCHANGED <<frame, closed>>
  BY DEF SendOn, SendPanics, HandOver, Fill, WaitToSend, queues
<1>3. UNCHANGED [d \in Chan |-> Told(d)]
  BY <1>1, <1>2, ToldSame
<1>4. CASE SendPanics(c)
  BY <1>1, <1>3, <1>4, PipeMoves DEF SendPanics, queues, history
<1>5. CASE ~closed[c] /\ recvQueue[c] # <<>> /\ HandOver(c, v)
  <2>1. buffer[c] = <<>>
    BY <1>5 DEF FlowInv, Matched
  <2>2. Head(Append(buffer[c], v)) = v /\ Tail(Append(buffer[c], v)) = buffer[c]
    BY <2>1
  <2>3. /\ rcvd' = [rcvd EXCEPT ![c] = Append(@, v)] /\ UNCHANGED buffer
    BY <1>5 DEF HandOver
  <2>4. buffer' = [buffer EXCEPT ![c] = Tail(Append(@, v))]
    BY <1>1, <2>2, <2>3
  <2>5. ~Told(c)
    BY <1>5 DEF Told
  <2>6. Pipes!Exchange(c, v)
    BY <1>1, <1>3, <2>2, <2>3, <2>4, <2>5, PipeMoves
  <2> QED
    BY <2>6 DEF Pipes!PipeNext, Value
<1>6. CASE ~closed[c] /\ Len(buffer[c]) < Capacity[c] /\ Fill(c, v)
  <2>1. Pipes!Accept(c, v)
    BY <1>1, <1>3, <1>6, PipeMoves DEF Fill
  <2> QED
    BY <2>1 DEF Pipes!PipeNext, Value
<1>7. CASE WaitToSend(x, c, v)
  BY <1>1, <1>3, <1>7, PipeMoves DEF WaitToSend, history
<1> QED
  BY <1>4, <1>5, <1>6, <1>7 DEF SendOn

(* A receive that finds values in the buffer, or none.                     *)
LEMMA PipeTakeFrom ==
    ASSUME ChanCore, UndefinedSends = {}, NEW x \in Contexts, NEW c \in Chan,
           frame[x].op # "close", TakeFrom(x, c, buffer[c]), UNCHANGED torn
    PROVE  [Pipes!PipeNext]_Pipes!pipeVars
<1>1. /\ ChanTypes /\ frame \in [Contexts -> Frame] /\ buffer \in [Chan -> Seq(Value)]
      /\ NoFrame.op # "close"
  BY DEF ChanCore, ChanTypes, NoFrame
<1>2. frame' = [frame EXCEPT ![x] = NoFrame] /\ UNCHANGED closed
  BY DEF TakeFrom, queues
<1>3. UNCHANGED [d \in Chan |-> Told(d)]
  BY <1>1, <1>2, ToldSame
<1>4. 1 \in Value
  BY ChanAssumption DEF Value
<1>5. CASE buffer[c] # <<>>
  <2>1. /\ rcvd' = [rcvd EXCEPT ![c] = Append(@, Head(buffer[c]))]
        /\ buffer' = [buffer EXCEPT ![c] = Tail(@)]
    BY <1>5 DEF TakeFrom
  <2>2. Pipes!Deliver(c)
    BY <1>1, <1>3, <1>4, <1>5, <2>1, PipeMoves
  <2> QED
    BY <2>2 DEF Pipes!PipeNext
<1>6. CASE buffer[c] = <<>>
  <2>1. UNCHANGED rcvd
    BY <1>6 DEF TakeFrom, history
  <2>2. UNCHANGED buffer
    BY <1>1, <1>6 DEF TakeFrom
  <2> QED
    BY <1>1, <1>3, <1>4, <2>1, <2>2, PipeMoves
<1> QED
  BY <1>5, <1>6

(* The first half of $recv is a step of the pipe, or none.                 *)
LEMMA PipeRecvOn ==
    ASSUME ChanCore, UndefinedSends = {}, NEW x \in Contexts, NEW c \in Chan,
           frame[x] = NoFrame, RecvOn(x, c), UNCHANGED torn
    PROVE  [Pipes!PipeNext]_Pipes!pipeVars
<1>1. /\ ChanTypes /\ frame \in [Contexts -> Frame] /\ frame[x].op # "close"
      /\ 1 \in Value
  BY ChanAssumption DEF ChanCore, ChanTypes, NoFrame, Value
<1>2. CASE RecvPanics(c)
  <2>1. UNCHANGED <<frame, closed, rcvd, buffer>>
    BY <1>2 DEF RecvPanics, history
  <2>2. UNCHANGED [d \in Chan |-> Told(d)]
    BY <1>1, <2>1, ToldSame
  <2> QED
    BY <1>1, <2>1, <2>2, PipeMoves
<1>3. ASSUME NEW e, TakeFromSender(x, c, e, e.val)
      PROVE  [Pipes!PipeNext]_Pipes!pipeVars
  <2>1. /\ UNCHANGED <<closed, rcvd, buffer>>
        /\ frame' = [frame EXCEPT ![x] = [op |-> "recv", ch |-> c, val |-> e.val]]
    BY <1>3 DEF TakeFromSender
  <2>2. [op |-> "recv", ch |-> c, val |-> e.val].op # "close"
    OBVIOUS
  <2>3. UNCHANGED [d \in Chan |-> Told(d)]
    BY <1>1, <2>1, <2>2, ToldSame
  <2> QED
    BY <1>1, <2>1, <2>3, PipeMoves
<1>4. CASE TakeFrom(x, c, buffer[c])
  BY <1>1, <1>4, PipeTakeFrom
<1> QED
  BY <1>2, <1>3, <1>4 DEF RecvOn

(* A value that was held between a sender and the buffer goes through the  *)
(* channel at once: nobody has closed the channel meanwhile.               *)
LEMMA PipeFinish ==
    ASSUME ChanCore, FramesInv, UndefinedSends = {}, NEW x \in Contexts, RecvFinish(x),
           UNCHANGED torn
    PROVE  [Pipes!PipeNext]_Pipes!pipeVars
<1>1. /\ ChanTypes /\ frame \in [Contexts -> Frame] /\ frame[x].op # "close"
      /\ NoFrame.op # "close" /\ frame[x].op = "recv" /\ buffer \in [Chan -> Seq(Value)]
  BY DEF ChanCore, ChanTypes, NoFrame, RecvFinish
<1>2. PICK c \in Chan, v \in Value : c = frame[x].ch /\ v = frame[x].val
  BY <1>1, FrameTyped
<1>3. TakeFrom(x, c, Append(buffer[c], v)) /\ ~halted
  BY <1>2 DEF RecvFinish, InGo, InCallback, Running
<1>4. Append(buffer[c], v) # <<>>
  BY <1>1, AppendProperties
<1>5. /\ frame' = [frame EXCEPT ![x] = NoFrame] /\ UNCHANGED closed
      /\ rcvd' = [rcvd EXCEPT ![c] = Append(@, Head(Append(buffer[c], v)))]
      /\ buffer' = [buffer EXCEPT ![c] = Tail(Append(buffer[c], v))]
  BY <1>3, <1>4 DEF TakeFrom
<1>6. buffer' = [buffer EXCEPT ![c] = Tail(Append(@, v))]
  BY <1>1, <1>5
<1>7. ~Told(c)
  <2>1. CASE x = NoGoroutine
    BY <1>1, <1>2, <2>1 DEF FramesInv, ChanCore, SelectInv, Told
  <2>2. CASE x \in Goroutine
    BY <1>1, <1>2, <1>3, <2>2 DEF FramesInv
  <2> QED
    BY <2>1, <2>2 DEF Contexts
<1>8. UNCHANGED [d \in Chan |-> Told(d)]
  BY <1>1, <1>5, ToldSame
<1>9. Pipes!Exchange(c, v)
  BY <1>1, <1>5, <1>6, <1>7, <1>8, PipeMoves
<1> QED
  BY <1>9 DEF Pipes!PipeNext, Value

(* What touches neither values, frames nor flags is no step of the pipe.   *)
LEMMA PipeStill ==
    ASSUME ChanTypes, UNCHANGED <<frame, closed, torn, rcvd, buffer>>
    PROVE  UNCHANGED Pipes!pipeVars
<1>1. UNCHANGED [c \in Chan |-> Told(c)]
  BY DEF Told, Closing
<1>2. NilChan \in Chan /\ 1 \in Value
  BY ChanAssumption DEF Value
<1> QED
  BY <1>1, <1>2, PipeMoves

(* The flag of $close is not yet seen.                                     *)
LEMMA PipeClose ==
    ASSUME ChanCore, NEW x \in Contexts, NEW c \in Chan, Close(x, c),
           UNCHANGED torn
    PROVE  UNCHANGED Pipes!pipeVars
<1>1. /\ ChanTypes /\ frame \in [Contexts -> Frame] /\ closed \in [Chan -> BOOLEAN]
      /\ NilChan \in Chan /\ 1 \in Value
  BY ChanAssumption DEF ChanCore, ChanTypes, Value
<1>2. /\ frame[x].op # "close" /\ ~closed[c] /\ UNCHANGED <<rcvd, buffer>>
      /\ frame' = [frame EXCEPT ![x] = [op |-> "close", ch |-> c]]
      /\ closed' = [closed EXCEPT ![c] = TRUE]
  BY DEF Close, Free, NoFrame, history
<1>3. frame'[x] = [op |-> "close", ch |-> c] /\ \A y \in Contexts : y # x => frame'[y] = frame[y]
  BY <1>1, <1>2
<1>4. Closing(c)'
  BY <1>3 DEF Closing
<1>5. ASSUME NEW d \in Chan, d # c PROVE closed'[d] = closed[d] /\ (Closing(d)' <=> Closing(d))
  <2>1. \A y \in Contexts : frame'[y] = [op |-> "close", ch |-> d]
                           <=> frame[y] = [op |-> "close", ch |-> d]
    BY <1>2, <1>3, <1>5
  <2> QED
    BY <1>1, <1>2, <1>5, <2>1 DEF Closing
<1>6. \A d \in Chan : Told(d)' <=> Told(d)
  BY <1>2, <1>4, <1>5 DEF Told
<1>7. UNCHANGED [d \in Chan |-> Told(d)]
  BY <1>6, ToldUnchanged
<1> QED
  BY <1>1, <1>2, <1>7, PipeMoves

(* Every operation of a goroutine or of a callback is a step of the pipe,  *)
(* or none.                                                                *)
LEMMA PipeOperation ==
    ASSUME ChanCore, FlowInv, FramesInv, UndefinedSends = {}, NEW x \in Contexts,
           Operation(x), UNCHANGED torn
    PROVE  [Pipes!PipeNext]_Pipes!pipeVars
<1>1. ChanTypes
  BY DEF ChanCore
<1>2. ASSUME NEW c \in Chan, Send(x, c) PROVE [Pipes!PipeNext]_Pipes!pipeVars
  <2>1. sends + 1 \in Value
    BY <1>1, <1>2, ChanAssumption DEF Send, ChanTypes, Value
  <2>2. frame[x] = NoFrame /\ SendOn(x, c, sends + 1)
    BY <1>2 DEF Send, Free
  <2> QED
    BY <2>1, <2>2, PipeSendOn
<1>3. ASSUME NEW c \in Chan, Recv(x, c) PROVE [Pipes!PipeNext]_Pipes!pipeVars
  BY <1>3, PipeRecvOn DEF Recv, Free
<1>4. ASSUME NEW c \in Chan, Close(x, c) PROVE [Pipes!PipeNext]_Pipes!pipeVars
  BY <1>4, PipeClose
<1>5. ASSUME CloseStep(x) PROVE [Pipes!PipeNext]_Pipes!pipeVars
  <2>1. UNCHANGED <<closed, rcvd, buffer>>
    BY <1>5 DEF CloseStep, history
  <2>2. \/ UNCHANGED frame
        \/ frame' = [frame EXCEPT ![x] = NoFrame]
    BY <1>5 DEF CloseStep, CloseSender, CloseReceiver, CloseDone
  <2> QED
    BY <1>1, <2>1, <2>2, PipeStill, ToldClosed
<1> QED
  BY <1>2, <1>3, <1>4, <1>5, PipeFinish DEF Operation

(* So is every select.                                                     *)
LEMMA PipeSelect ==
    ASSUME ChanCore, FlowInv, UndefinedSends = {}, NEW g \in Goroutine,
           NEW cases \in SelectCases, Select(g, cases), UNCHANGED torn
    PROVE  [Pipes!PipeNext]_Pipes!pipeVars
<1> DEFINE all     == {cases[i] : i \in DOMAIN cases}
           sending == {case \in all : case.dir = "send"}
<1>1. /\ Free(g) /\ (sending # {} => sends + 1 <= MaxSends)
      /\ \/ \E case \in all : IF case.dir = "recv" THEN RecvOn(g, case.ch)
                                                   ELSE SendOn(g, case.ch, sends + 1)
         \/ UNCHANGED <<closed, buffer, frame, history>>
  BY Zenon DEF Select
<1>2. \A case \in all : case \in [ch : Chan, dir : {"send", "recv"}]
  BY ChanAssumption
<1>3. g \in Contexts /\ frame[g] = NoFrame /\ ChanTypes
  BY <1>1 DEF Contexts, Free, ChanCore
<1>4. ASSUME NEW case \in all, case.dir = "recv", RecvOn(g, case.ch)
      PROVE  [Pipes!PipeNext]_Pipes!pipeVars
  <2>1. case.ch \in Chan
    BY <1>2
  <2> QED
    BY <1>3, <1>4, <2>1, PipeRecvOn
<1>5. ASSUME NEW case \in all, case.dir # "recv", SendOn(g, case.ch, sends + 1)
      PROVE  [Pipes!PipeNext]_Pipes!pipeVars
  <2>1. case.ch \in Chan /\ case \in sending
    BY <1>2, <1>5
  <2>2. sends + 1 \in Value
    BY <1>1, <1>3, <2>1, ChanAssumption DEF ChanTypes, Value
  <2> QED
    BY <1>3, <1>5, <2>1, <2>2, PipeSendOn
<1>6. CASE UNCHANGED <<closed, buffer, frame, history>>
  BY <1>3, <1>6, PipeStill DEF history
<1> QED
  BY <1>1, <1>4, <1>5, <1>6

(* The scheduler moves no value.                                           *)
LEMMA PipeOther ==
    ASSUME ChanCore, RunGoroutine \/ RunNoGoroutine \/ Between
    PROVE  [Pipes!PipeNext]_Pipes!pipeVars
<1>1. ChanTypes /\ NoGoroutine \in Contexts
  BY DEF ChanCore, Contexts
<1>2. UNCHANGED <<closed, rcvd, buffer>>
  BY OtherKeeps DEF queues, history
<1>3. CASE frame' = frame /\ torn' = torn
  BY <1>1, <1>2, <1>3, PipeStill
<1>4. CASE ~(frame' = frame /\ torn' = torn)
  <2>1. UNCHANGED [c \in Chan |-> Told(c)]
    BY <1>1, <1>2, <1>4, OtherTears, ToldTorn
  <2>2. NilChan \in Chan /\ 1 \in Value
    BY ChanAssumption DEF Value
  <2> QED
    BY <1>1, <1>2, <2>1, <2>2, PipeMoves
<1> QED
  BY <1>3, <1>4

(* A channel is a FIFO pipe of bounded capacity: $send, $recv and $select  *)
(* hand every value over once and in the order sent, and the buffer never  *)
(* holds more than $capacity, however goroutines and callbacks interleave. *)
THEOREM ImplementsPipe ==
    ASSUME SelectSafe, UndefinedSends = {}, CallbackRecvSafe
    PROVE  ChanSpec => RefinesPipe
<1>1. ChanInit => Pipes!PipeInit
  <2> SUFFICES ASSUME ChanInit PROVE Pipes!PipeInit
    OBVIOUS
  <2>1. [c \in Chan |-> rcvd[c] \o buffer[c]] = [c \in Chan |-> <<>>]
    BY DEF ChanInit
  <2>2. \A c \in Chan : Told(c) = FALSE
    BY DEF ChanInit, Told
  <2>3. [c \in Chan |-> Told(c)] = [c \in Chan |-> FALSE]
    BY <2>2, Zenon
  <2> QED
    BY <2>1, <2>3 DEF ChanInit, Pipes!PipeInit
<1>2. ASSUME ChanCore, FlowInv, FramesInv, [ChanNext]_allVars
      PROVE  [Pipes!PipeNext]_Pipes!pipeVars
  <2>1. ChanTypes
    BY <1>2 DEF ChanCore
  <2>2. ASSUME NEW g \in Goroutine, Resume(g), UNCHANGED torn
        PROVE  UNCHANGED Pipes!pipeVars
    BY <2>1, <2>2, PipeStill DEF Resume, queues, history
  <2>3. CASE UNCHANGED allVars
    BY <2>1, <2>3, PipeStill DEF allVars, chanVars, queues, history
  <2> QED
    BY <1>2, <2>2, <2>3, PipeOther, PipeOperation, PipeSelect DEF ChanNext
<1> QED
  BY <1>1, <1>2, ChannelsCore, ChannelsFlow, ChannelsFrames, PTL
  DEF ChanSpec, RefinesPipe, Pipes!PipeSpec
-----------------------------------------------------------------------------
(* Who was woken goes on, also where the program goes on after exceptions  *)
(* and $noGoroutine is queued.                                             *)

(* Who is awake runs, is queued or was ended by an exception; who was      *)
(* ended by one had nothing to resume and is never queued again.           *)
WokenInv == \A g \in Goroutine :
    /\ g \in live /\ ~asleep[g] => g = curGoroutine \/ g \in Queued \/ g \in crashed
    /\ g \in crashed => /\ g \in live /\ ~asleep[g] /\ op[g] = "none"
                        /\ g # curGoroutine /\ g \notin Queued

(* A context joins the run queue.                                          *)
LEMMA WokenJoins ==
    ASSUME SchedInv, WokenInv, NEW g \in Contexts, Enqueue(g),
           g \in Goroutine => ~(g \in live /\ ~asleep[g]),
           asleep' = IF g = NoGoroutine THEN asleep ELSE [asleep EXCEPT ![g] = FALSE],
           live' = IF g = NoGoroutine THEN live ELSE live \cup {g},
           UNCHANGED <<curGoroutine, crashed, op>>
    PROVE  WokenInv'
<1>1. Queued' = Queued \cup {g}
  <2>1. scheduled' = Append(scheduled, g) /\ scheduled \in Seq(Contexts)
    BY DEF Enqueue, SchedInv, SchedTypes
  <2>2. Queued = Elems(scheduled) /\ Queued' = Elems(scheduled')
    BY DEF Queued, Elems
  <2> QED
    BY <2>1, <2>2, QueueAppend
<1>2. g \in Goroutine => g \notin crashed
  BY DEF WokenInv
<1>3. asleep \in [Goroutine -> BOOLEAN]
  BY DEF SchedInv, SchedTypes
<1>4. RunOrder
  BY DEF SchedInv
<1> QED
  BY <1>1, <1>2, <1>3, <1>4 DEF WokenInv, RunOrder, Contexts

(* A queue entry wakes its goroutine.                                      *)
LEMMA WokenWakes ==
    ASSUME SchedInv, WokenInv, NEW e, NEW result, e.g \in Contexts,
           e.g \in Goroutine => Sleeps(e.g),
           Wake(e, result), UNCHANGED <<notWaking, op>>
    PROVE  WokenInv'
<1>1. UNCHANGED <<curGoroutine, live, crashed, op>>
  BY DEF notWaking
<1>2. CASE e.g = NoGoroutine
  BY <1>1, <1>2, WokenJoins DEF Wake, Contexts
<1>3. CASE e.g # NoGoroutine
  <2>1. e.g \in Goroutine /\ live' = live \cup {e.g}
    BY <1>1, <1>3 DEF Contexts, Sleeps
  <2>2. Enqueue(e.g) /\ asleep' = [asleep EXCEPT ![e.g] = FALSE]
    BY <1>3 DEF Wake, Schedule
  <2> QED
    BY <1>1, <1>3, <2>1, <2>2, WokenJoins DEF Sleeps
<1> QED
  BY <1>2, <1>3

(* A goroutine parks, or $block throws in a callback.                      *)
LEMMA WokenBlocks ==
    ASSUME SchedInv, WokenInv, NEW x \in Contexts, curGoroutine = x,
           ChanTypes, NEW kind, NEW cases, Block(x, kind, cases)
    PROVE  WokenInv'
<1>1. CASE x = NoGoroutine
  BY <1>1 DEF Block, WokenInv, Queued, vars
<1>2. CASE x # NoGoroutine
  <2>1. /\ x \in Goroutine /\ curGoroutine' = NoGoroutine
        /\ asleep' = [asleep EXCEPT ![x] = TRUE] /\ op' = [op EXCEPT ![x] = kind]
        /\ UNCHANGED <<scheduled, live, crashed>>
    BY <1>2 DEF Block, Settle, notParking, Contexts
  <2>2. Queued' = Queued /\ x \notin crashed
    BY <2>1 DEF Queued, WokenInv
  <2>3. asleep \in [Goroutine -> BOOLEAN] /\ op \in [Goroutine -> {"none", "send", "recv", "select"}]
    BY DEF SchedInv, SchedTypes, ChanTypes
  <2> QED
    BY <2>1, <2>2, <2>3 DEF WokenInv
<1> QED
  BY <1>1, <1>2

(* The first waiting receiver is served.                                   *)
LEMMA WokenReceiver ==
    ASSUME ChanCore, WokenInv, NEW c \in Chan, recvQueue[c] # <<>>,
           NEW e, e = Head(recvQueue[c]),
           recvQueue' = Dequeued(Shift(recvQueue, c), e),
           sendQueue' = Dequeued(sendQueue, e),
           NEW result, Wake(e, result), UNCHANGED <<notWaking, op>>
    PROVE  WokenInv'
<1>1. e \in RecvEntry /\ (e.g \in Goroutine => Sleeps(e.g))
  BY ServeReceiver DEF ChanCore
<1>2. e.g \in Contexts
  BY <1>1 DEF RecvEntry
<1> QED
  BY <1>1, <1>2, WokenWakes DEF ChanCore

(* The first waiting sender is served.                                     *)
LEMMA WokenSender ==
    ASSUME ChanCore, WokenInv, NEW c \in Chan, sendQueue[c] # <<>>,
           NEW e, e = Head(sendQueue[c]),
           sendQueue' = Dequeued(Shift(sendQueue, c), e),
           recvQueue' = Dequeued(recvQueue, e),
           NEW result, Wake(e, result), UNCHANGED <<notWaking, op>>
    PROVE  WokenInv'
<1>1. e \in SendEntry /\ (e.g \in Goroutine => Sleeps(e.g))
  BY ServeSender DEF ChanCore
<1>2. e.g \in Contexts
  BY <1>1 DEF SendEntry
<1> QED
  BY <1>1, <1>2, WokenWakes DEF ChanCore

(* Nobody is woken and nobody parks.                                       *)
LEMMA WokenSame ==
    ASSUME WokenInv, UNCHANGED <<vars, op>>
    PROVE  WokenInv'
BY DEF WokenInv, Queued, vars

(* $send.                                                                  *)
LEMMA WokenSendOn ==
    ASSUME ChanCore, WokenInv, NEW x \in Contexts, curGoroutine = x,
           NEW c \in Chan, NEW v, SendOn(x, c, v)
    PROVE  WokenInv'
<1>1. CASE SendPanics(c) \/ Fill(c, v)
  BY <1>1, WokenSame DEF SendPanics, Fill
<1>2. CASE recvQueue[c] # <<>> /\ HandOver(c, v)
  <2> DEFINE e == Head(recvQueue[c])
  <2>1. /\ recvQueue' = Dequeued(Shift(recvQueue, c), e)
        /\ sendQueue' = Dequeued(sendQueue, e)
        /\ Wake(e, "done") /\ UNCHANGED <<notWaking, op>>
    BY <1>2 DEF HandOver
  <2> HIDE DEF e
  <2> QED
    BY <1>2, <2>1, WokenReceiver DEF e
<1>3. CASE WaitToSend(x, c, v)
  BY <1>3, WokenBlocks DEF WaitToSend, ChanCore
<1> QED
  BY <1>1, <1>2, <1>3 DEF SendOn

(* The second half of $recv.                                               *)
LEMMA WokenTakeFrom ==
    ASSUME ChanCore, WokenInv, NEW x \in Contexts, curGoroutine = x,
           NEW c, NEW buf, TakeFrom(x, c, buf)
    PROVE  WokenInv'
<1>1. CASE UNCHANGED <<vars, op>>
  BY <1>1, WokenSame
<1>2. CASE Block(x, "recv", {Case(c, "recv")})
  BY <1>2, WokenBlocks DEF ChanCore
<1> QED
  BY <1>1, <1>2 DEF TakeFrom

(* $recv.                                                                  *)
LEMMA WokenRecvOn ==
    ASSUME ChanCore, WokenInv, NEW x \in Contexts, curGoroutine = x,
           NEW c \in Chan, RecvOn(x, c)
    PROVE  WokenInv'
<1>1. CASE RecvPanics(c)
  BY <1>1, WokenSame DEF RecvPanics
<1>2. CASE sendQueue[c] # <<>> /\ ~RecvPanics(c)
  <2> DEFINE e == Head(sendQueue[c])
  <2>1. TakeFromSender(x, c, e, e.val)
    BY <1>2 DEF RecvOn
  <2> HIDE DEF e
  <2>2. /\ sendQueue' = Dequeued(Shift(sendQueue, c), e)
        /\ recvQueue' = Dequeued(recvQueue, e)
        /\ Wake(e, "done") /\ UNCHANGED <<notWaking, op>>
    BY <2>1 DEF TakeFromSender
  <2> QED
    BY <1>2, <2>2, WokenSender DEF e
<1>3. CASE sendQueue[c] = <<>>
  BY <1>3, WokenTakeFrom DEF RecvOn
<1> QED
  BY <1>1, <1>2, <1>3

(* The steps of $close.                                                    *)
LEMMA WokenCloseStep ==
    ASSUME ChanCore, WokenInv, NEW x \in Contexts, CloseStep(x)
    PROVE  WokenInv'
<1> DEFINE c == frame[x].ch
<1>1. c \in Chan
  BY FrameTyped DEF CloseStep
<1>2. CASE sendQueue[c] # <<>> /\ CloseSender(x, c, Head(sendQueue[c]))
  <2> DEFINE e == Head(sendQueue[c])
  <2>1. CASE e.select
    BY <1>2, <2>1, WokenSame DEF CloseSender
  <2>2. CASE ~e.select
    <3>1. /\ sendQueue' = Dequeued(Shift(sendQueue, c), e)
          /\ recvQueue' = Dequeued(recvQueue, e)
          /\ Wake(e, "closed") /\ UNCHANGED <<notWaking, op>>
      BY <1>2, <2>2 DEF CloseSender, Dequeued
    <3> HIDE DEF e, c
    <3> QED
      BY <1>1, <1>2, <3>1, WokenSender DEF e
  <2> QED
    BY <2>1, <2>2
<1>3. CASE recvQueue[c] # <<>> /\ CloseReceiver(c, Head(recvQueue[c]))
  <2> DEFINE e == Head(recvQueue[c])
  <2>1. /\ recvQueue' = Dequeued(Shift(recvQueue, c), e)
        /\ sendQueue' = Dequeued(sendQueue, e)
        /\ Wake(e, "done") /\ UNCHANGED <<notWaking, op>>
    BY <1>3 DEF CloseReceiver
  <2> HIDE DEF e, c
  <2> QED
    BY <1>1, <1>3, <2>1, WokenReceiver DEF e
<1>4. CASE CloseDone(x)
  BY <1>4, WokenSame DEF CloseDone
<1> QED
  BY <1>2, <1>3, <1>4 DEF CloseStep

(* Every operation.                                                        *)
LEMMA WokenOperation ==
    ASSUME ChanCore, WokenInv, NEW x \in Contexts, Operation(x)
    PROVE  WokenInv'
<1>1. ASSUME NEW c \in Chan, Send(x, c) PROVE WokenInv'
  BY <1>1, WokenSendOn DEF Send, Free
<1>2. ASSUME NEW c \in Chan, Recv(x, c) PROVE WokenInv'
  BY <1>2, WokenRecvOn DEF Recv, Free
<1>3. ASSUME NEW c \in Chan, Close(x, c) PROVE WokenInv'
  BY <1>3, WokenSame DEF Close
<1>4. CASE RecvFinish(x)
  BY <1>4, WokenTakeFrom DEF RecvFinish
<1> QED
  BY <1>1, <1>2, <1>3, <1>4, WokenCloseStep DEF Operation

(* A select.                                                               *)
LEMMA WokenSelect ==
    ASSUME ChanCore, WokenInv, NEW g \in Goroutine,
           NEW cases \in SelectCases, Select(g, cases)
    PROVE  WokenInv'
<1> DEFINE all   == {cases[i] : i \in DOMAIN cases}
           ready == {case \in all : ReadyCase(case)}
           v     == sends + 1
<1>1. /\ Free(g)
      /\ \/ \E case \in ready : IF case.dir = "recv" THEN RecvOn(g, case.ch)
                                                   ELSE SendOn(g, case.ch, v)
         \/ SelectWaits(g, cases, v)
  BY Zenon DEF Select, SelectWaits
<1>2. curGoroutine = g /\ g \in Contexts
  BY <1>1 DEF Free, Contexts
<1>3. \A case \in all : case.ch \in Chan
  OBVIOUS
<1> HIDE DEF all, v
<1>4. ASSUME NEW case \in all, RecvOn(g, case.ch) PROVE WokenInv'
  BY <1>2, <1>3, <1>4, WokenRecvOn
<1>5. ASSUME NEW case \in all, SendOn(g, case.ch, v) PROVE WokenInv'
  BY <1>2, <1>3, <1>5, WokenSendOn
<1>6. CASE SelectWaits(g, cases, v)
  BY <1>2, <1>6, WokenBlocks DEF SelectWaits, ChanCore
<1> QED
  BY <1>1, <1>4, <1>5, <1>6

(* The scheduler around them.                                              *)
LEMMA WokenOther ==
    ASSUME SchedInv, WokenInv, RunGoroutine \/ RunNoGoroutine \/ Between
    PROVE  WokenInv'
<1>1. UNCHANGED op
  BY OtherKeeps
<1>2. asleep \in [Goroutine -> BOOLEAN] /\ scheduled \in Seq(Contexts) /\ RunOrder
  BY DEF SchedInv, SchedTypes
<1>3. CASE RunGoroutine \/ RunNoGoroutine
  <2>1. /\ scheduled # <<>> /\ scheduled' = Tail(scheduled) /\ curGoroutine = NoGoroutine
        /\ curGoroutine' = Head(scheduled)
        /\ UNCHANGED <<live, asleep, crashed>>
    BY <1>3 DEF RunGoroutine, RunNoGoroutine, RunNext, Looping
  <2>2. \A g \in Goroutine : /\ g \in Queued => g = Head(scheduled) \/ g \in Queued'
                             /\ g = Head(scheduled) \/ g \in Queued' => g \in Queued
    <3>1. /\ Len(scheduled) \in Nat \ {0} /\ DOMAIN scheduled = 1 .. Len(scheduled)
          /\ Head(scheduled) = scheduled[1]
          /\ Tail(scheduled) \in Seq(Contexts)
          /\ Len(Tail(scheduled)) = Len(scheduled) - 1
          /\ \A i \in 1 .. Len(Tail(scheduled)) : Tail(scheduled)[i] = scheduled[i + 1]
      BY <1>2, <2>1, HeadTailProperties, EmptySeq
    <3>2. DOMAIN Tail(scheduled) = 1 .. (Len(scheduled) - 1)
      BY <3>1
    <3>3. ASSUME NEW i \in DOMAIN scheduled, i # 1
          PROVE  \E j \in DOMAIN Tail(scheduled) : Tail(scheduled)[j] = scheduled[i]
      <4>1. i - 1 \in 1 .. (Len(scheduled) - 1) /\ (i - 1) + 1 = i
        BY <3>1, <3>3
      <4> QED
        BY <3>1, <3>2, <4>1
    <3>4. ASSUME NEW j \in DOMAIN Tail(scheduled)
          PROVE  \E i \in DOMAIN scheduled : Tail(scheduled)[j] = scheduled[i]
      BY <3>1, <3>2
    <3>5. 1 \in DOMAIN scheduled
      BY <3>1
    <3>6. Queued = {scheduled[i] : i \in DOMAIN scheduled}
          /\ Queued' = {Tail(scheduled)[j] : j \in DOMAIN Tail(scheduled)}
      BY <2>1 DEF Queued
    <3>7. ASSUME NEW g \in Queued, g # Head(scheduled) PROVE g \in Queued'
      <4>1. PICK i \in DOMAIN scheduled : g = scheduled[i]
        BY <3>6, <3>7
      <4>2. i # 1
        BY <3>1, <3>7, <4>1
      <4>3. PICK j \in DOMAIN Tail(scheduled) : Tail(scheduled)[j] = g
        BY <3>3, <4>1, <4>2
      <4> QED
        BY <3>6, <4>3
    <3>8. ASSUME NEW g \in Queued' PROVE g \in Queued
      <4>1. PICK j \in DOMAIN Tail(scheduled) : g = Tail(scheduled)[j]
        BY <3>6, <3>8
      <4>2. PICK i \in DOMAIN scheduled : Tail(scheduled)[j] = scheduled[i]
        BY <3>4
      <4> QED
        BY <3>6, <4>1, <4>2
    <3>9. Head(scheduled) \in Queued
      BY <3>1, <3>5, <3>6
    <3> QED
      BY <3>7, <3>8, <3>9, Zenon
  <2> QED
    BY <1>1, <1>2, <2>1, <2>2 DEF WokenInv, RunOrder, OnceEach
<1>4. CASE LoopEnd \/ FireRun \/ CallbackEnter \/ CallbackReturn \/ Externalize
  <2>1. UNCHANGED <<curGoroutine, scheduled, live, asleep, crashed>>
    BY <1>4 DEF LoopEnd, FireRun, CallbackEnter, CallbackReturn, Externalize
  <2> QED
    BY <1>1, <2>1 DEF WokenInv, Queued
<1>5. ASSUME NEW g \in Goroutine, Return(g) PROVE WokenInv'
  <2>1. /\ curGoroutine = g /\ curGoroutine' = NoGoroutine
        /\ asleep' = [asleep EXCEPT ![g] = TRUE] /\ live' = live \ {g}
        /\ UNCHANGED <<scheduled, crashed>>
    BY <1>5, Zenon DEF Return, Settle, Running
  <2>2. Queued' = Queued
    BY <2>1 DEF Queued
  <2> QED
    BY <1>1, <1>2, <2>1, <2>2 DEF WokenInv
<1>6. ASSUME NEW g \in Goroutine, Go(g) PROVE WokenInv'
  <2>1. /\ g \notin live /\ Enqueue(g) /\ live' = live \cup {g}
        /\ asleep' = [asleep EXCEPT ![g] = FALSE]
        /\ UNCHANGED <<curGoroutine, crashed>>
    BY <1>6 DEF Go, Spawn
  <2> QED
    BY <1>1, <2>1, WokenJoins DEF Contexts
<1>7. ASSUME NEW g \in Goroutine, Free(g), Throw(g) PROVE WokenInv'
  <2>1. /\ curGoroutine = g /\ curGoroutine' = NoGoroutine
        /\ crashed' = crashed \cup {g} /\ op[g] = "none"
        /\ UNCHANGED <<scheduled, live, asleep>>
    BY <1>7, Zenon DEF Throw, Running, Free
  <2>2. Queued' = Queued /\ g \in live /\ ~asleep[g] /\ g \notin Queued
    BY <1>2, <2>1 DEF Queued, RunOrder
  <2> QED
    BY <1>1, <2>1, <2>2 DEF WokenInv
<1> QED
  BY <1>3, <1>4, <1>5, <1>6, <1>7 DEF Between

(* A goroutine to which a send, a receive, a close or a select handed      *)
(* something runs, or is in $scheduled with a pass of the queue on the     *)
(* stack or to come ($schedule, $runScheduled and the wake-ups of the      *)
(* channel operations): also in a program that goes on after exceptions    *)
(* and whose callbacks leave entries of $noGoroutine behind.               *)
THEOREM WokenAlwaysGoOn ==
    ASSUME SelectSafe
    PROVE  ChanSpec => []WokenGoOn
<1>1. ChanInit => WokenInv
  <2> SUFFICES ASSUME ChanInit PROVE WokenInv
    OBVIOUS
  <2>1. scheduled = <<Main>> /\ live = {Main} /\ crashed = {}
    BY DEF ChanInit, Init
  <2>2. Main \in Queued
    BY <2>1 DEF Queued
  <2> QED
    BY <2>1, <2>2 DEF WokenInv
<1>2. ChanCore /\ WokenInv /\ [ChanNext]_allVars => WokenInv'
  <2> SUFFICES ASSUME ChanCore, WokenInv, [ChanNext]_allVars PROVE WokenInv'
    OBVIOUS
  <2>1. ASSUME NEW g \in Goroutine, Resume(g) PROVE WokenInv'
    <3>1. op' = [op EXCEPT ![g] = "none"] /\ UNCHANGED vars
      BY <2>1 DEF Resume
    <3>2. op \in [Goroutine -> {"none", "send", "recv", "select"}]
      BY DEF ChanCore, ChanTypes
    <3> QED
      BY <3>1, <3>2 DEF WokenInv, Queued, vars
  <2>2. CASE UNCHANGED allVars
    BY <2>2, WokenSame DEF allVars, chanVars
  <2> QED
    BY <2>1, <2>2, WokenOther, WokenOperation, WokenSelect DEF ChanNext, ChanCore
<1>3. ChanCore /\ WokenInv => WokenGoOn
  <2> SUFFICES ASSUME ChanCore, WokenInv, ~halted, NEW g \in live,
                      op[g] # "none", slot[g] # "empty"
               PROVE  \/ Running(g)
                      \/ g \in Queued /\ (runLoop # "off" \/ nextRun > 0)
    BY DEF WokenGoOn
  <2>1. g \in Goroutine /\ ~asleep[g]
    <3>1. g \in Goroutine
      BY DEF ChanCore, SchedInv, SchedTypes
    <3> QED
      BY <3>1 DEF ChanCore, WaitInv, Waiting, Sleeps
  <2>2. g = curGoroutine \/ g \in Queued
    BY <2>1 DEF WokenInv
  <2>3. g \in Queued => scheduled # <<>>
    BY DEF Queued
  <2>4. scheduled # <<>> => nextRun > 0
    BY DEF ChanCore, SchedInv, NoLostRun
  <2> QED
    BY <2>2, <2>3, <2>4 DEF Running
<1> QED
  BY <1>1, <1>2, <1>3, ChannelsCore, PTL DEF ChanSpec

-----------------------------------------------------------------------------
(* The scheduler below channels, where no callback has to block: then      *)
(* $noGoroutine is never queued, and what channels do to goroutines is     *)
(* what the scheduler lets Go code do.                                     *)

(* No queue of a channel holds an entry of $noGoroutine.                   *)
NoStale ==
    \A c \in Chan : ~In(sendQueue[c], NoGoroutine) /\ ~In(recvQueue[c], NoGoroutine)

(* The scheduler keeps its own invariant.                                  *)
Follows == Inv /\ Plain /\ NoStale

(* A step that leaves the scheduler and the queues alone.                  *)
LEMMA FollowsSame ==
    ASSUME Follows, UNCHANGED <<vars, sendQueue, recvQueue>>
    PROVE  [Next]_vars /\ Plain' /\ NoStale'
BY DEF Follows, Plain, NoStale, vars

(* Entries leave the queues.                                               *)
LEMMA NoStaleThins ==
    ASSUME ChanTypes, NoStale, NEW g, Served(g)
    PROVE  NoStale'
<1> SUFFICES ASSUME NEW c \in Chan
             PROVE  ~In(sendQueue'[c], NoGoroutine) /\ ~In(recvQueue'[c], NoGoroutine)
  BY DEF NoStale
<1>1. /\ sendQueue[c] \in Seq(SendEntry) /\ sendQueue'[c] \in Seq(SendEntry)
      /\ recvQueue[c] \in Seq(RecvEntry) /\ recvQueue'[c] \in Seq(RecvEntry)
      /\ Thinner(sendQueue'[c], sendQueue[c]) /\ Thinner(recvQueue'[c], recvQueue[c])
  BY DEF ChanTypes, Served
<1>2. In(sendQueue'[c], NoGoroutine) => In(sendQueue[c], NoGoroutine)
  BY <1>1, ThinnerKeeps
<1>3. In(recvQueue'[c], NoGoroutine) => In(recvQueue[c], NoGoroutine)
  BY <1>1, ThinnerKeeps
<1> QED
  BY <1>2, <1>3 DEF NoStale

(* The waiter that is served becomes ready.                                *)
LEMMA FollowsServe ==
    ASSUME Follows, ChanTypes, InGo, NEW e, e.g \in Goroutine, Sleeps(e.g),
           Served(e.g), NEW result, Wake(e, result), UNCHANGED notWaking
    PROVE  [Next]_vars /\ Plain' /\ NoStale'
<1>1. Schedule(e.g, awakeGoroutines)
  BY DEF Wake
<1>2. Next /\ Plain'
  BY <1>1, SleeperIsReady, Zenon DEF Follows, Sleeps
<1>3. NoStale'
  BY NoStaleThins DEF Follows
<1> QED
  BY <1>2, <1>3

(* An operation that has to wait parks its goroutine; no callback does.    *)
LEMMA FollowsBlock ==
    ASSUME Follows, MaxStale = 0, NEW x \in Contexts, curGoroutine = x, InGo,
           NEW kind, NEW cases, Block(x, kind, cases),
           \A c \in Chan : /\ In(sendQueue'[c], NoGoroutine)
                                => In(sendQueue[c], NoGoroutine) \/ x = NoGoroutine
                           /\ In(recvQueue'[c], NoGoroutine)
                                => In(recvQueue[c], NoGoroutine) \/ x = NoGoroutine
    PROVE  [Next]_vars /\ Plain' /\ NoStale'
<1>1. x # NoGoroutine
  <2> SUFFICES ASSUME CallbackMayBlock PROVE FALSE
    BY DEF Block
  <2>1. {i \in DOMAIN recvQueue[NilChan] : recvQueue[NilChan][i].g = NoGoroutine} = {}
    BY DEF Follows, NoStale, In
  <2>2. Cardinality({}) < 0
    BY <2>1 DEF CallbackMayBlock
  <2> QED
    BY <2>2, FS_EmptySet
<1>2. x \in Goroutine /\ Running(x)
  BY <1>1 DEF Contexts, InGo, InCallback, Running
<1>3. /\ Settle(x, exit[x], awakeGoroutines, mainFinished)
      /\ UNCHANGED notParking
  BY <1>1 DEF Block
<1>4. Next /\ Plain'
  BY <1>2, <1>3, RunnerParks, Zenon DEF Follows
<1>5. NoStale'
  BY <1>1 DEF Follows, NoStale
<1> QED
  BY <1>4, <1>5

(* A push of x on a queue.                                                 *)
LEMMA PushOwn ==
    ASSUME NEW S, NEW Q \in [Chan -> Seq(S)], NEW c \in Chan, NEW e \in S, NEW d \in Chan
    PROVE  In(Push(Q, c, e)[d], NoGoroutine) => In(Q[d], NoGoroutine) \/ e.g = NoGoroutine
<1>1. Push(Q, c, e)[d] = Q[d] \/ Push(Q, c, e)[d] = Append(Q[d], e)
  BY DEF Push
<1>2. Q[d] \in Seq(S)
  OBVIOUS
<1>3. In(Append(Q[d], e), NoGoroutine) => In(Q[d], NoGoroutine) \/ e.g = NoGoroutine
  <2> DEFINE q == Q[d]
  <2> HIDE DEF q
  <2>1. q \in Seq(S)
    BY <1>2 DEF q
  <2>2. In(Append(q, e), NoGoroutine) => In(q, NoGoroutine) \/ e.g = NoGoroutine
    BY <2>1, AppendIn
  <2> QED
    BY <2>2 DEF q
<1>4. CASE Push(Q, c, e)[d] = Q[d]
  BY <1>4
<1>5. CASE Push(Q, c, e)[d] = Append(Q[d], e)
  BY <1>3, <1>5
<1> QED
  BY <1>1, <1>4, <1>5

(* $send hands its value over.                                             *)
LEMMA FollowsHandOver ==
    ASSUME Follows, ChanTypes, WaitInv, InGo, NEW c \in Chan, NEW v,
           recvQueue[c] # <<>>, HandOver(c, v)
    PROVE  [Next]_vars /\ Plain' /\ NoStale'
<1> DEFINE e == Head(recvQueue[c])
<1>1. /\ recvQueue' = Dequeued(Shift(recvQueue, c), e)
      /\ sendQueue' = Dequeued(sendQueue, e)
      /\ Wake(e, "done") /\ UNCHANGED notWaking
  BY DEF HandOver
<1> HIDE DEF e
<1>2. /\ Served(e.g) /\ e \in RecvEntry /\ (e.g \in Goroutine => Sleeps(e.g))
      /\ e = recvQueue[c][1] /\ 1 \in DOMAIN recvQueue[c]
  BY <1>1, ServeReceiver DEF e
<1>3. e.g \in Goroutine
  BY <1>2 DEF Follows, NoStale, In, RecvEntry, Contexts
<1> QED
  BY <1>1, <1>2, <1>3, FollowsServe

(* The first waiting sender is served.                                     *)
LEMMA FollowsSender ==
    ASSUME Follows, ChanTypes, WaitInv, InGo, NEW c \in Chan, sendQueue[c] # <<>>,
           NEW e, e = Head(sendQueue[c]),
           sendQueue' = Dequeued(Shift(sendQueue, c), e),
           recvQueue' = Dequeued(recvQueue, e),
           NEW result, Wake(e, result), UNCHANGED notWaking
    PROVE  [Next]_vars /\ Plain' /\ NoStale'
<1>1. Served(e.g) /\ e \in SendEntry /\ (e.g \in Goroutine => Sleeps(e.g))
  BY ServeSender
<1>2. sendQueue[c] \in Seq(SendEntry)
  BY DEF ChanTypes
<1>3. 1 \in DOMAIN sendQueue[c] /\ e = sendQueue[c][1]
  BY <1>2, TailThinner
<1>4. e.g \in Goroutine
  BY <1>1, <1>3 DEF Follows, NoStale, In, SendEntry, Contexts
<1> QED
  BY <1>1, <1>4, FollowsServe

(* $send.                                                                  *)
LEMMA FollowsSendOn ==
    ASSUME Follows, ChanTypes, WaitInv, MaxStale = 0, NEW x \in Contexts,
           curGoroutine = x, InGo, NEW c \in Chan, NEW v \in Value, SendOn(x, c, v)
    PROVE  [Next]_vars /\ Plain' /\ NoStale'
<1>1. CASE SendPanics(c) \/ Fill(c, v)
  BY <1>1, FollowsSame DEF SendPanics, Fill
<1>2. CASE recvQueue[c] # <<>> /\ HandOver(c, v)
  BY <1>2, FollowsHandOver
<1>3. CASE WaitToSend(x, c, v)
  <2> DEFINE se == [g |-> x, val |-> v, select |-> FALSE]
  <2>1. /\ sendQueue' = Push(sendQueue, c, se) /\ recvQueue' = recvQueue
        /\ Block(x, "send", {Case(c, "send")})
    BY <1>3 DEF WaitToSend
  <2>2. se \in SendEntry /\ se.g = x /\ sendQueue \in [Chan -> Seq(SendEntry)]
    BY DEF SendEntry, ChanTypes
  <2> HIDE DEF se
  <2>3. ASSUME NEW d \in Chan, In(sendQueue'[d], NoGoroutine)
        PROVE  In(sendQueue[d], NoGoroutine) \/ x = NoGoroutine
    <3>1. sendQueue \in [Chan -> Seq(SendEntry)] /\ se \in SendEntry
      BY <2>2
    <3>2. In(Push(sendQueue, c, se)[d], NoGoroutine)
            => In(sendQueue[d], NoGoroutine) \/ se.g = NoGoroutine
      BY <3>1, PushOwn, SMTT(60)
    <3> QED
      BY <2>1, <2>2, <2>3, <3>2
  <2> QED
    BY <2>1, <2>3, FollowsBlock
<1> QED
  BY <1>1, <1>2, <1>3 DEF SendOn

(* The second half of $recv.                                               *)
LEMMA FollowsTakeFrom ==
    ASSUME Follows, ChanTypes, MaxStale = 0, NEW x \in Contexts,
           curGoroutine = x, InGo, NEW c \in Chan, NEW buf, TakeFrom(x, c, buf)
    PROVE  [Next]_vars /\ Plain' /\ NoStale'
<1>1. CASE UNCHANGED <<vars, sendQueue, recvQueue>>
  BY <1>1, FollowsSame
<1>2. CASE /\ recvQueue' = Push(recvQueue, c, [g |-> x, select |-> FALSE])
           /\ sendQueue' = sendQueue /\ Block(x, "recv", {Case(c, "recv")})
  <2> DEFINE re == [g |-> x, select |-> FALSE]
  <2>1. recvQueue' = Push(recvQueue, c, re)
    BY <1>2
  <2>2. re \in RecvEntry /\ re.g = x /\ recvQueue \in [Chan -> Seq(RecvEntry)]
    BY DEF RecvEntry, ChanTypes
  <2> HIDE DEF re
  <2>3. ASSUME NEW d \in Chan, In(recvQueue'[d], NoGoroutine)
        PROVE  In(recvQueue[d], NoGoroutine) \/ x = NoGoroutine
    <3>1. recvQueue \in [Chan -> Seq(RecvEntry)] /\ re \in RecvEntry
      BY <2>2
    <3>2. In(Push(recvQueue, c, re)[d], NoGoroutine)
            => In(recvQueue[d], NoGoroutine) \/ re.g = NoGoroutine
      BY <3>1, PushOwn, SMTT(60)
    <3> QED
      BY <2>1, <2>2, <2>3, <3>2
  <2> QED
    BY <1>2, <2>3, FollowsBlock
<1> QED
  BY <1>1, <1>2 DEF TakeFrom

(* $recv.                                                                  *)
LEMMA FollowsRecvOn ==
    ASSUME Follows, ChanCore, MaxStale = 0, NEW x \in Contexts,
           curGoroutine = x, InGo, NEW c \in Chan, RecvOn(x, c)
    PROVE  [Next]_vars /\ Plain' /\ NoStale'
<1>1. ChanTypes /\ WaitInv
  BY DEF ChanCore
<1>2. CASE sendQueue[c] # <<>>
  <2> DEFINE e == Head(sendQueue[c])
  <2>1. ~(e.select /\ closed[c])
    BY <1>2, HeadPlain
  <2>2. TakeFromSender(x, c, e, e.val)
    BY <1>2, <2>1 DEF RecvOn
  <2> HIDE DEF e
  <2>3. /\ sendQueue' = Dequeued(Shift(sendQueue, c), e)
        /\ recvQueue' = Dequeued(recvQueue, e)
        /\ Wake(e, "done") /\ UNCHANGED notWaking
    BY <2>2 DEF TakeFromSender
  <2> QED
    BY <1>1, <1>2, <2>3, FollowsSender DEF e
<1>3. CASE sendQueue[c] = <<>>
  BY <1>1, <1>3, FollowsTakeFrom DEF RecvOn
<1> QED
  BY <1>2, <1>3

(* The steps of $close.                                                    *)
LEMMA FollowsCloseStep ==
    ASSUME Follows, ChanCore, NEW x \in Contexts, CloseStep(x)
    PROVE  [Next]_vars /\ Plain' /\ NoStale'
<1> DEFINE c == frame[x].ch
<1>1. /\ c \in Chan /\ c \in Closable /\ InGo
  BY FrameTyped DEF CloseStep
<1>2. ChanTypes /\ WaitInv
  BY DEF ChanCore
<1>3. CASE sendQueue[c] # <<>> /\ CloseSender(x, c, Head(sendQueue[c]))
  <2> DEFINE e == Head(sendQueue[c])
  <2>1. sendQueue[c] \in Seq(SendEntry)
    BY <1>1, <1>2 DEF ChanTypes
  <2>2. 1 \in DOMAIN sendQueue[c] /\ e = sendQueue[c][1]
    BY <1>3, <2>1, TailThinner
  <2>3. ~e.select
    BY <1>1, <2>2 DEF ChanCore, SelectInv
  <2>4. /\ sendQueue' = Dequeued(Shift(sendQueue, c), e)
        /\ recvQueue' = Dequeued(recvQueue, e)
        /\ Wake(e, "closed") /\ UNCHANGED notWaking
    BY <1>3, <2>3 DEF CloseSender, Dequeued
  <2> HIDE DEF e, c
  <2> QED
    BY <1>1, <1>2, <1>3, <2>4, FollowsSender DEF e
<1>4. CASE recvQueue[c] # <<>> /\ CloseReceiver(c, Head(recvQueue[c]))
  <2> DEFINE e == Head(recvQueue[c])
  <2>1. /\ recvQueue' = Dequeued(Shift(recvQueue, c), e)
        /\ sendQueue' = Dequeued(sendQueue, e)
        /\ Wake(e, "done") /\ UNCHANGED notWaking
    BY <1>4 DEF CloseReceiver
  <2> HIDE DEF e, c
  <2>2. /\ Served(e.g) /\ e \in RecvEntry /\ (e.g \in Goroutine => Sleeps(e.g))
        /\ e = recvQueue[c][1] /\ 1 \in DOMAIN recvQueue[c]
    BY <1>1, <1>2, <1>4, <2>1, ServeReceiver DEF e
  <2>3. e.g \in Goroutine
    BY <1>1, <2>2 DEF Follows, NoStale, In, RecvEntry, Contexts
  <2> QED
    BY <1>1, <1>2, <2>1, <2>2, <2>3, FollowsServe
<1>5. CASE CloseDone(x)
  BY <1>5, FollowsSame DEF CloseDone
<1> QED
  BY <1>3, <1>4, <1>5 DEF CloseStep

(* Every operation.                                                        *)
LEMMA FollowsOperation ==
    ASSUME Follows, ChanCore, MaxStale = 0, NEW x \in Contexts, Operation(x)
    PROVE  [Next]_vars /\ Plain' /\ NoStale'
<1>1. ChanTypes /\ WaitInv
  BY DEF ChanCore
<1>2. ASSUME NEW c \in Chan, Send(x, c) PROVE [Next]_vars /\ Plain' /\ NoStale'
  <2>1. /\ curGoroutine = x /\ InGo /\ SendOn(x, c, sends + 1) /\ sends + 1 \in Value
    BY <1>1, <1>2 DEF Send, Free, ChanTypes, Value
  <2> QED
    BY <1>1, <2>1, FollowsSendOn
<1>3. ASSUME NEW c \in Chan, Recv(x, c) PROVE [Next]_vars /\ Plain' /\ NoStale'
  <2>1. curGoroutine = x /\ InGo /\ RecvOn(x, c)
    BY <1>3 DEF Recv, Free
  <2> QED
    BY <2>1, FollowsRecvOn
<1>4. ASSUME NEW c \in Chan, Close(x, c) PROVE [Next]_vars /\ Plain' /\ NoStale'
  BY <1>4, FollowsSame DEF Close
<1>5. CASE RecvFinish(x)
  <2> DEFINE c   == frame[x].ch
             buf == Append(buffer[c], frame[x].val)
  <2>1. c \in Chan
    BY <1>5, FrameTyped DEF RecvFinish
  <2>2. curGoroutine = x /\ InGo /\ TakeFrom(x, c, buf)
    BY <1>5 DEF RecvFinish
  <2> HIDE DEF c, buf
  <2> QED
    BY <1>1, <2>1, <2>2, FollowsTakeFrom
<1> QED
  BY <1>2, <1>3, <1>4, <1>5, FollowsCloseStep DEF Operation

(* A select.                                                               *)
LEMMA FollowsSelect ==
    ASSUME Follows, ChanCore, MaxStale = 0, NEW g \in Goroutine,
           NEW cases \in SelectCases, Select(g, cases)
    PROVE  [Next]_vars /\ Plain' /\ NoStale'
<1> DEFINE all     == {cases[i] : i \in DOMAIN cases}
           sending == {case \in all : case.dir = "send"}
           ready   == {case \in all : ReadyCase(case)}
           v       == sends + 1
<1>1. ChanTypes /\ WaitInv
  BY DEF ChanCore
<1>2. /\ Free(g)
      /\ sending # {} => v <= MaxSends
      /\ \/ \E case \in ready : IF case.dir = "recv" THEN RecvOn(g, case.ch)
                                                   ELSE SendOn(g, case.ch, v)
         \/ SelectWaits(g, cases, v)
  BY Zenon DEF Select, SelectWaits
<1>3. /\ curGoroutine = g /\ InGo /\ g \in Contexts /\ g # NoGoroutine
      /\ sends \in 0 .. MaxSends
  BY <1>1, <1>2 DEF Free, Contexts, ChanTypes
<1>4. \A case \in all : case \in [ch : Chan, dir : {"send", "recv"}]
  OBVIOUS
<1> HIDE DEF all, v
<1>5. ASSUME NEW case \in all, case.dir = "recv", RecvOn(g, case.ch)
      PROVE  [Next]_vars /\ Plain' /\ NoStale'
  BY <1>3, <1>4, <1>5, FollowsRecvOn
<1>6. ASSUME NEW case \in all, case.dir = "send", SendOn(g, case.ch, v)
      PROVE  [Next]_vars /\ Plain' /\ NoStale'
  <2>1. v \in Value
    BY <1>2, <1>3, <1>6 DEF v, Value
  <2> QED
    BY <1>1, <1>3, <1>4, <1>6, <2>1, FollowsSendOn
<1>7. CASE SelectWaits(g, cases, v)
  <2> DEFINE se == [g |-> g, val |-> v, select |-> TRUE]
             re == [g |-> g, select |-> TRUE]
  <2>1. /\ sendQueue' = Offered(sendQueue, "send", cases, se)
        /\ recvQueue' = Offered(recvQueue, "recv", cases, re)
        /\ Block(g, "select", {cases[i] : i \in DOMAIN cases})
    BY <1>7 DEF SelectWaits
  <2>2. ASSUME NEW S, NEW Q \in [Chan -> Seq(S)], NEW dir, NEW e, e.g = g, NEW c \in Chan,
               In(Offered(Q, dir, cases, e)[c], NoGoroutine)
        PROVE  In(Q[c], NoGoroutine)
    <3>1. Offered(Q, dir, cases, e)[c] \in {Q[c], Append(Q[c], e)}
      BY DEF Offered
    <3>2. Q[c] \in Seq(S \cup {e}) /\ e \in S \cup {e}
      OBVIOUS
    <3>3. In(Append(Q[c], e), NoGoroutine) => In(Q[c], NoGoroutine)
      BY <1>3, <2>2, <3>2, AppendIn
    <3> QED
      BY <2>2, <3>1, <3>3
  <2>3. se.g = g /\ re.g = g
    OBVIOUS
  <2> HIDE DEF se, re
  <2>4. /\ sendQueue \in [Chan -> Seq(SendEntry)]
        /\ recvQueue \in [Chan -> Seq(RecvEntry)]
    BY <1>1 DEF ChanTypes
  <2>5. \A c \in Chan :
           /\ In(sendQueue'[c], NoGoroutine) => In(sendQueue[c], NoGoroutine)
           /\ In(recvQueue'[c], NoGoroutine) => In(recvQueue[c], NoGoroutine)
    BY <2>1, <2>2, <2>3, <2>4
  <2> QED
    BY <1>3, <2>1, <2>5, FollowsBlock
<1> QED
  BY <1>2, <1>4, <1>5, <1>6, <1>7

(* The scheduler itself.                                                   *)
LEMMA FollowsOther ==
    ASSUME Follows, RunGoroutine \/ RunNoGoroutine \/ Between
    PROVE  [Next]_vars /\ Plain' /\ NoStale'
<1>1. ~RunNoGoroutine
  <2> SUFFICES ASSUME RunNoGoroutine PROVE FALSE
    OBVIOUS
  <2>1. /\ scheduled \in Seq(Goroutine) /\ scheduled # <<>>
        /\ Head(scheduled) = NoGoroutine
    BY DEF RunNoGoroutine, Follows, Inv, TypeOK
  <2> QED
    BY <2>1, HeadTailProperties
<1>2. OtherTurn
  BY <1>1, Zenon DEF RunGoroutine, Between, OtherTurn
<1>3. Plain' /\ Next
  BY <1>2, OthersKeepSleepers, Zenon DEF Follows
<1>4. UNCHANGED <<sendQueue, recvQueue>>
  BY OtherKeeps
<1> QED
  BY <1>3, <1>4 DEF Follows, NoStale

(* Every step is a step of the scheduler.                                  *)
LEMMA FollowsStep ==
    ASSUME MaxStale = 0, Follows, ChanCore, [ChanNext]_allVars
    PROVE  [Next]_vars /\ Follows'
<1>1. [Next]_vars /\ Plain' /\ NoStale'
  <2>1. ASSUME NEW g \in Goroutine, Resume(g)
        PROVE  [Next]_vars /\ Plain' /\ NoStale'
    BY <2>1, FollowsSame DEF Resume
  <2>2. CASE UNCHANGED allVars
    BY <2>2, FollowsSame DEF allVars, chanVars
  <2> QED
    BY <2>1, <2>2, FollowsOther, FollowsOperation, FollowsSelect DEF ChanNext
<1>2. Inv'
  BY <1>1, TypeStep, QueueStep DEF Follows, Inv
<1> QED
  BY <1>1, <1>2 DEF Follows

(* The scheduler starts with channels as without.                          *)
LEMMA FollowsInit == ChanInit => Follows
<1> SUFFICES ASSUME ChanInit PROVE Follows
  OBVIOUS
<1>1. Init
  BY DEF ChanInit
<1>2. Inv
  BY <1>1, InitInv
<1>3. Plain
  <2>1. sleepers = {} /\ live = {Main} /\ exit = [g \in Goroutine |-> g # Main]
    BY <1>1 DEF Init
  <2>2. exit[Main] = (Main # Main)
    BY <2>1
  <2> QED
    BY <2>1, <2>2 DEF Plain
<1>4. NoStale
  <2>1. \A c \in Chan : sendQueue[c] = <<>> /\ recvQueue[c] = <<>>
    BY DEF ChanInit
  <2> QED
    BY <2>1 DEF NoStale, In
<1> QED
  BY <1>2, <1>3, <1>4 DEF Follows

(* Where no callback of the host has to block in a channel, the scheduler  *)
(* under $send, $recv, $close and $select keeps the invariant it has       *)
(* without them: $noGoroutine is never in a queue of theirs.               *)
THEOREM ChannelsFollowScheduler ==
    ASSUME SelectSafe, MaxStale = 0
    PROVE  ChanSpec => [](ChanCore /\ Follows)
<1>1. Follows /\ ChanCore /\ [ChanNext]_allVars => Follows'
  BY FollowsStep
<1>2. ChanSpec => []ChanCore
  BY ChannelsCore
<1> QED
  BY <1>1, <1>2, FollowsInit, PTL DEF ChanSpec

(* In a program in which no callback has to block, channels and select do  *)
(* to goroutines only what the scheduler lets any Go code do: $block and   *)
(* $schedule are called in states in which a goroutine may park or is      *)
(* asleep.  What holds of the scheduler holds of programs with channels.   *)
THEOREM ChannelsRefineScheduler ==
    ASSUME SelectSafe, MaxStale = 0
    PROVE  ChanSpec => Spec
<1>1. Follows /\ ChanCore /\ [ChanNext]_allVars => [Next]_vars
  BY FollowsStep
<1>2. ChanInit => Init
  BY DEF ChanInit
<1> QED
  BY <1>1, <1>2, ChannelsFollowScheduler, PTL DEF ChanSpec, Spec

(* The counters of the deadlock detector agree with the goroutines in such *)
(* a program, and it reports a deadlock exactly when all goroutines sleep  *)
(* in channels and nothing outside can wake one.                           *)
THEOREM ChannelsDeadlocks ==
    ASSUME SelectSafe, MaxStale = 0, HasProcess, ~CallbackReleases
    PROVE  ChanSpec => [](AwakeCount /\ NoFalseDeadlock /\ DeadlockReported)
<1>1. Spec => []AwakeCount
  BY AwakeCounted
<1>2. Spec => []NoFalseDeadlock
  BY DeadlockReportIsTrue
<1>3. Spec => []DeadlockReported
  BY DeadlocksAreReported
<1> QED
  BY <1>1, <1>2, <1>3, ChannelsRefineScheduler, PTL

(* A waiter that a channel operation wakes runs: whoever is awake is in    *)
(* $scheduled, running or was ended by an exception.                       *)
THEOREM ChannelsLoseNoWakeUp ==
    ASSUME SelectSafe, MaxStale = 0
    PROVE  ChanSpec => []AwakeIsRunnable
BY ChannelsRefineScheduler, NoWakeUpLost, PTL
=============================================================================
