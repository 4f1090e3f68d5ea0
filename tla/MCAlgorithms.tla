----------------------------- MODULE MCAlgorithms -----------------------------
(* Small instances of the modules about sequential code: Overlay,          *)
(* InstanceMap, JsIntegers and Nosync.  TLC evaluates the assumptions below *)
(* with the run that extends this module.                                  *)
EXTENDS Integers, Sequences, FiniteSets
LOCAL INSTANCE SequencesExt

-----------------------------------------------------------------------------
(* Overlay.                                                                *)

LOCAL WithPrefix(n) == "_gopherjs_original_" \o n
LOCAL INSTANCE Overlay WITH None <- "", Blank <- "_", InitName <- "init", Renamed <- WithPrefix

LOCAL Declares(kind, recv, names, used, sig, dirs) ==
    [kind |-> kind, recv |-> recv, names |-> names, uses |-> [n \in names |-> used],
     sig |-> sig, dirs |-> dirs]
LOCAL Dirs == {{}, {"purge"}}
LOCAL FuncDirs == Dirs \cup {{"keep-original"}, {"override-signature"}}

(* An overlay of a function, a method and a type T, and of values a and b. *)
LOCAL OverlayDecls ==
    {Declares("func", "", {"f"}, {}, {"p"}, dirs) : dirs \in FuncDirs}
    \cup {Declares("func", "T", {"m"}, {"q"}, {}, dirs) : dirs \in FuncDirs}
    \cup {Declares("func", "", {"init"}, {"q"}, {}, {})}
    \cup {Declares("type", "", {"T"}, {}, {}, dirs) : dirs \in Dirs}
    \cup {Declares("values", "", names, {"q"}, {}, dirs) :
             names \in {{"a"}, {"_"}, {"a", "b"}}, dirs \in Dirs}
LOCAL OriginalDecls ==
    {Declares("func", "", {"f"}, {"p"}, {"q"}, {}), Declares("func", "", {"g"}, {"p"}, {}, {"linkname"}),
     Declares("func", "T", {"m"}, {"q"}, {}, {}), Declares("func", "T", {"n"}, {"q"}, {"p"}, {}),
     Declares("func", "", {"init"}, {"q"}, {}, {}), Declares("type", "", {"T"}, {}, {}, {})}
    \cup {Declares(kind, "", names, {"p"}, {}, {}) :
             kind \in {"value", "values"}, names \in {{"a"}, {"a", "b"}, {"b", "_"}}}

LOCAL Imports(decls) ==
    {[name |-> n, path |-> n] : n \in UsedNames(decls)} \cup {[name |-> "", path |-> "unsafe"]}
LOCAL Files(pool, size) ==
    {file \in {[decls |-> decls, imports |-> Imports(decls), floating |-> {"linkname"}] :
                 decls \in UNION {kSubset(n, pool) : n \in 0 .. size}} : IsFile(file)}

(* The overlay and what is left of the original declare every name once    *)
(* and import what they use, as AlgorithmProofs shows of all files.        *)
ASSUME OverlaysFit ==
    \A overlay \in Files(OverlayDecls, 2), original \in Files(OriginalDecls, 3) :
        LET new == ParseAndAugment(overlay, original, FALSE)
        IN  /\ ImportsFit(new.overlay)
            /\ (\A o \in overlay.decls : OverrideSignature(o) =>
                   o.sig \subseteq {i.name : i \in original.imports}) => ImportsFit(new.original)
            /\ DeclaredOnce(new.original.decls)
            /\ \A d \in new.overlay.decls, e \in new.original.decls : Apart(d, e)
-----------------------------------------------------------------------------
(* InstanceMap.                                                            *)

(* Types s and t are identical; u is another with their hash, of one bit,  *)
(* and v one with another hash.                                            *)
LOCAL TypeClass == [x \in {"s", "t", "u", "v"} |-> IF x = "t" THEN "s" ELSE x]
LOCAL TypeHashes == [x \in DOMAIN TypeClass |-> [b \in {0} |-> IF x = "v" THEN 0 ELSE 1]]
LOCAL PkgOfObject == [o \in {"F", "G"} |-> "p"]
LOCAL INSTANCE InstanceMap WITH
    Objects <- {"F", "G"}, Bits <- {0}, Class <- TypeClass, Hash <- TypeHashes,
    ZeroValue <- 0, PkgOf <- PkgOfObject

LOCAL SomeKeys ==
    {Instance("F", <<>>, <<"s">>), Instance("F", <<>>, <<"t">>), Instance("F", <<>>, <<"u">>),
     Instance("F", <<"s">>, <<>>), Instance("F", <<"v">>, <<"t">>), Instance("F", <<>>, <<"v">>),
     Instance("G", <<>>, <<"s">>)}

(* The maps that n calls of Set and Delete make, each with what a plain    *)
(* map from the classes of keys would hold.                                *)
LOCAL Kind(k) == <<k.object, [i \in DOMAIN k.nest |-> TypeClass[k.nest[i]]],
                             [i \in DOMAIN k.args |-> TypeClass[k.args[i]]]>>
LOCAL Kinds == {Kind(k) : k \in SomeKeys}
LOCAL Reached ==
    LET Calls(pair) ==
            {[map |-> Set(pair.map, k, v),
              plain |-> [pair.plain EXCEPT ![Kind(k)] = v]] : k \in SomeKeys, v \in {1, 2}}
            \cup {[map |-> Delete(pair.map, k),
                   plain |-> [pair.plain EXCEPT ![Kind(k)] = 0]] : k \in SomeKeys}
        By[n \in Nat] ==
            IF n = 0 THEN {[map |-> EmptyMap, plain |-> [x \in Kinds |-> 0]]}
            ELSE LET before == By[n - 1] IN before \cup UNION {Calls(p) : p \in before}
    IN  By[4]

(* A map of instances answers as a plain map from what its keys are        *)
(* identical to, also when their hashes collide.                           *)
ASSUME MapsAnswer ==
    /\ HashOfClass
    /\ \A pair \in Reached :
           /\ WellFormed(pair.map)
           /\ \A k \in SomeKeys : /\ Get(pair.map, k) = pair.plain[Kind(k)]
                                  /\ Has(pair.map, k) <=> pair.plain[Kind(k)] # 0
           /\ Cardinality(KeysOf(pair.map)) = pair.map.len
           /\ Cardinality({x \in Kinds : pair.plain[x] # 0}) = pair.map.len

(* The set of the package of F and G after calls: keys that are added, and *)
(* "next".                                                                 *)
LOCAL Package == PkgOfObject["F"]
LOCAL After(calls) ==
    LET sets[i \in 0 .. Len(calls)] ==
            CASE i = 0 -> [p \in {Package} |-> NoInstances]
              [] i > 0 /\ calls[i] # <<>> -> AddTo(sets[i - 1], calls[i][1])
              [] i > 0 /\ calls[i] = <<>> ->
                     IF AllExhausted(sets[i - 1]) THEN sets[i - 1]
                     ELSE [sets[i - 1] EXCEPT ![Package] = Advance(sets[i - 1][Package])]
    IN  sets[Len(calls)]
LOCAL SomeCalls == {<<k>> : k \in SomeKeys} \cup {<<>>}

(* The instances of a package are handed out once each, in the order in    *)
(* which they came, which is also what numbers them.                       *)
ASSUME SetsNumber ==
    \A calls \in [1 .. 4 -> SomeCalls] :
        LET sets == After(calls)
            iset == sets[Package]
        IN  /\ Numbered(iset)
            /\ Exhausted(iset) <=> iset.unprocessed = Len(iset.values)
            /\ \A o \in {"F", "G"} : ObjHasInstances(iset, o) <=> ForObj(iset, o) # <<>>
            /\ ~Exhausted(iset) => IDIn(sets, NextOf(iset)) = iset.unprocessed
            /\ \A k \in SomeKeys : HasID(iset, k) <=>
                   \E i \in 1 .. 4 : calls[i] # <<>> /\ Same(calls[i][1], k)
-----------------------------------------------------------------------------
(* JsIntegers.                                                             *)

(* Every type has a quarter of the bits of the code, or an eighth.         *)
LOCAL W8 == INSTANCE JsIntegers WITH Word <- 8
LOCAL W4 == INSTANCE JsIntegers WITH Word <- 4
LOCAL Type(bits, signed) == [bits |-> bits, signed |-> signed]
LOCAL Least(t) == IF t.signed THEN -(2 ^ (t.bits - 1)) ELSE 0

(* What the operators of Go do to one bit of each operand, and to all.     *)
LOCAL AndBit(x, y) == x * y
LOCAL OrBit(x, y) == IF x + y > 0 THEN 1 ELSE 0
LOCAL XorBit(x, y) == (x + y) % 2
LOCAL AndNotBit(x, y) == x * (1 - y)
LOCAL Bitwise(Op(_, _), x, y) ==
    FoldFunction(+, 0, [i \in 0 .. 7 |-> 2 ^ i * Op((x \div 2 ^ i) % 2, (y \div 2 ^ i) % 2)])

(* Types of up to 32 bits wrap around as Go says, but for the least value  *)
(* of a signed type: negated, or divided by -1 where the type has less     *)
(* than 32 bits, it gives a number that is not of the type.                *)
ASSUME SmallIntegersWrap ==
    \A t \in {Type(bits, signed) : bits \in {2, 4}, signed \in BOOLEAN} :
        \A x, y \in W8!Values(t) :
            LET W(v) == W8!Wrap(v, t.bits, t.signed)
                Quotient == W8!Trunc(x, y)
            IN  /\ W8!Add(x, y, t) = W(x + y) /\ W8!Sub(x, y, t) = W(x - y)
                /\ W8!Mul(x, y, t) = W(x * y)
                /\ W8!And32(x, y, t) = W(Bitwise(AndBit, x, y))
                /\ W8!Or32(x, y, t) = W(Bitwise(OrBit, x, y))
                /\ W8!Xor32(x, y, t) = W(Bitwise(XorBit, x, y))
                /\ W8!AndNot32(x, y, t) = W(Bitwise(AndNotBit, x, y))
                /\ W8!Complement(x, t) = W(-x - 1)
                /\ W8!Neg(x, t) = W(-x) <=> ~(t.signed /\ x = Least(t))
                /\ y = 0 => W8!Quo(x, y, t) = <<>> /\ W8!Rem(x, y) = <<>>
                /\ y # 0 => /\ W8!Rem(x, y) = <<x - y * Quotient>>
                            /\ W8!Quo(x, y, t) = <<W(Quotient)>> <=>
                                   ~(t.signed /\ x = Least(t) /\ y = -1)

(* The same for types of 32 bits, where the division wraps around as well. *)
ASSUME WordsWrap ==
    \A t \in {Type(8, TRUE), Type(8, FALSE)} :
        \A x \in W8!Values(t), y \in {v \in W8!Values(t) : v % 37 \in {0, 1, 36}} :
            LET W(v) == W8!Wrap(v, 8, t.signed)
            IN  /\ W8!Add(x, y, t) = W(x + y) /\ W8!Sub(x, y, t) = W(x - y)
                /\ W8!Mul(x, y, t) = W(x * y)
                /\ W8!And32(x, y, t) = W(Bitwise(AndBit, x, y))
                /\ W8!Or32(x, y, t) = W(Bitwise(OrBit, x, y))
                /\ y # 0 => W8!Quo(x, y, t) = <<W(W8!Trunc(x, y))>>

(* Shifts too, by any count that is not negative, but for those of a       *)
(* negative number to the right by a constant of 32 or more.               *)
ASSUME ShiftsWrap ==
    \A t \in {Type(bits, signed) : bits \in {2, 4, 8}, signed \in BOOLEAN} :
        \A x \in W8!Values(t), y \in 0 .. 12 :
            /\ W8!ShiftLeft(x, y, t) = W8!Wrap(x * 2 ^ y, t.bits, t.signed)
            /\ W8!ShiftRight(x, y, t, FALSE) = x \div 2 ^ y
            /\ W8!ShiftRight(x, y, t, TRUE) = x \div 2 ^ y <=> y < 8 \/ x >= 0

(* int64 and uint64 wrap around as Go says; so do the least number divided *)
(* by -1, and its remainders.                                              *)
LOCAL Wide(s) == {W4!ObjectOf(v, s) : v \in 0 .. 255}
LOCAL SomeWide(s) == {W4!ObjectOf(v, s) : v \in {0, 1, 2, 7, 15, 16, 127, 128, 240, 254, 255}}
ASSUME WideIntegersWrap ==
    \A s \in BOOLEAN : \A x \in Wide(s), y \in SomeWide(s) :
        LET a == W4!ValueOf(x)
            b == W4!ValueOf(y)
            O(v) == W4!ObjectOf(W4!Wrap(v, 8, s), s)
        IN  /\ W4!Add64(x, y, s) = O(a + b) /\ W4!Sub64(x, y, s) = O(a - b)
            /\ W4!Mul64(x, y, s) = O(a * b)
            /\ W4!And64(x, y, s) = O(Bitwise(AndBit, a, b))
            /\ W4!Or64(x, y, s) = O(Bitwise(OrBit, a, b))
            /\ W4!Xor64(x, y, s) = O(Bitwise(XorBit, a, b))
            /\ W4!AndNot64(x, y, s) = O(Bitwise(AndNotBit, a, b))
            /\ W4!Neg64(x, s) = O(-a) /\ W4!Complement64(x, s) = O(-a - 1)
            /\ (W4!Less(x, y) <=> a < b) /\ (W4!LessOrEqual(x, y) <=> a <= b)
            /\ b = 0 => \A r \in BOOLEAN : W4!Div64(x, y, r, s) = <<>>
            /\ b # 0 => /\ W4!Div64(x, y, FALSE, s) = <<O(W4!Trunc(a, b))>>
                        /\ W4!Div64(x, y, TRUE, s) = <<O(a - b * W4!Trunc(a, b))>>
(* So do their shifts, also by more than their bits.                       *)
ASSUME WideShiftsWrap ==
    \A s \in BOOLEAN : \A x \in Wide(s), y \in 0 .. 10 :
        LET a == W4!ValueOf(x)
            O(v) == W4!ObjectOf(W4!Wrap(v, 8, s), s)
        IN  /\ W4!ShiftLeft64(x, y, s) = O(a * 2 ^ y)
            /\ O(a \div 2 ^ y) =
                  IF s THEN W4!ShiftRightInt64(x, y) ELSE W4!ShiftRightUint64(x, y)

(* A conversion to a type keeps the bits that the type has.                *)
ASSUME ConversionsWrap ==
    \A s \in BOOLEAN, t \in {Type(bits, signed) : bits \in {1, 2, 4}, signed \in BOOLEAN} :
        /\ \A x \in W4!Values(t) : W4!To64(x, Type(8, s)) = W4!ObjectOf(W4!Wrap(x, 8, s), s)
        /\ \A x \in Wide(s) :
               LET v == W4!ValueOf(x)
               IN  /\ W4!From64(x, Type(8, s), t) = W4!Wrap(v, t.bits, t.signed)
                   /\ W4!From64To64(x, Type(8, t.signed)) =
                          W4!ObjectOf(W4!Wrap(v, 8, t.signed), t.signed)
        /\ \A bits \in {1, 2, 4} : \A x \in W4!Values(t) :
               W4!Convert(x, Type(bits, s)) = W4!Wrap(x, bits, s)

(* math/bits of the natives is exact, and panics as that of Go does.       *)
ASSUME BitsAreExact ==
    \A x, y \in 0 .. 15 :
        /\ W4!Mul32(x, y) = <<(x * y) \div 16, (x * y) % 16>>
        /\ \A c \in {0, 1} : W4!Add32(x, y, c) = <<(x + y + c) % 16, (x + y + c) \div 16>>
        /\ \A hi \in 0 .. 15 :
               LET v == 16 * hi + x
               IN  /\ W4!Div32(hi, x, y) = IF y <= hi THEN <<>> ELSE <<v \div y, v % y>>
                   /\ W4!Rem32(hi, x, y) = IF y = 0 THEN <<>> ELSE <<v % y>>

-----------------------------------------------------------------------------
(* Nosync.                                                                 *)

(* Values of two types, of which only equality counts.                     *)
LOCAL Nothing == [type |-> "none", data |-> 0]
LOCAL INSTANCE Nosync WITH Word <- 4, Nil <- Nothing
LOCAL Held == {[type |-> t, data |-> d] : t \in {"int", "string"}, d \in {1, 2}}

(* What calls make of a state; a panic ends nothing, as it is recovered.   *)
LOCAL Sequences(S, n) == UNION {[1 .. k -> S] : k \in 0 .. n}
LOCAL Results(Call(_, _), initial, calls) ==
    LET at[i \in 0 .. Len(calls)] ==
            IF i = 0 THEN Does(initial, "none") ELSE Call(at[i - 1].state, calls[i])
    IN  at
LOCAL Count(calls, results, call) ==
    Cardinality({i \in DOMAIN calls : calls[i] = call /\ results[i].result # <<>>})

(* A lock of nosync panics exactly where that of sync would wait for ever  *)
(* or report an unlock of what is not locked: whoever holds it is counted. *)
LOCAL OnRWMutex(rw, call) ==
    CASE call = "Lock" -> WLock(rw)
      [] call = "Unlock" -> WUnlock(rw)
      [] call = "RLock" -> RLock(rw)
      [] call = "RUnlock" -> RUnlock(rw)
ASSUME LocksPanic ==
    \A calls \in Sequences({"Lock", "Unlock", "RLock", "RUnlock"}, 5) :
        LET results == Results(OnRWMutex, NewRWMutex, calls)
            Balance(i, open, close) ==
                LET before == SubSeq(calls, 1, i)
                IN  Count(before, results, open) - Count(before, results, close)
        IN  \A i \in DOMAIN calls :
                LET writers == Balance(i - 1, "Lock", "Unlock")
                    readers == Balance(i - 1, "RLock", "RUnlock")
                IN  /\ writers + readers = 0 \/ (writers = 1 <=> readers = 0)
                    /\ results[i].result = <<>> <=>
                         CASE calls[i] = "Lock" -> writers + readers > 0
                           [] calls[i] = "Unlock" -> writers = 0
                           [] calls[i] = "RLock" -> writers > 0
                           [] calls[i] = "RUnlock" -> readers = 0
(* The same of a Mutex, which is held or not.                              *)
ASSUME MutexPanics ==
    \A calls \in Sequences({"Lock", "Unlock"}, 5) :
        LET On(m, call) == IF call = "Lock" THEN Lock(m) ELSE Unlock(m)
            results == Results(On, FALSE, calls)
        IN  \A i \in DOMAIN calls :
                results[i].result = <<>> <=> (calls[i] = "Lock") = results[i - 1].state

(* f of a Once is called once, whatever it calls itself and however it     *)
(* ends; calls that come while it runs panic.                              *)
ASSUME OnceIsOnce ==
    \A calls \in Sequences({"Do", "ends"}, 5) :
        LET On(o, call) ==
                CASE call = "Do" -> Do(o)
                  [] call = "ends" /\ o.doing -> Returns(DoEnds(o))
                  [] OTHER -> Returns(o)
            results == Results(On, NewOnce, calls)
            Calls(i) == calls[i] = "Do" /\ results[i].result = <<TRUE>>
        IN  /\ Cardinality({i \in DOMAIN calls : Calls(i)}) <= 1
            /\ \A i \in DOMAIN calls :
                   (calls[i] = "Do" /\ results[i].result = <<>>) <=>
                       calls[i] = "Do" /\ results[i - 1].state.doing

(* What a Pool gives was put into it and not given since, or is new.       *)
LOCAL New == [type |-> "int", data |-> 0]
LOCAL Items == {x \in Held : x.type = "string"}
ASSUME PoolsGiveOnce ==
    \A calls \in Sequences({<<>>, <<Nothing>>} \cup {<<x>> : x \in Items}, 5) :
        LET On(store, call) == IF call = <<>> THEN GetOf(store, New) ELSE Put(store, call[1])
            results == Results(On, <<>>, calls)
            Given(x) == Cardinality({i \in DOMAIN calls :
                                       calls[i] = <<>> /\ results[i].result = <<x>>})
            Kept(x) == Cardinality({i \in DOMAIN results[Len(calls)].state :
                                      results[Len(calls)].state[i] = x})
        IN  /\ \A x \in Items :
                   Given(x) + Kept(x) = Cardinality({i \in DOMAIN calls : calls[i] = <<x>>})
            /\ Given(Nothing) = 0

(* A WaitGroup counts, and Wait panics where it would wait.                *)
ASSUME WaitPanics ==
    \A deltas \in Sequences({-1, 1, 2}, 4) :
        LET On(counter, delta) == IF delta = -1 THEN DoneWait(counter) ELSE AddWait(counter, delta)
            results == Results(On, 0, deltas)
        IN  /\ results[Len(deltas)].state = FoldSeq(+, 0, deltas)
            /\ Wait(results[Len(deltas)].state).result = <<>> <=> FoldSeq(+, 0, deltas) # 0

(* A Map answers as a function from keys.                                  *)
ASSUME MapsLoad ==
    \A m \in UNION {[keys -> Held] : keys \in SUBSET {"k", "l"}}, k \in {"k", "l"}, v \in Held :
        /\ LoadKey(StoreKey(m, k, v).state, k).result = << <<v, TRUE>> >>
        /\ LoadKey(DeleteKey(m, k).state, k).result = << <<Nothing, FALSE>> >>
        /\ LET given == LoadOrStore(m, k, v)
           IN  given.result = << <<LoadKey(given.state, k).result[1][1], k \in DOMAIN m>> >>

(* A variable that CompareAndSwap changed held old.  The type of an        *)
(* atomic.Value never changes; it is compared as in Go, but for a          *)
(* CompareAndSwap of nil by something, which in Go fails where a value of  *)
(* that type was stored, and panics here.                                  *)
LOCAL GoCompareAndSwapValue(v, old, new) ==
    IF \/ new = Nothing
       \/ old # Nothing /\ old.type # new.type
       \/ v # Nothing /\ v.type # new.type
    THEN Panics(v) ELSE CompareAndSwap(v, old, new)
ASSUME ValuesKeepTypes ==
    \A v, old, new \in Held \cup {Nothing} :
        /\ \A held \in {StoreValue(v, new).state, SwapValue(v, new).state,
                       CompareAndSwapValue(v, old, new).state} :
               v # Nothing => held.type = v.type
        /\ CompareAndSwapValue(v, old, new) = GoCompareAndSwapValue(v, old, new) <=>
               ~(v # Nothing /\ old = Nothing /\ new # Nothing /\ v.type = new.type)
(* What AddInt32 and the others return is what the variable holds then.    *)
ASSUME AtomicsAdd ==
    \A t \in {Type(4, TRUE), Type(4, FALSE)} : \A v, delta \in W4!Values(t) :
        LET sum == AddDelta(v, delta, t)
        IN  /\ sum.result = <<W4!Wrap(v + delta, 4, t.signed)>>
            /\ Load(sum.state).result = sum.result
            /\ Swap(v, delta) = Does(Store(v, delta).state, v)
==============================================================================
