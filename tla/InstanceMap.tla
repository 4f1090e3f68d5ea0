----------------------------- MODULE InstanceMap -----------------------------
(* Maps keyed by instances of generic types and functions, and the sets of *)
(* instances built on them: typeparams/map.go and typeparams/instance.go.  *)
(*                                                                         *)
(* An instance is its object, the type arguments of the function that the  *)
(* object is declared in (nest) and its own type arguments (args).  Types  *)
(* are pointers, two of which may be identical: types.Identical compares   *)
(* their classes.  A map keeps its entries in buckets, one per object and  *)
(* hash of the types; a bucket that was never made is an empty one.  An    *)
(* element of a bucket is a nil pointer, {}, or a pointer to an entry, the *)
(* set of that entry.  A hash is its bits.                                 *)
EXTENDS Naturals, Sequences, FiniteSets

CONSTANTS
    Objects,   \* types.Object, compared by pointer
    Bits,      \* of a hash
    Class,     \* the class of a type: identical types have the same
    Hash,      \* the bits, 0 or 1, that typeutil.Hasher computes of a type
    ZeroValue, \* of the values of a map
    PkgOf      \* the package that declares an object

-----------------------------------------------------------------------------
(* Keys.                                                                   *)

Instance(object, nest, args) == [object |-> object, nest |-> nest, args |-> args]

IsTrivial(inst) == inst.args = <<>> /\ inst.nest = <<>>

Equal(list, other) ==
    /\ Len(list) = Len(other)
    /\ \A i \in 1 .. Len(list) : Class[list[i]] = Class[other[i]]

CandidateArgsMatch(key, candidate) ==
    \E e \in candidate : Equal(e.key.nest, key.nest) /\ Equal(e.key.args, key.args)

(* The xor of the hashes: a bit of it is the parity of the types that have *)
(* the bit.                                                                *)
Having(b, list) == {i \in 1 .. Len(list) : Hash[list[i]][b] = 1}
TypeHash(key) ==
    [b \in Bits |-> (Cardinality(Having(b, key.nest)) + Cardinality(Having(b, key.args))) % 2]

-----------------------------------------------------------------------------
(* InstanceMap.                                                            *)

Hashes == [Bits -> {0, 1}]
EmptyMap == [data |-> [at \in Objects \X Hashes |-> <<>>], len |-> 0]

Entry(key, value) == [key |-> key, value |-> value]
At(key) == <<key.object, TypeHash(key)>>

FindIndex(m, key) ==
    LET bucket == m.data[At(key)]
        found == {i \in 1 .. Len(bucket) : CandidateArgsMatch(key, bucket[i])}
    IN  IF found = {} THEN 0 ELSE CHOOSE i \in found : \A j \in found : i <= j

Has(m, key) == FindIndex(m, key) > 0
Found(m, key) == CHOOSE e \in m.data[At(key)][FindIndex(m, key)] : TRUE
Get(m, key) == IF Has(m, key) THEN Found(m, key).value ELSE ZeroValue

(* The last nil of a bucket is used again for a new entry.                 *)
Holes(bucket) == {i \in 1 .. Len(bucket) : bucket[i] = {}}
LastHole(bucket) == CHOOSE i \in Holes(bucket) : \A j \in Holes(bucket) : j <= i
WithEntry(bucket, e) ==
    IF Holes(bucket) = {} THEN Append(bucket, {e})
    ELSE [bucket EXCEPT ![LastHole(bucket)] = {e}]

(* An identical key keeps its entry, whose value is overridden.            *)
Override(m, key, value) ==
    [m EXCEPT !.data[At(key)][FindIndex(m, key)] = {Entry(Found(m, key).key, value)}]
Insert(m, key, value) ==
    [m EXCEPT !.data[At(key)] = WithEntry(m.data[At(key)], Entry(key, value)), !.len = @ + 1]
Set(m, key, value) ==
    IF Has(m, key) THEN Override(m, key, value) ELSE Insert(m, key, value)

(* A bucket is not compacted: iterators may be in it.                      *)
Delete(m, key) ==
    IF Has(m, key)
    THEN [m EXCEPT !.data[At(key)][FindIndex(m, key)] = {}, !.len = @ - 1]
    ELSE m

(* The places of the map that Iterate visits, and the keys it finds there. *)
Filled(bucket) == {i \in 1 .. Len(bucket) : bucket[i] # {}}
Places(m) == UNION {{<<at, i>> : i \in Filled(m.data[at])} : at \in DOMAIN m.data}
KeysOf(m) == {e.key : e \in UNION {m.data[p[1]][p[2]] : p \in Places(m)}}

-----------------------------------------------------------------------------
(* InstanceSet.                                                            *)

NoInstances == [values |-> <<>>, unprocessed |-> 0, seen |-> EmptyMap]

Add(iset, inst) ==
    IF Has(iset.seen, inst) THEN iset
    ELSE [iset EXCEPT !.seen = Set(iset.seen, inst, iset.seen.len), !.values = Append(@, inst)]

(* ID panics for an instance that was never added.                         *)
HasID(iset, inst) == Has(iset.seen, inst)
ID(iset, inst) == Get(iset.seen, inst)

Exhausted(iset) == Len(iset.values) <= iset.unprocessed
NextOf(iset) == iset.values[iset.unprocessed + 1]
Advance(iset) == [iset EXCEPT !.unprocessed = @ + 1]

ForObj(iset, obj) == SelectSeq(iset.values, LAMBDA inst : inst.object = obj)
ObjHasInstances(iset, obj) == \E i \in 1 .. Len(iset.values) : iset.values[i].object = obj

-----------------------------------------------------------------------------
(* PackageInstanceSets, a set per package.                                 *)

AllExhausted(sets) == \A pkg \in DOMAIN sets : Exhausted(sets[pkg])
AddTo(sets, inst) == [sets EXCEPT ![PkgOf[inst.object]] = Add(sets[PkgOf[inst.object]], inst)]
IDIn(sets, inst) == ID(sets[PkgOf[inst.object]], inst)

-----------------------------------------------------------------------------
(* What makes them right.                                                  *)

(* Identical types have the same hash: what typeutil.Hasher promises.      *)
HashOfClass == \A s, t \in DOMAIN Class : Class[s] = Class[t] => Hash[s] = Hash[t]

(* Two keys that the map does not tell apart.                              *)
Same(key, other) ==
    /\ key.object = other.object
    /\ Equal(key.nest, other.nest) /\ Equal(key.args, other.args)

(* Every entry is in the bucket that a search for its key looks in, no two *)
(* entries have the same key, and len counts them: nothing that was set is *)
(* lost and nothing is found twice.                                        *)
WellFormed(m) ==
    /\ \A p \in Places(m) : \A e \in m.data[p[1]][p[2]] : At(e.key) = p[1]
    /\ \A p, q \in Places(m) : p # q =>
           \A e \in m.data[p[1]][p[2]], f \in m.data[q[1]][q[2]] : ~Same(e.key, f.key)
    /\ IsFiniteSet(Places(m)) /\ m.len = Cardinality(Places(m))

(* The instances of a set are its values, each once, numbered in the order *)
(* in which they were added; those before unprocessed were handed out.     *)
Numbered(iset) ==
    /\ WellFormed(iset.seen) /\ iset.seen.len = Len(iset.values)
    /\ iset.unprocessed <= Len(iset.values)
    /\ \A i \in 1 .. Len(iset.values) :
           Has(iset.seen, iset.values[i]) /\ Get(iset.seen, iset.values[i]) = i - 1
================================================================================
