----------------------------- MODULE JsReflect ------------------------------
(* Package reflect over the values of JsValues. A reflect.Value is its     *)
(* type, what its ptr refers to and its flags: the object of a struct or   *)
(* an array, a property [obj, key] for an element or a field of another    *)
(* type, and the slice itself for the values made from one.                *)
EXTENDS JsValues

Value(typ, ptr, indir, addr) == [typ |-> typ, ptr |-> ptr, indir |-> indir, addr |-> addr]

(* makeValue of what an interface holds: not addressable, and a struct or  *)
(* an array is not reached through a pointer either.                       *)
ValueOf(box) == Value(box.typ, box.val, ~Composite(box.typ), FALSE)
ElemOfPointer(T, obj) == Value(T, obj, TRUE, TRUE)

Part(h, v, T, key, addr) ==
    IF Composite(T) THEN Value(T, h[v.ptr][key], v.indir \/ addr, v.addr \/ addr)
    ELSE Value(T, [obj |-> v.ptr, key |-> key], TRUE, v.addr \/ addr)
Field(h, v, f) == Part(h, v, FieldTypes[v.typ][f], f, FALSE)

(* An element of a slice is addressable whatever the slice is.             *)
IndexOfSlice(h, s, i, elem) ==
    IF i >= s.length THEN Panic ELSE Part(h, Value("array", s.array, TRUE, TRUE), elem, s.offset + i, TRUE)

(* copyStruct assigns the properties: a nested struct is shared.           *)
CopyStructShallow(h, dst, src) == [h EXCEPT ![dst] = h[src]]
CopiedShallow(z, src) == Result(CopyStructShallow(z.heap, z.val, src), z.val)
NewStructOf(h, src, T) == CopiedShallow(Zero(h, T), src)

(* Value.Set, with assignTo of an identical type, and Value.SetInt.        *)
SetValue(h, v, x) == Copy(h, v.ptr, x.ptr, v.typ)
SetInt(h, v, n) == [h EXCEPT ![v.ptr.obj][v.ptr.key] = n]

(* valueInterface: only a struct reached through a pointer is copied.      *)
InInterface(r, T) == Result(r.heap, [typ |-> T, val |-> r.val])
ValueInterface(h, v) ==
    InInterface(IF v.indir /\ v.typ \in {"S", "B"} THEN NewStructOf(h, v.ptr, v.typ) ELSE Result(h, v.ptr), v.typ)

(* mapassign of a struct.                                                  *)
MapAssign(h, v) == NewStructOf(h, v.ptr, v.typ)

(* Append: extendSlice and grow, then Set of every new element.            *)
Extended(grown, n) == Result(grown.heap, [grown.val EXCEPT !.length = @ + n])
ExtendSlice(h, s, n, elem) == Extended(GrowSlice(h, s, s.length + n, elem), n)
SetLast(r, x, elem) ==
    Result(SetValue(r.heap, IndexOfSlice(r.heap, r.val, r.val.length - 1, elem), x), r.val)
AppendValue(h, s, x, elem) == SetLast(ExtendSlice(h, s, 1, elem), x, elem)

CopyValues(h, dst, src, elem) == CopySlice(h, dst, src, elem)

(* Value.SetLen and SetCap make a new slice of the same array.             *)
SetLen(s, n) == IF n > s.capacity THEN Panic ELSE [s EXCEPT !.length = n]
SetCap(s, n) == IF n < s.length \/ n > s.capacity THEN Panic ELSE [s EXCEPT !.capacity = n]

(* Value.Slice and Slice3 check against the capacity and call $subslice.   *)
Slice3(s, i, j, k) ==
    IF j < i \/ k < j \/ k > s.capacity THEN Panic ELSE Subslice(s, i, j, k)
=============================================================================
