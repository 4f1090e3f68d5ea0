------------------------------ MODULE JsValues ------------------------------
(* How the generated JavaScript represents Go values, and the operations   *)
(* of the prelude on them. A struct or an array is a JavaScript object of  *)
(* its own, held by reference: heap is the sequence of those objects, an   *)
(* object maps its properties or indices to values, and the value of a     *)
(* nested struct or array is the number of its object. A pointer to a      *)
(* struct or an array is that object itself; a pointer to an int is a      *)
(* getter and setter of one property, [obj, key], cached there. A slice is *)
(* an array object with an offset, a length and a capacity.                *)
EXTENDS Naturals, FiniteSets, Sequences, SequencesExt

CONSTANT Panic      \* what an operation returns that throws a run-time error

(* The types: int, B = struct{y int}, S = struct{x int; b B}, C = [2]S.    *)
FieldTypes == [B |-> [y |-> "int"], S |-> [x |-> "int", b |-> "B"]]
Fields == [B |-> <<"y">>, S |-> <<"x", "b">>]
IsArray(T) == T = "C"
Composite(T) == T \in {"B", "S", "C"}

(* An operation returns the heap it leaves and its value.                  *)
Result(h, v) == [heap |-> h, val |-> v]
New(h, object) == Result(Append(h, object), Len(h) + 1)

(* typ.zero: a new object with new objects for its nested values.          *)
AddElem(elems, r) == Result(r.heap, Append(elems, r.val))
NewArray(r) == New(r.heap, [i \in 0 .. Len(r.val) - 1 |-> r.val[i + 1]])
NewS(b) == New(b.heap, [x |-> 0, b |-> b.val])
RECURSIVE Zero(_, _)
ZeroArray(h, elem, n) ==
    NewArray(FoldLeft(LAMBDA r, i: AddElem(r.val, Zero(r.heap, elem)), Result(h, <<>>), [i \in 1 .. n |-> i]))
Zero(h, T) ==
    IF IsArray(T) THEN ZeroArray(h, "S", 2)
    ELSE IF T = "S" THEN NewS(Zero(h, "B"))
    ELSE IF T = "B" THEN New(h, [y |-> 0])
    ELSE Result(h, 0)

(* Mutant of CopyArray: always copies from the first element on.           *)
RECURSIVE Copy(_, _, _, _)
CopyElem(h, dst, i, src, j, elem) ==
    IF Composite(elem) THEN Copy(h, h[dst][i], h[src][j], elem)
    ELSE [h EXCEPT ![dst][i] = h[src][j]]
CopyAscending(h, dst, src, dstOffset, srcOffset, n, elem) ==
    IF n = 0 \/ (dst = src /\ dstOffset = srcOffset) THEN h
    ELSE FoldLeft(LAMBDA g, i: CopyElem(g, dst, dstOffset + i - 1, src, srcOffset + i - 1, elem),
                  h, [i \in 1 .. n |-> i])

(* $copyArray: downwards when the ranges may overlap upwards.              *)
CopyArray(h, dst, src, dstOffset, srcOffset, n, elem) ==
    IF n = 0 \/ (dst = src /\ dstOffset = srcOffset) THEN h
    ELSE LET order == [i \in 1 .. n |-> IF dst = src /\ dstOffset > srcOffset THEN n - i ELSE i - 1]
         IN  FoldLeft(LAMBDA g, i: CopyElem(g, dst, dstOffset + i, src, srcOffset + i, elem), h, order)

(* Mutant of CopyStruct: nested structs are assigned, not copied.          *)
CopyShallow(h, dst, src, T) == [h EXCEPT ![dst] = h[src]]

(* typ.copy of a struct: nested structs and arrays are copied in turn.     *)
CopyStruct(h, dst, src, T) ==
    FoldLeft(LAMBDA g, f: IF Composite(FieldTypes[T][f]) THEN Copy(g, g[dst][f], g[src][f], FieldTypes[T][f])
                          ELSE [g EXCEPT ![dst][f] = g[src][f]], h, Fields[T])
Copy(h, dst, src, T) ==
    IF IsArray(T) THEN CopyArray(h, dst, src, 0, 0, 2, "S") ELSE CopyStruct(h, dst, src, T)

CopyInto(z, src, T) == Result(Copy(z.heap, z.val, src, T), z.val)
Clone(h, src, T) == CopyInto(Zero(h, T), src, T)

-----------------------------------------------------------------------------
(* Slices. The nil slice of a type is one frozen object with no elements.  *)
NilSlice == [array |-> 0, offset |-> 0, length |-> 0, capacity |-> 0]
ArrayLength(h, array) == Cardinality(DOMAIN h[array])
SliceOf(h, array) == [array |-> array, offset |-> 0, length |-> ArrayLength(h, array),
                      capacity |-> ArrayLength(h, array)]

Subslice(s, low, high, max) ==
    IF high < low \/ max < high \/ high > s.capacity \/ max > s.capacity THEN Panic
    ELSE IF s = NilSlice THEN s
    ELSE [s EXCEPT !.offset = @ + low, !.length = high - low, !.capacity = max - low]

SliceOfNew(a, length) == Result(a.heap, [SliceOf(a.heap, a.val) EXCEPT !.length = length])
MakeSlice(h, elem, length, capacity) == SliceOfNew(ZeroArray(h, elem, capacity), length)

CalculateNewCapacity(minCapacity, oldCapacity) ==
    IF minCapacity > oldCapacity * 2 THEN minCapacity ELSE oldCapacity * 2

(* $growSlice: the new array holds the elements of the old one themselves, *)
(* not copies of them, and zero values above.                              *)
MovedTo(fresh, s) ==
    Result([fresh.heap EXCEPT ![fresh.val] = [i \in DOMAIN @ |-> IF i < s.length THEN fresh.heap[s.array][s.offset + i]
                                                                 ELSE @[i]]],
           [SliceOf(fresh.heap, fresh.val) EXCEPT !.length = s.length])
GrowSlice(h, s, minCapacity, elem) ==
    IF minCapacity <= s.capacity THEN Result(h, s)
    ELSE MovedTo(ZeroArray(h, elem, CalculateNewCapacity(minCapacity, s.capacity)), s)

Filled(h, s, array, offset, length, elem) ==
    Result(CopyArray(h, s.array, array, s.offset + s.length, offset, length, elem), [s EXCEPT !.length = @ + length])
FilledGrown(grown, array, offset, length, elem) == Filled(grown.heap, grown.val, array, offset, length, elem)
InternalAppend(h, s, array, offset, length, elem) ==
    IF length = 0 THEN Result(h, s)
    ELSE FilledGrown(GrowSlice(h, s, s.length + length, elem), array, offset, length, elem)

(* $append gets the values in its arguments object.                        *)
AppendValues(h, s, values, elem) ==
    InternalAppend(Append(h, [i \in 0 .. Len(values) |-> IF i = 0 THEN 0 ELSE values[i]]), s, Len(h) + 1, 1,
                   Len(values), elem)
AppendSlice(h, s, more, elem) == InternalAppend(h, s, more.array, more.offset, more.length, elem)

CopySlice(h, dst, src, elem) ==
    LET n == IF src.length < dst.length THEN src.length ELSE dst.length
    IN  CopyArray(h, dst.array, src.array, dst.offset, src.offset, n, elem)

(* $convertSliceType slices the whole array: a capacity below the array's  *)
(* end is lost.                                                            *)
ConvertSliceType(h, s) ==
    IF s = NilSlice THEN s
    ELSE Subslice(SliceOf(h, s.array), s.offset, s.offset + s.length, ArrayLength(h, s.array))

(* $sliceToGoArray, to a pointer to a [2]S: it is the slice's own array,   *)
(* or nothing that has pointers into the slice.                            *)
SliceToGoArray(s) ==
    IF s.length < 2 \/ ~(s.offset = 0 /\ s.length = s.capacity /\ s.length = 2) THEN Panic
    ELSE s.array
=============================================================================
