------------------------------ MODULE MCValues ------------------------------
(* Programs start with two structs, an array, and an array of three        *)
(* elements; the slices, the pointers and the interface refer to them in   *)
(* different ways.                                                         *)
EXTENDS ValueSemantics

Struct(x) == [x |-> x, b |-> [y |-> x + 10]]
Elem(T, x) == IF T = "S" THEN Struct(x) ELSE x

(* The objects of one struct each, at 2 * i - 1 and 2 * i, then the arrays. *)
StructObjects(xs) ==
    FlattenSeq([i \in 1 .. Len(xs) |-> <<[y |-> xs[i] + 10], [x |-> xs[i], b |-> 2 * i - 1]>>])
Objects(T) ==
    StructObjects(<<1, 2, 3, 4, 5, 6, 7, 8>>) \o
        <<[i \in 0 .. 1 |-> 2 * (i + 3)],
          [i \in 0 .. 2 |-> IF T = "S" THEN 2 * (i + 5) ELSE i + 5]>>
Mem(T) == <<[typ |-> "S", val |-> Struct(1), obj |-> 2], [typ |-> "S", val |-> Struct(2), obj |-> 4],
            [typ |-> "C", val |-> [i \in 0 .. 1 |-> Struct(i + 3)], obj |-> 17],
            [typ |-> "array", val |-> [i \in 0 .. 2 |-> Elem(T, i + 5)], obj |-> 18]>>

Base(T) ==
    [elem |-> T,
     go |-> [mem |-> Mem(T), s |-> 1, t |-> 2, c |-> 3, p |-> Loc(1, <<>>), n |-> Loc(3, <<1, "x">>),
             a |-> [root |-> 3, base |-> 0], e |-> [typ |-> "S", val |-> Struct(8)],
             l |-> [arr |-> 4, off |-> 0, len |-> 2, cap |-> 3], k |-> GoNil, m |-> <<>>],
     js |-> [heap |-> Objects(T), s |-> 2, t |-> 4, c |-> 17, p |-> 2, n |-> [obj |-> 8, key |-> "x"],
             a |-> 17, e |-> [typ |-> "S", val |-> 16],
             l |-> [array |-> 18, offset |-> 0, length |-> 2, capacity |-> 3], k |-> NilSlice, m |-> <<>>]]

(* k is a part of the array of l.                                          *)
Overlap(b, off, len, cap) ==
    [b EXCEPT !.go.k = [arr |-> 4, off |-> off, len |-> len, cap |-> cap],
              !.js.k = [array |-> 18, offset |-> off, length |-> len, capacity |-> cap]]
(* p points to an element of the array of l.                               *)
PointsInto(b) == [b EXCEPT !.go.p = Loc(4, <<1>>), !.js.p = 12]
PointsIntoArray(b) == [b EXCEPT !.go.p = Loc(3, <<1>>), !.js.p = 8]

MCSetups ==
    {Base("S"), PointsIntoArray(Overlap(Base("S"), 1, 2, 2)), PointsInto(Overlap(Base("S"), 0, 1, 1)),
     Base("int"), Overlap(Base("int"), 1, 2, 2), Overlap(Base("int"), 0, 1, 1)}
=============================================================================
