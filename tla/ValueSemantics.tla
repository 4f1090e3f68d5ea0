--------------------------- MODULE ValueSemantics ---------------------------
(* A Go program that works on structs, arrays, slices, pointers, maps and  *)
(* interfaces, statement by statement, beside the JavaScript that it is    *)
(* compiled to. go is the memory the language defines: mem is the sequence *)
(* of its variables and arrays, each a tree of values, and a location is a *)
(* root and a path. js is what the generated code has: the heap of         *)
(* JsValues and its variables. Every action is one statement: what it does *)
(* to go by the language, to js by its translation.                        *)
(* The program's variables: s, t of type S; c of type C; l, k slices of    *)
(* elem; p a *S, n a *int, a a *C; e an interface; m a map of S.           *)
EXTENDS JsReflect

CONSTANTS
    Departures,     \* the known differences from Go that may occur
    Setups,         \* the states that programs start from
    MaxSteps        \* a bound on the number of statements

VARIABLES go, js, elem, steps, panics
vars == <<go, js, elem, steps, panics>>

None == [typ |-> "nil", val |-> 0]
Fresh == 100 + steps            \* what the next statement writes

-----------------------------------------------------------------------------
(* The memory of Go.                                                       *)
Loc(root, path) == [root |-> root, path |-> path]
RECURSIVE At(_, _), With(_, _, _)
At(tree, path) == IF path = <<>> THEN tree ELSE At(tree[Head(path)], Tail(path))
With(tree, path, v) ==
    IF path = <<>> THEN v ELSE [tree EXCEPT ![Head(path)] = With(@, Tail(path), v)]
GoAt(g, loc) == At(g.mem[loc.root].val, loc.path)
GoSet(g, loc, v) == [g EXCEPT !.mem[loc.root].val = With(@, loc.path, v)]
GoNew(g, T, v, obj) == [g EXCEPT !.mem = Append(@, [typ |-> T, val |-> v, obj |-> obj])]
Lit(v) == [x |-> v, b |-> [y |-> v]]
ZeroTree == IF elem = "S" THEN Lit(0) ELSE 0
IndexLoc(sl, i) == Loc(sl.arr, <<sl.off + i>>)
GoNil == [arr |-> 0, off |-> 0, len |-> 0, cap |-> 0]

(* Expressions of type S: the variables, elements and map entries, what e  *)
(* holds, and a literal with new values.                                   *)
Var(v) == [v |-> v, i |-> 0]
Item(v, i) == [v |-> v, i |-> i]
SliceItems == IF elem # "S" THEN {}
              ELSE {Item("l", i) : i \in 0 .. go.l.len - 1} \cup {Item("k", i) : i \in 0 .. go.k.len - 1}
Places == {Var("s"), Var("t"), Var("p"), Item("c", 0), Item("c", 1), Item("a", 1)} \cup SliceItems
Temporaries == {Var("lit"), Item("m", 1)} \cup (IF go.e.typ = "S" THEN {Var("e")} ELSE {})
Sources == {pl \in Places : pl.i = 0} \cup Temporaries
Named == {Var("s"), Var("p")} \cup {pl \in SliceItems : pl.i = 0}

GoLoc(g, pl) ==
    CASE pl.v \in {"s", "t"} -> Loc(g[pl.v], <<>>)
      [] pl.v = "c"          -> Loc(g.c, <<pl.i>>)
      [] pl.v = "p"          -> g.p
      [] pl.v = "a"          -> Loc(g.a.root, <<g.a.base + pl.i>>)
      [] OTHER               -> IndexLoc(g[pl.v], pl.i)
GoVal(x) ==
    CASE x.v = "lit" -> Lit(Fresh)
      [] x.v = "m"   -> IF x.i \in DOMAIN go.m THEN go.m[x.i] ELSE Lit(0)
      [] x.v = "e"   -> go.e.val
      [] OTHER       -> GoAt(go, GoLoc(go, x))

(* The same in JavaScript: every struct expression is an object.           *)
JsObject(j, pl) ==
    CASE pl.v \in {"s", "t", "p"} -> j[pl.v]
      [] pl.v \in {"c", "a"}      -> j.heap[j[pl.v]][pl.i]
      [] OTHER                    -> j.heap[j[pl.v].array][j[pl.v].offset + pl.i]
NewStruct(h, v) == LET b == New(h, [y |-> v]) IN New(b.heap, [x |-> v, b |-> b.val])
JsExpr(x) ==
    CASE x.v = "lit" -> NewStruct(js.heap, Fresh)
      [] x.v = "m"   -> IF x.i \in DOMAIN js.m THEN Result(js.heap, js.m[x.i]) ELSE Zero(js.heap, "S")
      [] x.v = "e"   -> Result(js.heap, js.e.val)
      [] OTHER       -> Result(js.heap, JsObject(js, x))

(* A call's argument, a map's entry, a channel's or a literal's element:   *)
(* translateImplicitConversionWithCloning.                                 *)
Cloned(r) == Clone(r.heap, r.val, "S")
WithCloning(x) == Cloned(JsExpr(x))

Quiet == panics' = [go |-> FALSE, js |-> FALSE]
Step(g, j) == go' = g /\ js' = j /\ Quiet
(* The object r is copied into obj; variable v is bound to r.              *)
Store(g, obj, r) == Step(g, [js EXCEPT !.heap = Copy(r.heap, obj, r.val, "S")])
Bind(g, v, r) == Step(g, [js EXCEPT !.heap = r.heap, ![v] = r.val])
Sub(loc, f) == Loc(loc.root, Append(loc.path, f))

-----------------------------------------------------------------------------
(* place = x copies x into the object of place.                            *)
Assign(pl, x) ==
    Store(GoSet(go, GoLoc(go, pl), GoVal(x)), JsObject(js, pl), JsExpr(x))

(* t := x, a new variable t; the clone is skipped for a literal.           *)
DefineAs(r, x) == Bind([GoNew(go, "S", GoVal(x), r.val) EXCEPT !.t = Len(go.mem) + 1], "t", r)
Define(x) == DefineAs(IF x.v = "lit" THEN JsExpr(x) ELSE WithCloning(x), x)

(* place.x = v and place.b = x.b.                                          *)
AssignField(pl) ==
    Step(GoSet(go, Sub(GoLoc(go, pl), "x"), Fresh), [js EXCEPT !.heap[JsObject(js, pl)].x = Fresh])
CopyNested(r, pl) == Copy(r.heap, r.heap[JsObject(js, pl)].b, r.heap[r.val].b, "B")
AssignNested(pl, x) ==
    Step(GoSet(go, Sub(GoLoc(go, pl), "b"), GoVal(x).b), [js EXCEPT !.heap = CopyNested(JsExpr(x), pl)])

(* p1, p2 = p2, p1: the right-hand sides are cloned into temporaries.      *)
AssignBoth(p1, p2, t1, t2) ==
    Store(GoSet(GoSet(go, GoLoc(go, p1), GoVal(p2)), GoLoc(go, p2), GoVal(p1)),
          JsObject(js, p2), Result(Copy(t2.heap, JsObject(js, p1), t1.val, "S"), t2.val))
CloneSecond(p1, p2, t1) == AssignBoth(p1, p2, t1, Clone(t1.heap, JsObject(js, p1), "S"))
Swap(p1, p2) == CloneSecond(p1, p2, Clone(js.heap, JsObject(js, p2), "S"))

(* i, c[i] = j, x: the generated code evaluates the index after i is set.  *)
AssignIndexed(i, j, x) ==
    /\ i # j => "tuple" \in Departures
    /\ Store(GoSet(go, Loc(go.c, <<i>>), GoVal(x)), js.heap[js.c][j], WithCloning(x))

(* p = &place is the object of the place, p = &S{...} a new one.           *)
TakeAddress(pl) == Step([go EXCEPT !.p = GoLoc(go, pl)], [js EXCEPT !.p = JsObject(js, pl)])
PointTo(r) == Bind([GoNew(go, "S", Lit(Fresh), r.val) EXCEPT !.p = Loc(Len(go.mem) + 1, <<>>)], "p", r)
NewPointer == PointTo(JsExpr(Var("lit")))

(* n = &place.x, one pointer per object and field; n = &l[i] of an int     *)
(* slice, one pointer per array and index, with no check of the index.     *)
TakeFieldAddress(pl) ==
    Step([go EXCEPT !.n = Sub(GoLoc(go, pl), "x")],
         [js EXCEPT !.n = [obj |-> JsObject(js, pl), key |-> "x"]])
TakeElemAddress(i) ==
    /\ elem = "int" /\ i < go.l.len
    /\ Step([go EXCEPT !.n = IndexLoc(go.l, i)], [js EXCEPT !.n = [obj |-> js.l.array, key |-> js.l.offset + i]])
StoreThroughPointer ==
    Step(GoSet(go, go.n, Fresh), [js EXCEPT !.heap[js.n.obj][js.n.key] = Fresh])

-----------------------------------------------------------------------------
(* Slices.                                                                 *)
GoElems(sl) == [i \in 0 .. sl.len - 1 |-> GoAt(go, IndexLoc(sl, i))]

(* Go's append may choose the capacity of a new array.                     *)
GoAppend(sl, values, capacity, obj) ==
    LET n == sl.len + Cardinality(DOMAIN values)
        kept(i) == IF i < sl.len THEN GoElems(sl)[i] ELSE IF i < n THEN values[i - sl.len] ELSE ZeroTree
    IN  IF n <= sl.cap
        THEN [g |-> [go EXCEPT !.mem[sl.arr].val =
                        [i \in DOMAIN @ |-> IF i \in sl.off + sl.len .. sl.off + n - 1
                                            THEN values[i - sl.off - sl.len] ELSE @[i]]],
              sl |-> [sl EXCEPT !.len = n]]
        ELSE [g |-> GoNew(go, "array", [i \in 0 .. capacity - 1 |-> kept(i)], obj),
              sl |-> [arr |-> Len(go.mem) + 1, off |-> 0, len |-> n, cap |-> capacity]]

(* The array sl had is still in use by a program in state g.               *)
InUse(g, sl) == sl.arr \in {g.l.arr, g.k.arr, g.p.root, g.n.root, g.a.root, g.c}

AppendTo(a, v, from, r) ==
    /\ (elem = "S" /\ go[from].len > 0 /\ r.val.array # js[from].array /\ InUse([a.g EXCEPT ![v] = a.sl], go[from]))
            => "append" \in Departures
    /\ Bind([a.g EXCEPT ![v] = a.sl], v, r)
Appended(v, from, values, r) == AppendTo(GoAppend(go[from], values, r.val.capacity, r.val.array), v, from, r)

AppendedValue(r, from) == AppendValues(r.heap, js[from], <<r.val>>, elem)
AppendStmt(v, from, x) ==
    IF elem = "int" THEN x = Var("lit") /\ Appended(v, from, [i \in {0} |-> Fresh],
                                                    AppendedValue(Result(js.heap, Fresh), from))
    ELSE Appended(v, from, [i \in {0} |-> GoVal(x)], AppendedValue(JsExpr(x), from))
AppendSliceStmt(v, from, more) ==
    /\ js[more].length > 0
    /\ Appended(v, from, GoElems(go[more]), AppendSlice(js.heap, js[from], js[more], elem))
ReflectAppended(r, from) == AppendValue(r.heap, js[from], Value("S", r.val, FALSE, FALSE), "S")
ReflectAppend(v, from, x) ==
    /\ elem = "S"
    /\ Appended(v, from, [i \in {0} |-> GoVal(x)], ReflectAppended(JsExpr(x), from))

GoSlice(sl, i, j, k) ==
    IF ~(i <= j /\ j <= k /\ k <= sl.cap) THEN Panic
    ELSE IF sl = GoNil THEN sl
    ELSE [sl EXCEPT !.off = @ + i, !.len = j - i, !.cap = k - i]
SetSlice(v, g, j) ==
    /\ panics' = [go |-> g = Panic, js |-> j = Panic]
    /\ go' = IF g = Panic THEN go ELSE [go EXCEPT ![v] = g]
    /\ js' = IF j = Panic THEN js ELSE [js EXCEPT ![v] = j]

(* v = from[i:j:k], and the same by reflection; v = c[i:j].                *)
SliceStmt(v, from, i, j, k) ==
    SetSlice(v, GoSlice(go[from], i, j, k), Subslice(js[from], i, j, k))
ReflectSlice(v, from, i, j, k) ==
    SetSlice(v, GoSlice(go[from], i, j, k), Slice3(js[from], i, j, k))
SliceArray(v, i, j) ==
    /\ elem = "S"
    /\ SetSlice(v, GoSlice([arr |-> go.c, off |-> 0, len |-> 2, cap |-> 2], i, j, 2),
                Subslice(SliceOf(js.heap, js.c), i, j, 2))
ReflectSetLen(v, n) ==
    SetSlice(v, IF n > go[v].cap THEN Panic ELSE [go[v] EXCEPT !.len = n], SetLen(js[v], n))
ReflectSetCap(v, n) ==
    SetSlice(v, IF n < go[v].len \/ n > go[v].cap THEN Panic ELSE [go[v] EXCEPT !.cap = n], SetCap(js[v], n))

(* v = T(from) with another slice type and back.                           *)
ConvertSlice(v, from) ==
    LET r == ConvertSliceType(js.heap, js[from])
    IN  /\ r.capacity # js[from].capacity => "convert" \in Departures
        /\ SetSlice(v, go[from], r)

MakeAs(r, v, length, capacity) ==
    Bind([GoNew(go, "array", [i \in 0 .. capacity - 1 |-> ZeroTree], r.val.array)
            EXCEPT ![v] = [arr |-> Len(go.mem) + 1, off |-> 0, len |-> length, cap |-> capacity]], v, r)
MakeStmt(v, length, capacity) == MakeAs(MakeSlice(js.heap, elem, length, capacity), v, length, capacity)

(* copy(dst, src), and the same by reflection.                             *)
GoCopied(dst, src) ==
    LET n == IF src.len < dst.len THEN src.len ELSE dst.len
        old == GoElems(src)
    IN  IF n = 0 THEN go
        ELSE [go EXCEPT !.mem[dst.arr].val =
                 [i \in DOMAIN @ |-> IF i \in dst.off .. dst.off + n - 1 THEN old[i - dst.off] ELSE @[i]]]
CopyStmt(dst, src) ==
    Step(GoCopied(go[dst], go[src]), [js EXCEPT !.heap = CopySlice(js.heap, js[dst], js[src], elem)])
ReflectCopy(dst, src) ==
    Step(GoCopied(go[dst], go[src]), [js EXCEPT !.heap = CopyValues(js.heap, js[dst], js[src], elem)])

AssignIntElem(i) ==
    /\ elem = "int" /\ i < go.l.len
    /\ Step(GoSet(go, IndexLoc(go.l, i), Fresh), [js EXCEPT !.heap[js.l.array][js.l.offset + i] = Fresh])

-----------------------------------------------------------------------------
(* Arrays: c = *a, *a = c, a = &c, conversions of slices to C and *C.      *)
GoArray(a) == [i \in 0 .. 1 |-> GoAt(go, Loc(a.root, <<a.base + i>>))]
AtVarC == [root |-> go.c, base |-> 0]
(* Mutant of CopyArrayStmt: c = *a binds c to a copy.                      *)
CopyArrayRebinds(load) ==
    LET r == Clone(js.heap, js.a, "C")
    IN  load /\ Step(GoSet(GoSet(go, Loc(go.c, <<0>>), GoArray(go.a)[0]), Loc(go.c, <<1>>), GoArray(go.a)[1]),
                     [js EXCEPT !.heap = r.heap, !.c = r.val])

CopyArrayStmt(load) ==
    LET src == IF load THEN go.a ELSE AtVarC
        dst == IF load THEN AtVarC ELSE go.a
    IN  Step(GoSet(GoSet(go, Loc(dst.root, <<dst.base>>), GoArray(src)[0]),
                   Loc(dst.root, <<dst.base + 1>>), GoArray(src)[1]),
             [js EXCEPT !.heap = Copy(js.heap, IF load THEN js.c ELSE js.a, IF load THEN js.a ELSE js.c, "C")])
(* c = C(v), a conversion to an array: the copy starts at the first element *)
(* of the array under the slice, whatever the slice's offset.              *)
CopyThrough(z, from, to) == Copy(CopyArray(z.heap, z.val, from, 0, 0, 2, "S"), to, z.val, "C")
SliceToArray(v) ==
    /\ elem = "S"
    /\ go[v].off # 0 => "sliceOffset" \in Departures
    /\ IF js[v].length < 2 THEN panics' = [go |-> go[v].len < 2, js |-> TRUE] /\ UNCHANGED <<go, js>>
       ELSE Step([go EXCEPT !.mem[go.c].val = [i \in 0 .. 1 |-> GoElems(go[v])[i]]],
                 [js EXCEPT !.heap = CopyThrough(Zero(js.heap, "C"), js[v].array, js.c)])
TakeArrayAddress == Step([go EXCEPT !.a = AtVarC], [js EXCEPT !.a = js.c])
SliceToArrayPointer ==
    /\ elem = "S"
    /\ LET g == IF go.l.len < 2 THEN Panic ELSE [root |-> go.l.arr, base |-> go.l.off]
           j == SliceToGoArray(js.l)
           whole == go.l.off = 0 /\ go.l.cap = 2 /\ ArrayLength(js.heap, js.l.array) = 2
       IN  /\ (g # Panic /\ ~whole) => "arrayPointer" \in Departures
           /\ SetSlice("a", g, j)

(* for i, v := range c or l, whose first iteration assigns to item w of it *)
(* and, for a slice, replaces the variable; the last one sets t = v.       *)
LastItem(r, dst, array, i) == Result(Copy(r.heap, dst, r.val, "S"), r.heap[array][i])
RangeArray(w, x) ==
    /\ (w = 1 /\ GoVal(x) # GoVal(Item("c", 1))) => "range" \in Departures
    /\ Store(GoSet(GoSet(go, Loc(go.c, <<w>>), GoVal(x)), GoLoc(go, Var("t")), GoVal(Item("c", 1))), js.t,
             LastItem(JsExpr(x), js.heap[js.c][w], js.c, 1))
LastRound(g, r) == Step([GoSet(g, GoLoc(go, Var("t")), GoAt(g, IndexLoc(go.l, 1))) EXCEPT !.l = go.k],
                        [js EXCEPT !.heap = Copy(r.heap, js.t, r.val, "S"), !.l = js.k])
RangeSlice(w, x) ==
    /\ elem = "S" /\ go.l.len = 2 /\ x # Item("l", 1)
    /\ LastRound(GoSet(go, IndexLoc(go.l, w), GoVal(x)),
                 LastItem(JsExpr(x), JsObject(js, Item("l", w)), js.l.array, js.l.offset + 1))

-----------------------------------------------------------------------------
(* place = f(x), where f changes its parameter and returns it; method f of *)
(* x with a value receiver is called in the same way, but without a copy   *)
(* through an interface.                                                   *)
Changed(r) == Result([r.heap EXCEPT ![r.val].x = Fresh], r.val)
Call(pl, x, viaInterface) ==
    /\ viaInterface => x = Var("e") /\ "method" \in Departures
    /\ Store(GoSet(go, GoLoc(go, pl), [GoVal(x) EXCEPT !.x = Fresh]), JsObject(js, pl),
             Changed(IF viaInterface THEN JsExpr(x) ELSE WithCloning(x)))

(* place = f(), where f returns the variable x and a deferred call changes *)
(* the variable w: the returned object is not a copy.                      *)
CallWithDefer(pl, x, w) ==
    /\ GoLoc(go, x) = GoLoc(go, w) => "return" \in Departures
    /\ Store(GoSet(GoSet(go, Sub(GoLoc(go, w), "x"), Fresh), GoLoc(go, pl), GoVal(x)), JsObject(js, pl),
             Result([js.heap EXCEPT ![JsObject(js, w)].x = Fresh], JsObject(js, x)))

(* e = x wraps the object; a variable's object is not cloned for it.       *)
Wrap(T, v, r) ==
    Bind([go EXCEPT !.e = [typ |-> T, val |-> v]], "e", InInterface(r, T))
Box(x) ==
    /\ x \notin Temporaries => "box" \in Departures
    /\ Wrap("S", GoVal(x), JsExpr(x))
BoxArray(cloned) ==
    /\ ~cloned => "box" \in Departures
    /\ Wrap("C", GoArray(AtVarC), IF cloned THEN Clone(js.heap, js.c, "C") ELSE Result(js.heap, js.c))
UnboxArray ==
    /\ go.e.typ = "C"
    /\ Step([go EXCEPT !.mem[go.c].val = go.e.val], [js EXCEPT !.heap = Copy(js.heap, js.c, js.e.val, "C")])

(* m[key] = x puts a new entry, delete(m, key) removes one.                *)
PutEntry(key, x, r) ==
    Step([go EXCEPT !.m = (key :> GoVal(x)) @@ @], [js EXCEPT !.heap = r.heap, !.m = (key :> r.val) @@ @])
MapAssignStmt(key, x) == PutEntry(key, x, WithCloning(x))
MapDelete(key) ==
    /\ key \in DOMAIN go.m
    /\ Step([go EXCEPT !.m = Restrict(@, DOMAIN @ \ {key})], [js EXCEPT !.m = Restrict(@, DOMAIN @ \ {key})])

(* The same by reflection: ValueOf(&place).Elem().Set, Index(i).Field(0),  *)
(* Interface of a variable or of its field, and SetMapIndex.               *)
StructValue(r) == ValueOf([typ |-> "S", val |-> r.val])
SetFrom(r, pl) == SetValue(r.heap, ElemOfPointer("S", JsObject(js, pl)), StructValue(r))
ReflectSet(pl, x) ==
    Step(GoSet(go, GoLoc(go, pl), GoVal(x)), [js EXCEPT !.heap = SetFrom(JsExpr(x), pl)])
SetItem(item, i) ==
    IF item = Panic THEN panics' = [go |-> i >= go.l.len, js |-> TRUE] /\ UNCHANGED <<go, js>>
    ELSE Step(GoSet(go, IF elem = "S" THEN Sub(IndexLoc(go.l, i), "x") ELSE IndexLoc(go.l, i), Fresh),
              [js EXCEPT !.heap = SetInt(js.heap, IF elem = "S" THEN Field(js.heap, item, "x") ELSE item, Fresh)])
ReflectSetField(i) == SetItem(IndexOfSlice(js.heap, js.l, i, elem), i)
BindInterface(r, v) == Bind([go EXCEPT !.e = [typ |-> r.val.typ, val |-> v]], "e", r)
ReflectInterface(x, nested) ==
    LET v == ElemOfPointer("S", JsObject(js, x))
    IN  /\ ~nested => "copyStruct" \in Departures
        /\ BindInterface(ValueInterface(js.heap, IF nested THEN Field(js.heap, v, "b") ELSE v),
                         IF nested THEN GoVal(x).b ELSE GoVal(x))
Entry(r) == MapAssign(r.heap, StructValue(r))
ReflectSetMapIndex(key, x) ==
    /\ x \notin Temporaries => "copyStruct" \in Departures
    /\ PutEntry(key, x, Entry(JsExpr(x)))
-----------------------------------------------------------------------------
Init == /\ \E setup \in Setups : go = setup.go /\ js = setup.js /\ elem = setup.elem
        /\ steps = 0
        /\ panics = [go |-> FALSE, js |-> FALSE]

Slices == {"l", "k"}
StructStmt ==
    \/ \E pl \in Places, x \in Sources : Assign(pl, x) \/ ReflectSet(pl, x)
    \/ \E pl \in Named, x \in Sources : AssignNested(pl, x)
    \/ \E x \in Sources : Define(x)
    \/ \E pl \in Places : AssignField(pl) \/ TakeAddress(pl) \/ TakeFieldAddress(pl)
    \/ \E p1, p2 \in Places : Swap(p1, p2)
    \/ \E i, j \in 0 .. 1, x \in Temporaries : AssignIndexed(i, j, x)
    \/ \E pl \in Named, x \in Sources, iface \in BOOLEAN : Call(pl, x, iface)
    \/ \E pl, x, w \in Named : CallWithDefer(pl, x, w)
    \/ NewPointer
    \/ StoreThroughPointer
SliceOrArrayStmt ==
    \/ \E v, from \in Slices, x \in Sources : AppendStmt(v, from, x) \/ ReflectAppend(v, from, x)
    \/ \E v, from \in Slices : ConvertSlice(v, from) \/ CopyStmt(v, from) \/ ReflectCopy(v, from)
    \/ \E v, from, more \in Slices : AppendSliceStmt(v, from, more)
    \/ \E v, from \in Slices, i \in 0 .. 1, j, k \in 0 .. 3 :
           SliceStmt(v, from, i, j, k) \/ ReflectSlice(v, from, i, j, k)
    \/ \E v \in Slices, i \in 0 .. 1, j \in 0 .. 3 : SliceArray(v, i, j)
    \/ \E v \in Slices, n \in 0 .. 4 : ReflectSetLen(v, n) \/ ReflectSetCap(v, n)
    \/ \E v \in Slices, length, capacity \in 0 .. 2 : length <= capacity /\ MakeStmt(v, length, capacity)
    \/ \E i \in 0 .. 2 : AssignIntElem(i) \/ TakeElemAddress(i) \/ ReflectSetField(i)
    \/ \E load \in BOOLEAN : CopyArrayStmt(load)
    \/ \E w \in 0 .. 1, x \in Sources : RangeArray(w, x) \/ RangeSlice(w, x)
    \/ \E v \in Slices : SliceToArray(v)
    \/ TakeArrayAddress
    \/ SliceToArrayPointer
BoxOrMapStmt ==
    \/ \E x \in Sources : Box(x)
    \/ \E cloned \in BOOLEAN : BoxArray(cloned)
    \/ UnboxArray
    \/ \E key \in 1 .. 2, x \in Sources : MapAssignStmt(key, x) \/ ReflectSetMapIndex(key, x)
    \/ \E key \in 1 .. 2 : MapDelete(key)
    \/ \E x \in Named, nested \in BOOLEAN : ReflectInterface(x, nested)
Next ==
    /\ steps < MaxSteps
    /\ steps' = steps + 1
    /\ StructStmt \/ SliceOrArrayStmt \/ BoxOrMapStmt
    /\ UNCHANGED elem
Spec == Init /\ [][Next]_vars
-----------------------------------------------------------------------------
(* The tree a JavaScript value of type T shows.                            *)
RECURSIVE Decode(_, _)
Decode(T, v) ==
    CASE T = "int" -> v
      [] T \in {"S", "B"} -> [f \in DOMAIN FieldTypes[T] |-> Decode(FieldTypes[T][f], js.heap[v][f])]
      [] OTHER -> [i \in DOMAIN js.heap[v] |-> Decode(IF T = "C" THEN "S" ELSE elem, js.heap[v][i])]

(* The object at a location, from the object of its variable or array.     *)
RECURSIVE ObjectFrom(_, _)
ObjectFrom(obj, path) == IF path = <<>> THEN obj ELSE ObjectFrom(js.heap[obj][Head(path)], Tail(path))
ObjectAt(loc) == ObjectFrom(go.mem[loc.root].obj, loc.path)

(* The variables and arrays the program can reach.                         *)
Live == {go.s, go.t, go.c, go.p.root, go.n.root, go.a.root} \cup ({go.l.arr, go.k.arr} \ {0})

(* Whatever the program reads has in JavaScript the value it has in Go:    *)
(* variables and elements, pointed-to structs, map entries, what an        *)
(* interface holds, lengths and capacities, and whether a statement panics.*)
ValuesAgree ==
    /\ panics.go = panics.js
    /\ \A r \in Live : Decode(go.mem[r].typ, go.mem[r].obj) = go.mem[r].val
    /\ \A v \in Slices : /\ <<go[v].len, go[v].cap, go[v] = GoNil>> =
                                <<js[v].length, js[v].capacity, js[v] = NilSlice>>
                         /\ go[v] # GoNil => js[v].offset = go[v].off
    /\ DOMAIN go.m = DOMAIN js.m
    /\ \A key \in DOMAIN go.m : Decode("S", js.m[key]) = go.m[key]
    /\ go.e.typ = js.e.typ /\ (go.e # None => Decode(js.e.typ, js.e.val) = go.e.val)

(* Pointers and slices refer to the object of the variable, element or     *)
(* array they refer to in Go: a write through one is seen by the others,   *)
(* and pointers are equal when they are in Go.                             *)
PointersAgree ==
    /\ \A v \in {"s", "t", "c"} : js[v] = go.mem[go[v]].obj
    /\ js.p = ObjectAt(go.p)
    /\ js.n = [obj |-> ObjectAt(Loc(go.n.root, Front(go.n.path))), key |-> Last(go.n.path)]
    /\ js.a = ObjectAt(Loc(go.a.root, <<>>))
    /\ \A v \in Slices : go[v] # GoNil => js[v].array = ObjectAt(Loc(go[v].arr, <<>>))

(* No two variables, elements or fields have one object, and none has an   *)
(* object of a map's entry or of what an interface holds: a write to one   *)
(* never changes another.                                                  *)
Nested(T, at) == IF T = "S" THEN {at, Append(at, "b")} ELSE {at}
Paths(r) ==
    CASE go.mem[r].typ = "S" -> Nested("S", <<>>)
      [] OTHER -> UNION {Nested(IF go.mem[r].typ = "C" THEN "S" ELSE elem, <<i>>) : i \in DOMAIN go.mem[r].val}
StructsOf(r) == {Loc(r, q) : q \in IF go.mem[r].typ # "array" \/ elem = "S" THEN Paths(r) ELSE {}}
Structs == UNION {StructsOf(r) : r \in Live}
Held == UNION {{o, js.heap[o].b} : o \in {js.m[key] : key \in DOMAIN js.m}}
        \cup (IF js.e.typ = "S" THEN {js.e.val, js.heap[js.e.val].b}
              ELSE IF js.e.typ = "B" THEN {js.e.val}
              ELSE IF js.e.typ = "C" THEN {js.heap[js.e.val][i] : i \in 0 .. 1} ELSE {})
NotShared ==
    LET places == Structs
        objects == {ObjectAt(place) : place \in places}
    IN  Cardinality(objects) = Cardinality(places) /\ objects \cap Held = {}
=============================================================================
