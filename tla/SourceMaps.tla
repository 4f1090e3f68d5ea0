------------------------------ MODULE SourceMaps ------------------------------
(* The hints that the compiler leaves in the code it generates, the        *)
(* removal of white space around them, and the filter that takes them out  *)
(* of the stream for the source map: internal/sourcemapx and               *)
(* removeWhitespace of compiler/utils.go.                                  *)
(*                                                                         *)
(* Code is a sequence of bytes, given by their numbers.  The gob encoding  *)
(* of what a hint holds, and esbuild, are external: a value is its type    *)
(* flag and the bytes of its encoding, any bytes.                          *)
EXTENDS Naturals, Sequences

Magic == 8
Newline == 10
Quote == 34
Minus == 45
Backslash == 92
White == {9, 10, 32}
(* A comment opens with / and *, and closes with * and /.                  *)
Slash == 47
Star == 42

LOCAL MinOf(S) == CHOOSE i \in S : \A j \in S : i <= j
LOCAL MaxOf(S) == CHOOSE i \in S : \A j \in S : j <= i
LOCAL From(b, i) == SubSeq(b, i, Len(b))

(* The first i-1 bytes of b come before the first c; 0 if there is no c.   *)
LOCAL Index(b, C) ==
    LET found == {i \in 1 .. Len(b) : b[i] \in C} IN IF found = {} THEN 0 ELSE MinOf(found)

-----------------------------------------------------------------------------
(* Hints: the magic byte, the size of the payload in two bytes, and it.    *)

Pack(value) == <<value.flag>> \o value.bytes
Unpack(payload) == [flag |-> payload[1], bytes |-> Tail(payload)]

(* WriteTo panics for a payload of more than 65535 bytes.                  *)
Hint(payload) == <<Magic, Len(payload) \div 256, Len(payload) % 256>> \o payload

(* The hint before an identifier, and the one before code that is written  *)
(* while a position, the only element of pos, waits for it.                *)
EncodeHint(identifier) == Hint(Pack(identifier))
WithPos(pos, code) == IF pos = <<>> THEN code ELSE Hint(Pack(pos[1])) \o code

FindHint(b) == Index(b, {Magic})

SizeOf(b) == 256 * b[2] + b[3]
CanRead(b) == Len(b) >= 3 /\ b[1] = Magic /\ Len(b) >= SizeOf(b) + 3
ReadHint(b) == [payload |-> SubSeq(b, 4, SizeOf(b) + 3), length |-> SizeOf(b) + 3]

-----------------------------------------------------------------------------
(* removeWhitespace of a minified package.                                 *)

NeedsSpace(c) ==
    \/ c \in 97 .. 122 \cup 65 .. 90 \cup 48 .. 57   \* a-z, A-Z, 0-9
    \/ c \in {95, 36, Magic}                        \* _ and $

(* White space goes unless it separates two words or two minus signs.      *)
Drops(previous, b) ==
    /\ ~NeedsSpace(previous) \/ ~NeedsSpace(b[2])
    /\ ~(previous = Minus /\ b[2] = Minus)

(* Where the string that b starts with ends: at a quote that no backslash  *)
(* precedes.                                                               *)
RECURSIVE StringEnd(_, _)
StringEnd(b, i) ==
    CASE b[i] = Quote -> i
      [] b[i] = Backslash -> StringEnd(b, i + 2)
      [] OTHER -> StringEnd(b, i + 1)

CommentEnd(b) == MinOf({i \in 4 .. Len(b) : b[i - 1] = Star /\ b[i] = Slash})

RECURSIVE Squeeze(_, _)
Squeeze(b, previous) ==
    IF b = <<>> THEN <<>>
    ELSE LET Copy(n, last) == SubSeq(b, 1, n) \o Squeeze(From(b, n + 1), last)
             Skip(n) == Squeeze(From(b, n + 1), previous)
         IN  CASE b[1] = Magic -> Copy(ReadHint(b).length, previous)
               [] b[1] \in White /\ Drops(previous, b) -> Skip(1)
               [] b[1] = Quote -> Copy(StringEnd(b, 2), Quote)
               [] b[1] = Slash /\ b[2] = Star -> Skip(CommentEnd(b))
               [] OTHER -> Copy(1, b[1])

RemoveWhitespace(b, minify) == IF minify THEN Squeeze(b, 0) ELSE b

-----------------------------------------------------------------------------
(* Filter.  Its writer takes room more bytes and fails at the next.        *)

NewFilter(mapping, room) ==
    [out |-> <<>>, line |-> 0, column |-> 0, maps |-> <<>>, mapping |-> mapping,
     room |-> room, failed |-> FALSE]

(* Code without hints: the lines and columns count all of it, also when    *)
(* the writer fails.                                                       *)
Output(f, w) ==
    LET taken == IF Len(w) <= f.room THEN Len(w) ELSE f.room
        lines == {i \in 1 .. Len(w) : w[i] = Newline}
    IN  [f EXCEPT !.out = @ \o SubSeq(w, 1, taken), !.room = @ - taken, !.failed = taken < Len(w),
                  !.line = @ + Len(SelectSeq(w, LAMBDA c : c = Newline)),
                  !.column = IF lines = {} THEN @ + Len(w) ELSE Len(w) - MaxOf(lines)]

(* goMappingCallback: lines are counted from 1 and columns from 0.         *)
Mapped(f, payload) ==
    IF ~f.mapping THEN f
    ELSE [f EXCEPT !.maps = Append(@, [line |-> f.line + 1, column |-> f.column,
                                       original |-> Unpack(payload)])]

RECURSIVE Write(_, _)
Write(f, p) ==
    LET i == FindHint(p)
        g == Output(f, IF i = 0 THEN p ELSE SubSeq(p, 1, i - 1))
        h == ReadHint(From(p, i))
    IN  IF i = 0 \/ g.failed THEN g
        ELSE Write(Mapped(g, h.payload), From(p, i + h.length))

(* jsMappingCallback: a mapping of a JS file on its own, moved to where    *)
(* the file is written.                                                    *)
Adjusted(f, isolated) ==
    [isolated EXCEPT !.line = @ + f.line, !.column = IF isolated.line = 0 THEN @ + f.column ELSE @]

(* Without minifying or mapping, the source is written as it is;           *)
(* otherwise what esbuild makes of it, code and mappings.                  *)
WriteJS(f, source, minify, esbuild) ==
    IF ~minify /\ ~f.mapping THEN Write(f, source)
    ELSE LET moved == [i \in 1 .. Len(esbuild.maps) |-> Adjusted(f, esbuild.maps[i])]
         IN  Write([f EXCEPT !.maps = IF f.mapping THEN @ \o moved ELSE @], esbuild.code)

-----------------------------------------------------------------------------
(* Paths of source files in the map, as sequences of what they are made    *)
(* of; the roots are those of the command.                                 *)

HasPrefix(file, dir) == Len(dir) <= Len(file) /\ SubSeq(file, 1, Len(dir)) = dir

(* Below a root, a path starts after the four bytes of its /src.           *)
Below(file, root) == From(file, Len(root) + 5)
Base(file) == From(file, MaxOf({0} \cup {i \in 1 .. Len(file) : file[i] = Slash}) + 1)

(* The first workspace of GOPATH that is a prefix of the file, if any.     *)
WorkspaceOf(file, gopath) ==
    LET prefixes == {i \in 1 .. Len(gopath) : HasPrefix(file, gopath[i])}
    IN  IF prefixes = {} THEN <<>> ELSE <<gopath[MinOf(prefixes)]>>

NormalizePath(file, gopath, goroot, localMap) ==
    LET workspace == WorkspaceOf(file, gopath)
    IN  IF localMap THEN file
        ELSE CASE workspace # <<>> -> Below(file, workspace[1])
               [] workspace = <<>> /\ HasPrefix(file, goroot) -> Below(file, goroot)
               [] OTHER -> Base(file)

-----------------------------------------------------------------------------
(* What the bytes mean.                                                    *)

(* The tokens of code without hints: words, strings and two minus signs;   *)
(* any other byte is one by itself, and white space and comments are none. *)
RECURSIVE WordEnd(_, _)
WordEnd(b, i) == IF i < Len(b) /\ NeedsSpace(b[i + 1]) THEN WordEnd(b, i + 1) ELSE i

RECURSIVE Tokens(_)
Tokens(b) ==
    IF b = <<>> THEN <<>>
    ELSE LET Token(n) == <<SubSeq(b, 1, n)>> \o Tokens(From(b, n + 1))
             Two(c, d) == Len(b) > 1 /\ b[1] = c /\ b[2] = d
         IN  CASE NeedsSpace(b[1]) -> Token(WordEnd(b, 1))
               [] b[1] = Quote -> Token(StringEnd(b, 2))
               [] b[1] \in White -> Tokens(Tail(b))
               [] Two(Slash, Star) -> Tokens(From(b, CommentEnd(b) + 1))
               [] Two(Minus, Minus) -> Token(2)
               [] OTHER -> Token(1)

(* The place in code where line and column point.                          *)
PlaceOf(code, m) ==
    LET starts == {0} \cup {i \in 1 .. Len(code) : code[i] = Newline}
        Before(i) == SelectSeq(SubSeq(code, 1, i), LAMBDA c : c = Newline)
        line == CHOOSE i \in starts : Len(Before(i)) = m.line - 1
    IN  line + m.column

(* What a mapping points at: the tokens from its place on, and what they   *)
(* are mapped to.                                                          *)
Pointed(f) ==
    [i \in 1 .. Len(f.maps) |-> [tokens |-> Tokens(From(f.out, PlaceOf(f.out, f.maps[i]) + 1)),
                                 original |-> f.maps[i].original]]
================================================================================
