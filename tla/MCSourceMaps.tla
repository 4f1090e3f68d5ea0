----------------------------- MODULE MCSourceMaps -----------------------------
(* Short pieces of generated code for SourceMaps; TLC evaluates the        *)
(* assumptions below with the run that extends this module.                *)
EXTENDS Naturals, Sequences
LOCAL INSTANCE SequencesExt
LOCAL INSTANCE SourceMaps

LOCAL Sequences(S, n) == UNION {[1 .. k -> S] : k \in 0 .. n}
LOCAL Join(pieces) == FlattenSeq(pieces)

(* A word, a parenthesis, a minus sign, white space, a string with a space *)
(* and an escaped quote, and a comment with the space that follows one.    *)
LOCAL Code == {<<97>>, <<40>>, <<Minus>>, <<32>>, <<Newline>>,
               <<Quote, 32, Backslash, Quote, Quote>>,
               <<Slash, Star, 97, Star, Slash, 32>>}

(* Hints of a position and of an identifier, whose encodings have bytes    *)
(* that mean something in code.  One comes at the start of a token, after  *)
(* white space or before it, and none before a minus sign.                 *)
LOCAL Values == {[flag |-> 1, bytes |-> <<Newline, Quote, Magic>>],
                 [flag |-> 2, bytes |-> <<Slash, Star, Newline>>]}
LOCAL Hints == {EncodeHint(v) : v \in Values}
LOCAL Placed(pieces) ==
    \A i \in DOMAIN pieces : pieces[i] \in Hints =>
        /\ i = 1 \/ ~NeedsSpace(pieces[i - 1][1])
        /\ i < Len(pieces) /\ pieces[i + 1] # <<Minus>>
        /\ i + 2 \in DOMAIN pieces /\ pieces[i + 1][1] \in White => pieces[i + 2] # <<Minus>>

(* Statements end with a semicolon.                                        *)
LOCAL Streams(n) ==
    {Join(s) \o <<59>> : s \in {t \in Sequences(Code \cup Hints, n) : Placed(t)}}
LOCAL Fresh == NewFilter(TRUE, 100)

(* A hint is read back as it was written, whatever follows it.             *)
ASSUME HintsAreRead ==
    \A payload \in Sequences({0, Magic, Newline, 255}, 3), rest \in Sequences({Magic, 97}, 2) :
        LET b == Hint(payload) \o rest
        IN  /\ CanRead(b) /\ FindHint(b) = 1
            /\ ReadHint(b) = [payload |-> payload, length |-> Len(Hint(payload))]
            /\ \A v \in Values : Unpack(ReadHint(WithPos(<<v>>, rest)).payload) = v

(* Without white space the code has the same tokens, and every hint still  *)
(* points at the token that it was written before.                         *)
ASSUME MinifyingKeepsTokens ==
    \A b \in Streams(4) :
        LET plain == Write(Fresh, RemoveWhitespace(b, FALSE))
            small == Write(Fresh, RemoveWhitespace(b, TRUE))
        IN  /\ Tokens(small.out) = Tokens(plain.out)
            /\ Pointed(small) = Pointed(plain)
            /\ Len(small.out) <= Len(plain.out)

(* The stream may be written in any pieces that do not cut a hint, and a   *)
(* writer that fails has got a prefix of the code.                         *)
ASSUME PiecesAgree ==
    \A b \in Streams(2), c \in Streams(2) :
        /\ Write(Write(Fresh, b), c) = Write(Fresh, b \o c)
        /\ \A room \in 0 .. 3 :
               LET f == Write(NewFilter(FALSE, room), b \o c)
                   all == Write(NewFilter(FALSE, 100), b \o c)
               IN  /\ f.out = SubSeq(all.out, 1, Len(f.out))
                   /\ f.failed <=> f.out # all.out

(* The mappings of a JS file point at what they pointed at in the file, if *)
(* it starts a line; on a line that has code already, those of its first   *)
(* line do not, since the lines of a map are counted from 1.               *)
ASSUME FilesAreMapped ==
    \A before \in {<<>>, <<97, Newline>>, <<40>>}, code \in {<<97, 98>>, <<97, Newline, 98>>} :
        \A k \in 1 .. Len(code) :
            LET m == CHOOSE x \in [line : 1 .. 2, column : 0 .. 1, original : {1}] :
                         PlaceOf(code, x) = k - 1
                f == WriteJS(Write(Fresh, before), code, TRUE, [code |-> code, maps |-> <<m>>])
            IN  code[k] # Newline =>
                (PlaceOf(f.out, f.maps[1]) = Len(before) + k - 1 <=>
                     before # <<40>> \/ m.line > 1)

(* A file of GOROOT or of a workspace is mapped to its path below src, if  *)
(* no root is a prefix of another's.                                       *)
ASSUME PathsAreShort ==
    \A root \in {<<Slash, 97>>, <<Slash, 98>>, <<Slash, 99>>} :
        LET gopath == << <<Slash, 97>>, <<Slash, 98>> >>
            short == <<Slash, 120, Slash, 121>>
            file == root \o <<Slash, 115, 114, 99>> \o short
        IN  /\ NormalizePath(file, gopath, <<Slash, 99>>, FALSE) = short
            /\ NormalizePath(file, gopath, <<Slash, 99>>, TRUE) = file
================================================================================
