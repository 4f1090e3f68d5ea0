----------------------------- MODULE MCChannels -----------------------------
(* Model values for Channels: an unbuffered channel u, a buffered one b    *)
(* and the nil channel.                                                    *)
EXTENDS Channels, TLC

CONSTANTS m, g1, g2, u, b, nil

Symmetry == Permutations({g1, g2})

MCCapacity == [c \in Chan |-> IF c = b THEN 1 ELSE 0]

Selects ==
    { <<Case(u, "recv"), Case(b, "recv")>>,
      <<Case(u, "send"), Case(b, "recv")>>,
      <<Case(u, "send"), Case(u, "recv")>> }

(* What callbacks do in a run.                                             *)
SendCloseB == {Case(u, "send"), Case(b, "send"), Case(b, "close"), Case(u, "recv")}
=============================================================================
