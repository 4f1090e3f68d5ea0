-------------------------------- MODULE Pipe --------------------------------
(* What a Go channel promises, whoever uses it: values come out in the     *)
(* order in which they went in, each once; at most Capacity of them are    *)
(* inside; a closed channel takes no more values and gives out those it    *)
(* has.                                                                    *)
EXTENDS Naturals, Sequences

CONSTANTS Chan, Capacity, Value

VARIABLES sent, rcvd, closed

pipeVars == <<sent, rcvd, closed>>

PipeInit ==
    /\ sent = [c \in Chan |-> <<>>]
    /\ rcvd = [c \in Chan |-> <<>>]
    /\ closed = [c \in Chan |-> FALSE]

Next(c) == sent[c][Len(rcvd[c]) + 1]

(* A value goes in while there is room.                                    *)
Accept(c, v) ==
    /\ ~closed[c]
    /\ Len(sent[c]) - Len(rcvd[c]) < Capacity[c]
    /\ sent' = [sent EXCEPT ![c] = Append(@, v)]
    /\ UNCHANGED <<rcvd, closed>>

(* The oldest value comes out.                                             *)
Deliver(c) ==
    /\ Len(rcvd[c]) < Len(sent[c])
    /\ rcvd' = [rcvd EXCEPT ![c] = Append(@, Next(c))]
    /\ UNCHANGED <<sent, closed>>

(* A value goes in at the moment when the oldest comes out, which is the   *)
(* same value when the channel is empty.                                   *)
Exchange(c, v) ==
    /\ ~closed[c]
    /\ sent' = [sent EXCEPT ![c] = Append(@, v)]
    /\ rcvd' = [rcvd EXCEPT ![c] = Append(@, Append(sent[c], v)[Len(@) + 1])]
    /\ UNCHANGED closed

CloseChan(c) ==
    /\ ~closed[c]
    /\ closed' = [closed EXCEPT ![c] = TRUE]
    /\ UNCHANGED <<sent, rcvd>>

PipeNext ==
    \E c \in Chan :
        \/ Deliver(c) \/ CloseChan(c)
        \/ \E v \in Value : Accept(c, v) \/ Exchange(c, v)

PipeSpec == PipeInit /\ [][PipeNext]_pipeVars
=============================================================================
