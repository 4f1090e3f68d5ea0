------------------------------ MODULE Channels ------------------------------
(***************************************************************************)
(* Channels and select (compiler/prelude/goroutines.js: $send, $recv,      *)
(* $close, $select; compiler/prelude/types.js: $Chan), on top of the       *)
(* scheduler.  An operation runs in a goroutine or directly in a callback  *)
(* of the host.  In a goroutine $schedule only queues the goroutines it    *)
(* wakes; in a callback it runs them at once, so an operation that wakes a *)
(* goroutine before it is done is interrupted there: frame holds the rest. *)
(***************************************************************************)
EXTENDS Goroutines

CONSTANTS
    Chan,             \* the channels
    NilChan,          \* $chanNil, whose queues drop what is pushed
    Capacity,         \* $capacity of each channel
    SelectCases,      \* the select statements: sequences of cases, each of
                      \* another channel or direction
    Closable,         \* the channels the program closes
    CallbackOps,      \* what callbacks do: which operation on which channel
    MaxStale,         \* bound on the receives of callbacks that would have
                      \* to block and leave an entry; 0: none does
    UndefinedSends,   \* the sends of a *js.Object that is JavaScript's
                      \* undefined
    MaxSends          \* bound on the number of sends

ASSUME ChanAssumption ==
    /\ NilChan \in Chan
    /\ Capacity \in [Chan -> Nat] /\ Capacity[NilChan] = 0
    /\ Closable \subseteq Chan
    /\ CallbackOps \subseteq [ch : Chan, dir : {"send", "recv", "close"}]
    /\ MaxStale \in Nat
    /\ MaxSends \in Nat \ {0} /\ UndefinedSends \subseteq 1 .. MaxSends
    /\ \A cases \in SelectCases : \A i, j \in DOMAIN cases :
          /\ cases[i] \in [ch : Chan, dir : {"send", "recv"}]
          /\ cases[i] = cases[j] => i = j

VARIABLES
    closed,    \* $closed
    buffer,    \* $buffer
    sendQueue, \* $sendQueue: entries [g, val, select]
    recvQueue, \* $recvQueue: entries [g, select]
    op,        \* what a parked goroutine resumes: "send", "recv", "select"
    offers,    \* the cases it is parked on
    slot,      \* what its queue entry left for it: "empty", "done", "closed"
    frame,     \* the operation in progress of a goroutine or the callback
    sends,     \* the number of sends begun; it names the value sent
    torn,      \* history: the channels whose $close, of a callback, was
               \* ended halfway by an exception
    sent,      \* history: the values accepted on each channel, in order
    rcvd       \* history: the values handed to receivers' entries, in order

queues   == <<closed, buffer, sendQueue, recvQueue>>
parked   == <<op, offers, slot>>
history  == <<sent, rcvd>>
chanVars == <<queues, parked, frame, sends, torn, history>>
allVars  == <<vars, chanVars>>

NoFrame  == [op |-> "none"]

-----------------------------------------------------------------------------
ChanInit ==
    /\ Init
    /\ closed = [c \in Chan |-> FALSE]
    /\ buffer = [c \in Chan |-> <<>>]
    /\ sendQueue = [c \in Chan |-> <<>>]
    /\ recvQueue = [c \in Chan |-> <<>>]
    /\ op = [g \in Goroutine |-> "none"]
    /\ offers = [g \in Goroutine |-> {}]
    /\ slot = [g \in Goroutine |-> "empty"]
    /\ frame = [x \in Contexts |-> NoFrame]
    /\ sends = 0
    /\ torn = {}
    /\ sent = [c \in Chan |-> <<>>]
    /\ rcvd = [c \in Chan |-> <<>>]

-----------------------------------------------------------------------------
(* Go code of x, a goroutine or the callback, is free to begin an          *)
(* operation.                                                              *)
Free(x) ==
    /\ curGoroutine = x
    /\ InGo
    /\ frame[x] = NoFrame
    /\ x \in Goroutine => op[x] = "none"

(* Mutant of Push: the newest waiter is served first.                      *)
PushFirst(queue, c, entry) ==
    IF c = NilChan THEN queue ELSE [queue EXCEPT ![c] = <<entry>> \o @]

(* push on a queue: the queues of $chanNil ignore it.                      *)
Push(queue, c, entry) ==
    IF c = NilChan THEN queue ELSE [queue EXCEPT ![c] = Append(@, entry)]

Shift(queue, c) == [queue EXCEPT ![c] = Tail(@)]

(* The indexOf and splice of removeFromQueues, on every queue.             *)
Without(q, g) ==
    LET found == {i \in DOMAIN q : q[i].g = g}
    IN  IF found = {} THEN q
        ELSE LET i == CHOOSE i \in found : TRUE
             IN  SubSeq(q, 1, i - 1) \o SubSeq(q, i + 1, Len(q))

(* Mutant of Dequeued: a select leaves the entries of its other cases.     *)
DequeuedAlone(queue, e) == queue

(* The entry e has been called: it has left its queue, and the other       *)
(* entries of its goroutine with it when it belongs to a select.           *)
Dequeued(queue, e) ==
    IF e.select THEN [c \in Chan |-> Without(queue[c], e.g)] ELSE queue

(* The queue entry leaves a result in its goroutine's slot and schedules   *)
(* it.  An entry that a callback left behind (see Block) schedules         *)
(* $noGoroutine.                                                           *)
Wake(e, result) ==
    IF e.g = NoGoroutine
    THEN Enqueue(NoGoroutine) /\ UNCHANGED <<wake, slot>>
    ELSE Schedule(e.g, awakeGoroutines) /\ slot' = [slot EXCEPT ![e.g] = result]

CallbackMayBlock ==
    \A c \in Chan :
        Cardinality({i \in DOMAIN recvQueue[c] : recvQueue[c][i].g = NoGoroutine})
            < MaxStale

(* $block: the goroutine parks on the cases os; in a callback it throws,   *)
(* after the entries were pushed.                                          *)
Block(x, kind, os) ==
    IF x = NoGoroutine
    THEN CallbackMayBlock /\ UNCHANGED <<vars, parked>>
    ELSE /\ Settle(x, exit[x], awakeGoroutines, mainFinished)
         /\ op' = [op EXCEPT ![x] = kind]
         /\ offers' = [offers EXCEPT ![x] = os]
         /\ slot' = [slot EXCEPT ![x] = "empty"]
         /\ UNCHANGED notParking

Case(c, d) == [ch |-> c, dir |-> d]

-----------------------------------------------------------------------------
(* $send of v: to the first waiting receiver, into the buffer, or wait.    *)
HandOver(c, v) ==
    /\ LET e == Head(recvQueue[c]) IN
       /\ recvQueue' = Dequeued(Shift(recvQueue, c), e)
       /\ sendQueue' = Dequeued(sendQueue, e)
       /\ Wake(e, "done")
    /\ sent' = [sent EXCEPT ![c] = Append(@, v)]
    /\ rcvd' = [rcvd EXCEPT ![c] = Append(@, v)]
    /\ UNCHANGED <<notWaking, closed, buffer, op, offers>>

Fill(c, v) ==
    /\ buffer' = [buffer EXCEPT ![c] = Append(@, v)]
    /\ sent' = [sent EXCEPT ![c] = Append(@, v)]
    /\ UNCHANGED <<vars, closed, sendQueue, recvQueue, parked, rcvd>>

WaitToSend(x, c, v) ==
    /\ sendQueue' = Push(sendQueue, c, [g |-> x, val |-> v, select |-> FALSE])
    /\ Block(x, "send", {Case(c, "send")})
    /\ UNCHANGED <<closed, buffer, recvQueue, history>>

SendPanics(c) == closed[c] /\ UNCHANGED <<vars, queues, parked, history>>

(* Mutant of SendOn: a closed channel still takes values.                  *)
SendOnClosed(x, c, v) ==
    /\ frame' = frame
    /\ \/ recvQueue[c] # <<>> /\ HandOver(c, v)
       \/ /\ recvQueue[c] = <<>>
          /\ IF Len(buffer[c]) < Capacity[c] THEN Fill(c, v)
                                             ELSE WaitToSend(x, c, v)

SendOn(x, c, v) ==
    /\ frame' = frame
    /\ \/ SendPanics(c)
       \/ ~closed[c] /\ recvQueue[c] # <<>> /\ HandOver(c, v)
       \/ /\ ~closed[c] /\ recvQueue[c] = <<>>
          /\ IF Len(buffer[c]) < Capacity[c] THEN Fill(c, v)
                                             ELSE WaitToSend(x, c, v)

(* The second half of $recv, from buffer.shift() on; JavaScript's          *)
(* undefined in the buffer reads as an empty buffer.                       *)
TakeFrom(x, c, buf) ==
    LET holds == buf # <<>> /\ Head(buf) \notin UndefinedSends IN
    /\ frame' = [frame EXCEPT ![x] = NoFrame]
    /\ buffer' = [buffer EXCEPT ![c] = IF buf = <<>> THEN buf ELSE Tail(buf)]
    /\ \/ /\ holds
          /\ rcvd' = [rcvd EXCEPT ![c] = Append(@, Head(buf))]
          /\ UNCHANGED <<vars, closed, sendQueue, recvQueue, parked, sent>>
       \/ /\ ~holds /\ closed[c]
          /\ UNCHANGED <<vars, closed, sendQueue, recvQueue, parked, history>>
       \/ /\ ~holds /\ ~closed[c]
          /\ recvQueue' = Push(recvQueue, c, [g |-> x, select |-> FALSE])
          /\ Block(x, "recv", {Case(c, "recv")})
          /\ UNCHANGED <<closed, sendQueue, history>>

(* A waiting sender's entry is called and returns the value, which the     *)
(* frame holds.                                                            *)
TakeFromSender(x, c, e, val) ==
    /\ sendQueue' = Dequeued(Shift(sendQueue, c), e)
    /\ recvQueue' = Dequeued(recvQueue, e)
    /\ Wake(e, "done")
    /\ sent' = [sent EXCEPT ![c] = Append(@, val)]
    /\ frame' = [frame EXCEPT ![x] = [op |-> "recv", ch |-> c, val |-> val]]
    /\ UNCHANGED <<notWaking, closed, buffer, op, offers, rcvd>>

(* The entry of a select throws when the channel was closed meanwhile.     *)
RecvPanics(c) ==
    /\ sendQueue' = Shift(sendQueue, c)
    /\ UNCHANGED <<vars, closed, buffer, recvQueue, parked, frame, history>>

(* $recv: a waiting sender is woken first; its value goes to the end of    *)
(* the buffer when that returns.                                           *)
RecvOn(x, c) ==
    \/ /\ sendQueue[c] # <<>>
       /\ LET e == Head(sendQueue[c]) IN
          IF e.select /\ closed[c] THEN RecvPanics(c)
          ELSE TakeFromSender(x, c, e, e.val)
    \/ sendQueue[c] = <<>> /\ TakeFrom(x, c, buffer[c])

-----------------------------------------------------------------------------
(* The operations of Go code.                                              *)

May(x, c, kind) == x = NoGoroutine => Case(c, kind) \in CallbackOps

Send(x, c) ==
    /\ Free(x) /\ May(x, c, "send")
    /\ sends < MaxSends
    /\ sends' = sends + 1
    /\ SendOn(x, c, sends + 1)

Recv(x, c) ==
    /\ Free(x) /\ May(x, c, "recv")
    /\ RecvOn(x, c)
    /\ UNCHANGED sends

(* The callee of $recv's queuedSend(false) has returned.                   *)
RecvFinish(x) ==
    /\ curGoroutine = x /\ InGo
    /\ frame[x].op = "recv"
    /\ TakeFrom(x, frame[x].ch, Append(buffer[frame[x].ch], frame[x].val))
    /\ UNCHANGED sends

(* $close sets the flag, then its two loops call the waiting senders and   *)
(* the waiting receivers one by one; a second close panics.                *)
Close(x, c) ==
    /\ Free(x) /\ May(x, c, "close")
    /\ c \in Closable
    /\ ~closed[c]
    /\ closed' = [closed EXCEPT ![c] = TRUE]
    /\ frame' = [frame EXCEPT ![x] = [op |-> "close", ch |-> c]]
    /\ UNCHANGED <<vars, buffer, sendQueue, recvQueue, parked, sends, history>>

CloseSender(x, c, e) ==
    IF e.select
    THEN /\ sendQueue' = Shift(sendQueue, c)      \* "will panic": here
         /\ frame' = [frame EXCEPT ![x] = NoFrame]
         /\ UNCHANGED <<vars, recvQueue, parked>>
    ELSE /\ sendQueue' = Shift(sendQueue, c)
         /\ Wake(e, "closed")
         /\ UNCHANGED <<notWaking, recvQueue, op, offers, frame>>

CloseReceiver(c, e) ==
    /\ recvQueue' = Dequeued(Shift(recvQueue, c), e)
    /\ sendQueue' = Dequeued(sendQueue, e)
    /\ Wake(e, "done")
    /\ UNCHANGED <<notWaking, op, offers, frame>>

CloseDone(x) ==
    /\ frame' = [frame EXCEPT ![x] = NoFrame]
    /\ UNCHANGED <<vars, sendQueue, recvQueue, parked>>

(* Mutant of CloseStep: the waiting receivers are forgotten.               *)
CloseStepSendersOnly(x) ==
    /\ curGoroutine = x /\ InGo
    /\ frame[x].op = "close"
    /\ LET c == frame[x].ch IN
       \/ sendQueue[c] # <<>> /\ CloseSender(x, c, Head(sendQueue[c]))
       \/ sendQueue[c] = <<>> /\ CloseDone(x)
    /\ UNCHANGED <<closed, buffer, sends, history>>

CloseStep(x) ==
    /\ curGoroutine = x /\ InGo
    /\ frame[x].op = "close"
    /\ LET c == frame[x].ch IN
       \/ sendQueue[c] # <<>> /\ CloseSender(x, c, Head(sendQueue[c]))
       \/ /\ sendQueue[c] = <<>> /\ recvQueue[c] # <<>>
          /\ CloseReceiver(c, Head(recvQueue[c]))
       \/ sendQueue[c] = <<>> /\ recvQueue[c] = <<>> /\ CloseDone(x)
    /\ UNCHANGED <<closed, buffer, sends, history>>

(* $select.  With a default case and nothing ready it returns at once.     *)
ReadyCase(case) ==
    LET c == case.ch IN
    IF case.dir = "recv"
    THEN sendQueue[c] # <<>> \/ buffer[c] # <<>> \/ closed[c]
    ELSE recvQueue[c] # <<>> \/ Len(buffer[c]) < Capacity[c]

(* The queues after a select of g has pushed one entry per case.           *)
Offered(queue, dir, cases, entry) ==
    [c \in Chan |-> IF c # NilChan /\ \E i \in DOMAIN cases : cases[i] = Case(c, dir)
                    THEN Append(queue[c], entry) ELSE queue[c]]

Select(g, cases) ==
    LET all     == {cases[i] : i \in DOMAIN cases}
        sending == {case \in all : case.dir = "send"}
        ready   == {case \in all : ReadyCase(case)}
        v       == sends + 1
    IN
    /\ Free(g)
    /\ sending # {} => v <= MaxSends
    /\ sends' = IF sending = {} THEN sends ELSE v
    /\ \A case \in sending : ~closed[case.ch]    \* else it panics
    /\ \/ \E case \in ready : IF case.dir = "recv" THEN RecvOn(g, case.ch)
                                                   ELSE SendOn(g, case.ch, v)
       \/ /\ ready = {}
          /\ sendQueue' = Offered(sendQueue, "send", cases,
                                  [g |-> g, val |-> v, select |-> TRUE])
          /\ recvQueue' = Offered(recvQueue, "recv", cases,
                                  [g |-> g, select |-> TRUE])
          /\ Block(g, "select", all)
          /\ UNCHANGED <<closed, buffer, frame, history>>

(* The woken goroutine calls $blk and goes on; told that the channel was   *)
(* closed it panics, which it may recover from.                            *)
Resume(g) ==
    /\ Running(g)
    /\ op[g] # "none"
    /\ op' = [op EXCEPT ![g] = "none"]
    /\ offers' = [offers EXCEPT ![g] = {}]
    /\ slot' = [slot EXCEPT ![g] = "empty"]
    /\ UNCHANGED <<vars, queues, frame, sends, history>>

-----------------------------------------------------------------------------
(* The scheduler around them.                                              *)

RunGoroutine ==
    /\ RunNext
    /\ Head(scheduled) \in Goroutine
    /\ UNCHANGED chanVars

(* An exception also ends the operation of the callback below, which may   *)
(* be a $close that has not told everyone.                                 *)
EndCallback ==
    /\ callback' = FALSE
    /\ frame' = [frame EXCEPT ![NoGoroutine] = NoFrame]
    /\ torn' = torn \cup (IF frame[NoGoroutine].op = "close"
                          THEN {frame[NoGoroutine].ch} ELSE {})

(* Mutant of RunNoGoroutine: the exception always cancels the next pass.   *)
RunNoGoroutineCancels ==
    /\ Looping
    /\ scheduled # <<>> /\ Head(scheduled) = NoGoroutine
    /\ scheduled' = Tail(scheduled)
    /\ runLoop' = "off"
    /\ nextRun' = nextRun - 1
    /\ EndCallback
    /\ halted' = HasProcess
    /\ UNCHANGED <<curGoroutine, life, wake, pending, flags, fatal, crashed,
                   queues, parked, sends, history>>

(* $noGoroutine in the queue is not a function: calling it throws out of   *)
(* $runScheduled and of what called that.                                  *)
RunNoGoroutine ==
    /\ Looping
    /\ scheduled # <<>> /\ Head(scheduled) = NoGoroutine
    /\ scheduled' = Tail(scheduled)
    /\ runLoop' = "off"
    /\ nextRun' = IF Len(scheduled) = 1 THEN nextRun - 1 ELSE nextRun
    /\ EndCallback
    /\ halted' = HasProcess
    /\ UNCHANGED <<curGoroutine, life, wake, pending, flags, fatal, crashed,
                   queues, parked, sends, history>>

(* The steps of the scheduler that Go code takes between two operations.   *)
Between ==
    \/ /\ LoopEnd \/ FireRun \/ CallbackEnter
       /\ UNCHANGED chanVars
    \/ /\ CallbackReturn /\ Free(NoGoroutine)
       /\ UNCHANGED chanVars
    \/ /\ \E g \in Goroutine : Free(g) /\ (Externalize \/ Return(g))
       /\ UNCHANGED chanVars
    \/ /\ \E x \in Goroutine, g \in Goroutine : Free(x) /\ Go(g)
       /\ UNCHANGED chanVars
    \/ /\ \E g \in Goroutine : Free(g) /\ Throw(g)
       /\ EndCallback
       /\ UNCHANGED <<queues, parked, sends, history>>

Operation(x) ==
    \/ \E c \in Chan : Send(x, c) \/ Recv(x, c) \/ Close(x, c)
    \/ RecvFinish(x) \/ CloseStep(x)

ChanNext ==
    \/ RunGoroutine \/ RunNoGoroutine \/ Between
    \/ \E x \in Contexts : Operation(x) /\ UNCHANGED torn
    \/ \E g \in Goroutine : /\ Resume(g) \/ \E cases \in SelectCases : Select(g, cases)
                            /\ UNCHANGED torn

ChanSpec == ChanInit /\ [][ChanNext]_allVars

-----------------------------------------------------------------------------
(* Properties.                                                             *)

(* No operation on c is in progress, and none was ended halfway.           *)
Settled(c) ==
    c \notin torn /\ \A x \in Contexts : frame[x] = NoFrame \/ frame[x].ch # c

(* Values enter the channel in the order in which their sends began: a     *)
(* sender never overtakes one that waits in $sendQueue.                    *)
SendsInOrder ==
    \A c \in Chan : \A i, j \in DOMAIN sent[c] : i < j => sent[c][i] < sent[c][j]

(* Nobody waits in vain: a receiver waits only on an open, empty channel,  *)
(* a sender only on an open, full one, and a sender and a receiver wait on *)
(* one channel only as two cases of one select.                            *)
NoMissedMatch ==
    \A c \in Chan : Settled(c) =>
        /\ recvQueue[c] # <<>> => ~closed[c] /\ buffer[c] = <<>>
        /\ sendQueue[c] # <<>> => ~closed[c] /\ Len(buffer[c]) = Capacity[c]
        /\ \A i \in DOMAIN sendQueue[c], j \in DOMAIN recvQueue[c] :
              sendQueue[c][i].g = recvQueue[c][j].g

(* A parked goroutine has one entry in the queue of each case it waits on, *)
(* and no other goroutine has any: a select leaves nothing behind in the   *)
(* queues of the cases that were not chosen, and nobody sleeps without an  *)
(* entry that can wake it.                                                 *)
Entries(q, g) == Cardinality({i \in DOMAIN q : q[i].g = g})

Waiting(g) == op[g] # "none" /\ slot[g] = "empty"

QueuedOnce(g, queue, c, dir) ==
    Entries(queue[c], g) =
        IF Waiting(g) /\ c # NilChan /\ Case(c, dir) \in offers[g] THEN 1 ELSE 0

WaitersQueued ==
    \A g \in live :
        /\ Waiting(g) <=> asleep[g]
        /\ \A c \in Chan : QueuedOnce(g, sendQueue, c, "send")
                           /\ QueuedOnce(g, recvQueue, c, "recv")

(* What an operation hands over is received: a goroutine whose queue entry *)
(* was called goes on, or is in $scheduled with a pass of the queue on the *)
(* stack or to come.  No exception that $runScheduled runs into, of        *)
(* another goroutine or at an entry that a callback left behind, strands   *)
(* those that were woken with it.                                          *)
WokenGoOn ==
    ~halted => \A g \in live : op[g] # "none" /\ slot[g] # "empty" =>
        \/ Running(g)
        \/ g \in Queued /\ (runLoop # "off" \/ nextRun > 0)

(* A channel is a FIFO pipe of bounded capacity (Pipe), with the values in *)
(* the buffer taken as sent: the value a receiver has just taken from a    *)
(* waiting sender is not yet; a channel is closed when $close has told     *)
(* everyone who waits on it (Told).                                        *)
Closing(c) == \E x \in Contexts : frame[x] = [op |-> "close", ch |-> c]
Told(c) == closed[c] /\ c \notin torn /\ ~Closing(c)

Pipes == INSTANCE Pipe WITH
    sent <- [c \in Chan |-> rcvd[c] \o buffer[c]],
    closed <- [c \in Chan |-> Told(c)],
    Value <- 1 .. MaxSends

RefinesPipe == Pipes!PipeSpec
=============================================================================
