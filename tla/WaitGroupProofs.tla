--------------------------- MODULE WaitGroupProofs ---------------------------
(* Proofs about sync.WaitGroup, for every set of goroutines and every      *)
(* bound.  They are about programs that use a group again only after the   *)
(* Add that ended its previous use has returned, and in which no exception *)
(* ends a callback halfway through its Add without ending the process.     *)
EXTENDS WaitGroup, GoroutinesProofs

WgTyped ==
    /\ counter \in Int /\ made \in 0 .. MaxChans /\ ch \in 0 .. made
    /\ shut \subseteq 1 .. made
    /\ waitsOn \in [Goroutine -> 0 .. Never]
    /\ waitLine \in [1 .. Never -> Seq(Goroutine)]
    /\ closing \in [Contexts -> 0 .. made]
    /\ early \subseteq Goroutine

(* Who is in line sleeps, is there once, and waits on wg.ch.               *)
InLine ==
    \A c \in 1 .. Never :
        /\ Distinct(waitLine[c])
        /\ \A g \in Elems(waitLine[c]) :
              g \in live /\ asleep[g] /\ waitsOn[g] = c /\ c = ch

(* wg.ch is closed exactly while one Add closes it, of the goroutine that  *)
(* runs or of a callback below it.                                         *)
Closer ==
    /\ \A x \in Contexts : closing[x] # 0 => closing[x] = ch /\ ch \in shut
    /\ \A x, y \in Contexts : closing[x] # 0 /\ closing[y] # 0 => x = y
    /\ ch \in shut => halted \/ \E x \in Contexts : closing[x] # 0
    /\ closing[NoGoroutine] # 0 => CallbackAdds /\ (callback \/ halted)
    /\ \A g \in Goroutine : closing[g] # 0 => g = curGoroutine

(* A positive counter has an open channel, and nothing left of the use     *)
(* before; without one nobody waits for the counter and wg.ch is shut.     *)
Openness ==
    /\ counter > 0 => ch # 0 /\ ch \notin shut /\ \A x \in Contexts : closing[x] = 0
    /\ counter <= 0 => early = {} /\ (ch # 0 => ch \in shut)

WgInv == WgTyped /\ InLine /\ Closer /\ Openness /\ NoEarlyReturn

WgCore == Inv /\ Plain /\ WgInv

USE WaitGroupAssumption

-----------------------------------------------------------------------------
(* A step that changes neither the lines nor the counter, and leaves who   *)
(* sleeps asleep.                                                          *)
LEMMA LinesStay ==
    ASSUME WgTyped, InLine, UNCHANGED <<ch, waitsOn, waitLine>>,
           \A g \in live : asleep[g] => g \in live' /\ asleep'[g]
    PROVE  InLine'
BY DEF InLine, WgTyped, Never

(* Who is parked is in one of the lines.                                   *)
LEMMA ParkedAre ==
    ASSUME WgTyped
    PROVE  \A g : g \in Parked <=> \E c \in 1 .. Never : g \in Elems(waitLine[c])
BY DEF Parked, Elems, WgTyped

(* A free goroutine or callback runs.                                      *)
LEMMA FreeRuns ==
    ASSUME Inv, WgTyped, NEW x \in Contexts, Free(x)
    PROVE  /\ InGo /\ ~halted /\ curGoroutine = x /\ closing[x] = 0
           /\ x \in Goroutine => Running(x) /\ waitsOn[x] = 0
           /\ x = NoGoroutine => callback
<1>1. InGo /\ curGoroutine = x /\ closing[x] = 0 /\ (x \in Goroutine => waitsOn[x] = 0)
  BY DEF Free
<1>2. ~halted
  BY <1>1 DEF InGo, InCallback, Running
<1>3. x = NoGoroutine => callback
  BY <1>1, GoroutineAssumption DEF InGo, InCallback, Running
<1> QED
  BY <1>1, <1>2, <1>3 DEF Running

(* What else runs keeps who closes, as it leaves no Add halfway.           *)
LEMMA OtherStep ==
    ASSUME HasProcess \/ ~CallbackAdds, WgCore, Elsewhere,
           closing' = IF callback' THEN closing
                                   ELSE [closing EXCEPT ![NoGoroutine] = 0],
           UNCHANGED <<counter, ch, made, shut, waitsOn, waitLine, early>>
    PROVE  [Next]_vars /\ Plain' /\ WgInv'
<1> USE DEF WgCore, WgInv
<1>1. OtherTurn
  BY Zenon DEF Elsewhere, OtherTurn
<1>2. Next /\ Plain' /\ \A g \in live : asleep[g] => g \in live' /\ asleep'[g]
  BY <1>1, OthersKeepSleepers
<1>3. /\ closing \in [Contexts -> 0 .. made] /\ NoGoroutine \in Contexts
      /\ Goroutine \subseteq Contexts /\ NoGoroutine \notin Goroutine
      /\ callback \in BOOLEAN /\ callback' \in BOOLEAN /\ halted \in BOOLEAN
  <2>1. TypeOK'
    BY <1>2, TypeStep
  <2>2. callback \in BOOLEAN /\ callback' \in BOOLEAN /\ halted \in BOOLEAN
    BY <2>1, Zenon DEF Inv, TypeOK
  <2> QED
    BY <2>2, GoroutineAssumption DEF Contexts, WgTyped
<1>4. WgTyped'
  BY <1>3 DEF WgTyped
<1>5. InLine'
  BY <1>2, LinesStay
<1>6. NoEarlyReturn'
  BY DEF NoEarlyReturn, Parked
<1> DEFINE Calm ==
             /\ ~halted /\ \A g \in Goroutine : closing[g] = 0
             /\ callback' # callback => \/ CallbackEnter
                                        \/ callback /\ closing[NoGoroutine] = 0
                                        \/ \E g \in Goroutine : Throw(g)
<1>7. Calm
  <2>1. CASE RunNext \/ LoopEnd \/ FireRun
    <3>1. ~halted /\ curGoroutine = NoGoroutine /\ callback' = callback
      BY <2>1, GoroutineAssumption
      DEF RunNext, LoopEnd, FireRun, Looping, Idle, Inv, Shape
    <3> QED
      BY <1>3, <3>1 DEF Closer
  <2>2. CASE CallbackEnter
    <3>1. ~halted /\ curGoroutine = NoGoroutine
      BY <2>2, GoroutineAssumption DEF CallbackEnter, Idle, Inv, Shape
    <3> QED
      BY <1>3, <2>2, <3>1 DEF Closer
  <2>3. CASE CallbackReturn /\ Free(NoGoroutine)
    <3>1. /\ ~halted /\ curGoroutine = NoGoroutine /\ closing[NoGoroutine] = 0
          /\ callback
      BY <1>3, <2>3, FreeRuns
    <3> QED
      BY <1>3, <3>1 DEF Closer
  <2>4. ASSUME NEW g \in Goroutine, Free(g) /\ (Externalize \/ Return(g) \/ Throw(g))
        PROVE  Calm
    <3>1. ~halted /\ curGoroutine = g /\ closing[g] = 0
      BY <1>3, <2>4, FreeRuns
    <3>2. CASE Externalize \/ Return(g)
      <4>1. callback' = callback
        <5>1. CASE Externalize
          BY <5>1 DEF Externalize, machine
        <5>2. CASE Return(g)
          BY <5>2 DEF Return
        <5> QED
          BY <3>2, <5>1, <5>2
      <4> QED
        BY <1>3, <3>1, <4>1 DEF Closer
    <3>3. CASE Throw(g)
      BY <1>3, <3>1, <3>3 DEF Closer
    <3> QED
      BY <2>4, <3>2, <3>3
  <2>5. ASSUME NEW x \in Contexts, NEW g \in Goroutine, Free(x) /\ Go(g)
        PROVE  Calm
    <3>1. ~halted /\ curGoroutine = x /\ closing[x] = 0
      BY <2>5, FreeRuns
    <3>2. callback' = callback
      BY <2>5 DEF Go
    <3> QED
      BY <1>3, <3>1, <3>2 DEF Closer
  <2> HIDE DEF Calm
  <2> QED
    BY <2>1, <2>2, <2>3, <2>4, <2>5 DEF Elsewhere
<1>8. \/ closing' = closing /\ (closing[NoGoroutine] # 0 => callback')
      \/ halted' /\ closing' = [closing EXCEPT ![NoGoroutine] = 0]
  <2>1. CASE closing[NoGoroutine] = 0
    <3>1. [closing EXCEPT ![NoGoroutine] = 0] = closing
      BY <1>3, <2>1
    <3> QED
      BY <2>1, <3>1
  <2>2. CASE closing[NoGoroutine] # 0
    <3>1. CallbackAdds /\ callback
      BY <1>7, <2>2 DEF Closer
    <3>2. CASE callback'
      BY <3>2
    <3>3. CASE ~callback'
      <4>1. \E g \in Goroutine : Throw(g)
        BY <1>7, <2>2, <3>1, <3>3, Zenon DEF CallbackEnter
      <4>2. HasProcess
        BY <3>1
      <4>3. halted'
        BY <4>1, <4>2, Zenon DEF Throw
      <4> QED
        BY <1>3, <3>3, <4>3
    <3> QED
      BY <3>2, <3>3
  <2> QED
    BY <2>1, <2>2
<1>9. Closer'
  <2>1. CASE closing' = closing /\ (closing[NoGoroutine] # 0 => callback')
    BY <1>3, <1>7, <2>1 DEF Closer, Contexts
  <2>2. CASE halted' /\ closing' = [closing EXCEPT ![NoGoroutine] = 0]
    BY <1>3, <1>7, <2>2 DEF Closer, Contexts
  <2> QED
    BY <1>8, <2>1, <2>2
<1>10. Openness'
  <2>1. \A x \in Contexts : closing[x] = 0 => closing'[x] = 0
    BY <1>3, <1>8
  <2> QED
    BY <2>1 DEF Openness
<1>11. WgTyped'
  BY <1>3, <1>8 DEF WgTyped
<1> QED
  BY <1>2, <1>5, <1>6, <1>9, <1>10, <1>11

(* Add keeps the channel in step with the counter.                         *)
LEMMA AddStep ==
    ASSUME ~ReusesEarly, WgCore, NEW x \in Contexts, NEW delta \in {-1, 1},
           Add(x, delta)
    PROVE  UNCHANGED vars /\ WgInv'
<1> USE DEF WgCore, WgInv
<1> DEFINE c == counter + delta
<1>1. /\ Free(x) /\ MayAdd(x, delta) /\ c \in -1 .. MaxCount
      /\ c > 0 /\ ch = 0 => made < MaxChans
      /\ Count(c)
      /\ IF c = 0 /\ ch # 0 /\ ch \notin shut
         THEN shut' = shut \cup {ch} /\ closing' = [closing EXCEPT ![x] = ch]
         ELSE UNCHANGED <<shut, closing>>
      /\ UNCHANGED <<vars, waitsOn, waitLine>>
  BY DEF Add
<1>2. /\ ~halted /\ curGoroutine = x /\ closing[x] = 0
      /\ x = NoGoroutine => callback /\ CallbackAdds
  BY <1>1, FreeRuns DEF MayAdd
<1>3. UNCHANGED <<curGoroutine, callback, halted, live, asleep>>
  BY <1>1 DEF vars, machine, life, wake, ended
<1>4. /\ counter \in Int /\ c \in Int /\ c \in {counter - 1, counter + 1}
      /\ made \in Nat /\ made <= MaxChans /\ ch \in 0 .. made /\ shut \subseteq 1 .. made
      /\ closing \in [Contexts -> 0 .. made]
      /\ x \in Goroutine \/ x = NoGoroutine
      /\ Goroutine \subseteq Contexts /\ NoGoroutine \in Contexts
      /\ NoGoroutine \notin Goroutine
  BY GoroutineAssumption DEF WgTyped, Contexts
<1>5. CASE c > 0
  <2>1. CASE counter > 0
    <3>1. ch # 0 /\ UNCHANGED <<ch, made, shut, closing, early>> /\ counter' = c
      BY <1>1, <1>4, <1>5, <2>1 DEF Openness, Count
    <3>2. InLine'
      BY <1>1, <1>3, <3>1, LinesStay
    <3>3. WgTyped' /\ Closer' /\ Openness' /\ NoEarlyReturn'
      BY <1>1, <1>3, <1>4, <1>5, <2>1, <3>1
      DEF WgTyped, Closer, Openness, NoEarlyReturn, Parked
    <3> QED
      BY <1>1, <3>2, <3>3
  <2>2. CASE counter = 0
    <3>1. \A y \in Contexts : closing[y] = 0
      BY <1>1, <1>4, <1>5, <2>2 DEF MayAdd
    <3>2. ch = 0
      BY <1>2, <2>2, <3>1 DEF Closer, Openness
    <3>3. /\ ch' = made + 1 /\ made' = made + 1 /\ made < MaxChans
          /\ UNCHANGED <<shut, closing, early>> /\ counter' = c /\ ch' \notin shut'
      BY <1>1, <1>4, <1>5, <3>2 DEF Count
    <3>4. WgTyped'
      BY <1>1, <1>4, <3>3 DEF WgTyped
    <3>5. \A d \in 1 .. Never : Elems(waitLine[d]) = {}
      BY <1>4, <3>2 DEF InLine
    <3>6. InLine'
      BY <1>1, <3>5 DEF InLine, Never
    <3>7. Closer' /\ Openness'
      BY <1>3, <1>4, <1>5, <3>1, <3>3 DEF Closer, Openness
    <3>8. NoEarlyReturn'
      BY <1>1, <3>3 DEF NoEarlyReturn, Parked
    <3> QED
      BY <1>1, <3>4, <3>6, <3>7, <3>8
  <2> QED
    BY <1>4, <1>5, <2>1, <2>2
<1>6. CASE c = 0
  <2>1. counter' = 0 /\ early' = {} /\ UNCHANGED <<ch, made>>
    BY <1>1, <1>6 DEF Count
  <2>2. InLine' /\ NoEarlyReturn'
    BY <1>1, <1>3, <2>1, LinesStay DEF NoEarlyReturn
  <2>3. CASE ch # 0 /\ ch \notin shut
    <3>1. shut' = shut \cup {ch} /\ closing' = [closing EXCEPT ![x] = ch]
      BY <1>1, <1>6, <2>3
    <3>2. \A y \in Contexts : closing[y] = 0
      BY <2>3 DEF Closer
    <3>3. WgTyped'
      BY <1>1, <1>4, <2>1, <3>1 DEF WgTyped
    <3>4. Closer' /\ Openness'
      BY <1>2, <1>3, <1>4, <2>1, <2>3, <3>1, <3>2 DEF Closer, Openness
    <3> QED
      BY <1>1, <2>2, <3>3, <3>4
  <2>4. CASE ~(ch # 0 /\ ch \notin shut)
    <3>1. UNCHANGED <<shut, closing>>
      BY <1>1, <2>4
    <3>2. WgTyped' /\ Closer' /\ Openness'
      BY <1>1, <1>3, <2>1, <2>4, <3>1 DEF WgTyped, Closer, Openness
    <3> QED
      BY <1>1, <2>2, <3>2
  <2> QED
    BY <2>3, <2>4
<1>7. CASE c < 0
  <2>1. counter <= 0 /\ counter' = c /\ UNCHANGED <<ch, made, early, shut, closing>>
    BY <1>1, <1>4, <1>7 DEF Count
  <2>2. InLine' /\ NoEarlyReturn'
    BY <1>1, <1>3, <2>1, LinesStay DEF NoEarlyReturn, Parked
  <2>3. WgTyped' /\ Closer' /\ Openness'
    BY <1>1, <1>3, <1>4, <1>7, <2>1 DEF WgTyped, Closer, Openness
  <2> QED
    BY <1>1, <2>2, <2>3
<1> QED
  BY <1>4, <1>5, <1>6, <1>7

(* close wakes the first in line: a Ready step.                            *)
LEMMA WakeWaiterStep ==
    ASSUME WgCore, NEW x \in Contexts, WakeWaiter(x)
    PROVE  Next /\ Plain' /\ WgInv'
<1> USE DEF WgCore, WgInv
<1>1. /\ InGo /\ closing[x] = ch /\ ch \in shut /\ ch # 0 /\ ch \in 1 .. Never
      /\ waitLine[ch] # <<>> /\ waitLine[ch] \in Seq(Goroutine) /\ Distinct(waitLine[ch])
      /\ waitLine' = [waitLine EXCEPT ![ch] = Tail(waitLine[ch])]
      /\ Schedule(Head(waitLine[ch]), awakeGoroutines)
      /\ UNCHANGED <<notWaking, counter, ch, made, shut, waitsOn, closing, early>>
  <2>1. InGo /\ closing[x] = ch /\ ch \in shut /\ ch # 0
    BY DEF WakeWaiter, Closer
  <2>2. ch \in 1 .. Never
    BY <2>1 DEF WgTyped, Never
  <2>3. waitLine[ch] \in Seq(Goroutine) /\ Distinct(waitLine[ch])
    BY <2>2 DEF WgTyped, InLine
  <2> QED
    BY <2>1, <2>2, <2>3 DEF WakeWaiter
<1>2. PICK h : h = Head(waitLine[ch])
  OBVIOUS
<1>3. /\ h \in Elems(waitLine[ch]) /\ Distinct(Tail(waitLine[ch]))
      /\ Elems(Tail(waitLine[ch])) = Elems(waitLine[ch]) \ {h}
  BY <1>1, <1>2, TailElems
<1>4. h \in live /\ asleep[h]
  BY <1>1, <1>3 DEF InLine
<1>5. /\ h \in Goroutine /\ Next /\ Plain'
      /\ asleep' = [asleep EXCEPT ![h] = FALSE] /\ live' = live
      /\ UNCHANGED <<curGoroutine, callback, halted>>
  BY <1>1, <1>2, <1>4, SleeperIsReady
<1>6. WgTyped'
  BY <1>1, HeadTailProperties DEF WgTyped
<1>7. waitLine'[ch] = Tail(waitLine[ch]) /\ \A c \in 1 .. Never : c # ch => waitLine'[c] = waitLine[c]
  BY <1>1 DEF WgTyped
<1>8. InLine'
  <2>1. ASSUME NEW c \in 1 .. Never
        PROVE  /\ Distinct(waitLine'[c]) /\ Elems(waitLine'[c]) \subseteq Elems(waitLine[c])
               /\ h \notin Elems(waitLine'[c])
    <3>1. CASE c = ch
      BY <1>3, <1>7, <3>1 DEF InLine
    <3>2. CASE c # ch
      BY <1>7, <3>2 DEF InLine
    <3> QED
      BY <3>1, <3>2
  <2> QED
    <3>1. ASSUME NEW c \in 1 .. Never, NEW g \in Elems(waitLine'[c])
          PROVE  g \in live' /\ asleep'[g] /\ waitsOn'[g] = c /\ c = ch'
      <4>1. g \in Elems(waitLine[c]) /\ g # h
        BY <2>1, <3>1
      <4>2. g \in live /\ asleep[g] /\ waitsOn[g] = c /\ c = ch /\ g \in Goroutine
        BY <4>1 DEF InLine, Inv, TypeOK
      <4>3. asleep'[g] = asleep[g]
        BY <1>5, <4>1, <4>2 DEF Inv, TypeOK
      <4> QED
        BY <1>1, <1>5, <4>2, <4>3
    <3> QED
      BY <2>1, <3>1 DEF InLine, Never
<1>9. Closer' /\ Openness'
  BY <1>1, <1>5 DEF Closer, Openness
<1>10. early' = {}
  BY <1>1 DEF Openness, WgTyped
<1> QED
  BY <1>5, <1>6, <1>8, <1>9, <1>10 DEF NoEarlyReturn

(* close has woken everyone: the channel is gone.                          *)
LEMMA AddDoneStep ==
    ASSUME WgCore, NEW x \in Contexts, AddDone(x)
    PROVE  UNCHANGED vars /\ WgInv'
<1> USE DEF WgCore, WgInv
<1>1. /\ closing[x] = ch /\ ch \in shut /\ ch # 0
      /\ ch' = 0 /\ closing' = [closing EXCEPT ![x] = 0]
      /\ UNCHANGED <<vars, counter, made, shut, waitsOn, waitLine, early>>
      /\ waitLine[ch] = <<>>
  BY DEF AddDone, Closer
<1>2. UNCHANGED <<curGoroutine, callback, halted>>
  BY <1>1 DEF vars, machine, ended
<1>3. WgTyped'
  BY <1>1 DEF WgTyped
<1>4. \A y \in Contexts : closing'[y] = 0
  BY <1>1 DEF Closer, WgTyped
<1>5. counter <= 0 /\ 0 \notin shut /\ early = {}
  BY <1>1 DEF Openness, WgTyped
<1>6. Closer' /\ Openness' /\ NoEarlyReturn'
  BY <1>1, <1>2, <1>4, <1>5, GoroutineAssumption
  DEF Closer, Openness, NoEarlyReturn, Contexts
<1>7. \A c \in 1 .. Never : Elems(waitLine[c]) = {}
  <2>1. Elems(waitLine[ch]) = {}
    BY <1>1 DEF Elems
  <2> QED
    BY <2>1 DEF InLine
<1>8. InLine'
  BY <1>1, <1>7 DEF InLine, Never
<1> QED
  BY <1>1, <1>3, <1>6, <1>8

(* Wait parks on the open channel of the positive counter: a Park step.    *)
LEMMA WaitStep ==
    ASSUME WgCore, NEW g \in Goroutine, Wait(g)
    PROVE  Next /\ Plain' /\ WgInv'
<1> USE DEF WgCore, WgInv
<1>1. g \in Contexts /\ NoGoroutine \notin Goroutine
  BY GoroutineAssumption DEF Contexts
<1>2. Running(g) /\ waitsOn[g] = 0 /\ ~halted /\ counter > 0
  BY <1>1, FreeRuns DEF Wait
<1>3. /\ ch # 0 /\ ch \notin shut /\ ch \in 1 .. Never
      /\ \A x \in Contexts : closing[x] = 0
  BY <1>2 DEF Openness, WgTyped, Never
<1>4. /\ waitsOn' = [waitsOn EXCEPT ![g] = ch]
      /\ waitLine' = [waitLine EXCEPT ![ch] = Append(waitLine[ch], g)]
      /\ Settle(g, exit[g], awakeGoroutines, mainFinished) /\ UNCHANGED notParking
      /\ early' = early \cup {g} /\ UNCHANGED <<counter, ch, made, shut, closing>>
  BY <1>3 DEF Wait
<1>5. /\ Next /\ g \in live /\ ~asleep[g] /\ asleep' = [asleep EXCEPT ![g] = TRUE]
      /\ live' = live /\ curGoroutine' = NoGoroutine /\ callback' = callback /\ Plain'
  BY <1>2, <1>4, RunnerParks
<1>6. /\ waitLine[ch] \in Seq(Goroutine) /\ Distinct(waitLine[ch])
      /\ g \notin Elems(waitLine[ch])
  BY <1>3, <1>5 DEF WgTyped, InLine
<1>7. /\ Append(waitLine[ch], g) \in Seq(Goroutine) /\ Distinct(Append(waitLine[ch], g))
      /\ Elems(Append(waitLine[ch], g)) = Elems(waitLine[ch]) \cup {g}
  BY <1>6, AppendElems
<1>8. /\ waitLine'[ch] = Append(waitLine[ch], g)
      /\ \A c \in 1 .. Never : c # ch => waitLine'[c] = waitLine[c]
      /\ waitLine' \in [1 .. Never -> Seq(Goroutine)]
  BY <1>3, <1>4, <1>7 DEF WgTyped
<1>9. WgTyped'
  BY <1>4, <1>8 DEF WgTyped, Never
<1>10. \A c \in 1 .. Never : Distinct(waitLine'[c]) /\
         Elems(waitLine'[c]) = IF c = ch THEN Elems(waitLine[c]) \cup {g} ELSE Elems(waitLine[c])
  BY <1>7, <1>8 DEF InLine
<1>11. InLine'
  <2>1. ASSUME NEW c \in 1 .. Never, NEW h \in Elems(waitLine'[c])
        PROVE  h \in live' /\ asleep'[h] /\ waitsOn'[h] = c /\ c = ch'
    <3>1. CASE h = g
      <4>1. c = ch
        BY <1>5, <1>10, <2>1, <3>1 DEF InLine
      <4> QED
        BY <1>4, <1>5, <3>1, <4>1 DEF WgTyped, Inv, TypeOK
    <3>2. CASE h # g
      <4>1. h \in Elems(waitLine[c])
        BY <1>10, <2>1, <3>2
      <4>2. h \in live /\ asleep[h] /\ waitsOn[h] = c /\ c = ch
        BY <4>1 DEF InLine
      <4> QED
        BY <1>4, <1>5, <3>2, <4>2 DEF WgTyped, Inv, TypeOK
    <3> QED
      BY <3>1, <3>2
  <2> QED
    BY <1>10, <2>1 DEF InLine, Never
<1>12. Closer' /\ Openness'
  BY <1>3, <1>4, <1>5 DEF Closer, Openness, Contexts
<1>13. NoEarlyReturn'
  <2>1. ASSUME NEW h \in early' PROVE \E c \in 1 .. Never : h \in Elems(waitLine'[c])
    <3>1. CASE h = g
      BY <1>3, <1>10, <3>1
    <3>2. CASE h # g
      <4>1. PICK c \in 1 .. Never : h \in Elems(waitLine[c])
        BY <1>4, <2>1, <3>2, ParkedAre DEF NoEarlyReturn
      <4> QED
        BY <1>10, <4>1
    <3> QED
      BY <3>1, <3>2
  <2>2. \A h \in early' : h \in Parked'
    BY <1>8, <2>1 DEF Parked, Elems, Never
  <2> QED
    BY <2>2 DEF NoEarlyReturn
<1> QED
  BY <1>5, <1>9, <1>11, <1>12, <1>13

(* A woken goroutine leaves Wait.                                          *)
LEMMA WaitedStep ==
    ASSUME WgCore, NEW g \in Goroutine, Waited(g)
    PROVE  UNCHANGED vars /\ WgInv'
<1> USE DEF WgCore, WgInv
<1>1. /\ Running(g) /\ waitsOn' = [waitsOn EXCEPT ![g] = 0]
      /\ UNCHANGED <<vars, counter, ch, made, shut, waitLine, closing, early>>
  BY DEF Waited
<1>2. ~asleep[g]
  BY <1>1, GoroutineAssumption DEF Running, Inv, RunnableOnce
<1>3. UNCHANGED <<curGoroutine, callback, halted, live, asleep>>
  BY <1>1 DEF vars, machine, life, wake, ended
<1>4. WgTyped'
  BY <1>1 DEF WgTyped, Never
<1>5. \A c \in 1 .. Never : g \notin Elems(waitLine[c])
  BY <1>2 DEF InLine
<1>6. \A c \in 1 .. Never : Elems(waitLine[c]) \subseteq Goroutine
  BY DEF WgTyped, Elems
<1>7. InLine'
  BY <1>1, <1>3, <1>5, <1>6 DEF InLine, WgTyped, Never
<1>8. Closer' /\ Openness' /\ NoEarlyReturn'
  BY <1>1, <1>3 DEF Closer, Openness, NoEarlyReturn, Parked
<1> QED
  BY <1>1, <1>4, <1>7, <1>8

(* Every step is one of the scheduler, or none, and keeps the invariants.  *)
LEMMA WgStep ==
    ASSUME ~ReusesEarly, HasProcess \/ ~CallbackAdds, WgCore, [WgNext]_<<vars, wgVars>>
    PROVE  [Next]_vars /\ WgCore'
<1>1. [Next]_vars /\ Plain' /\ WgInv'
  <2>1. CASE UNCHANGED <<vars, wgVars>>
    <3>1. UNCHANGED <<curGoroutine, callback, halted, live, asleep, exit, sleepers>>
      BY <2>1 DEF vars, machine, life, wake, ended, pending
    <3>2. UNCHANGED <<counter, ch, made, shut, waitsOn, waitLine, closing, early>>
      BY <2>1 DEF wgVars
    <3>3. InLine'
      BY <3>1, <3>2, LinesStay DEF WgCore, WgInv
    <3>4. WgTyped' /\ Closer' /\ Openness' /\ NoEarlyReturn' /\ Plain'
      BY <3>1, <3>2 DEF WgCore, WgInv, WgTyped, Closer, Openness, NoEarlyReturn,
                        Parked, Plain
    <3> QED
      BY <2>1, <3>3, <3>4 DEF WgInv
  <2>2. ASSUME UNCHANGED vars, WgInv' PROVE [Next]_vars /\ Plain' /\ WgInv'
    BY <2>2 DEF vars, machine, life, pending, WgCore, Plain
  <2>3. ASSUME NEW x \in Contexts, NEW delta \in {-1, 1}, Add(x, delta)
        PROVE  [Next]_vars /\ Plain' /\ WgInv'
    BY <2>2, <2>3, AddStep
  <2>4. ASSUME NEW x \in Contexts, WakeWaiter(x) \/ AddDone(x)
        PROVE  [Next]_vars /\ Plain' /\ WgInv'
    BY <2>2, <2>4, WakeWaiterStep, AddDoneStep
  <2>5. ASSUME NEW g \in Goroutine, Wait(g) \/ Waited(g)
        PROVE  [Next]_vars /\ Plain' /\ WgInv'
    BY <2>2, <2>5, WaitStep, WaitedStep
  <2> QED
    BY <2>1, <2>3, <2>4, <2>5, OtherStep DEF WgNext
<1>2. Inv'
  BY <1>1, TypeStep, QueueStep DEF WgCore, Inv
<1> QED
  BY <1>1, <1>2 DEF WgCore

(* At first nobody waits and there is no channel.                          *)
LEMMA WgInitCore == WgInit => WgCore
<1> SUFFICES ASSUME WgInit PROVE WgCore
  OBVIOUS
<1>1. Inv
  BY InitInv DEF WgInit
<1>2. Plain
  <2>1. sleepers = {} /\ live = {Main} /\ exit[Main] = (Main # Main)
    BY GoroutineAssumption DEF WgInit, Init
  <2> QED
    BY <2>1 DEF Plain
<1>3. WgTyped
  BY DEF WgInit, WgTyped, Never
<1>4. InLine
  BY DEF WgInit, InLine, Elems, Distinct
<1>5. Closer /\ Openness /\ NoEarlyReturn
  BY GoroutineAssumption DEF WgInit, Closer, Openness, NoEarlyReturn, Contexts
<1> QED
  BY <1>1, <1>2, <1>3, <1>4, <1>5 DEF WgCore, WgInv

(* The invariant holds throughout.                                         *)
THEOREM WgInvariant ==
    ASSUME ~ReusesEarly, HasProcess \/ ~CallbackAdds
    PROVE  WgSpec => []WgCore
<1>1. WgCore /\ [WgNext]_<<vars, wgVars>> => WgCore'
  BY WgStep
<1> QED
  BY <1>1, WgInitCore, PTL DEF WgSpec

(* A program with a WaitGroup is a program of the scheduler.               *)
THEOREM WgRefinesScheduler ==
    ASSUME ~ReusesEarly, HasProcess \/ ~CallbackAdds
    PROVE  WgSpec => Spec
<1>1. WgInit => Init
  BY DEF WgInit
<1>2. WgCore /\ [WgNext]_<<vars, wgVars>> => [Next]_vars
  BY WgStep
<1> QED
  BY <1>1, <1>2, WgInvariant, PTL DEF WgSpec, Spec

(* Wait returns only after the counter has been zero.                      *)
THEOREM WaitIsNotEarly ==
    ASSUME ~ReusesEarly, HasProcess \/ ~CallbackAdds
    PROVE  WgSpec => []NoEarlyReturn
BY WgInvariant, PTL DEF WgCore, WgInv

(* Whoever is in Wait is being woken, or waits on the channel that the Add *)
(* which takes the positive counter to zero will close.                    *)
THEOREM WaitIsNotStranded ==
    ASSUME ~ReusesEarly, HasProcess \/ ~CallbackAdds
    PROVE  WgSpec => []NobodyStranded
<1>1. WgCore => NobodyStranded
  <2> SUFFICES ASSUME WgCore, ~halted, NEW g \in Parked
               PROVE  \/ \E x \in Contexts : closing[x] = waitsOn[g]
                      \/ counter > 0 /\ waitsOn[g] = ch /\ ch \notin shut
    BY DEF NobodyStranded
  <2>1. WgTyped /\ InLine /\ Closer /\ Openness
    BY DEF WgCore, WgInv
  <2>2. PICK c \in 1 .. Never : g \in Elems(waitLine[c])
    BY <2>1, ParkedAre
  <2>3. waitsOn[g] = ch /\ ch # 0
    BY <2>1, <2>2 DEF InLine
  <2>4. CASE counter > 0
    BY <2>1, <2>3, <2>4 DEF Openness
  <2>5. CASE counter <= 0
    BY <2>1, <2>3, <2>5 DEF Openness, Closer
  <2> QED
    BY <2>1, <2>4, <2>5 DEF WgTyped
<1> QED
  BY <1>1, WgInvariant, PTL
=============================================================================
