--------------------------------- MODULE Timers ---------------------------------
(***************************************************************************)
(* The timers of package time (compiler/natives/src/time/time.go): what    *)
(* time.Timer, time.Ticker and time.AfterFunc are made of, on top of       *)
(* $setTimeout and the scheduler of Goroutines.                            *)
(***************************************************************************)
EXTENDS Goroutines

CONSTANTS
    Timer,      \* the runtimeTimer objects that the program makes
    NoTimeout,  \* the timeout of a timer that was never armed
    MaxIds      \* bound on the ids of host timers told apart

ASSUME TimerAssumption ==
    /\ IsFiniteSet(Timer)
    /\ MaxIds \in Nat /\ NoTimeout \notin 0 .. MaxIds

VARIABLES
    made,     \* the timers that NewTimer, NewTicker or AfterFunc returned
    active,   \* those with t.active
    periodic, \* those with t.period # 0, the timers of Tickers
    timeout,  \* t.timeout, the id of a host timer
    host,     \* pending host timers: the id and the timer it calls back for
    far,      \* history: those last started more than 2^31-1 ms ahead
    starts,   \* history: parity of the goroutines started for t.f
    answer    \* what the last stopTimer or resetTimer returned

timerVars == <<made, active, periodic, timeout, host, far, starts, answer>>

-----------------------------------------------------------------------------
(* The host numbers its timers and never uses a number twice: a new one is *)
(* none that is pending or that some other timer still holds.              *)
FreshIds(t) == (1 .. MaxIds) \ ({h[1] : h \in host} \cup {timeout[x] : x \in Timer \ {t}})
Fresh(t) == CHOOSE i \in FreshIds(t) : TRUE

(* clearTimeout(t.timeout): the host timer that it ends, if it is pending. *)
Cleared(t) == {h \in host : h[1] = timeout[t]}

(* startTimer when left are the host timers that are pending; what is too  *)
(* far ahead is not armed.                                                 *)
Arm(t, distant, left) ==
    /\ active' = active \cup {t}
    /\ far' = IF distant THEN far \cup {t} ELSE far \ {t}
    /\ IF distant
       THEN host' = left /\ UNCHANGED timeout
       ELSE /\ FreshIds(t) # {}
            /\ timeout' = [timeout EXCEPT ![t] = Fresh(t)]
            /\ host' = left \cup {<<Fresh(t), t>>}

(* The scheduler's part of it.                                            *)
Rearm(cleared, armed) ==
    CASE cleared # {} /\ armed  -> RestartTimer
      [] cleared # {} /\ ~armed -> StopTimer
      [] cleared = {} /\ armed  -> StartTimer
      [] OTHER                  -> UNCHANGED vars

-----------------------------------------------------------------------------
(* NewTimer, NewTicker, AfterFunc.                                         *)
NewTimer(t, ticks, distant) ==
    /\ InGo
    /\ t \notin made
    /\ periodic' = IF ticks THEN periodic \cup {t} ELSE periodic
    /\ made' = made \cup {t}
    /\ Arm(t, distant, host)
    /\ Rearm({}, ~distant)
    /\ UNCHANGED <<starts, answer>>

(* Mutant of Stop: the host timer is not cleared.                          *)
StopUncleared(t) ==
    /\ InGo
    /\ t \in made
    /\ answer' = (t \in active)
    /\ active' = active \ {t}
    /\ UNCHANGED <<vars, made, periodic, timeout, host, far, starts>>

(* stopTimer.                                                              *)
Stop(t) ==
    /\ InGo
    /\ t \in made
    /\ answer' = (t \in active)
    /\ active' = active \ {t}
    /\ host' = host \ Cleared(t)
    /\ Rearm(Cleared(t), FALSE)
    /\ UNCHANGED <<made, periodic, timeout, far, starts>>

(* Mutant of Reset: modTimer does not stop the timer.                      *)
ResetUnstopped(t, distant) ==
    /\ InGo
    /\ t \in made
    /\ answer' = (t \in active)
    /\ Arm(t, distant, host)
    /\ Rearm({}, ~distant)
    /\ UNCHANGED <<made, periodic, starts>>

(* resetTimer, and modTimer for a Ticker: stop and start.                  *)
Reset(t, distant) ==
    /\ InGo
    /\ t \in made
    /\ answer' = (t \in active)
    /\ Arm(t, distant, host \ Cleared(t))
    /\ Rearm(Cleared(t), ~distant)
    /\ UNCHANGED <<made, periodic, starts>>

(* The host calls the function that startTimer gave it: a ticker is        *)
(* started again, and a goroutine is to run t.f.                           *)
Fire(h, g) ==
    LET t == h[2] IN
    /\ IF t \in periodic
       THEN Arm(t, FALSE, host \ {h})
       ELSE /\ active' = active \ {t}
            /\ host' = host \ {h}
            /\ UNCHANGED <<timeout, far>>
    /\ FireTimer(g, t \in periodic)
    /\ starts' = [starts EXCEPT ![t] = ~@]
    /\ UNCHANGED <<made, periodic, answer>>

-----------------------------------------------------------------------------
TimerInit ==
    /\ Init
    /\ made = {} /\ host = {}
    /\ active = {} /\ periodic = {} /\ far = {}
    /\ timeout = [t \in Timer |-> NoTimeout]
    /\ starts = [t \in Timer |-> FALSE] /\ answer = FALSE

(* What the program does besides.                                          *)
Besides ==
    \/ RunNext \/ LoopEnd \/ FireRun \/ CallbackEnter \/ CallbackReturn
    \/ FuncOf \/ Release \/ Externalize \/ MakeFunc
    \/ \E g \in Goroutine : FireSleep(g) \/ Go(g) \/ Ready(g) \/ Goexit(g) \/ EndTurn(g)

TimerNext ==
    \/ Besides /\ UNCHANGED timerVars
    \/ \E t \in Timer, ticks, distant \in BOOLEAN : NewTimer(t, ticks, distant)
    \/ \E t \in Timer : Stop(t) \/ \E distant \in BOOLEAN : Reset(t, distant)
    \/ \E h \in host, g \in Goroutine : Fire(h, g)

TimerSpec == TimerInit /\ [][TimerNext]_<<vars, timerVars>>

FairTimerSpec == TimerSpec /\ Fairness

-----------------------------------------------------------------------------
(* Properties.                                                             *)

(* startTimer, stopTimer, modTimer and the function that re-arms a ticker  *)
(* together keep the promise of RuntimeTimer: t.active says whether t.f is *)
(* still to be started, none is started after a stop that says it came in  *)
(* time, and a reset leaves one expiry to come.                            *)
Promise == INSTANCE RuntimeTimer WITH pending <- active
RefinesRuntimeTimer == Promise!TimerSpec

(* A timer that is active will be heard of, once: the host has one pending *)
(* timer for it, the one that stopTimer would clear, unless it was started *)
(* too far ahead; for one that is not active it has none.                  *)
ActiveIsArmed ==
    \A t \in Timer :
        {h[1] : h \in {x \in host : x[2] = t}} = IF t \in active \ far THEN {timeout[t]} ELSE {}
================================================================================
