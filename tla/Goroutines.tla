----------------------------- MODULE Goroutines -----------------------------
(***************************************************************************)
(* The goroutine scheduler of the GopherJS run time                        *)
(* (compiler/prelude/goroutines.js): goroutines multiplexed on the single  *)
(* thread of a JavaScript host, whose event loop also runs timers and      *)
(* callbacks that call back into Go code.                                  *)
(*                                                                         *)
(* The JavaScript stack of a step is one of                                *)
(*    nothing                                      the event loop is idle  *)
(*    callback                                     a Go function called by *)
(*                                                 the host                *)
(*    [callback] $runScheduled                     between two goroutines  *)
(*    [callback] $runScheduled curGoroutine        a goroutine runs        *)
(* A goroutine runs without interruption until it blocks or ends; what it  *)
(* does on the way (wake another one, start one, arm a timer) is one       *)
(* action per effect.  What makes a goroutine block or wakes it (channels, *)
(* semaphores) is left open here: Park and Ready.  Module Channels says.   *)
(***************************************************************************)
EXTENDS Integers, Sequences, FiniteSets

CONSTANTS
    Goroutine,        \* the goroutine objects; a finished one may be reused
    Main,             \* the goroutine of $go($mainPkg.$init, [])
    NoGoroutine,      \* $noGoroutine
    HasProcess,       \* $global.process exists (Node.js): a deadlock report
                      \* and an uncaught exception end the process
    ParksAfterGoexit, \* Go code that runs on after Goexit may block: a
                      \* deferred call, or the caller of a function whose
                      \* deferred calls made $callDeferred end the unwinding
    UsesMakeFunc,     \* the program hands the host functions of js.MakeFunc
    CallbackReleases, \* a callback may itself call Func.Release
    MaxRuns,          \* bound: more pending run timers are not told apart
    MaxExports,       \* bound on syscall/js functions alive at once
    MaxTimers,        \* bound on time.Timer and time.Ticker timers armed
    MaxLeaks          \* bound on timers stopped before they fire

ASSUME GoroutineAssumption ==
    /\ IsFiniteSet(Goroutine)
    /\ Main \in Goroutine
    /\ NoGoroutine \notin Goroutine
ASSUME SwitchAssumption ==
    /\ HasProcess \in BOOLEAN /\ ParksAfterGoexit \in BOOLEAN
    /\ UsesMakeFunc \in BOOLEAN /\ CallbackReleases \in BOOLEAN
ASSUME BoundAssumption ==
    /\ MaxRuns \in Nat \ {0}
    /\ MaxExports \in Nat /\ MaxTimers \in Nat /\ MaxLeaks \in Nat

VARIABLES
    curGoroutine,      \* $curGoroutine
    scheduled,         \* $scheduled, the run queue
    live,              \* goroutines started and not yet ended
    asleep,            \* the flag of each goroutine object; TRUE once ended
    exit,              \* the flag set by Goexit and by the end of the body
    totalGoroutines,   \* $totalGoroutines, which NumGoroutine returns
    awakeGoroutines,   \* $awakeGoroutines
    runLoop,           \* $runScheduled on the stack: "off", "fresh" (no
                       \* goroutine run yet, so no break yet) or "ran"
    nextRun,           \* pending setTimeout($runScheduled) timers
    callback,          \* a Go function called by the host is on the stack
    sleepers,          \* parked in time.Sleep or Gosched, timer pending
    timers,            \* armed $setTimeout timers of package time
    mainFinished,      \* $mainFinished
    checkForDeadlock,  \* $checkForDeadlock
    exportedFunctions, \* $exportedFunctions
    wrapped,           \* a js.MakeFunc function is reachable for the host
    fatal,             \* "all goroutines are asleep - deadlock!" reported
    halted,            \* the process has ended
    crashed,           \* history: goroutines ended by an uncaught exception
    leaked             \* history: timers cleared that $awakeGoroutines counts

(* Groups of variables that change together.                               *)
life    == <<live, exit, totalGoroutines>>
wake    == <<asleep, awakeGoroutines>>
loop    == <<runLoop, nextRun>>
machine == <<curGoroutine, scheduled, life, wake, loop, callback>>
flags   == <<mainFinished, checkForDeadlock, exportedFunctions, wrapped>>
ended   == <<fatal, halted, crashed>>
pending == <<sleepers, timers, leaked>>
vars    == <<machine, pending, flags, ended>>

(* For the modules on top: the variables that $schedule and those that     *)
(* $block leave alone, and what Go code can run in (NoGoroutine stands for *)
(* a callback).                                                            *)
notWaking  == <<curGoroutine, life, callback, pending, flags, ended>>
notParking == <<scheduled, live, exit, loop, callback, pending, flags, crashed>>
Contexts   == Goroutine \cup {NoGoroutine}

-----------------------------------------------------------------------------
(* Where the JavaScript stack of a process that has not ended stands.      *)

Idle       == ~halted /\ ~callback /\ runLoop = "off"
InCallback == ~halted /\ callback /\ runLoop = "off"
Looping    == ~halted /\ runLoop # "off" /\ curGoroutine = NoGoroutine
Running(g) == ~halted /\ curGoroutine = g

(* Go code can run: in a goroutine or directly in a callback.              *)
InGo == InCallback \/ \E g \in Goroutine : Running(g)

(* Outside functions through which an event can enter the program.         *)
Exposed == exportedFunctions > 0 \/ ~checkForDeadlock \/ wrapped

-----------------------------------------------------------------------------
(* The helpers of the prelude.                                             *)

(* $runScheduled arms the timer of the next pass before it runs anything.  *)
EnterRun ==
    /\ runLoop' = "fresh"
    /\ nextRun' = IF nextRun < MaxRuns THEN nextRun + 1 ELSE nextRun

(* Mutant of Enqueue: a wake-up from outside of a goroutine runs the queue *)
(* without having joined it.                                               *)
EnqueueRunsFirst(g) ==
    IF curGoroutine = NoGoroutine
    THEN EnterRun /\ UNCHANGED scheduled
    ELSE scheduled' = Append(scheduled, g) /\ UNCHANGED <<runLoop, nextRun>>

(* The push at the end of $schedule: outside of a goroutine it runs the    *)
(* queue at once, nested in whatever called it.                            *)
Enqueue(g) ==
    /\ scheduled' = Append(scheduled, g)
    /\ IF curGoroutine = NoGoroutine THEN EnterRun
                                     ELSE UNCHANGED <<runLoop, nextRun>>

(* $schedule; awake is $awakeGoroutines as its caller left it.             *)
Schedule(g, awake) ==
    /\ asleep' = [asleep EXCEPT ![g] = FALSE]
    /\ awakeGoroutines' = IF asleep[g] THEN awake + 1 ELSE awake
    /\ Enqueue(g)

(* $go: a new goroutine object, counted, awake and queued.                 *)
Spawn(g, awake) ==
    /\ live' = live \cup {g}
    /\ totalGoroutines' = totalGoroutines + 1
    /\ awakeGoroutines' = awake + 1
    /\ asleep' = [asleep EXCEPT ![g] = FALSE]
    /\ exit' = [exit EXCEPT ![g] = FALSE]
    /\ Enqueue(g)

(* Mutant of Deadlocked: functions of syscall/js do not count.             *)
DeadlockedDespiteExports(awake, finished) ==
    ~finished /\ awake = 0 /\ checkForDeadlock

(* The finally block of $goroutine for a goroutine that has parked (exits  *)
(* is FALSE) or has its exit flag set: the counters and, when the last     *)
(* awake goroutine goes to sleep, the deadlock report.                     *)
Deadlocked(awake, finished) ==
    ~finished /\ awake = 0 /\ checkForDeadlock /\ exportedFunctions = 0

(* Mutant of Settle: only a goroutine that parks looks for a deadlock.     *)
SettleChecksParkOnly(g, exits, awake, finished) ==
    /\ curGoroutine' = NoGoroutine
    /\ totalGoroutines' = IF exits THEN totalGoroutines - 1 ELSE totalGoroutines
    /\ asleep' = [asleep EXCEPT ![g] = TRUE]
    /\ awakeGoroutines' = awake - 1
    /\ fatal' = (fatal \/ (~exits /\ Deadlocked(awake - 1, finished)))
    /\ halted' = (HasProcess /\ ~exits /\ Deadlocked(awake - 1, finished))

(* Mutant of Settle: the total is taken down with the awake count.         *)
SettleDropsTotal(g, exits, awake, finished) ==
    /\ curGoroutine' = NoGoroutine
    /\ totalGoroutines' = totalGoroutines - 1
    /\ asleep' = [asleep EXCEPT ![g] = TRUE]
    /\ awakeGoroutines' = awake - 1
    /\ fatal' = (fatal \/ Deadlocked(awake - 1, finished))
    /\ halted' = (HasProcess /\ Deadlocked(awake - 1, finished))

Settle(g, exits, awake, finished) ==
    /\ curGoroutine' = NoGoroutine
    /\ totalGoroutines' = IF exits THEN totalGoroutines - 1 ELSE totalGoroutines
    /\ asleep' = [asleep EXCEPT ![g] = TRUE]
    /\ awakeGoroutines' = awake - 1
    /\ fatal' = (fatal \/ Deadlocked(awake - 1, finished))
    /\ halted' = (HasProcess /\ Deadlocked(awake - 1, finished))

-----------------------------------------------------------------------------
(* Before the script's last line, $go($mainPkg.$init, []), has run its     *)
(* first goroutine.                                                        *)
Init ==
    /\ curGoroutine = NoGoroutine
    /\ scheduled = <<Main>>
    /\ live = {Main}
    /\ asleep = [g \in Goroutine |-> g # Main]
    /\ exit = [g \in Goroutine |-> g # Main]
    /\ totalGoroutines = 1
    /\ awakeGoroutines = 1
    /\ runLoop = "fresh"
    /\ nextRun = 1
    /\ callback = FALSE
    /\ sleepers = {} /\ timers = 0 /\ leaked = 0
    /\ mainFinished = FALSE
    /\ checkForDeadlock = TRUE
    /\ exportedFunctions = 0
    /\ wrapped = FALSE
    /\ fatal = FALSE /\ halted = FALSE /\ crashed = {}

-----------------------------------------------------------------------------
(* The run loop and the event loop.                                        *)

(* $scheduled.shift() and the call of what it returns.                     *)
RunNext ==
    /\ Looping
    /\ scheduled # <<>>
    /\ curGoroutine' = Head(scheduled)
    /\ scheduled' = Tail(scheduled)
    /\ runLoop' = "ran"
    /\ UNCHANGED <<life, wake, nextRun, callback, pending, flags, ended>>

(* Mutants of LoopEnd: the timer is cleared whatever is left in the queue; *)
(* the loop never breaks before the queue is empty.                        *)
LoopEndAlwaysClears ==
    /\ Looping
    /\ scheduled = <<>> \/ runLoop = "ran"
    /\ runLoop' = "off"
    /\ nextRun' = nextRun - 1
    /\ UNCHANGED <<curGoroutine, scheduled, life, wake, callback, pending,
                   flags, ended>>

LoopEndDrains ==
    /\ Looping
    /\ scheduled = <<>>
    /\ runLoop' = "off"
    /\ nextRun' = nextRun - 1
    /\ UNCHANGED <<curGoroutine, scheduled, life, wake, callback, pending,
                   flags, ended>>

(* The loop ends when the queue is empty, or by the 4 ms break after a     *)
(* goroutine has run; its own timer is cleared only in the first case.     *)
LoopEnd ==
    /\ Looping
    /\ scheduled = <<>> \/ runLoop = "ran"
    /\ runLoop' = "off"
    /\ nextRun' = IF scheduled = <<>> THEN nextRun - 1 ELSE nextRun
    /\ UNCHANGED <<curGoroutine, scheduled, life, wake, callback, pending,
                   flags, ended>>

(* A pending run timer fires; the pass it starts arms its own.             *)
FireRun ==
    /\ Idle
    /\ nextRun > 0
    /\ runLoop' = "fresh"
    /\ UNCHANGED <<curGoroutine, scheduled, life, wake, nextRun, callback,
                   pending, flags, ended>>

(* Mutants of FireSleep: the timer is not uncounted; it is an interval,    *)
(* which fires again.                                                      *)
FireSleepStillCounted(g) ==
    /\ Idle
    /\ g \in sleepers
    /\ sleepers' = sleepers \ {g}
    /\ Schedule(g, awakeGoroutines)
    /\ UNCHANGED <<curGoroutine, life, callback, timers, leaked, flags,
                   ended>>

FireSleepRepeats(g) ==
    /\ Idle
    /\ g \in sleepers
    /\ sleepers' = sleepers
    /\ Schedule(g, awakeGoroutines)
    /\ UNCHANGED <<curGoroutine, life, callback, timers, leaked, flags,
                   ended>>

(* The timer of a Sleep or Gosched fires: $setTimeout's wrapper uncounts   *)
(* it, and close(c) schedules the sleeper from outside of any goroutine.   *)
FireSleep(g) ==
    /\ Idle
    /\ g \in sleepers
    /\ sleepers' = sleepers \ {g}
    /\ Schedule(g, awakeGoroutines - 1)
    /\ UNCHANGED <<curGoroutine, life, callback, timers, leaked, flags,
                   ended>>

(* A timer of package time fires: a periodic one is armed again, and a     *)
(* new goroutine runs its function.                                        *)
FireTimer(g, periodic) ==
    /\ Idle
    /\ timers > 0
    /\ g \notin live
    /\ timers' = IF periodic THEN timers ELSE timers - 1
    /\ Spawn(g, IF periodic THEN awakeGoroutines ELSE awakeGoroutines - 1)
    /\ UNCHANGED <<curGoroutine, callback, sleepers, leaked, flags, ended>>

(* The host calls a Go function it was handed; it runs on no goroutine.    *)
CallbackEnter ==
    /\ Idle
    /\ Exposed
    /\ callback' = TRUE
    /\ UNCHANGED <<curGoroutine, scheduled, life, wake, loop, pending,
                   flags, ended>>

CallbackReturn ==
    /\ InCallback
    /\ callback' = FALSE
    /\ UNCHANGED <<curGoroutine, scheduled, life, wake, loop, pending,
                   flags, ended>>

-----------------------------------------------------------------------------
(* What Go code does, in a goroutine or in a callback.                     *)

(* A go statement.                                                         *)
Go(g) ==
    /\ InGo
    /\ g \notin live
    /\ Spawn(g, awakeGoroutines)
    /\ UNCHANGED <<curGoroutine, callback, pending, flags, ended>>

(* A channel or semaphore operation wakes a parked goroutine.              *)
Ready(g) ==
    /\ InGo
    /\ g \in live \ sleepers
    /\ asleep[g]
    /\ Schedule(g, awakeGoroutines)
    /\ UNCHANGED <<curGoroutine, life, callback, pending, flags, ended>>

(* startTimer and stopTimer; the latter clears the timer without taking    *)
(* back what $setTimeout added to $awakeGoroutines.                        *)
StartTimer ==
    /\ InGo
    /\ timers < MaxTimers
    /\ timers' = timers + 1
    /\ awakeGoroutines' = awakeGoroutines + 1
    /\ UNCHANGED <<curGoroutine, scheduled, life, asleep, loop, callback,
                   sleepers, leaked, flags, ended>>

StopTimer ==
    /\ InGo
    /\ timers > 0 /\ leaked < MaxLeaks
    /\ timers' = timers - 1
    /\ leaked' = leaked + 1
    /\ UNCHANGED <<machine, sleepers, flags, ended>>

(* modTimer: the two in one go.                                            *)
RestartTimer ==
    /\ InGo
    /\ timers > 0 /\ leaked < MaxLeaks
    /\ leaked' = leaked + 1
    /\ awakeGoroutines' = awakeGoroutines + 1
    /\ UNCHANGED <<curGoroutine, scheduled, life, asleep, loop, callback,
                   sleepers, timers, flags, ended>>

(* syscall/js: FuncOf and Func.Release count the functions alive.          *)
FuncOf ==
    /\ InGo
    /\ exportedFunctions < MaxExports
    /\ exportedFunctions' = exportedFunctions + 1
    /\ UNCHANGED <<machine, pending, mainFinished, checkForDeadlock,
                   wrapped, ended>>

Release ==
    /\ InGo
    /\ InCallback => CallbackReleases
    /\ exportedFunctions > 0
    /\ exportedFunctions' = exportedFunctions - 1
    /\ UNCHANGED <<machine, pending, mainFinished, checkForDeadlock,
                   wrapped, ended>>

(* $externalizeFunction: a Go function passed to JavaScript as a value     *)
(* turns deadlock detection off for good.                                  *)
Externalize ==
    /\ InGo
    /\ checkForDeadlock
    /\ checkForDeadlock' = FALSE
    /\ UNCHANGED <<machine, pending, mainFinished, exportedFunctions,
                   wrapped, ended>>

(* js.MakeFunc: $makeFunc returns a function and records nothing.          *)
MakeFunc ==
    /\ UsesMakeFunc
    /\ InGo
    /\ ~wrapped
    /\ wrapped' = TRUE
    /\ UNCHANGED <<machine, pending, mainFinished, checkForDeadlock,
                   exportedFunctions, ended>>

-----------------------------------------------------------------------------
(* How a goroutine's turn ends.                                            *)

(* After Goexit, and then only down to a count of zero (a bound: each such *)
(* park takes one more off $totalGoroutines).                              *)
MayPark(g) == exit[g] => ParksAfterGoexit /\ totalGoroutines > 0

(* The goroutine blocks ($block, then it unwinds to $goroutine).           *)
Park(g) ==
    /\ Running(g)
    /\ MayPark(g)
    /\ Settle(g, exit[g], awakeGoroutines, mainFinished)
    /\ UNCHANGED <<scheduled, live, exit, loop, callback, pending, flags,
                   crashed>>

(* time.Sleep and Gosched: arm a timer, then block on a channel that only  *)
(* that timer closes.                                                      *)
Sleep(g) ==
    /\ Running(g)
    /\ MayPark(g)
    /\ sleepers' = sleepers \cup {g}
    /\ Settle(g, exit[g], awakeGoroutines + 1, mainFinished)
    /\ UNCHANGED <<scheduled, live, exit, loop, callback, timers, leaked,
                   flags, crashed>>

(* runtime.Goexit sets the flag and unwinds; deferred calls still run.     *)
Goexit(g) ==
    /\ Running(g)
    /\ ~exit[g]
    /\ exit' = [exit EXCEPT ![g] = TRUE]
    /\ UNCHANGED <<curGoroutine, scheduled, live, totalGoroutines, wake,
                   loop, callback, pending, flags, ended>>

(* The goroutine's function returns, or the exception of Goexit reaches    *)
(* $goroutine.  The caller of main records that main returned; after a     *)
(* Goexit it is reached when $callDeferred ended the unwinding in main or  *)
(* below it.                                                               *)
Return(g) ==
    /\ Running(g)
    /\ \E finished \in (IF g = Main THEN (IF exit[g] THEN BOOLEAN ELSE {TRUE})
                                    ELSE {mainFinished}) :
          /\ mainFinished' = finished
          /\ Settle(g, TRUE, awakeGoroutines, finished)
    /\ exit' = [exit EXCEPT ![g] = TRUE]
    /\ live' = live \ {g}
    /\ UNCHANGED <<scheduled, loop, callback, pending, checkForDeadlock,
                   exportedFunctions, wrapped, crashed>>

(* An exception leaves the goroutine: it passes through $goroutine and     *)
(* $runScheduled, whose finally blocks run, and through the callback       *)
(* below, and reaches the event loop.                                      *)
Throw(g) ==
    /\ Running(g)
    /\ ~exit[g]
    /\ curGoroutine' = NoGoroutine
    /\ runLoop' = "off"
    /\ nextRun' = IF scheduled = <<>> THEN nextRun - 1 ELSE nextRun
    /\ callback' = FALSE
    /\ crashed' = crashed \cup {g}
    /\ halted' = HasProcess
    /\ UNCHANGED <<scheduled, life, wake, pending, flags, fatal>>

-----------------------------------------------------------------------------
EventLoop ==
    \/ RunNext \/ LoopEnd \/ FireRun \/ CallbackEnter \/ CallbackReturn
    \/ \E g \in Goroutine : FireSleep(g)
    \/ \E g \in Goroutine, periodic \in BOOLEAN : FireTimer(g, periodic)

GoCode ==
    \/ \E g \in Goroutine : Go(g) \/ Ready(g) \/ Goexit(g)
    \/ StartTimer \/ StopTimer \/ RestartTimer
    \/ FuncOf \/ Release \/ Externalize \/ MakeFunc

EndTurn(g) == Park(g) \/ Sleep(g) \/ Return(g) \/ Throw(g)

Next == EventLoop \/ GoCode \/ \E g \in Goroutine : EndTurn(g)

Spec == Init /\ [][Next]_vars

(* The program's turns end (a turn that does not end holds up any          *)
(* JavaScript host), the 4 ms break comes, and the host fires its timers.  *)
Fairness ==
    /\ WF_vars(RunNext)
    /\ SF_vars(LoopEnd)
    /\ SF_vars(FireRun)
    /\ SF_vars(CallbackReturn)
    /\ \A g \in Goroutine : /\ WF_vars(EndTurn(g))
                            /\ SF_vars(FireSleep(g))

-----------------------------------------------------------------------------
(* Properties.                                                             *)

(* Every variable has its type; counters are integers here because that   *)
(* none of them goes below zero is a consequence of the counting           *)
(* invariants.                                                             *)
TypeOK ==
    /\ curGoroutine \in Goroutine \cup {NoGoroutine}
    /\ scheduled \in Seq(Goroutine)
    /\ live \subseteq Goroutine
    /\ asleep \in [Goroutine -> BOOLEAN]
    /\ exit \in [Goroutine -> BOOLEAN]
    /\ totalGoroutines \in Int
    /\ awakeGoroutines \in Int
    /\ runLoop \in {"off", "fresh", "ran"}
    /\ nextRun \in 0 .. MaxRuns
    /\ callback \in BOOLEAN
    /\ sleepers \subseteq Goroutine
    /\ timers \in 0 .. MaxTimers
    /\ mainFinished \in BOOLEAN
    /\ checkForDeadlock \in BOOLEAN
    /\ exportedFunctions \in 0 .. MaxExports
    /\ wrapped \in BOOLEAN
    /\ fatal \in BOOLEAN
    /\ halted \in BOOLEAN
    /\ crashed \subseteq Goroutine
    /\ leaked \in 0 .. MaxLeaks

Queued == {scheduled[i] : i \in DOMAIN scheduled}

(* $curGoroutine and $scheduled hold goroutines that are started, awake,   *)
(* not crashed and not asleep in a timer, and each of them once: no        *)
(* goroutine is run twice for one wake-up or while it is running.          *)
RunnableOnce ==
    /\ \A i, j \in DOMAIN scheduled :
          scheduled[i] = scheduled[j] => i = j
    /\ curGoroutine \notin Queued
    /\ \A g \in Queued \cup ({curGoroutine} \ {NoGoroutine}) :
          g \in live \ (crashed \cup sleepers) /\ ~asleep[g]

(* An awake goroutine is running, queued or was ended by an exception: a   *)
(* wake-up that cleared the asleep flag is not lost.                       *)
AwakeIsRunnable ==
    \A g \in live : ~asleep[g] => Running(g) \/ g \in Queued \/ g \in crashed

(* While $runScheduled is on the stack, and as long as anything is queued, *)
(* a timer for another pass is pending: the break after 4 ms, a nested     *)
(* pass from a callback and an exception strand no queued goroutine.       *)
NoLostRun == runLoop # "off" \/ scheduled # <<>> => nextRun > 0

(* $awakeGoroutines, which four places change, is the number of awake      *)
(* goroutines and pending timers, plus the timers stopTimer cleared.       *)
AwakeCount ==
    awakeGoroutines = Cardinality({g \in live : ~asleep[g]})
                        + Cardinality(sleepers) + timers + leaked

(* NumGoroutine: $totalGoroutines is the number of goroutines that exist.  *)
TotalCount == totalGoroutines = Cardinality(live)

(* When the deadlock report is made nothing in the program can run again:  *)
(* no goroutine is awake, no timer is pending, no Go function the prelude  *)
(* knows of can be called from outside.                                    *)
NoFalseDeadlock ==
    fatal => /\ scheduled = <<>>
             /\ sleepers = {} /\ timers = 0
             /\ \A g \in live : asleep[g]
             /\ exportedFunctions = 0 /\ checkForDeadlock

(* Every deadlock before the end of main is reported: when all goroutines  *)
(* sleep and no event can wake one, $goroutine has said so, unless a       *)
(* stopped timer or a crash keeps $awakeGoroutines above zero.             *)
DeadlockReported ==
    /\ Idle /\ ~Exposed /\ ~mainFinished
    /\ \A g \in live : asleep[g]
    /\ sleepers = {} /\ timers = 0 /\ leaked = 0
    => fatal

(* Every queued goroutine gets its turn, whatever timers and callbacks     *)
(* come in between.                                                        *)
EveryQueuedRuns ==
    \A g \in Goroutine : g \in Queued ~> Running(g) \/ halted

(* A goroutine in time.Sleep wakes up even when others never stop waking   *)
(* each other: the 4 ms break lets the event loop fire its timer.          *)
SleepersWake == \A g \in Goroutine : g \in sleepers ~> g \notin sleepers \/ halted
=============================================================================
