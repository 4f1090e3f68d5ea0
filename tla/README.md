# TLA+ models of GopherJS

GopherJS compiles Go to JavaScript. This directory models, in TLA+, the run time
(goroutines, channels, timers and package `sync` on the one thread of a
JavaScript host), the code that is generated for functions that may block, what
becomes of structs, arrays, slices and pointers, the assembly of a program out
of its packages, the sessions of the build tool, and a number of sequential
algorithms. TLC checks the models on small instances; TLAPS proves theorems
about many of them for every instance.

All paths below are relative to the repository. `PROJECT.json` lists for every
definition the lines of code it stands for, every hazard of the code with the
properties that are about it, and for every property a mutant: a change of one
definition, of the kind a slip in that code would make, under which TLC finds
the property violated.

To check a run: `tlc -config sched_node.cfg MCTimers.tla`. To check a proof:
`tlapm TimersProofs.tla`.

Contents: 1 the system, 2 the modules, 3 the runs, 4 the proofs, 5 what was
found, 6 what is not modelled.

## 1. The system

### 1.1 The run time

| Part | Source | State | What is hard |
| --- | --- | --- | --- |
| Scheduler | `compiler/prelude/goroutines.js`, `natives/src/runtime/runtime.go` | `$curGoroutine`, `$scheduled`, `$totalGoroutines`, `$awakeGoroutines`, `$checkForDeadlock`, `$exportedFunctions`, `$mainFinished`, `asleep` and `exit` of each goroutine, the pending timers of `$runScheduled` | a pass of the run queue may be nested in a callback, broken off after 4 ms, or unwound by an exception; the deadlock report depends on counters that are kept in four places |
| Timers | `natives/src/time/time.go` | `active`, `period` and the host's id of each timer | Stop or Reset between the tick and the goroutine that runs the function; times beyond 2^31-1 ms |
| Channels, select | `goroutines.js`, `types.js` | `$buffer`, `$sendQueue`, `$recvQueue`, `$closed` | whom an operation is matched with; entries of a select in several queues; an operation of a callback is interrupted where it wakes somebody |
| Semaphores, `sync.Cond`, `sync.WaitGroup` | `natives/src/sync` | `*s`, `semWaiters`, `semAwoken`; `c.n`, `c.ch`; `counter`, `ch` | a permit stays in `*s` until the woken waiter runs; counting comes before waiting; `close(wg.ch)` comes before `wg.ch = nil` |
| Panics, defer, recover | `goroutines.js`, `functions.go` | `$deferStack`, `$panicStack`, `$panicStackDepth`, `$panicValue` | deferred calls that park, panics in deferred calls, `Goexit`, all told apart by the depth of the JavaScript stack |
| Values | `prelude/prelude.js`, `prelude/types.js`, `natives/src/reflect/reflect.go` | the JavaScript heap | structs and arrays are objects held by reference: a clone too few and two variables are one, a clone too many and a pointer points elsewhere |
| `syscall/js`, wrappers | `natives/src/syscall/js/js.go`, `prelude/jsmapping.js` | `$exportedFunctions`, `$checkForDeadlock` | the ways back into the program, and the switches of the deadlock detector |

A goroutine runs until it blocks: `$block` marks it asleep, and its functions
return their frames to `$goroutine`, whose `finally` block does the counting and
looks for a deadlock. Whatever makes it runnable calls `$schedule`, which pushes
it on `$scheduled`. If that happens in a goroutine, the loop of `$runScheduled`
gets to it. If it happens outside of one (in a timer or in a function called by
JavaScript), `$schedule` calls `$runScheduled` itself, nested in whatever was
going on. That one line is why a send, a close or a Broadcast that is atomic in
a goroutine is not atomic in a callback: the goroutines it wakes run before it
returns, on shared state that it has half changed.

The run time is correct when a goroutine runs once for each wake-up and no
wake-up is lost; nobody is starved; the counters are what they claim to be and a
deadlock is reported exactly when there is one; a timer fires once unless it is
stopped; channels keep the order of the sends and leave nobody waiting for what
is there; a permit is handed over in line order and never stolen; a Broadcast
reaches everybody; Wait returns neither early nor never.

### 1.2 The compiler

| Part | Source | State | What is hard |
| --- | --- | --- | --- |
| Blocking analysis | `compiler/internal/analysis` | calls, continue and return statements that may block, per function and instance | whether a statement blocks is known only after all calls are; cycles of calls over packages, instances and links |
| Code of blocking functions | `compiler/statements.go`, `expressions.go`, `functions.go` | `$s`, `$r`, `$c`, the saved variables | every place a function may park at must be a case of its switch, and the function must go on there |
| Generic instances | `compiler/internal/typeparams` | `InstanceSet` worklists | scanning one instance adds to sets that were exhausted; the packages are visited in the order of a Go map |
| Package compilation, dead code | `compiler/decls.go`, `package.go`, `compiler.go`, `compiler/internal/dce` | declarations with filters and dependencies, `byFilter`, `pendingDecls` | whatever can run must be written, nothing written may refer to what is not |
| Start of the program | `compiler/compiler.go`, `decls.go`, `prelude.js` | `$packages`, `$linknames`, the frames of `$init` functions | four phases over all packages; initializers that block |
| Overlays | `build/build.go`, `compiler/astutil` | declarations and imports of a file | what an overlay replaces, keeps or purges, and the imports that nothing uses any more |
| Build session and cache | `build/build.go`, `build/cache/cache.go`, `tool.go` | sources and archives of a session; files and times on disk | files change while they are read; several processes share the cache, and may die |

The compiler is correct when the program it writes contains what can run, each
reference leads to the instance it was made for, no function parks that cannot
be resumed, and what a function shows is what Go says; a session, when it uses
sources that fit and notices every change.

### 1.3 Sequential code

Overlays, maps and sets of instances, integers of the run time, `nosync` with
`sync/atomic`, `sync.Map`, `sync.Pool` and `sync.Once`, and source maps do not
run concurrently with anything and keep no state between the calls of others:
they are modelled as operators, section 2.7. They are correct when they agree
with a plainer definition of what they compute.

Strings, type identity and method sets, conversion of data values to and from
JavaScript, naming, build contexts, the HTTP server and the other overlays are
not modelled. Each is named in `PROJECT.json` with the reason; section 6 has a
summary.

## 2. The modules

    Goroutines ─┬─ Timers ········· implements RuntimeTimer
                ├─ Channels ······· implements Pipe
                ├─ Semaphore ······ implements Handoff
                │     └─ Cond
                └─ WaitGroup

    GoBody ── FunctionAnalysis ── FunctionCode ── JsFrames ── BodyRun
    GoProgram ── CompileSession ── ProgramStart        DceSelector
    JsValues ── JsReflect ── ValueSemantics            BuildSession
    JsIntegers ── Nosync       Overlay       InstanceMap       SourceMaps

    GoroutinesProofs ─┬─ TimersProofs
                      ├─ ChannelsProofs        CompileProofs
                      ├─ SyncProofs            BuildProofs
                      └─ WaitGroupProofs       AlgorithmProofs

    MCTimers, MCChannels, MCSync, MCWaitGroup, MCFrames, MCProgram, MCValues,
    MCBuild, MCDce (with MCAlgorithms and MCSourceMaps)    instances for TLC

A module to the right of a line extends the one to its left. A module over
`Goroutines` uses its helpers (`Schedule`, `Settle`) for its own operations and
its actions for everything that happens in between.

### 2.1 Goroutines and Timers

A step of `Goroutines` starts and ends where JavaScript code of the run time
hands over: to a goroutine, to the event loop, or to the next effect of Go code.
The stack of the host is one of four shapes: nothing (`Idle`), a Go function
called by the host (`callback`), `$runScheduled` between two goroutines
(`Looping`), a goroutine in it (`Running`); the last two may sit on a callback.

| Action | Code |
| --- | --- |
| `RunNext`, `LoopEnd` | the loop of `$runScheduled`: shift and call; end on an empty queue or by the 4 ms break, with its own timer cleared only in the first case |
| `FireRun`, `FireSleep`, `FireTimer` | the event loop fires `setTimeout($runScheduled)`, the timer of `Sleep` or `Gosched`, or one of `startTimer` |
| `CallbackEnter`, `CallbackReturn` | the host calls a function from `FuncOf`, `$externalizeFunction` or `js.MakeFunc` |
| `Go`, `Ready` | `$go`; a wake-up by `$schedule` |
| `FuncOf`, `Release`, `Externalize`, `MakeFunc`, `StartTimer`, `StopTimer`, `RestartTimer` | the calls of these names, as far as they touch the scheduler |
| `Park`, `Sleep`, `Return`, `Goexit`, `Throw` | how a turn ends; `Settle` is the `finally` block of `$goroutine` |

`Enqueue`, `Schedule` and `Spawn` are the bodies of `$schedule` and `$go`. A
goroutine object that has ended may be started again, which stands for a new
one. Frames, arguments and panic values are left out, and so is time: the 4 ms
break may come after any goroutine, a timer may fire whenever the host is idle.

`Timers` adds the objects of package `time`: `NewTimer`, `Stop`, `Reset` and
`Fire` (the closure that `startTimer` hands to `$setTimeout`), with the host's
numbered timers in `host` and `t.timeout` in `timeout`. The host never uses a
number twice; a number that nobody holds may be given again in the model, since
nobody can tell. A timer that is started too far ahead is active but not armed
(`far`). `RuntimeTimer` is what package `time` asks for: Stop and Reset say
whether they came before the expiry, and each expiry starts the function once.

### 2.2 Channels, Semaphore, Cond, WaitGroup

`sendQueue` and `recvQueue` of `Channels` hold entries that name the goroutine,
the value and whether the entry belongs to a select; calling an entry is `Wake`,
and `removeFromQueues` is `Dequeued`. `frame` holds the rest of an operation
that was interrupted: `$recv` between calling a waiting sender and taking from
the buffer, `$close` between two of those it wakes. In a goroutine nothing comes
in between because `$schedule` only queues, in a callback a pass of the queue
does. A callback that has to wait throws in `$block`, after its entry was
pushed: the entry of `NoGoroutine` stays behind. Values are numbered in the
order of their sends. Which ready case a select takes is free, as with
`Math.random`. `Pipe` is the channel of the Go specification: accept, deliver,
exchange, close. The refinement takes `rcvd \o buffer` for what was sent, so
that the moment between the halves of `$recv` belongs to the abstract
`Exchange`; a channel is closed in the abstract once its `$close` has told
everyone (`Told`). An exception that leaves a goroutine, or that
`$runScheduled` meets at an entry of `$noGoroutine`, also ends the operation of
the callback below (`EndCallback`). A browser goes on after it: the history
variable `torn` remembers the channels whose `$close` was ended halfway.

In `Semaphore` the channel that a waiter makes and puts into `semWaiters` is
that goroutine's place in line. `Handoff` promises: a permit is free or somebody
is in line, never both, and a released permit goes to the first in line. The
mapping is `free = sem - semAwoken`: permits that awoken waiters have not picked
up yet are no longer free. `Cond` adds `Wait` in the three pieces between which
others can run (`WaitUnlock`, `WaitPark`, `WaitLock`), `Signal`, and `Broadcast`
with one step for each turn of its loop. In `WaitGroup`, `closing` says that an
`Add` is between `close(wg.ch)` and `wg.ch = nil`; a use begins when a positive
Add meets a zero counter, after every Wait of the previous use has returned, as
the documentation of the type asks (`MayAdd`).

### 2.3 Generated code

`GoBody` says what a function body means in Go: branches, loops, range, switch
and select, labels and jumps, calls, deferred calls, panics, recover, Goexit. It
is the reference and stands for no code. `FunctionAnalysis` is the visitor of
`compiler/internal/analysis` over such a body: which nodes block or must be
flattened (`Visit`, with the continue and return statements that are settled
late). `FunctionCode` translates the body to a sequence of JavaScript items: the
cases of the switch over `$s`, jumps, nested blocks, and `await` for the second
half of a blocking call. `JsFrames` runs the items: `Enter` takes a frame up or
makes one, `Saved` is the object that `$block` unwinds through, `Finally` the
`try`/`catch`/`finally` of a function with deferred calls, `CallDeferred`,
`JsPanic` and `JsRecover` the functions of the prelude, on the defer stack and
the panic stack of one goroutine. A program of `BodyRun` is translated
(`Translate`), then runs turn by turn (`Turn`); in each turn one receive may
find its value, so that a program is parked at every receive it has. JavaScript
runs to completion, which is why a turn is one step.

### 2.4 Programs

A program of `GoProgram` is a record of objects (functions, methods, types and
variables of several packages, generic ones with one type parameter) and of what
each uses; a type is what it names, from the outside in. `WellTyped` is what the
type checker makes sure of, and all that the compiler may assume of a program;
`RunsNext` and `BlocksNext` are one step of what the language lets it run and
block in, whatever the compiler makes of it. `CompileSession` takes the roots of a session through the phases of
`build.go` and `compiler.go`: `LoadAndScan` and `Propagate` are the collector
and `Finish` of `typeparams`, one set of instances at a time in any order;
`AnalyzeAll` and `PropagateAnalysis` the blocking analysis over instances and
packages; `CompilePackage` the declarations with filters and dependencies, or
the archive kept from an earlier root; `WriteProgram` the selection, in rounds up
to the least closed set, which is what `AlgorithmProofs` shows that `AliveDecls`
returns; `NextRoot` the next command of the session. `Run` is not the
compiler's: it lets the written program run and block, one step further each
time, so that what is written can be held against it.

`ProgramStart` runs what was written. `CollectDependencies` puts the packages
in order, each step one entry or return of the recursive function of
`ImportDependencies`. Three passes go over them, a package at a time:
`DefinePackage` (types and their exports), `FinishSetup` (functions, methods,
the init of types, linknames exposed) and `InitLinknames` (linknames read). Then
the `$init` functions run on a stack of frames, that of the runtime first
(`CallRuntime`): `InitImport`, `InitVar`, `CallFunction`, `InitReturns`, with
`Block` and `Resume` where an initializer parks. A frame is the package and the
steps it has left; `Position` is the first of them. What the code of a step
uses is found one step of `RunsNext` at a time (`Execute`), over all it may
call. `missing` collects what was used before it was set.

`DceSelector` is `Include` for every declaration, then the loop of `AliveDecls`,
over whole programs: each declaration with its filters, dependencies and whether
a `go:linkname` directive names it. The stack of pending declarations is a set,
so that every order of popping is covered.

### 2.5 Values

`JsValues` holds the JavaScript heap (arrays and structs as objects, nested ones
as objects of their own), pointers, slices and the functions of the prelude on
them; `JsReflect` the functions of `reflect.go` that read and write. Each action
of `ValueSemantics` is one statement, executed twice: on `go`, the memory the
language defines (locations are a variable and a path), and on `js`, by the
translation of `expressions.go` and `statements.go`. The forty statements are
assignments, definitions, swaps, field and element assignments, addresses,
stores through pointers, calls, deferred calls, append, copy, make, slicing,
conversions, range, boxing, maps, and their counterparts in `reflect`. Integers
stand for everything that is copied by value. `Departures` names the statements
whose translation is known to differ from Go; the run `values` leaves them out,
section 5 lists them.

### 2.6 Building

`BuildSession` is `LoadPackages` as the recursion it is: a stack of frames, one
package each, whose steps are the moments at which the disk is read or written
(list, watch, load imports, modification time, cache, parse, store). A file is a
version with a time; `World` edits files, lets time pass and clears the cache
between any two steps. A process may have the watch loop (`WaitForChange`,
`Notify`), use the cache, or die (`Crash`). The tool turns the cache off in
every session; both cases are modelled.

### 2.7 Sequential code

These modules have no behaviour in time. What TLC checks of them are named
assumptions in `MCAlgorithms` and `MCSourceMaps`, which the run `dce` evaluates.

`Overlay` is `ParseAndAugment` on one overlay file and one original file: sets
of declarations with the packages they use, imports, and directives. The steps
of the code are its operators: `AugmentOverlayFile`, `AugmentOriginalImports`,
`AugmentOriginalFile` (functions and methods in `AugmentFunc`, types, constants
and variables in `AugmentSpec`), `FinalizeRemovals` and `PruneImports`.
`OverlaysFit` compares them with what an overlay promises on every small pair of
files.

`InstanceMap` is `typeparams.InstanceMap` and `InstanceSet`: buckets by object
and hash, in which a deleted entry leaves a nil that the next new entry of the
bucket takes; types are pointers that are compared up to identity, a hash is its
bits and the hash of an instance their exclusive or. `MapsAnswer` builds every
map that four calls of Set and Delete make out of seven keys, which share
objects, hashes and identity in all ways, and compares each answer with a plain
function; `SetsNumber` does the same for four calls on a set.

`JsIntegers` has the operators of JavaScript on integers of `Word` bits (32 in
JavaScript), `fixNumber` with the operators of `expressions.go` over it, the
64-bit types as pairs of halves with `$mul64`, `$div64` and the shifts of
`numeric.js`, the conversions, and the overlay of `math/bits`. That code knows
the number 32 only as what `Word` stands for, so that a small word has every
case: with `Word` 8, `SmallIntegersWrap` takes all pairs of the types of 2 and 4
bits, `WordsWrap` and `ShiftsWrap` all values of 8 bits with those near both
ends or all counts; with `Word` 4 a 64-bit type has 8 bits, of which
`WideIntegersWrap`, `WideShiftsWrap` and `ConversionsWrap` take all, and
`BitsAreExact` takes all pairs of words. The reference is arithmetic modulo a
power of two. A product of the code stays exact as long as it is below 2^53,
which the models do not check. The cases of section 5.2 are left out.

`Nosync` takes every call to a new state and a result, the empty one being a
panic: the mutexes, `WaitGroup`, `Once`, `Map` and `Pool` of `nosync`,
`sync.Pool`, and the functions of `sync/atomic` with `atomic.Value`. The
assumptions say which sequences of calls panic (`LocksPanic`, `MutexPanics`,
`WaitPanics`), that `Do` runs its function once (`OnceIsOnce`), that a pool
gives what was put once (`PoolsGiveOnce`), and what `Map`, `Value` and `Add`
return (`MapsLoad`, `ValuesKeepTypes`, `AtomicsAdd`).

`SourceMaps` is the hints that the compiler writes into the generated code
(`EncodeHint`, `WithPos`), `removeWhitespace`, which must leave them alone, and
`sourcemapx.Filter`, which takes them out again and maps the places they stood
at. `HintsAreRead`, `MinifyingKeepsTokens`, `PiecesAgree` (a write in pieces is
the write of the whole), `FilesAreMapped` and `PathsAreShort` are over all
inputs of a few bytes that contain the bytes the code tells apart.

## 3. The runs

| Run | Instance | Distinct states | Properties |
| --- | --- | --- | --- |
| `sched_node` | 3 goroutines, Node.js, 1 exported function, 1 timer | 807,852 | `ActiveIsArmed`, `RunnableOnce`, `AwakeIsRunnable`, `NoLostRun`, `AwakeCount`, `TotalCount`, `NoFalseDeadlock`, `DeadlockReported`, `RefinesRuntimeTimer` |
| `sched_fair` | 3 goroutines, no process to end, `js.MakeFunc` | 22,124 | `EveryQueuedRuns`, `SleepersWake` |
| `chan` | 3 goroutines in a browser, an unbuffered, a buffered and the nil channel, 2 sends, selects, callbacks that send, receive and close, exceptions | 2,600,692 | `SendsInOrder`, `NoMissedMatch`, `WaitersQueued`, `WokenGoOn`, `RefinesPipe` |
| `sync_cond` | 4 goroutines, a lock, callbacks that unlock, signal and broadcast | 62,347 | `AwokenHavePermits`, `NoIdlePermit`, `SignalsMeetWaiters`, `BroadcastReachesAll`, `RefinesHandoff` |
| `sync_waitgroup` | 4 goroutines, two uses, callbacks that add | 14,618 | `NoEarlyReturn`, `NobodyStranded` |
| `frames` | families of programs: jumps out of five statements, deferred calls and panics, goto | 96,381 | `GoEquivalent`, `ParkedIsResumable` |
| `program` | 4,800 programs of a command and a generic library | 472,550 | `NeverPanics`, `WhatRunsIsWritten`, `ReferencesResolve`, `BlockingIsKnown`, `StartFindsAll` |
| `program_two_roots` | two commands, one session | | finding: `ReferencesResolve` violated |
| `dce` | 13,312 programs of an entry point and two declarations | 145,268 | `NoDeadCode`, `NothingMissing`, `Returns` |
| `values` | two statements from six states | 283,552 | `ValuesAgree`, `PointersAgree`, `NotShared` |
| `values_append` | the same, with the append of the code | | finding: `ValuesAgree` violated |
| `build` | a watching build under four edits; two commands that share the cache, of which one may test or use other tags | 1,067,560 | `SourcesFit`, `StaleOnlyByRace`, `SourcesClosed`, `ChangesAreBuilt` |

### 3.1 Bounds

- *Goroutines.* Three let one run, one be queued and one sleep, and let two wake
  each other while a third waits. Four in the `sync` runs: a holder, an awoken
  waiter, one in line, and one that comes in between.
- `MaxRuns` (2) caps the pending timers of `$runScheduled`. Passes that break
  off leave theirs behind, so in the code the number is unbounded; one that is
  capped behaves as if the surplus had fired into an empty queue. Zero, one and
  more than one are told apart.
- `MaxExports`, `MaxTimers` (1) let each kind of event exist or not exist,
  `MaxLeaks` (2) lets `Stop` and then `Reset` clear a host timer. One timer is
  enough: two share nothing but the counters, and `TimersProofs` shows that no
  two hold the same id. `MaxIds` (2) is one id pending and one to come.
- *Channels.* Capacity 0 and 1 and the nil channel are the cases of the code;
  two sends let one value be buffered while one sender waits. A select has two
  cases, on two channels or two directions of one. `MaxStale` (1) is the number
  of receive entries without a goroutine that a channel may hold. Callbacks do
  not receive from a full channel with a waiting sender, and no select offers to
  send on a channel that is closed meanwhile (section 5.2). No process ends
  (`HasProcess` is false), so that the program goes on after every exception:
  in Node.js an exception is the end, and nothing is left to be checked.
- `Width` (4) stands for 2^32 and only matters if `*s` ever went below zero.
  `MaxPermits` (2) allows an unlock of an unlocked semaphore. `MaxCount` (2) and
  `MaxChans` (2) let an Add come in the middle of a use, and the WaitGroup be
  used twice.
- *Frames.* Every jump (break and continue with and without label, return) out
  of every kind of statement in a labelled loop, with receives at up to two of
  five places; a function with one or two deferred calls, each of which waits,
  panics, recovers or sets the result, called by one that may recover; goto,
  Goexit, and a return before the deferred call of a loop. A loop runs twice, a
  range has two elements. `MaxReady` (1) lets one receive of a turn find a
  value, so that a program parks at any of them.
- *Programs.* Two uses of `main` out of seven, all bodies of the generic
  functions and methods from lists that contain cycles, nested types and links.
  Programs whose instances have no end are left out, as the language forbids
  them.
- *DCE.* Three declarations and three names: a method with both filters, which
  are found by one declaration, by two, by itself, or not at all, and cycles of
  dead declarations.
- *Values.* Two statements (`MaxSteps`) from states that differ in what slices,
  pointers and the interface refer to: the first makes objects shared or not,
  the second tells. States with elements that are structs and with integers.
- *Build.* Six packages, three versions of each (one that is missing, two that
  differ in their imports), two steps of the clock (`MaxTime`), one command per
  process without `-w` (`MaxSessions`). Six scenarios: `Watch` and
  `WatchMissing` are a watching build with four edits (one lands in the import
  of a package, one in its parsing, one breaks the tree and one mends it), in a
  whole tree and in one that lacks a package; `Cached` is two commands that
  share the cache under two edits, which may fall into one tick of the clock;
  `CachedCrash`, `CachedTags` and `CachedTest` are two commands that may die, that
  use different tags, and of which one tests what the other builds. The trees
  have no import cycles (`TreesAreLayered`), as Go demands.
- A state in which the program has ended, or nothing can ever happen, is a real
  end; the runs do not take it for an error (`CHECK_DEADLOCK FALSE`). What a
  deadlock of the Go program is, is a matter of `NoFalseDeadlock` and
  `DeadlockReported`.
- Symmetry is declared for goroutines other than `Main`, in runs without
  liveness properties; nothing in the models orders them.

`js.MakeFunc` is possible in `sched_fair` only: such a function is unknown to
the deadlock detector, which is a known departure, and timers, `FuncOf` and
`Release` are possible in `sched_node`.

### 3.2 Fairness

`Fairness` of `Goroutines` assumes:

- *a turn ends* (`WF` of `EndTurn(g)`) and a callback returns (`SF` of
  `CallbackReturn`): JavaScript cannot be preempted, a turn that does not end
  holds up the whole page, here as in the code;
- *the pass goes on* (`WF` of `RunNext`): it is a loop;
- *the 4 ms break comes* (`SF` of `LoopEnd`): the loop reads the clock after
  every goroutine; strong, because it can be left only between two goroutines;
- *the host fires its timers* (`SF` of `FireRun`, `SF` of `FireSleep(g)`): an
  event loop runs every timer that is due once it is idle, and it is idle again
  and again. It owes nothing to callbacks: `CallbackEnter` is not fair.

Nothing is assumed about what Go code does, and neither property follows without
the break: a mutant of `LoopEnd` without it starves a sleeper. `DceSpec` assumes
that a sequential loop goes on (`WF` of `DceNext`), `BuildSession` that a
process does (`WF` of `Step(q)`); edits, the clock and crashes are owed by
nobody.

## 4. The proofs

Every theorem holds for any values of the constants that meet the named
assumptions of the modules, and any setting of the switches unless it names one.

**Goroutines** (`GoroutinesProofs`). The inductive invariant is
`Inv == TypeOK /\ NoLostRun /\ Shape /\ RunnableOnce /\ AwakeIsRunnable`.
`Shape` is what makes the rest inductive: a goroutine runs only inside
`$runScheduled`, a sleeper is live and asleep, one that has ended is asleep, and
one that crashed stays awake for ever (nobody counted it out).
`SchedulerInvariant` proves `Spec => []Inv`, one step for each action;
`TypeCorrect`, `QueueCorrect`, `NoWakeUpLost` and `RunTimerArmed` follow.
`AwakeCounted` and `TotalCounted` are inductive on top of `Inv`, with lemmas on
the cardinality of the set of awake goroutines; `TotalCounted` needs
`~ParksAfterGoexit` (section 5.2). The two directions of the deadlock report:
- `DeadlockReportIsTrue` assumes `HasProcess`: the report is made when the count
  reaches zero, `AwakeCounted` turns that into "nobody is awake, no timer is
  pending", and the process ends with it. Without a process the event loop goes
  on, and callbacks may wake goroutines afterwards.
- `DeadlocksAreReported` assumes `~CallbackReleases`. Its invariant says that
  whenever nothing can run again the report has been made: a deadlock begins
  only where a goroutine stops, which is where `$goroutine` looks. The argument
  is by the actions that could make a deadlock of what was none; `Release` in a
  callback is the one that can, and is excluded.

**Timers** (`TimersProofs`). `TimersInv` says that the host has one timer for
each timer that is active and not too far ahead, the one of `t.timeout`, and
none for the others (`Armed`), which is inductive only because no two timers
hold the id of one host timer (`OwnIds`): otherwise a `Stop` would clear the
timer of another. `ActiveTimersArmed` and `ImplementsRuntimeTimer`, the
refinement of `RuntimeTimer`, follow. `TimersRefineScheduler` shows that each
step of a program with timers is a step of `Goroutines` or leaves it alone; a
Reset is a stop followed by a start (`RestartTimer`). Hence
`SchedulerWithTimers` and `DeadlockReportWithTimers`: the theorems about the
scheduler hold with timers.

**Channels** (`ChannelsProofs`), for any number of goroutines, channels,
capacities, select statements and callbacks. Four invariants build on each
other:
- `ChanCore == SchedInv /\ ChanTypes /\ WaitInv /\ SelectInv`. `WaitInv`: a
  goroutine waits exactly while it sleeps, no queue holds two entries of it, it
  has one in the queue of each of its cases and in no other, and an entry is
  marked as one of a select exactly if its goroutine is in one. `SchedInv` is
  what remains of the scheduler's invariant where callbacks may block, for then
  `$noGoroutine` gets into `$scheduled`. `WaitersAreQueued` follows. What
  `removeFromQueues` does to a queue, the lemmas about `Thinner` say: entries
  leave, the order of the others stays.
- `FlowInv`: senders wait only on a full channel and receivers on an empty one,
  both only as one select (`Matched`); the values accepted and then those of the
  waiting senders are in the order of their sends (`Ordered`). Gives
  `SendsAreInOrder`.
- `CloseInv`: who waits on a closed channel is about to be told, or its `$close`
  was ended halfway (`torn`). With `FlowInv` it gives `NoMatchIsMissed`.
- `FramesInv`: no goroutine is switched out of an operation, and a value that is
  between a sender and the buffer is not overtaken by a close. With the others
  it gives `ImplementsPipe`.

`WokenAlwaysGoOn` proves `WokenGoOn` from `ChanCore` and `WokenInv`: who is
awake runs, is queued or was ended by an exception, and who was ended by one
had nothing to resume and is never queued again. What `ChanCore` has of the run
queue then says that a pass is on the stack or to come. No switch or bound is
needed: callbacks may leave entries of `$noGoroutine` behind, whose exceptions
end a pass and what called it.

They assume what keeps section 5.2 out: no select sends on a channel that the
program closes (`SelectSafe`); nothing is sent that is `undefined` in JavaScript
(`UndefinedSends = {}`); and a callback does not receive from a channel that is
closed (`CallbackRecvSafe`). Each theorem names those it needs.
`ChannelsRefineScheduler`: where no callback has to block (`MaxStale = 0`), each
step of a program with channels is a step of `Goroutines`: `$block` parks the
goroutine that runs, an entry that is called wakes one that sleeps. So the
theorems about the scheduler hold (`ChannelsDeadlocks`,
`ChannelsLoseNoWakeUp`).

**Semaphore and Cond** (`SyncProofs`).
`SemInv == SemTypeOK /\ AwokenHavePermits /\ NoIdlePermit /\ WaitersSleep /\ Plain`
is inductive together with `Inv`, which carries over by `SemRefinesScheduler`.
The heart of the argument: an awoken waiter leaves the line and enters `Awoken`
in one step, in which `semAwoken` goes up by one, and `TakePermit` is possible
only when `sem` exceeds `semAwoken`. From that follow `PermitsKept`,
`NoPermitIdle`, `LineSleeps`, `SemTypeCorrect` (also: `*s` never wraps below
zero) and `ImplementsHandoff`. With a `Cond` in the program the same holds
(`CondRefinesScheduler`, `CondKeepsPermits`, `CondNoPermitIdle`,
`CondImplementsHandoff`), because its lock is an ordinary user of the semaphore
and its own waiters are never in line for a permit.

`SignalsFindWaiters` and `BroadcastsReachAll` rest on one equation, `Counted`:
`n + Loops = Len(condWaiters) + Leaving`. `c.n` and the turns that the loops of
running Broadcasts have left (`Loops`) promise as many wake-ups as there are
goroutines that wait on the channel or have counted themselves and not parked
yet (`Leaving`). Those that a Broadcast found are among the first `Loops` of the
line: nobody who comes later is served before them. This assumes `HasProcess`:
where an exception of a goroutine that a callback's Broadcast woke only ends the
callback, the rest of its loop is lost, and with it those it has counted out.

**WaitGroup** (`WaitGroupProofs`). `WgInv` says: who is in line sleeps and waits
on `wg.ch` (`InLine`); `wg.ch` is closed exactly while one Add is between its
close and its reset (`Closer`); a positive counter has an open channel
(`Openness`). `WaitIsNotEarly` and `WaitIsNotStranded` follow, and
`WgRefinesScheduler`. They assume `~ReusesEarly` (section 5.2) and that an Add
of a callback, if there is one, is not cut off by an exception that the process
survives.

**DceSelector** (`AlgorithmProofs`). `SelectsNoDeadCode` holds because what is
selected or pending stays inside every closed set: a declaration is followed
only when all its filters are needed by declarations already chosen.
`SelectsAllThatLives` needs `Tracked` (`byFilter` and `filters` hold exactly
what the selected declarations have not yet found), `Pushed` (whoever has all
its filters found is pending or selected) and `Phases` (nothing is selected
before everything is included). Together: the result is the least closed set.

**CompileSession** (`CompileProofs`), for every well-typed program, any number
of packages and any order of their visits, on `CompileAssumption`. Four
invariants build on each other:
- `CollectInv`: what the code that was visited names is collected
  (`CodeScanned`, `InstancesScanned`, `NestedScanned`), and with an instance the
  types its argument is made of, its methods and the type it is a method of
  (`Complete`): `addInstance` adds a method with its type only, so a method that
  is called is collected because its receiver is named. An instance has closed
  arguments that type-check (`OnlyInstances`), because substituting closed types
  for T gives closed types. At the end of `Finish` all of it is processed, so
  that whatever the code of a known instance names is known (`KnownCallee`,
  `KnownMade`, `KnownMethod`, `KnownLinked`). `WhatIsCollected` states it.
- `AnalysisInv`: a call that was dropped from `callees` was seen to block, and
  when a whole round changed nothing no function is left that calls one that
  blocks without blocking itself (`Settled`). The callees of every function are
  functions the analysis knows: `PanicsNever`.
- `RunInv`: `EverBlocks`, the least set of instances that holds whatever has a
  blocking operation or calls one of it, holds all that blocks while the program
  runs (`RunBlocks`); every declaration of every archive knows of it
  (`DeclBlocks`). That set depends on the program alone, not on the root, so the
  archives of earlier roots keep it: `BlockingIsCompiled` is for all sessions.
- `SingleInv`: while a session builds one root, an archive is what would be
  compiled now (`Fresh`), and what is written is closed (`Chosen`): with a
  declaration, all that its dependencies name. Each reference and each use has
  its filters among the dependencies (`MentionedIsWritten`, `RunsNextWritten`),
  a method called through an interface by its type and, if it is not exported,
  its signature. So `RunnableIsWritten`, and with the numbers of instances being
  unique (`IdIs`), `ReferencesLead`.

The last two assume `OneRoot`, that no session builds two roots: with two,
`program_two_roots` finds `ReferencesResolve` violated, since `Fresh` is lost.
`PanicsNever` and `BlockingIsCompiled` do not. The theorems are about `Spec`;
`SessionHolds` carries them over to `StartSpec`, the specification of the run.

**ProgramStart** (`CompileProofs`). `StartsWithAll` proves `StartFindsAll` from
`StartInv`, which says for each stage what has been done:
- `OrderInv`: `order` holds each linked package once its imports are in it
  (`Ordered`), and all of them after `CollectDependencies`: a beginning of
  `order` is closed, so what a type refers to in an earlier package is there.
- `SetInv`: the packages that a pass has been over have what it sets. With
  `SingleInv`, each type and function that written code names is written, so the
  passes have set it by the time code runs (`LoadedIs`).
- `StackInv`: a frame is at the import of the one above it, steps that are not
  left are done, and a package on the stack is imported, through others or not,
  by all below it. Imports have no cycles, so a package whose `$init` has begun
  is at its end when another imports it (`BegunIsEnded`), and the empty function
  that its `$init` became leaves nothing out.
- `EndedInv`: a package whose `$init` came to its end has all its variables, and
  so have its imports.
- `CodeInv`: what a step has used lies in every set that contains it and is
  closed under `RunsNext`. So it lies in the packages imported (`WithinClosed`),
  and among the variables that `InitOrder` puts first (`VariableSet`).
- Nothing is lost when a step blocks: whatever may block was compiled to be
  resumed, from `RunInv`, and the frames below are at imports (`NothingLost`).

It assumes `OneRoot`, and `InitOrdered` of each program: the variables that the
initializer of a variable leads to, in its package, are initialized before it.
The type checker sorts them so for what an initializer names; the language does
not promise it for methods that are called through an interface, and such
programs are left out (`MCAssumption` checks the hypothesis on every program of
the run). `WellTyped` says of the programs what the type checker accepts, import
cycles and uses in a declaration without initializer excluded.

**BuildSession** (`BuildProofs`), for any number of processes, packages and
edits, on `BuildAssumption`. `BuildTypes` says also what a frame of
`LoadPackages` holds at each of its places. The turns of a process are first
sorted by what they do to its stack (`EveryTurn`), so that each invariant has a
step for each of eight kinds of turn, and one for the world.
- `EveryImportIsLoaded`: an import is loaded, loading, or still on the list of a
  frame (`Closed`), though files change between the listing and the parsing; when
  the stack is empty there is no other.
- `OnlyARaceIsStale`: `Times` keeps readings in order. What was read of a
  package, by a frame, in the cache or on its way there, is as new as what anyone
  else knows of it, or was read before that changed. An entry of the cache that
  is used though it is older was changed between being read and being stored.
- `SourcesAlwaysFit`: for a tree without import cycles (`Layered`, some rank of
  the packages by which imports go down), the sources of a session are those of
  its packages, tags and tests, whichever process stored them. The rank is
  needed for tests: a package is loaded with test files only as a root, and the
  proof shows that no import gets there first.

**Sequential code** (`AlgorithmProofs`). Of `Overlay`, about every overlay and
original file that compile on their own (`IsFile`): `ImportsKept`, a file
imports whatever its remaining declarations use and nothing else; `OthersStay`,
what no overlay names and no purge covers stays; `NamesDeclaredOnce`, no name is
declared twice in the merged package. Their hypotheses are what the build relies
on and does not check: the packages that a signature given by an overlay uses
are imported by the original file (`GivenSigs`); no declaration has the name
that another is kept under (`PrefixIsFree`), and two names are never kept under
one; the original has no function named `_`. Of `InstanceMap`: `SetUpdates`,
`DeleteRemoves` and `AddNumbers`. A map that is `WellFormed` (each key in the
bucket of its object and hash, no two identical keys, `len` the number of
entries) stays so and afterwards answers as it should for every key, provided
that identical types have equal hashes (`HashOfClass`); a set that is `Numbered`
stays so: an instance never changes its number.

Only model-checked:
- liveness, which is out of reach of TLAPS here: `EveryQueuedRuns`,
  `SleepersWake`, `Returns`, `ChangesAreBuilt`;
- what is computed by recursion over bodies, imports or heaps, on which the
  provers cannot do induction: `GoEquivalent` and `ParkedIsResumable`,
  `ValuesAgree`, `PointersAgree` and `NotShared`; their modules declare RECURSIVE
  operators;
- the assumptions of section 2.7 but those about overlays, maps and sets.

## 5. What was found

### 5.1 Findings of runs

Each is a counterexample TLC produces from what the code does. The statement it
contradicts is quoted in `PROJECT.json`.

1. `build/build.go:1212` (`program_two_roots`). A session keeps the archive of a
   package for all roots it builds, and collects the instances of generic code
   anew for each: the library that the first command compiled lacks the
   instances of the second, or has them under other numbers.
2. `compiler/prelude/prelude.js:495` (`values_append`). `$growSlice` copies
   references to the objects of structs and arrays: after an append that made a
   new array, a write to a field of an old element changes the new one too.

### 5.2 Known departures

Found while modelling and kept out of the passing runs by the switches, bounds
or cases named; where none is named, the case is outside of the models.

*Scheduler and channels.*
- A goroutine that blocks in a deferred call after `runtime.Goexit` is
  subtracted from `$totalGoroutines` each time it stops (`goroutines.js:146`,
  `ParksAfterGoexit`).
- Functions made by `js.MakeFunc` are unknown to the deadlock detector
  (`UsesMakeFunc`), a deadlock that arises when a callback releases the last
  function is not reported (`CallbackReleases`), and `Func.Release` called twice
  counts twice.
- `stopTimer` does not take back what `$setTimeout` added to `$awakeGoroutines`:
  after one `Timer.Stop` no deadlock is reported (`leaked`, `time.go:60`).
- A timer more than 2^31-1 ms ahead is never armed and does not count as awake
  (`far`, `time.go:43`): a program that waits only for it is reported as a
  deadlock. A ticker that falls behind catches up with ticks of 1 ms.
- `$close` calls the entries of waiting senders; that of a select throws in the
  goroutine that closes, and the waiters behind it stay (`goroutines.js:293`).
- An exception of a goroutine that a `$close` of a callback woke ends the loops
  of `$close` too (`goroutines.js:289`). In a browser the program goes on, and
  the waiters that were not reached stay on a closed channel (`torn`). A
  Broadcast and an Add of a callback lose the rest in the same way.
- The deadlock report may come while a callback is on the stack that could still
  wake somebody, when the function through which it was entered was the last and
  was released meanwhile (`goroutines.js:152`).
- `$recv` calls the waiting sender before it puts that sender's value on the
  buffer; in a callback the goroutines this wakes overtake it
  (`goroutines.js:263`). In the same way a receiver that a `$close` of a
  callback woke may take the value of the next waiting sender.
- A close of a nil channel marks the shared `$chanNil` closed (`Closable`), a
  buffered `undefined` of a `chan *js.Object` is lost (`UndefinedSends`), a
  callback that blocks leaves its entry behind (`MaxStale`), and a value handed
  to that is lost.
- `WaitGroup.Add` closes `wg.ch` before it clears it: in a callback a woken
  goroutine can begin a new use in between (`waitgroup.go:22`, `ReusesEarly`).
- `Cond.Wait` counts itself before it unlocks: with a Locker whose Unlock
  blocks, a Signal in between blocks until the waiter arrives (`cond.go:22`).
- `nosync.RWMutex.RLock` lets several readers in, as Go's does; its comment says
  that it panics when the lock is held for reading (`mutex.go:56`).
- `atomic.Value.CompareAndSwap(nil, x)` panics on a Value that holds one of the
  type of x; in Go it returns false (`atomic.go:191`).

*Integers.*
- `-x` of the least value of a signed type is not wrapped (`expressions.go:301`),
  nor is the quotient of the least `int8` or `int16` by -1 (`expressions.go:401`).
- A shift of a signed value to the right by a constant of 32 or more is 0, also
  of a negative value (`expressions.go:417`). Negative shift counts do not panic.

*Panics and generated code* (programs that `departs` in `JsFrames` marks, and
`Zeroed`).
- An unnamed result is lost when a deferred call that waited recovers
  (`functions.go:314`).
- `$callDeferred` leaves out the remaining deferred calls when the recover was
  in one that had parked (`goroutines.js:73`).
- A panic of a deferred call that replaced another and is recovered: the first
  is raised again.
- `Goexit` below the function of the goroutine is stopped by a function with
  deferred calls.
- The proxy of a method with a value receiver adds a JavaScript frame, so that
  `recover` called through it may return nil.

*Values* (`Departures`).
- Boxing an addressable struct or array does not clone it
  (`expressions.go:1308`); range over an array does not copy it
  (`statements.go:192`); a returned struct is not cloned before deferred calls
  run (`statements.go:785`); a method with a value receiver works on the boxed
  object when called through an interface (`functions.go:261`).
- `i, a[i] = j, x` takes the index after `i` was set (`statements.go:409`);
  `&l[i]` of integers is not checked (`expressions.go:267`).
- `$convertSliceType` widens the capacity of a slice made by `a[i:j:k]`
  (`prelude.js:239`); a slice converted to an array ignores its offset
  (`types.js:158`), to a pointer to an array works for whole arrays only
  (`prelude.js:207`).
- `reflect`: copies of structs are shallow (`reflect.go:340`), `Index` of an
  array allows its length (`reflect.go:1393`), arrays are not cloned into maps,
  structs not on sends.
- `$assertType` and `$methodSet` remember by the name of a type (`types.js:732`,
  `430`); `$methodSet` knows neither ambiguity nor the package of a lower-case
  name (`types.js:459`); `$equal` compares blank fields.

*Compiler.*
- `decls.go:474`: every named type is stored as `$pkg.<Name>`, local ones too,
  where one may replace a type of the package. `utils.go:431`: other packages
  refer to a name as written, which is stored encoded: they do not find one that
  is not ASCII.
- `decls.go:226`: a variable with an initializer has no zero value before it
  runs; an initializer that depends on it in a way Go does not see reads
  `undefined`. The same holds for a function linked against the direction of
  imports. An initializer that would panic is eliminated if it calls nothing.
- `decls.go:338`: a method named `main` after `func main` becomes the entry
  point.
- `sourcemapx/filter.go:178` looks for line 0 where lines are counted from 1: in a
  minified `.inc.js` file that does not start a line, the columns of its first
  line are off. `normalizePath` takes `/gopath2/src` for a file of `/gopath`.
- Names of pointers to variables (`x$ptr`) are kept per package and declared per
  function: a second instance of a generic function uses the name of the first
  without declaring it.
- Numbers of instances depend on the order of a map: the output is not
  reproducible.

*Build.*
- `tool.go:211`, `build.go:1032`: the watch on a package that cannot be imported
  is not added: creating it later starts no build.
- `build.go:1167`: sources are stored with the time after parsing
  (`StaleOnlyByRace` says exactly when a later build misses a change). `.inc.js`
  files are read before the watch is added.
- `cache.go:244`: the checksum at the end of an entry is never compared.
  Embedded files count neither for the modification time nor for the watch.
- `compiler.go:138`: an error of the linknames is dropped. `tool.go:731`:
  concurrent requests of `serve` write one map. Packages that import each other
  make `LoadPackages` recurse for ever.

*Overlays.*
- Removing a constant of an `iota` group shifts those after it (`build.go:455`);
  a `//go:linkname` in a comment of its own is lost when anything of the file
  was replaced (`build.go:543`); a blank declaration in an overlay removes all
  of the originals; `keep-original` with `override-signature` leaves the name
  undeclared.

## 6. What is not modelled

- *Naming, printing and input*: the names of variables and types in JavaScript,
  printing, flags, build contexts and embedding, test mains, overlays of single
  sequential functions.
- *Pure functions on rich structures*, which a small instance does not
  represent: strings and UTF-8, floating point and complex numbers, type
  identity and method sets by name, `$equal`, conversion of data values between
  Go and JavaScript, `reflect` of types and calls, `reflectlite`, `BoolValue`.
- *The network and system calls*: one request is a select on two channels that
  callbacks send on, one `fsCall` a buffered channel and a released function.
  Their parts are modelled, the composition is not.
- *Inside modelled parts*: blocks in braces, `go` statements, expressions that
  cannot block; the text of declarations and filters; `$synthesizeMethods`,
  which the start of a program calls after the setup of types; the parsing of
  directives; the bytes of cache entries; the VLQ encoding of source maps; the
  HTTP server.

What would come next: method sets with embedded fields against the rules of the
language; the composition of `fsCall`; the code of blocking functions with
recursive functions instead of RECURSIVE operators, so that something of
`ParkedIsResumable` can be proved.
