---------------------------- MODULE BuildSession ----------------------------
(***************************************************************************)
(* Build sessions of the command line tool (tool.go, build/build.go) over  *)
(* a source tree that is edited while they run, and the build cache they   *)
(* share (build/cache/cache.go).  A process loads the packages of its      *)
(* roots depth first: it imports a package (lists the directory and reads  *)
(* the import clauses and the .inc.js files), watches the directory, loads *)
(* what the package imports, and then takes the sources from the cache or  *)
(* parses the files and stores them.  With -w it waits for a change after  *)
(* every build and starts over with a new session.                         *)
(*                                                                         *)
(* A file is a version number; what a version of the Go files of a package *)
(* imports, and whether it can be parsed, are constants.  NewSession sets  *)
(* disableDefaultCache, so that the tool itself runs without the cache;    *)
(* both cases are modelled.                                                *)
(***************************************************************************)
EXTENDS Naturals, SequencesExt

CONSTANTS
    Process,     \* processes of the tool
    Package,     \* the packages of the source tree
    Runtime,     \* package runtime, which every project imports
    TestMain,    \* the generated main package of a test
    None,        \* no file, no output
    Version,     \* versions of the Go files, 0 for none
    GoImports,   \* [Package \X Version -> set of packages]
    Overlay,     \* packages that the overlay of a package imports
    Broken,      \* <<package, version>> that do not parse
    Scenarios,   \* the commands and trees to consider
    MaxTime,     \* bound on the clock
    MaxSessions  \* bound on the commands a process runs, without -w

(* What is on disk for a package: the version of its Go files, the number  *)
(* of its .inc.js files, and when they were changed.                       *)
FilesOnDisk == [go : Version, goTime : Nat, js : Nat, jsTime : Nat]

(* The generated main package has no overlay, and no file of the trees is  *)
(* from the future.                                                        *)
ASSUME BuildAssumption ==
    /\ Runtime \in Package /\ TestMain \in Package /\ 0 \in Version
    /\ GoImports \in [Package \X Version -> SUBSET Package]
    /\ Overlay \in [Package -> SUBSET Package] /\ Overlay[TestMain] = {}
    /\ MaxTime \in Nat /\ MaxSessions \in Nat
    /\ \A c \in Scenarios :
         /\ c.roots \in [Process -> Seq(Package)]
         /\ c.tested \in [Process -> SUBSET Package]
         /\ c.disk \in [Package -> FilesOnDisk]
         /\ \A p \in Package : c.disk[p].goTime <= 1 /\ c.disk[p].jsTime <= 1

(* No import cycles: a package imports packages of lower rank, package     *)
(* runtime has the lowest, and the packages to test are roots in order, so *)
(* that one that imports another comes after it (loadTestPackage).  Neither*)
(* the runtime nor the generated main package is tested.                   *)
Layered(rank) ==
    /\ \A p \in Package, v \in Version :
         \A i \in GoImports[<<p, v>>] \cup Overlay[p] : rank[i] < rank[p]
    /\ \A p \in Package : rank[Runtime] <= rank[p]
    /\ \A c \in Scenarios : \A q \in Process :
         /\ Runtime \notin c.tested[q] /\ TestMain \notin c.tested[q]
         /\ \A n \in DOMAIN c.roots[q] : \A t \in c.tested[q] :
              rank[t] < rank[c.roots[q][n]] => \E m \in 1 .. n - 1 : c.roots[q][m] = t

VARIABLES
    conf,      \* the scenario: who runs what, with the cache or not
    disk,      \* the source tree: [go, goTime, js, jsTime] per package
    clock,     \* the time of day
    edits,     \* edits that are still to come
    cacheDir,  \* the files under cacheRoot by their key
    proc       \* the session of each process

vars == <<conf, disk, clock, edits, cacheDir, proc>>

Later(a, b) == IF a > b THEN a ELSE b
ImportsOf(p, v) == GoImports[<<p, v>>]

(* f with f[k] = v.                                                        *)
Put(f, k, v) == [x \in DOMAIN f \cup {k} |-> IF x = k THEN v ELSE f[x]]

(* What the augmented files of a package import: its own imports and those *)
(* of its overlay.                                                         *)
FileImports(src) == ImportsOf(src.p, src.go) \cup Overlay[src.p]

(* Mutant of UnresolvedImports: what the package was listed to import is   *)
(* taken for all that its files import.                                    *)
UnresolvedImportsListed(src, skip) == {}

(* UnresolvedImports: the imports of the files that are not skipped.       *)
UnresolvedImports(src, skip) == FileImports(src) \ skip

-----------------------------------------------------------------------------
(* The cache.                                                              *)

(* packageKey, commonKey.                                                  *)
PackageKey(q, p) == <<conf.tags[q], p>>

(* isTestPackage.                                                          *)
IsTestPackage(q, p) == p \in conf.tested[q]

(* Mutant of OutOfDate: whatever is stored is taken.                       *)
OutOfDateNever(file, srcModTime) == FALSE

(* deserialize: the stored build time against the sources' time.           *)
OutOfDate(file, srcModTime) == srcModTime > file.time

-----------------------------------------------------------------------------
(* Sessions.                                                               *)

(* A call of loadImportPathWithSrcDir and LoadPackages for one package: at *)
(* is what comes next, todo the imports still to load, in any order, and   *)
(* listed the Imports of the PackageData, mod its SrcModTime so far.       *)
Frame(q, p, at, test) ==
    [p |-> p, at |-> at, test |-> test,
     todo |-> ImportsOf(p, disk[p].go), listed |-> ImportsOf(p, disk[p].go),
     mod |-> 0, js |-> disk[p].js, jsTime |-> disk[p].jsTime, jsRead |-> clock,
     disk |-> None, file |-> None, src |-> None]

(* NewSession, and the part of the command before it builds.               *)
NewSession(q) ==
    [step |-> "import", roots |-> conf.roots[q], stack |-> <<>>,
     packages |-> <<>>, sources |-> <<>>, watched |-> {}, event |-> FALSE,
     output |-> proc[q].output, left |-> proc[q].left]

Idle(q) ==
    [step |-> "idle", roots |-> <<>>, stack |-> <<>>,
     packages |-> <<>>, sources |-> <<>>, watched |-> {}, event |-> FALSE,
     output |-> None, left |-> MaxSessions]

Watching(q) == q \in conf.watch
Top(q) == Head(proc[q].stack)
Set(q, s) == proc' = [proc EXCEPT ![q] = s]
WithTop(s, f) == [s EXCEPT !.stack = <<f>> \o Tail(@)]

(* A build that fails: with -w the tool reports the error and waits for    *)
(* the next change.                                                        *)
Ended(q, s) == [s EXCEPT !.step = IF Watching(q) THEN "wait" ELSE "idle", !.stack = <<>>]

(* LoadPackages returns: the caller goes on with its next import, and      *)
(* takes the modification time while it loads what it was listed to        *)
(* import.                                                                 *)
Return(q, s, mod) ==
    LET f == Head(s.stack)
        packages == IF f.p \in DOMAIN s.packages THEN [s.packages EXCEPT ![f.p] = mod]
                    ELSE s.packages
        rest == Tail(s.stack)
        caller == Head(rest)
    IN  [s EXCEPT !.packages = packages,
                  !.stack = IF rest = <<>> THEN rest
                            ELSE <<[caller EXCEPT !.todo = @ \ {f.p},
                                        !.mod = IF caller.at = "deps" THEN Later(@, mod) ELSE @]>>
                                 \o Tail(rest)]

(* The sources of the package on top are there: keep them, and load what   *)
(* the parsed files import beyond the list.                                *)
Keep(s, src) ==
    LET f == Head(s.stack)
    IN  [WithTop(s, [f EXCEPT !.at = "unresolved", !.todo = UnresolvedImports(src, f.listed)])
            EXCEPT !.sources = Put(@, f.p, src)]

(* The sources parseAndAugment makes of the files as they are now.  The    *)
(* last six fields are history: the times of the files and when they were  *)
(* read and, for sources of the cache, the time they were stored and the   *)
(* files the session compared it with.                                     *)
Parsed(q, f) ==
    [p |-> f.p, go |-> disk[f.p].go, js |-> f.js, tags |-> conf.tags[q], test |-> f.test,
     goTime |-> disk[f.p].goTime, read |-> clock, jsTime |-> f.jsTime, jsRead |-> f.jsRead,
     from |-> None, disk |-> None]

-----------------------------------------------------------------------------
(* Actions of a process.                                                   *)

(* The command starts; build -w watches the directory of its package       *)
(* before it reads it, and the watch outlasts errors.                      *)
Start(q) ==
    /\ proc[q].step = "idle" /\ proc[q].left > 0
    /\ Set(q, [NewSession(q) EXCEPT !.left = @ - 1,
                                    !.watched = IF Watching(q) THEN ToSet(conf.roots[q]) ELSE {}])
    /\ UNCHANGED <<conf, disk, clock, edits, cacheDir>>

(* xctx.Import of a root and BuildProject, which adds the runtime to its   *)
(* imports; a test (loadTestPackage) loads the package with its tests and  *)
(* then the external test package as roots.                                *)
ImportRoot(q) ==
    /\ proc[q].step = "import" /\ proc[q].stack = <<>>
    /\ proc[q].roots # <<>> /\ Head(proc[q].roots) # TestMain
    /\ LET p == Head(proc[q].roots)
           s == [proc[q] EXCEPT !.roots = Tail(@)]
           f == Frame(q, p, "deps", IsTestPackage(q, p))
       IN  Set(q, IF disk[p].go = 0 THEN Ended(q, s)
                  ELSE [s EXCEPT !.stack = <<[f EXCEPT !.todo = @ \cup {Runtime},
                                                       !.listed = @ \cup {Runtime}]>>])
    /\ UNCHANGED <<conf, disk, clock, edits, cacheDir>>

(* The end of loadTestPackage: the generated main package has no files and *)
(* is never cached; what it imports is loaded unless it is loaded already. *)
LoadTestMain(q) ==
    /\ proc[q].step = "import" /\ proc[q].stack = <<>>
    /\ proc[q].roots # <<>> /\ Head(proc[q].roots) = TestMain
    /\ LET f == Frame(q, TestMain, "unresolved", FALSE)
       IN  Set(q, [proc[q] EXCEPT !.roots = Tail(@), !.stack = <<f>>,
                                  !.sources = Put(@, TestMain, Parsed(q, f))])
    /\ UNCHANGED <<conf, disk, clock, edits, cacheDir>>

(* loadImportPathWithSrcDir: a package that the session knows is loaded    *)
(* already; any other is imported now and watched in a step of its own.    *)
(* Import returns no package with an error, so that a directory that       *)
(* cannot be imported is not watched.                                      *)
LoadImport(q) ==
    /\ proc[q].stack # <<>>
    /\ Top(q).at \in {"deps", "unresolved"}
    /\ \E i \in Top(q).todo :
       LET f == Top(q)  s == proc[q]
       IN  Set(q, IF i \in DOMAIN s.packages
                  THEN WithTop(s, [f EXCEPT !.todo = @ \ {i},
                               !.mod = IF f.at = "deps" THEN Later(@, s.packages[i]) ELSE @])
                  ELSE IF disk[i].go = 0 THEN Ended(q, s)
                  ELSE [s EXCEPT !.stack = <<Frame(q, i, "watch", FALSE)>> \o @])
    /\ UNCHANGED <<conf, disk, clock, edits, cacheDir>>

(* Mutant of AddWatch: only the directories of the roots are watched.      *)
AddWatchRoots(q) ==
    /\ proc[q].stack # <<>> /\ Top(q).at = "watch"
    /\ LET f == Top(q)
           s == [proc[q] EXCEPT !.packages = Put(@, f.p, 0)]
       IN  Set(q, IF f.p \in DOMAIN s.sources THEN Return(q, s, 0)
                  ELSE WithTop(s, [f EXCEPT !.at = "deps"]))
    /\ UNCHANGED <<conf, disk, clock, edits, cacheDir>>

(* s.Watcher.Add and the entry of LoadPackages.                            *)
AddWatch(q) ==
    /\ proc[q].stack # <<>> /\ Top(q).at = "watch"
    /\ LET f == Top(q)
           s == [proc[q] EXCEPT !.watched = IF Watching(q) THEN @ \cup {f.p} ELSE @,
                                !.packages = Put(@, f.p, 0)]
       IN  Set(q, IF f.p \in DOMAIN s.sources THEN Return(q, s, 0)
                  ELSE WithTop(s, [f EXCEPT !.at = "deps"]))
    /\ UNCHANGED <<conf, disk, clock, edits, cacheDir>>

(* FileModTime, once the imports are loaded.                               *)
ReadModTime(q) ==
    /\ proc[q].stack # <<>> /\ Top(q).at = "deps" /\ Top(q).todo = {}
    /\ LET f == Top(q)
       IN  Set(q, WithTop(proc[q],
                    [f EXCEPT !.mod = Later(@, Later(f.jsTime, disk[f.p].goTime)),
                              !.disk = [disk[f.p] EXCEPT !.js = f.js, !.jsTime = f.jsTime],
                              !.at = IF conf.cached THEN "open" ELSE "parse"]))
    /\ UNCHANGED <<conf, disk, clock, edits, cacheDir>>

(* Mutant of CacheOpen: the package under test is read as well.            *)
CacheOpenTested(q) ==
    /\ proc[q].stack # <<>> /\ Top(q).at = "open"
    /\ LET f == Top(q)  key == PackageKey(q, f.p)
       IN  Set(q, WithTop(proc[q],
                    IF key \notin DOMAIN cacheDir THEN [f EXCEPT !.at = "parse"]
                    ELSE [f EXCEPT !.at = "read", !.file = cacheDir[key]]))
    /\ UNCHANGED <<conf, disk, clock, edits, cacheDir>>

(* BuildCache.Load as far as os.Open: the open file stays what it was when *)
(* another process renames its own to the path or clears the cache.        *)
CacheOpen(q) ==
    /\ proc[q].stack # <<>> /\ Top(q).at = "open"
    /\ LET f == Top(q)  key == PackageKey(q, f.p)
       IN  Set(q, WithTop(proc[q],
                    IF IsTestPackage(q, f.p) \/ key \notin DOMAIN cacheDir
                    THEN [f EXCEPT !.at = "parse"]
                    ELSE [f EXCEPT !.at = "read", !.file = cacheDir[key]]))
    /\ UNCHANGED <<conf, disk, clock, edits, cacheDir>>

(* deserialize: what is older than a source is a miss.                     *)
CacheRead(q) ==
    /\ proc[q].stack # <<>> /\ Top(q).at = "read"
    /\ LET f == Top(q)
       IN  Set(q, IF OutOfDate(f.file, f.mod)
                  THEN WithTop(proc[q], [f EXCEPT !.at = "parse"])
                  ELSE Keep(proc[q], [f.file.src EXCEPT !.from = f.file.time, !.disk = f.disk]))
    /\ UNCHANGED <<conf, disk, clock, edits, cacheDir>>

(* parseAndAugment, embedFiles.                                            *)
Parse(q) ==
    /\ proc[q].stack # <<>> /\ Top(q).at = "parse"
    /\ LET f == Top(q)  src == Parsed(q, f)
       IN  Set(q, IF <<f.p, src.go>> \in Broken THEN Ended(q, proc[q])
                  ELSE IF conf.cached
                  THEN WithTop(proc[q], [f EXCEPT !.at = "store", !.src = src])
                  ELSE Keep(proc[q], src))
    /\ UNCHANGED <<conf, disk, clock, edits, cacheDir>>

(* BuildCache.Store as far as the temporary file, which nobody else opens: *)
(* the time is that of the call, after the files were parsed.              *)
StoreTemp(q) ==
    /\ proc[q].stack # <<>> /\ Top(q).at = "store"
    /\ LET f == Top(q)
       IN  Set(q, IF IsTestPackage(q, f.p) THEN Keep(proc[q], f.src)
                  ELSE WithTop(proc[q], [f EXCEPT !.at = "rename",
                                                  !.file = [src |-> f.src, time |-> clock]]))
    /\ UNCHANGED <<conf, disk, clock, edits, cacheDir>>

(* os.Rename, which replaces what another process has stored; it, or the   *)
(* writing before it, may fail, and then nothing is stored.                *)
StoreRename(q) ==
    /\ proc[q].stack # <<>> /\ Top(q).at = "rename"
    /\ LET f == Top(q)
       IN  /\ Set(q, Keep(proc[q], f.src))
           /\ \/ cacheDir' = Put(cacheDir, PackageKey(q, f.p), f.file)
              \/ cacheDir' = cacheDir
    /\ UNCHANGED <<conf, disk, clock, edits>>

(* All imports of the package are loaded.                                  *)
Loaded(q) ==
    /\ proc[q].stack # <<>> /\ Top(q).at = "unresolved" /\ Top(q).todo = {}
    /\ Set(q, Return(q, proc[q], Top(q).mod))
    /\ UNCHANGED <<conf, disk, clock, edits, cacheDir>>

(* SourcesForImport finds the sources of every import.                     *)
Resolved(sources) == \A p \in DOMAIN sources :
    FileImports(sources[p]) \subseteq DOMAIN sources

(* The program made of the loaded sources replaces the one written before. *)
WriteCommandPackage(q, s) == [Ended(q, s) EXCEPT !.output = s.sources]

(* prepareAndCompilePackages and WriteCommandPackage, then the end of the  *)
(* command or WaitForChange, which forgets what was loaded.                *)
CompileAndWrite(q) ==
    /\ proc[q].step = "import" /\ proc[q].stack = <<>> /\ proc[q].roots = <<>>
    /\ Set(q, IF Resolved(proc[q].sources)
              THEN WriteCommandPackage(q, proc[q])
              ELSE Ended(q, proc[q]))
    /\ UNCHANGED <<conf, disk, clock, edits, cacheDir>>

(* WaitForChange gets an event, closes the watcher, and the loop of the    *)
(* command makes a new session.                                            *)
WaitForChange(q) ==
    /\ proc[q].step = "wait" /\ proc[q].event
    /\ Set(q, [NewSession(q) EXCEPT !.watched = ToSet(conf.roots[q])])
    /\ UNCHANGED <<conf, disk, clock, edits, cacheDir>>

(* The process is killed in the middle.                                    *)
Crash(q) ==
    /\ conf.crashes /\ proc[q].step # "idle"
    /\ Set(q, [Idle(q) EXCEPT !.left = proc[q].left])
    /\ UNCHANGED <<conf, disk, clock, edits, cacheDir>>

-----------------------------------------------------------------------------
(* The world around the processes.                                         *)

(* A file changes; fsnotify tells those who watch the directory.           *)
Notify(p) == proc' = [q \in Process |->
    IF p \in proc[q].watched THEN [proc[q] EXCEPT !.event = TRUE] ELSE proc[q]]

EditGo(p, v) ==
    /\ edits > 0 /\ edits' = edits - 1
    /\ p \in conf.edited /\ disk[p].go # 0 /\ v \notin {0, disk[p].go}
    /\ disk' = [disk EXCEPT ![p].go = v, ![p].goTime = clock]
    /\ Notify(p)
    /\ UNCHANGED <<conf, clock, cacheDir>>

EditJs(p) ==
    /\ edits > 0 /\ edits' = edits - 1 /\ conf.cached /\ p \in conf.edited
    /\ disk' = [disk EXCEPT ![p].js = @ + 1, ![p].jsTime = clock]
    /\ Notify(p)
    /\ UNCHANGED <<conf, clock, cacheDir>>

Tick ==
    /\ clock < MaxTime /\ conf.cached
    /\ clock' = clock + 1
    /\ UNCHANGED <<conf, disk, edits, cacheDir, proc>>

(* gopherjs clean.                                                         *)
Clear ==
    /\ conf.crashes /\ DOMAIN cacheDir # {}
    /\ cacheDir' = <<>>
    /\ UNCHANGED <<conf, disk, clock, edits, proc>>

-----------------------------------------------------------------------------
Init ==
    /\ conf \in Scenarios
    /\ disk = conf.disk /\ edits = conf.edits
    /\ clock = 1 /\ cacheDir = <<>>
    /\ proc = [q \in Process |-> [Idle(q) EXCEPT !.left = IF q \in conf.procs THEN @ ELSE 0]]

Step(q) == Start(q) \/ ImportRoot(q) \/ LoadTestMain(q) \/ LoadImport(q) \/ AddWatch(q) \/ ReadModTime(q)
    \/ CacheOpen(q) \/ CacheRead(q) \/ Parse(q) \/ StoreTemp(q) \/ StoreRename(q)
    \/ Loaded(q) \/ CompileAndWrite(q) \/ WaitForChange(q)

World == (\E p \in Package : EditJs(p) \/ \E v \in Version : EditGo(p, v)) \/ Tick \/ Clear

Next == (\E q \in Process : Step(q) \/ Crash(q)) \/ World

(* A process of the operating system goes on; edits need not come.         *)
Spec == Init /\ [][Next]_vars /\ \A q \in Process : WF_vars(Step(q))

-----------------------------------------------------------------------------
(* Properties.                                                             *)

(* The sources a session uses were made for it, whichever process stored   *)
(* them: for this package, with these build tags, and with test files only *)
(* if it tests the package (BuildCache.packageKey, isTestPackage).         *)
SourcesFit == \A q \in Process : \A p \in DOMAIN proc[q].sources :
    LET src == proc[q].sources[p]
    IN  src.p = p /\ src.tags = conf.tags[q] /\ src.test = (p \in conf.tested[q])

(* Sources of the cache are older than the files they stand for only if    *)
(* the file was changed between being read and being stored: the build     *)
(* time is taken after parsing (LoadPackages), so that this window, and no *)
(* other, makes a later build miss a change.  The times of a Go file tell  *)
(* which of two versions is older, .inc.js files are numbered.             *)
StaleOnlyByRace == \A q \in Process : \A p \in DOMAIN proc[q].sources :
    LET src == proc[q].sources[p]
    IN  src.from # None =>
          /\ \/ src.disk.goTime <= src.goTime
             \/ src.read <= src.disk.goTime /\ src.disk.goTime <= src.from
          /\ \/ src.js >= src.disk.js
             \/ src.jsRead <= src.disk.jsTime /\ src.disk.jsTime <= src.from

(* When everything is loaded the sources are closed under import, although *)
(* files change between the listing of a package and its parsing: the      *)
(* imports that only the parsed files have are loaded too, and             *)
(* SourcesForImport never fails.                                           *)
SourcesClosed == \A q \in Process :
    proc[q].step = "import" /\ proc[q].stack = <<>> /\ proc[q].roots = <<>>
        => Resolved(proc[q].sources)

(* The packages the tree on disk needs for a root.                         *)
ClosedOnDisk(S) == \A p \in S : ImportsOf(p, disk[p].go) \cup Overlay[p] \subseteq S
Reach(S) == {p \in Package : \A T \in SUBSET Package : S \subseteq T /\ ClosedOnDisk(T) => p \in T}
Buildable(q) == \A p \in Reach(ToSet(conf.roots[q])) :
    disk[p].go # 0 /\ <<p, disk[p].go>> \notin Broken
UpToDate(q) ==
    /\ proc[q].output # None
    /\ \A p \in Reach(ToSet(conf.roots[q])) :
           p \in DOMAIN proc[q].output /\ proc[q].output[p].go = disk[p].go

(* With -w and without the cache, what was written last is in the end made *)
(* of the Go files as they were edited last, whenever the edits come: also *)
(* between Import and Watcher.Add, while a build runs, after one failed.   *)
ChangesAreBuilt == \A q \in Process :
    <>[](Watching(q) /\ ~conf.cached /\ Buildable(q) => UpToDate(q))
=============================================================================
