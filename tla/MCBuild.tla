------------------------------- MODULE MCBuild -------------------------------
(* A command that imports lib and in its second version only ext; lib's    *)
(* overlay needs ext; an external test that imports the package under      *)
(* test, ext, through lib.                                                 *)
EXTENDS BuildSession

CONSTANTS main, lib, ext, rt, xt, testmain, p1, p2

MCProcess == {p1, p2}
MCPackage == {main, lib, ext, rt, xt, testmain}
MCVersion == 0 .. 2

MCGoImports == [k \in MCPackage \X MCVersion |->
    CASE k = <<main, 1>> -> {lib}
      [] k = <<main, 2>> -> {ext}
      [] k = <<lib, 2>>  -> {ext}
      [] k[1] = xt       -> {lib}
      [] k[1] = testmain -> {ext}
      [] OTHER           -> {}]

(* The overlay of lib needs ext; the tree may have a broken version.       *)
MCOverlay(p) == IF p = lib THEN {ext} ELSE {}
MCOverlays == [p \in MCPackage |-> MCOverlay(p)]
MCBroken == {<<ext, 2>>}

Tree(missing) == [p \in MCPackage |->
    [go |-> IF p \in missing THEN 0 ELSE 1, goTime |-> 0, js |-> 0, jsTime |-> 0]]

Same(x) == [q \in MCProcess |-> x]

(* build -w of main while its files and those of lib and ext change.       *)
Watch == [procs |-> {p1}, watch |-> {p1}, cached |-> FALSE, crashes |-> FALSE,
          edited |-> {main, lib, ext}, roots |-> Same(<<main>>), tags |-> Same("default"),
          tested |-> Same({}), edits |-> 4, disk |-> Tree({})]

(* The same where there is no lib: main builds in its second version only. *)
WatchMissing == [Watch EXCEPT !.edited = {main, ext}, !.disk = Tree({lib})]

(* Two commands that build one package with the cache, while it is edited  *)
(* twice, or they may be killed and the cache cleared.                     *)
Cached == [procs |-> MCProcess, watch |-> {}, cached |-> TRUE, crashes |-> FALSE,
           edited |-> {ext}, roots |-> Same(<<ext>>), tags |-> Same("default"),
           tested |-> Same({}), edits |-> 2, disk |-> Tree({})]
CachedCrash == [Cached EXCEPT !.crashes = TRUE, !.edits = 0]

(* One builds and one tests it, or they build with different tags.         *)
CachedTags == [CachedCrash EXCEPT !.tags = (p1 :> "default") @@ (p2 :> "tagged")]
CachedTest == [Cached EXCEPT !.roots = (p1 :> <<ext>>) @@ (p2 :> <<ext, xt, testmain>>),
                  !.tested = (p1 :> {}) @@ (p2 :> {ext, xt}), !.edits = 0, !.crashes = FALSE]

MCScenarios == {Watch, WatchMissing, Cached, CachedCrash, CachedTags, CachedTest}

(* The trees have no import cycles.                                        *)
MCRank == [p \in MCPackage |->
    CASE p = rt -> 0 [] p = ext -> 1 [] p = lib -> 2 [] p = xt -> 3 [] OTHER -> 4]

ASSUME TreesAreLayered == Layered(MCRank)
=============================================================================
