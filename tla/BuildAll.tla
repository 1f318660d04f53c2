------------------------------ MODULE BuildAll ------------------------------
(***************************************************************************)
(* The build pipeline of libatron: build_all.sh, which clones profanOS,    *)
(* grafts the sources of lib/, rsc/ and cmd/ on it, runs the recipes of    *)
(* bil/ (one after the other, or all at once in "fast" mode) and collects  *)
(* the products in build/; and the recipes themselves, bil/*/build.sh, run *)
(* by `bash -e`, some of which compile with background jobs and a `wait`.  *)
(*                                                                         *)
(* Every foreground command of a recipe may fail (network, compiler,       *)
(* disk), and so may the commands of the script, the copies that nothing   *)
(* checks included; the script may be run again after it stopped, over     *)
(* whatever the failed run left behind.                                    *)
(***************************************************************************)
EXTENDS Naturals, FiniteSets

CONSTANTS
  Early,        \* bil/_*: the libraries other recipes link with
  Late,         \* every other directory of bil/
  Libs,         \* lib/lib*
  Commands,     \* cmd/*
  Fanout,       \* recipes that compile with `cc ... &` and `wait`
  Foreground,   \* of these: a foreground compile comes before the `wait`
  Clears,       \* of these: remove the old objects before they compile
  NeedsEarly,   \* recipes that link with -lm
  Synced,       \* recipes that add a command to profanOS and to tocp.txt
  Clones,       \* recipes that `git clone` into a directory of bil/
  Keeps,        \* recipes that unpack an archive an earlier run left there
  Asks,         \* recipes that unpack over a tree an earlier run left there
  Units,        \* the source files a fan-out recipe compiles
  Needs,        \* Needs[c]: those whose object the link of c fails without
  MaxRuns       \* bound: how many times the script is run

Components == Early \cup Late
Headers    == "profanOS_headers.tar.gz"
Products   == Components \cup Libs \cup Commands \cup {Headers}

ASSUME ConstantsOK ==
  /\ Early \cap Late = {} /\ Components \cap (Libs \cup Commands) = {}
  /\ Libs \cap Commands = {}
  /\ Fanout \subseteq Components /\ Synced \subseteq Late
  /\ Foreground \subseteq Fanout /\ Clears \subseteq Fanout
  /\ NeedsEarly \subseteq Late
  /\ Clones \subseteq Late /\ Keeps \subseteq Late /\ Asks \subseteq Late
  /\ Clones \cap (Keeps \cup Asks) = {}
  /\ Synced \cap Fanout = {}
  /\ Needs \in [Fanout -> SUBSET Units]
  /\ MaxRuns \in Nat

VARIABLES
  pc,       \* where build_all.sh is
  fast,     \* the script was given the argument "fast"
  todo,     \* what the loop at pc has still to go through
  errexit,  \* `set -euo pipefail` has been executed
  fail,     \* the variable fail of the script
  status,   \* "none" while the script runs, then "ok" or "error"
  recipe,   \* recipe[c]: where the build.sh of c is
  jobs,     \* jobs[c]: the background compilations of c that are running
  obj,      \* obj[c][u]: "missing", "stale" (of an earlier run) or "fresh"
  left,     \* left[c]: what a failed recipe left in bil/ that the next may
            \* trip over: "nothing", a broken "archive", or a "tree"
  tree,     \* the sources grafted on the profanOS tree
  made,     \* what the last `make disk` compiled
  zlibs,    \* the components whose libraries are in profanOS/out/zlibs
  tocp,     \* the lines of tocp.txt
  build,    \* the products in build/
  unsound,  \* history: <<c, "stale">> or <<c, "lacking">>: c was linked with
            \* an object of an earlier run, or without one of its objects
  faulted,  \* history: what has failed by itself in this run, a checked
            \* "command" (a compiler included) or an unchecked "copy"
  run       \* how many times the script was started

script  == <<pc, fast, todo, errexit, fail, status, run>>
recipes == <<recipe, jobs, obj, left>>
files   == <<tree, made, zlibs, tocp, build, unsound>>
vars    == <<script, recipes, files, faulted>>

Running == {"prepare", "asks", "compile", "link", "install"}
Active(c) == recipe[c] \in Running

-----------------------------------------------------------------------------
(* build_all.sh                                                            *)

Goto(l) == pc' = l /\ UNCHANGED <<fast, errexit, fail, status, run>>

Exit(s) ==
  /\ pc' = "stopped" /\ status' = s /\ todo' = {}
  /\ UNCHANGED <<fast, errexit, fail, run>>

(* A copy that no check follows may leave some of what was wanted behind,  *)
(* and ends the script only under `set -e`.                                *)
CopyIgnored(got, wanted) == TRUE
CopyPasses(got, wanted) == got = wanted \/ ~errexit

Fault(kind) == faulted' = faulted \cup {kind}
CopyFault(got, there) == IF got = there THEN faulted' = faulted ELSE Fault("copy")

(* The script is started again, once no compiler of the last run is left.  *)
(* Objects an earlier run left are stale.                                  *)
Begin ==
  /\ pc = "stopped" /\ run < MaxRuns
  /\ \A c \in Fanout : jobs[c] = {}
  /\ pc' = "start" /\ status' = "none" /\ run' = run + 1 /\ fast' \in BOOLEAN
  /\ errexit' = FALSE /\ fail' = FALSE
  /\ recipe' = [c \in Components |-> "off"]
  /\ obj' = [c \in Fanout |-> [u \in Units |->
               IF obj[c][u] = "missing" THEN "missing" ELSE "stale"]]
  /\ build' = {} /\ tree' = {} /\ made' = {} /\ zlibs' = {} /\ unsound' = {}
  /\ faulted' = {}
  /\ UNCHANGED <<todo, jobs, left, tocp>>

(* git clone; make disk; check.                                            *)
MakeDisk ==
  /\ pc = "start"
  /\ Goto("sources")
  /\ UNCHANGED <<todo, recipes, files, faulted>>

(* cp lib/ and rsc/; make disk; check; mkdir build; touch tocp.txt.        *)
AddLibraries ==
  /\ pc = "sources"
  /\ \E got \in SUBSET Libs :
       /\ CopyPasses(got, Libs) /\ CopyFault(got, Libs)
       /\ tree' = got /\ made' = got
  /\ Goto("early") /\ todo' = Early
  /\ UNCHANGED <<recipes, zlibs, tocp, build, unsound>>

(* A command that is followed by `check` fails, or one under `set -e`.     *)
StepFails ==
  /\ pc \in {"start", "sources", "disk", "archive"}
  /\ Exit("error")
  /\ Fault("command")
  /\ UNCHANGED <<recipes, files>>

(* The body of the two sequential loops: cd $e; bash -e build.sh; check.   *)
BuildOne(e) ==
  /\ pc \in {"early", "late"} /\ e \in todo
  /\ \A c \in todo : recipe[c] = "off"
  /\ recipe' = [recipe EXCEPT ![e] = "prepare"]
  /\ UNCHANGED <<script, jobs, obj, left, files, faulted>>

UncheckedOne(e) ==
  /\ pc \in {"early", "late"} /\ e \in todo
  /\ recipe[e] \in {"ok", "failed"}
  /\ todo' = todo \ {e} /\ Goto(pc)
  /\ UNCHANGED <<recipes, files, faulted>>
CheckOne(e) ==
  /\ pc \in {"early", "late"} /\ e \in todo
  /\ \/ /\ recipe[e] = "ok"
        /\ todo' = todo \ {e} /\ Goto(pc)
     \/ /\ recipe[e] = "failed"
        /\ Exit("error")
  /\ UNCHANGED <<recipes, files, faulted>>

(* `for e in bil/...` of the second loop: the directories named with an    *)
(* underscore were built by the first one.                                 *)
SkipsEarly(e) == e \notin Early

EarlyDone ==
  /\ pc = "early" /\ todo = {}
  /\ IF fast THEN /\ pc' = "spawn" /\ errexit' = TRUE
                  /\ todo' = Components
             ELSE /\ pc' = "late" /\ errexit' = errexit
                  /\ todo' = {e \in Components : SkipsEarly(e)}
  /\ UNCHANGED <<fast, fail, status, run, recipes, files, faulted>>

LateDone ==
  /\ pc = "late" /\ todo = {}
  /\ Goto("copy") /\ todo' = {}
  /\ UNCHANGED <<recipes, files, faulted>>

(* ( [[ _* ]] && exit 0; cd "$e"; bash -e build.sh ) &  pids+=($!)         *)
Spawn(e) ==
  /\ pc = "spawn" /\ e \in todo
  /\ recipe' = IF SkipsEarly(e) THEN [recipe EXCEPT ![e] = "prepare"] ELSE recipe
  /\ todo' = todo \ {e}
  /\ Goto(pc)
  /\ UNCHANGED <<jobs, obj, left, files, faulted>>

Spawned ==
  /\ pc = "spawn" /\ todo = {}
  /\ Goto("wait") /\ todo' = Components
  /\ UNCHANGED <<recipes, files, faulted>>

(* if ! wait "$pid"; then fail=1: the subshell of e has exited.            *)
ReapsAnything(e) == TRUE
ReapsSuccess(e) == recipe[e] # "failed" /\ ~Active(e)
Reaps(e) == ~Active(e)

WaitFor(e) ==
  /\ pc = "wait" /\ e \in todo
  /\ Reaps(e)
  /\ fail' = (fail \/ recipe[e] = "failed")
  /\ todo' = todo \ {e}
  /\ UNCHANGED <<pc, fast, errexit, status, run, recipes, files, faulted>>

ForgetsFailure == pc = "wait" /\ todo = {} /\ Goto("copy") /\ todo' = {}
                  /\ UNCHANGED <<recipes, files, faulted>>

Judge ==
  /\ pc = "wait" /\ todo = {}
  /\ IF fail THEN Exit("error") ELSE Goto("copy") /\ todo' = {}
  /\ UNCHANGED <<recipes, files, faulted>>

(* cp build/*.so to profanOS/out/zlibs; cp the directories of cmd/.        *)
CopyCommands ==
  /\ pc = "copy"
  /\ \E got \in SUBSET Commands, shared \in SUBSET (build \cap Components) :
       LET all    == got \cup shared
           wanted == Commands \cup (build \cap Components)
       IN  /\ CopyFault(all, wanted)
           /\ \/ /\ CopyPasses(all, wanted)
                 /\ tree' = tree \cup got /\ zlibs' = zlibs \cup shared
                 /\ Goto("disk") /\ todo' = todo
                 /\ UNCHANGED <<made, tocp, build, unsound>>
              \/ /\ ~CopyPasses(all, wanted)
                 /\ Exit("error") /\ UNCHANGED files
  /\ UNCHANGED recipes

(* make disk with the commands; check.                                     *)
MakeCommands ==
  /\ pc = "disk"
  /\ made' = tree
  /\ Goto("archive")
  /\ UNCHANGED <<todo, recipes, tree, zlibs, tocp, build, unsound, faulted>>

(* From there the script only copies to build/.                            *)
CopyToBuild(got, there, wanted, next) ==
  /\ CopyFault(got, there)
  /\ \/ /\ CopyPasses(got, wanted)
        /\ build' = build \cup got
        /\ Goto(next) /\ todo' = todo
     \/ /\ ~CopyPasses(got, wanted)
        /\ Exit("error") /\ build' = build
  /\ UNCHANGED <<recipes, tree, made, zlibs, tocp, unsound>>

(* The loop of `ar` with its check, and the copy of the shared libraries.  *)
ArchiveLibraries ==
  /\ pc = "archive"
  /\ \E got \in SUBSET (Libs \cap made) :
       CopyToBuild(got, Libs \cap made, Libs \cap made, "elves")

(* for e in cmd/ and $(cat tocp.txt): cp profanOS/out/zapps/c/$e.elf build *)
ElvesOfCmdOnly == Commands
Elves == Commands \cup tocp

CopyElves ==
  /\ pc = "elves"
  /\ \E got \in SUBSET (Elves \cap made) :
       CopyToBuild(got, Elves \cap made, Elves, "headers")

(* tar of the headers.                                                     *)
TarHeaders ==
  /\ pc = "headers"
  /\ \E got \in SUBSET {Headers} : CopyToBuild(got, {Headers}, {Headers}, "finish")

(* rm -rf profanOS tocp.txt.                                               *)
Finish ==
  /\ pc = "finish"
  /\ tree' = {} /\ made' = {} /\ zlibs' = {} /\ tocp' = {}
  /\ Exit("ok")
  /\ UNCHANGED <<recipes, build, unsound, faulted>>

-----------------------------------------------------------------------------
(* bil/<c>/build.sh, run by `bash -e`                                      *)

Step(c, phase) == recipe' = [recipe EXCEPT ![c] = phase]

(* What an earlier failure may leave for the next start of the recipe:     *)
(* git clone refuses a directory that exists and is not empty;             *)
CloneRefused(c) == c \in Clones /\ left[c] = "tree"

(* a download that broke off stays, and it is what tar or unzip then take, *)
(* as wget is not called or saves under another name beside it;            *)
ArchiveBroken(c) == c \in Keeps /\ left[c] = "archive"

(* unzip asks whether to overwrite the files that are there.               *)
TreeInTheWay(c) == c \in Asks /\ left[c] = "tree"

Tripped(c) == CloneRefused(c) \/ ArchiveBroken(c) \/ TreeInTheWay(c)

(* What a recipe that fails while it fetches and unpacks may leave.        *)
Leavings(c) ==
  {left[c]} \cup IF left[c] # "nothing" THEN {}
                 ELSE (IF c \in Keeps THEN {"archive"} ELSE {})
                        \cup (IF c \in Clones \cup Asks THEN {"tree"} ELSE {})

(* A synced recipe puts its sources in profanOS/zapps for the next make    *)
(* disk, and its name in tocp.txt.                                         *)
NotGrafted(c) == tree
Grafted(c) == IF c \in Synced THEN tree \cup {c} ELSE tree

ListsAll(c) == tocp \cup {c}
Listed(c) == IF c \in Synced THEN tocp \cup {c} ELSE tocp

(* An early recipe also copies its library where -lm is looked for.        *)
KeepsToItself(c) == zlibs
Published(c) == IF c \in Early THEN zlibs \cup {c} ELSE zlibs

(* rm -rf build: the objects of an earlier run are not there to be linked. *)
KeepsObjects(c) == obj
Cleaned(c) ==
  IF c \in Clears THEN [obj EXCEPT ![c] = [u \in Units |-> "missing"]] ELSE obj

(* Fetch, unpack, patch, configure; a fan-out recipe starts its compilers. *)
Prepared(c) ==
  /\ Step(c, "compile")
  /\ jobs' = IF c \in Fanout THEN [jobs EXCEPT ![c] = Units] ELSE jobs
  /\ obj' = Cleaned(c)
  /\ left' = IF c \in Clones \cup Asks THEN [left EXCEPT ![c] = "tree"] ELSE left
  /\ tree' = Grafted(c)
  /\ UNCHANGED <<script, made, zlibs, tocp, build, unsound, faulted>>

Prepare(c) == recipe[c] = "prepare" /\ ~Tripped(c) /\ Prepared(c)

(* Asked at a terminal, unzip waits for the answer; without one (in fast   *)
(* mode the standard input is /dev/null) it gives up, as git and tar do.   *)
Ask(c) ==
  /\ recipe[c] = "prepare" /\ TreeInTheWay(c) /\ ~fast
  /\ Step(c, "asks")
  /\ UNCHANGED <<script, jobs, obj, left, files, faulted>>

Answered(c) == recipe[c] = "asks" /\ Prepared(c)

Trip(c) ==
  /\ recipe[c] = "prepare" /\ Tripped(c)
  /\ Step(c, "failed")
  /\ UNCHANGED <<script, jobs, obj, left, files, faulted>>

(* A background compiler ends.  Its status is never looked at.             *)
UnitDone(c, u) ==
  /\ u \in jobs[c]
  /\ jobs' = [jobs EXCEPT ![c] = @ \ {u}]
  /\ \/ obj' = [obj EXCEPT ![c][u] = "fresh"] /\ faulted' = faulted
     \/ /\ \E o \in {obj[c][u], "missing"} : obj' = [obj EXCEPT ![c][u] = o]
        /\ Fault("command")
  /\ UNCHANGED <<script, recipe, left, files>>

(* `wait`, or the foreground `make` of a recipe that has no fan-out.       *)
Waited(c) == c \in Fanout => jobs[c] = {}

Compiled(c) ==
  /\ recipe[c] = "compile"
  /\ Waited(c)
  /\ Step(c, "link")
  /\ UNCHANGED <<script, jobs, obj, left, files, faulted>>

(* The link takes the objects it finds, and fails for want of a symbol     *)
(* that is referred to: a static program cannot do without any object of   *)
(* which others use a function, an archive made from a list of names       *)
(* without none, a shared library does without every one.  -lm must be in  *)
(* profanOS/out/zlibs.                                                     *)
TakesAnything(c) == TRUE
Linkable(c) ==
  /\ c \in Fanout => \A u \in Needs[c] : obj[c][u] # "missing"
  /\ c \in NeedsEarly => Early \subseteq zlibs

(* What is wrong with the objects it finds.                                *)
Unsound(c) ==
  {<<c, k>> : k \in {k \in {"stale", "lacking"} :
     \E u \in Units : obj[c][u] = IF k = "stale" THEN "stale" ELSE "missing"}}

Link(c) ==
  /\ recipe[c] = "link"
  /\ Linkable(c)
  /\ Step(c, "install")
  /\ unsound' = IF c \in Fanout THEN unsound \cup Unsound(c) ELSE unsound
  /\ UNCHANGED <<script, jobs, obj, left, tree, made, zlibs, tocp, build, faulted>>

LinkRefused(c) ==
  /\ recipe[c] = "link"
  /\ ~Linkable(c)
  /\ Step(c, "failed")
  /\ UNCHANGED <<script, jobs, obj, left, files, faulted>>

(* cp (or tar, or echo >> tocp.txt), then the recipe removes its files.    *)
Install(c) ==
  /\ recipe[c] = "install"
  /\ Step(c, "ok")
  /\ build' = IF c \in Synced THEN build ELSE build \cup {c}
  /\ tocp' = Listed(c)
  /\ zlibs' = Published(c)
  /\ obj' = IF c \in Fanout THEN [obj EXCEPT ![c] = [u \in Units |-> "missing"]] ELSE obj
  /\ left' = [left EXCEPT ![c] = "nothing"]
  /\ UNCHANGED <<script, jobs, tree, made, unsound, faulted>>

(* A foreground command fails and `bash -e` ends the recipe there.         *)
RecipeFails(c) ==
  /\ Active(c) /\ recipe[c] # "asks"
  /\ recipe[c] = "compile" => c \notin Fanout \/ c \in Foreground
  /\ Step(c, "failed")
  /\ \E l \in IF recipe[c] = "prepare" THEN Leavings(c) ELSE {left[c]} :
       left' = [left EXCEPT ![c] = l]
  /\ Fault("command")
  /\ UNCHANGED <<script, jobs, obj, files>>

-----------------------------------------------------------------------------
Init ==
  /\ pc = "start" /\ fast \in BOOLEAN /\ todo = {} /\ errexit = FALSE /\ fail = FALSE
  /\ status = "none" /\ run = 1
  /\ recipe = [c \in Components |-> "off"]
  /\ jobs = [c \in Fanout |-> {}]
  /\ obj = [c \in Fanout |-> [u \in Units |-> "missing"]]
  /\ left = [c \in Components |-> "nothing"]
  /\ tree = {} /\ made = {} /\ zlibs = {} /\ tocp = {}
  /\ build = {} /\ unsound = {} /\ faulted = {}

Script ==
  \/ Begin \/ MakeDisk \/ AddLibraries \/ StepFails \/ EarlyDone \/ LateDone
  \/ Spawned \/ Judge \/ CopyCommands \/ MakeCommands \/ ArchiveLibraries
  \/ CopyElves \/ TarHeaders \/ Finish
  \/ \E e \in Components : BuildOne(e) \/ CheckOne(e) \/ Spawn(e) \/ WaitFor(e)

Recipe(c) ==
  \/ Prepare(c) \/ Ask(c) \/ Trip(c) \/ Compiled(c) \/ Link(c) \/ LinkRefused(c)
  \/ Install(c) \/ RecipeFails(c)

Unattended ==
  \/ Script
  \/ \E c \in Components : Recipe(c)
  \/ \E c \in Fanout : \E u \in Units : UnitDone(c, u)

Next == Unattended \/ \E c \in Components : Answered(c)

Spec == Init /\ [][Next]_vars

(* Something always runs: the commands of the script and of the recipes    *)
(* terminate, and the kernel schedules them.  Nobody has to answer unzip.  *)
FairSpec == Spec /\ WF_vars(Unattended)

-----------------------------------------------------------------------------
TypeOK ==
  /\ pc \in {"start", "sources", "early", "late", "spawn", "wait", "copy", "disk",
             "archive", "elves", "headers", "finish", "stopped"}
  /\ todo \subseteq Components
  /\ fast \in BOOLEAN /\ errexit \in BOOLEAN /\ fail \in BOOLEAN
  /\ faulted \subseteq {"command", "copy"}
  /\ status \in {"none", "ok", "error"}
  /\ recipe \in [Components -> {"off", "ok", "failed"} \cup Running]
  /\ jobs \in [Fanout -> SUBSET Units]
  /\ obj \in [Fanout -> [Units -> {"missing", "stale", "fresh"}]]
  /\ left \in [Components -> {"nothing", "archive", "tree"}]
  /\ \A c \in Components : /\ left[c] = "archive" => c \in Keeps
                          /\ left[c] = "tree" => c \in Clones \cup Asks
  /\ tree \subseteq Libs \cup Commands \cup Synced /\ made \subseteq Libs \cup Commands \cup Synced
  /\ zlibs \subseteq Components /\ tocp \subseteq Synced
  /\ build \subseteq Products
  /\ unsound \subseteq Fanout \X {"stale", "lacking"}
  /\ run \in Nat

Collecting == {"copy", "disk", "archive", "elves", "headers", "finish"}

(* Exit status 0 is only given when every recipe of bil/ has succeeded:    *)
(* neither the sequential loops nor the collection of the exit statuses of *)
(* the background subshells loses a failure.                               *)
ErrorsReported == status = "ok" => \A c \in Components : recipe[c] = "ok"

(* Once the script goes past its loops, or has stopped, no recipe is       *)
(* running, and so nothing writes to build/ behind it; the compilers of a  *)
(* failed recipe can only survive it when a foreground compile comes       *)
(* before its `wait`.                                                      *)
Quiescent ==
  pc \in Collecting \cup {"stopped"} =>
    \A c \in Components : /\ ~Active(c)
                          /\ c \in Fanout \ Foreground => jobs[c] = {}

(* A recipe of the second loop only starts over complete bil/_* libraries, *)
(* in both modes: nobody links with a libm that is being rebuilt.          *)
EarlyReady == \A c \in Late : recipe[c] # "off" => \A e \in Early : recipe[e] = "ok"

(* What the release job takes exit status 0 for: a complete build/.        *)
ReleaseComplete == status = "ok" => build = Products

(* It is one unless a copy of the script has failed: no other failure, and *)
(* nothing an earlier run left, makes a product go missing in silence.     *)
CompleteUnlessLost == status = "ok" /\ "copy" \notin faulted => build = Products

(* When the commands are collected every line of tocp.txt, also one a      *)
(* failed earlier run left there, names a command that make disk compiled, *)
(* and no synced command is missing from it.                               *)
TocpBacked == pc = "elves" => Synced \subseteq tocp /\ tocp \subseteq made

(* A recipe that removes its old objects before it compiles never passes   *)
(* off one that an earlier run left, whatever compilers failed since.  (It *)
(* may pass off a product that lacks an object nobody refers to.)          *)
NothingStale == \A c \in Clears : <<c, "stale">> \notin unsound

(* In fast mode a command that could not be copied is not lost in silence. *)
CommandsReported ==
  status = "ok" /\ fast => Commands \cup Synced \subseteq build

(* A run in which no command failed by itself stops with an error only     *)
(* because of a recipe that tripped over what an earlier run had left it,  *)
(* and only the recipes in Clones, Keeps and Asks can be so: every other   *)
(* one can simply be run again.                                            *)
Rerunnable ==
  status = "error" /\ faulted = {} =>
    \E c \in Clones \cup Keeps \cup Asks : recipe[c] = "failed" /\ left[c] # "nothing"

(* What `check "build $e"` is there for: a compiler that failed is not     *)
(* followed by exit status 0.                                              *)
CompileFailuresReported == status = "ok" => unsound = {}

(* The script comes to its end, unless it waits, in sequential mode, for   *)
(* somebody to tell unzip what to do with the tree of an earlier run.      *)
Terminates ==
  pc # "stopped" ~> \/ pc = "stopped"
                    \/ ~fast /\ \E c \in Asks : recipe[c] = "asks" /\ left[c] = "tree"

(* The strengthening of ErrorsReported, Quiescent and EarlyReady that every *)
(* step preserves: what the recipes may be doing at each place of the       *)
(* script, and which recipe a background compiler can belong to.            *)
Begun ==
  /\ pc \in {"start", "sources"} => \A c \in Components : recipe[c] = "off"
  /\ pc = "early" => /\ todo \subseteq Early
                     /\ \A c \in Early \ todo : recipe[c] = "ok"
                     /\ \A c \in Late : recipe[c] = "off"
  /\ pc = "late" => /\ todo \subseteq Late
                    /\ \A c \in Components \ todo : recipe[c] = "ok"
OneByOne ==
  pc \in {"early", "late"} =>
    \A c, d \in todo : recipe[c] # "off" /\ recipe[d] # "off" => c = d
Spreading ==
  /\ pc \in {"spawn", "wait"} => \A c \in Early : recipe[c] = "ok"
  /\ pc = "spawn" => \A c \in Late \cap todo : recipe[c] = "off"
  /\ pc = "spawn" => \A c \in Late \ todo : recipe[c] # "off"
  /\ pc = "wait" => \A c \in Late : recipe[c] # "off"
  /\ pc = "wait" => \A c \in Components \ todo :
                     /\ ~Active(c)
                     /\ recipe[c] = "failed" => fail
Ended ==
  /\ pc \in Collecting => \A c \in Components : recipe[c] = "ok"
  /\ pc = "stopped" => \A c \in Components : ~Active(c)
  /\ status # "none" => pc = "stopped"
Owned ==
  \A c \in Fanout : jobs[c] # {} =>
    recipe[c] = "compile" \/ (c \in Foreground /\ recipe[c] = "failed")

Phases == Begun /\ OneByOne /\ Spreading /\ Ended /\ Owned /\ ErrorsReported /\ EarlyReady

(* The strengthening of NothingStale: between clearing and linking, such a *)
(* recipe has no object of an earlier run.                                 *)
Cleared ==
  \A c \in Clears :
    /\ <<c, "stale">> \notin unsound
    /\ recipe[c] \in {"compile", "link"} => \A u \in Units : obj[c][u] # "stale"

(* What each recipe has put on the tree and in build/ when it has ended.   *)
Delivered ==
  pc # "stopped" =>
    \A c \in Components :
      /\ recipe[c] = "ok" => IF c \in Synced THEN c \in tocp ELSE c \in build
      /\ recipe[c] \in {"compile", "link", "install", "ok"} /\ c \in Synced => c \in tree

(* The strengthening of CompleteUnlessLost: what each place of the script  *)
(* has already put on the tree and in build/, when no copy has failed.     *)
Gathered ==
  /\ pc = "stopped" <=> status # "none"
  /\ "copy" \notin faulted =>
       /\ pc \notin {"start", "sources", "stopped"} => Libs \subseteq tree /\ Libs \subseteq made
       /\ pc \in {"disk", "archive", "elves", "headers", "finish"} => Commands \subseteq tree
       /\ pc \in {"archive", "elves", "headers", "finish"} => Commands \cup Synced \subseteq made
       /\ pc \in {"elves", "headers", "finish"} => Libs \subseteq build
       /\ pc \in {"headers", "finish"} => Commands \cup Synced \subseteq build
       /\ pc = "finish" => Headers \in build
       /\ status = "ok" => build = Products

(* The strengthening of TocpBacked, CommandsReported and the contract,     *)
(* whatever copies fail: in fast mode they fail under `set -e`.            *)
Checked ==
  /\ pc = "late" => ~fast
  /\ pc \in {"spawn", "wait"} \cup Collecting /\ fast => errexit
  /\ pc \in {"archive", "elves", "headers", "finish"} => Synced \subseteq made
  /\ pc \in {"disk", "archive", "elves", "headers", "finish"} /\ errexit => Commands \subseteq tree
  /\ pc \in {"archive", "elves", "headers", "finish"} /\ errexit => Commands \subseteq made
  /\ pc \in {"headers", "finish"} /\ fast => Commands \cup Synced \subseteq build
  /\ pc = "finish" /\ fast => Headers \in build
  /\ CommandsReported

(* The strengthening of Rerunnable: whatever has failed, has failed for    *)
(* want of a command or because of what is still in its way.               *)
Blamed ==
  /\ Rerunnable
  /\ \A c \in Components : recipe[c] = "failed" => faulted # {} \/ Tripped(c)
  /\ fail => \E c \in Components : recipe[c] = "failed"
  /\ \A c \in Fanout : recipe[c] \in {"compile", "link"} =>
       faulted # {} \/ \A u \in Units : u \in jobs[c] \/ obj[c][u] = "fresh"
  /\ pc # "stopped" => \A e \in Early : recipe[e] = "ok" => e \in zlibs

(* What every step preserves, in one formula.                              *)
Inductive == Phases /\ Delivered /\ Cleared /\ Gathered /\ Checked /\ Blamed

Contract == INSTANCE BuildContract WITH
  Products <- Products,
  Watched  <- Components \ Synced,
  Careful  <- Components \cup Commands \cup {Headers},
  status   <- status,
  careful  <- fast,
  build    <- build

(* Both modes implement the same contract.                                 *)
ImplementsContract == Contract!Spec
=============================================================================
