---------------------------- MODULE BuildAllProofs ----------------------------
(***************************************************************************)
(* Proofs about BuildAll, for any set of recipes, any number of source     *)
(* files and both modes.                                                   *)
(***************************************************************************)
EXTENDS BuildAll, TLAPS

USE DEF Components, Running, Active, Collecting

-----------------------------------------------------------------------------
(* Type correctness.                                                       *)

LEMMA TypeInit == Init => TypeOK
<1> SUFFICES ASSUME Init PROVE TypeOK
  OBVIOUS
<1>1. recipe \in [Components -> {"off", "ok", "failed"} \cup Running]
  BY DEF Init
<1>2. jobs \in [Fanout -> SUBSET Units]
  BY DEF Init
<1>3. obj \in [Fanout -> [Units -> {"missing", "stale", "fresh"}]]
  BY DEF Init
<1>4. /\ left \in [Components -> {"nothing", "archive", "tree"}]
      /\ \A c \in Components : left[c] = "nothing"
  BY DEF Init
<1> QED
  BY <1>1, <1>2, <1>3, <1>4 DEF Init, TypeOK, Products

(* The actions of build_all.sh keep the types.                             *)
LEMMA TypeScript == TypeOK /\ Script => TypeOK'
<1> SUFFICES ASSUME TypeOK, Script PROVE TypeOK'
  OBVIOUS
<1> USE ConstantsOK DEF TypeOK, Products, Goto, Exit, Fault, recipes, files, script
<1>1. CASE Begin
  <2>1. obj' \in [Fanout -> [Units -> {"missing", "stale", "fresh"}]]
    BY <1>1 DEF Begin
  <2>2. recipe' \in [Components -> {"off", "ok", "failed"} \cup Running]
    BY <1>1 DEF Begin
  <2>3. /\ pc' = "start" /\ status' = "none" /\ run' = run + 1
        /\ errexit' = FALSE /\ fail' = FALSE /\ faulted' = {}
        /\ build' = {} /\ tree' = {} /\ made' = {} /\ zlibs' = {} /\ unsound' = {}
        /\ UNCHANGED <<todo, jobs, left, tocp>>
    BY <1>1 DEF Begin
  <2> QED
    <3>1. errexit' \in BOOLEAN /\ fail' \in BOOLEAN
      BY <2>3
    <3>2. todo' \subseteq Components /\ left' = left /\ tocp' \subseteq Synced
      BY <2>3
    <3>3. jobs' \in [Fanout -> SUBSET Units] /\ run' \in Nat
      BY <2>3
    <3>4. fast' \in BOOLEAN
      BY <1>1 DEF Begin
    <3> QED
      BY <2>1, <2>2, <2>3, <3>1, <3>2, <3>3, <3>4
<1>2. CASE MakeDisk \/ StepFails \/ LateDone \/ Spawned \/ Finish
  BY <1>2 DEF MakeDisk, StepFails, LateDone, Spawned, Finish
<1>10. CASE Judge
  BY <1>10 DEF Judge
<1>3. CASE AddLibraries
  <2>1. PICK got \in SUBSET Libs : AddLibraries!2!(got)
    BY <1>3 DEF AddLibraries
  <2> HIDE DEF TypeOK
  <2>3. faulted' = faulted \/ faulted' = faulted \cup {"copy"}
    BY <2>1 DEF CopyFault
  <2>4. tree' \subseteq Libs /\ made' \subseteq Libs
    BY <2>1
  <2>2. /\ pc' = "early" /\ todo' = Early
        /\ UNCHANGED <<fast, errexit, fail, status, run, recipes, zlibs, tocp, build, unsound>>
    BY <1>3 DEF AddLibraries
  <2> QED
    BY <2>2, <2>3, <2>4 DEF TypeOK
<1>4. CASE EarlyDone
  <2>1. CASE fast
    BY <1>4, <2>1 DEF EarlyDone
  <2>2. CASE ~fast
    <3>1. /\ pc' = "late" /\ errexit' = errexit /\ todo' \subseteq Components
          /\ UNCHANGED <<fast, fail, status, run, recipes, files, faulted>>
      BY <1>4, <2>2 DEF EarlyDone
    <3> QED
      BY <3>1
  <2> QED
    BY <2>1, <2>2
<1>5. CASE CopyCommands
  <2>1. /\ tree' \subseteq tree \cup Commands /\ zlibs' \subseteq zlibs \cup Components
        /\ errexit' = errexit /\ fail' = fail /\ faulted' \subseteq faulted \cup {"copy"}
    BY <1>5 DEF CopyCommands, CopyFault
  <2>2. /\ pc' \in {"disk", "stopped"} /\ todo' \in {todo, {}}
        /\ status' \in {status, "error"}
        /\ UNCHANGED <<fast, run, recipe, jobs, obj, left, made, tocp, build, unsound>>
    BY <1>5 DEF CopyCommands
  <2> QED
    BY <2>1, <2>2
<1>6. CASE MakeCommands
  BY <1>6 DEF MakeCommands
<1>7. ASSUME NEW got \in SUBSET Products, NEW there, NEW wanted,
             NEW next \in {"elves", "headers", "finish"},
             CopyToBuild(got, there, wanted, next)
      PROVE  TypeOK'
  <2>1. build' \subseteq build \cup got /\ faulted' \subseteq faulted \cup {"copy"}
    BY <1>7 DEF CopyToBuild, CopyFault
  <2>2. /\ pc' \in {next, "stopped"} /\ todo' \in {todo, {}} /\ status' \in {status, "error"}
        /\ UNCHANGED <<fast, errexit, fail, run, recipes, tree, made, zlibs, tocp, unsound>>
    BY <1>7 DEF CopyToBuild
  <2> QED
    BY <2>1, <2>2
<1>8. CASE ArchiveLibraries \/ CopyElves \/ TarHeaders
  BY <1>7, <1>8 DEF ArchiveLibraries, CopyElves, TarHeaders, Elves
<1>9. CASE \E e \in Components : BuildOne(e) \/ CheckOne(e) \/ Spawn(e) \/ WaitFor(e)
  <2> SUFFICES ASSUME NEW e \in Components, BuildOne(e) \/ CheckOne(e) \/ Spawn(e) \/ WaitFor(e)
               PROVE  TypeOK'
    BY <1>9
  <2>1. CASE BuildOne(e)
    BY <2>1 DEF BuildOne
  <2>2. CASE CheckOne(e)
    BY <2>2 DEF CheckOne
  <2>3. CASE Spawn(e)
    BY <2>3 DEF Spawn
  <2>4. CASE WaitFor(e)
    BY <2>4 DEF WaitFor
  <2> QED BY <2>1, <2>2, <2>3, <2>4
<1> QED
  BY <1>1, <1>2, <1>3, <1>4, <1>5, <1>6, <1>8, <1>9, <1>10 DEF Script

(* So do the steps of a recipe.                                            *)
LEMMA TypeRecipe ==
  TypeOK /\ (\E c \in Components : Recipe(c) \/ Answered(c)) => TypeOK'
<1> SUFFICES ASSUME TypeOK, NEW c \in Components, Recipe(c) \/ Answered(c) PROVE TypeOK'
  OBVIOUS
<1> USE ConstantsOK DEF TypeOK, Products, Step, recipes, files, script
<1>1. ASSUME Prepared(c) PROVE TypeOK'
  <2>1. obj' \in [Fanout -> [Units -> {"missing", "stale", "fresh"}]]
    BY <1>1 DEF Prepared, Cleaned
  <2>2. /\ jobs' \in [Fanout -> SUBSET Units]
        /\ recipe' \in [Components -> {"off", "ok", "failed"} \cup Running]
        /\ tree' \subseteq Libs \cup Commands \cup Synced
    BY <1>1 DEF Prepared, Grafted
  <2>3. /\ left' \in [Components -> {"nothing", "archive", "tree"}]
        /\ \A d \in Components : /\ left'[d] = "archive" => d \in Keeps
                                /\ left'[d] = "tree" => d \in Clones \cup Asks
    BY <1>1 DEF Prepared
  <2> QED
    BY <1>1, <2>1, <2>2, <2>3 DEF Prepared
<1>2. CASE Prepare(c) \/ Answered(c)
  BY <1>1, <1>2 DEF Prepare, Answered
<1>3. CASE Ask(c) \/ Trip(c) \/ Compiled(c) \/ LinkRefused(c)
  <2>1. recipe' \in [Components -> {"off", "ok", "failed"} \cup Running]
    BY <1>3 DEF Ask, Trip, Compiled, LinkRefused
  <2>2. UNCHANGED <<script, jobs, obj, left, files, faulted>>
    BY <1>3 DEF Ask, Trip, Compiled, LinkRefused
  <2> QED
    BY <2>1, <2>2
<1>4. CASE Link(c)
  <2>1. unsound' \subseteq Fanout \X {"stale", "lacking"}
    BY <1>4 DEF Link, Unsound
  <2> QED
    BY <1>4, <2>1 DEF Link
<1>5. CASE Install(c)
  BY <1>5 DEF Install, Listed, Published
<1>6. CASE RecipeFails(c)
  <2>1. PICK l \in Leavings(c) : left' = [left EXCEPT ![c] = l]
    BY <1>6 DEF RecipeFails, Leavings
  <2>2. \/ l = left[c]
        \/ l = "archive" /\ c \in Keeps
        \/ l = "tree" /\ c \in Clones \cup Asks
    <3> HIDE DEF TypeOK
    <3>1. CASE left[c] # "nothing"
      BY <3>1, l \in Leavings(c) DEF Leavings
    <3>2. CASE left[c] = "nothing"
      BY <3>2, l \in Leavings(c) DEF Leavings
    <3> QED
      BY <3>1, <3>2
  <2>3. faulted' \subseteq {"command", "copy"}
    BY <1>6 DEF RecipeFails, Fault
  <2> QED
    BY <1>6, <2>1, <2>2, <2>3 DEF RecipeFails
<1> QED
  BY <1>2, <1>3, <1>4, <1>5, <1>6 DEF Recipe

(* And the end of a background compiler.                                   *)
LEMMA TypeUnit ==
  TypeOK /\ (\E c \in Fanout : \E u \in Units : UnitDone(c, u)) => TypeOK'
<1> SUFFICES ASSUME TypeOK, NEW c \in Fanout, NEW u \in Units, UnitDone(c, u)
             PROVE TypeOK'
  OBVIOUS
<1> USE DEF TypeOK
<1>1. jobs' \in [Fanout -> SUBSET Units]
  BY DEF UnitDone
<1>2. PICK o \in {"missing", "stale", "fresh"} : obj' = [obj EXCEPT ![c][u] = o]
  BY DEF UnitDone
<1>3. obj' \in [Fanout -> [Units -> {"missing", "stale", "fresh"}]]
  BY <1>2
<1>4. faulted' \subseteq {"command", "copy"}
  BY DEF UnitDone, Fault
<1> QED
  BY <1>1, <1>3, <1>4 DEF UnitDone, files, script, Products

(* Every variable of the pipeline keeps its type, in every mode.           *)
THEOREM TypeCorrect == Spec => []TypeOK
<1>1. TypeOK /\ [Next]_vars => TypeOK'
  <2> SUFFICES ASSUME TypeOK, [Next]_vars PROVE TypeOK'
    OBVIOUS
  <2>1. CASE UNCHANGED vars
    BY <2>1 DEF vars, script, recipes, files, TypeOK
  <2> QED
    BY <2>1, TypeScript, TypeRecipe, TypeUnit DEF Next, Unattended
<1> QED
  BY <1>1, TypeInit, PTL DEF Spec

-----------------------------------------------------------------------------
(* The phases of the build.                                                *)

Moves(c) == Recipe(c) \/ Answered(c)

Unowned == Begun /\ OneByOne /\ Spreading /\ Ended /\ ErrorsReported /\ EarlyReady

LEMMA PhasesInit == Init => Phases
BY DEF Init, Phases, Begun, OneByOne, Spreading, Ended, Owned, ErrorsReported, EarlyReady

(* Wherever the script is, a recipe that runs may go on, finish or fail.   *)
LEMMA Moving ==
  ASSUME TypeOK, Unowned,
         NEW c \in Components, Active(c),
         NEW phase \in {"asks", "compile", "link", "install", "ok", "failed"},
         recipe' = [recipe EXCEPT ![c] = phase], UNCHANGED script
  PROVE  Unowned'
<1> DEFINE Kept == \A d \in Components : d # c => recipe'[d] = recipe[d]
<1>1. recipe'[c] = phase /\ Kept
  BY DEF TypeOK
<1>2. pc \in {"early", "late", "spawn", "wait"} /\ status = "none"
  BY DEF Unowned, Begun, Ended, TypeOK
<1>3. pc \in {"early", "late"} => c \in todo
  BY DEF Unowned, Begun
<1>4. pc \in {"spawn", "wait"} => c \in Late
  BY DEF Unowned, Spreading
<1>5. pc = "spawn" => c \notin todo
  BY <1>4 DEF Unowned, Spreading
<1>6. pc = "wait" => c \in todo
  BY <1>4 DEF Unowned, Spreading
<1>7. UNCHANGED <<pc, todo, fail, status>>
  BY DEF script
<1> HIDE DEF Kept
<1>8. Begun'
  <2>1. pc = "early" => c \in Early
    BY <1>3 DEF Unowned, Begun
  <2>2. \A d \in Components \ {c} : recipe'[d] = recipe[d]
    BY <1>1 DEF Kept
  <2> QED
    BY <1>2, <1>3, <1>7, <2>1, <2>2, ConstantsOK DEF Unowned, Begun
<1>9. OneByOne'
  BY <1>1, <1>3, <1>7 DEF Unowned, OneByOne, Kept, TypeOK
<1>10. Spreading'
  BY <1>1, <1>4, <1>5, <1>6, <1>7, ConstantsOK DEF Unowned, Spreading, Kept, TypeOK
<1>11. Ended' /\ ErrorsReported'
  BY <1>2, <1>7 DEF Ended, ErrorsReported
<1>12. EarlyReady'
  BY <1>1, <1>2, ConstantsOK DEF Unowned, EarlyReady, Kept
<1> QED
  BY <1>8, <1>9, <1>10, <1>11, <1>12 DEF Unowned

(* A step of the script that neither starts a recipe nor judges one.       *)
LEMMA PhasesQuiet ==
  ASSUME TypeOK, Phases,
         \/ MakeDisk \/ AddLibraries \/ StepFails \/ CopyCommands \/ MakeCommands
         \/ ArchiveLibraries \/ CopyElves \/ TarHeaders \/ Finish \/ UNCHANGED vars
  PROVE  Phases'
<1> USE DEF Phases, Begun, OneByOne, Spreading, Ended, Owned, ErrorsReported, EarlyReady,
            Goto, Exit, recipes, TypeOK
<1>1. CASE MakeDisk
  BY <1>1 DEF MakeDisk
<1>2. CASE AddLibraries
  BY <1>2, ConstantsOK DEF AddLibraries
<1>3. CASE StepFails
  BY <1>3 DEF StepFails
<1>4. CASE CopyCommands
  BY <1>4 DEF CopyCommands
<1>5. CASE MakeCommands
  BY <1>5 DEF MakeCommands
<1>6. CASE ArchiveLibraries
  BY <1>6 DEF ArchiveLibraries, CopyToBuild
<1>7. CASE CopyElves \/ TarHeaders
  BY <1>7 DEF CopyElves, TarHeaders, CopyToBuild
<1>8. CASE Finish
  BY <1>8 DEF Finish
<1>9. CASE UNCHANGED vars
  BY <1>9 DEF vars, script
<1> QED
  BY <1>1, <1>2, <1>3, <1>4, <1>5, <1>6, <1>7, <1>8, <1>9

(* The loops of the script, in either mode.                                *)
LEMMA PhasesLoops ==
  ASSUME TypeOK, Phases, EarlyDone \/ LateDone \/ Spawned \/ Judge
  PROVE  Phases'
<1> USE ConstantsOK
    DEF Phases, Begun, OneByOne, Spreading, Ended, Owned, ErrorsReported, EarlyReady,
        Goto, Exit, recipes, TypeOK
<1>1. CASE EarlyDone
  <2>1. /\ \A c \in Early : recipe[c] = "ok"
        /\ \A c \in Late : recipe[c] = "off"
        /\ UNCHANGED <<recipe, jobs, status>> /\ status = "none"
    BY <1>1 DEF EarlyDone
  <2>2. \/ pc' = "spawn" /\ todo' = Early \cup Late
        \/ pc' = "late" /\ todo' = Late
    <3>1. CASE fast
      BY <1>1, <3>1 DEF EarlyDone, Components
    <3>2. CASE ~fast
      <4>1. pc' = "late" /\ todo' = {e \in Components : SkipsEarly(e)}
        BY <1>1, <3>2 DEF EarlyDone
      <4> QED
        BY <4>1 DEF SkipsEarly, Components
    <3> QED
      BY <3>1, <3>2
  <2> QED
    BY <2>1, <2>2
<1>2. CASE LateDone
  BY <1>2 DEF LateDone
<1>3. CASE Spawned
  BY <1>3 DEF Spawned
<1>4. CASE Judge
  BY <1>4 DEF Judge
<1> QED
  BY <1>1, <1>2, <1>3, <1>4

LEMMA PhasesLoopBodies ==
  ASSUME TypeOK, Phases, NEW e \in Components,
         BuildOne(e) \/ CheckOne(e) \/ Spawn(e) \/ WaitFor(e)
  PROVE  Phases'
<1> USE ConstantsOK
    DEF Phases, Begun, OneByOne, Spreading, Ended, Owned, ErrorsReported, EarlyReady,
        Goto, Exit, recipes, script, TypeOK
<1>1. CASE BuildOne(e)
  BY <1>1 DEF BuildOne
<1>2. CASE CheckOne(e)
  BY <1>2 DEF CheckOne
<1>3. CASE Spawn(e)
  BY <1>3 DEF Spawn, SkipsEarly
<1>4. CASE WaitFor(e)
  BY <1>4 DEF WaitFor, Reaps
<1> QED
  BY <1>1, <1>2, <1>3, <1>4

(* Starting again, once the compilers of the last run have ended.          *)
LEMMA PhasesBegin == TypeOK /\ Begin => Phases'
BY DEF Begin, Phases, Begun, OneByOne, Spreading, Ended, Owned, ErrorsReported,
       EarlyReady, TypeOK

(* The recipes.  What moves a recipe moves one that was running, and a     *)
(* fan-out recipe leaves `compile` without compilers, or fails there with  *)
(* a foreground command.                                                   *)
LEMMA PhasesRecipe ==
  ASSUME TypeOK, Phases, NEW c \in Components, Moves(c)
  PROVE  Phases'
<1>1. Active(c) /\ UNCHANGED script
  BY DEF Moves, Recipe, Prepare, Answered, Prepared, Ask, Trip, Compiled, Link, LinkRefused, Install, RecipeFails
<1>2. PICK phase \in {"asks", "compile", "link", "install", "ok", "failed"} :
        recipe' = [recipe EXCEPT ![c] = phase]
  BY DEF Moves, Recipe, Prepare, Answered, Prepared, Ask, Trip, Compiled, Link, LinkRefused, Install, RecipeFails, Step
<1>3. Unowned'
  BY <1>1, <1>2, Moving DEF Phases, Unowned
<1>4. Owned'
  <2> SUFFICES ASSUME NEW d \in Fanout, jobs'[d] # {}
               PROVE  recipe'[d] = "compile" \/ (d \in Foreground /\ recipe'[d] = "failed")
    BY DEF Owned
  <2>1. CASE d # c
    <3>1. recipe'[d] = recipe[d]
      BY <1>2, <2>1, ConstantsOK DEF TypeOK
    <3>2. jobs'[d] = jobs[d]
      BY <2>1, ConstantsOK DEF TypeOK, Moves, Recipe, Prepare, Answered, Prepared, Ask, Trip, Compiled, Link, LinkRefused, Install, RecipeFails
    <3> QED
      BY <3>1, <3>2 DEF Phases, Owned
  <2>2. CASE d = c
    <3>1. CASE Prepare(c) \/ Answered(c)
      BY <2>2, <3>1 DEF Prepare, Answered, Prepared, Step, TypeOK
    <3>2. CASE Compiled(c)
      BY <2>2, <3>2 DEF Compiled, Waited
    <3>3. CASE Ask(c) \/ Trip(c) \/ Link(c) \/ LinkRefused(c) \/ Install(c)
      BY <2>2, <3>3 DEF Ask, Trip, Link, LinkRefused, Install, Phases, Owned
    <3>4. CASE RecipeFails(c)
      BY <2>2, <3>4 DEF RecipeFails, Step, Phases, Owned, TypeOK
    <3> QED
      BY <3>1, <3>2, <3>3, <3>4 DEF Moves, Recipe
  <2> QED
    BY <2>1, <2>2
<1> QED
  BY <1>3, <1>4 DEF Phases, Unowned

LEMMA PhasesUnit ==
  ASSUME TypeOK, Phases, NEW c \in Fanout, NEW u \in Units, UnitDone(c, u)
  PROVE  Phases'
<1>1. UNCHANGED <<pc, todo, fail, status, recipe>>
  BY DEF UnitDone, script
<1>2. \A d \in Fanout : jobs'[d] \subseteq jobs[d]
  BY DEF UnitDone, TypeOK
<1>3. Owned'
  BY <1>1, <1>2 DEF Phases, Owned
<1> QED
  BY <1>1, <1>3 DEF Phases, Begun, OneByOne, Spreading, Ended, ErrorsReported, EarlyReady

LEMMA PhasesAlways == Spec => [](TypeOK /\ Phases)
<1>1. TypeOK /\ Phases /\ [Next]_vars => Phases'
  <2> SUFFICES ASSUME TypeOK, Phases, [Next]_vars PROVE Phases'
    OBVIOUS
  <2>1. CASE Script
    BY <2>1, PhasesQuiet, PhasesLoops, PhasesLoopBodies, PhasesBegin DEF Script
  <2>2. CASE \E c \in Components : Moves(c)
    BY <2>2, PhasesRecipe
  <2>3. CASE \E c \in Fanout : \E u \in Units : UnitDone(c, u)
    BY <2>3, PhasesUnit
  <2>4. CASE UNCHANGED vars
    BY <2>4, PhasesQuiet
  <2> QED
    BY <2>1, <2>2, <2>3, <2>4 DEF Next, Unattended, Moves
<1> QED
  BY <1>1, PhasesInit, TypeCorrect, PTL DEF Spec

(* build_all.sh loses no failure of a recipe, in either mode: exit status  *)
(* 0 means that every build.sh succeeded.                                  *)
THEOREM FailuresAreReported == Spec => []ErrorsReported
<1>1. Phases => ErrorsReported
  BY DEF Phases
<1> QED
  BY <1>1, PhasesAlways, PTL

(* No recipe of the second loop ever runs before bil/_* is complete.       *)
THEOREM EarlyLibrariesReady == Spec => []EarlyReady
<1>1. Phases => EarlyReady
  BY DEF Phases
<1> QED
  BY <1>1, PhasesAlways, PTL

(* Nothing writes to build/ behind the script once its loops are over.     *)
THEOREM NothingLeftRunning == Spec => []Quiescent
<1>1. TypeOK /\ Phases => Quiescent
  <2> SUFFICES ASSUME TypeOK, Phases, pc \in Collecting \cup {"stopped"},
                      NEW c \in Components
               PROVE  ~Active(c) /\ (c \in Fanout \ Foreground => jobs[c] = {})
    BY DEF Quiescent
  <2>1. ~Active(c)
    BY DEF Phases, Ended
  <2>2. c \in Fanout \ Foreground => jobs[c] = {}
    BY <2>1 DEF Phases, Owned
  <2> QED
    BY <2>1, <2>2
<1> QED
  BY <1>1, PhasesAlways, PTL

-----------------------------------------------------------------------------
(* Recipes that clear their objects.                                       *)

LEMMA ClearedInit == Init => Cleared
BY ConstantsOK DEF Init, Cleared

LEMMA ClearedRecipe ==
  ASSUME TypeOK, Cleared, NEW c \in Components, Moves(c)
  PROVE  Cleared'
<1> SUFFICES ASSUME NEW d \in Clears
             PROVE  /\ <<d, "stale">> \notin unsound'
                    /\ recipe'[d] \in {"compile", "link"} =>
                         \A u \in Units : obj'[d][u] # "stale"
  BY DEF Cleared
<1>1. d \in Fanout /\ d \in Components
  BY ConstantsOK
<1> USE <1>1 DEF TypeOK, Step, files
<1>2. CASE Prepare(c) \/ Answered(c)
  BY <1>2 DEF Prepare, Answered, Prepared, Cleaned, Cleared
<1>3. CASE Ask(c) \/ Trip(c) \/ Compiled(c) \/ LinkRefused(c) \/ RecipeFails(c)
  BY <1>3 DEF Ask, Trip, Compiled, LinkRefused, RecipeFails, Cleared
<1>4. CASE Link(c)
  <2>1. <<d, "stale">> \notin Unsound(c)
    BY <1>4 DEF Link, Unsound, Cleared
  <2> QED
    BY <1>4, <2>1 DEF Link, Cleared
<1>5. CASE Install(c)
  BY <1>5 DEF Install, Cleared
<1> QED
  BY <1>2, <1>3, <1>4, <1>5 DEF Moves, Recipe

LEMMA ClearedScript == TypeOK /\ Cleared /\ Script => Cleared'
<1> SUFFICES ASSUME TypeOK, Cleared, Script PROVE Cleared'
  OBVIOUS
<1>1. CASE Begin
  BY <1>1, ConstantsOK DEF Begin, Cleared
<1>2. CASE \E e \in Components : BuildOne(e) \/ CheckOne(e) \/ Spawn(e) \/ WaitFor(e)
  BY <1>2, ConstantsOK
     DEF BuildOne, CheckOne, Spawn, WaitFor, Cleared, TypeOK, files, recipes
<1>3. CASE UNCHANGED <<recipe, obj>> /\ unsound' = unsound
  BY <1>3 DEF Cleared
<1>4. Begin \/ (\E e \in Components : BuildOne(e) \/ CheckOne(e) \/ Spawn(e) \/ WaitFor(e))
        \/ (UNCHANGED <<recipe, obj>> /\ unsound' = unsound)
  BY DEF Script, MakeDisk, AddLibraries, StepFails, EarlyDone, LateDone, Spawned, Judge,
         CopyCommands, MakeCommands, ArchiveLibraries, CopyElves, TarHeaders, CopyToBuild,
         Finish, recipes, files
<1> QED
  BY <1>1, <1>2, <1>3, <1>4

LEMMA ClearedUnit ==
  ASSUME TypeOK, Cleared, NEW c \in Fanout, NEW u \in Units, UnitDone(c, u)
  PROVE  Cleared'
<1>1. UNCHANGED <<recipe, unsound>>
  BY DEF UnitDone, files
<1>2. PICK o \in {"fresh", "missing", obj[c][u]} : obj' = [obj EXCEPT ![c][u] = o]
  BY DEF UnitDone, TypeOK
<1>3. \A d \in Fanout, v \in Units : obj'[d][v] = "stale" => obj[d][v] = "stale"
  BY <1>2 DEF TypeOK
<1> QED
  BY <1>1, <1>3, ConstantsOK DEF Cleared

(* A recipe that clears its objects never passes off one of an earlier    *)
(* run, in any number of runs and whatever its link can do without.        *)
THEOREM StaleNeverLinked == Spec => []NothingStale
<1>1. TypeOK /\ Cleared /\ [Next]_vars => Cleared'
  <2> SUFFICES ASSUME TypeOK, Cleared, [Next]_vars PROVE Cleared'
    OBVIOUS
  <2>1. CASE UNCHANGED vars
    BY <2>1 DEF vars, recipes, files, Cleared
  <2> QED
    BY <2>1, ClearedScript, ClearedRecipe, ClearedUnit DEF Next, Unattended, Moves
<1>2. Cleared => NothingStale
  BY DEF Cleared, NothingStale
<1> QED
  BY <1>1, <1>2, ClearedInit, TypeCorrect, PTL DEF Spec

-----------------------------------------------------------------------------
(* What reaches build/, when copies may fail, and what is to blame when    *)
(* the script stops.                                                       *)

LEMMA CheckedInit == Init => Delivered /\ Gathered /\ Checked /\ Blamed
<1> SUFFICES ASSUME Init PROVE Delivered /\ Gathered /\ Checked /\ Blamed
  OBVIOUS
<1>1. pc = "start" /\ status = "none" /\ fail = FALSE
  BY DEF Init
<1>2. \A c \in Components : recipe[c] = "off"
  BY DEF Init
<1>3. Delivered
  BY <1>2 DEF Delivered
<1>4. Checked
  BY <1>1 DEF Checked, CommandsReported
<1>5. Blamed
  BY <1>1, <1>2, ConstantsOK DEF Blamed, Rerunnable
<1>6. Gathered
  BY <1>1 DEF Gathered
<1> QED
  BY <1>3, <1>4, <1>5, <1>6

(* What a copy to build/ does: it goes on with what was copied, or ends    *)
(* the script under `set -e`.                                              *)
LEMMA Copying ==
  ASSUME NEW got, NEW there, NEW wanted, NEW next, CopyToBuild(got, there, wanted, next)
  PROVE  /\ faulted' = IF got = there THEN faulted ELSE faulted \cup {"copy"}
         /\ UNCHANGED <<recipe, jobs, obj, left, tree, made, zlibs, tocp, unsound,
                        fast, errexit, fail, run>>
         /\ \/ /\ pc' = next /\ status' = status /\ build' = build \cup got
               /\ got = wanted \/ ~errexit
            \/ /\ pc' = "stopped" /\ status' = "error" /\ build' = build
               /\ got # wanted /\ errexit
BY DEF CopyToBuild, CopyFault, Fault, CopyPasses, Goto, Exit, recipes

LEMMA DeliveredRecipe ==
  ASSUME TypeOK, Phases, Delivered, NEW c \in Components, Moves(c)
  PROVE  Delivered'
<1> USE DEF TypeOK, Step
<1>1. pc # "stopped" /\ pc' = pc
  <2>1. Active(c) /\ pc' = pc
    BY DEF Moves, Recipe, Prepare, Answered, Prepared, Ask, Trip, Compiled, Link, LinkRefused, Install, RecipeFails,
           script
  <2> QED
    BY <2>1 DEF Phases, Ended
<1>2. tree \subseteq tree' /\ build \subseteq build' /\ tocp \subseteq tocp'
  BY DEF Moves, Recipe, Prepare, Answered, Prepared, Ask, Trip, Compiled, Link, LinkRefused, Install, RecipeFails,
         files, Grafted, Listed
<1>3. \A d \in Components \ {c} : recipe'[d] = recipe[d]
  BY DEF Moves, Recipe, Prepare, Answered, Prepared, Ask, Trip, Compiled, Link, LinkRefused, Install, RecipeFails
<1>4. /\ recipe'[c] = "ok" => IF c \in Synced THEN c \in tocp' ELSE c \in build'
      /\ recipe'[c] \in {"compile", "link", "install", "ok"} /\ c \in Synced => c \in tree'
  BY <1>1, <1>2 DEF Moves, Recipe, Prepare, Answered, Prepared, Ask, Trip, Compiled, Link, LinkRefused, Install, RecipeFails, Grafted, Listed, Delivered
<1> QED
  BY <1>1, <1>2, <1>3, <1>4 DEF Delivered

LEMMA DeliveredScript ==
  ASSUME TypeOK, Phases, Delivered, Script
  PROVE  Delivered'
<1> USE DEF TypeOK, Delivered, Goto, Exit, recipes, files, script
<1>1. CASE Begin
  BY <1>1 DEF Begin
<1>2. CASE AddLibraries
  BY <1>2 DEF AddLibraries, Phases, Begun
<1>3. CASE \E e \in Components : BuildOne(e) \/ CheckOne(e) \/ Spawn(e) \/ WaitFor(e)
  BY <1>3 DEF BuildOne, CheckOne, Spawn, WaitFor
<1>4. CASE /\ UNCHANGED <<recipe, tocp>> /\ pc # "stopped"
           /\ tree \subseteq tree' /\ build \subseteq build'
  BY <1>4
<1>5. CASE pc' = "stopped"
  BY <1>5
<1>6. CASE CopyCommands
  BY <1>6 DEF CopyCommands
<1>7. CASE ArchiveLibraries
  BY <1>7, Copying DEF ArchiveLibraries
<1>8. CASE CopyElves \/ TarHeaders
  BY <1>8, Copying DEF CopyElves, TarHeaders
<1>9. CASE MakeDisk \/ EarlyDone \/ LateDone \/ Spawned \/ Judge \/ MakeCommands
  BY <1>9, <1>4, <1>5 DEF MakeDisk, EarlyDone, LateDone, Spawned, Judge, MakeCommands
<1>10. CASE StepFails \/ Finish
  BY <1>10, <1>5 DEF StepFails, Finish
<1> QED
  BY <1>1, <1>2, <1>3, <1>6, <1>7, <1>8, <1>9, <1>10 DEF Script

(* Past the loops every synced command is on the tree and in tocp.txt.     *)
LEMMA SyncedThere ==
  ASSUME TypeOK, Phases, Delivered, pc \in Collecting
  PROVE  Synced \subseteq tree /\ Synced = tocp
<1>1. \A c \in Components : recipe[c] = "ok"
  BY DEF Phases, Ended
<1>2. pc # "stopped" /\ Synced \subseteq Components
  BY ConstantsOK
<1> QED
  BY <1>1, <1>2 DEF Delivered, TypeOK

(* The two copies of CopyCommands do not stand in for each other.          *)
LEMMA Parted ==
  ASSUME NEW got \in SUBSET Commands, NEW shared \in SUBSET (build \cap Components),
         got \cup shared = Commands \cup (build \cap Components)
  PROVE  got = Commands
BY ConstantsOK

LEMMA CheckedScript ==
  ASSUME TypeOK, Phases, Delivered, Checked, Script
  PROVE  Checked'
<1> USE DEF TypeOK, Checked, CommandsReported, Goto, Exit, recipes, files, script
<1>1. CASE Begin
  BY <1>1 DEF Begin
<1>2. CASE MakeDisk \/ AddLibraries \/ StepFails
  BY <1>2 DEF MakeDisk, AddLibraries, StepFails
<1>3. CASE EarlyDone
  BY <1>3 DEF EarlyDone, Phases, Ended
<1>4. CASE LateDone \/ Spawned \/ Judge
  BY <1>4 DEF LateDone, Spawned, Judge
<1>5. CASE \E e \in Components : BuildOne(e) \/ CheckOne(e) \/ Spawn(e) \/ WaitFor(e)
  BY <1>5 DEF BuildOne, CheckOne, Spawn, WaitFor
<1>6. CASE CopyCommands
  <2> PICK got \in SUBSET Commands, shared \in SUBSET (build \cap Components) :
        CopyCommands!2!(got, shared)
    BY <1>6 DEF CopyCommands
  <2>1. pc' = "disk" /\ errexit => tree' = tree \cup Commands
    BY Parted DEF CopyPasses
  <2> QED
    BY <1>6, <2>1 DEF CopyCommands
<1>7. CASE MakeCommands
  <2>1. Synced \subseteq tree
    BY <1>7, SyncedThere DEF MakeCommands
  <2> QED
    BY <1>7, <2>1 DEF MakeCommands
<1>8. CASE ArchiveLibraries
  BY <1>8, Copying DEF ArchiveLibraries, Phases, Ended
<1>9. CASE CopyElves
  <2>1. Commands \cup Synced \subseteq Elves
    BY <1>9, SyncedThere DEF CopyElves, Elves
  <2> QED
    BY <1>9, <2>1, Copying DEF CopyElves, Phases, Ended
<1>10. CASE TarHeaders
  BY <1>10, Copying DEF TarHeaders, Phases, Ended
<1>11. CASE Finish
  BY <1>11 DEF Finish
<1> QED
  BY <1>1, <1>2, <1>3, <1>4, <1>5, <1>6, <1>7, <1>8, <1>9, <1>10, <1>11 DEF Script

LEMMA CheckedRecipe ==
  ASSUME Checked, NEW c \in Components, Moves(c)
  PROVE  Checked'
<1>1. UNCHANGED script /\ tree \subseteq tree' /\ build \subseteq build' /\ made' = made
  BY DEF Moves, Recipe, Prepare, Answered, Prepared, Ask, Trip, Compiled, Link, LinkRefused, Install, RecipeFails,
         files, Grafted
<1> QED
  BY <1>1 DEF Checked, CommandsReported, script

LEMMA CheckedUnit ==
  ASSUME Checked, NEW c \in Fanout, NEW u \in Units, UnitDone(c, u)
  PROVE  Checked'
BY DEF Checked, CommandsReported, UnitDone, script, files

LEMMA GatheredScript ==
  ASSUME TypeOK, Phases, Delivered, Gathered, Script
  PROVE  Gathered'
<1> USE DEF TypeOK, Products, Gathered, Goto, Exit, Fault, recipes, files, script
<1>1. CASE Begin
  BY <1>1 DEF Begin
<1>2. CASE MakeDisk \/ StepFails
  BY <1>2 DEF MakeDisk, StepFails
<1>3. CASE AddLibraries
  BY <1>3 DEF AddLibraries, CopyFault
<1>4. CASE EarlyDone \/ LateDone \/ Spawned
  BY <1>4 DEF EarlyDone, LateDone, Spawned
<1>5. CASE Judge
  BY <1>5 DEF Judge
<1>6. CASE CopyCommands
  <2> PICK got \in SUBSET Commands, shared \in SUBSET (build \cap Components) :
        CopyCommands!2!(got, shared)
    BY <1>6 DEF CopyCommands
  <2>1. "copy" \notin faulted' => got = Commands /\ "copy" \notin faulted
    BY Parted DEF CopyFault
  <2> QED
    BY <1>6, <2>1 DEF CopyCommands
<1>7. CASE MakeCommands
  BY <1>7, SyncedThere DEF MakeCommands
<1>8. CASE ArchiveLibraries
  BY <1>8, Copying DEF ArchiveLibraries
<1>9. CASE CopyElves
  <2>1. "copy" \notin faulted => Elves \cap made = Elves /\ Commands \cup Synced = Elves
    BY <1>9, SyncedThere DEF CopyElves, Elves
  <2> QED
    BY <1>9, <2>1, Copying DEF CopyElves
<1>10. CASE TarHeaders
  BY <1>10, Copying DEF TarHeaders
<1>11. CASE Finish
  <2>1. \A c \in Components \ Synced : c \in build
    BY <1>11 DEF Finish, Phases, Ended, Delivered
  <2> QED
    BY <1>11, <2>1 DEF Finish
<1>12. CASE \E e \in Components : BuildOne(e) \/ CheckOne(e) \/ Spawn(e) \/ WaitFor(e)
  BY <1>12 DEF BuildOne, CheckOne, Spawn, WaitFor
<1> QED
  BY <1>1, <1>2, <1>3, <1>4, <1>5, <1>6, <1>7, <1>8, <1>9, <1>10, <1>11, <1>12 DEF Script

LEMMA GatheredRecipe ==
  ASSUME TypeOK, Phases, Gathered, NEW c \in Components, Moves(c)
  PROVE  Gathered'
<1>1. /\ UNCHANGED <<pc, status, made>> /\ Active(c)
      /\ tree \subseteq tree' /\ build \subseteq build' /\ faulted \subseteq faulted'
  BY DEF Moves, Recipe, Prepare, Answered, Prepared, Ask, Trip, Compiled, Link, LinkRefused,
         Install, RecipeFails, Fault, script, files, Grafted
<1>2. pc # "stopped" /\ status = "none"
  BY <1>1 DEF Phases, Ended
<1> QED
  BY <1>1, <1>2 DEF Gathered

LEMMA GatheredUnit ==
  ASSUME Gathered, NEW c \in Fanout, NEW u \in Units, UnitDone(c, u)
  PROVE  Gathered'
<1>1. UNCHANGED <<pc, status, made, tree, build>> /\ faulted \subseteq faulted'
  BY DEF UnitDone, Fault, script, files
<1> QED
  BY <1>1 DEF Gathered

LEMMA BlamedScript ==
  ASSUME TypeOK, Phases, Delivered, Checked, Blamed, Script
  PROVE  Blamed'
<1> USE DEF Blamed, Rerunnable, Tripped, CloneRefused, ArchiveBroken, TreeInTheWay,
            Goto, Exit, Fault, recipes, files, script
<1>1. CASE Begin
  BY <1>1, ConstantsOK DEF Begin, TypeOK
<1>2. CASE MakeDisk \/ StepFails \/ EarlyDone \/ LateDone \/ Spawned
  BY <1>2 DEF MakeDisk, StepFails, EarlyDone, LateDone, Spawned
<1>3. CASE \E e \in Components : BuildOne(e) \/ Spawn(e)
  <2>1. PICK e \in Components : BuildOne(e) \/ Spawn(e)
    BY <1>3
  <2>2. /\ recipe' = recipe \/ (recipe[e] = "off" /\ recipe' = [recipe EXCEPT ![e] = "prepare"])
        /\ UNCHANGED <<pc, status, fail, jobs, obj, left, zlibs, faulted>>
    BY <2>1, ConstantsOK DEF BuildOne, Spawn, SkipsEarly, Phases, Spreading
  <2>3. pc # "stopped" /\ status # "error"
    BY <2>1 DEF BuildOne, Spawn, Phases, Ended
  <2> QED
    BY <2>2, <2>3, ConstantsOK DEF TypeOK
<1>4. CASE \E e \in Components : CheckOne(e)
  <2>1. PICK e \in Components : CheckOne(e)
    BY <1>4
  <2>2. /\ UNCHANGED <<recipe, jobs, obj, left, zlibs, faulted, fail>>
        /\ pc # "stopped" /\ (status' = status \/ recipe[e] = "failed")
    BY <2>1 DEF CheckOne
  <2>3. recipe[e] = "failed" =>
          faulted # {} \/ (e \in Clones \cup Keeps \cup Asks /\ left[e] # "nothing")
    OBVIOUS
  <2> QED
    BY <2>2, <2>3
<1>5. CASE \E e \in Components : WaitFor(e)
  <2>1. PICK e \in Components : WaitFor(e)
    BY <1>5
  <2>2. UNCHANGED <<pc, status, recipe, jobs, obj, left, zlibs, faulted>>
    BY <2>1 DEF WaitFor
  <2>3. fail' => \E c \in Components : recipe[c] = "failed"
    BY <2>1 DEF WaitFor
  <2> QED
    BY <2>2, <2>3
<1>6. CASE Judge
  <2>1. UNCHANGED <<recipe, jobs, obj, left, zlibs, faulted, fail>> /\ pc # "stopped"
    BY <1>6 DEF Judge
  <2>2. status' = status \/ fail
    BY <1>6 DEF Judge
  <2>3. fail => \E c \in Components :
                 /\ recipe[c] = "failed"
                 /\ faulted # {} \/ (c \in Clones \cup Keeps \cup Asks /\ left[c] # "nothing")
    OBVIOUS
  <2> QED
    BY <2>1, <2>2, <2>3
<1>7. CASE AddLibraries \/ CopyCommands \/ MakeCommands \/ Finish
  <2>1. /\ UNCHANGED <<recipe, jobs, obj, left, fail>> /\ faulted \subseteq faulted'
        /\ pc # "stopped" /\ (zlibs \subseteq zlibs' \/ pc' = "stopped")
    BY <1>7 DEF AddLibraries, CopyCommands, MakeCommands, Finish, CopyFault
  <2>2. status' = "error" => status = "error" \/ faulted' # {}
    BY <1>7 DEF AddLibraries, CopyCommands, MakeCommands, Finish, CopyFault, CopyPasses
  <2> QED
    BY <2>1, <2>2
<1>8. CASE ArchiveLibraries \/ CopyElves \/ TarHeaders
  <2>1. errexit /\ pc = "elves" => Elves \cap made = Elves
    BY SyncedThere DEF Elves, Checked
  <2>2. PICK got, there, wanted, next :
          /\ CopyToBuild(got, there, wanted, next)
          /\ errexit => there = wanted
          /\ pc # "stopped"
    BY <1>8, <2>1 DEF ArchiveLibraries, CopyElves, TarHeaders
  <2>3. /\ UNCHANGED <<recipe, jobs, obj, left, zlibs, fail>> /\ faulted \subseteq faulted'
        /\ status' = "error" => status = "error" \/ faulted' # {}
    BY <2>2, Copying
  <2> QED
    BY <2>2, <2>3
<1> QED
  BY <1>1, <1>2, <1>3, <1>4, <1>5, <1>6, <1>7, <1>8 DEF Script

(* Linking is refused only after a compiler has failed: every object is    *)
(* there once the compilers have ended, and so are the early libraries.    *)
LEMMA LinkRefusedFaulted ==
  ASSUME TypeOK, Phases, Blamed, NEW c \in Components, LinkRefused(c)
  PROVE  faulted # {}
<1>1. recipe[c] = "link" /\ ~Linkable(c)
  BY DEF LinkRefused
<1>2. c \in NeedsEarly => Early \subseteq zlibs
  <2> SUFFICES ASSUME c \in NeedsEarly PROVE Early \subseteq zlibs
    OBVIOUS
  <2>1. c \in Late /\ pc # "stopped"
    BY <1>1, ConstantsOK DEF Phases, Ended
  <2>2. \A e \in Early : recipe[e] = "ok"
    BY <1>1, <2>1 DEF Phases, EarlyReady
  <2> QED
    BY <2>1, <2>2 DEF Blamed
<1>3. PICK u \in Units : c \in Fanout /\ obj[c][u] = "missing"
  BY <1>1, <1>2, ConstantsOK DEF Linkable
<1>4. jobs[c] = {}
  BY <1>1, <1>3 DEF Phases, Owned
<1> QED
  BY <1>1, <1>3, <1>4 DEF Blamed

LEMMA BlamedRecipe ==
  ASSUME TypeOK, Phases, Blamed, NEW c \in Components, Moves(c)
  PROVE  Blamed'
<1> USE DEF TypeOK, Step
<1>1. /\ Active(c) /\ UNCHANGED <<pc, status, fail>>
  BY DEF Moves, Recipe, Prepare, Answered, Prepared, Ask, Trip, Compiled, Link, LinkRefused,
         Install, RecipeFails, script
<1>2. pc # "stopped" /\ status = "none"
  BY <1>1 DEF Phases, Ended
<1>3. /\ \A d \in Components \ {c} : recipe'[d] = recipe[d] /\ left'[d] = left[d]
      /\ \A d \in Fanout \ {c} : jobs'[d] = jobs[d] /\ obj'[d] = obj[d]
      /\ faulted \subseteq faulted'
      /\ zlibs \subseteq zlibs'
  <2>1. CASE Prepare(c) \/ Answered(c)
    BY <2>1, ConstantsOK DEF Prepare, Answered, Prepared, Cleaned
  <2>2. CASE Ask(c) \/ Trip(c) \/ Compiled(c) \/ Link(c) \/ LinkRefused(c)
    BY <2>2, ConstantsOK DEF Ask, Trip, Compiled, Link, LinkRefused, files
  <2>3. CASE Install(c)
    BY <2>3, ConstantsOK DEF Install, Published
  <2>4. CASE RecipeFails(c)
    BY <2>4, ConstantsOK DEF RecipeFails, Fault, files
  <2> QED
    BY <2>1, <2>2, <2>3, <2>4 DEF Moves, Recipe
<1>4. recipe'[c] = "failed" => faulted' # {} \/ Tripped(c)'
  <2>1. CASE LinkRefused(c)
    BY <2>1, LinkRefusedFaulted DEF LinkRefused
  <2>2. CASE Trip(c)
    BY <2>2 DEF Trip, Tripped, CloneRefused, ArchiveBroken, TreeInTheWay
  <2> QED
    BY <2>1, <2>2 DEF Moves, Recipe, Prepare, Answered, Prepared, Ask, Compiled, Link, Install,
                RecipeFails, Fault
<1>5. c \in Fanout /\ recipe'[c] \in {"compile", "link"} =>
        faulted' # {} \/ \A u \in Units : u \in jobs'[c] \/ obj'[c][u] = "fresh"
  <2>1. CASE Prepare(c) \/ Answered(c)
    BY <2>1 DEF Prepare, Answered, Prepared
  <2>2. CASE Compiled(c)
    BY <2>2 DEF Compiled, Blamed
  <2> QED
    BY <2>1, <2>2 DEF Moves, Recipe, Ask, Trip, Link, LinkRefused, Install, RecipeFails
<1>6. c \in Early /\ recipe'[c] = "ok" => c \in zlibs'
  BY DEF Moves, Recipe, Prepare, Answered, Prepared, Ask, Trip, Compiled, Link, LinkRefused,
         Install, RecipeFails, Published
<1>7. fail' => \E d \in Components : recipe'[d] = "failed"
  <2> SUFFICES ASSUME fail PROVE \E d \in Components : recipe'[d] = "failed"
    BY <1>1
  <2>1. PICK d \in Components : recipe[d] = "failed"
    BY DEF Blamed
  <2> QED
    BY <1>1, <1>3, <2>1
<1>8. \A d \in Components : recipe'[d] = "failed" => faulted' # {} \/ Tripped(d)'
  BY <1>3, <1>4 DEF Blamed, Tripped, CloneRefused, ArchiveBroken, TreeInTheWay
<1>9. \A d \in Fanout : recipe'[d] \in {"compile", "link"} =>
        faulted' # {} \/ \A u \in Units : u \in jobs'[d] \/ obj'[d][u] = "fresh"
  <2> SUFFICES ASSUME NEW d \in Fanout, d # c, recipe'[d] \in {"compile", "link"},
                      faulted' = {}, NEW u \in Units
               PROVE  u \in jobs'[d] \/ obj'[d][u] = "fresh"
    BY <1>5
  <2>1. /\ recipe'[d] = recipe[d] /\ jobs'[d] = jobs[d] /\ obj'[d] = obj[d]
        /\ faulted = {}
    BY <1>3, ConstantsOK
  <2> QED
    BY <2>1 DEF Blamed
<1>10. \A e \in Early : recipe'[e] = "ok" => e \in zlibs'
  BY <1>2, <1>3, <1>6 DEF Blamed
<1> QED
  BY <1>1, <1>2, <1>7, <1>8, <1>9, <1>10 DEF Blamed, Rerunnable

LEMMA BlamedUnit ==
  ASSUME TypeOK, Blamed, NEW c \in Fanout, NEW u \in Units, UnitDone(c, u)
  PROVE  Blamed'
<1>1. /\ UNCHANGED <<pc, status, fail, recipe, left, zlibs>>
      /\ jobs' = [jobs EXCEPT ![c] = @ \ {u}]
      /\ faulted \subseteq faulted'
  BY DEF UnitDone, Fault, script, files
<1>2. \A d \in Fanout, v \in Units :
        u # v \/ c # d => (v \in jobs[d] => v \in jobs'[d]) /\ obj'[d][v] = obj[d][v]
  BY <1>1 DEF UnitDone, TypeOK
<1>3. faulted' # {} \/ obj'[c][u] = "fresh"
  BY DEF UnitDone, Fault, TypeOK
<1>4. \A d \in Fanout : recipe'[d] \in {"compile", "link"} =>
        faulted' # {} \/ \A v \in Units : v \in jobs'[d] \/ obj'[d][v] = "fresh"
  <2> SUFFICES ASSUME NEW d \in Fanout, recipe[d] \in {"compile", "link"}, faulted' = {},
                      NEW v \in Units
               PROVE  v \in jobs'[d] \/ obj'[d][v] = "fresh"
    BY <1>1
  <2>1. v \in jobs[d] \/ obj[d][v] = "fresh"
    BY <1>1 DEF Blamed
  <2> QED
    BY <1>2, <1>3, <2>1
<1> QED
  BY <1>1, <1>4 DEF Blamed, Rerunnable, Tripped, CloneRefused, ArchiveBroken, TreeInTheWay

LEMMA CheckedAlways ==
  Spec => [](TypeOK /\ Phases /\ Delivered /\ Gathered /\ Checked /\ Blamed)
<1> DEFINE Kept == Delivered /\ Gathered /\ Checked /\ Blamed
<1>1. TypeOK /\ Phases /\ Kept /\ [Next]_vars => Kept'
  <2> SUFFICES ASSUME TypeOK, Phases, Kept, [Next]_vars PROVE Kept'
    OBVIOUS
  <2>1. CASE Script
    BY <2>1, DeliveredScript, GatheredScript, CheckedScript, BlamedScript
  <2>2. CASE \E c \in Components : Moves(c)
    BY <2>2, DeliveredRecipe, GatheredRecipe, CheckedRecipe, BlamedRecipe
  <2>3. CASE \E c \in Fanout : \E u \in Units : UnitDone(c, u)
    <3>1. Delivered'
      BY <2>3 DEF UnitDone, Delivered, script, files
    <3> QED
      BY <2>3, <3>1, GatheredUnit, CheckedUnit, BlamedUnit
  <2>4. CASE UNCHANGED vars
    <3>1. UNCHANGED <<pc, fast, errexit, fail, status, recipe, jobs, obj, left, tree, made,
                      zlibs, tocp, build, faulted>>
      BY <2>4 DEF vars, script, recipes, files
    <3> QED
      BY <3>1 DEF Delivered, Gathered, Checked, CommandsReported, Blamed, Rerunnable, Tripped,
                  CloneRefused, ArchiveBroken, TreeInTheWay
  <2> QED
    BY <2>1, <2>2, <2>3, <2>4 DEF Next, Unattended, Moves
<1> QED
  BY <1>1, CheckedInit, PhasesAlways, PTL DEF Spec

(* Whatever copies fail and whatever an earlier run left in tocp.txt, when *)
(* the commands are collected each of its lines names one that `make disk` *)
(* compiled, and no synced command is missing.                             *)
THEOREM TocpAlwaysBacked == Spec => []TocpBacked
<1>1. TypeOK /\ Phases /\ Delivered /\ Checked => TocpBacked
  BY SyncedThere DEF TocpBacked, Checked
<1> QED
  BY <1>1, CheckedAlways, PTL

(* In fast mode, where copies run under `set -e`, exit status 0 means that *)
(* every command is in build/, also when copies fail.                      *)
THEOREM CommandsAreReported == Spec => []CommandsReported
<1>1. Checked => CommandsReported
  BY DEF Checked
<1> QED
  BY <1>1, CheckedAlways, PTL

(* A run in which no command failed by itself only stops with an error     *)
(* because of a clone, a broken archive or a tree that an earlier run left *)
(* behind, in any number of runs.                                          *)
THEOREM AlwaysRerunnable == Spec => []Rerunnable
<1>1. Blamed => Rerunnable
  BY DEF Blamed
<1> QED
  BY <1>1, CheckedAlways, PTL

(* In either mode, a build that ends with status 0 and lost no copy is     *)
(* complete.                                                               *)
THEOREM OnlyCopiesAreLost == Spec => []CompleteUnlessLost
<1>1. Gathered => CompleteUnlessLost
  BY DEF Gathered, CompleteUnlessLost
<1> QED
  BY <1>1, CheckedAlways, PTL

-----------------------------------------------------------------------------
(* Every step of the script or of a recipe is a step of the contract.      *)

LEMMA ContractStep ==
  ASSUME TypeOK, Phases, Delivered, Gathered, Checked, TypeOK', [Next]_vars
  PROVE  [Contract!Next]_(Contract!vars)
<1> USE DEF Contract!Next, Contract!vars, Contract!Begin, Contract!Deliver,
            Contract!Succeed, Contract!Fail, Goto, Exit, Gathered, files, script
<1>1. build' \subseteq Products
  BY DEF TypeOK
<1>2. CASE Begin
  BY <1>2 DEF Begin
<1>3. CASE /\ pc # "stopped" /\ UNCHANGED <<status, fast>> /\ build \subseteq build'
  BY <1>1, <1>3 DEF TypeOK
<1>4. CASE pc # "stopped" /\ status' = "error" /\ UNCHANGED <<fast, build>>
  BY <1>4 DEF TypeOK
<1>5. CASE Finish
  <2>1. Components \ Synced \subseteq build
    BY <1>5 DEF Finish, Phases, Ended, Delivered
  <2>2. fast => Commands \cup Synced \cup {Headers} \subseteq build
    BY <1>5 DEF Finish, Checked
  <2> QED
    BY <1>5, <2>1, <2>2 DEF Finish, TypeOK
<1>6. CASE UNCHANGED <<status, fast, build>>
  BY <1>6
<1>7. ASSUME Script
      PROVE  \/ Begin \/ Finish
             \/ pc # "stopped" /\ UNCHANGED <<status, fast>> /\ build \subseteq build'
             \/ pc # "stopped" /\ status' = "error" /\ UNCHANGED <<fast, build>>
  <2>1. CASE ArchiveLibraries \/ CopyElves \/ TarHeaders
    BY <2>1, Copying DEF ArchiveLibraries, CopyElves, TarHeaders
  <2>2. CASE \E e \in Components : BuildOne(e) \/ CheckOne(e) \/ Spawn(e) \/ WaitFor(e)
    BY <2>2 DEF BuildOne, CheckOne, Spawn, WaitFor
  <2>3. CASE CopyCommands
    BY <2>3 DEF CopyCommands
  <2> QED
    BY <1>7, <2>1, <2>2, <2>3 DEF Script, MakeDisk, AddLibraries, StepFails, EarlyDone,
       LateDone, Spawned, Judge, MakeCommands
<1>8. ASSUME NEW c \in Components, Moves(c)
      PROVE  pc # "stopped" /\ UNCHANGED <<status, fast>> /\ build \subseteq build'
  <2>1. Active(c) /\ UNCHANGED <<status, fast>> /\ build \subseteq build'
    BY <1>8 DEF Moves, Recipe, Prepare, Answered, Prepared, Ask, Trip, Compiled, Link,
                LinkRefused, Install, RecipeFails
  <2> QED
    BY <2>1 DEF Phases, Ended
<1>9. ASSUME NEW c \in Fanout, NEW u \in Units, UnitDone(c, u)
      PROVE  UNCHANGED <<status, fast, build>>
  BY <1>9 DEF UnitDone
<1> QED
  BY <1>2, <1>3, <1>4, <1>5, <1>6, <1>7, <1>8, <1>9 DEF Next, Unattended, Moves, vars

(* Sequential or fast, build_all.sh implements its contract, whatever      *)
(* fails.                                                                  *)
THEOREM BuildImplementsContract == Spec => ImplementsContract
<1>1. Init => Contract!Init
  BY DEF Init, Contract!Init
<1>2. TypeOK /\ Phases /\ Delivered /\ Gathered /\ Checked /\ TypeOK' /\ [Next]_vars
        => [Contract!Next]_(Contract!vars)
  BY ContractStep
<1> QED
  BY <1>1, <1>2, CheckedAlways, PTL DEF Spec, ImplementsContract, Contract!Spec
=============================================================================
