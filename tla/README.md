# A TLA+ development beside libatron

libatron is a collection of ports for profanOS: a script that clones the
operating system, grafts the ports on it, builds everything and collects the
products for a weekly release, and the ports themselves, most of them vendored
programs with the few files that adapt them. This directory holds TLA+ models of
the parts whose behaviour is more than one pass over data, the TLC runs that
check them, and proofs that TLAPS checks for every value of the constants.

Paths are relative to the root of the repository.

## 1. The system

### Components

| Part | State it keeps | Operations | Model |
|---|---|---|---|
| build pipeline, `build_all.sh` | the profanOS tree, `tocp.txt`, `build/`, the flag `fail`, `set -e`, the background subshells | two sequential loops, or one parallel loop and a loop of `wait`; `make disk` three times; copies; archives | `BuildAll` |
| recipes, `bil/*/build.sh` | their sources and objects, their background compilers | fetch, prepare, compile (some with `cc ... &` and `wait`), link, install | `BuildAll` |
| Doom, zone allocator, `z_zone.c` | a list of blocks that tiles one region, the rover, the owners' pointers | `Z_Malloc`, `Z_Free`, `Z_FreeTags`, `Z_ChangeTag`, `Z_ChangeUser` | `Zone` |
| Doom, game loop, `d_loop.c`, `i_timer.c` | `maketic`, `gametic`, the ring `ticdata`, the last reading of the clock | `TryRunTics`, `NetUpdate`, `BuildNewTic` | `TicLoop` |
| Doom, game state, `g_game.c`, `d_main.c`, `m_menu.c` | `gamestate`, one pending `gameaction`, `usergame`, `demoplayback`, `advancedemo`, `gamekeydown`, the open menu | `G_Ticker`, `G_BuildTiccmd`, `D_ProcessEvents`, `D_DoAdvanceDemo` | `GameFlow` |
| Doom, keyboard, `doomgeneric_profan.c`, `i_input.c`, `d_event.c` | a ring of 64 events, a count of shift keys | `DG_GetKey`, `I_GetEvent`, `D_PostEvent`, `D_PopEvent` | `DoomInput` |
| Doom, lump cache, `w_wad.c`, `r_data.c` | for each lump and each composed texture a pointer that the zone owns | `W_CacheLumpNum`, `W_ReleaseLumpNum`, `R_GetColumn` | `LumpCache` |
| Doom, thinkers, `p_tick.c` | a list with lazy removal | `P_AddThinker`, `P_RemoveThinker`, `P_RunThinkers` | `Movers` |
| Doom, sector movers, `p_plats.c`, `p_ceilng.c`, `p_floor.c`, `p_doors.c` | thinkers, `specialdata` of each sector, `activeplats`, `activeceilings` | the special lines, `T_PlatRaise`, `T_MoveCeiling`, ... | `Movers` |
| Doom, saved games, `p_saveg.c` | a file | `P_ArchiveSpecials`, `P_UnArchiveSpecials`, ... | `Movers`, `GameFlow` |
| Doom, simulation, rendering, sound | levels, pictures | | not modelled |
| halfix, elvis, lite, Lua, sed, unzip, mkisofs, vlink, fortune | | | not modelled |
| libz, libcjson, libschrift, openlibm | | | not modelled |
| sources of GNU make, dash, nasm | | | not modelled |
| `Makefile`, release workflow | | call the script, upload `build/` | the environment of `BuildAll` |

PROJECT.json lists every component with its files and, for those that are left
out, the reason.

### How they interact, and what is hard

* The recipes share `build/`, `profanOS/out/zlibs`, `profanOS/zapps` and
  `tocp.txt`. In fast mode they all run at once, and some have background
  compilers of their own. Any command may fail; the next run starts over what a
  failed one left, broken downloads and unpacked trees included. What makes the
  pipeline correct: no failure is lost, nothing runs behind the script's back,
  early libraries are there for those that link with them, a failed run can be
  repeated, exit status 0 means a complete `build/`. It does not quite keep the last
  three of these promises: what the script copies itself is only looked at in
  fast mode, what compilers in the background answer is not looked at at all,
  and some recipes trip over what they left.
* The zone throws purgable blocks out while `Z_Malloc` scans, so that the scan's
  own pointers may go away under it; owners are told by writing null to their
  pointer. What makes it correct: the list stays a tiling, no pointer is left
  dangling, no header is read that is not one, every call ends.
* The clock goes on between any two steps of the loop, and `NetUpdate`, which
  makes ticcmds, is called from four places, one of them inside the loop that
  runs them. What makes it correct: the ring is never overrun, the game neither
  outruns the clock nor stalls.
* Whoever caches a lump keeps a plain pointer into the zone, over the allocations
  of everybody else. What makes the cache correct: by its tag, the block of each
  pointer that is still in use cannot be thrown out.
* The list of thinkers is changed by the thinkers that it runs, and a removed one
  is freed a tic later. Sectors, two arrays and the saved game refer to the movers
  among them. What makes it correct: nobody is run twice, forgotten or leaked, no
  pointer outlives its mover, and a sector has one mover.
* Keys are typed at any moment and read once a tic, in batches that three
  conditions cut short, into a ring without a test for being full. What makes it
  correct: nothing is lost, reordered or read with another shift state than
  it was typed with (which a repeated press of a shift key upsets).
* Doom has one pending `gameaction`, and the level, the intermission, the
  sequence of demos, the menu and the player write it at different moments of
  the tic or between two tics; key events go to the menu, the game or nobody
  depending on the state when they are processed. What makes it correct: the
  player's game and a demo are never mixed up, no key stays down by itself, what
  is drawn and ticked exists.

## 2. The modules

| Module | What it is |
|---|---|
| `BuildContract` | what the job that runs the build may rely on: `build/` only grows while a build is going on; exit status 0 comes over the products of all recipes and, in fast mode, over all commands and the headers too |
| `BuildAll` | `build_all.sh` and the recipes; ends with the invariants and with `ImplementsContract`, the refinement of `BuildContract` |
| `BuildAllProofs` | proofs about `BuildAll` |
| `Zone` | `z_zone.c`, with the loops of `Z_Malloc` and `Z_FreeTags` step by step |
| `ZoneContract` | what the zone promises to those who keep pointers into it; `Zone` implements it (`ImplementsContract`), `LumpCache` is built on it |
| `ZoneProofs` | proofs about `Zone` |
| `LumpCache` | the cache of lumps and composed textures, and who holds pointers into it |
| `LumpCacheProofs` | proofs about `LumpCache` |
| `TicLoop` | the loop of `d_loop.c` |
| `TicLoopProofs` | proofs about `TicLoop` |
| `GameFlow` | `gamestate` and `gameaction` |
| `GameFlowProofs` | proofs about `GameFlow` |
| `KeyQueue` | what the player may expect of the keyboard: a queue of the keys as they were typed |
| `DoomInput` | from the keyboard to the responders; ends with `ImplementsQueue`, the refinement of `KeyQueue` |
| `DoomInputProofs` | proofs about `DoomInput` |
| `Movers` | the list of thinkers, the movers of sectors, and what of them is saved |
| `MoversProofs` | proofs about `Movers` |
| `Iteration` | lemmas on loops, that is on functions defined by recursion on `0 .. n`, that `MoversProofs` and `DoomInputProofs` rest on |
| `BuildAllMC`, `ZoneMC`, `LumpCacheMC`, `TicLoopMC`, `GameFlowMC`, `DoomInputMC`, `MoversMC` | the instances that TLC checks |

How they compose. `LumpCache` uses the zone by its contract alone: its `tag[l]` is
the tag of the block a pointer of the zone's client points to, and every
`Z_Malloc` is the contract's `Ask`, some `Evict`s and `Grant` or `Refuse`. `Zone`
maps its list of blocks and marks to the same three variables. `KeyQueue` is the
queue of ordered events that `GameFlow` has as `pending`; `DoomInput` shows that
the keyboard delivers it, while `TicLoop` says when `BuildNewTic`, which reads it,
is called. `BuildAll` implements `BuildContract`.

### BuildAll

`pc` is the place in the script, `todo` what its loop has still to go through;
`recipe[c]` is the phase of the `build.sh` of `c` and `jobs[c]` its background
compilers. A recipe differs from another only in the sets it is a member of:
`Fanout` (compiles in the background), `Foreground` (and has a foreground compile
before its `wait`), `Clears` (removes its old objects first), `NeedsEarly`, `Synced`, and
for what a failed run leaves in its directory `Clones` (a clone, which `git clone`
refuses: limine), `Keeps` (an archive whose download broke off, which the
next run unpacks instead of a new one: binutils, jpeg, libpng, libsdl2, libxml2,
openssl) and `Asks` (a tree over which `unzip` asks whether to overwrite: libsdl2). One
action stands for the commands between two `check`s of the script, or between
two points of a recipe where others can observe it. `StepFails` and `RecipeFails`
are the failure of any command; `UnitDone` is the end of a background compiler,
whose status nothing looks at, and it may leave the old object, or none.
`Link` takes the objects it finds, as the recipes do (`build/*.o`), and fails for want
of one only if others refer to a symbol in it: `Needs`. Of perl these are all
but `mathoms.o`; of a shared library there are none.

`CopyPasses` is a copy of the script itself, which no `check` follows: some of it
may stay behind, and only after `set -e`, that is in fast mode and not at the
copies before it, is this the end of the script. `Trip` and `Ask` are what happens
to a recipe that meets what an earlier run left (`Tripped`).

History: `faulted`, what has failed by itself in this run, a checked command or an
unchecked copy; `unsound`, which products were linked from objects of an
earlier run or without one of their objects.

Simplifications. A run begins when the compilers the last one left behind
have ended. What is left in a directory is one thing, `left`, that a successful
run removes; that binutils collects what it installs in a tree of its own, which
a failed run leaves with all that is in it, is not there.

### Zone

An address is a cell, 0 the cap of the list. `hdr` keeps what the memory holds at
each address, headers that have been merged away included, because the code may
still read them; memory that is handed out loses them (`Lost`). `blocks` is
history: the addresses of the list. `mark[u]` is the owner's pointer. `base`,
`scan` and `start` are the variables of the running call, and each iteration of
its loop is an action. Sizes are in cells of one header, so alignment is not
modelled, nor is the `ZONEID` in each header. `Z_ClearZone` is never called;
the dumps and `Z_CheckHeap` only read, and what the last one tests is `Tiled`.
`MayAsk` is what the callers do, read off `w_wad.c`: a variable that is given to
`Z_Malloc` owns nothing yet.

### LumpCache

A holder is a place of the game that calls `W_CacheLumpNum`, with the lump it asks
for and one of five ways of using it: on loan (static until released), kept (static
for ever), for the level, at a glance (`PU_CACHE`, no longer than to the next
call), or as a composed texture. `held` and `looking` say who has a pointer over
other calls and who only until the next. `Sharing` is what the code says at
`wi_stuff.c:1735` and what its callers keep to: two holders of one lump are both of
the kind that never releases or both of the kind that only looks. Uses of a
lump at different times (the flats that `R_PrecacheLevel` and `R_DrawPlanes` use)
count as one holder; the one case of two at the same time is the two faces
the intermission shares with the status bar. A zone file is not mapped
(`wad_file->mapped` is `NULL` in this port), so the first branch of
`W_CacheLumpNum` is left out, and so are the directory and reading files.

### DoomInput

`keyboard` holds the codes that wait in profanOS; `Type` is the environment and may
come between any two steps. `GetKey` is one round of the loop of `I_GetEvent`,
`NoKeyToGet` its end by an empty keyboard or a code without a key; a release ends it
too. `shifted` stands for `data2`, which `GetTypedChar` computes from `shiftdown` when
the code is read. A slot of the ring is emptied when it is taken, as nothing looks at
it again. `known` is what a responder that hears everything takes to be down, as
`gamekeydown` is set (`g_game.c:816-827`); who eats which event is `GameFlow`'s.
`storedemo`, which would stop the events, is only set for a commercial data
file without `map01`, and its early return is left out. The program starts with any keys held but shift.

`KeyQueue` promises that a letter typed under a shift key is a capital, and no other
one is, until the press of a held shift key is repeated: `shiftdown` counts that press
too and its release once, and from then on the queue leaves open what is typed
without shift (`MayBe`). That this exception is a flaw, measured by what the code says of
`shiftdown`, is what `ShiftHeld` and the run `doom_input_shift` show. Whether
profanOS passes repetitions on is outside the repository; `Repeating` is any set of
keys. Outside it is also how many codes profanOS keeps between two reads:
`KbSize + Quick < MAXEVENTS` is an assumption (`InputConstants`), so what `NeverFull` shows is
that the ring is empty whenever a read begins, not that a read cannot fill it.

### Movers

`level` is a record of what `P_SetupLevel` builds: the block at each address, the
links, `specialdata`, the two arrays, and the error that ended the program. Its
operators are named after the functions and map a level to a level, or to the set of
levels that the position of a plane may lead to. `StartRun`, `FreeRemoved`,
`SkipStopped`, `MoverThinks`, `MobjThinks`, `MobjDone` and `EndRun` are the turns of
`P_RunThinkers`. Lines are used between runs and, by a mobj that thinks, within
one. `Reload` saves and loads in one step, since a game is saved and loaded between
tics. A mobj has no position, only the right to use a line, spawn and remove.
`crowded` is history: since the level was built, a ceiling has found no slot in
`activeceilings`.

The bound: no step is taken for which the blocks do not suffice (`noMemory`); that the
zone has room for a thinker is `Zone`'s. An `I_Error` of a plat ends the program.

What is left out: thinkers of lights, which stay for the level, doors of special 14,
the movers `EV_BuildStairs` adds beyond the first, scrolling walls, players.

### TicLoop

`pc` goes through `TryRunTics` ("enter" to "run") and the drawing of the frame.
`Tick` is the clock, between any two steps. The unit of time is a tic; that
`GetAdjustedTime` multiplies milliseconds by 35 in an `int` is the operator
`Adjusted`, which jumps back by twice `HalfRange`. `singletics` is chosen in
`Init`. Only what this port compiles is there: one player, `new_sync` 0, `ticdup`
1; the code for network games is compiled out or not reachable.

### GameFlow

The record `game` holds the variables of `g_game.c` and `d_main.c`. `RunTic` is a
whole call of `RunTic` in `d_net.c`: `D_DoAdvanceDemo` when a demo has ended, then
`G_Ticker` in the order of its parts (reborn, the pending actions, the commands,
the special buttons, the end of the intermission, the ticker of the state), each
an operator on the record; a level that is loaded clears `sendsave`. `D_ProcessEvents` takes one event of `pending` at a
time and gives it to the menu, the game, or nobody; its disjuncts are the
answers of `M_Responder` and `G_Responder`. What a level, an intermission, a file
or a demo does is open: `\E` over the outcomes.

The program starts with the title, with a game (`-warp` and the like) or with
`-loadgame`. In the last case `gamestate` is `GS_LEVEL` from the beginning, as static
memory is 0, and the file may turn out unreadable; `unread` is history: since such a
start no game was begun. What the ticker does in `GS_LEVEL` without a level is
undefined, and the model makes no step there (`Runs`).

Not in the model: pausing, recording, storing and timing demos, the spy view,
cheats, the menus that change no game state, and that a level runs its first tic
under an open menu (`viewz`). `DemoSaves` says whether a demo may hold the command
to save; no run sets it.

## 3. The runs

| Run | Checks | Bounds |
|---|---|---|
| `build_all` | types, `ErrorsReported`, `EarlyReady`, `Quiescent`, `TocpBacked`, `NothingStale`, `Rerunnable`, `CommandsReported`, `CompleteUnlessLost`, `Terminates`, `ImplementsContract` | two runs, each in either mode; one early recipe with background compilers and a foreground compile, three late ones: one that clears its objects and links statically (perl), one that clones and is synchronised (limine), one that keeps its archive and asks (libsdl2, here without its compilers); two source files, one of which nobody refers to; any command, compiler or copy may fail |
| `build_lost_compile_error` | finding (`CompileFailuresReported`) | one run |
| `build_lost_copy` | finding (`ReleaseComplete`) | one run |
| `zone` | `HeapSound`, `MarksSound`, `CursorsSound`, `SweepComplete`, `FailsLate`, `PinnedStay`, `ImplementsContract` | seven cells, requests of one and two cells, two owners, static, level and cache blocks |
| `lump_cache` | `PointersValid`, `Valid` | seven holders of five lumps, two of them shared |
| `tic_loop` | types, `PendingIntact`, `NoError`, `NotAheadOfClock`, `NotIdleTwice`, `Returns` | a ring of four, a lead of three, eleven tics of the clock of which the last three are past the overflow |
| `game_flow` | types, `NoStuckKeys`, `IntermissionLoaded`, `OwnLevel`, `LevelsExist` | one key, two waiting events, two ticcmds ahead, a page of two tics; from the title, from a game and with `-loadgame` |
| `game_no_save` | finding (`SavesOwnGame`) | |
| `movers` | `ListSound`, `PointersLive`, `OneMover`, `TurnOnce`, `Freed`, `Reloaded` | two sectors, eleven lines, plats and ceilings in both, three blocks, one slot in each array |
| `movers_save` | finding (`SavedWhole`) | |
| `doom_input` | `NeverFull`, `NoneStuck`, `ImplementsQueue` | four keys, two of them shifts, one without a meaning; two codes in profanOS, one more during a loop, a ring of four; one repetition of a shift key |
| `doom_input_shift` | finding (`ShiftHeld`) | as `doom_input` |

What they show that a test would hardly. `CompleteUnlessLost`: whatever else fails, in
whatever order, in a first run or over the remains of one, `build/` is only
incomplete under status 0 if a copy of the script failed, and
`ImplementsContract` says what is there even then. `Rerunnable`: a run in which
nothing fails by itself only stops over what an earlier one left in the way of
the recipes named, so that every other recipe can simply be run again.
`ImplementsContract` of `zone`: while the
scan throws out blocks and merges them with its own start, no pointer of an owner
changes but to null, and every call ends. `PointersValid`: no order of
allocations, releases and new levels makes a pointer that is in use go bad.
`ListSound` and `TurnOnce`: removal in the middle of the run, of the thinker itself
or of another, and additions at the end, leave everyone one turn; the link that
`P_RunThinkers` reads after `Z_Free` is still right. `PointersLive`: the arrays and
`specialdata` never lead to a freed mover, although some are removed without being
asked. `OneMover` holds only of the sectors in `Guarded`: a donut's ring and a sector
behind a door that stays open can get two movers (`p_spec.c:1330`,
`p_doors.c:397`), and even then no pointer goes bad. `Reloaded` says exactly
what a saved game keeps of the movers, as long as every ceiling had a slot.
`LevelsExist`: however demos, games and their ends cross, the level that is ticked is
there, but for a start with `-loadgame` after which no game was begun.
`ImplementsQueue`: each key is heard once and in order, however late it is read,
and with its capital until a press of a shift key is repeated.

Why the bounds are enough. Each recipe of the small pipeline has a shape of its
own, and three of them run in parallel; two runs are what it takes to see what a
failed one leaves. The recipe with the shape of libsdl2 has no background compilers
here, since libm already has those of a shared library, and the
theorems are for any sets. Seven cells hold three blocks with their headers and a
fragment on either side of `MINFRAGMENT`, so that a scan can start behind, at and
after a purgable block and merge to the left, to the right and to both sides. A
lead of three in a ring of four wraps around within the eleven tics, on both sides
of the overflow. In `GameFlow` a second key would do what the first does; two
waiting events are enough for a press and a release to be processed under
different states, and two ticcmds for one made before an event and run after it.
Three blocks are what it takes to remove the one before, at and after the
current thinker; one slot of each array makes the second plat
the one too many, which ends the program, and the second ceiling, in the other sector, the one that
is not listed; one of the sectors has a door that opens by itself, in the slot of a
mover that no line started; the eleven lines have every way of starting, stopping and turning a mover
that the code has, in a sector that is guarded, one that is a ring and one behind a
door. The instance of `LumpCache` has each kind of holder and each kind of
sharing; the cache looks at lumps one at a time, so more of them add nothing. In
`DoomInput` the codes that can be read in one loop are one fewer than the slots of
the ring, so that it is as full as it may ever be, at each of its four
positions.
A page must last at least as long as ticcmds may wait (in the code 170 tics and
five): `FlowConstants` says so.

`CHECK_DEADLOCK FALSE` is in every configuration but that of `doom_input`: the script ends after
`MaxRuns`, the clock stops at `MaxTime` and the frames at `MaxTic`, a failed
`Z_Malloc` ends the program with `I_Error`, and so does a plat that finds no slot.

Fairness. `BuildAll`: weak fairness of the next step that needs nobody (`Unattended`),
because a command ends and the kernel runs what is runnable; no fairness says that a
command succeeds, and none that somebody answers `unzip`, so that `Terminates`
excepts a sequential build that waits for an answer.
`Zone`: weak fairness of the steps of a call that was begun, an ordinary
loop that nothing blocks. `TicLoop`: weak fairness of the steps of a frame, whose only
wait is `I_Sleep(1)`, and of the clock, which is the hardware's. `Movers`: weak
fairness of a turn of `P_RunThinkers` and of its start once a tic; `Freed` adds the
condition that every run ends, which a mobj that spawned for ever would prevent.
`DoomInput`: weak fairness of `BuildNewTic`, which the main loop comes to again and
again as long as the clock goes on (`Returns`). `ZoneContract` and `KeyQueue` state
the fairness their implementations then have to meet: that a call ends, that
what waits is heard. `GameFlow` and `LumpCache` state no liveness.

### What the violation runs show

* `build_lost_compile_error`: `wait` without operands forgets the status of the
  compilers in the background. A recipe whose link takes the objects it
  finds ends with status 0 without some of them: `bil/_openlibm` and
  `bil/libsdl2` without any of them, `bil/perl` only without `mathoms.o`, to which
  nothing refers. What a recipe that clears its objects never does is to link one of an
  earlier run (`NothingStale`).
* `build_lost_copy`: the release workflow runs plain `make`, the sequential mode, which never
  executes `set -e`. A `cp` or `tar` of the script that fails there (lines 25, 30, 95, 99,
  115, 121, 126) is not noticed: status 0 over a `build/` without a product. In fast
  mode all commands and the headers are there (`CommandsReported`,
  `ImplementsContract`); a library of `lib/` may be missing even then, as it is copied to the
  tree before `set -e` is executed.
* `game_no_save`: the save menu asks whether there is a game only when it opens. Opened in
  the tic in which the player has ended the game, it stays open through
  the title page and the demo, and saves the level of the demo.
* `movers_save`: a plat that was stopped when the game was saved is not in the file.
  After loading its sector stands where it stood, and no line can start that plat
  again; a line that can be used repeatedly starts a new one.
* `doom_input_shift`: a held shift key whose press is repeated is counted twice and
  taken back once; from then on the program believes a shift key to be down, and letters
  typed without one are capitals.

Met on the way, and not the subject of a run: `TryRunTics` may return without a tic,
against the comment at its call (`NotIdleTwice` says that it does not happen twice
in a row); after 17 hours `GetAdjustedTime` overflows and no tic is made for the next
34; `-loadgame` with a file that cannot be read leaves `GS_LEVEL` without a
level (`LevelsExist` excepts it, and is violated without the exception); `Z_Malloc` stops in front of the block its
scan started behind and never looks at it, although the comment at `z_zone.c:221`
says "scanned all the way around the list", so that an allocation may fail although
throwing out that block would have made the room (`FailsLate` says that it is the only block
so overlooked); `P_SpawnDoorCloseIn30` leaves `topheight` unset; `EV_VerticalDoor` writes to
whatever moves the sector as if it were a door, but for plats that are to go down;
`WI_loadData` allocates `lnames` for each intermission and never frees it; a
loaded game keeps `soundtarget` pointers of the old level; the flicker of a fire is not saved.

## 4. The proofs

`BuildAllProofs` holds for any recipes, any number of source files and runs, and both modes, from
`ConstantsOK` alone (the sets of recipes, libraries and commands are disjoint, a
synchronised recipe has no background compilers, one that clones keeps no archive).

* `TypeCorrect`; `FailuresAreReported`, `EarlyLibrariesReady`, `NothingLeftRunning`
  from the invariant `Phases`. `ErrorsReported` is not inductive: that the flag
  `fail` is set when it is read depends on what the recipes may be doing at each
  place of the script. `Phases` says it: which are off, running or done in each
  loop (`Begun`, `OneByOne`, `Spreading`, `Ended`), and to which a
  background compiler can belong (`Owned`).
* `StaleNeverLinked` from `Cleared`: between clearing and linking, such a
  recipe has no object of an earlier run, whatever its link can do without.
* `OnlyCopiesAreLost`, `TocpAlwaysBacked`, `CommandsAreReported` and
  `BuildImplementsContract`, with failing copies and in both modes, from `Delivered` (what each
  recipe has put on the tree and in `build/` when it has ended), `Gathered` (what each place
  of the script has put there when no copy has failed) and `Checked` (what it has put there
  even so, as far as it runs under `set -e`). Each step of `BuildAll` is then a step of the
  contract or leaves its variables alone.
* `AlwaysRerunnable`, from `Blamed`: what has failed, has failed for want of a command
  that failed by itself, or because of a clone, an archive or a tree that an earlier run left.
  That the link of a recipe is not refused for want of objects takes that all its compilers
  have succeeded, and for want of `libm.so` that all early recipes have published theirs.

`TicLoopProofs` holds for any ring at least as long as the lead, any overflow and
any clock that stops before I_GetTime itself wraps around (`LoopConstants`), playing or timing a demo.

* `LoopTypes`, `NoTiccmdLost`, `LeadStaysBounded`, `ErrorsUnreachable`,
  `NeverAheadOfClock`, all read off one invariant,
  `LoopInvariant`. What has to be added to the properties: `Stages`, what a call of
  `TryRunTics` knows of its counters between two calls of `NetUpdate`; `Frames`, how
  many tics a frame of a timed demo has made and run; and `Paid`, that what was
  made, less what is to be skipped, plus the time not yet read, is at most the
  clock. `maketic <= now` alone is not inductive, `Paid` survives the overflow.
* `NeverIdleTwice`, from `Wakes`: a call that gives up because the clock moved leaves a
  tic made, or due at the next `NetUpdate` (`Due`), and the next call runs it.
* `SlotsDiffer` and `Made` are the lemmas on the ring: tics less than a ring apart
  share no slot, and BuildNewTic overwrites none that was not run.

`LumpCacheProofs` holds for any lumps, holders and order of calls, from
`ContractConstants`, `HolderConstants` and `Sharing`.

* `AlwaysValid` and `PointersStayValid`. `PointersValid` alone is not inductive:
  a `Z_Malloc` that was begun for a holder ends later, and what it hands out must be
  what that holder asked for, of a lump that nobody else had in the meantime
  (`CallerSound`). Where `Sharing` is needed: `OneHolder`, a lump that is
  released or made purgable has no second holder.

`DoomInputProofs` holds for a ring and a keyboard of any size, for any map of the codes to
keys, from `InputConstants`: the codes are finitely many (a code is a byte) and what can
be read in one loop is less than the ring has slots.

* `RingNeverFull`, from `Room`: who reads has room for all that can still arrive in
  this loop, because the ring was empty when it began and, by assumption, profanOS keeps fewer
  codes than it has slots.
* `NothingSticks`, from `Honest`. `NoneStuck` speaks only of the moment when everything has been
  heard. What holds at any time is about the last that is still to be heard of a key:
  its last code in profanOS, or else its last event in the ring, or else what the responders
  know; if that makes it down, then it is (`Believed`, `Held`).
* `HeardAsTyped`: `Queue!QueueInit /\ [][Queue!QueueNext]_(Queue!queueVars)`, which is
  `ImplementsQueue` without the fairness of `QueueSpec`. The invariant is `Counted`: when all
  codes that wait are read, `shiftdown` is the number of shift keys that are down and of
  the repetitions. A code that is typed is then read behind all others as what it was when it
  was typed (`ReadsLast`, `TypeHeard`); one that is read moves from the front of what waits to
  the end of the ring and changes nothing (`ReadsFirst`, `ReadsBehind`, `GetKeyHeard`).

`ZoneProofs` holds for a zone, headers, fragments and requests of any size and any number
of owners, from `ZoneConstants`.

* `HeapSoundAlways`, `MarksSoundAlways`, `CursorsAlwaysSound`, `SweepMissesNone`,
  `FailsOnlyLate` and `PinnedAlwaysStay` from one invariant, `ZoneInv`. That the list
  tiles the zone is stated locally (each link leads to a higher block, a block ends where the next
  begins, links have back links), so that what `Z_Free` does to it is about three blocks.
  `ScanInv` is what a scan knows: the block before `base` and the one it started at are not free
  (otherwise a merge would take `start` away, and the scan would not end where it should),
  and of all it has passed none fits and none can be purged (`FailsLate`). `SweepInv` is the
  delicate one: the link that `Z_FreeTags` read before it called `Z_Free` may lead to a header that
  was merged away; that header then ends where the free block around it ends, so the sweep
  goes on where it would have.
* `ZoneKeepsContract`: `Zone` implements `ZoneContract` but for its liveness.

`GameFlowProofs` holds for any keys, any number of commands ahead and of waiting events and any
length of a page, from `FlowConstants`.

* `FlowTypes`, `OwnLevelAlways`, `IntermissionAlwaysLoaded`, `NoKeySticks` from `FlowInv`.
  What has to be added: `Own`, whose level, game and demo go together in each state;
  `Unloads`, that between two tics the graphics are loaded only if `oldgamestate` is still the
  intermission, so that the next tic will notice its end; `PressesSound`, that a press that
  waits is of a key that is down or has the release behind it.
  A tic is a chain of operators on the record; there is a lemma for each of them and one for
  the chain.
* `LevelsAlwaysExist`, for every way of starting, from `LevelsInv`: `Loaded` and, before the
  first tic, `AtStart`, with the same exception as the property, `unread`, which a game that is
  begun ends for good.

`MoversProofs` holds for any map, any number of sectors, lines, thinkers and slots, from
`MoverConstants`, of which one is about the levels: a line that opens a door by hand has
`raise` or `open` as its type, as `EV_VerticalDoor` gives it.

* `ListSoundAlways`, `PointersAlwaysLive`, `OneMoverAlways` and `TurnsOnce` from `MoversInv`. That
  `next` leads through all thinkers and back says nothing that a step could be
  checked against; the invariant gives each thinker a rank that `next` raises (`Chain`). Adding
  takes a higher rank, removing takes none away, and who has had a turn is
  who has a lower rank than the current thinker (`Turns`), so nobody is called twice
  or passed over. `Pointers` is what is true of `specialdata` and the two arrays: each leads
  to a mover of its kind, and every plat is in `activeplats`, which is why the `I_Error` of
  `P_RemoveActivePlat` is not reached.
* The loops of the lines over the sectors and of `P_UnArchiveSpecials` over what was saved
  are recursive functions. `Iteration` has what a proof by induction needs of them:
  `SetInduction` and `Recursion` (a step that stays in a set defines a function) from the
  least-number principle of the library.

Only model-checked:

* liveness: `Terminates`, `Returns`, `Freed`, and of `ImplementsContract` and
  `ImplementsQueue` that a call ends and that what waits is heard; the provers do not reason about
  fairness and ENABLED;
* `Reloaded`. Its condition is needed: `P_UnArchiveSpecials` lists the loaded ceilings
  again in the order of the thinkers, so if there were more ceilings than slots, a running one
  that was not listed may take the slot of a stopped one, and the next saved game does not have
  that one. The run has such levels (`crowded`), and `Reloaded` without its condition is
  violated in it;
* what the findings say, each by its counterexample.

## 5. Plan

Order of the modules: the pipeline first, because it is the repository's own
code; then the parts of Doom on which the rest of it stands; then what uses them.

1. done: `BuildContract`, `BuildAll`, `BuildAllProofs`; `ZoneContract`, `Zone`;
   `TicLoop`, `TicLoopProofs`; `GameFlow`.
2. done: `LumpCache`, `LumpCacheProofs` over `ZoneContract`; `Movers`; `KeyQueue`,
   `DoomInput`, `DoomInputProofs`.
3. done: `ZoneProofs`, `GameFlowProofs`, `MoversProofs`, and what was left of the other
   parts; every invariant of a passing run has its theorem, and so has the safety of
   every refinement. Left: a proof of `Reloaded`.
4. candidates among the ports: Lua's incremental collector, the interrupt
   controller and timer of halfix, the block cache of elvis sessions, the job slots
   of GNU make, the job table of dash.

The runs are kept few: a new module takes one passing run, and a finding its own
configuration; passing runs of one module are merged where one instance can
show both.

## 6. Not modelled

By far most lines of the tree are not libatron's own: the sources of perl, nasm,
GNU make, dash, Lua, zlib and others, with generated tables of hundreds of
thousands of lines. Their logic is decoding, parsing and generating code, one pass
over data whose properties are about the format; what a model could cover of it is a
small part of it, and the share of all lines that this development stands for stays
small for that reason. It follows the parts in which state, order and failure decide:
the repository's own build, and of the ports the one that its authors adapted
most, Doom.

Of Doom: the physics and the monsters (`p_map.c`, `p_enemy.c`), the renderer, the
status bar and the wipe are arithmetic over large data; there is no sound module and
no network code to model in this port. The interpreters, editors and tools among the other
ports, and why each is left out, are in PROJECT.json.

Hazards without a property: `I_GetTime` itself wraps around after 34
hours (`i_timer.c:54`), where the model's clock stops; a `gameaction` that is
overwritten in the same tic (`d_main.c:512`), of which the code promises nothing. Not
listed, as settings are not in the model: a loaded game inherits those of a demo it
interrupts (`g_game.c:1548`).
