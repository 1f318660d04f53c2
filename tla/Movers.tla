------------------------------- MODULE Movers -------------------------------
(***************************************************************************)
(* The thinkers of a level of Doom (cmd/doom/p_tick.c): a list that        *)
(* P_RunThinkers goes through once a tic, calling the function of each, and *)
(* in which a removed thinker stays until its turn comes.  And those of     *)
(* them that move a sector: plats, ceilings, floors and doors (p_plats.c,  *)
(* p_ceilng.c, p_floor.c, p_doors.c), which the sector's specialdata, the  *)
(* arrays activeplats and activeceilings and a saved game (p_saveg.c) all  *)
(* refer to.                                                               *)
(*                                                                         *)
(* The lines of the map start and stop movers, from the player's think,    *)
(* before the list is run, or from the think of a mobj, in the middle of   *)
(* it.  Where a plane is, and so when it arrives or hits something, is     *)
(* open.                                                                   *)
(***************************************************************************)
EXTENDS Naturals, FiniteSets, Sequences

CONSTANTS
  NumSectors,   \* numsectors: the sectors of the map are numbered
  Tag,          \* Tag[s]: sector_t.tag
  Ring,         \* Ring[s]: the sector around the pillar s of a donut, or s if none is
  Lines,        \* the special lines: [special, type, tag, sector]
  Timed,        \* the sectors of special 10, doors that close in 30 seconds
  Things,       \* how many mobjs the map starts with
  Blocks,       \* bound: the addresses thinkers can have
  Null,         \* NULL; also the address of thinkercap, the end of the list
  MaxPlats,     \* MAXPLATS
  MaxCeilings   \* MAXCEILINGS

Sectors == 1 .. NumSectors

ASSUME MoverConstants ==
  /\ NumSectors \in Nat /\ Timed \subseteq Sectors
  /\ Ring \in [Sectors -> Sectors] /\ DOMAIN Tag = Sectors
  /\ \A l \in Lines :
       /\ l.special \in {"plat", "stopPlat", "ceiling", "stopCrush", "floor", "door", "donut", "manual"}
       /\ l.sector \in Sectors
       /\ l.special = "manual" => l.type \in {"raise", "open"}
  /\ Null \notin Blocks /\ IsFiniteSet(Blocks) /\ Things \in Nat
  /\ MaxPlats \in Nat /\ MaxCeilings \in Nat

VARIABLES
  level,     \* what P_SetupLevel builds: see Empty
  pc,        \* "idle" between two runs of the list, "run" in it, "act" while
             \* the current thinker, a mobj, does what it likes
  current,   \* currentthinker
  turns      \* history: how often each thinker ran since the run began

vars == <<level, pc, current, turns>>

Cap == Null

(* A block of memory, as the thinker that is in it.  status is the plat's, *)
(* or the direction of a door or a ceiling: up (1), down (-1), "waiting"   *)
(* (0 of a door), "stasis" (0 of a ceiling).                               *)
Unused == [function |-> "none", what |-> "none", sector |-> Null,
           type |-> "none", status |-> "none", old |-> "none"]

(* Removed: function is -1.  Stopped: function is NULL.                    *)
Thinks(t) == t.function = "think"
Live(t)   == t.function \in {"think", "stopped"}
Moves(t)  == Live(t) /\ t.what # "mobj"

Empty ==
  [th |-> [b \in Blocks |-> Unused],
   next |-> [b \in Blocks \cup {Cap} |-> Cap], prev |-> [b \in Blocks \cup {Cap} |-> Cap],
   special |-> [s \in Sectors |-> Null],                  \* specialdata
   plats |-> [i \in 1 .. MaxPlats |-> Null],              \* activeplats
   ceilings |-> [i \in 1 .. MaxCeilings |-> Null],        \* activeceilings
   used |-> {},            \* lines that have lost their special
   crowded |-> FALSE,      \* history: a ceiling has found no slot
   error |-> "none"]       \* the I_Error the program ended with

-----------------------------------------------------------------------------
(* p_tick.c                                                                *)

(* Z_Malloc: which block it takes does not matter, what matters is that    *)
(* the blocks of removed thinkers are used again as soon as they are free. *)
Free(L) == {b \in Blocks : L.th[b].function = "none"}
NewBlock(L) == CHOOSE b \in Blocks : b \in Free(L)

AddsInFront(L, b, t) ==
  [L EXCEPT !.th[b] = t,
            !.next = [[@ EXCEPT ![Cap] = b] EXCEPT ![b] = L.next[Cap]],
            !.prev = [[@ EXCEPT ![L.next[Cap]] = b] EXCEPT ![b] = Cap]]
P_AddThinker(L, b, t) ==
  [L EXCEPT !.th[b] = t,
            !.next = [[@ EXCEPT ![L.prev[Cap]] = b] EXCEPT ![b] = Cap],
            !.prev = [[@ EXCEPT ![b] = L.prev[Cap]] EXCEPT ![Cap] = b]]

(* Nothing of a removed thinker is read again but its function.            *)
P_RemoveThinker(L, b) == [L EXCEPT !.th[b] = [Unused EXCEPT !.function = "removed"]]

(* The block is unlinked and freed.  Z_Free touches its header only, so    *)
(* that its own links can still be read.                                   *)
UnlinksForward(L, b) ==
  [L EXCEPT !.th[b] = Unused, !.next[L.prev[b]] = L.next[b]]
Unlinked(L, b) ==
  [L EXCEPT !.th[b] = Unused, !.prev[L.next[b]] = L.prev[b], !.next[L.prev[b]] = L.next[b]]

-----------------------------------------------------------------------------
(* The arrays of plats and ceilings                                        *)

(* The first slot of an array that holds x, or 0.                          *)
SlotOf(array, x) ==
  IF \E i \in DOMAIN array : array[i] = x
  THEN CHOOSE i \in DOMAIN array : array[i] = x /\ \A j \in 1 .. i - 1 : array[j] # x
  ELSE 0

P_AddActivePlat(L, b) ==
  LET i == SlotOf(L.plats, Null) IN
  IF i = 0 THEN [L EXCEPT !.error = "noMorePlats"] ELSE [L EXCEPT !.plats[i] = b]

KeepsPlatSlot(L, b) ==
  [P_RemoveThinker(L, b) EXCEPT !.special[L.th[b].sector] = Null]
P_RemoveActivePlat(L, b) ==
  LET i == SlotOf(L.plats, b) IN
  IF i = 0 THEN [L EXCEPT !.error = "cantFindPlat"]
  ELSE [P_RemoveThinker(L, b) EXCEPT !.special[L.th[b].sector] = Null, !.plats[i] = Null]

(* A ceiling for which there is no slot is forgotten, and then not found.  *)
P_AddActiveCeiling(L, b) ==
  LET i == SlotOf(L.ceilings, Null) IN
  IF i = 0 THEN [L EXCEPT !.crowded = TRUE] ELSE [L EXCEPT !.ceilings[i] = b]

P_RemoveActiveCeiling(L, b) ==
  LET i == SlotOf(L.ceilings, b) IN
  IF i = 0 THEN L
  ELSE [P_RemoveThinker(L, b) EXCEPT !.special[L.th[b].sector] = Null, !.ceilings[i] = Null]

(* P_ActivateInStasis, EV_StopPlat and the same of ceilings: every mover   *)
(* in the array with the line's tag.                                       *)
Of(L, array, tag) ==
  {b \in Blocks : SlotOf(array, b) # 0 /\ Tag[L.th[b].sector] = tag}
Resumed(L, array, tag) ==
  [L EXCEPT !.th = [b \in Blocks |->
     IF b \in Of(L, array, tag) /\ @[b].status = "stasis"
     THEN [@[b] EXCEPT !.status = L.th[b].old, !.function = "think"] ELSE @[b]]]
Stopped(L, array, tag) ==
  [L EXCEPT !.th = [b \in Blocks |->
     IF b \in Of(L, array, tag) /\ @[b].status # "stasis"
     THEN [@[b] EXCEPT !.old = L.th[b].status, !.status = "stasis", !.function = "stopped"]
     ELSE @[b]]]

-----------------------------------------------------------------------------
(* What a special line does: EV_DoPlat, EV_DoCeiling, EV_DoFloor,          *)
(* EV_BuildStairs, EV_DoDonut, EV_DoDoor, EV_VerticalDoor                  *)

(* A new thinker; if it is a mover, its sector points to it, whatever it   *)
(* had before.                                                             *)
Mover(what, s, type, status) ==
  [function |-> "think", what |-> what, sector |-> s,
   type |-> type, status |-> status, old |-> "none"]
Item == Mover("mobj", Null, "none", "none")
NewThinker(L, b, t) ==
  IF t.what = "mobj" THEN P_AddThinker(L, b, t)
  ELSE [P_AddThinker(L, b, t) EXCEPT !.special[t.sector] = b]

Listed(L, b) ==
  CASE L.th[b].what = "plat"    -> P_AddActivePlat(L, b)
    [] L.th[b].what = "ceiling" -> P_AddActiveCeiling(L, b)
    [] OTHER                    -> L

(* I_Error does not come back, neither from here nor from P_AddActivePlat. *)
Started(L, t) ==
  IF L.error # "none" THEN L
  ELSE IF Free(L) = {} THEN [L EXCEPT !.error = "noMemory"]
  ELSE Listed(NewThinker(L, NewBlock(L), t), NewBlock(L))

(* for (i = 1; i <= n; i++)                                                *)
Repeated(n, L, Does(_, _)) ==
  LET after[i \in 0 .. n] == IF i = 0 THEN L ELSE Does(after[i - 1], i) IN after[n]

(* The sectors of the line's tag, in their order; one that has specialdata *)
(* is already moving and goes on.                                          *)
StartsAnyway(L, s) == TRUE
Idle(L, s) == L.special[s] = Null
StartEach(L, tag, what, type, way) ==
  Repeated(NumSectors, L, LAMBDA M, s :
    IF Tag[s] = tag /\ Idle(M, s) THEN Started(M, Mover(what, s, type, way[s])) ELSE M)

(* The way a mover of each type starts.                                    *)
FirstWay(type) ==
  CASE type \in {"downWaitUpStay", "crushAndRaise", "lowerToFloor", "close", "close30"} -> {"down"}
    [] type = "perpetualRaise" -> {"up", "down"}
    [] OTHER -> {"up"}

(* The ring around the pillar is not asked whether it moves.  A pillar     *)
(* that has none ends the loop.                                            *)
EV_DoDonut(L, tag) ==
  Repeated(NumSectors, L, LAMBDA M, s :
    IF \/ Tag[s] # tag \/ ~Idle(M, s)
       \/ \E r \in 1 .. s : Tag[r] = tag /\ Idle(M, r) /\ Ring[r] = r
    THEN M
    ELSE Started(Started(M, Mover("floor", Ring[s], "donutRaise", "up")),
                 Mover("floor", s, "lowerFloor", "down")))

(* A door that is opened by hand.  "raise" lines use the thinker the       *)
(* sector has; it is turned around if it is a door, and monsters never     *)
(* close one.  (What is written into another mover instead is the wait of  *)
(* a plat, the speed of a ceiling or the new special of a floor, and those *)
(* are open here.)  "open" lines add a door whatever the sector has, and   *)
(* lose their special.                                                     *)
EV_VerticalDoor(L, line, player) ==
  LET b == L.special[line.sector] IN
  IF b # Null /\ line.type = "raise"
  THEN IF L.th[b].what # "door" THEN L
       ELSE IF L.th[b].status = "down" THEN [L EXCEPT !.th[b].status = "up"]
       ELSE IF player THEN [L EXCEPT !.th[b].status = "down"] ELSE L
  ELSE [Started(L, Mover("door", line.sector,
                         IF line.type = "raise" THEN "normal" ELSE "open", "up"))
          EXCEPT !.used = IF line.type = "open" THEN @ \cup {line} ELSE @]

(* A line can be used while it has its special.                            *)
Activated(L, line) ==
  LET Do(M) == {StartEach(M, line.tag, line.special, line.type, way) :
                  way \in [Sectors -> FirstWay(line.type)]}
  IN CASE line.special = "plat" ->
            Do(IF line.type = "perpetualRaise" THEN Resumed(L, L.plats, line.tag) ELSE L)
       [] line.special = "ceiling" ->
            Do(IF line.type = "crushAndRaise" THEN Resumed(L, L.ceilings, line.tag) ELSE L)
       [] line.special \in {"floor", "door"} -> Do(L)
       [] line.special = "donut"     -> {EV_DoDonut(L, line.tag)}
       [] line.special = "stopPlat"  -> {Stopped(L, L.plats, line.tag)}
       [] line.special = "stopCrush" -> {Stopped(L, L.ceilings, line.tag)}
       [] line.special = "manual"    -> {EV_VerticalDoor(L, line, p) : p \in BOOLEAN}

-----------------------------------------------------------------------------
(* The think functions of the movers.  T_MovePlane answers "ok", "crushed" *)
(* or "pastdest"; a ceiling that rises is never stopped.                   *)

Turn(L, b, status) == [L EXCEPT !.th[b].status = status]

(* A mover that no array lists leaves its sector and the list.             *)
ForgetsSector(L, b) == P_RemoveThinker(L, b)
Done(L, b) == [P_RemoveThinker(L, b) EXCEPT !.special[L.th[b].sector] = Null]

T_PlatRaise(L, b) ==
  LET t == L.th[b] IN
  CASE t.status = "up" ->
         {L, Turn(L, b, "down"),
          IF t.type = "perpetualRaise" THEN Turn(L, b, "waiting")
          ELSE P_RemoveActivePlat(Turn(L, b, "waiting"), b)}
    [] t.status = "down" -> {L, Turn(L, b, "waiting")}
    [] t.status = "waiting" -> {L, Turn(L, b, "up"), Turn(L, b, "down")}
    [] OTHER -> {L}

T_MoveCeiling(L, b) ==
  LET t == L.th[b]
      Arrived == IF t.type = "crushAndRaise"
                 THEN Turn(L, b, IF t.status = "up" THEN "down" ELSE "up")
                 ELSE P_RemoveActiveCeiling(L, b)
  IN {L, Arrived}

T_MoveFloor(L, b) == {L, Done(L, b)}

T_VerticalDoor(L, b) ==
  LET t == L.th[b]
      Arrived ==
        CASE t.status = "waiting" /\ t.type = "normal"  -> Turn(L, b, "down")
          [] t.status = "waiting" /\ t.type = "close30" -> Turn(L, b, "up")
          [] t.status = "down" /\ t.type \in {"normal", "close"} -> Done(L, b)
          [] t.status = "down" /\ t.type = "close30" -> Turn(L, b, "waiting")
          [] t.status = "up" /\ t.type = "normal" -> Turn(L, b, "waiting")
          [] t.status = "up" /\ t.type \in {"open", "close30"} -> Done(L, b)
          [] OTHER -> L
      Blocked == IF t.status = "down" /\ t.type # "close" THEN Turn(L, b, "up") ELSE L
  IN {L, Arrived, Blocked}

Thought(L, b) ==
  CASE L.th[b].what = "plat"    -> T_PlatRaise(L, b)
    [] L.th[b].what = "ceiling" -> T_MoveCeiling(L, b)
    [] L.th[b].what = "floor"   -> T_MoveFloor(L, b)
    [] L.th[b].what = "door"    -> T_VerticalDoor(L, b)

(* P_ChangeSector, of a plane that moves: a dropped item under it is       *)
(* removed, and blood or what a victim drops is added.                     *)
Mobjs(L) == {b \in Blocks : L.th[b].what = "mobj" /\ Thinks(L.th[b])}
Crushed(L, b) ==
  {L} \cup
  (IF L.th[b].status \notin {"up", "down"} THEN {}
   ELSE {P_RemoveThinker(L, m) : m \in Mobjs(L)} \cup {Started(L, Item)})

-----------------------------------------------------------------------------
(* P_SetupLevel and the saved game                                         *)

(* Every block of the old level is freed (Z_FreeTags); the things come     *)
(* first, then the sectors with a thinker of their own.  Unused in a list  *)
(* of thinkers stands for one that is not there.                           *)
AddEach(L, ts) ==
  Repeated(Len(ts), L, LAMBDA M, i : IF ts[i] = Unused THEN M ELSE Started(M, ts[i]))
P_LoadThings == [i \in 1 .. Things |-> Item]
P_SpawnSpecials ==
  [s \in 1 .. NumSectors |-> IF s \in Timed THEN Mover("door", s, "normal", "waiting") ELSE Unused]
P_SetupLevel == AddEach(AddEach(Empty, P_LoadThings), P_SpawnSpecials)

(* The list from its head on, to the end or as many blocks as there are.   *)
Walk(L) ==
  LET at[i \in 0 .. Cardinality(Blocks)] ==
        IF i = 0 THEN L.next[Cap] ELSE IF at[i - 1] = Cap THEN Cap ELSE L.next[at[i - 1]]
  IN at
InList(L) == {Walk(L)[i] : i \in 0 .. Cardinality(Blocks)} \ {Cap}

(* P_ArchiveThinkers and P_ArchiveSpecials.  A stopped thinker is saved if *)
(* activeceilings lists it.                                                *)
ArchivesThinking(L, b) == Thinks(L.th[b]) /\ Moves(L.th[b])
Archives(L, b) ==
  \/ Thinks(L.th[b]) /\ Moves(L.th[b])
  \/ L.th[b].function = "stopped" /\ SlotOf(L.ceilings, b) # 0
Saved(L, those) ==
  [i \in 1 .. Cardinality(Blocks) |->
     LET b == Walk(L)[i - 1] IN IF b \in those THEN L.th[b] ELSE Unused]
P_ArchiveThinkers(L) == Saved(L, Mobjs(L))
P_ArchiveSpecials(L) == Saved(L, {b \in Blocks : Archives(L, b)})

(* The thinkers of the new level are taken out of the list; its things are *)
(* only marked, and nothing frees them before the next level.              *)
P_UnArchiveThinkers(L, mobjs) ==
  AddEach([Empty EXCEPT
             !.th = [b \in Blocks |-> IF b \in Mobjs(L) THEN [Unused EXCEPT !.function = "lost"]
                                      ELSE Unused]], mobjs)
P_UnArchiveSpecials(L, movers) == AddEach(L, movers)

-----------------------------------------------------------------------------
Init ==
  /\ level = P_SetupLevel
  /\ pc = "idle" /\ current = Cap
  /\ turns = [b \in Blocks |-> 0]

(* I_Error ends the program.  Bound: nothing happens for which the blocks  *)
(* do not suffice.                                                         *)
Becomes(L) ==
  /\ L.error # "noMemory"
  /\ level' = L /\ pc' = IF L.error = "none" THEN pc ELSE "error"

(* P_UseSpecialLine, P_CrossSpecialLine, P_ShootSpecialLine.               *)
UseLine(line) ==
  /\ pc \in {"idle", "act"} /\ line \notin level.used
  /\ \E L \in Activated(level, line) : Becomes(L)
  /\ UNCHANGED <<current, turns>>

P_SpawnMobj ==
  /\ pc \in {"idle", "act"}
  /\ Becomes(Started(level, Item))
  /\ UNCHANGED <<current, turns>>

P_RemoveMobj ==
  /\ pc \in {"idle", "act"}
  /\ \E b \in Mobjs(level) : level' = P_RemoveThinker(level, b)
  /\ UNCHANGED <<pc, current, turns>>

(* P_RunThinkers.  The next thinker is read after the turn of this one.    *)
Advance(L) == current' = L.next[current]
Passed  == turns' = [turns EXCEPT ![current] = @ + 1]

StartRun ==
  /\ pc = "idle"
  /\ pc' = "run" /\ current' = level.next[Cap]
  /\ UNCHANGED <<level, turns>>

PassesRemoved ==
  /\ pc = "run" /\ current # Cap /\ level.th[current].function = "removed"
  /\ Advance(level)
  /\ UNCHANGED <<level, pc, turns>>
FreeRemoved ==
  /\ pc = "run" /\ current # Cap /\ level.th[current].function = "removed"
  /\ level' = Unlinked(level, current) /\ Advance(level')
  /\ turns' = [turns EXCEPT ![current] = 0]
  /\ UNCHANGED pc

SkipStopped ==
  /\ pc = "run" /\ current # Cap /\ level.th[current].function = "stopped"
  /\ Advance(level) /\ Passed
  /\ UNCHANGED <<level, pc>>

MoverThinks ==
  /\ pc = "run" /\ current # Cap /\ Thinks(level.th[current]) /\ Moves(level.th[current])
  /\ \E M \in Crushed(level, current) : \E L \in Thought(M, current) : Becomes(L)
  /\ Advance(level') /\ Passed

MobjThinks ==
  /\ pc = "run" /\ current \in Mobjs(level)
  /\ pc' = "act" /\ UNCHANGED <<level, current, turns>>
MobjDone ==
  /\ pc = "act"
  /\ pc' = "run" /\ Advance(level) /\ Passed
  /\ UNCHANGED level

EndRun ==
  /\ pc = "run" /\ current = Cap
  /\ pc' = "idle" /\ turns' = [b \in Blocks |-> 0]
  /\ UNCHANGED <<level, current>>

NextLevel ==
  /\ pc = "idle"
  /\ Becomes(P_SetupLevel)
  /\ UNCHANGED <<current, turns>>

(* A game is saved, and loaded then or later: what is loaded depends on    *)
(* the level that was saved only.  P_UnArchiveWorld brings the lines back. *)
Reload ==
  /\ pc = "idle"
  /\ LET world == P_UnArchiveThinkers(P_SetupLevel, P_ArchiveThinkers(level))
         L == P_UnArchiveSpecials(world, P_ArchiveSpecials(level))
     IN Becomes([L EXCEPT !.used = level.used])
  /\ UNCHANGED <<current, turns>>

RunStep == \/ FreeRemoved \/ SkipStopped \/ MoverThinks
           \/ MobjThinks \/ MobjDone \/ EndRun
Next ==
  \/ \E line \in Lines : UseLine(line)
  \/ P_SpawnMobj \/ P_RemoveMobj
  \/ StartRun \/ RunStep
  \/ NextLevel \/ Reload

(* TryRunTics and the loop of P_RunThinkers go on.                         *)
Spec == Init /\ [][Next]_vars /\ WF_vars(RunStep) /\ WF_vars(StartRun)

-----------------------------------------------------------------------------
TypeOK ==
  /\ pc \in {"idle", "run", "act", "error"} /\ current \in Blocks \cup {Cap}
  /\ turns \in [Blocks -> Nat]
  /\ \A b \in Blocks :
       /\ level.th[b].function \in {"none", "think", "stopped", "removed", "lost"}
       /\ level.th[b].what \in {"none", "mobj", "plat", "ceiling", "floor", "door"}

(* Whatever is added, removed and freed while P_RunThinkers stands in the  *)
(* middle of the list, the list leads from thinkercap through every        *)
(* thinker once and back, in both directions, and the current thinker is   *)
(* one of it.                                                              *)
ListSound ==
  /\ TypeOK
  /\ Walk(level)[Cardinality(Blocks)] = Cap
  /\ InList(level) = {b \in Blocks : level.th[b].function \in {"think", "stopped", "removed"}}
  /\ \A b \in InList(level) \cup {Cap} : level.prev[level.next[b]] = b
  /\ current \in InList(level) \cup {Cap}

(* No pointer to a mover outlives it: specialdata is a mover of its own    *)
(* sector, activeplats holds every plat once, stopped or not, and nothing  *)
(* else, and activeceilings nothing but ceilings.  So P_RemoveActivePlat   *)
(* always finds its plat, and a line never writes to freed memory.         *)
PointersLive ==
  /\ \A s \in Sectors : level.special[s] # Null =>
       LET t == level.th[level.special[s]] IN Moves(t) /\ t.sector = s
  /\ \A i \in DOMAIN level.plats : level.plats[i] # Null => Moves(level.th[level.plats[i]])
  /\ \A b \in Blocks : level.th[b].what = "plat" /\ Live(level.th[b]) /\ level.error = "none" =>
       Cardinality({i \in DOMAIN level.plats : level.plats[i] = b}) = 1
  /\ \A i \in DOMAIN level.ceilings : level.ceilings[i] # Null =>
       LET t == level.th[level.ceilings[i]] IN Moves(t) /\ t.what = "ceiling"
  /\ level.error # "cantFindPlat"

(* A sector that is no donut's ring and behind no door that stays open is  *)
(* moved by one thinker at a time, the one its specialdata points to, and  *)
(* that also through saving and loading.                                   *)
Guarded ==
  {s \in Sectors : /\ \A p \in Sectors : Ring[p] = s => p = s
                   /\ \A l \in Lines : l.special = "manual" /\ l.type = "open" => l.sector # s}
OneMover ==
  \A b \in Blocks : Moves(level.th[b]) /\ level.th[b].sector \in Guarded =>
    level.special[level.th[b].sector] = b

(* In a run no thinker has two turns, and at its end every thinker that is *)
(* alive has had one, those included that were added on the way.           *)
TurnOnce ==
  /\ \A b \in Blocks : turns[b] <= 1
  /\ pc = "run" /\ current = Cap => \A b \in Blocks : Live(level.th[b]) => turns[b] = 1

(* A removed thinker is freed when its turn comes, provided every run of   *)
(* the list comes to its end.                                              *)
Freed ==
  []<>(pc = "idle") =>
    \A b \in Blocks : (level.th[b].function = "removed") ~> (level.th[b].function # "removed")

(* A game that is loaded has the movers of the one that was saved, in the  *)
(* state they had, ceilings that are stopped included, but not the plats   *)
(* that are stopped; as long as there were never more ceilings at once     *)
(* than activeceilings has slots.  (P_UnArchiveSpecials lists them in the  *)
(* order of the thinkers: one that had no slot takes that of another, and  *)
(* if this one is stopped, the next save leaves it out.)                   *)
StoppedPlat(t) == t.what = "plat" /\ t.function = "stopped"
MoversOf(L) == {L.th[b] : b \in {c \in Blocks : Moves(L.th[c])}}
Reloaded ==
  [][Reload /\ ~level.crowded =>
       MoversOf(level') = {t \in MoversOf(level) : ~StoppedPlat(t)}]_vars

(* "Things to handle", says the comment of P_ArchiveSpecials, and names    *)
(* T_PlatRaise with the active list: no mover at all is lost.              *)
SavedWhole == [][Reload => MoversOf(level') = MoversOf(level)]_vars
=============================================================================
