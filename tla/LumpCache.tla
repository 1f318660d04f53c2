----------------------------- MODULE LumpCache -----------------------------
(***************************************************************************)
(* The cache of lumps (W_CacheLumpNum, W_ReleaseLumpNum of cmd/doom/       *)
(* w_wad.c) and the composed textures (cmd/doom/r_data.c), with the parts  *)
(* of the game that hold pointers into them while others allocate.  The    *)
(* zone they live in is ZoneContract, which Zone implements; tag[l] is the *)
(* tag of the block that lumpinfo[l].cache, or texturecomposite[l], points *)
(* to.                                                                     *)
(*                                                                         *)
(* A holder keeps what W_CacheLumpNum returned to it: on loan until it     *)
(* releases the lump (maps, flats, music, demos, intermission, automap),   *)
(* for ever (status bar, font, colour map), for the level (the reject      *)
(* matrix), or only at a glance, until the next call (patches, columns).   *)
(***************************************************************************)
EXTENDS ZoneContract

CONSTANTS
  Holders,
  Lump,     \* the lump each holder uses
  Kind,     \* "loan", "kept", "level", "glance", "composite"
  Nobody

(* A lump with two holders is one that neither of them releases: "We do    *)
(* not free these lumps as they are shared with the status bar code".      *)
(* Those that use a lump one after the other and never together, as        *)
(* R_PrecacheLevel and R_DrawPlanes use a flat, count as one holder.       *)
ASSUME HolderConstants ==
  /\ Lump \in [Holders -> Users] /\ Nobody \notin Holders
  /\ Kind \in [Holders -> {"loan", "kept", "level", "glance", "composite"}]
  /\ Tags = {PU_STATIC, PU_LEVEL, PU_CACHE}
ASSUME Sharing ==
  \A g, h \in Holders : g # h /\ Lump[g] = Lump[h] =>
    Kind[g] = Kind[h] /\ Kind[h] \in {"kept", "glance"}

VARIABLES
  held,     \* the holders that keep a pointer over other calls
  looking,  \* the holders that have one until the next call
  caller    \* who waits for the Z_Malloc that is going on

vars == <<contractVars, held, looking, caller>>

TagFor(h) == CASE Kind[h] = "level"  -> PU_LEVEL
               [] Kind[h] = "glance" -> PU_CACHE
               [] OTHER              -> PU_STATIC

Init == /\ ContractInit
        /\ held = {} /\ looking = {} /\ caller = Nobody

Given(h) ==
  IF Kind[h] = "glance" THEN looking' = {h} /\ held' = held
  ELSE looking' = {} /\ held' = held \cup {h}

(* Already cached, so just switch the zone tag; or load it now.            *)
KeepsTag(h) == tag[Lump[h]]
HitTag(h) == TagFor(h)
Hit(h) ==
  /\ Kind[h] # "composite" /\ doing = "idle" /\ tag[Lump[h]] # NoBlock
  /\ tag' = [tag EXCEPT ![Lump[h]] = HitTag(h)]
  /\ Given(h)
  /\ UNCHANGED <<doing, request, caller>>
Miss(h) ==
  /\ Kind[h] # "composite" /\ tag[Lump[h]] = NoBlock
  /\ Ask(TagFor(h), Lump[h])
  /\ caller' = h /\ looking' = {} /\ held' = held
W_CacheLumpNum(h) == Hit(h) \/ Miss(h)

ReleasesKept(h) == Kind[h] \in {"loan", "kept"}
Releases(h) == Kind[h] = "loan"
W_ReleaseLumpNum(h) ==
  /\ doing = "idle" /\ h \in held /\ Releases(h)
  /\ tag' = [tag EXCEPT ![Lump[h]] = PU_CACHE]
  /\ held' = held \ {h} /\ looking' = {}
  /\ UNCHANGED <<doing, request, caller>>

(* R_GetColumn: a texture of several patches is composed in a static       *)
(* block, looking at one patch after the other; when it is complete it may *)
(* be purged, and is looked at.                                            *)
R_GenerateComposite(h) ==
  /\ Kind[h] = "composite" /\ tag[Lump[h]] = NoBlock
  /\ Ask(PU_STATIC, Lump[h])
  /\ caller' = h /\ looking' = {} /\ held' = held
Composed(h) ==
  /\ doing = "idle" /\ h \in held /\ Kind[h] = "composite"
  /\ tag' = [tag EXCEPT ![Lump[h]] = PU_CACHE]
  /\ held' = held \ {h} /\ looking' = {h}
  /\ UNCHANGED <<doing, request, caller>>
R_GetColumn(h) ==
  /\ doing = "idle" /\ Kind[h] = "composite" /\ h \notin held
  /\ tag[Lump[h]] # NoBlock
  /\ looking' = {h}
  /\ UNCHANGED <<contractVars, held, caller>>

(* Everybody else's Z_Malloc, of thinkers, tables and buffers.             *)
OtherMalloc ==
  /\ \E t \in {PU_STATIC, PU_LEVEL} : Ask(t, NoUser)
  /\ looking' = {} /\ UNCHANGED <<held, caller>>

(* P_SetupLevel forgets the reject matrix and frees the level.             *)
ForLevel == {h \in Holders : Kind[h] = "level"}
P_SetupLevel ==
  /\ StartSweep
  /\ held' = held \ ForLevel /\ looking' = {} /\ UNCHANGED caller

Granted ==
  /\ Grant
  /\ IF caller = Nobody THEN UNCHANGED <<held, looking>> ELSE Given(caller)
  /\ caller' = Nobody

Sweeps ==
  /\ \E u \in Users : Evict(u) \/ SweepOut(u)
  /\ UNCHANGED <<held, looking, caller>>
Ends ==
  /\ Refuse \/ EndSweep
  /\ UNCHANGED <<held, looking, caller>>

Next ==
  \/ \E h \in Holders : \/ W_CacheLumpNum(h) \/ W_ReleaseLumpNum(h)
                        \/ R_GenerateComposite(h) \/ Composed(h) \/ R_GetColumn(h)
  \/ OtherMalloc \/ P_SetupLevel
  \/ Granted \/ Sweeps \/ Ends

Spec == Init /\ [][Next]_vars

-----------------------------------------------------------------------------
TypeOK ==
  /\ tag \in [Users -> {NoBlock} \cup Tags]
  /\ doing \in {"idle", "malloc", "sweep", "failed"}
  /\ request \in [tag : {NoBlock} \cup Tags, user : Users \cup {NoUser}]
  /\ held \subseteq Holders /\ looking \subseteq Holders
  /\ caller \in Holders \cup {Nobody}

(* Whoever has a pointer to a lump or a texture can read it: whatever was  *)
(* allocated, purged, swept and released by others since, its block is     *)
(* still there, and if the pointer is kept over calls, cannot be purged.   *)
PointersValid ==
  /\ \A h \in held : tag[Lump[h]] = TagFor(h) /\ ~Purgable(tag[Lump[h]])
  /\ \A h \in looking : tag[Lump[h]] # NoBlock

(* The strengthening: nobody looks while a call is going on, and a call    *)
(* that loads a lump loads it for its caller.                              *)
CallerSound ==
  /\ doing # "idle" => looking = {}
  /\ caller # Nobody =>
       /\ doing \in {"malloc", "failed"}
       /\ request = [tag |-> TagFor(caller), user |-> Lump[caller]]
       /\ tag[Lump[caller]] = NoBlock
  /\ doing = "malloc" /\ caller = Nobody => request.user = NoUser
  /\ doing = "sweep" => held \cap ForLevel = {}

Valid == TypeOK /\ PointersValid /\ CallerSound
=============================================================================
