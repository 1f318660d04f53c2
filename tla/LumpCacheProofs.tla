-------------------------- MODULE LumpCacheProofs --------------------------
(***************************************************************************)
(* The theorem of LumpCache: no pointer into the cache of lumps is ever    *)
(* left over, for any number of lumps and holders that share lumps as      *)
(* Sharing says.  Valid is inductive; each action is a lemma.              *)
(***************************************************************************)
EXTENDS LumpCache, TLAPS

USE DEF PU_STATIC, PU_LEVEL, PU_PURGELEVEL, PU_CACHE, NoBlock

(* The tag of a lump on loan, kept or of a level is not purgable.          *)
LEMMA TagForHolder ==
  ASSUME NEW h \in Holders
  PROVE  /\ TagFor(h) \in Tags
         /\ Kind[h] # "glance" => ~Purgable(TagFor(h))
         /\ Kind[h] \notin {"glance", "level"} => TagFor(h) = PU_STATIC
BY HolderConstants DEF TagFor, Purgable

LEMMA InitValid == Init => Valid
BY ContractConstants
   DEF Init, ContractInit, NoRequest, Valid, TypeOK, PointersValid, CallerSound

(* A holder of a lump is its only one, unless nobody releases it.          *)
LEMMA OneHolder ==
  ASSUME NEW g \in Holders, NEW h \in Holders, Lump[g] = Lump[h], g # h
  PROVE  /\ Kind[g] = Kind[h] /\ TagFor(g) = TagFor(h)
         /\ Kind[h] \notin {"loan", "level", "composite"}
BY Sharing DEF TagFor

LEMMA HitValid ==
  ASSUME Valid, NEW h \in Holders, Hit(h)
  PROVE  Valid'
<1>1. /\ h \in Holders /\ Lump[h] \in Users /\ TagFor(h) \in Tags
      /\ doing = "idle" /\ tag' = [tag EXCEPT ![Lump[h]] = TagFor(h)]
      /\ UNCHANGED <<doing, request, caller>>
  BY HolderConstants, TagForHolder DEF Hit, HitTag
<1>2. held' \subseteq held \cup {h} /\ looking' \subseteq {h}
  BY DEF Hit, Given
<1>3. h \in held' /\ h \notin held => Kind[h] # "glance"
  BY DEF Hit, Given
<1>4. TypeOK'
  BY <1>1, <1>2, HolderConstants DEF Valid, TypeOK
<1>5. PointersValid'
  <2>1. ASSUME NEW g \in held'
        PROVE  tag'[Lump[g]] = TagFor(g) /\ ~Purgable(tag'[Lump[g]])
    <3>1. CASE g = h
      <4>1. Kind[h] # "glance" \/ h \in held
        BY <3>1, <2>1, <1>3
      <4>2. ~Purgable(TagFor(h))
        BY <4>1, TagForHolder DEF Valid, PointersValid
      <4> QED BY <4>2, <3>1, <1>1 DEF Valid, TypeOK
    <3>2. CASE g # h
      <4>1. g \in held /\ g \in Holders
        BY <3>2, <1>2, <2>1 DEF Valid, TypeOK
      <4>2. tag[Lump[g]] = TagFor(g) /\ ~Purgable(tag[Lump[g]])
        BY <4>1 DEF Valid, PointersValid
      <4>3. Lump[g] = Lump[h] => TagFor(g) = TagFor(h)
        BY <4>1, <3>2, OneHolder
      <4> QED BY <4>1, <4>2, <4>3, <1>1, HolderConstants DEF Valid, TypeOK
    <3> QED BY <3>1, <3>2
  <2>2. \A g \in looking' : tag'[Lump[g]] # NoBlock
    BY <1>1, <1>2, HolderConstants DEF Valid, TypeOK
  <2> QED BY <2>1, <2>2 DEF PointersValid
<1>6. CallerSound'
  BY <1>1 DEF Valid, CallerSound
<1> QED BY <1>4, <1>5, <1>6 DEF Valid

(* Releasing, and completing a texture: only one holder gives a block up.  *)
LEMMA GivesUpValid ==
  ASSUME Valid, NEW h \in Holders, h \in held, Kind[h] \in {"loan", "composite"},
         doing = "idle",
         tag' = [tag EXCEPT ![Lump[h]] = PU_CACHE],
         held' = held \ {h}, looking' \subseteq {h},
         UNCHANGED <<doing, request, caller>>
  PROVE  Valid'
<1>1. Lump[h] \in Users /\ PU_CACHE \in Tags
  BY HolderConstants
<1>2. TypeOK'
  BY <1>1 DEF Valid, TypeOK
<1>3. PointersValid'
  <2>1. ASSUME NEW g \in held'
        PROVE  tag'[Lump[g]] = TagFor(g) /\ ~Purgable(tag'[Lump[g]])
    <3>1. g \in held /\ g \in Holders /\ g # h
      BY <2>1 DEF Valid, TypeOK
    <3>2. Lump[g] # Lump[h]
      BY <3>1, OneHolder
    <3> QED BY <3>1, <3>2, HolderConstants DEF Valid, TypeOK, PointersValid
  <2>2. \A g \in looking' : tag'[Lump[g]] # NoBlock
    BY <1>1 DEF Valid, TypeOK
  <2> QED BY <2>1, <2>2 DEF PointersValid
<1>4. CallerSound'
  BY DEF Valid, CallerSound
<1> QED BY <1>2, <1>3, <1>4 DEF Valid

LEMMA AskValid ==
  ASSUME Valid, NEW h \in Holders, Ask(TagFor(h), Lump[h]), tag[Lump[h]] = NoBlock,
         caller' = h, looking' = {}, held' = held
  PROVE  Valid'
<1>1. TagFor(h) \in Tags /\ Lump[h] \in Users
  BY TagForHolder, HolderConstants
<1>2. /\ tag' = tag /\ doing' = "malloc" /\ h # Nobody
      /\ request' = [tag |-> TagFor(h), user |-> Lump[h]]
  BY HolderConstants DEF Ask
<1>3. TypeOK'
  BY <1>1, <1>2 DEF Valid, TypeOK
<1>4. PointersValid' /\ CallerSound'
  BY <1>1, <1>2 DEF Valid, PointersValid, CallerSound
<1> QED BY <1>3, <1>4 DEF Valid

LEMMA OtherMallocValid == Valid /\ OtherMalloc => Valid'
<1> SUFFICES ASSUME Valid, OtherMalloc PROVE Valid'
  OBVIOUS
<1>1. PICK t \in {PU_STATIC, PU_LEVEL} : Ask(t, NoUser)
  BY DEF OtherMalloc
<1>2. /\ tag' = tag /\ doing = "idle" /\ doing' = "malloc"
      /\ request' = [tag |-> t, user |-> NoUser]
      /\ looking' = {} /\ held' = held /\ caller' = caller
  BY <1>1 DEF Ask, OtherMalloc
<1>3. t \in Tags
  BY <1>1, HolderConstants
<1>4. caller = Nobody
  BY <1>2 DEF Valid, CallerSound
<1>5. TypeOK'
  BY <1>2, <1>3 DEF Valid, TypeOK
<1>6. PointersValid' /\ CallerSound'
  BY <1>2, <1>4 DEF Valid, PointersValid, CallerSound
<1> QED BY <1>5, <1>6 DEF Valid

LEMMA SetupLevelValid == Valid /\ P_SetupLevel => Valid'
<1> SUFFICES ASSUME Valid, P_SetupLevel PROVE Valid'
  OBVIOUS
<1>1. /\ tag' = tag /\ doing = "idle" /\ doing' = "sweep" /\ request' = request
      /\ looking' = {} /\ held' = held \ ForLevel /\ caller' = caller
  BY DEF P_SetupLevel, StartSweep
<1>2. caller = Nobody
  BY <1>1 DEF Valid, CallerSound
<1> QED BY <1>1, <1>2 DEF Valid, TypeOK, PointersValid, CallerSound

LEMMA GrantedValid == Valid /\ Granted => Valid'
<1> SUFFICES ASSUME Valid, Granted PROVE Valid'
  OBVIOUS
<1>1. /\ doing = "malloc" /\ doing' = "idle" /\ request' = NoRequest /\ caller' = Nobody
      /\ tag' = [u \in Users |-> IF u = request.user THEN request.tag ELSE tag[u]]
  BY DEF Granted, Grant
<1>2. looking = {}
  BY <1>1 DEF Valid, CallerSound
<1>3. tag' \in [Users -> {NoBlock} \cup Tags] /\ request' \in [tag : {NoBlock} \cup Tags, user : Users \cup {NoUser}]
  BY <1>1 DEF Valid, TypeOK, NoRequest
<1>4. CASE caller = Nobody
  <2>1. held' = held /\ looking' = {} /\ request.user = NoUser
    BY <1>1, <1>2, <1>4 DEF Granted, Valid, CallerSound
  <2>2. tag' = tag
    BY <1>1, <2>1, ContractConstants DEF Valid, TypeOK
  <2> QED BY <1>1, <1>3, <2>1, <2>2 DEF Valid, TypeOK, PointersValid, CallerSound
<1>5. CASE caller # Nobody
  <2>1. /\ caller \in Holders /\ request = [tag |-> TagFor(caller), user |-> Lump[caller]]
        /\ tag[Lump[caller]] = NoBlock /\ Lump[caller] \in Users
    BY <1>5, HolderConstants DEF Valid, TypeOK, CallerSound
  <2>2. /\ tag'[Lump[caller]] = TagFor(caller)
        /\ \A u \in Users \ {Lump[caller]} : tag'[u] = tag[u]
    BY <1>1, <2>1
  <2>3. held' \subseteq held \cup {caller} /\ looking' \subseteq {caller}
    BY <1>5 DEF Granted, Given
  <2>4. caller \in held' /\ caller \notin held => Kind[caller] # "glance"
    BY <1>5 DEF Granted, Given
  <2>5. ASSUME NEW g \in held'
        PROVE  tag'[Lump[g]] = TagFor(g) /\ ~Purgable(tag'[Lump[g]])
    <3>1. CASE g = caller
      <4>1. caller \notin held
        <5>1. caller \in Holders /\ tag[Lump[caller]] = NoBlock
          BY <2>1
        <5>2. TagFor(caller) # NoBlock
          BY <5>1, TagForHolder, HolderConstants
             DEF NoBlock, PU_STATIC, PU_LEVEL, PU_CACHE
        <5> QED BY <5>1, <5>2 DEF Valid, PointersValid
      <4>2. ~Purgable(TagFor(caller))
        BY <3>1, <4>1, <2>4, <2>5, <2>1, TagForHolder
      <4> QED BY <3>1, <4>2, <2>2
    <3>2. CASE g # caller
      <4>1. g \in held /\ g \in Holders /\ Lump[g] \in Users
        BY <3>2, <2>3, <2>5, HolderConstants DEF Valid, TypeOK
      <4>2. tag[Lump[g]] = TagFor(g) /\ ~Purgable(tag[Lump[g]]) /\ TagFor(g) \in Tags
        BY <4>1, TagForHolder DEF Valid, PointersValid
      <4>3. Lump[g] # Lump[caller]
        BY <4>2, <2>1, HolderConstants
      <4> QED BY <4>1, <4>2, <4>3, <2>2
    <3> QED BY <3>1, <3>2
  <2>6. \A g \in looking' : tag'[Lump[g]] # NoBlock
    BY <2>1, <2>2, <2>3, TagForHolder, HolderConstants
  <2>7. TypeOK'
    BY <1>1, <1>3, <2>1, <2>3 DEF Valid, TypeOK
  <2>8. CallerSound'
    BY <1>1 DEF CallerSound
  <2> QED BY <2>5, <2>6, <2>7, <2>8 DEF Valid, PointersValid
<1> QED BY <1>4, <1>5

(* A scan throws out nothing that is held, a sweep only what the level's   *)
(* holders have given up before.                                           *)
LEMMA SweepsValid == Valid /\ Sweeps => Valid'
<1> SUFFICES ASSUME Valid, Sweeps PROVE Valid'
  OBVIOUS
<1>1. PICK u \in Users : Evict(u) \/ SweepOut(u)
  BY DEF Sweeps
<1>2. /\ tag' = [tag EXCEPT ![u] = NoBlock] /\ doing # "idle"
      /\ UNCHANGED <<doing, request, held, looking, caller>>
  BY <1>1 DEF Evict, SweepOut, Sweeps
<1>3. looking = {}
  BY <1>2 DEF Valid, CallerSound
<1>4. ASSUME NEW g \in held PROVE Lump[g] # u
  <2>1. g \in Holders /\ tag[Lump[g]] = TagFor(g) /\ ~Purgable(tag[Lump[g]])
    BY DEF Valid, TypeOK, PointersValid
  <2>2. CASE Evict(u)
    BY <2>1, <2>2 DEF Evict
  <2>3. CASE SweepOut(u)
    <3>1. OfLevel(tag[u]) /\ g \notin ForLevel
      BY <2>3 DEF SweepOut, Valid, CallerSound
    <3>2. TagFor(g) \in {PU_STATIC, PU_CACHE}
      BY <3>1, <2>1 DEF ForLevel, TagFor
    <3> QED BY <3>1, <3>2, <2>1 DEF OfLevel
  <2> QED BY <1>1, <2>2, <2>3
<1>5. TypeOK'
  BY <1>2 DEF Valid, TypeOK
<1>6. PointersValid'
  <2>1. ASSUME NEW g \in held PROVE Lump[g] \in Users /\ tag'[Lump[g]] = tag[Lump[g]]
    BY <1>2, <1>4, HolderConstants DEF Valid, TypeOK
  <2> QED BY <2>1, <1>2, <1>3 DEF Valid, PointersValid
<1>7. CallerSound'
  BY <1>2, HolderConstants DEF Valid, CallerSound, TypeOK
<1> QED BY <1>5, <1>6, <1>7 DEF Valid

LEMMA EndsValid == Valid /\ Ends => Valid'
<1> SUFFICES ASSUME Valid, Ends PROVE Valid'
  OBVIOUS
<1>1. CASE Refuse
  BY <1>1 DEF Ends, Refuse, Valid, TypeOK, PointersValid, CallerSound
<1>2. CASE EndSweep
  BY <1>2 DEF Ends, EndSweep, Valid, TypeOK, PointersValid, CallerSound
<1> QED BY <1>1, <1>2 DEF Ends

LEMMA NextValid == Valid /\ [Next]_vars => Valid'
<1> SUFFICES ASSUME Valid, [Next]_vars PROVE Valid'
  OBVIOUS
<1>1. ASSUME NEW h \in Holders, W_CacheLumpNum(h) PROVE Valid'
  <2>1. CASE Hit(h)
    BY <2>1, HitValid
  <2>2. CASE Miss(h)
    BY <2>2, AskValid DEF Miss
  <2> QED BY <1>1, <2>1, <2>2 DEF W_CacheLumpNum
<1>2. ASSUME NEW h \in Holders, W_ReleaseLumpNum(h) PROVE Valid'
  BY <1>2, GivesUpValid DEF W_ReleaseLumpNum, Releases
<1>3. ASSUME NEW h \in Holders, R_GenerateComposite(h) PROVE Valid'
  BY <1>3, AskValid, TagForHolder DEF R_GenerateComposite
<1>4. ASSUME NEW h \in Holders, Composed(h) PROVE Valid'
  BY <1>4, GivesUpValid DEF Composed
<1>5. ASSUME NEW h \in Holders, R_GetColumn(h) PROVE Valid'
  BY <1>5 DEF R_GetColumn, contractVars, Valid, TypeOK, PointersValid, CallerSound
<1>6. CASE UNCHANGED vars
  BY <1>6 DEF vars, contractVars, Valid, TypeOK, PointersValid, CallerSound
<1> QED
  BY <1>1, <1>2, <1>3, <1>4, <1>5, <1>6, OtherMallocValid, SetupLevelValid,
     GrantedValid, SweepsValid, EndsValid DEF Next

(* Valid is an invariant.                                                  *)
THEOREM AlwaysValid == Spec => []Valid
BY InitValid, NextValid, PTL DEF Spec

(* No holder is ever left with a pointer to a block that was thrown out,   *)
(* freed with the level or given to somebody else.                         *)
THEOREM PointersStayValid == Spec => []PointersValid
<1>1. Valid => PointersValid
  BY DEF Valid
<1> QED BY AlwaysValid, <1>1, PTL
=============================================================================
