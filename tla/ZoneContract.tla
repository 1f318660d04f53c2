---------------------------- MODULE ZoneContract ----------------------------
(***************************************************************************)
(* What the zone promises to those who keep a pointer to a block in it: a  *)
(* pointer keeps its value while its block has a tag that is not purgable, *)
(* and otherwise becomes null at the moment the block is thrown out, which *)
(* only an allocation does.  Zone implements this; LumpCache relies on it. *)
(***************************************************************************)
EXTENDS Integers

CONSTANTS
  Users,    \* the pointer variables
  NoUser,   \* no variable: the block belongs to no one
  Tags      \* the tags that are given to blocks

PU_STATIC     == 1
PU_LEVEL      == 5
PU_PURGELEVEL == 7
PU_CACHE      == 8

NoBlock == 0

ASSUME ContractConstants ==
  /\ NoUser \notin Users
  /\ Tags \subseteq {PU_STATIC, PU_LEVEL, PU_CACHE}

VARIABLES
  tag,      \* the tag of the block each variable points to, or NoBlock
  doing,    \* "idle", "malloc", "sweep" (Z_FreeTags), "failed" (I_Error)
  request   \* what a Z_Malloc that is going on was asked for

contractVars == <<tag, doing, request>>

Purgable(t) == t >= PU_PURGELEVEL
OfLevel(t)  == PU_LEVEL <= t /\ t < PU_PURGELEVEL
NoRequest   == [tag |-> NoBlock, user |-> NoUser]

ContractInit ==
  /\ tag = [u \in Users |-> NoBlock]
  /\ doing = "idle" /\ request = NoRequest

(* Z_Malloc throws out what it likes of the purgable blocks, and then      *)
(* either hands out a block or ends the program.                           *)
Ask(t, u) ==
  /\ doing = "idle"
  /\ u = NoUser => ~Purgable(t)
  /\ u # NoUser => tag[u] = NoBlock
  /\ doing' = "malloc" /\ request' = [tag |-> t, user |-> u]
  /\ UNCHANGED tag
Evict(u) ==
  /\ doing = "malloc" /\ Purgable(tag[u])
  /\ tag' = [tag EXCEPT ![u] = NoBlock]
  /\ UNCHANGED <<doing, request>>
Grant ==
  /\ doing = "malloc"
  /\ tag' = [u \in Users |-> IF u = request.user THEN request.tag ELSE tag[u]]
  /\ doing' = "idle" /\ request' = NoRequest
Refuse ==
  /\ doing = "malloc"
  /\ doing' = "failed"
  /\ UNCHANGED <<tag, request>>

(* Z_FreeTags(PU_LEVEL, PU_PURGELEVEL - 1) leaves no block of a level.     *)
StartSweep ==
  /\ doing = "idle" /\ doing' = "sweep"
  /\ UNCHANGED <<tag, request>>
SweepOut(u) ==
  /\ doing = "sweep" /\ OfLevel(tag[u])
  /\ tag' = [tag EXCEPT ![u] = NoBlock]
  /\ UNCHANGED <<doing, request>>
EndSweep ==
  /\ doing = "sweep" /\ \A u \in Users : ~OfLevel(tag[u])
  /\ doing' = "idle"
  /\ UNCHANGED <<tag, request>>

(* Z_Free, Z_ChangeTag, Z_ChangeUser.                                      *)
Free(u) ==
  /\ doing = "idle" /\ tag[u] # NoBlock
  /\ tag' = [tag EXCEPT ![u] = NoBlock]
  /\ UNCHANGED <<doing, request>>
Retag(u, t) ==
  /\ doing = "idle" /\ tag[u] # NoBlock
  /\ tag' = [tag EXCEPT ![u] = t]
  /\ UNCHANGED <<doing, request>>
Move(u, v) ==
  /\ doing = "idle" /\ tag[u] # NoBlock /\ tag[v] = NoBlock
  /\ tag' = [tag EXCEPT ![v] = tag[u], ![u] = NoBlock]
  /\ UNCHANGED <<doing, request>>

GoOn == \/ \E u \in Users : Evict(u) \/ SweepOut(u)
        \/ Grant \/ Refuse \/ EndSweep

ContractNext ==
  \/ \E t \in Tags, u \in Users \cup {NoUser} : Ask(t, u)
  \/ StartSweep \/ GoOn
  \/ \E u \in Users : Free(u) \/ \E t \in Tags : Retag(u, t)
  \/ \E u, v \in Users : Move(u, v)

(* Every call comes to an end.                                             *)
ContractSpec == ContractInit /\ [][ContractNext]_contractVars /\ WF_contractVars(GoOn)
=============================================================================
