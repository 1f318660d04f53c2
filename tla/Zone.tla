-------------------------------- MODULE Zone --------------------------------
(***************************************************************************)
(* The zone allocator of Doom, cmd/doom/z_zone.c: one region of memory     *)
(* tiled by blocks, each with a header that links it to its neighbours.    *)
(* Z_Malloc scans from the rover, throwing purgable blocks out on its way; *)
(* Z_FreeTags walks the list while it frees.                               *)
(*                                                                         *)
(* An address is the number of a cell, and address 0 is the cap of the     *)
(* list, mainzone->blocklist.  A pointer handed out by Z_Malloc is the     *)
(* address of its block.  Handed out memory is the caller's: a header that *)
(* was there is lost.  Sizes are in cells, already aligned.                *)
(***************************************************************************)
EXTENDS Integers

CONSTANTS
  Cells,        \* the size of the zone
  Header,       \* sizeof(memblock_t)
  MinFragment,  \* MINFRAGMENT
  Requests,     \* the sizes that are asked for
  Users,        \* the pointer variables that own blocks
  NoUser,       \* NULL
  Tags          \* the tags blocks are allocated with

PU_STATIC     == 1
PU_FREE       == 4
PU_LEVEL      == 5
PU_PURGELEVEL == 7
PU_CACHE      == 8

Cap == 0

ASSUME ZoneConstants ==
  /\ Header \in Nat \ {0} /\ MinFragment \in Nat /\ MinFragment >= Header
  /\ Cells \in Nat /\ Cells > Header
  /\ Requests \subseteq Nat \ {0}
  /\ NoUser \notin Users
  /\ Tags \subseteq {PU_STATIC, PU_LEVEL, PU_CACHE}

VARIABLES
  hdr,      \* the memblock_t at each address
  rover,    \* mainzone->rover
  mark,     \* *user, for every pointer variable
  blocks,   \* history: the addresses of the blocks of the list
  pc,       \* "idle" between calls, or what is going on
  call,     \* size, tag and user of the running Z_Malloc; tags of Z_FreeTags
  base,     \* Z_Malloc's base
  scan,     \* Z_Malloc's rover, or Z_FreeTags' block
  start     \* Z_Malloc's start

heap == <<hdr, rover, mark, blocks>>
vars == <<heap, pc, call, base, scan, start>>

(* The heap as a value, for what Z_Malloc and Z_FreeTags do with Z_Free.   *)
Heap == [hdr |-> hdr, rover |-> rover, mark |-> mark, blocks |-> blocks]
SetHeap(h) ==
  /\ hdr' = h.hdr /\ rover' = h.rover /\ mark' = h.mark /\ blocks' = h.blocks

(* The local variables of a call end with it.                              *)
NoCall == [size |-> 0, tag |-> PU_FREE, user |-> NoUser, low |-> 0, high |-> 0]
Return == /\ pc' = "idle" /\ call' = NoCall
          /\ base' = Cap /\ scan' = Cap /\ start' = Cap

(* A header that is not one any more.                                      *)
Lost == [size |-> 0, user |-> NoUser, tag |-> 0, next |-> Cap, prev |-> Cap]

Purgable(tag) == tag >= PU_PURGELEVEL
Pinned(a) == hdr[a].tag # PU_FREE /\ ~Purgable(hdr[a].tag)

-----------------------------------------------------------------------------
(* Z_Free                                                                  *)

(* q is the block after p: p takes its cells.  The header of q remains in  *)
(* memory, but not in the list.                                            *)
AbsorbKeepsRover(h, p, q) ==
  [h EXCEPT !.hdr = [[h.hdr EXCEPT ![p].size = @ + h.hdr[q].size, ![p].next = h.hdr[q].next]
                       EXCEPT ![h.hdr[q].next].prev = p],
            !.blocks = @ \ {q}]
Absorb(h, p, q) ==
  [h EXCEPT !.hdr = [[h.hdr EXCEPT ![p].size = @ + h.hdr[q].size, ![p].next = h.hdr[q].next]
                       EXCEPT ![h.hdr[q].next].prev = p],
            !.rover = IF @ = q THEN p ELSE @,
            !.blocks = @ \ {q}]

KeepsMark(h, a) == [h EXCEPT !.hdr[a].tag = PU_FREE, !.hdr[a].user = NoUser]
Vacated(h, a) ==
  [h EXCEPT !.mark = [u \in Users |-> IF u = h.hdr[a].user THEN Cap ELSE @[u]],
            !.hdr[a].tag = PU_FREE, !.hdr[a].user = NoUser]

MergesBackOnly(h, a) ==
  LET v == Vacated(h, a) IN
  IF v.hdr[v.hdr[a].prev].tag = PU_FREE THEN Absorb(v, v.hdr[a].prev, a) ELSE v
Freed(h, a) ==
  LET v == Vacated(h, a)
      p == v.hdr[a].prev
      b == IF v.hdr[p].tag = PU_FREE THEN p ELSE a
      m == IF b = p THEN Absorb(v, p, a) ELSE v
      n == m.hdr[b].next
  IN IF m.hdr[n].tag = PU_FREE THEN Absorb(m, b, n) ELSE m

Z_Free(a) ==
  /\ pc = "idle"
  /\ a \in blocks /\ hdr[a].tag # PU_FREE
  /\ SetHeap(Freed(Heap, a))
  /\ UNCHANGED <<pc, call, base, scan, start>>

-----------------------------------------------------------------------------
(* Z_Malloc                                                                *)

(* An owner is required for purgable blocks, and a caller passes a variable *)
(* that owns nothing.                                                      *)
Owns(u) == \E a \in blocks : hdr[a].user = u
MayAsk(t, u) ==
  /\ u = NoUser => ~Purgable(t)
  /\ u # NoUser => mark[u] = Cap /\ ~Owns(u)

(* If there is a free block behind the rover, back up over it.             *)
StaysPut == rover
BackedUp == IF hdr[hdr[rover].prev].tag = PU_FREE THEN hdr[rover].prev ELSE rover

Z_Malloc(n, t, u) ==
  /\ pc = "idle" /\ MayAsk(t, u)
  /\ call' = [NoCall EXCEPT !.size = n + Header, !.tag = t, !.user = u]
  /\ base' = BackedUp /\ scan' = BackedUp /\ start' = hdr[BackedUp].prev
  /\ pc' = "scan"
  /\ UNCHANGED heap

(* while (base->tag != PU_FREE || base->size < size)                       *)
Fits(h, b) == h[b].tag = PU_FREE /\ h[b].size >= call.size
Again(h, b) == pc' = IF Fits(h, b) THEN "found" ELSE "scan"

NeverAround == FALSE
Around == scan = start

AllTheWay ==
  /\ pc = "scan" /\ Around
  /\ pc' = "failed"
  /\ UNCHANGED <<heap, call, base, scan, start>>

(* A block that cannot be purged: move base past it.                       *)
PurgesLevel(a) == hdr[a].tag # PU_FREE /\ hdr[a].tag < PU_LEVEL
MovesPast(a) == Pinned(a)
SkipPinned ==
  /\ pc = "scan" /\ ~Around /\ MovesPast(scan)
  /\ base' = hdr[scan].next /\ scan' = hdr[scan].next
  /\ Again(hdr, base')
  /\ UNCHANGED <<heap, call, start>>

(* Free the block: base may be that block, so step back before, and        *)
(* forward after.                                                          *)
StepBack == hdr[base].prev
Purge ==
  /\ pc = "scan" /\ ~Around /\ hdr[scan].tag # PU_FREE /\ ~MovesPast(scan)
  /\ LET h == Freed(Heap, scan)
         b == h.hdr[StepBack].next
     IN /\ SetHeap(h)
        /\ base' = b /\ scan' = h.hdr[b].next
        /\ Again(h.hdr, b)
  /\ UNCHANGED <<call, start>>

StepOver ==
  /\ pc = "scan" /\ ~Around /\ hdr[scan].tag = PU_FREE
  /\ scan' = hdr[scan].next /\ base' = base
  /\ Again(hdr, base)
  /\ UNCHANGED <<heap, call, start>>

(* A fragment that is large enough becomes a free block.                   *)
Split(h, b, n) ==
  LET f == b + n IN
  [[h EXCEPT ![f] = [size |-> h[b].size - n, user |-> NoUser, tag |-> PU_FREE,
                     next |-> h[b].next, prev |-> b],
             ![b].next = f, ![b].size = n]
     EXCEPT ![h[b].next].prev = f]

Splits(b) == hdr[b].size - call.size > MinFragment

HandOut ==
  /\ pc = "found"
  /\ LET h == IF Splits(base) THEN Split(hdr, base, call.size) ELSE hdr
     IN /\ hdr' = [a \in DOMAIN hdr |->
                    IF a = base THEN [h[a] EXCEPT !.user = call.user, !.tag = call.tag]
                    ELSE IF base < a /\ a < base + h[base].size THEN Lost
                    ELSE h[a]]
        /\ rover' = h[base].next
  /\ mark' = IF call.user = NoUser THEN mark ELSE [mark EXCEPT ![call.user] = base]
  /\ blocks' = IF Splits(base) THEN blocks \cup {base + call.size} ELSE blocks
  /\ Return

-----------------------------------------------------------------------------
(* Z_FreeTags, Z_ChangeTag, Z_ChangeUser                                   *)

Z_FreeTags(low, high) ==
  /\ pc = "idle"
  /\ call' = [call EXCEPT !.low = low, !.high = high]
  /\ scan' = hdr[Cap].next
  /\ pc' = "sweep"
  /\ UNCHANGED <<heap, base, start>>

InRange(a) == hdr[a].tag # PU_FREE /\ hdr[a].tag >= call.low /\ hdr[a].tag <= call.high

(* The link is read before the block is freed.                             *)
LinkAfterNext == hdr[hdr[scan].next].next
Link == hdr[scan].next

Sweep ==
  /\ pc = "sweep" /\ scan # Cap
  /\ scan' = Link
  /\ IF InRange(scan) THEN SetHeap(Freed(Heap, scan)) ELSE UNCHANGED heap
  /\ UNCHANGED <<pc, call, base, start>>

Swept ==
  /\ pc = "sweep" /\ scan = Cap
  /\ Return
  /\ UNCHANGED heap

(* An owner is required for purgable blocks.                               *)
Z_ChangeTag(a, t) ==
  /\ pc = "idle"
  /\ a \in blocks /\ hdr[a].tag # PU_FREE
  /\ Purgable(t) => hdr[a].user # NoUser
  /\ hdr' = [hdr EXCEPT ![a].tag = t]
  /\ UNCHANGED <<rover, mark, blocks, pc, call, base, scan, start>>

(* ExtendLumpInfo moves the variable that owns a block: the old one is     *)
(* thrown away with the array it was in.                                   *)
Z_ChangeUser(a, u) ==
  /\ pc = "idle"
  /\ a \in blocks /\ hdr[a].tag # PU_FREE /\ hdr[a].user # NoUser
  /\ mark[u] = Cap /\ ~Owns(u)
  /\ hdr' = [hdr EXCEPT ![a].user = u]
  /\ mark' = [mark EXCEPT ![u] = a, ![hdr[a].user] = Cap]
  /\ UNCHANGED <<rover, blocks, pc, call, base, scan, start>>

-----------------------------------------------------------------------------
(* Z_Init: the whole zone is one free block.                               *)
Init ==
  /\ hdr = [a \in 0..Cells |->
              IF a = Cap THEN [Lost EXCEPT !.tag = PU_STATIC, !.next = 1, !.prev = 1]
              ELSE IF a = 1 THEN [Lost EXCEPT !.tag = PU_FREE, !.size = Cells]
              ELSE Lost]
  /\ rover = 1 /\ blocks = {1}
  /\ mark = [u \in Users |-> Cap]
  /\ pc = "idle"
  /\ call = NoCall
  /\ base = Cap /\ scan = Cap /\ start = Cap

Call ==
  \/ \E n \in Requests, t \in Tags, u \in Users \cup {NoUser} : Z_Malloc(n, t, u)
  \/ \E a \in blocks : Z_Free(a) \/ (\E t \in Tags : Z_ChangeTag(a, t))
                         \/ (\E u \in Users : Z_ChangeUser(a, u))
  \/ Z_FreeTags(PU_LEVEL, PU_PURGELEVEL - 1)

Continue == AllTheWay \/ SkipPinned \/ Purge \/ StepOver \/ HandOut \/ Sweep \/ Swept

Next == Call \/ Continue

Spec == Init /\ [][Next]_vars

(* A call that was begun goes on: nothing in its loops waits.              *)
FairSpec == Spec /\ WF_vars(Continue)

-----------------------------------------------------------------------------
Addresses == 0..Cells

TypeOK ==
  /\ hdr \in [Addresses -> [size : 0..Cells, user : Users \cup {NoUser},
                            tag : {0, PU_FREE} \cup {PU_STATIC} \cup Tags,
                            next : Addresses, prev : Addresses]]
  /\ rover \in Addresses /\ mark \in [Users -> Addresses] /\ blocks \subseteq 1..Cells
  /\ pc \in {"idle", "scan", "found", "sweep", "failed"}
  /\ call.user \in Users \cup {NoUser} /\ call.size \in Nat
  /\ base \in Addresses /\ scan \in Addresses /\ start \in Addresses

InList(a) == a \in blocks \cup {Cap}

(* There is never any space between memblocks, and every link has its back *)
(* link.                                                                   *)
Tiled ==
  /\ InList(rover)
  /\ \A a \in blocks \cup {Cap} :
       /\ InList(hdr[a].next) /\ InList(hdr[a].prev)
       /\ hdr[hdr[a].next].prev = a /\ hdr[hdr[a].prev].next = a
  /\ hdr[Cap].next = 1
  /\ \A a \in blocks : /\ hdr[a].size >= Header
                       /\ a + hdr[a].size = IF hdr[a].next = Cap THEN Cells + 1
                                            ELSE hdr[a].next

(* There will never be two contiguous free memblocks.                      *)
Coalesced ==
  \A a \in blocks : hdr[a].tag = PU_FREE => hdr[hdr[a].next].tag # PU_FREE

(* What Z_CheckHeap tests, at every moment: also between the steps of a    *)
(* scan that throws blocks out, and after any sequence of calls.           *)
HeapSound == TypeOK /\ Tiled /\ Coalesced

(* A pointer variable that owns a block points to it, and one that points  *)
(* to a block owns it: no variable is left pointing to memory that was     *)
(* purged, freed or given to someone else.                                 *)
MarksSound ==
  \A u \in Users :
    /\ mark[u] # Cap => /\ mark[u] \in blocks
                        /\ hdr[mark[u]].tag # PU_FREE /\ hdr[mark[u]].user = u
    /\ \A a \in blocks : hdr[a].user = u => mark[u] = a

(* The loops only read headers of the list; the one exception is the block *)
(* Z_FreeTags has read a link to and Z_Free has merged since, which is     *)
(* still marked free and still links to the list.                          *)
CursorsSound ==
  /\ pc = "scan" => InList(base) /\ InList(scan) /\ InList(start)
  /\ pc = "scan" => hdr[start].tag # PU_FREE
  /\ pc = "sweep" => InList(scan) \/ (hdr[scan].tag = PU_FREE /\ InList(hdr[scan].next))

(* Z_FreeTags misses no block: behind its cursor no tag is in the range.   *)
SweepComplete ==
  pc = "sweep" => \A a \in blocks : InRange(a) => scan # Cap /\ a >= scan

(* Z_Malloc only gives up after it has thrown out every purgable block it  *)
(* passed, all but the one it started behind, and no free one fits.        *)
FailsLate ==
  pc = "failed" => \A a \in blocks : /\ ~Fits(hdr, a)
                                     /\ Purgable(hdr[a].tag) => a = start

(* A scan never frees, moves or shrinks a block that cannot be purged.     *)
Stays(a) ==
  /\ a \in blocks' /\ hdr'[a].size = hdr[a].size
  /\ hdr'[a].tag = hdr[a].tag /\ hdr'[a].user = hdr[a].user
PinnedStay ==
  [][(pc \in {"scan", "found"}) => \A a \in blocks : Pinned(a) => Stays(a)]_vars

(* The zone keeps its promise to the owners of blocks (ZoneContract): a    *)
(* pointer only changes under an allocation, and then only if its block is *)
(* purgable; Z_FreeTags leaves no block of a level; every call ends.       *)
PointerTag == [u \in Users |-> IF mark[u] = Cap THEN 0 ELSE hdr[mark[u]].tag]
Doing == IF pc \in {"scan", "found"} THEN "malloc" ELSE pc
Asking == IF pc \in {"scan", "found", "failed"} THEN [tag |-> call.tag, user |-> call.user]
          ELSE [tag |-> 0, user |-> NoUser]
Contract == INSTANCE ZoneContract WITH
  tag <- PointerTag, doing <- Doing, request <- Asking
ImplementsContract == Contract!ContractSpec
=============================================================================
