----------------------------- MODULE ZoneProofs -----------------------------
(***************************************************************************)
(* Proofs about Zone, for a zone, headers, fragments and requests of any   *)
(* size, and any number of pointer variables.                              *)
(*                                                                         *)
(* Z_Free is the heart of it: Z_Malloc and Z_FreeTags call it in their     *)
(* loops, with pointers into the list it changes.  The first part says     *)
(* what merging two blocks does to a heap, the second what Z_Free does,    *)
(* the third that every step of the loops keeps what the next one needs.   *)
(***************************************************************************)
EXTENDS Zone, TLAPS

-----------------------------------------------------------------------------
(* The list                                                                *)

AllTags == {0, PU_FREE} \cup {PU_STATIC} \cup Tags
Owners == Users \cup {NoUser}
Hdrs == [Addresses -> [size : 0..Cells, user : Owners, tag : AllTags,
                       next : Addresses, prev : Addresses]]
Heaps == [hdr : Hdrs, rover : Addresses, mark : [Users -> Addresses],
          blocks : SUBSET (1..Cells)]

(* The blocks tile the zone.  That a block ends where the next one begins  *)
(* does not say that there is none inside of it, so that is said as well.  *)
Linked(hd, bl) ==
  /\ 1 \in bl /\ hd[Cap].tag = PU_STATIC /\ hd[Cap].next = 1
  /\ \A a \in bl \cup {Cap} :
       /\ hd[a].next \in bl \cup {Cap} /\ hd[a].prev \in bl \cup {Cap}
       /\ hd[hd[a].next].prev = a /\ hd[hd[a].prev].next = a
  /\ \A a \in bl : /\ hd[a].size >= Header
                   /\ a + hd[a].size = IF hd[a].next = Cap THEN Cells + 1 ELSE hd[a].next
  /\ \A a, b \in bl : a < b => a + hd[a].size <= b

(* No two free blocks touch, or only those in S and the block behind them. *)
CoalescedBut(hd, bl, S) ==
  \A a \in bl \ S : hd[a].tag = PU_FREE => hd[hd[a].next].tag # PU_FREE

Good(h) == h \in Heaps /\ Linked(h.hdr, h.blocks) /\ h.rover \in h.blocks \cup {Cap}

LEMMA HdrFields ==
  ASSUME NEW hd \in Hdrs, NEW a \in Addresses
  PROVE  /\ hd[a].size \in 0..Cells /\ hd[a].user \in Owners /\ hd[a].tag \in AllTags
         /\ hd[a].next \in Addresses /\ hd[a].prev \in Addresses
BY DEF Hdrs

(* A block is below the next one, unless it is the last.                   *)
LEMMA NextIsAbove ==
  ASSUME NEW h, Good(h), NEW a \in h.blocks
  PROVE  /\ a \in Addresses /\ a # Cap /\ a < a + h.hdr[a].size
         /\ h.hdr[a].next # Cap => a < h.hdr[a].next
         /\ h.hdr[a].next # a /\ h.hdr[a].prev # a
<1>1. a \in 1..Cells /\ h.hdr[a].size \in 0..Cells
  <2>1. h.hdr \in Hdrs /\ a \in 1..Cells
    BY DEF Good, Heaps
  <2>2. a \in Addresses
    BY ZoneConstants, <2>1 DEF Addresses
  <2> QED BY <2>1, <2>2, HdrFields
<1>2. /\ h.hdr[a].size >= Header
      /\ a + h.hdr[a].size = IF h.hdr[a].next = Cap THEN Cells + 1 ELSE h.hdr[a].next
      /\ h.hdr[h.hdr[a].prev].next = a
  BY DEF Good, Linked
<1>3. a \in Addresses /\ a # Cap /\ a < a + h.hdr[a].size
  BY ZoneConstants, <1>1, <1>2 DEF Addresses, Cap
<1>4. h.hdr[a].next # Cap => a < h.hdr[a].next
  BY <1>2, <1>3
<1>5. h.hdr[a].next # a
  BY <1>1, <1>3, <1>4
<1> QED BY <1>2, <1>3, <1>4, <1>5

-----------------------------------------------------------------------------
(* Merging two blocks                                                      *)

LEMMA AbsorbFields ==
  ASSUME NEW h \in Heaps, NEW p \in Addresses, NEW q \in Addresses,
         h.hdr[p].size + h.hdr[q].size <= Cells,
         NEW g, g = Absorb(h, p, q)
  PROVE  /\ g \in Heaps
         /\ \A a \in Addresses :
              /\ g.hdr[a].size = IF a = p THEN h.hdr[p].size + h.hdr[q].size ELSE h.hdr[a].size
              /\ g.hdr[a].next = IF a = p THEN h.hdr[q].next ELSE h.hdr[a].next
              /\ g.hdr[a].prev = IF a = h.hdr[q].next THEN p ELSE h.hdr[a].prev
              /\ g.hdr[a].tag = h.hdr[a].tag /\ g.hdr[a].user = h.hdr[a].user
         /\ g.rover = IF h.rover = q THEN p ELSE h.rover
         /\ g.mark = h.mark /\ g.blocks = h.blocks \ {q}
<1> DEFINE n == h.hdr[q].next
           s == h.hdr[p].size + h.hdr[q].size
           first == [h.hdr EXCEPT ![p].size = s, ![p].next = n]
           both == [first EXCEPT ![n].prev = p]
           r == IF h.rover = q THEN p ELSE h.rover
<1>1. n \in Addresses /\ s \in 0..Cells
  BY ZoneConstants DEF Heaps, Hdrs
<1>2. /\ first \in Hdrs
      /\ \A a \in Addresses :
           /\ first[a].size = IF a = p THEN s ELSE h.hdr[a].size
           /\ first[a].next = IF a = p THEN n ELSE h.hdr[a].next
           /\ first[a].prev = h.hdr[a].prev
           /\ first[a].tag = h.hdr[a].tag /\ first[a].user = h.hdr[a].user
  BY <1>1 DEF Heaps, Hdrs
<1> HIDE DEF first
<1>3. both \in Hdrs
  BY <1>1, <1>2 DEF Hdrs
<1>4. \A a \in Addresses :
        /\ both[a].prev = IF a = n THEN p ELSE first[a].prev
        /\ both[a].size = first[a].size /\ both[a].next = first[a].next
        /\ both[a].tag = first[a].tag /\ both[a].user = first[a].user
  BY <1>1, <1>2 DEF Hdrs
<1>5. g = [h EXCEPT !.hdr = both, !.rover = r, !.blocks = h.blocks \ {q}]
  BY DEF Absorb, first
<1> HIDE DEF both
<1>6. g.hdr = both /\ g.rover = r /\ g.mark = h.mark /\ g.blocks = h.blocks \ {q}
  BY <1>5 DEF Heaps
<1>7. g \in Heaps
  BY <1>3, <1>5 DEF Heaps
<1> QED BY <1>2, <1>4, <1>6, <1>7

(* The block behind p becomes a part of it: the list stays a list.         *)
LEMMA AbsorbGood ==
  ASSUME NEW h, Good(h), NEW p \in h.blocks, h.hdr[p].next # Cap,
         NEW g, g = Absorb(h, p, h.hdr[p].next)
  PROVE  /\ Good(g)
         /\ h.hdr[p].size + h.hdr[h.hdr[p].next].size <= Cells
<1> DEFINE q == h.hdr[p].next
           n == h.hdr[q].next
           List == h.blocks \cup {Cap}
<1>1. /\ h \in Heaps /\ h.hdr \in Hdrs /\ h.blocks \subseteq 1..Cells /\ q \in h.blocks
      /\ h.rover \in List
  BY DEF Good, Heaps, Linked
<1>2. /\ p \in Addresses /\ p # Cap /\ p < q
      /\ q \in Addresses /\ q # Cap /\ n # q /\ n \in Addresses
  BY <1>1, NextIsAbove, HdrFields
<1>3. /\ n # Cap => q < n
      /\ h.hdr[p].size \in 0..Cells /\ h.hdr[q].size \in 0..Cells
  BY <1>1, <1>2, NextIsAbove, HdrFields
<1>4. /\ p + h.hdr[p].size = q
      /\ q + h.hdr[q].size = IF n = Cap THEN Cells + 1 ELSE n
      /\ h.hdr[p].size >= Header /\ h.hdr[q].size >= Header
  BY <1>1 DEF Good, Linked
<1>5. n # p /\ h.hdr[p].size + h.hdr[q].size <= Cells
  BY ZoneConstants, <1>2, <1>3, <1>4 DEF Addresses, Cap
<1>6. /\ g \in Heaps
      /\ \A a \in Addresses :
           /\ g.hdr[a].size = IF a = p THEN h.hdr[p].size + h.hdr[q].size ELSE h.hdr[a].size
           /\ g.hdr[a].next = IF a = p THEN n ELSE h.hdr[a].next
           /\ g.hdr[a].prev = IF a = n THEN p ELSE h.hdr[a].prev
           /\ g.hdr[a].tag = h.hdr[a].tag
      /\ g.rover = IF h.rover = q THEN p ELSE h.rover
      /\ g.blocks = h.blocks \ {q}
  BY <1>1, <1>2, <1>5, AbsorbFields
<1>7. \A a \in List : a \in Addresses
  BY ZoneConstants, <1>1 DEF Addresses, Cap
<1>8. /\ 1 \in h.blocks /\ h.hdr[Cap].tag = PU_STATIC /\ h.hdr[Cap].next = 1
      /\ \A a \in List : /\ h.hdr[a].next \in List /\ h.hdr[a].prev \in List
                         /\ h.hdr[h.hdr[a].next].prev = a /\ h.hdr[h.hdr[a].prev].next = a
      /\ \A a \in h.blocks :
           /\ h.hdr[a].size >= Header
           /\ a + h.hdr[a].size = IF h.hdr[a].next = Cap THEN Cells + 1 ELSE h.hdr[a].next
      /\ \A a, b \in h.blocks : a < b => a + h.hdr[a].size <= b
  BY DEF Good, Linked
<1> DEFINE G == g.hdr
           GList == g.blocks \cup {Cap}
<1>9. p \in GList /\ n \in GList /\ Cap \in GList /\ 1 \in g.blocks /\ GList \subseteq List
  BY <1>1, <1>2, <1>6, <1>8
<1>10. G[Cap].tag = PU_STATIC /\ G[Cap].next = 1
  BY <1>2, <1>6, <1>7, <1>8
<1>11. ASSUME NEW a \in GList
       PROVE  G[a].next \in GList /\ G[G[a].next].prev = a
  <2>1. a \in List /\ a \in Addresses /\ a # q
    BY <1>2, <1>6, <1>7, <1>9
  <2>2. CASE a = p
    BY <1>2, <1>6, <1>9, <2>2
  <2>3. CASE a # p
    <3>1. h.hdr[a].next # q /\ h.hdr[a].next # n
      BY <1>8, <2>1, <2>3, <1>1
    <3>2. G[a].next = h.hdr[a].next /\ h.hdr[a].next \in List
      BY <1>6, <1>8, <2>1, <2>3
    <3>3. G[h.hdr[a].next].prev = a
      BY <1>6, <1>7, <1>8, <2>1, <3>1, <3>2
    <3> QED BY <1>6, <3>1, <3>2, <3>3
  <2> QED BY <2>2, <2>3
<1>12. ASSUME NEW a \in GList
       PROVE  G[a].prev \in GList /\ G[G[a].prev].next = a
  <2>1. a \in List /\ a \in Addresses /\ a # q
    BY <1>2, <1>6, <1>7, <1>9
  <2>2. CASE a = n
    BY <1>2, <1>6, <1>9, <2>2
  <2>3. CASE a # n
    <3>1. h.hdr[a].prev # q /\ h.hdr[a].prev # p
      BY <1>8, <2>1, <2>3, <1>1
    <3>2. G[a].prev = h.hdr[a].prev /\ h.hdr[a].prev \in List
      BY <1>6, <1>8, <2>1, <2>3
    <3>3. G[h.hdr[a].prev].next = a
      BY <1>6, <1>7, <1>8, <2>1, <3>1, <3>2
    <3> QED BY <1>6, <3>1, <3>2, <3>3
  <2> QED BY <2>2, <2>3
<1>13. ASSUME NEW a \in g.blocks
       PROVE  /\ G[a].size >= Header
              /\ a + G[a].size = IF G[a].next = Cap THEN Cells + 1 ELSE G[a].next
  <2>1. a \in h.blocks /\ a \in Addresses
    BY <1>6, <1>7
  <2>2. CASE a = p
    <3>1. G[a].size = h.hdr[p].size + h.hdr[q].size /\ G[a].next = n
      BY <1>2, <1>6, <2>2
    <3> QED BY ZoneConstants, <1>2, <1>3, <1>4, <2>2, <3>1 DEF Addresses
  <2>3. CASE a # p
    BY <1>6, <1>8, <2>1, <2>3
  <2> QED BY <2>2, <2>3
<1>14. ASSUME NEW a \in g.blocks, NEW b \in g.blocks, a < b
       PROVE  a + G[a].size <= b
  <2>1. /\ a \in h.blocks /\ b \in h.blocks /\ a \in 1..Cells /\ b \in 1..Cells /\ b # q
        /\ a \in Addresses
    BY <1>1, <1>6, <1>7
  <2>2. CASE a = p
    <3>1. q <= b
      <4>1. a + h.hdr[a].size <= b
        BY <1>8, <1>14, <2>1
      <4> QED BY ZoneConstants, <1>2, <1>3, <1>4, <2>1, <2>2, <4>1 DEF Addresses
    <3>2. q + h.hdr[q].size <= b
      <4>1. q < b
        BY ZoneConstants, <1>2, <2>1, <3>1 DEF Addresses
      <4> QED BY <1>1, <1>8, <2>1, <4>1
    <3>3. G[a].size = h.hdr[p].size + h.hdr[q].size
      BY <1>2, <1>6, <2>2
    <3> QED BY ZoneConstants, <1>2, <1>3, <1>4, <2>1, <2>2, <3>2, <3>3 DEF Addresses
  <2>3. CASE a # p
    BY <1>6, <1>8, <1>14, <2>1, <2>3
  <2> QED BY <2>2, <2>3
<1>15. Linked(g.hdr, g.blocks)
  BY <1>9, <1>10, <1>11, <1>12, <1>13, <1>14 DEF Linked
<1>16. g.rover \in GList
  BY <1>1, <1>6, <1>9
<1> QED BY <1>5, <1>6, <1>15, <1>16 DEF Good

-----------------------------------------------------------------------------
(* Z_Free                                                                  *)

LEMMA VacatedFields ==
  ASSUME NEW h, Good(h), NEW a \in h.blocks, NEW v, v = Vacated(h, a)
  PROVE  /\ Good(v)
         /\ v.hdr[a].tag = PU_FREE /\ v.hdr[a].user = NoUser
         /\ \A x \in Addresses :
              /\ v.hdr[x].size = h.hdr[x].size
              /\ v.hdr[x].next = h.hdr[x].next /\ v.hdr[x].prev = h.hdr[x].prev
              /\ x # a => v.hdr[x].tag = h.hdr[x].tag /\ v.hdr[x].user = h.hdr[x].user
         /\ v.blocks = h.blocks /\ v.rover = h.rover
         /\ v.mark = [u \in Users |-> IF u = h.hdr[a].user THEN Cap ELSE h.mark[u]]
<1> DEFINE mk == [u \in Users |-> IF u = h.hdr[a].user THEN Cap ELSE h.mark[u]]
           hd == [h.hdr EXCEPT ![a].tag = PU_FREE, ![a].user = NoUser]
<1>1. /\ h \in Heaps /\ h.hdr \in Hdrs /\ h.blocks \subseteq 1..Cells
      /\ h.mark \in [Users -> Addresses]
  BY DEF Good, Heaps
<1>2. a \in Addresses /\ a # Cap /\ Cap \in Addresses
  BY ZoneConstants, NextIsAbove DEF Addresses, Cap
<1>3. mk \in [Users -> Addresses]
  BY <1>1, <1>2
<1>4. hd \in Hdrs
  BY <1>1, <1>2 DEF Hdrs, Owners, AllTags
<1>5. /\ hd[a].tag = PU_FREE /\ hd[a].user = NoUser
      /\ \A x \in Addresses :
           /\ hd[x].size = h.hdr[x].size
           /\ hd[x].next = h.hdr[x].next /\ hd[x].prev = h.hdr[x].prev
           /\ x # a => hd[x].tag = h.hdr[x].tag /\ hd[x].user = h.hdr[x].user
  BY <1>1, <1>2 DEF Hdrs
<1>6. v = [h EXCEPT !.mark = mk, !.hdr = hd]
  BY <1>1 DEF Vacated, Heaps
<1> HIDE DEF mk, hd
<1>7. v.hdr = hd /\ v.mark = mk /\ v.blocks = h.blocks /\ v.rover = h.rover /\ v \in Heaps
  BY <1>1, <1>3, <1>4, <1>6 DEF Heaps
<1>8. h.blocks \cup {Cap} \subseteq Addresses
  BY ZoneConstants, <1>1 DEF Addresses, Cap
<1>9. Linked(hd, h.blocks)
  <2>1. Linked(h.hdr, h.blocks)
    BY DEF Good
  <2>2. 1 \in h.blocks /\ hd[Cap].tag = PU_STATIC /\ hd[Cap].next = 1
    BY <1>2, <1>5, <2>1 DEF Linked
  <2>3. \A x \in h.blocks \cup {Cap} :
          /\ hd[x].next \in h.blocks \cup {Cap} /\ hd[x].prev \in h.blocks \cup {Cap}
          /\ hd[hd[x].next].prev = x /\ hd[hd[x].prev].next = x
    BY <1>5, <1>8, <2>1 DEF Linked
  <2>4. \A x \in h.blocks :
          /\ hd[x].size >= Header
          /\ x + hd[x].size = IF hd[x].next = Cap THEN Cells + 1 ELSE hd[x].next
    BY <1>5, <1>8, <2>1 DEF Linked
  <2>5. \A x, y \in h.blocks : x < y => x + hd[x].size <= y
    BY <1>5, <1>8, <2>1 DEF Linked
  <2> QED BY <2>2, <2>3, <2>4, <2>5 DEF Linked
<1> QED BY <1>5, <1>7, <1>9 DEF Good, mk

(* What Z_Free makes of a heap.                                            *)
Before(h, a) == h.hdr[a].prev
Behind(h, a) == h.hdr[a].next
Into(h, a) == IF h.hdr[Before(h, a)].tag = PU_FREE THEN Before(h, a) ELSE a
End(h, a) == IF h.hdr[Behind(h, a)].tag = PU_FREE THEN h.hdr[Behind(h, a)].next ELSE Behind(h, a)
Gone(h, a) == (IF h.hdr[Before(h, a)].tag = PU_FREE THEN {a} ELSE {})
              \cup (IF h.hdr[Behind(h, a)].tag = PU_FREE THEN {Behind(h, a)} ELSE {})

FreedTo(h, a, g) ==
  /\ Good(g) /\ CoalescedBut(g.hdr, g.blocks, {})
  /\ g.blocks = h.blocks \ Gone(h, a)
  /\ g.mark = [u \in Users |-> IF u = h.hdr[a].user THEN Cap ELSE h.mark[u]]
  /\ g.hdr[a].tag = PU_FREE /\ g.hdr[a].user = NoUser
  /\ \A x \in Addresses :
       /\ x # a => g.hdr[x].tag = h.hdr[x].tag /\ g.hdr[x].user = h.hdr[x].user
       /\ x # Into(h, a) => g.hdr[x].size = h.hdr[x].size /\ g.hdr[x].next = h.hdr[x].next
  /\ Into(h, a) \in g.blocks /\ g.hdr[Into(h, a)].next = End(h, a)

LEMMA FreedFields ==
  ASSUME NEW h, Good(h), CoalescedBut(h.hdr, h.blocks, {}),
         NEW a \in h.blocks, h.hdr[a].tag # PU_FREE, NEW g, g = Freed(h, a)
  PROVE  FreedTo(h, a, g)
<1> DEFINE p == Before(h, a)
           n == Behind(h, a)
           b == Into(h, a)
           e == End(h, a)
           v == Vacated(h, a)
           m == IF b = p THEN Absorb(v, p, a) ELSE v
<1>1. /\ h.hdr \in Hdrs /\ h.blocks \subseteq 1..Cells
      /\ p \in h.blocks \cup {Cap} /\ n \in h.blocks \cup {Cap}
      /\ h.hdr[p].next = a /\ h.hdr[n].prev = a /\ h.hdr[Cap].tag = PU_STATIC
  BY DEF Good, Heaps, Linked, Before, Behind
<1>2. /\ a \in Addresses /\ a # Cap /\ p \in Addresses /\ n \in Addresses
      /\ n # a /\ p # a /\ (n # Cap => a < n)
  BY ZoneConstants, <1>1, NextIsAbove, HdrFields DEF Before, Behind
<1>3. /\ h.hdr[p].tag = PU_FREE => p \in h.blocks
      /\ h.hdr[n].tag = PU_FREE => n \in h.blocks
  BY <1>1 DEF PU_STATIC, PU_FREE
<1>4. /\ Good(v) /\ v.blocks = h.blocks
      /\ v.hdr[a].tag = PU_FREE /\ v.hdr[a].user = NoUser
      /\ \A x \in Addresses :
           /\ v.hdr[x].size = h.hdr[x].size
           /\ v.hdr[x].next = h.hdr[x].next /\ v.hdr[x].prev = h.hdr[x].prev
           /\ x # a => v.hdr[x].tag = h.hdr[x].tag /\ v.hdr[x].user = h.hdr[x].user
      /\ v.mark = [u \in Users |-> IF u = h.hdr[a].user THEN Cap ELSE h.mark[u]]
  BY VacatedFields
<1>5. b = p <=> h.hdr[p].tag = PU_FREE
  BY <1>2 DEF Into
<1>6. /\ Good(m) /\ m.mark = v.mark /\ b \in m.blocks
      /\ m.blocks = h.blocks \ (IF h.hdr[p].tag = PU_FREE THEN {a} ELSE {})
      /\ \A x \in Addresses :
           /\ m.hdr[x].tag = v.hdr[x].tag /\ m.hdr[x].user = v.hdr[x].user
           /\ x # b => m.hdr[x].size = h.hdr[x].size /\ m.hdr[x].next = h.hdr[x].next
      /\ m.hdr[b].next = n
  <2>1. CASE h.hdr[p].tag = PU_FREE
    <3>1. /\ v.hdr[p].next = a /\ p \in v.blocks /\ v \in Heaps /\ b = p
          /\ m = Absorb(v, p, v.hdr[p].next)
      BY <1>1, <1>2, <1>3, <1>4, <1>5, <2>1 DEF Good
    <3>2. Good(m) /\ v.hdr[p].size + v.hdr[a].size <= Cells
      BY <1>2, <1>4, <3>1, AbsorbGood
    <3>3. /\ \A x \in Addresses :
               /\ m.hdr[x].size = IF x = p THEN v.hdr[p].size + v.hdr[a].size ELSE v.hdr[x].size
               /\ m.hdr[x].next = IF x = p THEN v.hdr[a].next ELSE v.hdr[x].next
               /\ m.hdr[x].tag = v.hdr[x].tag /\ m.hdr[x].user = v.hdr[x].user
          /\ m.mark = v.mark /\ m.blocks = v.blocks \ {a}
      BY <1>2, <3>1, <3>2, AbsorbFields
    <3>4. m.hdr[b].next = n
      BY <1>2, <1>4, <3>1, <3>3 DEF Behind
    <3> QED BY <1>2, <1>4, <2>1, <3>1, <3>2, <3>3, <3>4
  <2>2. CASE h.hdr[p].tag # PU_FREE
    <3>1. m = v /\ b = a
      BY <1>5, <2>2 DEF Into
    <3> QED BY <1>2, <1>4, <2>2, <3>1 DEF Behind
  <2> QED BY <2>1, <2>2
<1>7. n # a /\ m.hdr[n].tag = h.hdr[n].tag
  BY <1>2, <1>4, <1>6
<1>8. g = IF m.hdr[n].tag = PU_FREE THEN Absorb(m, b, n) ELSE m
  <2> DEFINE p1 == v.hdr[a].prev
             b1 == IF v.hdr[p1].tag = PU_FREE THEN p1 ELSE a
             m1 == IF b1 = p1 THEN Absorb(v, p1, a) ELSE v
             n1 == m1.hdr[b1].next
  <2>1. g = IF m1.hdr[n1].tag = PU_FREE THEN Absorb(m1, b1, n1) ELSE m1
    BY DEF Freed
  <2>2. p1 = p
    BY <1>2, <1>4 DEF Before
  <2>3. b1 = b
    BY <1>2, <1>4, <2>2 DEF Into
  <2> HIDE DEF p1, b1
  <2>4. m1 = m
    BY <2>2, <2>3
  <2> HIDE DEF m1, m
  <2> QED BY <1>6, <2>1, <2>3, <2>4
<1> HIDE DEF m
<1>9. /\ b \in Addresses /\ n # b
  BY <1>2, <1>6, NextIsAbove
<1>10. /\ Good(g) /\ g.mark = m.mark /\ b \in g.blocks /\ g.blocks = h.blocks \ Gone(h, a)
       /\ \A x \in Addresses :
            /\ g.hdr[x].tag = m.hdr[x].tag /\ g.hdr[x].user = m.hdr[x].user
            /\ x # b => g.hdr[x].size = m.hdr[x].size /\ g.hdr[x].next = m.hdr[x].next
       /\ g.hdr[b].next = e
  <2>1. CASE h.hdr[n].tag = PU_FREE
    <3>1. /\ g = Absorb(m, b, n) /\ g = Absorb(m, b, m.hdr[b].next)
          /\ m.hdr[b].next # Cap /\ m \in Heaps
      BY <1>1, <1>6, <1>7, <1>8, <2>1 DEF Good, PU_STATIC, PU_FREE
    <3>2. Good(g) /\ m.hdr[b].size + m.hdr[m.hdr[b].next].size <= Cells
      BY <1>6, <3>1, AbsorbGood
    <3>3. /\ \A x \in Addresses :
               /\ g.hdr[x].size = IF x = b THEN m.hdr[b].size + m.hdr[n].size ELSE m.hdr[x].size
               /\ g.hdr[x].next = IF x = b THEN m.hdr[n].next ELSE m.hdr[x].next
               /\ g.hdr[x].tag = m.hdr[x].tag /\ g.hdr[x].user = m.hdr[x].user
          /\ g.mark = m.mark /\ g.blocks = m.blocks \ {n}
      BY <1>2, <1>6, <1>9, <3>1, <3>2, AbsorbFields
    <3>4. g.hdr[b].next = e
      BY <1>2, <1>6, <1>9, <2>1, <3>3 DEF End
    <3>5. g.blocks = h.blocks \ Gone(h, a)
      BY <1>6, <2>1, <3>3 DEF Gone
    <3> QED BY <1>6, <1>9, <3>2, <3>3, <3>4, <3>5
  <2>2. CASE h.hdr[n].tag # PU_FREE
    <3>1. g = m
      BY <1>7, <1>8, <2>2
    <3>2. e = n /\ g.blocks = h.blocks \ Gone(h, a)
      BY <1>6, <2>2, <3>1 DEF End, Gone
    <3> QED BY <1>6, <3>1, <3>2
  <2> QED BY <2>1, <2>2
<1>11. e # a /\ h.hdr[e].tag # PU_FREE /\ e \in Addresses
  <2>1. CASE h.hdr[n].tag = PU_FREE
    <3>1. e = h.hdr[n].next /\ n \in h.blocks
      BY <1>3, <2>1 DEF End
    <3>2. h.hdr[e].tag # PU_FREE
      BY <2>1, <3>1 DEF CoalescedBut
    <3>3. e # Cap => n < e
      BY <3>1, NextIsAbove
    <3>4. e # a
      BY ZoneConstants, <1>1, <1>2, <3>1, <3>3 DEF Addresses, Cap
    <3>5. e \in Addresses
      BY <1>1, <1>2, <3>1, HdrFields
    <3> QED BY <3>2, <3>4, <3>5
  <2>2. CASE h.hdr[n].tag # PU_FREE
    BY <1>2, <2>2 DEF End
  <2> QED BY <2>1, <2>2
<1>12. CoalescedBut(g.hdr, g.blocks, {})
  <2> SUFFICES ASSUME NEW x \in g.blocks, g.hdr[x].tag = PU_FREE
               PROVE  g.hdr[g.hdr[x].next].tag # PU_FREE
    BY DEF CoalescedBut
  <2>1. CASE x = b
    BY <1>4, <1>6, <1>10, <1>11, <2>1
  <2>2. CASE x # b
    <3>1. x \in h.blocks /\ x # a /\ x \in Addresses
      BY <1>10, <2>2, NextIsAbove DEF Gone, Into
    <3>2. h.hdr[x].tag = PU_FREE /\ g.hdr[x].next = h.hdr[x].next
      BY <1>4, <1>6, <1>10, <2>2, <3>1
    <3>3. h.hdr[h.hdr[x].next].tag # PU_FREE /\ h.hdr[x].next \in Addresses
      BY <1>1, <3>1, <3>2, HdrFields DEF CoalescedBut
    <3>4. h.hdr[x].next # a
      <4>1. h.hdr[h.hdr[x].next].prev = x
        BY <3>1 DEF Good, Linked
      <4> QED BY <1>5, <2>2, <3>2, <4>1 DEF Before
    <3> QED BY <1>4, <1>6, <1>10, <3>2, <3>3, <3>4
  <2> QED BY <2>1, <2>2
<1>13. \A x \in Addresses :
         /\ x # a => g.hdr[x].tag = h.hdr[x].tag /\ g.hdr[x].user = h.hdr[x].user
         /\ x # b => g.hdr[x].size = h.hdr[x].size /\ g.hdr[x].next = h.hdr[x].next
  BY <1>4, <1>6, <1>10
<1>14. g.hdr[a].tag = PU_FREE /\ g.hdr[a].user = NoUser
  BY <1>2, <1>4, <1>6, <1>10
<1> QED BY <1>4, <1>6, <1>10, <1>12, <1>13, <1>14 DEF FreedTo

(* A block that is in use, other than the one that is freed, stays.        *)
LEMMA FreedKeeps ==
  ASSUME NEW h, Good(h), CoalescedBut(h.hdr, h.blocks, {}),
         NEW a \in h.blocks, h.hdr[a].tag # PU_FREE, NEW g, g = Freed(h, a),
         NEW x \in h.blocks \cup {Cap}, x # a, h.hdr[x].tag # PU_FREE
  PROVE  /\ x \in g.blocks \cup {Cap} /\ (x \in h.blocks => x \in g.blocks)
         /\ x # Into(h, a)
         /\ g.hdr[x].size = h.hdr[x].size /\ g.hdr[x].next = h.hdr[x].next
         /\ g.hdr[x].tag = h.hdr[x].tag /\ g.hdr[x].user = h.hdr[x].user
<1>1. x \in Addresses
  BY ZoneConstants, NextIsAbove DEF Addresses, Cap
<1>2. x # Into(h, a) /\ x \notin Gone(h, a)
  BY DEF Into, Gone
<1>3. FreedTo(h, a, g)
  BY FreedFields
<1> QED BY <1>1, <1>2, <1>3 DEF FreedTo

(* What frees a block clears the variable that owns it, and no other.      *)
Marked(hd, bl, mk) ==
  \A u \in Users :
    /\ mk[u] # Cap => /\ mk[u] \in bl /\ hd[mk[u]].user = u
                      /\ hd[mk[u]].tag # PU_FREE /\ hd[mk[u]].tag # 0
    /\ \A a \in bl : hd[a].user = u => mk[u] = a

LEMMA FreedMarked ==
  ASSUME NEW h, Good(h), CoalescedBut(h.hdr, h.blocks, {}), Marked(h.hdr, h.blocks, h.mark),
         NEW a \in h.blocks, h.hdr[a].tag # PU_FREE, NEW g, g = Freed(h, a)
  PROVE  Marked(g.hdr, g.blocks, g.mark)
<1>1. /\ g.mark = [u \in Users |-> IF u = h.hdr[a].user THEN Cap ELSE h.mark[u]]
      /\ g.blocks \subseteq h.blocks /\ g.hdr[a].user = NoUser
      /\ \A x \in Addresses :
           x # a => g.hdr[x].tag = h.hdr[x].tag /\ g.hdr[x].user = h.hdr[x].user
  <2>1. FreedTo(h, a, g)
    BY FreedFields
  <2> QED BY <2>1 DEF FreedTo
<1>2. ASSUME NEW u \in Users, g.mark[u] # Cap
      PROVE  /\ g.mark[u] \in g.blocks /\ g.hdr[g.mark[u]].user = u
             /\ g.hdr[g.mark[u]].tag # PU_FREE /\ g.hdr[g.mark[u]].tag # 0
  <2> DEFINE x == h.mark[u]
  <2>1. u # h.hdr[a].user /\ g.mark[u] = x /\ x # Cap
    BY <1>1, <1>2
  <2>2. /\ x \in h.blocks /\ h.hdr[x].tag # PU_FREE /\ h.hdr[x].tag # 0
        /\ h.hdr[x].user = u
    BY <2>1 DEF Marked
  <2>3. x # a
    BY <2>1, <2>2
  <2> QED BY <2>1, <2>2, <2>3, FreedKeeps
<1>3. ASSUME NEW u \in Users, NEW x \in g.blocks, g.hdr[x].user = u
      PROVE  g.mark[u] = x
  <2>1. x \in h.blocks /\ x \in Addresses
    BY <1>1, NextIsAbove
  <2>2. x # a
    BY ZoneConstants, <1>1, <1>3
  <2>3. h.hdr[x].user = u /\ h.mark[u] = x /\ x # Cap
    BY <1>1, <1>3, <2>1, <2>2, NextIsAbove DEF Marked
  <2>4. u # h.hdr[a].user
    BY <2>2, <2>3 DEF Marked
  <2> QED BY <1>1, <2>3, <2>4
<1> QED BY <1>2, <1>3 DEF Marked

LEMMA FreeIsUnowned ==
  ASSUME NEW h, Good(h), Marked(h.hdr, h.blocks, h.mark),
         NEW a \in h.blocks, h.hdr[a].tag = PU_FREE
  PROVE  h.hdr[a].user = NoUser
<1>1. a \in Addresses /\ a # Cap
  BY NextIsAbove
<1>2. h.hdr[a].user \in Users \cup {NoUser}
  BY <1>1, HdrFields DEF Good, Heaps, Owners
<1> QED BY <1>1, <1>2 DEF Marked

-----------------------------------------------------------------------------
(* Going around the list                                                   *)

(* The blocks Z_Malloc has passed: those between where it started and b.   *)
Passed(s, b, a) == IF s < b THEN s < a /\ a < b ELSE s < a \/ a < b

(* Nothing lies between a block and the next one.                          *)
LEMMA NothingBetween ==
  ASSUME NEW h, Good(h), NEW x \in h.blocks \cup {Cap}, NEW a \in h.blocks
  PROVE  /\ x \in Int /\ a \in Int /\ h.hdr[x].next \in Int /\ a > Cap /\ x >= Cap
         /\ h.hdr[x].next # Cap => x < h.hdr[x].next /\ (a > x => a >= h.hdr[x].next)
         /\ h.hdr[x].next = Cap => a <= x
<1> DEFINE y == h.hdr[x].next
<1>1. /\ a \in Addresses /\ x \in Addresses /\ y \in Addresses /\ a # Cap
      /\ y \in h.blocks \cup {Cap}
  <2>1. a \in Addresses /\ x \in Addresses /\ a # Cap
    BY ZoneConstants, NextIsAbove DEF Addresses, Cap
  <2> QED BY <2>1, HdrFields DEF Good, Heaps, Linked
<1>2. x \in Int /\ a \in Int /\ y \in Int /\ a > Cap /\ x >= Cap /\ a <= Cells /\ y >= Cap
  BY ZoneConstants, <1>1 DEF Addresses, Cap
<1>3. CASE x = Cap
  <2>1. y = 1
    BY <1>3 DEF Good, Linked
  <2> QED BY <1>2, <1>3, <2>1 DEF Cap
<1>4. CASE x # Cap
  <2>1. x \in h.blocks
    BY <1>4
  <2>2. /\ x + h.hdr[x].size = IF y = Cap THEN Cells + 1 ELSE y
        /\ x < a => x + h.hdr[x].size <= a
    BY <2>1 DEF Good, Linked
  <2>3. y # Cap => x < y
    BY <2>1, NextIsAbove
  <2>4. y # Cap => (a > x => a >= y)
    BY <1>2, <2>2
  <2>5. y = Cap => a <= x
    BY ZoneConstants, <1>2, <2>2
  <2> QED BY <1>2, <2>3, <2>4, <2>5
<1> QED BY <1>3, <1>4

LEMMA PassedNone ==
  ASSUME NEW h, Good(h), NEW s \in h.blocks \cup {Cap}, NEW a \in h.blocks
  PROVE  ~Passed(s, h.hdr[s].next, a)
<1> DEFINE y == h.hdr[s].next
<1>1. /\ s \in Int /\ a \in Int /\ y \in Int /\ a > Cap /\ s >= Cap
      /\ y # Cap => s < y /\ (a > s => a >= y)
      /\ y = Cap => a <= s
  BY NothingBetween
<1> HIDE DEF y
<1>2. ~Passed(s, y, a)
  BY <1>1 DEF Passed, Cap
<1> QED BY <1>2 DEF y

LEMMA PassedOne ==
  ASSUME NEW h, Good(h), NEW s \in h.blocks \cup {Cap}, NEW x \in h.blocks \cup {Cap},
         NEW a \in h.blocks, Passed(s, h.hdr[x].next, a)
  PROVE  a = x \/ Passed(s, x, a)
<1> DEFINE y == h.hdr[x].next
<1>1. /\ x \in Int /\ a \in Int /\ y \in Int /\ a > Cap /\ x >= Cap
      /\ y # Cap => x < y /\ (a > x => a >= y)
      /\ y = Cap => a <= x
  BY NothingBetween
<1>2. s \in Int /\ s >= Cap /\ Passed(s, y, a)
  BY NothingBetween
<1> HIDE DEF y
<1> QED BY <1>1, <1>2 DEF Passed, Cap

LEMMA PassedAll ==
  ASSUME NEW h, Good(h), NEW x \in h.blocks, NEW a \in h.blocks,
         a # x, a # h.hdr[x].next
  PROVE  Passed(h.hdr[x].next, x, a)
<1> DEFINE y == h.hdr[x].next
<1>1. /\ x \in Int /\ a \in Int /\ y \in Int /\ a > Cap /\ x >= Cap
      /\ y # Cap => x < y /\ (a > x => a >= y)
      /\ y = Cap => a <= x
  BY NothingBetween
<1>2. x # Cap /\ a # x /\ a # y
  BY NextIsAbove
<1> HIDE DEF y
<1>3. Passed(y, x, a)
  BY <1>1, <1>2 DEF Passed, Cap
<1> QED BY <1>3 DEF y

-----------------------------------------------------------------------------
(* Handing out a block                                                     *)

(* What Z_Malloc makes of a block of which it needs n cells.               *)
SplitTo(h, b, n, hd) ==
  LET f == b + n IN
  /\ hd \in Hdrs /\ f \in 1..Cells /\ f \notin h.blocks /\ f # b
  /\ Linked(hd, h.blocks \cup {f})
  /\ hd[f].tag = PU_FREE /\ hd[f].user = NoUser /\ hd[f].next = h.hdr[b].next
  /\ \A x \in Addresses :
       /\ x # f => hd[x].tag = h.hdr[x].tag /\ hd[x].user = h.hdr[x].user
       /\ x # b /\ x # f => hd[x].size = h.hdr[x].size /\ hd[x].next = h.hdr[x].next
  /\ hd[b].size = n /\ hd[b].next = f

LEMMA SplitFields ==
  ASSUME NEW hd \in Hdrs, NEW b \in Addresses, NEW n \in Nat, b + n \in Addresses, n > 0,
         hd[b].size - n \in 0..Cells, n \in 0..Cells
  PROVE  LET f == b + n
             g == Split(hd, b, n)
         IN /\ g \in Hdrs
            /\ g[f].size = hd[b].size - n /\ g[f].tag = PU_FREE /\ g[f].user = NoUser
            /\ g[f].next = hd[b].next /\ (f # hd[b].next => g[f].prev = b)
            /\ g[b].size = n /\ g[b].next = f
            /\ \A x \in Addresses :
                 /\ x # f => /\ g[x].tag = hd[x].tag /\ g[x].user = hd[x].user
                             /\ g[x].prev = IF x = hd[b].next THEN f ELSE hd[x].prev
                 /\ x # b /\ x # f => g[x].size = hd[x].size /\ g[x].next = hd[x].next
<1> DEFINE f == b + n
           r == [size |-> hd[b].size - n, user |-> NoUser, tag |-> PU_FREE,
                 next |-> hd[b].next, prev |-> b]
           first == [hd EXCEPT ![f] = r]
           second == [first EXCEPT ![b].next = f, ![b].size = n]
           g == [second EXCEPT ![hd[b].next].prev = f]
<1>1. f # b /\ f \in Addresses /\ hd[b].next \in Addresses
  BY ZoneConstants, HdrFields DEF Addresses
<1>2. r \in [size : 0..Cells, user : Owners, tag : AllTags, next : Addresses, prev : Addresses]
  BY <1>1 DEF Owners, AllTags
<1>3. /\ r.size = hd[b].size - n /\ r.tag = PU_FREE /\ r.user = NoUser
      /\ r.next = hd[b].next /\ r.prev = b
  OBVIOUS
<1> HIDE DEF f, r
<1>4. first \in Hdrs /\ first[f] = r /\ \A x \in Addresses : x # f => first[x] = hd[x]
  BY <1>1, <1>2 DEF Hdrs
<1> HIDE DEF first
<1>5. second \in Hdrs
  BY <1>1, <1>4 DEF Hdrs
<1>6. /\ second[b].next = f /\ second[b].size = n
      /\ second[b].tag = first[b].tag /\ second[b].user = first[b].user
      /\ second[b].prev = first[b].prev
      /\ \A x \in Addresses : x # b => second[x] = first[x]
  BY <1>1, <1>4 DEF Hdrs
<1> HIDE DEF second
<1>7. g \in Hdrs
  BY <1>1, <1>5 DEF Hdrs
<1>8. \A x \in Addresses :
        /\ g[x].size = second[x].size /\ g[x].next = second[x].next
        /\ g[x].tag = second[x].tag /\ g[x].user = second[x].user
        /\ g[x].prev = IF x = hd[b].next THEN f ELSE second[x].prev
  BY <1>1, <1>5 DEF Hdrs
<1>9. g = Split(hd, b, n)
  BY DEF Split, f, r, first, second
<1> HIDE DEF g
<1>10. /\ g[f].size = hd[b].size - n /\ g[f].tag = PU_FREE /\ g[f].user = NoUser
       /\ g[f].next = hd[b].next /\ (f # hd[b].next => g[f].prev = b)
       /\ g[b].size = n /\ g[b].next = f
  BY <1>1, <1>3, <1>4, <1>6, <1>8
<1>11. \A x \in Addresses :
         /\ x # f => /\ g[x].tag = hd[x].tag /\ g[x].user = hd[x].user
                     /\ g[x].prev = IF x = hd[b].next THEN f ELSE hd[x].prev
         /\ x # b /\ x # f => g[x].size = hd[x].size /\ g[x].next = hd[x].next
  BY <1>1, <1>4, <1>6, <1>8
<1> QED BY <1>7, <1>9, <1>10, <1>11 DEF f

LEMMA SplitGood ==
  ASSUME NEW h, Good(h), NEW b \in h.blocks, NEW n \in Nat, n >= Header,
         h.hdr[b].size - n >= Header, NEW hd, hd = Split(h.hdr, b, n)
  PROVE  SplitTo(h, b, n, hd)
<1> DEFINE f == b + n
           z == h.hdr[b].next
           s == h.hdr[b].size
           List == h.blocks \cup {Cap}
<1>1. /\ h.hdr \in Hdrs /\ h.blocks \subseteq 1..Cells /\ z \in List
      /\ 1 \in h.blocks /\ h.hdr[Cap].tag = PU_STATIC /\ h.hdr[Cap].next = 1
      /\ \A a \in List : /\ h.hdr[a].next \in List /\ h.hdr[a].prev \in List
                         /\ h.hdr[h.hdr[a].next].prev = a /\ h.hdr[h.hdr[a].prev].next = a
      /\ \A a \in h.blocks :
           /\ h.hdr[a].size >= Header
           /\ a + h.hdr[a].size = IF h.hdr[a].next = Cap THEN Cells + 1 ELSE h.hdr[a].next
      /\ \A a, c \in h.blocks : a < c => a + h.hdr[a].size <= c
  BY DEF Good, Heaps, Linked
<1>2. /\ b \in Addresses /\ b # Cap /\ z \in Addresses /\ z # b /\ s \in 0..Cells
      /\ \A a \in List : a \in Addresses
  BY ZoneConstants, <1>1, NextIsAbove, HdrFields DEF Addresses, Cap
<1>3. /\ b \in 1..Cells /\ Header \in Nat \ {0} /\ Cells \in Nat
      /\ b + s = IF z = Cap THEN Cells + 1 ELSE z
      /\ n \in 0..Cells /\ s - n \in 0..Cells /\ s - n >= Header
  BY ZoneConstants, <1>1, <1>2
<1>4. z \in 0..Cells /\ s \in 0..Cells /\ b + s <= Cells + 1 /\ (z = 0 \/ z = b + s)
  BY <1>2, <1>3 DEF Addresses, Cap
<1>5. f \in 1..Cells /\ f \in Addresses /\ b < f /\ f < b + s /\ f # b /\ f # Cap /\ f # z
  <2>1. n > 0 /\ n < s
    BY <1>3, <1>4
  <2>2. f \in Int /\ b < f /\ f < b + s
    BY <1>3, <1>4, <2>1
  <2> HIDE DEF f
  <2> QED BY <1>3, <1>4, <2>2 DEF Addresses, Cap
<1>6. \A a \in h.blocks : a < f \/ a >= b + s
  <2> SUFFICES ASSUME NEW a \in h.blocks, a >= f PROVE a >= b + s
    BY <1>1, <1>5
  <2>1. b < a
    BY <1>1, <1>3, <1>5
  <2> QED BY <1>1, <2>1
<1>7. f \notin h.blocks /\ f \notin List
  <2> HIDE DEF f
  <2> QED BY <1>3, <1>4, <1>5, <1>6
<1>8. /\ hd \in Hdrs
      /\ hd[f].size = s - n /\ hd[f].tag = PU_FREE /\ hd[f].user = NoUser
      /\ hd[f].next = z /\ hd[f].prev = b
      /\ hd[b].size = n /\ hd[b].next = f
      /\ \A x \in Addresses :
           /\ x # f => /\ hd[x].tag = h.hdr[x].tag /\ hd[x].user = h.hdr[x].user
                       /\ hd[x].prev = IF x = z THEN f ELSE h.hdr[x].prev
           /\ x # b /\ x # f => hd[x].size = h.hdr[x].size /\ hd[x].next = h.hdr[x].next
  BY <1>1, <1>2, <1>3, <1>5, SplitFields
<1> DEFINE Blocks == h.blocks \cup {f}
<1>9. ASSUME NEW a \in Blocks \cup {Cap}
      PROVE  /\ hd[a].next \in Blocks \cup {Cap} /\ hd[a].prev \in Blocks \cup {Cap}
             /\ hd[hd[a].next].prev = a /\ hd[hd[a].prev].next = a
  <2> HIDE DEF f, z
  <2>1. CASE a = f
    BY <1>1, <1>2, <1>5, <1>8, <2>1
  <2>2. CASE a = b
    <3>1. h.hdr[b].prev # b /\ h.hdr[b].prev \in List /\ h.hdr[h.hdr[b].prev].next = b
      BY <1>1, NextIsAbove
    <3>2. hd[b].prev = h.hdr[b].prev /\ hd[h.hdr[b].prev].next = b
      BY <1>1, <1>2, <1>5, <1>7, <1>8, <3>1 DEF z
    <3> QED BY <1>8, <2>2, <3>1, <3>2
  <2>3. CASE a # f /\ a # b
    <3>1. a \in List /\ a \in Addresses
      BY <1>2, <2>3
    <3>2. hd[a].next = h.hdr[a].next /\ h.hdr[a].next \in List /\ h.hdr[h.hdr[a].next].prev = a
      BY <1>1, <1>8, <2>3, <3>1
    <3>3. h.hdr[a].next # z
      BY <1>1, <2>3, <3>2 DEF z
    <3>4. hd[h.hdr[a].next].prev = a
      BY <1>2, <1>7, <1>8, <3>2, <3>3
    <3>5. hd[a].prev \in Blocks \cup {Cap} /\ hd[hd[a].prev].next = a
      <4>1. CASE a = z
        BY <1>8, <2>3, <3>1, <4>1
      <4>2. CASE a # z
        <5>1. hd[a].prev = h.hdr[a].prev /\ h.hdr[a].prev \in List /\ h.hdr[h.hdr[a].prev].next = a
          BY <1>1, <1>8, <2>3, <3>1, <4>2
        <5>2. h.hdr[a].prev # b
          BY <4>2, <5>1 DEF z
        <5> QED BY <1>2, <1>7, <1>8, <5>1, <5>2
      <4> QED BY <4>1, <4>2
    <3> QED BY <3>2, <3>4, <3>5
  <2> QED BY <2>1, <2>2, <2>3
<1>10. ASSUME NEW a \in Blocks
       PROVE  /\ hd[a].size >= Header
              /\ a + hd[a].size = IF hd[a].next = Cap THEN Cells + 1 ELSE hd[a].next
  <2>1. CASE a = f
    <3>1. a + hd[a].size = b + s
      <4>1. hd[f].size = s - n
        BY <1>8
      <4> QED BY <1>3, <1>4, <2>1, <4>1
    <3> QED BY <1>3, <1>8, <2>1, <3>1
  <2>2. CASE a = b
    BY <1>5, <1>8, <2>2
  <2>3. CASE a # f /\ a # b
    BY <1>1, <1>2, <1>8, <2>3
  <2> QED BY <2>1, <2>2, <2>3
<1>11. ASSUME NEW a \in Blocks, NEW c \in Blocks, a < c
       PROVE  a + hd[a].size <= c
  <2>1. /\ a \in 1..Cells /\ c \in 1..Cells
        /\ a \in Addresses /\ c \in Addresses
    BY <1>1, <1>2, <1>5
  <2>2. CASE a = f
    <3>1. c \in h.blocks /\ c >= b + s
      <4> HIDE DEF f
      <4>1. c > f /\ c # f
        BY <1>11, <2>1, <2>2
      <4> QED BY <1>3, <1>4, <1>5, <1>6, <2>1, <4>1
    <3>2. hd[f].size = s - n
      BY <1>8
    <3> QED BY <1>3, <1>4, <2>1, <2>2, <3>1, <3>2
  <2>3. CASE a = b
    <3>1. CASE c = f
      BY <1>3, <1>8, <2>3, <3>1
    <3>2. CASE c \in h.blocks
      <4>1. b + s <= c
        BY <1>1, <1>11, <2>3, <3>2
      <4>2. hd[b].size = n
        BY <1>8
      <4> QED BY <1>3, <1>4, <2>1, <2>3, <4>1, <4>2
    <3> QED BY <3>1, <3>2
  <2>4. CASE a # f /\ a # b
    <3>1. a \in h.blocks /\ hd[a].size = h.hdr[a].size
      BY <1>8, <2>1, <2>4
    <3>2. CASE c = f
      <4>1. a < b
        BY <1>1, <1>3, <1>5, <1>6, <1>11, <2>1, <2>4, <3>1, <3>2
      <4>2. a + h.hdr[a].size <= b
        BY <1>1, <3>1, <4>1
      <4>3. h.hdr[a].size \in 0..Cells
        BY <1>1, <2>1, HdrFields
      <4> QED BY <1>3, <1>5, <2>1, <3>1, <3>2, <4>2, <4>3
    <3>3. CASE c # f
      BY <1>1, <1>11, <3>1, <3>3
    <3> QED BY <3>2, <3>3
  <2> QED BY <2>2, <2>3, <2>4
<1>12. Linked(hd, h.blocks \cup {f})
  <2>1. hd[Cap].tag = PU_STATIC /\ hd[Cap].next = 1 /\ 1 \in Blocks
    BY <1>1, <1>2, <1>5, <1>8
  <2> QED BY <1>9, <1>10, <1>11, <2>1 DEF Linked
<1> QED BY <1>5, <1>7, <1>8, <1>12 DEF SplitTo

(* The caller gets the block: what was in it is lost, and nothing else.    *)
Claimed(hd, b, u, t) ==
  [a \in Addresses |-> IF a = b THEN [hd[a] EXCEPT !.user = u, !.tag = t]
                       ELSE IF b < a /\ a < b + hd[b].size THEN Lost
                       ELSE hd[a]]

ClaimedTo(hd, bl, b, u, t, g) ==
  /\ g \in Hdrs /\ Linked(g, bl)
  /\ \A x \in bl \cup {Cap} :
       /\ g[x].size = hd[x].size /\ g[x].next = hd[x].next
       /\ x # b => g[x].tag = hd[x].tag /\ g[x].user = hd[x].user
  /\ g[b].tag = t /\ g[b].user = u

LEMMA ClaimGood ==
  ASSUME NEW hd \in Hdrs, NEW bl, bl \subseteq 1..Cells, Linked(hd, bl), NEW b \in bl,
         NEW u \in Owners, NEW t \in AllTags,
         NEW g, g = Claimed(hd, b, u, t)
  PROVE  ClaimedTo(hd, bl, b, u, t, g)
<1> DEFINE List == bl \cup {Cap}
           r == [hd[b] EXCEPT !.user = u, !.tag = t]
<1>1. \A x \in List : x \in Addresses
  BY ZoneConstants DEF Addresses, Cap
<1>2. /\ hd[b].size \in 0..Cells /\ b \in 1..Cells
      /\ 1 \in bl /\ hd[Cap].tag = PU_STATIC /\ hd[Cap].next = 1
      /\ \A a \in List : /\ hd[a].next \in List /\ hd[a].prev \in List
                         /\ hd[hd[a].next].prev = a /\ hd[hd[a].prev].next = a
      /\ \A a \in bl : /\ hd[a].size >= Header
                       /\ a + hd[a].size = IF hd[a].next = Cap THEN Cells + 1 ELSE hd[a].next
      /\ \A a, c \in bl : a < c => a + hd[a].size <= c
  BY <1>1, HdrFields DEF Linked
<1>3. Lost \in [size : 0..Cells, user : Owners, tag : AllTags, next : Addresses, prev : Addresses]
  BY ZoneConstants DEF Lost, Owners, AllTags, Addresses, Cap
<1>4. /\ r \in [size : 0..Cells, user : Owners, tag : AllTags, next : Addresses, prev : Addresses]
      /\ r.size = hd[b].size /\ r.next = hd[b].next /\ r.prev = hd[b].prev
      /\ r.tag = t /\ r.user = u
  <2>1. hd[b] \in [size : 0..Cells, user : Owners, tag : AllTags,
                   next : Addresses, prev : Addresses]
    BY <1>1 DEF Hdrs
  <2> QED BY <2>1
<1> HIDE DEF r
<1>5. g = [a \in Addresses |-> IF a = b THEN r
                               ELSE IF b < a /\ a < b + hd[b].size THEN Lost ELSE hd[a]]
  BY DEF r, Claimed
<1>6. g \in Hdrs
  BY <1>3, <1>4, <1>5 DEF Hdrs
<1>7. ASSUME NEW x \in List, x # b
      PROVE  g[x] = hd[x]
  <2>1. ~(b < x /\ x < b + hd[b].size)
    <3>1. CASE x = Cap
      BY <1>2, <3>1 DEF Cap
    <3>2. CASE x \in bl
      <4>1. b < x => b + hd[b].size <= x
        BY <1>2, <3>2
      <4>2. x \in 1..Cells
        BY <3>2
      <4> QED BY ZoneConstants, <1>2, <4>1, <4>2
    <3> QED BY <3>1, <3>2
  <2> QED BY <1>1, <1>5, <1>7, <2>1
<1>8. g[b] = r /\ b # Cap
  BY <1>1, <1>2, <1>5 DEF Cap
<1>9. \A x \in List : g[x].size = hd[x].size /\ g[x].next = hd[x].next /\ g[x].prev = hd[x].prev
  BY <1>4, <1>7, <1>8
<1>10. Linked(g, bl)
  <2>1. 1 \in bl /\ g[Cap].tag = PU_STATIC /\ g[Cap].next = 1
    BY <1>2, <1>7, <1>8
  <2>2. ASSUME NEW a \in List
        PROVE  /\ g[a].next \in List /\ g[a].prev \in List
               /\ g[g[a].next].prev = a /\ g[g[a].prev].next = a
    <3>1. /\ hd[a].next \in List /\ hd[a].prev \in List
          /\ hd[hd[a].next].prev = a /\ hd[hd[a].prev].next = a
      BY <1>2
    <3>2. g[a].next = hd[a].next /\ g[a].prev = hd[a].prev
      BY <1>9
    <3>3. g[hd[a].next].prev = a /\ g[hd[a].prev].next = a
      BY <1>9, <3>1
    <3> QED BY <3>1, <3>2, <3>3
  <2>3. \A a \in bl : /\ g[a].size >= Header
                      /\ a + g[a].size = IF g[a].next = Cap THEN Cells + 1 ELSE g[a].next
    BY <1>2, <1>9
  <2>4. \A a, c \in bl : a < c => a + g[a].size <= c
    BY <1>2, <1>9
  <2> QED BY <2>1, <2>2, <2>3, <2>4 DEF Linked
<1> QED BY <1>4, <1>6, <1>7, <1>8, <1>9, <1>10 DEF ClaimedTo

-----------------------------------------------------------------------------
(* The invariant                                                           *)

Asked == call.size > Header /\ call.tag \in Tags /\ MayAsk(call.tag, call.user)

(* The scan has its rover at its base, or right behind a base that is free *)
(* and too small; what is before the base, and where it began, is in use.  *)
ScanInv ==
  pc = "scan" =>
    /\ Asked
    /\ InList(base) /\ InList(scan) /\ InList(start)
    /\ hdr[start].tag # PU_FREE /\ hdr[hdr[base].prev].tag # PU_FREE
    /\ \/ scan = base
       \/ scan = hdr[base].next /\ hdr[base].tag = PU_FREE /\ ~Fits(hdr, base)
    /\ \A a \in blocks : Passed(start, base, a) => ~Fits(hdr, a) /\ ~Purgable(hdr[a].tag)

FoundInv == pc = "found" => Asked /\ base \in blocks /\ Fits(hdr, base)

(* The block a link was read to may have been merged: then it lies in a    *)
(* free block that ends where it ended itself.                             *)
SweepInv ==
  pc = "sweep" =>
    /\ call.low = PU_LEVEL /\ call.high = PU_PURGELEVEL - 1
    /\ \/ InList(scan)
       \/ /\ hdr[scan].tag = PU_FREE
          /\ \E b \in blocks : /\ hdr[b].tag = PU_FREE /\ b < scan
                               /\ hdr[b].next = hdr[scan].next

Calls == [size : Nat, tag : AllTags, user : Owners, low : Nat, high : Nat]

Local == /\ pc \in {"idle", "scan", "found", "sweep", "failed"} /\ call \in Calls
         /\ base \in Addresses /\ scan \in Addresses /\ start \in Addresses

HeapInv == Good(Heap) /\ CoalescedBut(hdr, blocks, {}) /\ Marked(hdr, blocks, mark)

ZoneInv ==
  /\ HeapInv /\ Local
  /\ ScanInv /\ FoundInv /\ SweepInv /\ SweepComplete /\ FailsLate

LEMMA HeapFields ==
  /\ Heap.hdr = hdr /\ Heap.rover = rover /\ Heap.mark = mark /\ Heap.blocks = blocks
BY DEF Heap

(* A heap that was worked out becomes the heap.                            *)
LEMMA HeapSet ==
  ASSUME NEW g, Good(g), CoalescedBut(g.hdr, g.blocks, {}), Marked(g.hdr, g.blocks, g.mark),
         SetHeap(g)
  PROVE  HeapInv'
<1>1. hdr' = g.hdr /\ rover' = g.rover /\ mark' = g.mark /\ blocks' = g.blocks
  BY DEF SetHeap
<1>2. Heap' = [hdr |-> g.hdr, rover |-> g.rover, mark |-> g.mark, blocks |-> g.blocks]
  BY <1>1 DEF Heap
<1>3. Good(Heap')
  BY <1>2 DEF Good, Heaps
<1> QED BY <1>1, <1>3 DEF HeapInv

LEMMA SameHeap ==
  ASSUME HeapInv, UNCHANGED heap
  PROVE  HeapInv'
BY DEF HeapInv, heap, Heap

(* Z_Free as a step of the program, alone or in a loop.                    *)
LEMMA FreedState ==
  ASSUME HeapInv, NEW a \in blocks, hdr[a].tag # PU_FREE, SetHeap(Freed(Heap, a))
  PROVE  /\ HeapInv'
         /\ blocks' = blocks \ Gone(Heap, a)
         /\ mark' = [u \in Users |-> IF u = hdr[a].user THEN Cap ELSE mark[u]]
         /\ hdr'[a].tag = PU_FREE /\ hdr'[a].user = NoUser
         /\ \A x \in Addresses :
              /\ x # a => hdr'[x].tag = hdr[x].tag /\ hdr'[x].user = hdr[x].user
              /\ x # Into(Heap, a) => hdr'[x].size = hdr[x].size /\ hdr'[x].next = hdr[x].next
         /\ Into(Heap, a) \in blocks' /\ hdr'[Into(Heap, a)].next = End(Heap, a)
         /\ \A x \in blocks \cup {Cap} :
              x # a /\ hdr[x].tag # PU_FREE =>
                /\ x \in blocks' \cup {Cap} /\ (x \in blocks => x \in blocks')
                /\ x # Into(Heap, a)
                /\ hdr'[x].size = hdr[x].size /\ hdr'[x].next = hdr[x].next
                /\ hdr'[x].tag = hdr[x].tag /\ hdr'[x].user = hdr[x].user
<1> DEFINE g == Freed(Heap, a)
<1>1. /\ Good(Heap) /\ CoalescedBut(Heap.hdr, Heap.blocks, {})
      /\ Marked(Heap.hdr, Heap.blocks, Heap.mark)
      /\ a \in Heap.blocks /\ Heap.hdr[a].tag # PU_FREE
  BY HeapFields DEF HeapInv
<1>2. FreedTo(Heap, a, g)
  BY <1>1, FreedFields
<1>3. Marked(g.hdr, g.blocks, g.mark)
  BY <1>1, FreedMarked
<1>4. ASSUME NEW x \in Heap.blocks \cup {Cap}, x # a, Heap.hdr[x].tag # PU_FREE
      PROVE  /\ x \in g.blocks \cup {Cap} /\ (x \in Heap.blocks => x \in g.blocks)
             /\ x # Into(Heap, a)
             /\ g.hdr[x].size = Heap.hdr[x].size /\ g.hdr[x].next = Heap.hdr[x].next
             /\ g.hdr[x].tag = Heap.hdr[x].tag /\ g.hdr[x].user = Heap.hdr[x].user
  BY <1>1, <1>4, FreedKeeps
<1> HIDE DEF g
<1>5. hdr' = g.hdr /\ rover' = g.rover /\ mark' = g.mark /\ blocks' = g.blocks /\ SetHeap(g)
  BY DEF SetHeap, g
<1>6. HeapInv'
  BY <1>2, <1>3, <1>5, HeapSet DEF FreedTo
<1>7. /\ g.blocks = blocks \ Gone(Heap, a)
      /\ g.mark = [u \in Users |-> IF u = hdr[a].user THEN Cap ELSE mark[u]]
      /\ g.hdr[a].tag = PU_FREE /\ g.hdr[a].user = NoUser
      /\ \A x \in Addresses :
           /\ x # a => g.hdr[x].tag = hdr[x].tag /\ g.hdr[x].user = hdr[x].user
           /\ x # Into(Heap, a) => g.hdr[x].size = hdr[x].size /\ g.hdr[x].next = hdr[x].next
      /\ Into(Heap, a) \in g.blocks /\ g.hdr[Into(Heap, a)].next = End(Heap, a)
  BY <1>2, HeapFields DEF FreedTo
<1>8. \A x \in blocks \cup {Cap} :
        x # a /\ hdr[x].tag # PU_FREE =>
          /\ x \in g.blocks \cup {Cap} /\ (x \in blocks => x \in g.blocks)
          /\ x # Into(Heap, a)
          /\ g.hdr[x].size = hdr[x].size /\ g.hdr[x].next = hdr[x].next
          /\ g.hdr[x].tag = hdr[x].tag /\ g.hdr[x].user = hdr[x].user
  BY <1>4, HeapFields
<1> QED BY <1>5, <1>6, <1>7, <1>8

(* What the other lemmas need of the heap.                                 *)
LEMMA HeapFacts ==
  ASSUME HeapInv
  PROVE  /\ Good(Heap) /\ hdr \in Hdrs /\ blocks \subseteq 1..Cells
         /\ mark \in [Users -> Addresses] /\ rover \in blocks \cup {Cap}
         /\ Linked(hdr, blocks) /\ hdr[Cap].tag = PU_STATIC
         /\ \A a \in blocks \cup {Cap} :
              /\ a \in Addresses /\ (hdr[a].tag = PU_FREE => a \in blocks)
              /\ hdr[a].next \in blocks \cup {Cap} /\ hdr[a].prev \in blocks \cup {Cap}
              /\ hdr[hdr[a].next].prev = a /\ hdr[hdr[a].prev].next = a
              /\ hdr[a].tag \in AllTags /\ hdr[a].user \in Owners
         /\ \A a \in blocks : a # Cap /\ hdr[a].next # a /\ hdr[a].prev # a
         /\ \A a \in blocks : hdr[a].tag = PU_FREE =>
              hdr[hdr[a].next].tag # PU_FREE /\ hdr[a].user = NoUser
<1>1. /\ Good(Heap) /\ Heap.hdr = hdr /\ Heap.blocks = blocks /\ Heap.mark = mark
      /\ Heap.rover = rover /\ CoalescedBut(hdr, blocks, {}) /\ Marked(hdr, blocks, mark)
  BY HeapFields DEF HeapInv
<1>2. /\ hdr \in Hdrs /\ blocks \subseteq 1..Cells /\ mark \in [Users -> Addresses]
      /\ Linked(hdr, blocks) /\ rover \in blocks \cup {Cap}
  BY <1>1 DEF Good, Heaps
<1>3. \A a \in blocks \cup {Cap} : a \in Addresses
  BY ZoneConstants, <1>2 DEF Addresses, Cap
<1>4. hdr[Cap].tag = PU_STATIC /\ \A a \in blocks \cup {Cap} :
        /\ hdr[a].next \in blocks \cup {Cap} /\ hdr[a].prev \in blocks \cup {Cap}
        /\ hdr[hdr[a].next].prev = a /\ hdr[hdr[a].prev].next = a
  BY <1>2 DEF Linked
<1>5. \A a \in blocks \cup {Cap} : hdr[a].tag \in AllTags /\ hdr[a].user \in Owners
  BY <1>2, <1>3, HdrFields
<1>6. \A a \in blocks : a # Cap /\ hdr[a].next # a /\ hdr[a].prev # a
  BY <1>1, NextIsAbove
<1>7. \A a \in blocks : hdr[a].tag = PU_FREE =>
        hdr[hdr[a].next].tag # PU_FREE /\ hdr[a].user = NoUser
  BY <1>1, FreeIsUnowned DEF CoalescedBut
<1>8. \A a \in blocks \cup {Cap} : hdr[a].tag = PU_FREE => a \in blocks
  BY <1>4 DEF PU_STATIC, PU_FREE
<1> QED BY <1>1, <1>2, <1>3, <1>4, <1>5, <1>6, <1>7, <1>8

LEMMA AskedKeeps ==
  ASSUME Asked, call \in Calls, call' = call, blocks' \subseteq blocks,
         \A u \in Users : mark[u] = Cap => mark'[u] = Cap,
         \A x \in blocks' : hdr'[x].user \in {hdr[x].user, NoUser}
  PROVE  Asked'
<1>1. call.user # NoUser => call.user \in Users /\ mark[call.user] = Cap
  BY DEF Asked, MayAsk, Calls, Owners
<1>2. call.user # NoUser => \A x \in blocks : hdr[x].user # call.user
  BY DEF Asked, MayAsk, Owns
<1>3. call.user # NoUser => mark'[call.user] = Cap /\ \A x \in blocks' : hdr'[x].user # call.user
  BY <1>1, <1>2
<1> QED BY <1>3 DEF Asked, MayAsk, Owns

-----------------------------------------------------------------------------
(* The steps                                                               *)

LEMMA IdleKeeps ==
  ASSUME HeapInv', Local', pc' = "idle"
  PROVE  ZoneInv'
BY DEF ZoneInv, ScanInv, FoundInv, SweepInv, SweepComplete, FailsLate

LEMMA ReturnLocal ==
  ASSUME Return
  PROVE  Local' /\ pc' = "idle"
<1>1. NoCall \in Calls
  BY DEF NoCall, Calls, AllTags, Owners
<1>2. Cap \in Addresses
  BY ZoneConstants DEF Addresses, Cap
<1> QED BY <1>1, <1>2 DEF Return, Local

LEMMA ZoneInit == Init => ZoneInv
<1> SUFFICES ASSUME Init PROVE ZoneInv
  OBVIOUS
<1> DEFINE top == [Lost EXCEPT !.tag = PU_STATIC, !.next = 1, !.prev = 1]
           all == [Lost EXCEPT !.tag = PU_FREE, !.size = Cells]
           Header0 == [size : 0..Cells, user : Owners, tag : AllTags,
                       next : Addresses, prev : Addresses]
<1>1. /\ Lost \in Header0 /\ top \in Header0 /\ all \in Header0
      /\ 1 \in Addresses /\ Cap \in Addresses /\ 1 # Cap
  <2>1. 1 \in Addresses /\ Cap \in Addresses /\ 1 # Cap /\ Cells \in 0..Cells
    BY ZoneConstants DEF Addresses, Cap
  <2>2. Lost \in Header0
    BY ZoneConstants, <2>1 DEF Lost, Owners, AllTags
  <2>3. PU_STATIC \in AllTags /\ PU_FREE \in AllTags
    BY DEF AllTags
  <2> QED BY <2>1, <2>2, <2>3
<1>2. /\ top.tag = PU_STATIC /\ top.next = 1 /\ top.prev = 1
      /\ all.tag = PU_FREE /\ all.size = Cells /\ all.user = NoUser
      /\ all.next = Cap /\ all.prev = Cap
  BY DEF Lost
<1>3. hdr = [a \in Addresses |-> IF a = Cap THEN top ELSE IF a = 1 THEN all ELSE Lost]
  BY DEF Init, Addresses
<1> HIDE DEF top, all
<1>4. hdr \in Hdrs /\ hdr[Cap] = top /\ hdr[1] = all
  BY <1>1, <1>3 DEF Hdrs
<1>5. /\ rover = 1 /\ blocks = {1} /\ mark = [u \in Users |-> Cap] /\ pc = "idle"
      /\ call = NoCall /\ base = Cap /\ scan = Cap /\ start = Cap
  BY DEF Init
<1>6. Linked(hdr, blocks)
  BY ZoneConstants, <1>1, <1>2, <1>4, <1>5 DEF Linked, Cap
<1>7. Good(Heap)
  BY ZoneConstants, <1>1, <1>4, <1>5, <1>6 DEF Good, Heaps, Heap
<1>8. CoalescedBut(hdr, blocks, {})
  BY <1>2, <1>4, <1>5 DEF CoalescedBut, PU_STATIC, PU_FREE
<1>9. Marked(hdr, blocks, mark)
  BY ZoneConstants, <1>2, <1>4, <1>5 DEF Marked
<1>10. Local
  <2>1. NoCall \in Calls
    BY DEF NoCall, Calls, AllTags, Owners
  <2> QED BY <1>1, <1>5, <2>1 DEF Local
<1> QED BY <1>5, <1>7, <1>8, <1>9, <1>10
        DEF ZoneInv, HeapInv, ScanInv, FoundInv, SweepInv, SweepComplete, FailsLate

LEMMA FreeKeeps ==
  ASSUME ZoneInv, NEW a \in blocks, Z_Free(a)
  PROVE  ZoneInv'
<1>1. /\ HeapInv /\ Local /\ hdr[a].tag # PU_FREE /\ SetHeap(Freed(Heap, a))
      /\ pc = "idle" /\ UNCHANGED <<pc, call, base, scan, start>>
  BY DEF ZoneInv, Z_Free
<1>2. HeapInv'
  BY <1>1, FreedState
<1>3. Local' /\ pc' = "idle"
  BY <1>1 DEF Local
<1> QED BY <1>2, <1>3, IdleKeeps

LEMMA MallocKeeps ==
  ASSUME ZoneInv, NEW n \in Requests, NEW t \in Tags, NEW u \in Users \cup {NoUser},
         Z_Malloc(n, t, u)
  PROVE  ZoneInv'
<1>1. /\ HeapInv /\ Local /\ pc = "idle" /\ pc' = "scan" /\ UNCHANGED heap
      /\ MayAsk(t, u) /\ call' = [NoCall EXCEPT !.size = n + Header, !.tag = t, !.user = u]
      /\ base' = BackedUp /\ scan' = BackedUp /\ start' = hdr[BackedUp].prev
      /\ hdr' = hdr /\ blocks' = blocks /\ mark' = mark
  BY DEF ZoneInv, Z_Malloc, heap
<1>2. call'.size = n + Header /\ call'.tag = t /\ call'.user = u /\ call' \in Calls
  <2>1. NoCall \in Calls
    BY DEF NoCall, Calls, AllTags, Owners
  <2>2. n + Header \in Nat /\ t \in AllTags /\ u \in Owners
    BY ZoneConstants DEF AllTags, Owners
  <2> QED BY <1>1, <2>1, <2>2 DEF Calls
<1>3. HeapInv'
  BY <1>1, SameHeap
<1>4. /\ BackedUp \in blocks \cup {Cap}
      /\ hdr[hdr[BackedUp].prev].tag # PU_FREE
  <2>1. CASE hdr[hdr[rover].prev].tag = PU_FREE
    <3> DEFINE p == hdr[rover].prev
    <3>1. BackedUp = p /\ p \in blocks
      BY <1>1, <2>1, HeapFacts DEF BackedUp
    <3>2. hdr[p].prev \in blocks \cup {Cap} /\ hdr[hdr[p].prev].next = p
      BY <1>1, <3>1, HeapFacts
    <3>3. hdr[hdr[p].prev].tag # PU_FREE
      BY <1>1, <2>1, <3>2, HeapFacts
    <3> QED BY <3>1, <3>3
  <2>2. CASE hdr[hdr[rover].prev].tag # PU_FREE
    BY <1>1, <2>2, HeapFacts DEF BackedUp
  <2> QED BY <2>1, <2>2
<1>5. start' \in blocks \cup {Cap} /\ hdr[start'].next = base' /\ start' \in Addresses
      /\ BackedUp \in Addresses
  BY <1>1, <1>4, HeapFacts
<1>6. \A a \in blocks : ~Passed(start', base', a)
  BY <1>1, <1>5, HeapFacts, HeapFields, PassedNone
<1>7. Asked'
  BY ZoneConstants, <1>1, <1>2 DEF Asked, MayAsk, Owns
<1>8. ScanInv'
  BY <1>1, <1>4, <1>5, <1>6, <1>7 DEF ScanInv, InList
<1>9. Local'
  BY <1>1, <1>2, <1>5 DEF Local
<1> QED BY <1>1, <1>3, <1>8, <1>9
        DEF ZoneInv, FoundInv, SweepInv, SweepComplete, FailsLate

LEMMA AllTheWayKeeps ==
  ASSUME ZoneInv, AllTheWay
  PROVE  ZoneInv'
<1>1. /\ HeapInv /\ Local /\ ScanInv /\ pc = "scan" /\ scan = start /\ pc' = "failed"
      /\ UNCHANGED <<heap, call, base, scan, start>> /\ hdr' = hdr /\ blocks' = blocks
      /\ call' = call /\ start' = start
  BY DEF ZoneInv, AllTheWay, Around, heap
<1>2. HeapInv' /\ Local'
  BY <1>1, SameHeap DEF Local
<1>3. /\ InList(base) /\ InList(start) /\ hdr[start].tag # PU_FREE
      /\ \/ start = base
         \/ start = hdr[base].next /\ hdr[base].tag = PU_FREE /\ ~Fits(hdr, base)
      /\ \A a \in blocks : Passed(start, base, a) => ~Fits(hdr, a) /\ ~Purgable(hdr[a].tag)
  BY <1>1 DEF ScanInv
<1>4. ASSUME NEW a \in blocks
      PROVE  ~Fits(hdr, a) /\ (Purgable(hdr[a].tag) => a = start)
  <2>1. CASE a = start
    BY <1>3, <2>1 DEF Fits
  <2>2. CASE a # start /\ start = base
    <3>1. a \in Int /\ start \in Int
      BY ZoneConstants, <1>1, HeapFacts DEF Local, Addresses
    <3>2. Passed(start, base, a)
      BY <2>2, <3>1 DEF Passed
    <3> QED BY <1>3, <3>2
  <2>3. CASE a # start /\ start # base
    <3>1. start = hdr[base].next /\ hdr[base].tag = PU_FREE /\ ~Fits(hdr, base) /\ base \in blocks
      BY <1>1, <1>3, <2>3, HeapFacts DEF InList
    <3>2. CASE a = base
      BY <3>1, <3>2 DEF Purgable, PU_FREE, PU_PURGELEVEL
    <3>3. CASE a # base
      <4>1. Passed(start, base, a)
        BY <1>1, <2>3, <3>1, <3>3, HeapFacts, HeapFields, PassedAll
      <4> QED BY <1>3, <4>1
    <3> QED BY <3>2, <3>3
  <2> QED BY <2>1, <2>2, <2>3
<1>5. FailsLate'
  BY <1>1, <1>4 DEF FailsLate, Fits
<1> QED BY <1>1, <1>2, <1>5 DEF ZoneInv, ScanInv, FoundInv, SweepInv, SweepComplete

(* The base has moved: the scan goes on, or has found its block.           *)
LEMMA AgainKeeps ==
  ASSUME HeapInv', Local', Asked', pc' = IF Fits(hdr, base)' THEN "found" ELSE "scan",
         pc' = "scan" =>
           /\ InList(base)' /\ InList(scan)' /\ InList(start)'
           /\ hdr'[start'].tag # PU_FREE /\ hdr'[hdr'[base'].prev].tag # PU_FREE
           /\ \/ scan' = base'
              \/ scan' = hdr'[base'].next /\ hdr'[base'].tag = PU_FREE
           /\ \A a \in blocks' : Passed(start', base', a) =>
                (~Fits(hdr, a))' /\ ~Purgable(hdr'[a].tag),
         InList(base)'
  PROVE  ZoneInv'
<1>1. CASE pc' = "scan"
  <2>1. (~Fits(hdr, base))'
    BY <1>1
  <2>2. ScanInv'
    BY <1>1, <2>1 DEF ScanInv, Fits
  <2> QED BY <1>1, <2>2 DEF ZoneInv, FoundInv, SweepInv, SweepComplete, FailsLate
<1>2. CASE pc' = "found"
  <2>1. Fits(hdr, base)'
    BY <1>2
  <2>2. base' \in blocks'
    <3>1. hdr'[Cap].tag = PU_STATIC
      BY DEF HeapInv, Good, Linked, Heap
    <3> QED BY <2>1, <3>1 DEF Fits, InList, PU_STATIC, PU_FREE
  <2>3. FoundInv'
    BY <2>1, <2>2 DEF FoundInv
  <2> QED BY <1>2, <2>3 DEF ZoneInv, ScanInv, SweepInv, SweepComplete, FailsLate
<1> QED BY <1>1, <1>2

LEMMA SkipPinnedKeeps ==
  ASSUME ZoneInv, SkipPinned
  PROVE  ZoneInv'
<1>1. /\ HeapInv /\ Local /\ ScanInv /\ pc = "scan" /\ Pinned(scan)
      /\ base' = hdr[scan].next /\ scan' = hdr[scan].next
      /\ pc' = (IF Fits(hdr, base') THEN "found" ELSE "scan")
      /\ UNCHANGED <<heap, call, start>> /\ hdr' = hdr /\ blocks' = blocks /\ mark' = mark
      /\ call' = call /\ start' = start
  BY DEF ZoneInv, SkipPinned, MovesPast, Again, heap
<1>2. /\ Asked /\ InList(base) /\ InList(scan) /\ InList(start)
      /\ hdr[start].tag # PU_FREE
      /\ \/ scan = base
         \/ scan = hdr[base].next /\ hdr[base].tag = PU_FREE /\ ~Fits(hdr, base)
      /\ \A a \in blocks : Passed(start, base, a) => ~Fits(hdr, a) /\ ~Purgable(hdr[a].tag)
  BY <1>1 DEF ScanInv
<1>3. /\ scan \in blocks \cup {Cap} /\ base \in blocks \cup {Cap} /\ start \in blocks \cup {Cap}
      /\ hdr[scan].next \in blocks \cup {Cap} /\ hdr[scan].next \in Addresses
      /\ hdr[hdr[scan].next].prev = scan
  BY <1>1, <1>2, HeapFacts DEF InList
<1>4. ASSUME NEW a \in blocks, Passed(start, base', a)
      PROVE  ~Fits(hdr, a) /\ ~Purgable(hdr[a].tag)
  <2>1. a = scan \/ Passed(start, scan, a)
    BY <1>1, <1>3, <1>4, HeapFacts, HeapFields, PassedOne
  <2>2. CASE a = scan
    BY <1>1, <2>2 DEF Pinned, Fits
  <2>3. CASE Passed(start, scan, a) /\ scan = base
    BY <1>2, <2>3
  <2>4. CASE Passed(start, scan, a) /\ scan # base
    <3>1. a = base \/ Passed(start, base, a)
      BY <1>1, <1>2, <1>3, <2>4, HeapFacts, HeapFields, PassedOne
    <3>2. CASE a = base
      BY <1>2, <2>4, <3>2 DEF Purgable, PU_FREE, PU_PURGELEVEL
    <3> QED BY <1>2, <3>1, <3>2
  <2> QED BY <2>1, <2>2, <2>3, <2>4
<1>5. HeapInv' /\ Local' /\ Asked'
  <2>1. HeapInv'
    BY <1>1, SameHeap
  <2>2. Local'
    BY <1>1, <1>3 DEF Local
  <2>3. Asked'
    BY <1>1, <1>2 DEF Asked, MayAsk, Owns
  <2> QED BY <2>1, <2>2, <2>3
<1>6. hdr[hdr[base'].prev].tag # PU_FREE
  BY <1>1, <1>3 DEF Pinned
<1>7. pc' = IF Fits(hdr, base)' THEN "found" ELSE "scan"
  BY <1>1 DEF Fits
<1>8. \A a \in blocks' : Passed(start', base', a) => (~Fits(hdr, a))' /\ ~Purgable(hdr'[a].tag)
  BY <1>1, <1>4 DEF Fits
<1>9. /\ InList(base)' /\ InList(scan)' /\ InList(start)'
      /\ hdr'[start'].tag # PU_FREE /\ hdr'[hdr'[base'].prev].tag # PU_FREE
      /\ scan' = base'
  BY <1>1, <1>2, <1>3, <1>6 DEF InList
<1> QED BY <1>5, <1>7, <1>8, <1>9, AgainKeeps

LEMMA StepOverKeeps ==
  ASSUME ZoneInv, StepOver
  PROVE  ZoneInv'
<1>1. /\ HeapInv /\ Local /\ ScanInv /\ pc = "scan" /\ hdr[scan].tag = PU_FREE
      /\ base' = base /\ scan' = hdr[scan].next
      /\ pc' = (IF Fits(hdr, base) THEN "found" ELSE "scan")
      /\ UNCHANGED <<heap, call, start>> /\ hdr' = hdr /\ blocks' = blocks /\ mark' = mark
      /\ call' = call /\ start' = start
  BY DEF ZoneInv, StepOver, Again, heap
<1>2. /\ Asked /\ InList(base) /\ InList(scan) /\ InList(start)
      /\ hdr[start].tag # PU_FREE /\ hdr[hdr[base].prev].tag # PU_FREE
      /\ \/ scan = base
         \/ scan = hdr[base].next /\ hdr[base].tag = PU_FREE /\ ~Fits(hdr, base)
      /\ \A a \in blocks : Passed(start, base, a) => ~Fits(hdr, a) /\ ~Purgable(hdr[a].tag)
  BY <1>1 DEF ScanInv
<1>3. /\ scan = base /\ scan \in blocks
      /\ hdr[scan].next \in blocks \cup {Cap} /\ hdr[scan].next \in Addresses
  <2>1. base \in blocks \cup {Cap} /\ scan \in blocks \cup {Cap}
    BY <1>2 DEF InList
  <2> QED BY <1>1, <1>2, <2>1, HeapFacts
<1>4. HeapInv' /\ Local' /\ Asked'
  <2>1. HeapInv'
    BY <1>1, SameHeap
  <2>2. Local'
    BY <1>1, <1>3 DEF Local
  <2>3. Asked'
    BY <1>1, <1>2 DEF Asked, MayAsk, Owns
  <2> QED BY <2>1, <2>2, <2>3
<1>5. pc' = IF Fits(hdr, base)' THEN "found" ELSE "scan"
  BY <1>1 DEF Fits
<1>6. \A a \in blocks' : Passed(start', base', a) => (~Fits(hdr, a))' /\ ~Purgable(hdr'[a].tag)
  BY <1>1, <1>2 DEF Fits
<1>7. /\ InList(base)' /\ InList(scan)' /\ InList(start)'
      /\ hdr'[start'].tag # PU_FREE /\ hdr'[hdr'[base'].prev].tag # PU_FREE
      /\ scan' = hdr'[base'].next /\ hdr'[base'].tag = PU_FREE
  BY <1>1, <1>2, <1>3 DEF InList
<1> QED BY <1>4, <1>5, <1>6, <1>7, AgainKeeps

(* The links, after a step.                                                *)
LEMMA NewLinks ==
  ASSUME HeapInv'
  PROVE  /\ hdr' \in Hdrs /\ blocks' \subseteq 1..Cells
         /\ \A a \in blocks' \cup {Cap} :
              /\ a \in Addresses
              /\ hdr'[a].next \in blocks' \cup {Cap} /\ hdr'[a].prev \in blocks' \cup {Cap}
              /\ hdr'[hdr'[a].next].prev = a /\ hdr'[hdr'[a].prev].next = a
<1>1. /\ Heap'.hdr = hdr' /\ Heap'.blocks = blocks' /\ Good(Heap')
  BY DEF HeapInv, Heap
<1>2. hdr' \in Hdrs /\ blocks' \subseteq 1..Cells /\ Linked(hdr', blocks')
  BY <1>1 DEF Good, Heaps
<1>3. \A a \in blocks' \cup {Cap} : a \in Addresses
  BY ZoneConstants, <1>2 DEF Addresses, Cap
<1> QED BY <1>2, <1>3 DEF Linked

(* The block that is freed is the base or the one behind it: the base is   *)
(* where it was, and the block before it has not moved.                    *)
LEMMA PurgeKeeps ==
  ASSUME ZoneInv, Purge
  PROVE  ZoneInv'
<1> DEFINE s == hdr[base].prev
           g == Freed(Heap, scan)
<1>1. /\ HeapInv /\ Local /\ ScanInv /\ pc = "scan" /\ scan # start
      /\ hdr[scan].tag # PU_FREE /\ ~Pinned(scan)
      /\ SetHeap(g) /\ base' = g.hdr[s].next /\ scan' = g.hdr[g.hdr[s].next].next
      /\ pc' = (IF Fits(g.hdr, g.hdr[s].next) THEN "found" ELSE "scan")
      /\ call' = call /\ start' = start
  BY DEF ZoneInv, Purge, MovesPast, Around, Again, StepBack
<1> HIDE DEF g
<1>2. /\ SetHeap(Freed(Heap, scan)) /\ hdr' = g.hdr /\ base' = hdr'[s].next
      /\ scan' = hdr'[base'].next
      /\ pc' = IF Fits(hdr', base') THEN "found" ELSE "scan"
  <2>1. hdr' = g.hdr
    BY <1>1 DEF SetHeap
  <2> QED BY <1>1, <2>1 DEF g
<1>3. /\ Asked /\ InList(base) /\ InList(scan) /\ InList(start)
      /\ hdr[start].tag # PU_FREE /\ hdr[s].tag # PU_FREE
      /\ \/ scan = base
         \/ scan = hdr[base].next /\ hdr[base].tag = PU_FREE /\ ~Fits(hdr, base)
      /\ \A a \in blocks : Passed(start, base, a) => ~Fits(hdr, a) /\ ~Purgable(hdr[a].tag)
  BY <1>1 DEF ScanInv
<1>4. scan \in blocks /\ base \in blocks \cup {Cap} /\ start \in blocks \cup {Cap}
  <2>1. scan # Cap
    BY <1>1, HeapFacts DEF Pinned, Purgable, PU_STATIC, PU_PURGELEVEL
  <2> QED BY <1>3, <2>1 DEF InList
<1>5. base \in blocks /\ s \in blocks \cup {Cap} /\ hdr[s].next = base /\ base \in Addresses
  <2>1. base \in blocks
    BY <1>1, <1>3, <1>4, HeapFacts
  <2> QED BY <1>1, <2>1, HeapFacts
<1>6. s # scan
  <2>1. CASE scan = base
    BY <1>1, <1>5, <2>1, HeapFacts
  <2>2. CASE scan = hdr[base].next
    <3> SUFFICES ASSUME s = scan PROVE FALSE
      OBVIOUS
    <3>1. Heap.hdr = hdr /\ Heap.blocks = blocks /\ Good(Heap)
      BY <1>1, HeapFacts, HeapFields
    <3>2. hdr[scan].next = base /\ scan # Cap /\ base # Cap
      BY <1>1, <1>4, <1>5, HeapFacts
    <3>3. base < scan /\ scan < base
      BY <1>4, <1>5, <2>2, <3>1, <3>2, NextIsAbove
    <3>4. base \in Int /\ scan \in Int
      BY <1>1, <1>4, <1>5, HeapFacts
    <3> QED BY <3>3, <3>4
  <2> QED BY <1>3, <2>1, <2>2
<1>7. /\ HeapInv' /\ blocks' = blocks \ Gone(Heap, scan)
      /\ mark' = [u \in Users |-> IF u = hdr[scan].user THEN Cap ELSE mark[u]]
      /\ hdr'[scan].tag = PU_FREE /\ hdr'[scan].user = NoUser
      /\ \A x \in Addresses :
           /\ x # scan => hdr'[x].tag = hdr[x].tag /\ hdr'[x].user = hdr[x].user
           /\ x # Into(Heap, scan) => hdr'[x].size = hdr[x].size /\ hdr'[x].next = hdr[x].next
      /\ Into(Heap, scan) \in blocks'
      /\ \A x \in blocks \cup {Cap} :
           x # scan /\ hdr[x].tag # PU_FREE =>
             /\ x \in blocks' \cup {Cap}
             /\ hdr'[x].size = hdr[x].size /\ hdr'[x].next = hdr[x].next
             /\ hdr'[x].tag = hdr[x].tag
  BY <1>1, <1>2, <1>4, FreedState
<1>8. /\ s \in blocks' \cup {Cap} /\ hdr'[s].next = base /\ hdr'[s].tag # PU_FREE
      /\ base' = base
  BY <1>2, <1>3, <1>5, <1>6, <1>7
<1>9. Into(Heap, scan) = base /\ hdr'[base].tag = PU_FREE /\ (scan # base => scan \notin blocks')
  <2>1. CASE scan = base
    <3>1. Into(Heap, scan) = base
      BY <1>3, <2>1, HeapFields DEF Into, Before
    <3> QED BY <1>7, <2>1, <3>1
  <2>2. CASE scan # base
    <3>1. hdr[scan].prev = base /\ hdr[base].tag = PU_FREE
      BY <1>1, <1>3, <1>4, <1>5, <2>2, HeapFacts
    <3>2. Into(Heap, scan) = base /\ scan \in Gone(Heap, scan)
      BY <3>1, HeapFields DEF Into, Gone, Before
    <3> QED BY <1>5, <1>7, <2>2, <3>1, <3>2
  <2> QED BY <2>1, <2>2
<1>10. /\ base \in blocks' /\ hdr'[base].prev = s
       /\ hdr'[base].next \in blocks' \cup {Cap} /\ hdr'[base].next \in Addresses
  BY <1>7, <1>8, <1>9, NewLinks
<1>11. start \in blocks' \cup {Cap} /\ hdr'[start].tag # PU_FREE
  BY <1>1, <1>3, <1>4, <1>7
<1>12. ASSUME NEW a \in blocks', Passed(start, base, a)
       PROVE  ~(hdr'[a].tag = PU_FREE /\ hdr'[a].size >= call.size) /\ ~Purgable(hdr'[a].tag)
  <2>1. a \in blocks /\ a \in Addresses
    BY <1>1, <1>7, HeapFacts
  <2>2. a # base
    <3>1. base \in Int /\ start \in Int
      BY <1>1, ZoneConstants DEF Local, Addresses
    <3> QED BY <1>12, <3>1 DEF Passed
  <2>3. hdr'[a].tag = hdr[a].tag /\ hdr'[a].size = hdr[a].size
    BY <1>7, <1>9, <2>1, <2>2
  <2> QED BY <1>3, <1>12, <2>1, <2>3 DEF Fits
<1>13. Asked'
  <2>1. \A u \in Users : mark[u] = Cap => mark'[u] = Cap
    BY <1>7
  <2>2. \A x \in blocks' : hdr'[x].user \in {hdr[x].user, NoUser}
    BY <1>1, <1>7, HeapFacts
  <2> QED BY <1>1, <1>3, <1>7, <2>1, <2>2, AskedKeeps DEF Local
<1>14. Local'
  BY <1>1, <1>2, <1>8, <1>10 DEF Local
<1>15. pc' = IF Fits(hdr, base)' THEN "found" ELSE "scan"
  BY <1>1, <1>2 DEF Fits
<1>16. \A a \in blocks' : Passed(start', base', a) => (~Fits(hdr, a))' /\ ~Purgable(hdr'[a].tag)
  BY <1>1, <1>8, <1>12 DEF Fits
<1>17. /\ InList(base)' /\ InList(scan)' /\ InList(start)'
       /\ hdr'[start'].tag # PU_FREE /\ hdr'[hdr'[base'].prev].tag # PU_FREE
       /\ scan' = hdr'[base'].next /\ hdr'[base'].tag = PU_FREE
  BY <1>1, <1>2, <1>8, <1>9, <1>10, <1>11 DEF InList
<1> QED BY <1>7, <1>13, <1>14, <1>15, <1>16, <1>17, AgainKeeps

(* The headers and blocks Z_Malloc has before it marks the base as taken.  *)
Carved(h, bl) ==
  /\ h \in Hdrs /\ bl \subseteq 1..Cells /\ Linked(h, bl) /\ blocks \subseteq bl
  /\ \A x \in bl : h[x].user = IF x \in blocks THEN hdr[x].user ELSE NoUser
  /\ \A x \in blocks \cup {Cap} : h[x].tag = hdr[x].tag
  /\ \A x \in blocks \ {base} : h[x].size = hdr[x].size
  /\ \A x \in bl \ {base} : h[x].tag = PU_FREE => h[h[x].next].tag # PU_FREE

LEMMA HandOutCarves ==
  ASSUME HeapInv, Local, Asked, base \in blocks, Fits(hdr, base),
         NEW h, h = IF Splits(base) THEN Split(hdr, base, call.size) ELSE hdr,
         NEW bl, bl = IF Splits(base) THEN blocks \cup {base + call.size} ELSE blocks
  PROVE  Carved(h, bl)
<1> DEFINE f == base + call.size
<1>1. /\ hdr[base].tag = PU_FREE /\ hdr[base].user = NoUser /\ base \in Addresses
      /\ hdr[hdr[base].next].tag # PU_FREE
      /\ hdr[base].next \in blocks \cup {Cap}
  BY HeapFacts DEF Fits
<1>2. CASE ~Splits(base)
  <2>1. h = hdr /\ bl = blocks
    BY <1>2
  <2>2. \A x \in bl \ {base} : h[x].tag = PU_FREE => h[h[x].next].tag # PU_FREE
    BY <2>1, HeapFacts
  <2> QED BY <2>1, <2>2, HeapFacts DEF Carved
<1>3. CASE Splits(base)
  <2>1. /\ Good(Heap) /\ base \in Heap.blocks /\ Heap.hdr = hdr /\ Heap.blocks = blocks
        /\ call.size \in Nat /\ call.size >= Header /\ hdr[base].size \in 0..Cells
        /\ hdr[base].size - call.size >= Header
    <3>1. call.size \in Nat /\ call.size > Header
      BY DEF Local, Calls, Asked
    <3>2. hdr[base].size \in 0..Cells
      BY <1>1, HdrFields, HeapFacts
    <3>3. hdr[base].size - call.size > MinFragment
      BY <1>3 DEF Splits
    <3> QED BY ZoneConstants, <3>1, <3>2, <3>3, HeapFacts, HeapFields
  <2>2. h = Split(Heap.hdr, base, call.size)
    BY <1>3, <2>1
  <2>3. SplitTo(Heap, base, call.size, h)
    BY <2>1, <2>2, SplitGood
  <2>4. bl = blocks \cup {f}
    BY <1>3
  <2>5. /\ h \in Hdrs /\ f \in 1..Cells /\ f \notin blocks /\ f # base
        /\ Linked(h, blocks \cup {f})
        /\ h[f].tag = PU_FREE /\ h[f].user = NoUser /\ h[f].next = hdr[base].next
        /\ \A x \in Addresses :
             /\ x # f => h[x].tag = hdr[x].tag /\ h[x].user = hdr[x].user
             /\ x # base /\ x # f => h[x].size = hdr[x].size /\ h[x].next = hdr[x].next
    BY <2>1, <2>3 DEF SplitTo
  <2>6. f # Cap /\ blocks \subseteq 1..Cells
    BY <2>5, HeapFacts DEF Cap
  <2> HIDE DEF f
  <2>7. \A x \in blocks \cup {Cap} : x \in Addresses /\ h[x].tag = hdr[x].tag /\ h[x].user = hdr[x].user
    BY <2>5, <2>6, HeapFacts
  <2>8. ASSUME NEW x \in bl \ {base}, h[x].tag = PU_FREE
        PROVE  h[h[x].next].tag # PU_FREE
    <3>1. CASE x = f
      BY <1>1, <2>5, <2>7, <3>1
    <3>2. CASE x # f
      <4>1. x \in blocks /\ hdr[x].tag = PU_FREE /\ h[x].next = hdr[x].next
        BY <2>4, <2>5, <2>7, <2>8, <3>2
      <4>2. hdr[hdr[x].next].tag # PU_FREE /\ hdr[x].next \in blocks \cup {Cap}
        BY <4>1, HeapFacts
      <4> QED BY <2>7, <4>1, <4>2
    <3> QED BY <3>1, <3>2
  <2>9. \A x \in bl : h[x].user = IF x \in blocks THEN hdr[x].user ELSE NoUser
    BY <2>4, <2>5, <2>7
  <2>10. bl \subseteq 1..Cells
    BY <2>4, <2>5, <2>6
  <2>11. \A x \in blocks \ {base} : h[x].size = hdr[x].size
    BY <2>5, <2>7
  <2> QED BY <2>4, <2>5, <2>7, <2>8, <2>9, <2>10, <2>11 DEF Carved
<1> QED BY <1>2, <1>3

LEMMA HandOutFields ==
  ASSUME ZoneInv, HandOut
  PROVE  /\ HeapInv'
         /\ blocks \subseteq blocks' /\ hdr'[base].tag = call.tag
         /\ \A x \in blocks \ {base} :
              /\ hdr'[x].size = hdr[x].size
              /\ hdr'[x].tag = hdr[x].tag /\ hdr'[x].user = hdr[x].user
         /\ \A u \in Users : mark'[u] = IF u = call.user THEN base ELSE mark[u]
<1> DEFINE h == IF Splits(base) THEN Split(hdr, base, call.size) ELSE hdr
           bl == IF Splits(base) THEN blocks \cup {base + call.size} ELSE blocks
           u0 == call.user
           t0 == call.tag
           mk == IF u0 = NoUser THEN mark ELSE [mark EXCEPT ![u0] = base]
<1>1. /\ HeapInv /\ Local /\ Asked /\ base \in blocks /\ Fits(hdr, base)
      /\ hdr' = [a \in DOMAIN hdr |->
                  IF a = base THEN [h[a] EXCEPT !.user = u0, !.tag = t0]
                  ELSE IF base < a /\ a < base + h[base].size THEN Lost
                  ELSE h[a]]
      /\ rover' = h[base].next /\ mark' = mk /\ blocks' = bl /\ Return
  BY DEF ZoneInv, FoundInv, HandOut
<1>2. /\ u0 \in Owners /\ t0 \in AllTags /\ t0 # PU_FREE /\ t0 # 0
      /\ u0 # NoUser => mark[u0] = Cap /\ \A x \in blocks : hdr[x].user # u0
  <2>1. call \in Calls /\ t0 \in Tags
    BY <1>1 DEF Local, Asked
  <2>2. t0 \in AllTags /\ t0 # PU_FREE /\ t0 # 0
    BY ZoneConstants, <2>1 DEF AllTags, PU_FREE, PU_STATIC, PU_LEVEL, PU_CACHE
  <2>3. u0 \in Owners
    BY <2>1 DEF Calls
  <2>4. u0 # NoUser => mark[u0] = Cap /\ \A x \in blocks : hdr[x].user # u0
    BY <1>1 DEF Asked, MayAsk, Owns
  <2> QED BY <2>2, <2>3, <2>4
<1>3. Carved(h, bl)
  BY <1>1, HandOutCarves
<1>4. DOMAIN hdr = Addresses
  <2>1. hdr \in Hdrs
    BY <1>1, HeapFacts
  <2> QED BY <2>1 DEF Hdrs
<1> HIDE DEF h, bl, mk
<1>5. hdr' = Claimed(h, base, u0, t0)
  BY <1>1, <1>4 DEF Claimed
<1>5a. u0 = call.user /\ t0 = call.tag
  OBVIOUS
<1> HIDE DEF u0, t0
<1>6. /\ h \in Hdrs /\ bl \subseteq 1..Cells /\ Linked(h, bl) /\ blocks \subseteq bl
      /\ base \in bl
      /\ \A x \in bl : h[x].user = IF x \in blocks THEN hdr[x].user ELSE NoUser
      /\ \A x \in blocks \cup {Cap} : h[x].tag = hdr[x].tag
      /\ \A x \in blocks \ {base} : h[x].size = hdr[x].size
      /\ \A x \in bl \ {base} : h[x].tag = PU_FREE => h[h[x].next].tag # PU_FREE
  BY <1>1, <1>3 DEF Carved
<1>7. /\ hdr' \in Hdrs /\ Linked(hdr', bl)
      /\ \A x \in bl \cup {Cap} :
           /\ hdr'[x].size = h[x].size /\ hdr'[x].next = h[x].next
           /\ x # base => hdr'[x].tag = h[x].tag /\ hdr'[x].user = h[x].user
      /\ hdr'[base].tag = t0 /\ hdr'[base].user = u0
  <2> DEFINE g == Claimed(h, base, u0, t0)
  <2>1. ClaimedTo(h, bl, base, u0, t0, g)
    BY <1>2, <1>6, ClaimGood
  <2>2. hdr' = g
    BY <1>5
  <2> HIDE DEF g
  <2> QED BY <2>1, <2>2 DEF ClaimedTo
<1>8. \A x \in bl \cup {Cap} : h[x].next \in bl \cup {Cap}
  BY <1>6 DEF Linked
<1>9. CoalescedBut(hdr', bl, {})
  <2> SUFFICES ASSUME NEW x \in bl, hdr'[x].tag = PU_FREE
               PROVE  hdr'[hdr'[x].next].tag # PU_FREE
    BY DEF CoalescedBut
  <2>1. x # base /\ h[x].tag = PU_FREE /\ h[h[x].next].tag # PU_FREE
    BY <1>2, <1>6, <1>7
  <2> QED BY <1>2, <1>7, <1>8, <2>1
<1>10. /\ mark \in [Users -> Addresses] /\ Marked(hdr, blocks, mark) /\ hdr[base].tag = PU_FREE
       /\ base \in Addresses /\ NoUser \notin Users /\ base # Cap
  BY ZoneConstants, <1>1, HeapFacts DEF HeapInv, Fits
<1>11. /\ mk \in [Users -> Addresses]
       /\ \A u \in Users : mk[u] = IF u = u0 THEN base ELSE mark[u]
  BY <1>10 DEF mk
<1>12. Marked(hdr', bl, mk)
  <2>1. ASSUME NEW u \in Users, mk[u] # Cap
        PROVE  /\ mk[u] \in bl /\ hdr'[mk[u]].user = u
               /\ hdr'[mk[u]].tag # PU_FREE /\ hdr'[mk[u]].tag # 0
    <3>1. CASE u = u0
      BY <1>2, <1>6, <1>7, <1>11, <3>1
    <3>2. CASE u # u0
      <4>1. /\ mk[u] = mark[u] /\ mark[u] \in blocks /\ hdr[mark[u]].user = u
            /\ hdr[mark[u]].tag # PU_FREE /\ hdr[mark[u]].tag # 0
        BY <1>10, <1>11, <2>1, <3>2 DEF Marked
      <4> QED BY <1>6, <1>7, <1>10, <4>1
    <3> QED BY <3>1, <3>2
  <2>2. ASSUME NEW u \in Users, NEW a \in bl, hdr'[a].user = u
        PROVE  mk[u] = a
    <3>1. CASE a = base
      BY <1>7, <1>11, <2>2, <3>1
    <3>2. CASE a # base
      <4>1. a \in blocks /\ hdr[a].user = u
        BY <1>6, <1>7, <1>10, <2>2, <3>2
      <4>2. u # u0 /\ mark[u] = a
        BY <1>2, <1>10, <4>1 DEF Marked
      <4> QED BY <1>11, <4>2
    <3> QED BY <3>1, <3>2
  <2> QED BY <2>1, <2>2 DEF Marked
<1>13. /\ rover' \in bl \cup {Cap} /\ rover' \in Addresses
  <2>1. rover' \in bl \cup {Cap}
    BY <1>1, <1>6, <1>8
  <2> QED BY ZoneConstants, <1>6, <2>1 DEF Addresses, Cap
<1>14. Good(Heap')
  <2>1. Heap' = [hdr |-> hdr', rover |-> rover', mark |-> mk, blocks |-> bl]
    BY <1>1 DEF Heap
  <2>2. Heap' \in Heaps
    BY <1>6, <1>7, <1>11, <1>13, <2>1 DEF Heaps
  <2> QED BY <1>7, <1>13, <2>1, <2>2 DEF Good
<1>15. HeapInv'
  BY <1>1, <1>9, <1>12, <1>14 DEF HeapInv
<1>16. \A x \in blocks \ {base} :
         /\ hdr'[x].size = hdr[x].size
         /\ hdr'[x].tag = hdr[x].tag /\ hdr'[x].user = hdr[x].user
  BY <1>6, <1>7
<1> QED BY <1>1, <1>6, <1>7, <1>11, <1>15, <1>5a, <1>16

LEMMA HandOutKeeps ==
  ASSUME ZoneInv, HandOut
  PROVE  ZoneInv'
BY HandOutFields, ReturnLocal, IdleKeeps DEF HandOut

LEMMA FreeTagsKeeps ==
  ASSUME ZoneInv, Z_FreeTags(PU_LEVEL, PU_PURGELEVEL - 1)
  PROVE  ZoneInv'
<1>1. /\ HeapInv /\ Local /\ pc = "idle" /\ pc' = "sweep" /\ UNCHANGED <<heap, base, start>>
      /\ call' = [call EXCEPT !.low = PU_LEVEL, !.high = PU_PURGELEVEL - 1]
      /\ scan' = hdr[Cap].next /\ hdr' = hdr /\ blocks' = blocks
  BY DEF ZoneInv, Z_FreeTags, heap
<1>2. hdr[Cap].next = 1 /\ 1 \in blocks /\ 1 \in Addresses /\ blocks \subseteq 1..Cells
  <2>1. Linked(hdr, blocks) /\ blocks \subseteq 1..Cells
    BY <1>1, HeapFacts
  <2> QED BY ZoneConstants, <2>1 DEF Linked, Addresses
<1>3. call' \in Calls /\ call'.low = PU_LEVEL /\ call'.high = PU_PURGELEVEL - 1
  <2>1. call \in Calls /\ PU_LEVEL \in Nat /\ PU_PURGELEVEL - 1 \in Nat
    BY <1>1 DEF Local, PU_LEVEL, PU_PURGELEVEL
  <2>2. call' \in Calls
    BY <1>1, <2>1 DEF Calls
  <2> QED BY <1>1, <2>1, <2>2 DEF Calls
<1>4. HeapInv' /\ Local'
  BY <1>1, <1>2, <1>3, SameHeap DEF Local
<1>5. SweepInv'
  BY <1>1, <1>2, <1>3 DEF SweepInv, InList
<1>6. SweepComplete'
  BY <1>1, <1>2 DEF SweepComplete, Cap
<1> QED BY <1>1, <1>4, <1>5, <1>6 DEF ZoneInv, ScanInv, FoundInv, FailsLate

(* The cursor goes to the next block: none is missed.                      *)
LEMMA NoneMissed ==
  ASSUME HeapInv, NEW x \in blocks, NEW a \in blocks, a > x
  PROVE  hdr[x].next # Cap /\ a >= hdr[x].next
<1>1. /\ Good(Heap) /\ Heap.hdr = hdr /\ Heap.blocks = blocks
  BY HeapFacts, HeapFields
<1>2. /\ x \in Int /\ a \in Int /\ hdr[x].next \in Int
      /\ hdr[x].next # Cap => x < hdr[x].next /\ (a > x => a >= hdr[x].next)
      /\ hdr[x].next = Cap => a <= x
  BY <1>1, NothingBetween
<1> QED BY <1>2

(* The link was read before the block was freed: where it leads to may     *)
(* have become a part of the block before.                                 *)
LEMMA LinkAfterFree ==
  ASSUME HeapInv, NEW a \in blocks, hdr[a].tag # PU_FREE, SetHeap(Freed(Heap, a)),
         NEW n, n = hdr[a].next
  PROVE  \/ n \in blocks' \cup {Cap}
         \/ /\ hdr'[n].tag = PU_FREE
            /\ \E b \in blocks' : hdr'[b].tag = PU_FREE /\ b < n /\ hdr'[b].next = hdr'[n].next
<1> DEFINE p == hdr[a].prev
           b == Into(Heap, a)
<1>1. /\ Good(Heap) /\ Heap.hdr = hdr /\ Heap.blocks = blocks
      /\ n \in blocks \cup {Cap} /\ n \in Addresses /\ n # a /\ hdr[n].prev = a
      /\ p \in blocks \cup {Cap} /\ p \in Addresses /\ p # a /\ hdr[p].next = a
      /\ a # Cap /\ a \in Addresses
      /\ hdr[n].tag = PU_FREE => n \in blocks
      /\ hdr[p].tag = PU_FREE => p \in blocks
  BY HeapFacts, HeapFields
<1>2. /\ hdr'[a].tag = PU_FREE
      /\ \A x \in Addresses :
           /\ x # a => hdr'[x].tag = hdr[x].tag
           /\ x # b => hdr'[x].next = hdr[x].next
      /\ b \in blocks' /\ hdr'[b].next = End(Heap, a)
      /\ hdr[n].tag # PU_FREE => n \in blocks' \cup {Cap}
  BY <1>1, FreedState
<1>3. CASE hdr[n].tag # PU_FREE
  BY <1>2, <1>3
<1>4. CASE hdr[n].tag = PU_FREE
  <2>1. a < n /\ End(Heap, a) = hdr[n].next
    <3>1. n # Cap
      BY <1>1, <1>4, HeapFacts
    <3> QED BY <1>1, <1>4, <3>1, NextIsAbove DEF End, Behind
  <2>2. b < n /\ hdr'[b].tag = PU_FREE
    <3>1. CASE hdr[p].tag = PU_FREE
      <4>1. b = p /\ p < a
        BY <1>1, <3>1, NextIsAbove DEF Into, Before
      <4>2. hdr'[b].tag = PU_FREE
        BY <1>1, <1>2, <3>1, <4>1
      <4> QED BY ZoneConstants, <1>1, <2>1, <4>1, <4>2 DEF Addresses
    <3>2. CASE hdr[p].tag # PU_FREE
      BY <1>1, <1>2, <2>1, <3>2 DEF Into, Before
    <3> QED BY <3>1, <3>2
  <2>3. hdr'[n].tag = PU_FREE /\ hdr'[n].next = hdr[n].next
    <3>1. n # b
      BY ZoneConstants, <1>1, <2>2 DEF Addresses
    <3> QED BY <1>1, <1>2, <1>4, <3>1
  <2> QED BY <1>2, <2>1, <2>2, <2>3
<1> QED BY <1>3, <1>4

LEMMA SweepKeeps ==
  ASSUME ZoneInv, Sweep
  PROVE  ZoneInv'
<1> DEFINE n == hdr[scan].next
<1>1. /\ HeapInv /\ Local /\ SweepInv /\ SweepComplete /\ pc = "sweep" /\ scan # Cap
      /\ scan' = n /\ UNCHANGED <<pc, call, base, start>> /\ call' = call
      /\ IF InRange(scan) THEN SetHeap(Freed(Heap, scan)) ELSE UNCHANGED heap
  BY DEF ZoneInv, Sweep, Link
<1>2. /\ call.low = PU_LEVEL /\ call.high = PU_PURGELEVEL - 1
      /\ \A a \in blocks : InRange(a) => a >= scan
      /\ \/ scan \in blocks
         \/ /\ hdr[scan].tag = PU_FREE
            /\ \E b \in blocks : hdr[b].tag = PU_FREE /\ b < scan /\ hdr[b].next = n
  BY <1>1 DEF SweepInv, SweepComplete, InList
<1>3. scan \in Addresses /\ n \in Addresses /\ scan \in Int
  <2>1. scan \in Addresses /\ hdr \in Hdrs
    BY <1>1, HeapFacts DEF Local
  <2> QED BY ZoneConstants, <2>1, HdrFields DEF Addresses
<1>4. CASE InRange(scan)
  <2>1. scan \in blocks /\ hdr[scan].tag # PU_FREE /\ SetHeap(Freed(Heap, scan))
    BY <1>1, <1>2, <1>4 DEF InRange
  <2>2. /\ HeapInv' /\ blocks' \subseteq blocks /\ hdr'[scan].tag = PU_FREE
        /\ \A x \in Addresses : x # scan => hdr'[x].tag = hdr[x].tag
    BY <1>1, <2>1, FreedState
  <2>3. SweepInv'
    BY <1>1, <1>2, <2>1, LinkAfterFree DEF SweepInv, InList
  <2>4. ASSUME NEW a \in blocks', InRange(a)'
        PROVE  scan' # Cap /\ a >= scan'
    <3>1. a \in blocks /\ a \in Addresses /\ a \in Int
      BY ZoneConstants, <1>1, <2>2, HeapFacts DEF Addresses
    <3>2. a # scan /\ InRange(a)
      BY <1>1, <2>2, <2>4, <3>1 DEF InRange
    <3>3. a > scan
      BY <1>2, <1>3, <3>1, <3>2
    <3> QED BY <1>1, <2>1, <3>1, <3>3, NoneMissed
  <2> QED BY <1>1, <1>3, <2>2, <2>3, <2>4
          DEF ZoneInv, Local, ScanInv, FoundInv, SweepComplete, FailsLate
<1>5. CASE ~InRange(scan)
  <2>1. UNCHANGED heap /\ hdr' = hdr /\ blocks' = blocks
    BY <1>1, <1>5 DEF heap
  <2>2. PICK x \in blocks : hdr[x].next = n /\ (x = scan \/ x < scan)
    BY <1>2
  <2>3. n \in blocks \cup {Cap}
    BY <1>1, <2>2, HeapFacts
  <2>4. ASSUME NEW a \in blocks', InRange(a)'
        PROVE  scan' # Cap /\ a >= scan'
    <3>1. a \in blocks /\ InRange(a) /\ a \in Int /\ x \in Int
      BY ZoneConstants, <1>1, <2>1, <2>4, HeapFacts DEF Addresses, InRange
    <3>2. a > x
      <4>1. a # scan /\ a >= scan
        BY <1>2, <1>5, <3>1
      <4> QED BY <1>3, <2>2, <3>1, <4>1
    <3>3. hdr[x].next # Cap /\ a >= hdr[x].next
      BY <1>1, <3>1, <3>2, NoneMissed
    <3> QED BY <1>1, <2>2, <3>3
  <2>5. SweepInv'
    BY <1>1, <1>2, <2>1, <2>3 DEF SweepInv, InList
  <2>6. HeapInv'
    BY <1>1, <2>1, SameHeap
  <2> QED BY <1>1, <1>3, <2>4, <2>5, <2>6
          DEF ZoneInv, Local, ScanInv, FoundInv, SweepComplete, FailsLate
<1> QED BY <1>4, <1>5

LEMMA SweptKeeps ==
  ASSUME ZoneInv, Swept
  PROVE  ZoneInv'
<1>1. HeapInv' /\ Return
  BY SameHeap DEF ZoneInv, Swept
<1> QED BY <1>1, ReturnLocal, IdleKeeps

(* A new label on a block in use does not change the list.                 *)
LEMMA RelabelGood ==
  ASSUME NEW hd, NEW bl, NEW g, Linked(hd, bl), CoalescedBut(hd, bl, {}),
         \A x \in bl \cup {Cap} :
           /\ g[x].size = hd[x].size /\ g[x].next = hd[x].next /\ g[x].prev = hd[x].prev
           /\ g[x].tag = PU_FREE <=> hd[x].tag = PU_FREE,
         g[Cap].tag = PU_STATIC
  PROVE  Linked(g, bl) /\ CoalescedBut(g, bl, {})
<1>1. \A x \in bl \cup {Cap} :
        /\ hd[x].next \in bl \cup {Cap} /\ hd[x].prev \in bl \cup {Cap}
        /\ hd[hd[x].next].prev = x /\ hd[hd[x].prev].next = x
  BY DEF Linked
<1>2. \A x \in bl \cup {Cap} :
        /\ g[x].next \in bl \cup {Cap} /\ g[x].prev \in bl \cup {Cap}
        /\ g[g[x].next].prev = x /\ g[g[x].prev].next = x
  BY <1>1
<1>3. Linked(g, bl)
  BY <1>2 DEF Linked
<1>4. CoalescedBut(g, bl, {})
  BY <1>1 DEF CoalescedBut
<1> QED BY <1>3, <1>4

LEMMA ChangeTagKeeps ==
  ASSUME ZoneInv, NEW a \in blocks, NEW t \in Tags, Z_ChangeTag(a, t)
  PROVE  ZoneInv'
<1>1. /\ HeapInv /\ Local /\ pc = "idle" /\ hdr[a].tag # PU_FREE
      /\ hdr' = [hdr EXCEPT ![a].tag = t] /\ UNCHANGED <<rover, mark, blocks>>
      /\ UNCHANGED <<pc, call, base, scan, start>>
  BY DEF ZoneInv, Z_ChangeTag
<1>2. /\ hdr \in Hdrs /\ a \in Addresses /\ a # Cap
      /\ t \in AllTags /\ t # PU_FREE /\ t # 0
      /\ \A x \in blocks \cup {Cap} : x \in Addresses
      /\ Linked(hdr, blocks) /\ CoalescedBut(hdr, blocks, {}) /\ hdr[Cap].tag = PU_STATIC
      /\ Marked(hdr, blocks, mark)
  <2>1. t \in AllTags /\ t # PU_FREE /\ t # 0
    BY ZoneConstants DEF AllTags, PU_FREE, PU_STATIC, PU_LEVEL, PU_CACHE
  <2> QED BY <1>1, <2>1, HeapFacts DEF HeapInv
<1>3. hdr' \in Hdrs
  BY <1>1, <1>2 DEF Hdrs
<1>4. \A x \in Addresses :
        /\ hdr'[x].size = hdr[x].size /\ hdr'[x].next = hdr[x].next
        /\ hdr'[x].prev = hdr[x].prev /\ hdr'[x].user = hdr[x].user
        /\ hdr'[x].tag = IF x = a THEN t ELSE hdr[x].tag
  BY <1>1, <1>2 DEF Hdrs
<1>5. Linked(hdr', blocks) /\ CoalescedBut(hdr', blocks, {})
  <2>1. \A x \in blocks \cup {Cap} :
          /\ hdr'[x].size = hdr[x].size /\ hdr'[x].next = hdr[x].next
          /\ hdr'[x].prev = hdr[x].prev
          /\ hdr'[x].tag = PU_FREE <=> hdr[x].tag = PU_FREE
    BY <1>1, <1>2, <1>4
  <2>2. hdr'[Cap].tag = PU_STATIC
    BY <1>2, <1>4
  <2> QED BY <1>2, <2>1, <2>2, RelabelGood
<1>6. Marked(hdr', blocks, mark)
  BY <1>2, <1>4 DEF Marked
<1>7. Good(Heap')
  <2>1. Heap' = [hdr |-> hdr', rover |-> rover, mark |-> mark, blocks |-> blocks]
    BY <1>1 DEF Heap
  <2>2. Good(Heap) /\ Heap = [hdr |-> hdr, rover |-> rover, mark |-> mark, blocks |-> blocks]
    BY <1>1 DEF HeapInv, Heap
  <2> QED BY <1>3, <1>5, <2>1, <2>2 DEF Good, Heaps
<1> QED BY <1>1, <1>5, <1>6, <1>7, IdleKeeps DEF HeapInv, Local

LEMMA ChangeUserKeeps ==
  ASSUME ZoneInv, NEW a \in blocks, NEW u \in Users, Z_ChangeUser(a, u)
  PROVE  ZoneInv'
<1> DEFINE old == hdr[a].user
<1>1. /\ HeapInv /\ Local /\ pc = "idle" /\ hdr[a].tag # PU_FREE /\ old # NoUser
      /\ mark[u] = Cap /\ ~Owns(u)
      /\ hdr' = [hdr EXCEPT ![a].user = u]
      /\ mark' = [mark EXCEPT ![u] = a, ![old] = Cap] /\ UNCHANGED <<rover, blocks>>
      /\ UNCHANGED <<pc, call, base, scan, start>>
  BY DEF ZoneInv, Z_ChangeUser
<1>2. /\ hdr \in Hdrs /\ a \in Addresses /\ a # Cap /\ Cap \in Addresses
      /\ \A x \in blocks \cup {Cap} : x \in Addresses
      /\ Linked(hdr, blocks) /\ CoalescedBut(hdr, blocks, {}) /\ hdr[Cap].tag = PU_STATIC
      /\ Marked(hdr, blocks, mark) /\ mark \in [Users -> Addresses]
      /\ old \in Users /\ u \in Owners
  BY <1>1, HeapFacts DEF HeapInv, Owners
<1>3. hdr' \in Hdrs
  BY <1>1, <1>2 DEF Hdrs
<1>4. \A x \in Addresses :
        /\ hdr'[x].size = hdr[x].size /\ hdr'[x].next = hdr[x].next
        /\ hdr'[x].prev = hdr[x].prev /\ hdr'[x].tag = hdr[x].tag
        /\ hdr'[x].user = IF x = a THEN u ELSE hdr[x].user
  BY <1>1, <1>2 DEF Hdrs
<1>5. Linked(hdr', blocks) /\ CoalescedBut(hdr', blocks, {})
  <2>1. \A x \in blocks \cup {Cap} :
          /\ hdr'[x].size = hdr[x].size /\ hdr'[x].next = hdr[x].next
          /\ hdr'[x].prev = hdr[x].prev
          /\ hdr'[x].tag = PU_FREE <=> hdr[x].tag = PU_FREE
    BY <1>1, <1>2, <1>4
  <2>2. hdr'[Cap].tag = PU_STATIC
    BY <1>2, <1>4
  <2> QED BY <1>2, <2>1, <2>2, RelabelGood
<1>6. /\ mark[old] = a /\ u # old /\ hdr[a].tag # 0
      /\ \A x \in blocks : hdr[x].user # u
  BY <1>1, <1>2 DEF Marked, Owns
<1>7. /\ mark' \in [Users -> Addresses]
      /\ \A v \in Users : mark'[v] = IF v = old THEN Cap ELSE IF v = u THEN a ELSE mark[v]
  BY <1>1, <1>2, <1>6
<1>8. Marked(hdr', blocks, mark')
  <2>1. ASSUME NEW v \in Users, mark'[v] # Cap
        PROVE  /\ mark'[v] \in blocks /\ hdr'[mark'[v]].user = v
               /\ hdr'[mark'[v]].tag # PU_FREE /\ hdr'[mark'[v]].tag # 0
    <3>1. CASE v = u
      BY <1>1, <1>2, <1>4, <1>6, <1>7, <3>1
    <3>2. CASE v # u
      <4>1. v # old /\ mark'[v] = mark[v]
        BY <1>7, <2>1, <3>2
      <4>2. /\ mark[v] \in blocks /\ hdr[mark[v]].user = v
            /\ hdr[mark[v]].tag # PU_FREE /\ hdr[mark[v]].tag # 0
        BY <1>2, <2>1, <4>1 DEF Marked
      <4> QED BY <1>2, <1>4, <4>1, <4>2
    <3> QED BY <3>1, <3>2
  <2>2. ASSUME NEW v \in Users, NEW x \in blocks, hdr'[x].user = v
        PROVE  mark'[v] = x
    <3>1. CASE x = a
      BY <1>2, <1>4, <1>6, <1>7, <2>2, <3>1
    <3>2. CASE x # a
      <4>1. hdr[x].user = v
        BY <1>2, <1>4, <2>2, <3>2
      <4>2. mark[v] = x /\ v # u /\ v # old
        BY <1>2, <1>6, <3>2, <4>1 DEF Marked
      <4> QED BY <1>7, <4>2
    <3> QED BY <3>1, <3>2
  <2> QED BY <2>1, <2>2 DEF Marked
<1>9. Good(Heap')
  <2>1. Heap' = [hdr |-> hdr', rover |-> rover, mark |-> mark', blocks |-> blocks]
    BY <1>1 DEF Heap
  <2>2. Good(Heap) /\ Heap = [hdr |-> hdr, rover |-> rover, mark |-> mark, blocks |-> blocks]
    BY <1>1 DEF HeapInv, Heap
  <2> QED BY <1>3, <1>5, <1>7, <2>1, <2>2 DEF Good, Heaps
<1> QED BY <1>1, <1>5, <1>8, <1>9, IdleKeeps DEF HeapInv, Local

LEMMA StepKeeps ==
  ASSUME ZoneInv, [Next]_vars
  PROVE  ZoneInv'
<1>1. CASE \E n \in Requests, t \in Tags, u \in Users \cup {NoUser} : Z_Malloc(n, t, u)
  BY <1>1, MallocKeeps
<1>2. CASE \E a \in blocks : Z_Free(a)
  BY <1>2, FreeKeeps
<1>3. CASE \E a \in blocks, t \in Tags : Z_ChangeTag(a, t)
  BY <1>3, ChangeTagKeeps
<1>4. CASE \E a \in blocks, u \in Users : Z_ChangeUser(a, u)
  BY <1>4, ChangeUserKeeps
<1>5. CASE Z_FreeTags(PU_LEVEL, PU_PURGELEVEL - 1)
  BY <1>5, FreeTagsKeeps
<1>6. CASE AllTheWay
  BY <1>6, AllTheWayKeeps
<1>7. CASE SkipPinned
  BY <1>7, SkipPinnedKeeps
<1>8. CASE Purge
  BY <1>8, PurgeKeeps
<1>9. CASE StepOver
  BY <1>9, StepOverKeeps
<1>10. CASE HandOut
  BY <1>10, HandOutKeeps
<1>11. CASE Sweep
  BY <1>11, SweepKeeps
<1>12. CASE Swept
  BY <1>12, SweptKeeps
<1>13. CASE UNCHANGED vars
  <2>1. UNCHANGED <<hdr, rover, mark, blocks, pc, call, base, scan, start>>
    BY <1>13 DEF vars, heap
  <2> QED BY <2>1 DEF ZoneInv, HeapInv, Heap, Local, ScanInv, FoundInv, SweepInv,
               SweepComplete, FailsLate, Asked, MayAsk, Owns, Fits, InRange, InList
<1> QED BY <1>1, <1>2, <1>3, <1>4, <1>5, <1>6, <1>7, <1>8, <1>9, <1>10, <1>11, <1>12, <1>13
        DEF Next, Call, Continue

-----------------------------------------------------------------------------
(* The theorems                                                            *)

(* Whatever is allocated, freed and relabelled, in any order and for a     *)
(* zone of any size: the invariant holds in every state.                   *)
THEOREM ZoneInvariant == Spec => []ZoneInv
<1>1. Init => ZoneInv
  BY ZoneInit
<1>2. ZoneInv /\ [Next]_vars => ZoneInv'
  BY StepKeeps
<1> QED BY <1>1, <1>2, PTL DEF Spec

(* The blocks always tile the zone, every link has its back link, and no   *)
(* two free blocks touch: Z_CheckHeap would find nothing, between any two  *)
(* steps of Z_Malloc, Z_Free and Z_FreeTags.                               *)
THEOREM HeapSoundAlways == Spec => []HeapSound
<1>1. ZoneInv => HeapSound
  <2> SUFFICES ASSUME ZoneInv PROVE HeapSound
    OBVIOUS
  <2>1. HeapInv /\ Local
    BY DEF ZoneInv
  <2>2. /\ hdr \in Hdrs /\ blocks \subseteq 1..Cells /\ mark \in [Users -> Addresses]
        /\ rover \in blocks \cup {Cap} /\ Linked(hdr, blocks)
        /\ CoalescedBut(hdr, blocks, {})
    BY <2>1, HeapFacts DEF HeapInv
  <2>3. rover \in Addresses
    BY <2>1, <2>2, HeapFacts
  <2>4. TypeOK
    BY <2>1, <2>2, <2>3 DEF TypeOK, Hdrs, AllTags, Owners, Local, Calls
  <2>5. Tiled
    BY <2>2 DEF Tiled, InList, Linked
  <2>6. Coalesced
    BY <2>2 DEF Coalesced, CoalescedBut
  <2> QED BY <2>4, <2>5, <2>6 DEF HeapSound
<1> QED BY <1>1, ZoneInvariant, PTL

(* No pointer variable is ever left pointing to memory that was purged,    *)
(* freed or given to someone else, and every owned block has its owner     *)
(* pointing to it.                                                         *)
THEOREM MarksSoundAlways == Spec => []MarksSound
<1>1. ZoneInv => MarksSound
  BY DEF ZoneInv, HeapInv, Marked, MarksSound
<1> QED BY <1>1, ZoneInvariant, PTL

(* The loops of Z_Malloc and Z_FreeTags never follow a link out of the     *)
(* list, though Z_Free changes it under their cursors.                     *)
THEOREM CursorsAlwaysSound == Spec => []CursorsSound
<1>1. ZoneInv => CursorsSound
  <2> SUFFICES ASSUME ZoneInv PROVE CursorsSound
    OBVIOUS
  <2>1. HeapInv /\ ScanInv /\ SweepInv
    BY DEF ZoneInv
  <2>2. pc = "sweep" => InList(scan) \/ (hdr[scan].tag = PU_FREE /\ InList(hdr[scan].next))
    <3> SUFFICES ASSUME pc = "sweep", ~InList(scan)
                 PROVE  hdr[scan].tag = PU_FREE /\ InList(hdr[scan].next)
      OBVIOUS
    <3>1. hdr[scan].tag = PU_FREE /\ \E b \in blocks : hdr[b].next = hdr[scan].next
      BY <2>1 DEF SweepInv
    <3> QED BY <2>1, <3>1, HeapFacts DEF InList
  <2> QED BY <2>1, <2>2 DEF CursorsSound, ScanInv
<1> QED BY <1>1, ZoneInvariant, PTL

(* Z_FreeTags misses no block of the range behind its cursor, also where   *)
(* the block its link led to was merged away.                              *)
THEOREM SweepMissesNone == Spec => []SweepComplete
<1>1. ZoneInv => SweepComplete
  BY DEF ZoneInv
<1> QED BY <1>1, ZoneInvariant, PTL

(* When Z_Malloc gives up, no free block fits, and no purgable block is    *)
(* left but the one the scan started behind.                               *)
THEOREM FailsOnlyLate == Spec => []FailsLate
<1>1. ZoneInv => FailsLate
  BY DEF ZoneInv
<1> QED BY <1>1, ZoneInvariant, PTL

(* A scan never frees, moves or shrinks a block that cannot be purged.     *)
LEMMA PinnedStep ==
  ASSUME ZoneInv, [Next]_vars, pc \in {"scan", "found"},
         NEW a \in blocks, Pinned(a)
  PROVE  Stays(a)
<1>1. HeapInv /\ a \in Addresses /\ hdr[a].tag # PU_FREE /\ ~Purgable(hdr[a].tag)
  BY HeapFacts DEF ZoneInv, Pinned
<1>2. CASE UNCHANGED heap
  BY <1>2 DEF heap, Stays
<1>3. CASE Purge
  <2>1. SetHeap(Freed(Heap, scan)) /\ hdr[scan].tag # PU_FREE /\ ~Pinned(scan) /\ a # scan
    BY <1>3 DEF Purge, MovesPast
  <2>2. scan \in blocks
    <3>1. scan \in blocks \cup {Cap}
      BY <1>3 DEF ZoneInv, ScanInv, Purge, InList
    <3>2. scan # Cap
      BY <1>1, <2>1, HeapFacts DEF Pinned, Purgable, PU_STATIC, PU_PURGELEVEL
    <3> QED BY <3>1, <3>2
  <2>3. /\ a \in blocks' /\ hdr'[a].size = hdr[a].size
        /\ hdr'[a].tag = hdr[a].tag /\ hdr'[a].user = hdr[a].user
    BY <1>1, <2>1, <2>2, FreedState
  <2> QED BY <2>3 DEF Stays
<1>4. CASE HandOut
  <2>1. a # base
    BY <1>1, <1>4 DEF ZoneInv, FoundInv, HandOut, Fits
  <2> QED BY <1>4, <2>1, HandOutFields DEF Stays
<1>5. CASE UNCHANGED vars
  BY <1>2, <1>5 DEF vars, heap
<1>6. CASE AllTheWay \/ SkipPinned \/ StepOver
  BY <1>2, <1>6 DEF AllTheWay, SkipPinned, StepOver
<1> QED BY <1>3, <1>4, <1>5, <1>6
        DEF Next, Call, Continue, Z_Malloc, Z_Free, Z_ChangeTag, Z_ChangeUser, Z_FreeTags,
            Sweep, Swept

(* A scan never frees, moves or shrinks a block that cannot be purged.     *)
THEOREM PinnedAlwaysStay == Spec => PinnedStay
<1>1. ZoneInv /\ [Next]_vars
        => [(pc \in {"scan", "found"}) => \A a \in blocks : Pinned(a) => Stays(a)]_vars
  BY PinnedStep
<1> QED BY <1>1, ZoneInvariant, PTL DEF Spec, PinnedStay

-----------------------------------------------------------------------------
(* The contract                                                            *)

LEMMA TagsAreNumbers == \A t \in AllTags : t \in Int
<1>1. \A t \in Tags : t = PU_STATIC \/ t = PU_LEVEL \/ t = PU_CACHE
  BY ZoneConstants
<1> QED BY <1>1 DEF AllTags, PU_STATIC, PU_FREE, PU_LEVEL, PU_CACHE

LEMMA PointerTags ==
  ASSUME HeapInv
  PROVE  /\ PointerTag \in [Users -> AllTags]
         /\ \A u \in Users :
              /\ PointerTag[u] = IF mark[u] = Cap THEN 0 ELSE hdr[mark[u]].tag
              /\ mark[u] # Cap => /\ mark[u] \in blocks /\ hdr[mark[u]].user = u
                                  /\ PointerTag[u] # 0 /\ PointerTag[u] # PU_FREE
         /\ \A a \in blocks : hdr[a].user \in Users =>
              /\ mark[hdr[a].user] = a
              /\ PointerTag[hdr[a].user] = hdr[a].tag /\ hdr[a].tag # 0
<1>1. /\ Marked(hdr, blocks, mark)
      /\ \A a \in blocks : a # Cap /\ hdr[a].tag \in AllTags
  BY HeapFacts DEF HeapInv
<1>2. \A u \in Users : PointerTag[u] = IF mark[u] = Cap THEN 0 ELSE hdr[mark[u]].tag
  BY DEF PointerTag
<1>3. \A u \in Users :
        mark[u] # Cap => /\ mark[u] \in blocks /\ hdr[mark[u]].user = u
                         /\ PointerTag[u] # 0 /\ PointerTag[u] # PU_FREE
  BY <1>1, <1>2 DEF Marked
<1>4. \A a \in blocks : hdr[a].user \in Users => mark[hdr[a].user] = a
  BY <1>1 DEF Marked
<1>5. \A a \in blocks : hdr[a].user \in Users =>
        PointerTag[hdr[a].user] = hdr[a].tag /\ hdr[a].tag # 0
  BY <1>1, <1>2, <1>3, <1>4
<1>6. \A u \in Users : (IF mark[u] = Cap THEN 0 ELSE hdr[mark[u]].tag) \in AllTags
  BY <1>1, <1>3 DEF AllTags
<1>7. PointerTag \in [Users -> AllTags]
  BY <1>6 DEF PointerTag
<1> QED BY <1>2, <1>3, <1>4, <1>5, <1>7

(* What a step of the zone does to the tag of each variable's block.       *)
LEMMA PointerTagStep ==
  ASSUME NEW f, \A u \in Users :
           (IF mark'[u] = Cap THEN 0 ELSE hdr'[mark'[u]].tag) = f[u]
  PROVE  PointerTag' = [u \in Users |-> f[u]]
BY DEF PointerTag

(* Z_Free takes the block from its owner, if it has one, and no other.     *)
LEMMA FreedTags ==
  ASSUME HeapInv, NEW a \in blocks, hdr[a].tag # PU_FREE, SetHeap(Freed(Heap, a))
  PROVE  IF hdr[a].user \in Users THEN PointerTag' = [PointerTag EXCEPT ![hdr[a].user] = 0]
         ELSE PointerTag' = PointerTag
<1> DEFINE w == hdr[a].user
           f == [u \in Users |-> IF u = w THEN 0 ELSE PointerTag[u]]
<1>1. /\ mark' = [u \in Users |-> IF u = w THEN Cap ELSE mark[u]]
      /\ \A x \in Addresses : x # a => hdr'[x].tag = hdr[x].tag
  BY FreedState
<1>2. /\ PointerTag \in [Users -> AllTags]
      /\ \A u \in Users :
           /\ PointerTag[u] = IF mark[u] = Cap THEN 0 ELSE hdr[mark[u]].tag
           /\ mark[u] # Cap => mark[u] \in blocks /\ hdr[mark[u]].user = u
  BY PointerTags
<1> HIDE DEF w
<1>3. ASSUME NEW u \in Users
      PROVE  (IF mark'[u] = Cap THEN 0 ELSE hdr'[mark'[u]].tag) = f[u]
  <2>1. CASE u = w
    BY <1>1, <2>1
  <2>2. CASE u # w
    <3>1. mark'[u] = mark[u] /\ f[u] = PointerTag[u]
      BY <1>1, <2>2
    <3>2. CASE mark[u] = Cap
      BY <1>2, <3>1, <3>2
    <3>3. CASE mark[u] # Cap
      <4>1. mark[u] # a /\ mark[u] \in Addresses
        BY <1>2, <2>2, <3>3, HeapFacts DEF w
      <4> QED BY <1>1, <1>2, <3>1, <3>3, <4>1
    <3> QED BY <3>2, <3>3
  <2> QED BY <2>1, <2>2
<1> HIDE DEF f
<1>4. PointerTag' = [u \in Users |-> f[u]]
  BY <1>3, PointerTagStep
<1>5. PointerTag' = [u \in Users |-> IF u = w THEN 0 ELSE PointerTag[u]]
  BY <1>4 DEF f
<1>6. CASE w \in Users
  BY <1>2, <1>5, <1>6 DEF w
<1>7. CASE w \notin Users
  BY <1>2, <1>5, <1>7 DEF w
<1> QED BY <1>6, <1>7 DEF w

LEMMA SameTags ==
  ASSUME UNCHANGED heap
  PROVE  PointerTag' = PointerTag
BY DEF heap, PointerTag

(* Every step of the zone is a step of the contract, or changes nothing    *)
(* the contract speaks of.                                                 *)
LEMMA ContractInitially == Init => Contract!ContractInit
<1> SUFFICES ASSUME Init PROVE Contract!ContractInit
  OBVIOUS
<1>1. mark = [u \in Users |-> Cap] /\ pc = "idle"
  BY DEF Init
<1>2. PointerTag = [u \in Users |-> 0]
  BY <1>1 DEF PointerTag
<1> QED BY <1>1, <1>2
        DEF Contract!ContractInit, Contract!NoBlock, Contract!NoRequest, Doing, Asking

LEMMA MallocAsks ==
  ASSUME ZoneInv, NEW n \in Requests, NEW t \in Tags, NEW u \in Users \cup {NoUser},
         Z_Malloc(n, t, u)
  PROVE  Contract!ContractNext
<1>1. /\ HeapInv /\ pc = "idle" /\ pc' = "scan" /\ MayAsk(t, u) /\ UNCHANGED heap
      /\ call' = [NoCall EXCEPT !.size = n + Header, !.tag = t, !.user = u]
  BY DEF ZoneInv, Z_Malloc
<1>2. call'.tag = t /\ call'.user = u
  BY <1>1 DEF NoCall
<1>3. Doing = "idle" /\ Doing' = "malloc" /\ Asking' = [tag |-> t, user |-> u]
  BY <1>1, <1>2 DEF Doing, Asking
<1>4. u # NoUser => PointerTag[u] = 0
  BY <1>1, PointerTags DEF MayAsk
<1>5. u = NoUser => ~Contract!Purgable(t)
  BY <1>1 DEF MayAsk, Purgable, Contract!Purgable, PU_PURGELEVEL, Contract!PU_PURGELEVEL
<1>6. PointerTag' = PointerTag
  BY <1>1, SameTags
<1>7. Contract!Ask(t, u)
  BY <1>3, <1>4, <1>5, <1>6 DEF Contract!Ask, Contract!NoBlock
<1> QED BY <1>7 DEF Contract!ContractNext

LEMMA FreeFrees ==
  ASSUME ZoneInv, NEW a \in blocks, Z_Free(a)
  PROVE  [Contract!ContractNext]_(Contract!contractVars)
<1> DEFINE w == hdr[a].user
<1>1. /\ HeapInv /\ pc = "idle" /\ hdr[a].tag # PU_FREE /\ SetHeap(Freed(Heap, a))
      /\ UNCHANGED <<pc, call>>
  BY DEF ZoneInv, Z_Free
<1>2. Doing = "idle" /\ Doing' = Doing /\ Asking' = Asking
  BY <1>1 DEF Doing, Asking
<1>3. CASE w \in Users
  <2>1. PointerTag' = [PointerTag EXCEPT ![w] = 0] /\ PointerTag[w] # 0
    BY <1>1, <1>3, FreedTags, PointerTags
  <2>2. Contract!Free(w)
    BY <1>2, <2>1 DEF Contract!Free, Contract!NoBlock
  <2> QED BY <1>3, <2>2 DEF Contract!ContractNext
<1>4. CASE w \notin Users
  <2>1. PointerTag' = PointerTag
    BY <1>1, <1>4, FreedTags
  <2> QED BY <1>2, <2>1 DEF Contract!contractVars
<1> QED BY <1>3, <1>4

LEMMA ChangeTagRetags ==
  ASSUME ZoneInv, NEW a \in blocks, NEW t \in Tags, Z_ChangeTag(a, t)
  PROVE  [Contract!ContractNext]_(Contract!contractVars)
<1> DEFINE w == hdr[a].user
           f == [u \in Users |-> IF u = w THEN t ELSE PointerTag[u]]
<1>1. /\ HeapInv /\ pc = "idle" /\ hdr[a].tag # PU_FREE /\ hdr' = [hdr EXCEPT ![a].tag = t]
      /\ mark' = mark /\ UNCHANGED <<pc, call>>
  BY DEF ZoneInv, Z_ChangeTag
<1>2. Doing = "idle" /\ Doing' = Doing /\ Asking' = Asking
  BY <1>1 DEF Doing, Asking
<1>3. /\ \A x \in Addresses : hdr'[x].tag = IF x = a THEN t ELSE hdr[x].tag
      /\ a \in Addresses /\ \A x \in blocks : x \in Addresses
  BY <1>1, HeapFacts DEF Hdrs
<1>4. /\ PointerTag \in [Users -> AllTags]
      /\ \A u \in Users :
           /\ PointerTag[u] = IF mark[u] = Cap THEN 0 ELSE hdr[mark[u]].tag
           /\ mark[u] # Cap => mark[u] \in blocks /\ hdr[mark[u]].user = u
      /\ w \in Users => mark[w] = a /\ PointerTag[w] # 0 /\ a # Cap
  BY <1>1, HeapFacts, PointerTags
<1>5. ASSUME NEW u \in Users
      PROVE  (IF mark'[u] = Cap THEN 0 ELSE hdr'[mark'[u]].tag) = f[u]
  <2>1. CASE u = w
    BY <1>1, <1>3, <1>4, <2>1
  <2>2. CASE u # w
    <3>1. mark[u] # Cap => mark[u] # a
      BY <1>4, <2>2
    <3> QED BY <1>1, <1>3, <1>4, <2>2, <3>1
  <2> QED BY <2>1, <2>2
<1> HIDE DEF f, w
<1>6. PointerTag' = [u \in Users |-> f[u]]
  BY <1>5, PointerTagStep
<1>7. PointerTag' = [u \in Users |-> IF u = w THEN t ELSE PointerTag[u]]
  BY <1>6 DEF f
<1>8. CASE w \in Users
  <2>1. PointerTag' = [PointerTag EXCEPT ![w] = t]
    BY <1>4, <1>7, <1>8
  <2>2. Contract!Retag(w, t)
    BY <1>2, <1>4, <1>8, <2>1 DEF Contract!Retag, Contract!NoBlock
  <2> QED BY <1>8, <2>2 DEF Contract!ContractNext
<1>9. CASE w \notin Users
  <2>1. PointerTag' = PointerTag
    BY <1>4, <1>7, <1>9
  <2> QED BY <1>2, <2>1 DEF Contract!contractVars
<1> QED BY <1>8, <1>9

LEMMA ChangeUserMoves ==
  ASSUME ZoneInv, NEW a \in blocks, NEW v \in Users, Z_ChangeUser(a, v)
  PROVE  Contract!ContractNext
<1> DEFINE w == hdr[a].user
           f == [u \in Users |-> IF u = w THEN 0 ELSE IF u = v THEN PointerTag[w] ELSE PointerTag[u]]
<1>1. /\ HeapInv /\ pc = "idle" /\ hdr[a].tag # PU_FREE /\ w # NoUser
      /\ mark[v] = Cap /\ ~Owns(v) /\ hdr' = [hdr EXCEPT ![a].user = v]
      /\ mark' = [mark EXCEPT ![v] = a, ![w] = Cap] /\ UNCHANGED <<pc, call>>
  BY DEF ZoneInv, Z_ChangeUser
<1>2. Doing = "idle" /\ Doing' = Doing /\ Asking' = Asking
  BY <1>1 DEF Doing, Asking
<1>3. /\ \A x \in Addresses : hdr'[x].tag = hdr[x].tag
      /\ a \in Addresses /\ \A x \in blocks : x \in Addresses
      /\ w \in Users /\ a # Cap /\ mark \in [Users -> Addresses]
  BY <1>1, HeapFacts DEF Hdrs, Owners
<1>4. /\ PointerTag \in [Users -> AllTags]
      /\ \A u \in Users :
           /\ PointerTag[u] = IF mark[u] = Cap THEN 0 ELSE hdr[mark[u]].tag
           /\ mark[u] # Cap => mark[u] \in blocks
      /\ mark[w] = a /\ PointerTag[w] # 0 /\ PointerTag[w] = hdr[a].tag
  BY <1>1, <1>3, PointerTags
<1> HIDE DEF w
<1>5. v # w /\ PointerTag[v] = 0
  BY <1>1, <1>3, <1>4
<1>6. \A u \in Users : mark'[u] = IF u = w THEN Cap ELSE IF u = v THEN a ELSE mark[u]
  BY <1>1, <1>3, <1>5
<1>7. ASSUME NEW u \in Users
      PROVE  (IF mark'[u] = Cap THEN 0 ELSE hdr'[mark'[u]].tag) = f[u]
  BY <1>3, <1>4, <1>5, <1>6
<1> HIDE DEF f
<1>8. PointerTag' = [u \in Users |-> f[u]]
  BY <1>7, PointerTagStep
<1>9. PointerTag' = [PointerTag EXCEPT ![v] = PointerTag[w], ![w] = 0]
  BY <1>3, <1>4, <1>5, <1>8 DEF f
<1>10. Contract!Move(w, v)
  BY <1>2, <1>4, <1>5, <1>9 DEF Contract!Move, Contract!NoBlock
<1> QED BY <1>3, <1>10 DEF Contract!ContractNext

LEMMA ScanStutters ==
  ASSUME SkipPinned \/ StepOver
  PROVE  UNCHANGED Contract!contractVars
<1>1. /\ UNCHANGED heap /\ call' = call /\ pc = "scan" /\ pc' \in {"scan", "found"}
  BY DEF SkipPinned, StepOver, Again
<1>2. PointerTag' = PointerTag /\ Doing' = Doing /\ Asking' = Asking
  BY <1>1, SameTags DEF Doing, Asking
<1> QED BY <1>2 DEF Contract!contractVars

LEMMA GivingUpRefuses ==
  ASSUME AllTheWay
  PROVE  Contract!ContractNext
<1>1. UNCHANGED heap /\ call' = call /\ pc = "scan" /\ pc' = "failed"
  BY DEF AllTheWay
<1>2. PointerTag' = PointerTag /\ Doing = "malloc" /\ Doing' = "failed" /\ Asking' = Asking
  BY <1>1, SameTags DEF Doing, Asking
<1>3. Contract!Refuse
  BY <1>2 DEF Contract!Refuse
<1> QED BY <1>3 DEF Contract!ContractNext, Contract!GoOn

LEMMA PurgeEvicts ==
  ASSUME ZoneInv, Purge
  PROVE  [Contract!ContractNext]_(Contract!contractVars)
<1> DEFINE w == hdr[scan].user
<1>1. /\ HeapInv /\ pc = "scan" /\ pc' \in {"scan", "found"} /\ call' = call
      /\ SetHeap(Freed(Heap, scan)) /\ hdr[scan].tag # PU_FREE /\ ~Pinned(scan)
  BY DEF ZoneInv, Purge, MovesPast, Again
<1>2. scan \in blocks /\ Purgable(hdr[scan].tag)
  <2>1. Purgable(hdr[scan].tag)
    BY <1>1 DEF Pinned
  <2>2. scan # Cap
    BY <1>1, <2>1, HeapFacts DEF Purgable, PU_STATIC, PU_PURGELEVEL
  <2>3. InList(scan)
    BY <1>1 DEF ZoneInv, ScanInv
  <2> QED BY <2>1, <2>2, <2>3 DEF InList
<1>3. Doing = "malloc" /\ Doing' = Doing /\ Asking' = Asking
  BY <1>1 DEF Doing, Asking
<1>4. CASE w \in Users
  <2>1. PointerTag' = [PointerTag EXCEPT ![w] = 0] /\ PointerTag[w] = hdr[scan].tag
    BY <1>1, <1>2, <1>4, FreedTags, PointerTags
  <2>2. Contract!Purgable(PointerTag[w])
    BY <1>2, <2>1 DEF Purgable, Contract!Purgable, PU_PURGELEVEL, Contract!PU_PURGELEVEL
  <2>3. Contract!Evict(w)
    BY <1>3, <2>1, <2>2 DEF Contract!Evict, Contract!NoBlock
  <2> QED BY <1>4, <2>3 DEF Contract!ContractNext, Contract!GoOn
<1>5. CASE w \notin Users
  <2>1. PointerTag' = PointerTag
    BY <1>1, <1>2, <1>5, FreedTags
  <2> QED BY <1>3, <2>1 DEF Contract!contractVars
<1> QED BY <1>4, <1>5

LEMMA HandOutGrants ==
  ASSUME ZoneInv, HandOut
  PROVE  Contract!ContractNext
<1> DEFINE f == [u \in Users |-> IF u = call.user THEN call.tag ELSE PointerTag[u]]
<1>1. /\ HeapInv /\ pc = "found" /\ Return /\ base \in blocks /\ hdr[base].tag = PU_FREE
  BY DEF ZoneInv, HandOut, FoundInv, Fits
<1>2. /\ Doing = "malloc" /\ Doing' = "idle"
      /\ Asking = [tag |-> call.tag, user |-> call.user]
      /\ Asking' = [tag |-> 0, user |-> NoUser]
  BY <1>1 DEF Doing, Asking, Return
<1>3. /\ hdr'[base].tag = call.tag /\ base # Cap
      /\ \A x \in blocks \ {base} : hdr'[x].tag = hdr[x].tag
      /\ \A u \in Users : mark'[u] = IF u = call.user THEN base ELSE mark[u]
  BY <1>1, HeapFacts, HandOutFields
<1>4. \A u \in Users :
        /\ PointerTag[u] = IF mark[u] = Cap THEN 0 ELSE hdr[mark[u]].tag
        /\ mark[u] # Cap => mark[u] \in blocks /\ PointerTag[u] # PU_FREE
  BY <1>1, PointerTags
<1>5. ASSUME NEW u \in Users
      PROVE  (IF mark'[u] = Cap THEN 0 ELSE hdr'[mark'[u]].tag) = f[u]
  <2>1. CASE u = call.user
    BY <1>3, <2>1
  <2>2. CASE u # call.user
    <3>1. mark[u] # Cap => mark[u] \in blocks \ {base}
      BY <1>1, <1>4
    <3> QED BY <1>3, <1>4, <2>2, <3>1
  <2> QED BY <2>1, <2>2
<1> HIDE DEF f
<1>6. PointerTag' = [u \in Users |-> f[u]]
  BY <1>5, PointerTagStep
<1>7. PointerTag' = [u \in Users |-> IF u = Asking.user THEN Asking.tag ELSE PointerTag[u]]
  BY <1>2, <1>6 DEF f
<1>8. Contract!Grant
  BY <1>2, <1>7 DEF Contract!Grant, Contract!NoRequest, Contract!NoBlock
<1> QED BY <1>8 DEF Contract!ContractNext, Contract!GoOn

LEMMA FreeTagsSweeps ==
  ASSUME Z_FreeTags(PU_LEVEL, PU_PURGELEVEL - 1)
  PROVE  Contract!ContractNext
<1>1. UNCHANGED heap /\ pc = "idle" /\ pc' = "sweep"
  BY DEF Z_FreeTags
<1>2. PointerTag' = PointerTag /\ Doing = "idle" /\ Doing' = "sweep" /\ Asking' = Asking
  BY <1>1, SameTags DEF Doing, Asking
<1>3. Contract!StartSweep
  BY <1>2 DEF Contract!StartSweep
<1> QED BY <1>3 DEF Contract!ContractNext

LEMMA SweepSweepsOut ==
  ASSUME ZoneInv, Sweep
  PROVE  [Contract!ContractNext]_(Contract!contractVars)
<1> DEFINE w == hdr[scan].user
<1>1. /\ HeapInv /\ SweepInv /\ pc = "sweep" /\ scan # Cap /\ UNCHANGED <<pc, call>>
      /\ IF InRange(scan) THEN SetHeap(Freed(Heap, scan)) ELSE UNCHANGED heap
  BY DEF ZoneInv, Sweep
<1>2. Doing = "sweep" /\ Doing' = Doing /\ Asking' = Asking
  BY <1>1 DEF Doing, Asking
<1>3. CASE ~InRange(scan)
  <2>1. PointerTag' = PointerTag
    BY <1>1, <1>3, SameTags
  <2> QED BY <1>2, <2>1 DEF Contract!contractVars
<1>4. CASE InRange(scan)
  <2>1. /\ scan \in blocks /\ hdr[scan].tag # PU_FREE /\ SetHeap(Freed(Heap, scan))
        /\ hdr[scan].tag >= PU_LEVEL /\ hdr[scan].tag <= PU_PURGELEVEL - 1
    BY <1>1, <1>4 DEF InRange, SweepInv, InList
  <2>2. CASE w \in Users
    <3>1. PointerTag' = [PointerTag EXCEPT ![w] = 0] /\ PointerTag[w] = hdr[scan].tag
      BY <1>1, <2>1, <2>2, FreedTags, PointerTags
    <3>2. Contract!OfLevel(PointerTag[w])
      <4>1. hdr[scan].tag \in Int
        BY <1>1, <2>1, HeapFacts, TagsAreNumbers
      <4> QED BY <2>1, <3>1, <4>1 DEF Contract!OfLevel, PU_LEVEL, PU_PURGELEVEL,
                                      Contract!PU_LEVEL, Contract!PU_PURGELEVEL
    <3>3. Contract!SweepOut(w)
      BY <1>2, <3>1, <3>2 DEF Contract!SweepOut, Contract!NoBlock
    <3> QED BY <2>2, <3>3 DEF Contract!ContractNext, Contract!GoOn
  <2>3. CASE w \notin Users
    <3>1. PointerTag' = PointerTag
      BY <1>1, <2>1, <2>3, FreedTags
    <3> QED BY <1>2, <3>1 DEF Contract!contractVars
  <2> QED BY <2>2, <2>3
<1> QED BY <1>3, <1>4

LEMMA SweptEndsSweep ==
  ASSUME ZoneInv, Swept
  PROVE  Contract!ContractNext
<1>1. /\ HeapInv /\ SweepInv /\ SweepComplete /\ pc = "sweep" /\ scan = Cap
      /\ Return /\ UNCHANGED heap
  BY DEF ZoneInv, Swept
<1>2. Doing = "sweep" /\ Doing' = "idle" /\ Asking' = Asking /\ PointerTag' = PointerTag
  BY <1>1, SameTags DEF Doing, Asking, Return
<1>3. ASSUME NEW u \in Users, Contract!OfLevel(PointerTag[u])
      PROVE  FALSE
  <2>1. /\ mark[u] # Cap /\ mark[u] \in blocks /\ PointerTag[u] = hdr[mark[u]].tag
        /\ hdr[mark[u]].tag # PU_FREE /\ hdr[mark[u]].tag \in AllTags
    <3>1. PointerTag[u] # 0
      BY <1>3 DEF Contract!OfLevel, Contract!PU_LEVEL
    <3>2. mark[u] # Cap
      BY <1>1, <3>1, PointerTags
    <3> QED BY <1>1, <3>2, PointerTags, HeapFacts
  <2>2. InRange(mark[u])
    <3>1. hdr[mark[u]].tag \in Int
      BY <2>1, TagsAreNumbers
    <3> QED BY <1>1, <1>3, <2>1, <3>1
            DEF InRange, SweepInv, Contract!OfLevel, PU_LEVEL, PU_PURGELEVEL,
                Contract!PU_LEVEL, Contract!PU_PURGELEVEL
  <2> QED BY <1>1, <2>1, <2>2 DEF SweepComplete
<1>4. Contract!EndSweep
  BY <1>2, <1>3 DEF Contract!EndSweep
<1> QED BY <1>4 DEF Contract!ContractNext, Contract!GoOn

LEMMA ContractStep ==
  ASSUME ZoneInv, [Next]_vars
  PROVE  [Contract!ContractNext]_(Contract!contractVars)
<1>1. CASE \E n \in Requests, t \in Tags, u \in Users \cup {NoUser} : Z_Malloc(n, t, u)
  BY <1>1, MallocAsks
<1>2. CASE \E a \in blocks : Z_Free(a)
  BY <1>2, FreeFrees
<1>3. CASE \E a \in blocks, t \in Tags : Z_ChangeTag(a, t)
  BY <1>3, ChangeTagRetags
<1>4. CASE \E a \in blocks, u \in Users : Z_ChangeUser(a, u)
  BY <1>4, ChangeUserMoves
<1>5. CASE Z_FreeTags(PU_LEVEL, PU_PURGELEVEL - 1)
  BY <1>5, FreeTagsSweeps
<1>6. CASE AllTheWay
  BY <1>6, GivingUpRefuses
<1>7. CASE SkipPinned \/ StepOver
  BY <1>7, ScanStutters
<1>8. CASE Purge
  BY <1>8, PurgeEvicts
<1>9. CASE HandOut
  BY <1>9, HandOutGrants
<1>10. CASE Sweep
  BY <1>10, SweepSweepsOut
<1>11. CASE Swept
  BY <1>11, SweptEndsSweep
<1>12. CASE UNCHANGED vars
  <2>1. UNCHANGED heap /\ pc' = pc /\ call' = call
    BY <1>12 DEF vars
  <2>2. PointerTag' = PointerTag /\ Doing' = Doing /\ Asking' = Asking
    BY <2>1, SameTags DEF Doing, Asking
  <2> QED BY <2>2 DEF Contract!contractVars
<1> QED BY <1>1, <1>2, <1>3, <1>4, <1>5, <1>6, <1>7, <1>8, <1>9, <1>10, <1>11, <1>12
        DEF Next, Call, Continue

(* The zone keeps its contract with the owners of pointers, as far as      *)
(* safety goes: its states begin as the contract's, and a pointer changes  *)
(* under its owner only as Z_Malloc, Z_Free and Z_FreeTags promise.  That  *)
(* every call ends is liveness, which TLC checks.                          *)
THEOREM ZoneKeepsContract ==
  Spec => Contract!ContractInit /\ [][Contract!ContractNext]_(Contract!contractVars)
<1>1. Init => Contract!ContractInit
  BY ContractInitially
<1>2. ZoneInv /\ [Next]_vars => [Contract!ContractNext]_(Contract!contractVars)
  BY ContractStep
<1> QED BY <1>1, <1>2, ZoneInvariant, PTL DEF Spec
=============================================================================
