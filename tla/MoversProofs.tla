---------------------------- MODULE MoversProofs ----------------------------
(***************************************************************************)
(* The list of thinkers and the pointers into it are sound, for every map, *)
(* every number of thinkers and every size of activeplats and              *)
(* activeceilings.  The inductive invariant gives each thinker of the list *)
(* a rank: next leads to the next higher one.                              *)
(***************************************************************************)
EXTENDS Movers, Iteration, FiniteSetTheorems

(* Levels as the code builds them.                                         *)
Types == {l.type : l \in Lines} \cup {"none", "normal", "open", "donutRaise", "lowerFloor"}
Ways  == {"none", "up", "down", "waiting", "stasis"}
Kinds == {"plat", "ceiling", "floor", "door"}
Thinkers ==
  [function : {"none", "think", "stopped", "removed", "lost"},
   what : {"none", "mobj"} \cup Kinds, sector : Sectors \cup {Null},
   type : Types, status : Ways, old : Ways]
Nodes == Blocks \cup {Cap}
Errors == {"none", "noMemory", "noMorePlats", "cantFindPlat"}
Levels ==
  [th : [Blocks -> Thinkers], next : [Nodes -> Nodes], prev : [Nodes -> Nodes],
   special : [Sectors -> Nodes], plats : [1 .. MaxPlats -> Nodes],
   ceilings : [1 .. MaxCeilings -> Nodes], used : SUBSET Lines, crowded : BOOLEAN,
   error : Errors]

(* The list: each thinker has a rank, by which next goes up, from the head *)
(* with rank 0 on, without leaving one out, and prev goes back.            *)
Linked(L) == {b \in Blocks : L.th[b].function \in {"think", "stopped", "removed"}}
Follows(L, r, a) ==
  \/ L.next[a] = Cap /\ \A b \in Linked(L) : r[b] <= r[a]
  \/ /\ L.next[a] \in Linked(L) /\ r[a] < r[L.next[a]]
     /\ \A b \in Linked(L) : r[b] <= r[a] \/ r[b] >= r[L.next[a]]
Chain(L, r) ==
  /\ r[Cap] = 0 /\ \A b \in Linked(L) : r[b] > 0
  /\ \A a, b \in Linked(L) : r[a] = r[b] => a = b
  /\ \A a \in Linked(L) \cup {Cap} :
       /\ Follows(L, r, a)
       /\ L.prev[a] \in Linked(L) \cup {Cap}
       /\ L.prev[L.next[a]] = a /\ L.next[L.prev[a]] = a

(* The turns: who stands before the current thinker has had one.           *)
Turns(L, r, p, c, t) ==
  /\ t \in [Blocks -> {0, 1}] /\ c \in Linked(L) \cup {Cap}
  /\ \A b \in Blocks \ Linked(L) : t[b] = 0
  /\ p = "idle" => c = Cap /\ \A b \in Blocks : t[b] = 0
  /\ p = "act" => c # Cap
  /\ p \in {"run", "act"} =>
       \A b \in Linked(L) : t[b] = IF c = Cap \/ r[b] < r[c] THEN 1 ELSE 0

(* The pointers to movers.                                                 *)
SpecialOK(L) ==
  \A s \in Sectors : L.special[s] # Null => Moves(L.th[L.special[s]]) /\ L.th[L.special[s]].sector = s
ArrayOK(L, array, what) ==
  /\ \A i \in DOMAIN array : array[i] # Null => Moves(L.th[array[i]]) /\ L.th[array[i]].what = what
  /\ \A i, j \in DOMAIN array : array[i] # Null /\ array[i] = array[j] => i = j
PlatsListed(L) ==
  L.error # "noMorePlats" =>
    \A b \in Blocks : L.th[b].what = "plat" /\ Live(L.th[b]) => \E i \in DOMAIN L.plats : L.plats[i] = b
Alone(L) ==
  \A b \in Blocks : Moves(L.th[b]) /\ L.th[b].sector \in Guarded => L.special[L.th[b].sector] = b
Pointers(L) ==
  /\ \A b \in Blocks : Moves(L.th[b]) => L.th[b].sector \in Sectors /\ L.th[b].what \in Kinds
  /\ SpecialOK(L) /\ ArrayOK(L, L.plats, "plat") /\ ArrayOK(L, L.ceilings, "ceiling")
  /\ PlatsListed(L) /\ Alone(L) /\ L.error # "cantFindPlat"

(* A level that P_RunThinkers can go through, and the inductive invariant. *)
Sound(L, p, c, t) ==
  /\ L \in Levels /\ Pointers(L)
  /\ \E r \in [Nodes -> Nat] : Chain(L, r) /\ Turns(L, r, p, c, t)
MoversInv ==
  /\ pc \in {"idle", "run", "act", "error"} /\ (pc # "error" => level.error # "noMorePlats")
  /\ Sound(level, pc, current, turns)

-----------------------------------------------------------------------------
(* The operations, field by field                                          *)

(* The slot SlotOf finds holds what it was asked for.                      *)
LEMMA SlotFound ==
  ASSUME NEW n \in Nat, NEW array \in [1 .. n -> Nodes], NEW x
  PROVE  \/ SlotOf(array, x) = 0 /\ \A i \in 1 .. n : array[i] # x
         \/ SlotOf(array, x) \in 1 .. n /\ array[SlotOf(array, x)] = x
<1>1. CASE \A i \in 1 .. n : array[i] # x
  BY <1>1 DEF SlotOf
<1>2. CASE \E i \in 1 .. n : array[i] = x
  <2> DEFINE T == {i \in 1 .. n : array[i] = x}
             First(i) == array[i] = x /\ \A j \in 1 .. i - 1 : array[j] # x
  <2>1. PICK i \in T : \A j \in T : i <= j
    <3>1. T \in SUBSET Nat /\ T # {}
      BY <1>2
    <3> HIDE DEF T
    <3> QED
      BY <3>1, Least
  <2>2. i \in 1 .. n /\ First(i)
    BY <2>1
  <2>3. SlotOf(array, x) = CHOOSE j \in 1 .. n : First(j)
    BY <1>2 DEF SlotOf
  <2> HIDE DEF First
  <2>4. SlotOf(array, x) \in 1 .. n /\ First(SlotOf(array, x))
    BY <2>2, <2>3
  <2> QED
    BY <2>4 DEF First
<1> QED
  BY <1>1, <1>2

(* Thinkers that can be added.                                             *)
Proper(t) ==
  /\ t \in Thinkers /\ Live(t)
  /\ t.what = "mobj" \/ (t.what \in Kinds /\ t.sector \in Sectors)

(* What Started does when nothing is in its way: b is put at the end of    *)
(* the list, the sector points to it, and it gets a slot of its array.     *)
PutLast(L, M, b) ==
  \A x \in Nodes :
    /\ M.next[x] = IF x = b THEN Cap ELSE IF x = L.prev[Cap] THEN b ELSE L.next[x]
    /\ M.prev[x] = IF x = Cap THEN b ELSE IF x = b THEN L.prev[Cap] ELSE L.prev[x]
Begun(L, M, b, t) ==
  /\ b \in Blocks /\ L.th[b].function = "none" /\ M \in Levels
  /\ M.th = [L.th EXCEPT ![b] = t]
  /\ PutLast(L, M, b)
  /\ M.special = IF t.what = "mobj" THEN L.special ELSE [L.special EXCEPT ![t.sector] = b]
  /\ \/ t.what # "plat" /\ M.plats = L.plats /\ M.error = L.error
     \/ t.what = "plat" /\ M.plats = L.plats /\ M.error = "noMorePlats"
     \/ /\ t.what = "plat" /\ M.error = L.error
        /\ \E i \in 1 .. MaxPlats : L.plats[i] = Null /\ M.plats = [L.plats EXCEPT ![i] = b]
  /\ \/ M.ceilings = L.ceilings
     \/ /\ t.what = "ceiling"
        /\ \E i \in 1 .. MaxCeilings : L.ceilings[i] = Null /\ M.ceilings = [L.ceilings EXCEPT ![i] = b]

LEMMA BlocksTyped == Cap \notin Blocks /\ Unused \in Thinkers /\ MaxPlats \in Nat /\ MaxCeilings \in Nat
BY MoverConstants DEF Cap, Unused, Thinkers, Types, Ways

LEMMA AddThinkerIs ==
  ASSUME NEW L \in Levels, NEW b \in Blocks, NEW t, Proper(t)
  PROVE  LET M == NewThinker(L, b, t) IN
         /\ M \in Levels /\ M.th = [L.th EXCEPT ![b] = t]
         /\ PutLast(L, M, b)
         /\ M.special = IF t.what = "mobj" THEN L.special ELSE [L.special EXCEPT ![t.sector] = b]
         /\ M.plats = L.plats /\ M.ceilings = L.ceilings /\ M.error = L.error
<1> DEFINE A == P_AddThinker(L, b, t)
           next == [L.next EXCEPT ![L.prev[Cap]] = b]
           prev == [L.prev EXCEPT ![b] = L.prev[Cap]]
<1>1. /\ next \in [Nodes -> Nodes] /\ prev \in [Nodes -> Nodes] /\ Cap \in Nodes /\ b \in Nodes
      /\ Cap # b /\ L.prev[Cap] \in Nodes
  BY BlocksTyped DEF Levels, Nodes
<1>2. A = [L EXCEPT !.th = [@ EXCEPT ![b] = t], !.next = [next EXCEPT ![b] = Cap],
                    !.prev = [prev EXCEPT ![Cap] = b]]
  BY DEF P_AddThinker
<1>3. \A x \in Nodes :
        /\ next[x] = IF x = L.prev[Cap] THEN b ELSE L.next[x]
        /\ prev[x] = IF x = b THEN L.prev[Cap] ELSE L.prev[x]
  BY <1>1 DEF Levels
<1> HIDE DEF next, prev, A
<1>4. /\ A \in Levels /\ A.th = [L.th EXCEPT ![b] = t]
      /\ A.next = [next EXCEPT ![b] = Cap] /\ A.prev = [prev EXCEPT ![Cap] = b]
      /\ A.special = L.special /\ A.plats = L.plats /\ A.ceilings = L.ceilings /\ A.error = L.error
  BY <1>1, <1>2 DEF Levels, Proper
<1>5. \A x \in Nodes :
        /\ A.next[x] = IF x = b THEN Cap ELSE IF x = L.prev[Cap] THEN b ELSE L.next[x]
        /\ A.prev[x] = IF x = Cap THEN b ELSE IF x = b THEN L.prev[Cap] ELSE L.prev[x]
  BY <1>1, <1>3, <1>4
<1>6. CASE t.what = "mobj"
  <2>1. NewThinker(L, b, t) = A
    BY <1>6 DEF NewThinker, A
  <2> QED BY <1>4, <1>5, <1>6, <2>1 DEF PutLast
<1>7. CASE t.what # "mobj"
  <2>1. NewThinker(L, b, t) = [A EXCEPT !.special = [@ EXCEPT ![t.sector] = b]] /\ t.sector \in Sectors
    BY <1>7 DEF NewThinker, A, Proper
  <2> DEFINE M == NewThinker(L, b, t)
  <2>2. M \in Levels
    BY <1>1, <1>4, <2>1 DEF Levels
  <2>3. /\ M.th = A.th /\ M.next = A.next /\ M.prev = A.prev /\ M.plats = A.plats
        /\ M.ceilings = A.ceilings /\ M.error = A.error /\ M.special = [A.special EXCEPT ![t.sector] = b]
    BY <1>4, <2>1 DEF Levels
  <2> QED BY <1>4, <1>5, <1>7, <2>2, <2>3 DEF PutLast
<1> QED BY <1>6, <1>7

LEMMA StartedIs ==
  ASSUME NEW L \in Levels, NEW t, Proper(t)
  PROVE  LET M == Started(L, t) IN
         \/ M = L
         \/ L.error = "none" /\ M = [L EXCEPT !.error = "noMemory"]
         \/ L.error = "none" /\ \E b \in Blocks : Begun(L, M, b, t)
<1> DEFINE b == NewBlock(L)
           N == NewThinker(L, b, t)
           M == Started(L, t)
<1>1. CASE L.error # "none"
  BY <1>1 DEF Started
<1>2. CASE L.error = "none" /\ Free(L) = {}
  BY <1>2 DEF Started
<1>3. CASE L.error = "none" /\ Free(L) # {}
  <2>1. b \in Blocks /\ L.th[b].function = "none"
    BY <1>3 DEF Free, NewBlock
  <2>2. M = Listed(N, b)
    BY <1>3 DEF Started
  <2>3. /\ N \in Levels /\ N.th = [L.th EXCEPT ![b] = t]
        /\ PutLast(L, N, b)
        /\ N.special = IF t.what = "mobj" THEN L.special ELSE [L.special EXCEPT ![t.sector] = b]
        /\ N.plats = L.plats /\ N.ceilings = L.ceilings /\ N.error = L.error
    BY <2>1, AddThinkerIs
  <2>4. N.th[b] = t /\ b \in Nodes
    BY <2>1, <2>3 DEF Levels, Nodes
  <2> SUFFICES Begun(L, M, b, t)
    BY <1>3, <2>1
  <2> HIDE DEF N, b, M
  <2>5. CASE t.what = "plat"
    <3>1. M = P_AddActivePlat(N, b)
      BY <2>2, <2>4, <2>5 DEF Listed
    <3>2. N.plats \in [1 .. MaxPlats -> Nodes]
      BY <2>3 DEF Levels
    <3>3. CASE SlotOf(N.plats, Null) = 0
      <4>1. M = [N EXCEPT !.error = "noMorePlats"]
        BY <3>1, <3>3 DEF P_AddActivePlat
      <4>2. M \in Levels
        BY <2>3, <4>1 DEF Levels, Errors
      <4>3. /\ M.th = N.th /\ M.next = N.next /\ M.prev = N.prev /\ M.plats = N.plats
            /\ M.ceilings = N.ceilings /\ M.error = "noMorePlats" /\ M.special = N.special
        BY <2>3, <4>1 DEF Levels
      <4>4. PutLast(L, M, b)
        BY <2>3, <4>3 DEF PutLast
      <4> QED BY <1>3, <2>1, <2>3, <2>5, <4>2, <4>3, <4>4 DEF Begun
    <3>4. CASE SlotOf(N.plats, Null) # 0
      <4>0. MaxPlats \in Nat /\ MaxCeilings \in Nat
        BY BlocksTyped
      <4> DEFINE i == SlotOf(N.plats, Null)
      <4>1. i \in 1 .. MaxPlats /\ N.plats[i] = Null
        BY <3>2, <3>4, <4>0, SlotFound
      <4>2. M = [N EXCEPT !.plats = [@ EXCEPT ![i] = b]]
        BY <3>1, <3>4 DEF P_AddActivePlat
      <4> HIDE DEF i
      <4>3. M \in Levels
        BY <2>3, <2>4, <4>1, <4>2 DEF Levels
      <4>4. /\ M.th = N.th /\ M.next = N.next /\ M.prev = N.prev
            /\ M.plats = [N.plats EXCEPT ![i] = b]
            /\ M.ceilings = N.ceilings /\ M.error = N.error /\ M.special = N.special
        BY <2>3, <4>2 DEF Levels
      <4>5. PutLast(L, M, b)
        BY <2>3, <4>4 DEF PutLast
      <4> QED BY <1>3, <2>1, <2>3, <2>5, <4>1, <4>3, <4>4, <4>5 DEF Begun
    <3> QED BY <3>3, <3>4
  <2>6. CASE t.what = "ceiling"
    <3>1. M = P_AddActiveCeiling(N, b)
      BY <2>2, <2>4, <2>6 DEF Listed
    <3>2. N.ceilings \in [1 .. MaxCeilings -> Nodes]
      BY <2>3 DEF Levels
    <3>3. CASE SlotOf(N.ceilings, Null) = 0
      <4>1. M = [N EXCEPT !.crowded = TRUE]
        BY <3>1, <3>3 DEF P_AddActiveCeiling
      <4>2. M \in Levels
        BY <2>3, <4>1 DEF Levels
      <4>3. /\ M.th = N.th /\ M.next = N.next /\ M.prev = N.prev /\ M.plats = N.plats
            /\ M.ceilings = N.ceilings /\ M.error = N.error /\ M.special = N.special
        BY <2>3, <4>1 DEF Levels
      <4>4. PutLast(L, M, b)
        BY <2>3, <4>3 DEF PutLast
      <4> QED BY <1>3, <2>1, <2>3, <2>6, <4>2, <4>3, <4>4 DEF Begun
    <3>4. CASE SlotOf(N.ceilings, Null) # 0
      <4>0. MaxPlats \in Nat /\ MaxCeilings \in Nat
        BY BlocksTyped
      <4> DEFINE i == SlotOf(N.ceilings, Null)
      <4>1. i \in 1 .. MaxCeilings /\ N.ceilings[i] = Null
        BY <3>2, <3>4, <4>0, SlotFound
      <4>2. M = [N EXCEPT !.ceilings = [@ EXCEPT ![i] = b]]
        BY <3>1, <3>4 DEF P_AddActiveCeiling
      <4> HIDE DEF i
      <4>3. M \in Levels
        BY <2>3, <2>4, <4>1, <4>2 DEF Levels
      <4>4. /\ M.th = N.th /\ M.next = N.next /\ M.prev = N.prev /\ M.plats = N.plats
            /\ M.ceilings = [N.ceilings EXCEPT ![i] = b]
            /\ M.error = N.error /\ M.special = N.special
        BY <2>3, <4>2 DEF Levels
      <4>5. PutLast(L, M, b)
        BY <2>3, <4>4 DEF PutLast
      <4> QED BY <1>3, <2>1, <2>3, <2>6, <4>1, <4>3, <4>4, <4>5 DEF Begun
    <3> QED BY <3>3, <3>4
  <2>7. CASE t.what \notin {"plat", "ceiling"}
    <3>1. M = N
      BY <2>2, <2>4, <2>7 DEF Listed
    <3> QED BY <1>3, <2>1, <2>3, <2>7, <3>1 DEF Begun
  <2> QED BY <2>5, <2>6, <2>7
<1> QED BY <1>1, <1>2, <1>3

-----------------------------------------------------------------------------
(* The list                                                                *)

(* P_AddThinker gives the new thinker the highest rank.                    *)
AddedRank(L, r, b) == [r EXCEPT ![b] = r[L.prev[Cap]] + 1]
LEMMA AddsLast ==
  ASSUME NEW L \in Levels, NEW M, NEW b, NEW t, Proper(t), Begun(L, M, b, t),
         NEW r \in [Nodes -> Nat], Chain(L, r)
  PROVE  /\ AddedRank(L, r, b) \in [Nodes -> Nat] /\ Chain(M, AddedRank(L, r, b))
         /\ Linked(M) = Linked(L) \cup {b} /\ b \notin Linked(L) /\ L.prev[Cap] \in Nodes
         /\ \A x \in Linked(L) \cup {Cap} : r[x] <= r[L.prev[Cap]]
<1> DEFINE z == L.prev[Cap]
           q == AddedRank(L, r, b)
<1>1. /\ b \in Blocks /\ b \notin Linked(L) /\ b # Cap /\ z \in Linked(L) \cup {Cap} /\ L.next[z] = Cap
      /\ Linked(L) \subseteq Blocks /\ Cap \notin Linked(L) /\ z # b
  <2>1. b \in Blocks /\ b \notin Linked(L) /\ b # Cap /\ Linked(L) \subseteq Blocks /\ Cap \notin Linked(L)
    BY BlocksTyped DEF Begun, Linked
  <2>2. z \in Linked(L) \cup {Cap} /\ L.next[z] = Cap
    BY DEF Chain
  <2> QED BY <2>1, <2>2
<1>2. Linked(M) = Linked(L) \cup {b}
  <2>1. L.th \in [Blocks -> Thinkers] /\ M.th = [L.th EXCEPT ![b] = t]
    BY DEF Begun, Levels
  <2>2. t.function \in {"think", "stopped"}
    BY DEF Proper, Live
  <2>3. \A x \in Blocks : M.th[x] = IF x = b THEN t ELSE L.th[x]
    BY <1>1, <2>1
  <2> QED BY <1>1, <2>2, <2>3 DEF Linked
<1>3. \A x \in Linked(L) \cup {Cap} : r[x] <= r[z]
  <2>1. \A x \in Linked(L) : r[x] <= r[z]
    BY <1>1 DEF Chain, Follows
  <2>2. r[Cap] = 0 /\ r[z] \in Nat
    BY <1>1 DEF Chain, Nodes
  <2> QED BY <2>1, <2>2
<1>4. /\ q \in [Nodes -> Nat] /\ q[b] = r[z] + 1 /\ r[z] \in Nat
      /\ \A x \in Linked(L) \cup {Cap} : q[x] = r[x] /\ r[x] \in Nat
  BY <1>1 DEF AddedRank, Nodes
<1> HIDE DEF q
<1>5. /\ M.next[b] = Cap /\ M.next[z] = b /\ M.prev[Cap] = b /\ M.prev[b] = z
      /\ \A x \in Linked(L) \cup {Cap} : x # z => M.next[x] = L.next[x]
      /\ \A x \in Linked(L) : M.prev[x] = L.prev[x]
  BY <1>1 DEF Begun, PutLast, Nodes
<1> HIDE DEF z
<1>6. \A x \in Linked(L) \cup {Cap} : x # z => L.next[x] \in Linked(L)
  <2> SUFFICES ASSUME NEW x \in Linked(L) \cup {Cap}, L.next[x] = Cap PROVE x = z
    BY DEF Chain, Follows
  <2> QED BY DEF Chain, z
<1>7. q[Cap] = 0 /\ \A x \in Linked(M) : q[x] > 0
  BY <1>2, <1>4 DEF Chain
<1>8. \A x, y \in Linked(M) : q[x] = q[y] => x = y
  <2> TAKE x, y \in Linked(M)
  <2>1. CASE x \in Linked(L) /\ y \in Linked(L)
    BY <1>4, <2>1 DEF Chain
  <2>2. CASE x = b /\ y \in Linked(L)
    BY <1>3, <1>4, <2>2
  <2>3. CASE y = b /\ x \in Linked(L)
    BY <1>3, <1>4, <2>3
  <2> QED BY <1>2, <2>1, <2>2, <2>3
<1>9. ASSUME NEW a \in Linked(M) \cup {Cap}
      PROVE  /\ Follows(M, q, a) /\ M.prev[a] \in Linked(M) \cup {Cap}
             /\ M.prev[M.next[a]] = a /\ M.next[M.prev[a]] = a
  <2>1. CASE a = b
    <3>1. \A x \in Linked(M) : q[x] <= q[b]
      BY <1>2, <1>3, <1>4
    <3> QED BY <1>1, <1>2, <1>5, <2>1, <3>1 DEF Follows
  <2>2. CASE a = z
    <3>1. q[z] < q[b] /\ \A x \in Linked(M) : q[x] <= q[z] \/ q[x] >= q[b]
      BY <1>1, <1>2, <1>3, <1>4
    <3>2. Follows(M, q, a)
      BY <1>2, <1>5, <2>2, <3>1 DEF Follows
    <3>3. M.prev[a] \in Linked(M) \cup {Cap} /\ M.next[M.prev[a]] = a
      <4>1. CASE z = Cap
        BY <1>2, <1>5, <2>2, <4>1
      <4>2. CASE z # Cap
        <5>1. /\ M.prev[z] = L.prev[z] /\ L.prev[z] \in Linked(L) \cup {Cap}
              /\ L.next[L.prev[z]] = z
          BY <1>1, <1>5, <4>2 DEF Chain
        <5>2. L.prev[z] # z
          BY <1>1, <4>2, <5>1
        <5> QED BY <1>2, <1>5, <2>2, <5>1, <5>2
      <4> QED BY <4>1, <4>2
    <3> QED BY <1>5, <2>2, <3>2, <3>3
  <2>3. CASE a \in Linked(L) \cup {Cap} /\ a # z
    <3>1. M.next[a] = L.next[a] /\ L.next[a] \in Linked(L)
      BY <1>5, <1>6, <2>3
    <3>2. r[a] < r[L.next[a]] /\ \A x \in Linked(L) : r[x] <= r[a] \/ r[x] >= r[L.next[a]]
      BY <1>1, <2>3, <3>1 DEF Chain, Follows
    <3>3. q[a] < q[M.next[a]] /\ \A x \in Linked(M) : q[x] <= q[a] \/ q[x] >= q[M.next[a]]
      BY <1>2, <1>3, <1>4, <2>3, <3>1, <3>2
    <3>4. Follows(M, q, a)
      BY <1>2, <3>1, <3>3 DEF Follows
    <3>5. M.prev[M.next[a]] = a
      BY <1>5, <2>3, <3>1 DEF Chain
    <3>6. M.prev[a] \in Linked(M) \cup {Cap} /\ M.next[M.prev[a]] = a
      <4>1. CASE a = Cap
        BY <1>2, <1>5, <4>1
      <4>2. CASE a # Cap
        <5>1. M.prev[a] = L.prev[a] /\ L.prev[a] \in Linked(L) \cup {Cap} /\ L.next[L.prev[a]] = a
          BY <1>5, <2>3, <4>2 DEF Chain
        <5>2. L.prev[a] # z
          BY <1>1, <4>2, <5>1
        <5> QED BY <1>2, <1>5, <5>1, <5>2
      <4> QED BY <4>1, <4>2
    <3> QED BY <3>4, <3>5, <3>6
  <2> QED BY <1>2, <2>1, <2>2, <2>3
<1>10. Chain(M, q)
  BY <1>7, <1>8, <1>9 DEF Chain
<1>11. z \in Nodes
  BY <1>1 DEF Nodes
<1> QED BY <1>1, <1>2, <1>3, <1>4, <1>10, <1>11 DEF z, q

(* So the run that is under way comes by the new thinker, once.            *)
LEMMA AddsUnturned ==
  ASSUME NEW L \in Levels, NEW M, NEW b, NEW t, Proper(t), Begun(L, M, b, t),
         NEW r \in [Nodes -> Nat], Chain(L, r), NEW p, NEW c, NEW n,
         Turns(L, r, p, c, n), p = "idle" \/ c # Cap
  PROVE  Turns(M, AddedRank(L, r, b), p, c, n)
<1> DEFINE q == AddedRank(L, r, b)
<1>1. /\ Linked(M) = Linked(L) \cup {b} /\ b \notin Linked(L) /\ L.prev[Cap] \in Nodes
      /\ \A x \in Linked(L) \cup {Cap} : r[x] <= r[L.prev[Cap]]
  BY AddsLast
<1>2. b \in Blocks /\ Cap \notin Blocks /\ Linked(L) \subseteq Blocks
  BY BlocksTyped DEF Begun, Linked
<1>3. q[b] = r[L.prev[Cap]] + 1 /\ \A x \in Linked(L) : q[x] = r[x] /\ r[x] \in Nat
  BY <1>1, <1>2 DEF AddedRank, Nodes
<1>4. n[b] = 0 /\ c # b /\ c \in Linked(L) \cup {Cap} /\ n \in [Blocks -> {0, 1}]
  BY <1>1, <1>2 DEF Turns
<1> HIDE DEF q
<1>5. ASSUME p \in {"run", "act"}, NEW x \in Linked(M)
      PROVE  n[x] = IF c = Cap \/ q[x] < q[c] THEN 1 ELSE 0
  <2>1. c # Cap /\ c \in Linked(L) /\ r[c] <= r[L.prev[Cap]] /\ r[L.prev[Cap]] \in Nat
    BY <1>1, <1>4, <1>5
  <2>2. CASE x = b
    BY <1>3, <1>4, <2>1, <2>2
  <2>3. CASE x \in Linked(L)
    BY <1>3, <1>5, <2>1, <2>3 DEF Turns
  <2> QED BY <1>1, <2>2, <2>3
<1> QED BY <1>1, <1>4, <1>5 DEF Turns, q

(* What leaves the links and the set of thinkers alone leaves the list.    *)
LEMMA SameList ==
  ASSUME NEW L, NEW M, Linked(M) = Linked(L), M.next = L.next, M.prev = L.prev
  PROVE  /\ \A r : Chain(L, r) => Chain(M, r)
         /\ \A r, p, c, n : Turns(L, r, p, c, n) => Turns(M, r, p, c, n)
<1>1. \A r, a : Follows(L, r, a) = Follows(M, r, a)
  BY DEF Follows
<1>2. \A r : Chain(L, r) => Chain(M, r)
  BY <1>1 DEF Chain
<1>3. \A r, p, c, n : Turns(L, r, p, c, n) => Turns(M, r, p, c, n)
  BY DEF Turns
<1> QED BY <1>2, <1>3

(* P_RunThinkers unlinks the thinker it stands at: the ranks stay.         *)
LEMMA Unlinks ==
  ASSUME NEW L \in Levels, NEW c \in Linked(L), NEW r \in [Nodes -> Nat], Chain(L, r)
  PROVE  LET M == Unlinked(L, c) IN
         /\ M \in Levels /\ M.th = [L.th EXCEPT ![c] = Unused] /\ M.next[c] = L.next[c]
         /\ Linked(M) = Linked(L) \ {c} /\ Chain(M, r)
         /\ M.special = L.special /\ M.plats = L.plats /\ M.ceilings = L.ceilings
         /\ M.error = L.error
<1> DEFINE M == Unlinked(L, c)
           back == L.prev[c]
           fwd == L.next[c]
<1>1. /\ c \in Blocks /\ Cap \notin Blocks /\ Linked(L) \subseteq Blocks /\ Cap \notin Linked(L)
      /\ c \in Nodes /\ Cap \in Nodes
  BY BlocksTyped DEF Linked, Nodes
<1>2. /\ back \in Linked(L) \cup {Cap} /\ fwd \in Linked(L) \cup {Cap}
      /\ L.next[back] = c /\ L.prev[fwd] = c
      /\ Follows(L, r, c) /\ Follows(L, r, back)
  BY DEF Chain, Follows
<1>3. /\ back \in Nodes /\ fwd \in Nodes /\ r[c] \in Nat /\ r[back] \in Nat
      /\ \A x \in Linked(L) \cup {Cap} : r[x] \in Nat /\ x \in Nodes
  BY <1>1, <1>2 DEF Nodes
<1>4. r[back] < r[c] /\ \A x \in Linked(L) : r[x] <= r[back] \/ r[x] >= r[c]
  BY <1>1, <1>2 DEF Follows
<1>5. back # c /\ fwd # c
  <2>1. fwd # c
    BY <1>1, <1>2, <1>3 DEF Follows
  <2> QED BY <1>3, <1>4, <2>1
<1>6. M = [L EXCEPT !.th = [@ EXCEPT ![c] = Unused], !.prev = [@ EXCEPT ![fwd] = back],
                    !.next = [@ EXCEPT ![back] = fwd]]
  BY DEF Unlinked
<1> HIDE DEF back, fwd, M
<1>7. /\ M \in Levels /\ M.th = [L.th EXCEPT ![c] = Unused]
      /\ M.next = [L.next EXCEPT ![back] = fwd] /\ M.prev = [L.prev EXCEPT ![fwd] = back]
      /\ M.special = L.special /\ M.plats = L.plats /\ M.ceilings = L.ceilings
      /\ M.error = L.error
  BY <1>1, <1>3, <1>6, BlocksTyped DEF Levels
<1>8. /\ \A x \in Nodes : M.next[x] = IF x = back THEN fwd ELSE L.next[x]
      /\ \A x \in Nodes : M.prev[x] = IF x = fwd THEN back ELSE L.prev[x]
  BY <1>3, <1>7 DEF Levels
<1>9. Linked(M) = Linked(L) \ {c}
  <2>1. \A x \in Blocks : M.th[x] = IF x = c THEN Unused ELSE L.th[x]
    BY <1>1, <1>7 DEF Levels
  <2>2. Unused.function = "none"
    BY DEF Unused
  <2> QED BY <1>1, <2>1, <2>2 DEF Linked
<1>10. ASSUME NEW a \in Linked(M) \cup {Cap}
       PROVE  /\ Follows(M, r, a) /\ M.prev[a] \in Linked(M) \cup {Cap}
              /\ M.prev[M.next[a]] = a /\ M.next[M.prev[a]] = a
  <2>1. a \in Linked(L) \cup {Cap} /\ a # c /\ a \in Nodes
    BY <1>1, <1>3, <1>9
  <2>2. Follows(M, r, a)
    <3>1. CASE a = back
      <4>1. M.next[a] = fwd
        BY <1>3, <1>8, <3>1
      <4>2. CASE fwd = Cap
        <5>1. \A x \in Linked(L) : r[x] <= r[c]
          BY <1>1, <1>2, <4>2 DEF Follows, fwd
        <5>2. \A x \in Linked(M) : r[x] <= r[back]
          <6> TAKE x \in Linked(M)
          <6>1. x \in Linked(L) /\ x # c /\ r[x] # r[c]
            BY <1>9 DEF Chain
          <6>2. r[x] <= r[c] /\ (r[x] <= r[back] \/ r[x] >= r[c])
            BY <1>4, <5>1, <6>1
          <6> QED BY <1>3, <6>1, <6>2
        <5> QED BY <3>1, <4>1, <4>2, <5>2 DEF Follows
      <4>3. CASE fwd \in Linked(L)
        <5>1. r[c] < r[fwd] /\ \A x \in Linked(L) : r[x] <= r[c] \/ r[x] >= r[fwd]
          BY <1>1, <1>2, <4>3 DEF Follows, fwd
        <5>2. \A x \in Linked(M) : r[x] <= r[back] \/ r[x] >= r[fwd]
          <6> TAKE x \in Linked(M)
          <6>1. x \in Linked(L) /\ x # c /\ r[x] # r[c]
            BY <1>9 DEF Chain
          <6>2. (r[x] <= r[c] \/ r[x] >= r[fwd]) /\ (r[x] <= r[back] \/ r[x] >= r[c])
            BY <1>4, <5>1, <6>1
          <6> QED BY <1>3, <6>1, <6>2
        <5>3. fwd \in Linked(M) /\ r[back] < r[fwd]
          BY <1>3, <1>4, <1>5, <1>9, <4>3, <5>1
        <5> QED BY <3>1, <4>1, <5>2, <5>3 DEF Follows
      <4> QED BY <1>2, <4>2, <4>3 DEF back, fwd
    <3>2. CASE a # back
      <4>1. M.next[a] = L.next[a] /\ L.next[a] # c
        BY <1>8, <2>1, <3>2 DEF Chain, back
      <4> QED BY <1>9, <2>1, <4>1 DEF Chain, Follows
    <3> QED BY <3>1, <3>2
  <2>3. M.prev[a] \in Linked(M) \cup {Cap}
    <3>1. CASE a = fwd
      BY <1>2, <1>5, <1>8, <1>9, <2>1, <3>1 DEF back
    <3>2. CASE a # fwd
      <4>1. M.prev[a] = L.prev[a] /\ L.prev[a] \in Linked(L) \cup {Cap} /\ L.prev[a] # c
        BY <1>8, <2>1, <3>2 DEF Chain, fwd
      <4> QED BY <1>9, <4>1
    <3> QED BY <3>1, <3>2
  <2>4. M.prev[M.next[a]] = a
    <3>1. CASE a = back
      BY <1>3, <1>8, <3>1
    <3>2. CASE a # back
      <4>1. M.next[a] = L.next[a] /\ L.prev[L.next[a]] = a /\ L.next[a] \in Nodes
        BY <1>8, <2>1, <3>2 DEF Chain, Levels
      <4>2. L.next[a] # fwd
        BY <1>2, <2>1, <4>1 DEF fwd
      <4> QED BY <1>8, <4>1, <4>2
    <3> QED BY <3>1, <3>2
  <2>5. M.next[M.prev[a]] = a
    <3>1. CASE a = fwd
      BY <1>3, <1>8, <2>1, <3>1
    <3>2. CASE a # fwd
      <4>1. M.prev[a] = L.prev[a] /\ L.next[L.prev[a]] = a /\ L.prev[a] \in Nodes
        BY <1>8, <2>1, <3>2 DEF Chain, Levels
      <4>2. L.prev[a] # back
        BY <1>2, <2>1, <4>1 DEF back
      <4> QED BY <1>8, <4>1, <4>2
    <3> QED BY <3>1, <3>2
  <2> QED BY <2>2, <2>3, <2>4, <2>5
<1>11. Chain(M, r)
  BY <1>9, <1>10 DEF Chain
<1>12. M.next[c] = L.next[c]
  BY <1>1, <1>5, <1>8
<1> QED BY <1>7, <1>9, <1>11, <1>12 DEF M

(* P_RunThinkers goes on from a thinker that has had its turn.             *)
LEMMA GoesOn ==
  ASSUME NEW L \in Levels, NEW r \in [Nodes -> Nat], Chain(L, r), NEW p \in {"run", "act"},
         NEW c \in Linked(L), NEW n, Turns(L, r, p, c, n)
  PROVE  /\ Turns(L, r, "run", L.next[c], [n EXCEPT ![c] = @ + 1])
         /\ Turns(L, r, "error", L.next[c], [n EXCEPT ![c] = @ + 1])
<1> DEFINE d == L.next[c]
           m == [n EXCEPT ![c] = @ + 1]
<1>1. /\ c \in Blocks /\ Cap \notin Blocks /\ Linked(L) \subseteq Blocks /\ Cap \notin Linked(L)
      /\ \A x \in Linked(L) : r[x] \in Nat
  BY BlocksTyped DEF Linked, Nodes
<1>2. n \in [Blocks -> {0, 1}] /\ \A x \in Linked(L) : n[x] = IF r[x] < r[c] THEN 1 ELSE 0
  BY <1>1 DEF Turns
<1>3. n[c] = 0
  BY <1>1, <1>2
<1>4. m \in [Blocks -> {0, 1}] /\ m[c] = 1 /\ \A x \in Blocks : x # c => m[x] = n[x]
  BY <1>1, <1>2, <1>3
<1>5. d \in Linked(L) \cup {Cap} /\ Follows(L, r, c)
  BY DEF Chain, Follows
<1> HIDE DEF d, m
<1>6. \A x \in Linked(L) : m[x] = IF d = Cap \/ r[x] < r[d] THEN 1 ELSE 0
  <2> TAKE x \in Linked(L)
  <2>1. CASE d = Cap
    <3>1. r[x] <= r[c]
      BY <1>1, <1>5, <2>1 DEF Follows, d
    <3>2. x # c => r[x] < r[c]
      BY <1>1, <3>1 DEF Chain
    <3> QED BY <1>1, <1>2, <1>4, <2>1, <3>2
  <2>2. CASE d \in Linked(L)
    <3>1. r[c] < r[d] /\ (r[x] <= r[c] \/ r[x] >= r[d])
      BY <1>1, <1>5, <2>2 DEF Follows, d
    <3>2. x # c => r[x] # r[c]
      BY DEF Chain
    <3>3. x # c => (r[x] < r[c]) = (r[x] < r[d])
      BY <1>1, <2>2, <3>1, <3>2
    <3>4. d # Cap
      BY <1>1, <2>2
    <3> QED BY <1>1, <1>2, <1>4, <3>1, <3>3, <3>4
  <2> QED BY <1>5, <2>1, <2>2
<1>7. \A x \in Blocks \ Linked(L) : m[x] = 0
  BY <1>4 DEF Turns
<1> QED BY <1>4, <1>5, <1>6, <1>7 DEF Turns, d, m

(* It goes on from one that it has freed, too.                             *)
LEMMA GoesOnFreed ==
  ASSUME NEW L \in Levels, NEW r \in [Nodes -> Nat], Chain(L, r),
         NEW c \in Linked(L), NEW n, Turns(L, r, "run", c, n),
         NEW M, Linked(M) = Linked(L) \ {c}
  PROVE  Turns(M, r, "run", L.next[c], [n EXCEPT ![c] = 0])
<1> DEFINE d == L.next[c]
           m == [n EXCEPT ![c] = 0]
<1>1. /\ c \in Blocks /\ Cap \notin Blocks /\ Linked(L) \subseteq Blocks /\ Cap \notin Linked(L)
      /\ \A x \in Linked(L) : r[x] \in Nat
  BY BlocksTyped DEF Linked, Nodes
<1>2. n \in [Blocks -> {0, 1}] /\ \A x \in Linked(L) : n[x] = IF r[x] < r[c] THEN 1 ELSE 0
  BY <1>1 DEF Turns
<1>4. m \in [Blocks -> {0, 1}] /\ m[c] = 0 /\ \A x \in Blocks : x # c => m[x] = n[x]
  BY <1>1, <1>2
<1>5. d \in Linked(L) \cup {Cap} /\ Follows(L, r, c)
  BY DEF Chain, Follows
<1> HIDE DEF d, m
<1>6. \A x \in Linked(M) : m[x] = IF d = Cap \/ r[x] < r[d] THEN 1 ELSE 0
  <2> TAKE x \in Linked(M)
  <2>0. x \in Linked(L) /\ x # c /\ r[x] # r[c]
    BY DEF Chain
  <2>1. CASE d = Cap
    <3>1. r[x] <= r[c]
      BY <1>1, <1>5, <2>0, <2>1 DEF Follows, d
    <3> QED BY <1>1, <1>2, <1>4, <2>0, <2>1, <3>1
  <2>2. CASE d \in Linked(L)
    <3>1. r[c] < r[d] /\ (r[x] <= r[c] \/ r[x] >= r[d])
      BY <1>1, <1>5, <2>0, <2>2 DEF Follows, d
    <3>3. (r[x] < r[c]) = (r[x] < r[d])
      BY <1>1, <2>0, <2>2, <3>1
    <3>4. d # Cap
      BY <1>1, <2>2
    <3> QED BY <1>1, <1>2, <1>4, <2>0, <3>3, <3>4
  <2> QED BY <1>5, <2>1, <2>2
<1>7. \A x \in Blocks \ Linked(M) : m[x] = 0
  BY <1>4 DEF Turns
<1>8. d \in Linked(M) \cup {Cap}
  <2>1. d # c
    BY <1>1, <1>5 DEF Follows, d
  <2> QED BY <1>5, <2>1
<1> QED BY <1>4, <1>6, <1>7, <1>8 DEF Turns, d, m

-----------------------------------------------------------------------------
(* The pointers                                                            *)

(* What a level has beside its list.                                       *)
LEMMA LevelFields ==
  ASSUME NEW L \in Levels
  PROVE  /\ L.th \in [Blocks -> Thinkers] /\ L.special \in [Sectors -> Nodes]
         /\ L.plats \in [1 .. MaxPlats -> Nodes] /\ L.ceilings \in [1 .. MaxCeilings -> Nodes]
         /\ L.next \in [Nodes -> Nodes] /\ L.prev \in [Nodes -> Nodes] /\ L.error \in Errors
         /\ \A s \in Sectors : L.special[s] # Null => L.special[s] \in Blocks
         /\ \A i \in 1 .. MaxPlats : L.plats[i] # Null => L.plats[i] \in Blocks
         /\ \A i \in 1 .. MaxCeilings : L.ceilings[i] # Null => L.ceilings[i] \in Blocks
BY DEF Levels, Nodes, Cap

(* No mover of a level is where a new thinker goes, unless the sector may  *)
(* have two.                                                               *)
Fresh(L, t) ==
  t.what # "mobj" /\ t.sector \in Guarded =>
    \A b \in Blocks : Moves(L.th[b]) => L.th[b].sector # t.sector

LEMMA StartsPointed ==
  ASSUME NEW L \in Levels, Pointers(L), NEW M, NEW b, NEW t, Proper(t), Fresh(L, t), Begun(L, M, b, t)
  PROVE  Pointers(M)
<1>1. /\ b \in Blocks /\ ~Live(L.th[b]) /\ M \in Levels /\ Null \notin Blocks
      /\ L.error # "cantFindPlat"
  BY BlocksTyped DEF Begun, Live, Pointers, Cap
<1>2. \A x \in Blocks : M.th[x] = IF x = b THEN t ELSE L.th[x]
  BY <1>1, LevelFields DEF Begun
<1>3. \A s \in Sectors : M.special[s] = IF t.what # "mobj" /\ s = t.sector THEN b ELSE L.special[s]
  <2>1. L.special \in [Sectors -> Nodes]
    BY LevelFields
  <2>2. CASE t.what = "mobj"
    BY <2>2 DEF Begun
  <2>3. CASE t.what # "mobj"
    <3>1. M.special = [L.special EXCEPT ![t.sector] = b]
      BY <2>3 DEF Begun
    <3> QED BY <2>1, <2>3, <3>1
  <2> QED BY <2>2, <2>3
<1>4. Live(t) /\ (t.what # "mobj" => Moves(t) /\ t.sector \in Sectors /\ t.what \in Kinds)
  BY DEF Proper, Moves
<1>5. ~Moves(L.th[b])
  BY <1>1 DEF Moves
<1>6. SpecialOK(M)
  <2> SUFFICES ASSUME NEW s \in Sectors, M.special[s] # Null
               PROVE  Moves(M.th[M.special[s]]) /\ M.th[M.special[s]].sector = s
    BY DEF SpecialOK
  <2>1. CASE t.what # "mobj" /\ s = t.sector
    BY <1>1, <1>2, <1>3, <1>4, <2>1
  <2>2. CASE ~(t.what # "mobj" /\ s = t.sector)
    <3>1. M.special[s] = L.special[s] /\ L.special[s] \in Blocks /\ Moves(L.th[L.special[s]])
          /\ L.th[L.special[s]].sector = s
      BY <1>3, <2>2, LevelFields DEF Pointers, SpecialOK
    <3>2. L.special[s] # b
      BY <1>5, <3>1
    <3> QED BY <1>2, <3>1, <3>2
  <2> QED BY <2>1, <2>2
<1>7. ASSUME NEW n \in Nat, NEW old \in [1 .. n -> Nodes], NEW what, ArrayOK(L, old, what),
             NEW i \in 1 .. n, t.what = what, what # "mobj", old[i] = Null
      PROVE  ArrayOK(M, [old EXCEPT ![i] = b], what)
  <2> DEFINE new == [old EXCEPT ![i] = b]
  <2>1. DOMAIN new = 1 .. n /\ DOMAIN old = 1 .. n /\ \A j \in 1 .. n : new[j] = IF j = i THEN b ELSE old[j]
    OBVIOUS
  <2>2. \A j \in 1 .. n : old[j] # Null => old[j] \in Blocks /\ old[j] # b /\ Moves(L.th[old[j]]) /\ L.th[old[j]].what = what
    BY <1>5, <1>7, <2>1 DEF ArrayOK, Nodes, Cap
  <2> HIDE DEF new
  <2>3. \A j \in DOMAIN new : new[j] # Null => Moves(M.th[new[j]]) /\ M.th[new[j]].what = what
    BY <1>1, <1>2, <1>4, <1>7, <2>1, <2>2
  <2>4. \A j, k \in DOMAIN new : new[j] # Null /\ new[j] = new[k] => j = k
    BY <1>1, <1>7, <2>1, <2>2 DEF ArrayOK
  <2> QED BY <2>3, <2>4 DEF ArrayOK, new
<1>8. ASSUME NEW n \in Nat, NEW old \in [1 .. n -> Nodes], NEW what, ArrayOK(L, old, what)
      PROVE  ArrayOK(M, old, what)
  <2>1. DOMAIN old = 1 .. n
    OBVIOUS
  <2>2. \A j \in 1 .. n : old[j] # Null => old[j] \in Blocks /\ old[j] # b /\ Moves(L.th[old[j]]) /\ L.th[old[j]].what = what
    BY <1>5, <1>8, <2>1 DEF ArrayOK, Nodes, Cap
  <2> QED BY <1>2, <1>8, <2>1, <2>2 DEF ArrayOK
<1>9. /\ L.plats \in [1 .. MaxPlats -> Nodes] /\ L.ceilings \in [1 .. MaxCeilings -> Nodes]
      /\ MaxPlats \in Nat /\ MaxCeilings \in Nat
      /\ ArrayOK(L, L.plats, "plat") /\ ArrayOK(L, L.ceilings, "ceiling")
  BY LevelFields, BlocksTyped DEF Pointers
<1>10. ArrayOK(M, M.plats, "plat")
  <2>1. CASE M.plats = L.plats
    BY <1>8, <1>9, <2>1
  <2>2. CASE t.what = "plat" /\ \E i \in 1 .. MaxPlats : L.plats[i] = Null /\ M.plats = [L.plats EXCEPT ![i] = b]
    BY <1>7, <1>9, <2>2
  <2> QED BY <2>1, <2>2 DEF Begun
<1>11. ArrayOK(M, M.ceilings, "ceiling")
  <2>1. CASE M.ceilings = L.ceilings
    BY <1>8, <1>9, <2>1
  <2>2. CASE t.what = "ceiling" /\ \E i \in 1 .. MaxCeilings : L.ceilings[i] = Null /\ M.ceilings = [L.ceilings EXCEPT ![i] = b]
    BY <1>7, <1>9, <2>2
  <2> QED BY <2>1, <2>2 DEF Begun
<1>12. PlatsListed(M)
  <2> SUFFICES ASSUME M.error # "noMorePlats", NEW x \in Blocks, M.th[x].what = "plat", Live(M.th[x])
               PROVE  \E i \in DOMAIN M.plats : M.plats[i] = x
    BY DEF PlatsListed
  <2>1. L.error = M.error /\ DOMAIN M.plats = 1 .. MaxPlats /\ DOMAIN L.plats = 1 .. MaxPlats
    BY <1>1, LevelFields DEF Begun
  <2>2. CASE t.what # "plat"
    <3>1. M.plats = L.plats /\ x # b /\ M.th[x] = L.th[x]
      BY <1>2, <2>2 DEF Begun
    <3> QED BY <2>1, <3>1 DEF Pointers, PlatsListed
  <2>3. CASE t.what = "plat"
    <3>1. PICK i \in 1 .. MaxPlats : L.plats[i] = Null /\ M.plats = [L.plats EXCEPT ![i] = b]
      BY <2>1, <2>3 DEF Begun
    <3>2. \A j \in 1 .. MaxPlats : M.plats[j] = IF j = i THEN b ELSE L.plats[j]
      BY <1>9, <3>1
    <3>3. CASE x = b
      BY <2>1, <3>2, <3>3
    <3>4. CASE x # b
      <4>1. PICK j \in 1 .. MaxPlats : L.plats[j] = x
        BY <1>2, <2>1, <3>4 DEF Pointers, PlatsListed
      <4>2. j # i
        BY <1>1, <3>1, <4>1
      <4> QED BY <2>1, <3>2, <4>1, <4>2
    <3> QED BY <3>3, <3>4
  <2> QED BY <2>2, <2>3
<1>13. Alone(M)
  <2> SUFFICES ASSUME NEW x \in Blocks, Moves(M.th[x]), M.th[x].sector \in Guarded
               PROVE  M.special[M.th[x].sector] = x
    BY DEF Alone
  <2>0. Guarded \subseteq Sectors
    BY DEF Guarded
  <2>1. CASE x = b
    BY <1>1, <1>2, <1>3, <2>0, <2>1 DEF Moves
  <2>2. CASE x # b
    <3>1. M.th[x] = L.th[x] /\ L.special[L.th[x].sector] = x
      BY <1>2, <2>2 DEF Pointers, Alone
    <3>2. ~(t.what # "mobj" /\ M.th[x].sector = t.sector)
      BY <3>1 DEF Fresh
    <3> QED BY <1>3, <2>0, <3>1, <3>2
  <2> QED BY <2>1, <2>2
<1>14. M.error # "cantFindPlat"
  BY <1>1 DEF Begun
<1>15. \A x \in Blocks : Moves(M.th[x]) => M.th[x].sector \in Sectors /\ M.th[x].what \in Kinds
  BY <1>2, <1>4 DEF Pointers, Moves
<1> QED BY <1>6, <1>10, <1>11, <1>12, <1>13, <1>14, <1>15 DEF Pointers

(* A step that changes the states of thinkers only.                        *)
LEMMA SamePointers ==
  ASSUME NEW L \in Levels, Pointers(L), NEW M \in Levels,
         M.special = L.special, M.plats = L.plats, M.ceilings = L.ceilings, M.error = L.error,
         \A b \in Blocks : /\ Live(M.th[b]) = Live(L.th[b])
                           /\ M.th[b].what = L.th[b].what /\ M.th[b].sector = L.th[b].sector
  PROVE  Pointers(M)
<1>1. \A b \in Blocks : Moves(M.th[b]) = Moves(L.th[b])
  BY DEF Moves
<1>2. /\ \A s \in Sectors : L.special[s] # Null => L.special[s] \in Blocks
      /\ \A i \in DOMAIN L.plats : L.plats[i] # Null => L.plats[i] \in Blocks
      /\ \A i \in DOMAIN L.ceilings : L.ceilings[i] # Null => L.ceilings[i] \in Blocks
  BY LevelFields
<1>3. SpecialOK(M)
  BY <1>1, <1>2 DEF Pointers, SpecialOK
<1>4. ASSUME NEW array, NEW what, ArrayOK(L, array, what),
             \A i \in DOMAIN array : array[i] # Null => array[i] \in Blocks
      PROVE  ArrayOK(M, array, what)
  BY <1>1, <1>4 DEF ArrayOK
<1>4a. ArrayOK(M, M.plats, "plat") /\ ArrayOK(M, M.ceilings, "ceiling")
  BY <1>2, <1>4 DEF Pointers
<1>5. PlatsListed(M)
  BY DEF Pointers, PlatsListed
<1>6. Alone(M)
  BY <1>1 DEF Pointers, Alone
<1> QED BY <1>1, <1>3, <1>4a, <1>5, <1>6 DEF Pointers

(* A step that ends a thinker, and clears the pointers to it.              *)
Cleared(old, new, b) ==
  DOMAIN new = DOMAIN old /\ \A i \in DOMAIN old : new[i] = IF old[i] = b THEN Null ELSE old[i]
LEMMA LosesPointers ==
  ASSUME NEW L \in Levels, Pointers(L), NEW M \in Levels, NEW b \in Blocks, M.error = L.error,
         ~Live(M.th[b]), \A x \in Blocks : x # b => M.th[x] = L.th[x],
         Cleared(L.plats, M.plats, b), Cleared(L.ceilings, M.ceilings, b),
         \A s \in Sectors :
           /\ M.special[s] # b
           /\ \/ M.special[s] = L.special[s]
              \/ M.special[s] = Null /\ Moves(L.th[b]) /\ s = L.th[b].sector
  PROVE  Pointers(M)
<1>1. /\ \A s \in Sectors : L.special[s] # Null => L.special[s] \in Blocks
      /\ \A i \in DOMAIN L.plats : L.plats[i] # Null => L.plats[i] \in Blocks
      /\ \A i \in DOMAIN L.ceilings : L.ceilings[i] # Null => L.ceilings[i] \in Blocks
      /\ Guarded \subseteq Sectors /\ Null \notin Blocks
  BY LevelFields, BlocksTyped DEF Guarded, Cap
<1>2. \A x \in Blocks : Moves(M.th[x]) => x # b /\ M.th[x] = L.th[x] /\ Moves(L.th[x])
  BY DEF Moves
<1>3. SpecialOK(M)
  <2> SUFFICES ASSUME NEW s \in Sectors, M.special[s] # Null
               PROVE  Moves(M.th[M.special[s]]) /\ M.th[M.special[s]].sector = s
    BY DEF SpecialOK
  <2>1. M.special[s] = L.special[s] /\ L.special[s] \in Blocks /\ L.special[s] # b
    BY <1>1
  <2>2. M.th[L.special[s]] = L.th[L.special[s]]
    BY <2>1
  <2>3. Moves(L.th[L.special[s]]) /\ L.th[L.special[s]].sector = s
    BY <2>1 DEF Pointers, SpecialOK
  <2> QED BY <2>1, <2>2, <2>3
<1>4. ASSUME NEW old, NEW new, NEW what, ArrayOK(L, old, what), Cleared(old, new, b),
             \A i \in DOMAIN old : old[i] # Null => old[i] \in Blocks
      PROVE  ArrayOK(M, new, what)
  <2>1. \A i \in DOMAIN new : new[i] # Null => /\ i \in DOMAIN old /\ new[i] = old[i]
                                               /\ old[i] # b /\ old[i] \in Blocks
    BY <1>4 DEF Cleared
  <2>2. \A i \in DOMAIN new : new[i] # Null => Moves(M.th[new[i]]) /\ M.th[new[i]].what = what
    <3> TAKE i \in DOMAIN new
    <3> HAVE new[i] # Null
    <3>1. i \in DOMAIN old /\ new[i] = old[i] /\ M.th[old[i]] = L.th[old[i]] /\ old[i] # Null
      BY <2>1
    <3> QED BY <1>4, <3>1 DEF ArrayOK
  <2>3. \A i, j \in DOMAIN new : new[i] # Null /\ new[i] = new[j] => i = j
    BY <1>4, <2>1 DEF ArrayOK
  <2> QED BY <2>2, <2>3 DEF ArrayOK
<1>5. ArrayOK(M, M.plats, "plat") /\ ArrayOK(M, M.ceilings, "ceiling")
  BY <1>1, <1>4 DEF Pointers
<1>6. PlatsListed(M)
  <2> SUFFICES ASSUME M.error # "noMorePlats", NEW x \in Blocks, M.th[x].what = "plat", Live(M.th[x])
               PROVE  \E i \in DOMAIN M.plats : M.plats[i] = x
    BY DEF PlatsListed
  <2>1. x # b /\ M.th[x] = L.th[x]
    OBVIOUS
  <2>2. PICK i \in DOMAIN L.plats : L.plats[i] = x
    BY <2>1 DEF Pointers, PlatsListed
  <2> QED BY <2>1, <2>2 DEF Cleared
<1>7. Alone(M)
  <2> SUFFICES ASSUME NEW x \in Blocks, Moves(M.th[x]), M.th[x].sector \in Guarded
               PROVE  M.special[M.th[x].sector] = x
    BY DEF Alone
  <2>1. x # b /\ M.th[x] = L.th[x] /\ L.special[L.th[x].sector] = x
    BY <1>2 DEF Pointers, Alone
  <2>2. Moves(L.th[b]) => L.th[b].sector # L.th[x].sector
    BY <2>1 DEF Pointers, Alone
  <2> QED BY <1>1, <2>1, <2>2
<1>8. \A x \in Blocks : Moves(M.th[x]) => M.th[x].sector \in Sectors /\ M.th[x].what \in Kinds
  BY <1>2 DEF Pointers
<1> QED BY <1>3, <1>5, <1>6, <1>7, <1>8 DEF Pointers

-----------------------------------------------------------------------------
(* What the think functions do, step by step                               *)

(* A change that adds no thinker and frees none.                           *)
Changed(L, M) ==
  /\ M \in Levels /\ Pointers(M) /\ M.error = L.error
  /\ Linked(M) = Linked(L) /\ M.next = L.next /\ M.prev = L.prev

(* Pointers to a thinker are in a place of its own kind.                   *)
LEMMA OwnPlace ==
  ASSUME NEW L \in Levels, Pointers(L), NEW b \in Blocks
  PROVE  /\ ~(Moves(L.th[b]) /\ L.th[b].what = "plat") => Cleared(L.plats, L.plats, b)
         /\ ~(Moves(L.th[b]) /\ L.th[b].what = "ceiling") => Cleared(L.ceilings, L.ceilings, b)
         /\ \A s \in Sectors : L.special[s] = b => Moves(L.th[b]) /\ L.th[b].sector = s
<1>1. b # Null
  BY BlocksTyped DEF Cap
<1>2. ~(Moves(L.th[b]) /\ L.th[b].what = "plat") => \A i \in DOMAIN L.plats : L.plats[i] # b
  BY <1>1 DEF Pointers, ArrayOK
<1>3. ~(Moves(L.th[b]) /\ L.th[b].what = "ceiling") => \A i \in DOMAIN L.ceilings : L.ceilings[i] # b
  BY <1>1 DEF Pointers, ArrayOK
<1>4. \A s \in Sectors : L.special[s] = b => Moves(L.th[b]) /\ L.th[b].sector = s
  BY <1>1 DEF Pointers, SpecialOK
<1> QED BY <1>2, <1>3, <1>4 DEF Cleared

LEMMA TurnChanges ==
  ASSUME NEW L \in Levels, Pointers(L), NEW b \in Blocks, NEW w \in Ways
  PROVE  Changed(L, Turn(L, b, w)) /\ Turn(L, b, w).th[b] = [L.th[b] EXCEPT !.status = w]
<1> DEFINE t == [L.th[b] EXCEPT !.status = w]
           M == Turn(L, b, w)
<1>1. L.th \in [Blocks -> Thinkers] /\ L.th[b] \in Thinkers
  BY LevelFields
<1>2. /\ t \in Thinkers /\ t.what = L.th[b].what /\ t.sector = L.th[b].sector
      /\ t.function = L.th[b].function
  BY <1>1 DEF Thinkers
<1>3. M = [L EXCEPT !.th = [@ EXCEPT ![b] = t]]
  BY <1>1 DEF Turn, Levels
<1> HIDE DEF t, M
<1>4. /\ M \in Levels /\ M.th = [L.th EXCEPT ![b] = t] /\ M.next = L.next /\ M.prev = L.prev
      /\ M.special = L.special /\ M.plats = L.plats /\ M.ceilings = L.ceilings /\ M.error = L.error
  BY <1>2, <1>3 DEF Levels
<1>5. \A x \in Blocks : M.th[x] = IF x = b THEN t ELSE L.th[x]
  BY <1>1, <1>4
<1>6. \A x \in Blocks : /\ M.th[x].function = L.th[x].function
                        /\ M.th[x].what = L.th[x].what /\ M.th[x].sector = L.th[x].sector
  BY <1>2, <1>5
<1>7. Pointers(M)
  BY <1>4, <1>6, SamePointers DEF Live
<1>8. Linked(M) = Linked(L)
  BY <1>6 DEF Linked
<1> QED BY <1>4, <1>5, <1>7, <1>8 DEF Changed, M, t

Gone == [Unused EXCEPT !.function = "removed"]
LEMMA GoneTyped == Gone \in Thinkers /\ Gone.function = "removed" /\ ~Live(Gone) /\ Gone.what = "none"
BY BlocksTyped DEF Gone, Thinkers, Unused, Live

(* P_RemoveThinker, with what is cleared before it.                        *)
LEMMA RemovalChanges ==
  ASSUME NEW L \in Levels, Pointers(L), NEW b \in Linked(L), NEW M \in Levels,
         M.th = [L.th EXCEPT ![b] = Gone], M.next = L.next, M.prev = L.prev, M.error = L.error,
         Cleared(L.plats, M.plats, b), Cleared(L.ceilings, M.ceilings, b),
         \/ M.special = L.special /\ ~Moves(L.th[b])
         \/ Moves(L.th[b]) /\ M.special = [L.special EXCEPT ![L.th[b].sector] = Null]
  PROVE  Changed(L, M)
<1>1. b \in Blocks /\ b # Null
  BY BlocksTyped DEF Linked, Cap
<1>2. \A x \in Blocks : M.th[x] = IF x = b THEN Gone ELSE L.th[x]
  BY LevelFields
<1>3. ~Live(M.th[b])
  BY <1>1, <1>2, GoneTyped
<1>4. Linked(M) = Linked(L)
  BY <1>1, <1>2, GoneTyped DEF Linked
<1>5. ASSUME NEW s \in Sectors
      PROVE  /\ M.special[s] # b
             /\ \/ M.special[s] = L.special[s]
                \/ M.special[s] = Null /\ Moves(L.th[b]) /\ s = L.th[b].sector
  <2>1. L.special[s] = b => Moves(L.th[b]) /\ L.th[b].sector = s
    BY <1>1, OwnPlace
  <2>2. CASE M.special = L.special /\ ~Moves(L.th[b])
    BY <2>1, <2>2
  <2>3. CASE Moves(L.th[b]) /\ M.special = [L.special EXCEPT ![L.th[b].sector] = Null]
    <3>1. M.special[s] = IF s = L.th[b].sector THEN Null ELSE L.special[s]
      BY <2>3, LevelFields
    <3> QED BY <1>1, <2>1, <2>3, <3>1
  <2> QED BY <2>2, <2>3
<1>6. \A x \in Blocks : x # b => M.th[x] = L.th[x]
  BY <1>2
<1>7. Pointers(M)
  BY <1>1, <1>3, <1>5, <1>6, LosesPointers
<1> QED BY <1>4, <1>7 DEF Changed

(* A thinker that moves a sector is in the list, and so is a mobj.         *)
LEMMA MovesLinked ==
  ASSUME NEW L \in Levels, NEW b \in Blocks, Live(L.th[b])
  PROVE  b \in Linked(L)
BY DEF Live, Linked

LEMMA RemoveIs ==
  ASSUME NEW L \in Levels, NEW b \in Blocks
  PROVE  LET M == P_RemoveThinker(L, b) IN
         /\ M = [L EXCEPT !.th = [@ EXCEPT ![b] = Gone]]
         /\ M \in Levels /\ M.th = [L.th EXCEPT ![b] = Gone] /\ M.next = L.next /\ M.prev = L.prev
         /\ M.error = L.error /\ M.plats = L.plats /\ M.ceilings = L.ceilings
         /\ M.special = L.special
<1>1. P_RemoveThinker(L, b) = [L EXCEPT !.th = [@ EXCEPT ![b] = Gone]]
  BY DEF P_RemoveThinker, Gone
<1> QED BY <1>1, GoneTyped DEF Levels

LEMMA MobjRemoved ==
  ASSUME NEW L \in Levels, Pointers(L), NEW m \in Mobjs(L)
  PROVE  /\ Changed(L, P_RemoveThinker(L, m))
         /\ \A b \in Blocks : b # m => P_RemoveThinker(L, m).th[b] = L.th[b]
<1>1. m \in Blocks /\ L.th[m].what = "mobj" /\ Live(L.th[m]) /\ ~Moves(L.th[m])
  BY DEF Mobjs, Thinks, Live, Moves
<1>2. m \in Linked(L)
  BY <1>1, MovesLinked
<1>3. Cleared(L.plats, L.plats, m) /\ Cleared(L.ceilings, L.ceilings, m)
  BY <1>1, OwnPlace
<1> DEFINE M == P_RemoveThinker(L, m)
<1>4. /\ M \in Levels /\ M.th = [L.th EXCEPT ![m] = Gone] /\ M.next = L.next /\ M.prev = L.prev
      /\ M.error = L.error /\ M.plats = L.plats /\ M.ceilings = L.ceilings
      /\ M.special = L.special
  BY <1>1, RemoveIs
<1> HIDE DEF M
<1>5. Changed(L, M)
  BY <1>1, <1>2, <1>3, <1>4, RemovalChanges
<1>6. \A b \in Blocks : b # m => M.th[b] = L.th[b]
  BY <1>4, LevelFields
<1> QED BY <1>5, <1>6 DEF M

(* The three ways in which a mover ends.                                   *)
LEMMA DoneChanges ==
  ASSUME NEW L \in Levels, Pointers(L), NEW b \in Blocks, Moves(L.th[b]),
         L.th[b].what \in {"floor", "door"}
  PROVE  Changed(L, Done(L, b))
<1> DEFINE R == P_RemoveThinker(L, b)
           M == Done(L, b)
<1>1. /\ R \in Levels /\ R.th = [L.th EXCEPT ![b] = Gone] /\ R.next = L.next /\ R.prev = L.prev
      /\ R.error = L.error /\ R.plats = L.plats /\ R.ceilings = L.ceilings
      /\ R.special = L.special
  BY RemoveIs
<1>2. M = [R EXCEPT !.special = [@ EXCEPT ![L.th[b].sector] = Null]] /\ L.th[b].sector \in Sectors
  BY DEF Done, Pointers
<1> HIDE DEF R, M
<1>3. /\ M \in Levels /\ M.th = R.th /\ M.next = R.next /\ M.prev = R.prev /\ M.error = R.error
      /\ M.plats = R.plats /\ M.ceilings = R.ceilings
      /\ M.special = [R.special EXCEPT ![L.th[b].sector] = Null]
  BY <1>1, <1>2 DEF Levels, Nodes, Cap
<1>4. Cleared(L.plats, L.plats, b) /\ Cleared(L.ceilings, L.ceilings, b)
  BY OwnPlace
<1>5. b \in Linked(L)
  BY MovesLinked DEF Moves
<1>6. Changed(L, M)
  BY <1>1, <1>3, <1>4, <1>5, RemovalChanges
<1> QED BY <1>6 DEF M

LEMMA NotZero == \A n \in Nat : 0 \notin 1 .. n
OBVIOUS

LEMMA PlatRemoved ==
  ASSUME NEW L \in Levels, Pointers(L), L.error # "noMorePlats",
         NEW b \in Blocks, Moves(L.th[b]), L.th[b].what = "plat"
  PROVE  Changed(L, P_RemoveActivePlat(L, b))
<1> DEFINE R == P_RemoveThinker(L, b)
           M == P_RemoveActivePlat(L, b)
           i == SlotOf(L.plats, b)
<1>1. /\ R \in Levels /\ R.th = [L.th EXCEPT ![b] = Gone] /\ R.next = L.next /\ R.prev = L.prev
      /\ R.error = L.error /\ R.plats = L.plats /\ R.ceilings = L.ceilings
      /\ R.special = L.special
  BY RemoveIs
<1>2. \E j \in DOMAIN L.plats : L.plats[j] = b
  BY DEF Pointers, PlatsListed, Moves
<1>3. L.plats \in [1 .. MaxPlats -> Nodes] /\ MaxPlats \in Nat /\ DOMAIN L.plats = 1 .. MaxPlats
  BY LevelFields, BlocksTyped
<1>4. \/ i = 0 /\ \A j \in 1 .. MaxPlats : L.plats[j] # b
      \/ i \in 1 .. MaxPlats /\ L.plats[i] = b
  BY <1>3, SlotFound
<1> HIDE DEF i
<1>5. i \in 1 .. MaxPlats /\ L.plats[i] = b
  BY <1>2, <1>3, <1>4
<1>6. i # 0
  BY <1>3, <1>5, NotZero
<1>7. M = [R EXCEPT !.special = [@ EXCEPT ![L.th[b].sector] = Null], !.plats = [@ EXCEPT ![i] = Null]]
  BY <1>6 DEF P_RemoveActivePlat, i
<1>8. L.th[b].sector \in Sectors
  BY DEF Pointers
<1> HIDE DEF R, M
<1>9. /\ M \in Levels /\ M.th = R.th /\ M.next = R.next /\ M.prev = R.prev /\ M.error = R.error
      /\ M.plats = [R.plats EXCEPT ![i] = Null] /\ M.ceilings = R.ceilings
      /\ M.special = [R.special EXCEPT ![L.th[b].sector] = Null]
  BY <1>1, <1>5, <1>7, <1>8 DEF Levels, Nodes, Cap
<1>10. b # Null /\ Cleared(L.ceilings, L.ceilings, b)
  BY OwnPlace, BlocksTyped DEF Cap
<1>11. Cleared(L.plats, M.plats, b)
  <2>1. \A j \in 1 .. MaxPlats : L.plats[j] = b => j = i
    BY <1>3, <1>5, <1>10 DEF Pointers, ArrayOK
  <2> QED BY <1>1, <1>3, <1>5, <1>9, <2>1 DEF Cleared
<1>12. b \in Linked(L)
  BY MovesLinked DEF Moves
<1>13. Changed(L, M)
  BY <1>1, <1>9, <1>10, <1>11, <1>12, RemovalChanges
<1> QED BY <1>13 DEF M

LEMMA CeilingRemoved ==
  ASSUME NEW L \in Levels, Pointers(L), NEW b \in Blocks, Moves(L.th[b]), L.th[b].what = "ceiling"
  PROVE  Changed(L, P_RemoveActiveCeiling(L, b))
<1> DEFINE R == P_RemoveThinker(L, b)
           M == P_RemoveActiveCeiling(L, b)
           i == SlotOf(L.ceilings, b)
<1>1. /\ R \in Levels /\ R.th = [L.th EXCEPT ![b] = Gone] /\ R.next = L.next /\ R.prev = L.prev
      /\ R.error = L.error /\ R.plats = L.plats /\ R.ceilings = L.ceilings
      /\ R.special = L.special
  BY RemoveIs
<1>2. CASE i = 0
  <2>1. M = L
    BY <1>2 DEF P_RemoveActiveCeiling
  <2>2. Changed(L, L)
    BY DEF Changed
  <2> QED BY <2>1, <2>2
<1>3. L.ceilings \in [1 .. MaxCeilings -> Nodes] /\ MaxCeilings \in Nat
      /\ DOMAIN L.ceilings = 1 .. MaxCeilings
  BY LevelFields, BlocksTyped
<1>4. CASE i # 0
  <2>1. i \in 1 .. MaxCeilings /\ L.ceilings[i] = b
    BY <1>3, <1>4, SlotFound
  <2>5. M = [R EXCEPT !.special = [@ EXCEPT ![L.th[b].sector] = Null], !.ceilings = [@ EXCEPT ![i] = Null]]
    BY <1>4 DEF P_RemoveActiveCeiling
  <2>6. L.th[b].sector \in Sectors
    BY DEF Pointers
  <2> SUFFICES Changed(L, M)
    OBVIOUS
  <2> HIDE DEF R, M, i
  <2>7. /\ M \in Levels /\ M.th = R.th /\ M.next = R.next /\ M.prev = R.prev /\ M.error = R.error
        /\ M.ceilings = [R.ceilings EXCEPT ![i] = Null] /\ M.plats = R.plats
        /\ M.special = [R.special EXCEPT ![L.th[b].sector] = Null]
    BY <1>1, <2>1, <2>5, <2>6 DEF Levels, Nodes, Cap
  <2>8. b # Null /\ Cleared(L.plats, L.plats, b)
    BY OwnPlace, BlocksTyped DEF Cap
  <2>9. Cleared(L.ceilings, M.ceilings, b)
    <3>1. \A j \in 1 .. MaxCeilings : L.ceilings[j] = b => j = i
      BY <1>3, <2>1, <2>8 DEF Pointers, ArrayOK
    <3> QED BY <1>1, <1>3, <2>1, <2>7, <3>1 DEF Cleared
  <2>10. b \in Linked(L)
    BY MovesLinked DEF Moves
  <2> QED BY <1>1, <2>7, <2>8, <2>9, <2>10, RemovalChanges
<1> QED BY <1>2, <1>4

(* A mover is stopped where it is, and started again.                      *)
LEMMA Rearranged ==
  ASSUME NEW L \in Levels, Pointers(L), NEW th \in [Blocks -> Thinkers],
         \A b \in Blocks : \/ th[b] = L.th[b]
                           \/ /\ Live(th[b]) /\ Live(L.th[b])
                              /\ th[b].what = L.th[b].what /\ th[b].sector = L.th[b].sector
  PROVE  Changed(L, [L EXCEPT !.th = th])
<1> DEFINE M == [L EXCEPT !.th = th]
<1>1. /\ M \in Levels /\ M.th = th /\ M.next = L.next /\ M.prev = L.prev /\ M.error = L.error
      /\ M.special = L.special /\ M.plats = L.plats /\ M.ceilings = L.ceilings
  BY DEF Levels
<1> HIDE DEF M
<1>2. \A b \in Blocks : /\ Live(M.th[b]) = Live(L.th[b])
                        /\ M.th[b].what = L.th[b].what /\ M.th[b].sector = L.th[b].sector
  BY <1>1 DEF Live
<1>3. Pointers(M)
  BY <1>1, <1>2, SamePointers
<1>4. Linked(M) = Linked(L)
  BY <1>1 DEF Live, Linked
<1> QED BY <1>1, <1>3, <1>4 DEF Changed, M

LEMMA ListedLive ==
  ASSUME NEW L \in Levels, Pointers(L), NEW array \in {L.plats, L.ceilings}, NEW tag,
         NEW b \in Of(L, array, tag)
  PROVE  b \in Blocks /\ Live(L.th[b])
<1>1. /\ \E n \in Nat : array \in [1 .. n -> Nodes]
      /\ \A i \in DOMAIN array : array[i] # Null => Moves(L.th[array[i]])
  BY LevelFields, BlocksTyped DEF Pointers, ArrayOK
<1>2. PICK n \in Nat : array \in [1 .. n -> Nodes]
  BY <1>1
<1>3. b \in Blocks /\ b # Null /\ SlotOf(array, b) # 0
  BY BlocksTyped DEF Of, Cap
<1>4. SlotOf(array, b) \in DOMAIN array /\ array[SlotOf(array, b)] = b
  BY <1>2, <1>3, SlotFound
<1> QED BY <1>1, <1>3, <1>4 DEF Moves

LEMMA ResumedChanges ==
  ASSUME NEW L \in Levels, Pointers(L), NEW array \in {L.plats, L.ceilings}, NEW tag
  PROVE  Changed(L, Resumed(L, array, tag))
<1> DEFINE New(b) == IF b \in Of(L, array, tag) /\ L.th[b].status = "stasis"
                     THEN [L.th[b] EXCEPT !.status = L.th[b].old, !.function = "think"] ELSE L.th[b]
           th == [b \in Blocks |-> New(b)]
<1>1. Resumed(L, array, tag) = [L EXCEPT !.th = th]
  BY DEF Resumed, Levels
<1>2. \A b \in Blocks : L.th[b] \in Thinkers
  BY LevelFields
<1>3. ASSUME NEW b \in Blocks
      PROVE  /\ New(b) \in Thinkers
             /\ \/ New(b) = L.th[b]
                \/ /\ Live(New(b)) /\ Live(L.th[b])
                   /\ New(b).what = L.th[b].what /\ New(b).sector = L.th[b].sector
  <2>1. CASE b \in Of(L, array, tag) /\ L.th[b].status = "stasis"
    <3>1. New(b) = [L.th[b] EXCEPT !.status = L.th[b].old, !.function = "think"]
      BY <2>1
    <3>2. Live(L.th[b])
      BY <2>1, ListedLive
    <3> HIDE DEF New
    <3>3. New(b) \in Thinkers /\ New(b).function = "think" /\ New(b).what = L.th[b].what
          /\ New(b).sector = L.th[b].sector
      BY <1>2, <3>1 DEF Thinkers
    <3> QED BY <3>2, <3>3 DEF Live
  <2>2. CASE ~(b \in Of(L, array, tag) /\ L.th[b].status = "stasis")
    BY <1>2, <2>2
  <2> QED BY <2>1, <2>2
<1> HIDE DEF New
<1>4. th \in [Blocks -> Thinkers] /\ \A b \in Blocks : th[b] = New(b)
  BY <1>3
<1> HIDE DEF th
<1> QED BY <1>1, <1>3, <1>4, Rearranged

LEMMA StoppedChanges ==
  ASSUME NEW L \in Levels, Pointers(L), NEW array \in {L.plats, L.ceilings}, NEW tag
  PROVE  Changed(L, Stopped(L, array, tag))
<1> DEFINE New(b) == IF b \in Of(L, array, tag) /\ L.th[b].status # "stasis"
                     THEN [L.th[b] EXCEPT !.old = L.th[b].status, !.status = "stasis", !.function = "stopped"]
                     ELSE L.th[b]
           th == [b \in Blocks |-> New(b)]
<1>1. Stopped(L, array, tag) = [L EXCEPT !.th = th]
  BY DEF Stopped, Levels
<1>2. \A b \in Blocks : L.th[b] \in Thinkers
  BY LevelFields
<1>3. ASSUME NEW b \in Blocks
      PROVE  /\ New(b) \in Thinkers
             /\ \/ New(b) = L.th[b]
                \/ /\ Live(New(b)) /\ Live(L.th[b])
                   /\ New(b).what = L.th[b].what /\ New(b).sector = L.th[b].sector
  <2>1. CASE b \in Of(L, array, tag) /\ L.th[b].status # "stasis"
    <3>1. New(b) = [L.th[b] EXCEPT !.old = L.th[b].status, !.status = "stasis", !.function = "stopped"]
      BY <2>1
    <3>2. Live(L.th[b])
      BY <2>1, ListedLive
    <3> HIDE DEF New
    <3>3. New(b) \in Thinkers /\ New(b).function = "stopped" /\ New(b).what = L.th[b].what
          /\ New(b).sector = L.th[b].sector
      BY <1>2, <3>1 DEF Thinkers, Ways
    <3> QED BY <3>2, <3>3 DEF Live
  <2>2. CASE ~(b \in Of(L, array, tag) /\ L.th[b].status # "stasis")
    BY <1>2, <2>2
  <2> QED BY <2>1, <2>2
<1> HIDE DEF New
<1>4. th \in [Blocks -> Thinkers] /\ \A b \in Blocks : th[b] = New(b)
  BY <1>3
<1> HIDE DEF th
<1> QED BY <1>1, <1>3, <1>4, Rearranged

LEMMA ChangedTwice ==
  ASSUME NEW L, NEW M, NEW N, Changed(L, M), Changed(M, N)
  PROVE  Changed(L, N)
BY DEF Changed

LEMMA PlatThinks ==
  ASSUME NEW L \in Levels, Pointers(L), L.error # "noMorePlats",
         NEW b \in Blocks, Moves(L.th[b]), L.th[b].what = "plat", NEW N \in T_PlatRaise(L, b)
  PROVE  Changed(L, N)
<1>1. Changed(L, L)
  BY DEF Changed
<1>2. \A w \in {"up", "down", "waiting"} : Changed(L, Turn(L, b, w))
  BY TurnChanges DEF Ways
<1>3. Changed(L, P_RemoveActivePlat(Turn(L, b, "waiting"), b))
  <2> DEFINE M == Turn(L, b, "waiting")
  <2>1. Changed(L, M) /\ M.th[b] = [L.th[b] EXCEPT !.status = "waiting"]
    BY TurnChanges DEF Ways
  <2>2. L.th[b] \in Thinkers
    BY LevelFields
  <2> HIDE DEF M
  <2>3. Moves(M.th[b]) /\ M.th[b].what = "plat"
    BY <2>1, <2>2 DEF Moves, Live, Thinkers
  <2>4. Changed(M, P_RemoveActivePlat(M, b))
    BY <2>1, <2>3, PlatRemoved DEF Changed
  <2> QED BY <2>1, <2>4, ChangedTwice DEF M
<1> QED BY <1>1, <1>2, <1>3 DEF T_PlatRaise

LEMMA CeilingThinks ==
  ASSUME NEW L \in Levels, Pointers(L),
         NEW b \in Blocks, Moves(L.th[b]), L.th[b].what = "ceiling", NEW N \in T_MoveCeiling(L, b)
  PROVE  Changed(L, N)
<1>1. Changed(L, L)
  BY DEF Changed
<1>2. \A w \in {"up", "down"} : Changed(L, Turn(L, b, w))
  BY TurnChanges DEF Ways
<1>3. Changed(L, P_RemoveActiveCeiling(L, b))
  BY CeilingRemoved
<1> QED BY <1>1, <1>2, <1>3 DEF T_MoveCeiling

LEMMA DoorThinks ==
  ASSUME NEW L \in Levels, Pointers(L),
         NEW b \in Blocks, Moves(L.th[b]), L.th[b].what = "door", NEW N \in T_VerticalDoor(L, b)
  PROVE  Changed(L, N)
<1>1. Changed(L, L)
  BY DEF Changed
<1>2. \A w \in {"up", "down", "waiting"} : Changed(L, Turn(L, b, w))
  BY TurnChanges DEF Ways
<1>3. Changed(L, Done(L, b))
  BY DoneChanges
<1> QED BY <1>1, <1>2, <1>3 DEF T_VerticalDoor

(* Whatever a mover does in its turn, no thinker leaves the list, and no   *)
(* pointer is left to one that ends.                                       *)
LEMMA ThoughtChanges ==
  ASSUME NEW L \in Levels, Pointers(L), L.error # "noMorePlats",
         NEW b \in Blocks, Moves(L.th[b]), NEW N \in Thought(L, b)
  PROVE  Changed(L, N)
<1>1. L.th[b].what \in Kinds
  BY DEF Pointers
<1>2. CASE L.th[b].what = "plat"
  BY <1>2, PlatThinks DEF Thought
<1>3. CASE L.th[b].what = "ceiling"
  BY <1>3, CeilingThinks DEF Thought
<1>4. CASE L.th[b].what = "floor"
  <2>1. Changed(L, L) /\ Changed(L, Done(L, b))
    BY <1>4, DoneChanges DEF Changed
  <2> QED BY <1>4, <2>1 DEF Thought, T_MoveFloor
<1>5. CASE L.th[b].what = "door"
  BY <1>5, DoorThinks DEF Thought
<1> QED BY <1>1, <1>2, <1>3, <1>4, <1>5 DEF Kinds

-----------------------------------------------------------------------------
(* The two kinds of steps on a whole level                                 *)

LEMMA ChangedSound ==
  ASSUME NEW L, NEW M, NEW p, NEW c, NEW n, Sound(L, p, c, n), Changed(L, M)
  PROVE  Sound(M, p, c, n)
<1>1. PICK r \in [Nodes -> Nat] : Chain(L, r) /\ Turns(L, r, p, c, n)
  BY DEF Sound
<1>2. Chain(M, r) /\ Turns(M, r, p, c, n)
  BY <1>1, SameList DEF Changed
<1> QED BY <1>2 DEF Sound, Changed

LEMMA StartedSound ==
  ASSUME NEW L, NEW p, NEW c, NEW n, Sound(L, p, c, n), p = "idle" \/ c # Cap,
         NEW t, Proper(t), Fresh(L, t)
  PROVE  Sound(Started(L, t), p, c, n)
<1> DEFINE M == Started(L, t)
<1>1. PICK r \in [Nodes -> Nat] : Chain(L, r) /\ Turns(L, r, p, c, n)
  BY DEF Sound
<1>2. L \in Levels /\ Pointers(L)
  BY DEF Sound
<1>3. CASE M = L
  BY <1>3
<1>4. CASE L.error = "none" /\ M = [L EXCEPT !.error = "noMemory"]
  <2> SUFFICES Sound(M, p, c, n)
    OBVIOUS
  <2> HIDE DEF M
  <2>1. /\ M \in Levels /\ M.th = L.th /\ M.next = L.next /\ M.prev = L.prev
        /\ M.special = L.special /\ M.plats = L.plats /\ M.ceilings = L.ceilings
        /\ M.error = "noMemory" /\ L.error = "none"
    BY <1>2, <1>4 DEF Levels, Errors
  <2>2. Pointers(M)
    <3>1. SpecialOK(M) /\ Alone(M)
      BY <1>2, <2>1 DEF Pointers, SpecialOK, Alone
    <3>2. ArrayOK(M, M.plats, "plat") /\ ArrayOK(M, M.ceilings, "ceiling")
      <4>1. \A array, what : ArrayOK(L, array, what) => ArrayOK(M, array, what)
        BY <2>1 DEF ArrayOK
      <4> QED BY <1>2, <2>1, <4>1 DEF Pointers
    <3>3. PlatsListed(M)
      BY <1>2, <2>1 DEF Pointers, PlatsListed
    <3> QED BY <1>2, <2>1, <3>1, <3>2, <3>3 DEF Pointers
  <2>3. Linked(M) = Linked(L)
    BY <2>1 DEF Linked
  <2>4. Chain(M, r) /\ Turns(M, r, p, c, n)
    BY <1>1, <2>1, <2>3, SameList
  <2> QED BY <2>1, <2>2, <2>4 DEF Sound
<1>5. CASE \E b \in Blocks : Begun(L, M, b, t)
  <2> SUFFICES Sound(M, p, c, n)
    OBVIOUS
  <2> HIDE DEF M
  <2>1. PICK b \in Blocks : Begun(L, M, b, t)
    BY <1>5
  <2>2. Pointers(M) /\ M \in Levels
    BY <1>2, <2>1, StartsPointed DEF Begun
  <2>3. AddedRank(L, r, b) \in [Nodes -> Nat] /\ Chain(M, AddedRank(L, r, b))
    BY <1>1, <1>2, <2>1, AddsLast
  <2>4. Turns(M, AddedRank(L, r, b), p, c, n)
    BY <1>1, <1>2, <2>1, AddsUnturned
  <2> QED BY <2>2, <2>3, <2>4 DEF Sound
<1> QED BY <1>2, <1>3, <1>4, <1>5, StartedIs

(* What else is told of a level in which a thinker was started.            *)
Grown(L, M, t) ==
  /\ M \in Levels
  /\ M.error \in {L.error, "noMemory", "noMorePlats"}
  /\ t.what # "plat" => M.error \in {L.error, "noMemory"}
  /\ \A s \in Sectors : t.what # "mobj" /\ s # t.sector => M.special[s] = L.special[s]
  /\ \A x \in Blocks : M.th[x] = L.th[x] \/ (~Live(L.th[x]) /\ M.th[x] = t)
LEMMA StartedLevel ==
  ASSUME NEW L \in Levels, NEW t, Proper(t)
  PROVE  Grown(L, Started(L, t), t)
<1> DEFINE M == Started(L, t)
<1>1. CASE M = L
  BY <1>1 DEF Grown
<1>2. CASE L.error = "none" /\ M = [L EXCEPT !.error = "noMemory"]
  <2>1. /\ M \in Levels /\ M.th = L.th /\ M.special = L.special /\ M.error = "noMemory"
    BY <1>2 DEF Levels, Errors
  <2> QED BY <2>1 DEF Grown
<1>3. CASE \E b \in Blocks : Begun(L, M, b, t)
  <2> HIDE DEF M
  <2>1. PICK b \in Blocks : Begun(L, M, b, t)
    BY <1>3
  <2>2. M \in Levels /\ M.error \in {L.error, "noMorePlats"} /\ (t.what # "plat" => M.error = L.error)
    BY <2>1 DEF Begun
  <2>3. \A x \in Blocks : M.th[x] = IF x = b THEN t ELSE L.th[x]
    BY <2>1, LevelFields DEF Begun
  <2>4. ~Live(L.th[b])
    BY <2>1 DEF Begun, Live
  <2>5. \A s \in Sectors : t.what # "mobj" /\ s # t.sector => M.special[s] = L.special[s]
    <3>1. M.special = IF t.what = "mobj" THEN L.special ELSE [L.special EXCEPT ![t.sector] = b]
      BY <2>1 DEF Begun
    <3>2. L.special \in [Sectors -> Nodes]
      BY LevelFields
    <3> QED BY <3>1, <3>2
  <2> QED BY <2>2, <2>3, <2>4, <2>5 DEF M, Grown
<1> QED BY <1>1, <1>2, <1>3, StartedIs

-----------------------------------------------------------------------------
(* The loops                                                               *)

LEMMA MoverProper ==
  ASSUME NEW what \in Kinds, NEW s \in Sectors, NEW type \in Types, NEW w \in Ways
  PROVE  /\ Proper(Mover(what, s, type, w)) /\ Mover(what, s, type, w).sector = s
         /\ Mover(what, s, type, w).what = what /\ Mover(what, s, type, w) # Unused
<1>1. Mover(what, s, type, w) =
        [function |-> "think", what |-> what, sector |-> s, type |-> type, status |-> w, old |-> "none"]
  BY DEF Mover
<1> DEFINE t == Mover(what, s, type, w)
<1>2. what # "mobj"
  BY DEF Kinds
<1>3. t \in Thinkers
  BY <1>1 DEF Thinkers, Ways
<1>4. t.function = "think" /\ t.what = what /\ t.sector = s
  BY <1>1
<1>5. Unused.function = "none"
  BY DEF Unused
<1> HIDE DEF t
<1>6. Proper(t) /\ t.sector = s /\ t.what = what /\ t # Unused
  BY <1>2, <1>3, <1>4, <1>5 DEF Proper, Live
<1> QED BY <1>6 DEF t

LEMMA ItemProper == Proper(Item) /\ Item.what = "mobj" /\ ~Moves(Item) /\ Item # Unused
<1>1. Item = [function |-> "think", what |-> "mobj", sector |-> Null, type |-> "none",
              status |-> "none", old |-> "none"]
  BY DEF Item, Mover
<1>2. Item \in Thinkers
  BY <1>1 DEF Thinkers, Ways, Types
<1>3. Item.function = "think" /\ Item.what = "mobj" /\ Unused.function = "none"
  BY <1>1 DEF Unused
<1> QED BY <1>2, <1>3 DEF Proper, Live, Moves

(* In a sector without specialdata a mover can be started.                 *)
LEMMA IdleFresh ==
  ASSUME NEW L \in Levels, Pointers(L), NEW t, t.sector \in Guarded => Idle(L, t.sector)
  PROVE  Fresh(L, t)
<1>1. Null \notin Blocks
  BY BlocksTyped DEF Cap
<1> QED BY <1>1 DEF Idle, Fresh, Pointers, Alone

LEMMA StartedElsewhere ==
  ASSUME NEW L \in Levels, NEW t, Proper(t), t.what # "mobj", NEW s \in Sectors, s # t.sector
  PROVE  Started(L, t).special[s] = L.special[s]
<1>1. Grown(L, Started(L, t), t)
  BY StartedLevel
<1> QED BY <1>1 DEF Grown

LEMMA StartEachSound ==
  ASSUME NEW L, NEW p, NEW c, NEW n, Sound(L, p, c, n), p = "idle" \/ c # Cap,
         NEW tag, NEW what \in Kinds, NEW type \in Types, NEW way \in [Sectors -> Ways]
  PROVE  Sound(StartEach(L, tag, what, type, way), p, c, n)
<1> DEFINE S == {M \in Levels : Sound(M, p, c, n)}
           Op(M, s) == IF Tag[s] = tag /\ Idle(M, s) THEN Started(M, Mover(what, s, type, way[s])) ELSE M
           F == [x \in (1 .. NumSectors) \X S |-> Op(x[2], x[1])]
           after[i \in 0 .. NumSectors] == IF i = 0 THEN L ELSE Op(after[i - 1], i)
<1>1. ASSUME NEW M \in S, NEW s \in 1 .. NumSectors PROVE Op(M, s) \in S
  <2>1. CASE ~(Tag[s] = tag /\ Idle(M, s))
    BY <2>1
  <2>2. CASE Tag[s] = tag /\ Idle(M, s)
    <3> DEFINE t == Mover(what, s, type, way[s])
    <3>1. s \in Sectors /\ way[s] \in Ways
      BY DEF Sectors
    <3>2. Proper(t) /\ t.sector = s
      BY <3>1, MoverProper
    <3> HIDE DEF t
    <3>3. Fresh(M, t)
      BY <2>2, <3>2, IdleFresh DEF Sound
    <3>4. Sound(Started(M, t), p, c, n)
      BY <3>2, <3>3, StartedSound
    <3>5. Op(M, s) = Started(M, t)
      BY <2>2 DEF t
    <3> QED BY <3>4, <3>5 DEF Sound
  <2> QED BY <2>1, <2>2
<1> HIDE DEF Op
<1>2. F \in [(1 .. NumSectors) \X S -> S]
  BY <1>1
<1>3. L \in S /\ NumSectors \in Nat
  BY MoverConstants DEF Sound
<1>4. \A M \in S, i \in 1 .. NumSectors : F[<<i, M>>] = Op(M, i)
  OBVIOUS
<1> HIDE DEF S, F
<1>5. PICK g \in [0 .. NumSectors -> S] : IsRun(g, L, F, NumSectors)
  BY <1>2, <1>3, Recursion
<1>6. \A i \in 0 .. NumSectors : g[i] = IF i = 0 THEN L ELSE Op(g[i - 1], i)
  <2> TAKE i \in 0 .. NumSectors
  <2>1. CASE i = 0
    BY <1>5, <2>1 DEF IsRun
  <2>2. CASE i \in 1 .. NumSectors
    <3>1. i - 1 \in 0 .. NumSectors /\ g[i - 1] \in S
      BY <1>3, <2>2
    <3>2. g[i] = F[<<i, g[i - 1]>>]
      BY <1>3, <1>5, <2>2 DEF IsRun
    <3> QED BY <1>3, <1>4, <2>2, <3>1, <3>2
  <2> QED BY <1>3, <2>1, <2>2
<1>7. g = [i \in 0 .. NumSectors |-> IF i = 0 THEN L ELSE Op(g[i - 1], i)]
  BY <1>6
<1>8. after = [i \in 0 .. NumSectors |-> IF i = 0 THEN L ELSE Op(after[i - 1], i)]
  BY <1>7
<1> HIDE DEF after
<1>9. after[0] \in S /\ \A i \in 1 .. NumSectors : after[i - 1] \in S => after[i] \in S
  BY <1>1, <1>3, <1>8
<1>10. after[NumSectors] \in S
  BY <1>3, <1>9, StaysIn
<1>11. StartEach(L, tag, what, type, way) = after[NumSectors]
  BY DEF StartEach, Repeated, after, Op
<1> QED BY <1>10, <1>11 DEF S

(* The ring of a donut may have two movers, and the pillar has none yet.   *)
LEMMA DonutSound ==
  ASSUME NEW L, NEW p, NEW c, NEW n, Sound(L, p, c, n), p = "idle" \/ c # Cap, NEW tag
  PROVE  Sound(EV_DoDonut(L, tag), p, c, n)
<1> DEFINE S == {M \in Levels : Sound(M, p, c, n)}
           Stops(M, s) == \/ Tag[s] # tag \/ ~Idle(M, s)
                          \/ \E r \in 1 .. s : Tag[r] = tag /\ Idle(M, r) /\ Ring[r] = r
           Op(M, s) == IF Stops(M, s) THEN M
                       ELSE Started(Started(M, Mover("floor", Ring[s], "donutRaise", "up")),
                                    Mover("floor", s, "lowerFloor", "down"))
           F == [x \in (1 .. NumSectors) \X S |-> Op(x[2], x[1])]
           after[i \in 0 .. NumSectors] == IF i = 0 THEN L ELSE Op(after[i - 1], i)
<1>0. NumSectors \in Nat /\ Ring \in [Sectors -> Sectors]
  BY MoverConstants
<1>1. ASSUME NEW M \in S, NEW s \in 1 .. NumSectors PROVE Op(M, s) \in S
  <2>1. CASE Stops(M, s)
    BY <2>1
  <2>2. CASE ~Stops(M, s)
    <3> DEFINE ring == Mover("floor", Ring[s], "donutRaise", "up")
               pillar == Mover("floor", s, "lowerFloor", "down")
               N == Started(M, ring)
    <3>1. /\ s \in Sectors /\ Ring[s] \in Sectors /\ s \in 1 .. s
      BY <1>0 DEF Sectors
    <3>2. Tag[s] = tag /\ Idle(M, s) /\ Ring[s] # s
      BY <2>2, <3>1
    <3>3. Ring[s] \notin Guarded
      BY <3>1, <3>2 DEF Guarded
    <3>4. /\ Proper(ring) /\ ring.sector = Ring[s] /\ ring.what = "floor"
          /\ Proper(pillar) /\ pillar.sector = s
      <4>1. /\ "floor" \in Kinds /\ "donutRaise" \in Types /\ "lowerFloor" \in Types
            /\ "up" \in Ways /\ "down" \in Ways
        BY DEF Kinds, Types, Ways
      <4>2. Proper(ring) /\ ring.sector = Ring[s] /\ ring.what = "floor"
        <5>1. \A x \in Sectors : /\ Proper(Mover("floor", x, "donutRaise", "up"))
                                 /\ Mover("floor", x, "donutRaise", "up").sector = x
                                 /\ Mover("floor", x, "donutRaise", "up").what = "floor"
          BY <4>1, MoverProper
        <5> QED BY <3>1, <5>1
      <4>3. Proper(pillar) /\ pillar.sector = s
        BY <3>1, <4>1, MoverProper
      <4> QED BY <4>2, <4>3
    <3>5. Op(M, s) = Started(N, pillar)
      BY <2>2
    <3> HIDE DEF ring, pillar
    <3>6. Sound(N, p, c, n)
      <4>1. Fresh(M, ring)
        BY <3>3, <3>4 DEF Fresh
      <4> QED BY <3>4, <4>1, StartedSound
    <3>7. Idle(N, s)
      <4>1. N.special[s] = M.special[s]
        <5>1. M \in Levels /\ Kinds \cap {"mobj"} = {}
          BY DEF Kinds
        <5> QED BY <3>1, <3>2, <3>4, <5>1, StartedElsewhere
      <4> QED BY <3>2, <4>1 DEF Idle
    <3> HIDE DEF N
    <3>8. Fresh(N, pillar)
      BY <3>4, <3>6, <3>7, IdleFresh DEF Sound
    <3>9. Sound(Started(N, pillar), p, c, n)
      BY <3>4, <3>6, <3>8, StartedSound
    <3> QED BY <3>5, <3>9 DEF Sound
  <2> QED BY <2>1, <2>2
<1> HIDE DEF Op
<1>2. F \in [(1 .. NumSectors) \X S -> S]
  BY <1>1
<1>3. L \in S
  BY DEF Sound
<1>4. \A M \in S, i \in 1 .. NumSectors : F[<<i, M>>] = Op(M, i)
  OBVIOUS
<1> HIDE DEF S, F
<1>5. PICK g \in [0 .. NumSectors -> S] : IsRun(g, L, F, NumSectors)
  BY <1>0, <1>2, <1>3, Recursion
<1>6. \A i \in 0 .. NumSectors : g[i] = IF i = 0 THEN L ELSE Op(g[i - 1], i)
  <2> TAKE i \in 0 .. NumSectors
  <2>1. CASE i = 0
    BY <1>5, <2>1 DEF IsRun
  <2>2. CASE i \in 1 .. NumSectors
    <3>1. i - 1 \in 0 .. NumSectors /\ g[i - 1] \in S
      BY <1>0, <2>2
    <3>2. g[i] = F[<<i, g[i - 1]>>]
      BY <1>0, <1>5, <2>2 DEF IsRun
    <3> QED BY <1>0, <1>4, <2>2, <3>1, <3>2
  <2> QED BY <1>0, <2>1, <2>2
<1>7. g = [i \in 0 .. NumSectors |-> IF i = 0 THEN L ELSE Op(g[i - 1], i)]
  BY <1>6
<1>8. after = [i \in 0 .. NumSectors |-> IF i = 0 THEN L ELSE Op(after[i - 1], i)]
  BY <1>7
<1> HIDE DEF after
<1>9. after[0] \in S /\ \A i \in 1 .. NumSectors : after[i - 1] \in S => after[i] \in S
  BY <1>0, <1>1, <1>3, <1>8
<1>10. after[NumSectors] \in S
  BY <1>0, <1>9, StaysIn
<1>11. EV_DoDonut(L, tag) = after[NumSectors]
  BY DEF EV_DoDonut, Repeated, after, Op
<1> QED BY <1>10, <1>11 DEF S

(* Thinkers that are added one after the other may not be two movers of    *)
(* one sector, nor find one there.                                         *)
Clash(t, u) == t.what # "mobj" /\ u.what # "mobj" /\ t.sector = u.sector /\ t.sector \in Guarded
Addable(L, ts, k) ==
  /\ \A i \in 1 .. k : ts[i] # Unused => Proper(ts[i]) /\ Fresh(L, ts[i])
  /\ \A i, j \in 1 .. k : i # j /\ ts[i] # Unused /\ ts[j] # Unused => ~Clash(ts[i], ts[j])
Added(L, M, ts, i) ==
  /\ \A x \in Blocks : M.th[x] = L.th[x] \/ \E j \in 1 .. i : ts[j] # Unused /\ M.th[x] = ts[j]
  /\ M.error = "noMorePlats" => L.error = "noMorePlats" \/ \E j \in 1 .. i : ts[j].what = "plat"

LEMMA AddsOne ==
  ASSUME NEW L \in Levels, NEW k \in Nat, NEW ts \in [1 .. k -> Thinkers], Addable(L, ts, k),
         NEW p, NEW c, NEW n, p = "idle" \/ c # Cap,
         NEW i \in 1 .. k, NEW M \in Levels, Sound(M, p, c, n), Added(L, M, ts, i - 1), ts[i] # Unused
  PROVE  Sound(Started(M, ts[i]), p, c, n) /\ Added(L, Started(M, ts[i]), ts, i)
<1> DEFINE N == Started(M, ts[i])
<1>1. Proper(ts[i])
  BY DEF Addable
<1>2. Fresh(M, ts[i])
  <2> SUFFICES ASSUME ts[i].what # "mobj", ts[i].sector \in Guarded, NEW b \in Blocks, Moves(M.th[b])
               PROVE  M.th[b].sector # ts[i].sector
    BY DEF Fresh
  <2>1. CASE M.th[b] = L.th[b]
    <3>1. Fresh(L, ts[i])
      BY DEF Addable
    <3> QED BY <2>1, <3>1 DEF Fresh
  <2>2. ASSUME NEW j \in 1 .. i - 1, ts[j] # Unused, M.th[b] = ts[j] PROVE M.th[b].sector # ts[i].sector
    <3>1. j \in 1 .. k /\ j # i
      OBVIOUS
    <3>2. ~Clash(ts[i], ts[j])
      BY <2>2, <3>1 DEF Addable
    <3>3. ts[j].what # "mobj"
      BY <2>2 DEF Moves
    <3> QED BY <2>2, <3>2, <3>3 DEF Clash
  <2> QED BY <2>1, <2>2 DEF Added
<1>3. Sound(N, p, c, n)
  BY <1>1, <1>2, StartedSound
<1>4. Grown(M, N, ts[i])
  BY <1>1, StartedLevel
<1> HIDE DEF N
<1>5. \A j \in 1 .. i - 1 : j \in 1 .. i
  OBVIOUS
<1>6. i \in 1 .. i
  OBVIOUS
<1>7. \A x \in Blocks : N.th[x] = L.th[x] \/ \E j \in 1 .. i : ts[j] # Unused /\ N.th[x] = ts[j]
  BY <1>4, <1>5, <1>6 DEF Grown, Added
<1>8. N.error = "noMorePlats" => L.error = "noMorePlats" \/ \E j \in 1 .. i : ts[j].what = "plat"
  BY <1>4, <1>5, <1>6 DEF Grown, Added
<1> QED BY <1>3, <1>7, <1>8 DEF Added, N

LEMMA AddEachSound ==
  ASSUME NEW L, NEW p, NEW c, NEW n, Sound(L, p, c, n), p = "idle" \/ c # Cap,
         NEW k \in Nat, NEW ts \in [1 .. k -> Thinkers], Len(ts) = k, Addable(L, ts, k)
  PROVE  Sound(AddEach(L, ts), p, c, n) /\ Added(L, AddEach(L, ts), ts, k)
<1> DEFINE Op(M, i) == IF ts[i] = Unused THEN M ELSE Started(M, ts[i])
           F == [x \in (1 .. k) \X Levels |-> Op(x[2], x[1])]
           after[i \in 0 .. k] == IF i = 0 THEN L ELSE Op(after[i - 1], i)
           G == {x \in Nat \X Levels : Sound(x[2], p, c, n) /\ Added(L, x[2], ts, x[1])}
<1>1. ASSUME NEW M \in Levels, NEW i \in 1 .. k PROVE Op(M, i) \in Levels
  <2>1. CASE ts[i] = Unused
    BY <2>1
  <2>2. CASE ts[i] # Unused
    <3>1. Grown(M, Started(M, ts[i]), ts[i])
      BY <2>2, StartedLevel DEF Addable
    <3> QED BY <2>2, <3>1 DEF Grown
  <2> QED BY <2>1, <2>2
<1>2. ASSUME NEW M \in Levels, NEW i \in 1 .. k, <<i - 1, M>> \in G PROVE <<i, Op(M, i)>> \in G
  <2>1. Sound(M, p, c, n) /\ Added(L, M, ts, i - 1) /\ L \in Levels
    BY <1>2 DEF Sound
  <2>2. Sound(Op(M, i), p, c, n) /\ Added(L, Op(M, i), ts, i)
    <3>1. CASE ts[i] = Unused
      <4>1. \A j \in 1 .. i - 1 : j \in 1 .. i
        OBVIOUS
      <4>2. Added(L, M, ts, i)
        BY <2>1, <4>1 DEF Added
      <4> QED BY <2>1, <3>1, <4>2
    <3>2. CASE ts[i] # Unused
      <4>1. Sound(Started(M, ts[i]), p, c, n) /\ Added(L, Started(M, ts[i]), ts, i)
        BY <2>1, <3>2, AddsOne
      <4> QED BY <3>2, <4>1
    <3> QED BY <3>1, <3>2
  <2> HIDE DEF Op
  <2>3. Op(M, i) \in Levels /\ i \in Nat
    BY <1>1
  <2> QED BY <2>2, <2>3
<1> HIDE DEF Op
<1>3. F \in [(1 .. k) \X Levels -> Levels]
  BY <1>1
<1>4. L \in Levels /\ <<0, L>> \in G
  <2>1. L \in Levels /\ Added(L, L, ts, 0)
    BY DEF Sound, Added
  <2> QED BY <2>1
<1>5. \A M \in Levels, i \in 1 .. k : F[<<i, M>>] = Op(M, i)
  OBVIOUS
<1>6. \A i, M : <<i, M>> \in G => M \in Levels /\ Sound(M, p, c, n) /\ Added(L, M, ts, i)
  OBVIOUS
<1> HIDE DEF F, G
<1>7. PICK g \in [0 .. k -> Levels] : IsRun(g, L, F, k)
  BY <1>3, <1>4, Recursion
<1>8. \A i \in 0 .. k : g[i] = IF i = 0 THEN L ELSE Op(g[i - 1], i)
  <2> TAKE i \in 0 .. k
  <2>1. CASE i = 0
    BY <1>7, <2>1 DEF IsRun
  <2>2. CASE i \in 1 .. k
    <3>1. i - 1 \in 0 .. k /\ g[i - 1] \in Levels
      BY <2>2
    <3>2. g[i] = F[<<i, g[i - 1]>>]
      BY <1>7, <2>2 DEF IsRun
    <3> QED BY <1>5, <2>2, <3>1, <3>2
  <2> QED BY <2>1, <2>2
<1>9. g = [i \in 0 .. k |-> IF i = 0 THEN L ELSE Op(g[i - 1], i)]
  BY <1>8
<1>10. after = [i \in 0 .. k |-> IF i = 0 THEN L ELSE Op(after[i - 1], i)]
  BY <1>9
<1> HIDE DEF after
<1>11. after[0] = L /\ \A i \in 1 .. k : after[i] = Op(after[i - 1], i)
  BY <1>10
<1>12. \A i \in 1 .. k : <<i - 1, after[i - 1]>> \in G => <<i, after[i]>> \in G
  BY <1>2, <1>6, <1>11
<1>13. \A i \in 0 .. k : <<i, after[i]>> \in G
  BY <1>4, <1>11, <1>12, KeptByEach
<1>14. <<k, after[k]>> \in G
  BY <1>13
<1>15. AddEach(L, ts) = after[k]
  BY DEF AddEach, Repeated, after, Op
<1> QED BY <1>6, <1>14, <1>15

-----------------------------------------------------------------------------
(* The way through the list                                                *)

Steps(L, w) ==
  /\ w \in [0 .. Cardinality(Blocks) -> Linked(L) \cup {Cap}] /\ w[0] = L.next[Cap]
  /\ \A i \in 1 .. Cardinality(Blocks) : w[i] = IF w[i - 1] = Cap THEN Cap ELSE L.next[w[i - 1]]

LEMMA BlocksCounted == IsFiniteSet(Blocks) /\ Cardinality(Blocks) \in Nat
BY MoverConstants, FS_CardinalityType

LEMMA WalkSteps ==
  ASSUME NEW L \in Levels, NEW r \in [Nodes -> Nat], Chain(L, r)
  PROVE  Steps(L, Walk(L))
<1> DEFINE S == Linked(L) \cup {Cap}
           Op(x) == IF x = Cap THEN Cap ELSE L.next[x]
           w[i \in 0 .. Cardinality(Blocks)] ==
             IF i = 0 THEN L.next[Cap] ELSE IF w[i - 1] = Cap THEN Cap ELSE L.next[w[i - 1]]
<1>0. PICK k \in Nat : k = Cardinality(Blocks)
  BY BlocksCounted
<1> DEFINE F == [x \in (1 .. k) \X S |-> Op(x[2])]
<1>1. Cap \in S /\ \A x \in S : L.next[x] \in S
  BY DEF Chain, Follows
<1>2. F \in [(1 .. k) \X S -> S] /\ \A i \in 1 .. k, x \in S : F[<<i, x>>] = Op(x)
  BY <1>1
<1> HIDE DEF S, F
<1>3. PICK g \in [0 .. k -> S] : IsRun(g, L.next[Cap], F, k)
  BY <1>1, <1>2, Recursion
<1>4. \A i \in 0 .. k : g[i] = IF i = 0 THEN L.next[Cap] ELSE IF g[i - 1] = Cap THEN Cap ELSE L.next[g[i - 1]]
  <2> TAKE i \in 0 .. k
  <2>1. CASE i = 0
    BY <1>3, <2>1 DEF IsRun
  <2>2. CASE i \in 1 .. k
    <3>1. i - 1 \in 0 .. k /\ g[i - 1] \in S
      BY <2>2
    <3>2. g[i] = F[<<i, g[i - 1]>>]
      BY <1>3, <2>2 DEF IsRun
    <3> QED BY <1>2, <2>2, <3>1, <3>2
  <2> QED BY <2>1, <2>2
<1>5. g = [i \in 0 .. k |-> IF i = 0 THEN L.next[Cap] ELSE IF g[i - 1] = Cap THEN Cap ELSE L.next[g[i - 1]]]
  BY <1>4
<1>6. w = [i \in 0 .. k |-> IF i = 0 THEN L.next[Cap] ELSE IF w[i - 1] = Cap THEN Cap ELSE L.next[w[i - 1]]]
  BY <1>0, <1>5
<1>7. Walk(L) = w
  BY DEF Walk
<1> HIDE DEF w
<1>8. w[0] = L.next[Cap] /\ \A i \in 1 .. k : w[i] = IF w[i - 1] = Cap THEN Cap ELSE L.next[w[i - 1]]
  BY <1>6
<1>9. \A i \in 0 .. k : w[i] \in S
  <2> DEFINE G == Nat \X S
  <2>1. <<0, w[0]>> \in G
    BY <1>1, <1>8
  <2>2. \A i \in 1 .. k : <<i - 1, w[i - 1]>> \in G => <<i, w[i]>> \in G
    BY <1>1, <1>8
  <2>3. \A i, x : <<i, x>> \in G => x \in S
    OBVIOUS
  <2> HIDE DEF G
  <2>4. \A i \in 0 .. k : <<i, w[i]>> \in G
    BY <2>1, <2>2, KeptByEach
  <2> QED BY <2>3, <2>4
<1>10. w \in [0 .. k -> S]
  BY <1>6, <1>9
<1> QED BY <1>0, <1>7, <1>8, <1>10 DEF Steps, S

(* It goes up in rank.                                                     *)
LEMMA WalkUp ==
  ASSUME NEW L \in Levels, NEW r \in [Nodes -> Nat], Chain(L, r), NEW w, Steps(L, w)
  PROVE  \A i, j \in 0 .. Cardinality(Blocks) :
           i < j /\ w[j] # Cap => w[i] # Cap /\ r[w[i]] < r[w[j]]
<1>0. PICK k \in Nat : k = Cardinality(Blocks)
  BY BlocksCounted
<1>1. /\ Cap \notin Linked(L) /\ \A x \in Linked(L) : r[x] \in Nat
      /\ \A i \in 0 .. k : w[i] \in Linked(L) \cup {Cap}
  BY <1>0, BlocksTyped DEF Linked, Nodes, Steps
<1> DEFINE Up(i, j) == w[j] # Cap => w[i] # Cap /\ r[w[i]] < r[w[j]]
           T == {j \in Nat : j <= k => \A i \in 0 .. k : i < j => Up(i, j)}
<1>2. 0 \in T
  OBVIOUS
<1>3. ASSUME NEW j \in T PROVE j + 1 \in T
  <2> SUFFICES ASSUME j + 1 <= k, NEW i \in 0 .. k, i < j + 1, w[j + 1] # Cap
               PROVE  w[i] # Cap /\ r[w[i]] < r[w[j + 1]]
    OBVIOUS
  <2>1. j \in 0 .. k /\ j + 1 \in 1 .. k /\ (j + 1) - 1 = j /\ j + 1 \in 0 .. k
    OBVIOUS
  <2>2. w[j + 1] = IF w[j] = Cap THEN Cap ELSE L.next[w[j]]
    BY <1>0, <2>1 DEF Steps
  <2>3. w[j] \in Linked(L) /\ w[j + 1] = L.next[w[j]] /\ w[j + 1] \in Linked(L)
    BY <1>1, <2>1, <2>2
  <2>4. r[w[j]] < r[w[j + 1]]
    BY <1>1, <2>3 DEF Chain, Follows
  <2>5. CASE i = j
    BY <1>1, <2>3, <2>4, <2>5
  <2>6. CASE i < j
    <3>1. Up(i, j)
      BY <2>1, <2>6
    <3>2. w[i] # Cap /\ r[w[i]] < r[w[j]]
      BY <1>1, <2>3, <3>1
    <3>3. w[i] \in Linked(L)
      BY <1>1, <3>2
    <3> QED BY <1>1, <2>3, <2>4, <3>2, <3>3
  <2> QED BY <2>5, <2>6
<1> HIDE DEF T
<1>4. T = Nat
  <2>1. T \in SUBSET Nat
    BY DEF T
  <2> QED BY <1>2, <1>3, <2>1, SetInduction
<1>5. \A i, j \in 0 .. k : i < j => Up(i, j)
  BY <1>4 DEF T
<1> QED BY <1>0, <1>5

(* So it comes to the end: there are not that many blocks.                 *)
LEMMA WalkEnds ==
  ASSUME NEW L \in Levels, NEW r \in [Nodes -> Nat], Chain(L, r), NEW w, Steps(L, w)
  PROVE  w[Cardinality(Blocks)] = Cap
<1>0. PICK k \in Nat : k = Cardinality(Blocks)
  BY BlocksCounted
<1> SUFFICES ASSUME w[k] # Cap PROVE FALSE
  BY <1>0
<1>1. /\ Cap \notin Linked(L) /\ Linked(L) \subseteq Blocks /\ \A x \in Linked(L) : r[x] \in Nat
      /\ w \in [0 .. k -> Linked(L) \cup {Cap}]
  BY <1>0, BlocksTyped DEF Linked, Nodes, Steps
<1>2. \A i, j \in 0 .. k : i < j /\ w[j] # Cap => w[i] # Cap /\ r[w[i]] < r[w[j]]
  BY <1>0, WalkUp
<1>3. \A i \in 0 .. k : w[i] # Cap
  <2> TAKE i \in 0 .. k
  <2>1. CASE i = k
    BY <2>1
  <2>2. CASE i < k
    <3>1. k \in 0 .. k
      OBVIOUS
    <3> QED BY <1>2, <2>2, <3>1
  <2> QED BY <2>1, <2>2
<1>4. w \in [0 .. k -> Blocks] /\ \A i \in 0 .. k : w[i] \in Linked(L)
  BY <1>1, <1>3
<1>5. \A i, j \in 0 .. k : i # j => w[i] # w[j]
  <2> SUFFICES ASSUME NEW i \in 0 .. k, NEW j \in 0 .. k, i < j PROVE w[i] # w[j]
    OBVIOUS
  <2>1. r[w[i]] < r[w[j]] /\ r[w[j]] \in Nat
    BY <1>1, <1>2, <1>3, <1>4
  <2> QED BY <2>1
<1>6. IsFiniteSet(0 .. k) /\ Cardinality(0 .. k) = k + 1
  BY FS_Interval
<1>7. k < k + 1 /\ IsFiniteSet(Blocks) /\ Cardinality(Blocks) < Cardinality(0 .. k)
  BY <1>0, <1>6, BlocksCounted
<1>8. \E i, j \in 0 .. k : i # j /\ w[i] = w[j]
  BY <1>4, <1>6, <1>7, FS_PigeonHole
<1> QED BY <1>5, <1>8

(* And it leaves out no thinker.                                           *)
LEMMA WalkAll ==
  ASSUME NEW L \in Levels, NEW r \in [Nodes -> Nat], Chain(L, r)
  PROVE  Walk(L)[Cardinality(Blocks)] = Cap /\ InList(L) = Linked(L)
<1> DEFINE w == Walk(L)
<1>0. PICK k \in Nat : k = Cardinality(Blocks)
  BY BlocksCounted
<1>1. Steps(L, w)
  BY WalkSteps
<1> HIDE DEF w
<1>2. w[k] = Cap
  BY <1>0, <1>1, WalkEnds
<1>3. /\ Cap \notin Linked(L) /\ \A x \in Linked(L) : r[x] \in Nat
      /\ \A i \in 0 .. k : w[i] \in Linked(L) \cup {Cap}
  BY <1>0, <1>1, BlocksTyped DEF Linked, Nodes, Steps
<1> DEFINE T == {j \in Nat : j <= k => \A b \in Linked(L) :
                             w[j] = Cap \/ r[b] <= r[w[j]] => \E i \in 0 .. k : w[i] = b}
<1>4. 0 \in T
  <2> SUFFICES ASSUME NEW b \in Linked(L), w[0] = Cap \/ r[b] <= r[w[0]]
               PROVE  \E i \in 0 .. k : w[i] = b
    OBVIOUS
  <2>1. w[0] = L.next[Cap] /\ r[Cap] = 0 /\ r[b] > 0 /\ r[b] \in Nat /\ Follows(L, r, Cap)
    BY <1>1, <1>3 DEF Steps, Chain
  <2>2. w[0] # Cap /\ w[0] \in Linked(L) /\ r[b] >= r[w[0]]
    BY <1>3, <2>1 DEF Follows
  <2>3. r[b] = r[w[0]]
    BY <1>3, <2>1, <2>2
  <2>4. b = w[0] /\ 0 \in 0 .. k
    BY <2>2, <2>3 DEF Chain
  <2> QED BY <2>4
<1>5. ASSUME NEW j \in T PROVE j + 1 \in T
  <2> SUFFICES ASSUME j + 1 <= k, NEW b \in Linked(L), w[j + 1] = Cap \/ r[b] <= r[w[j + 1]]
               PROVE  \E i \in 0 .. k : w[i] = b
    OBVIOUS
  <2>1. j \in 0 .. k /\ j + 1 \in 1 .. k /\ (j + 1) - 1 = j /\ j + 1 \in 0 .. k
    OBVIOUS
  <2>2. w[j + 1] = IF w[j] = Cap THEN Cap ELSE L.next[w[j]]
    BY <1>0, <1>1, <2>1 DEF Steps
  <2>3. w[j] = Cap \/ r[b] <= r[w[j]] => \E i \in 0 .. k : w[i] = b
    BY <2>1
  <2>4. CASE w[j] = Cap
    BY <2>3, <2>4
  <2>5. CASE w[j] # Cap
    <3>1. w[j] \in Linked(L) /\ w[j + 1] = L.next[w[j]] /\ Follows(L, r, w[j]) /\ r[b] \in Nat
      BY <1>3, <2>1, <2>2, <2>5 DEF Chain
    <3>2. CASE r[b] <= r[w[j]]
      BY <2>3, <3>2
    <3>3. CASE ~(r[b] <= r[w[j]])
      <4>1. w[j + 1] \in Linked(L) /\ r[b] >= r[w[j + 1]]
        BY <3>1, <3>3 DEF Follows
      <4>2. r[b] = r[w[j + 1]]
        BY <1>3, <3>1, <4>1
      <4>3. b = w[j + 1]
        BY <4>1, <4>2 DEF Chain
      <4> QED BY <2>1, <4>3
    <3> QED BY <3>2, <3>3
  <2> QED BY <2>4, <2>5
<1> HIDE DEF T
<1>6. T = Nat
  <2>1. T \in SUBSET Nat
    BY DEF T
  <2> QED BY <1>4, <1>5, <2>1, SetInduction
<1>7. \A b \in Linked(L) : \E i \in 0 .. k : w[i] = b
  <2>1. k \in T
    BY <1>6
  <2> QED BY <1>2, <2>1 DEF T
<1>8. InList(L) = {w[i] : i \in 0 .. k} \ {Cap}
  BY <1>0 DEF InList, w
<1>9. InList(L) = Linked(L)
  BY <1>3, <1>7, <1>8
<1> QED BY <1>0, <1>2, <1>9 DEF w

-----------------------------------------------------------------------------
(* New levels and loaded games                                             *)

NoTurns == [b \in Blocks |-> 0]

(* A level without thinkers.                                               *)
Blank(L) ==
  /\ L \in Levels /\ L.error = "none"
  /\ \A b \in Blocks : L.th[b].function \notin {"think", "stopped", "removed"}
  /\ L.next = [x \in Nodes |-> Cap] /\ L.prev = [x \in Nodes |-> Cap]
  /\ L.special = [s \in Sectors |-> Null]
  /\ L.plats = [i \in 1 .. MaxPlats |-> Null] /\ L.ceilings = [i \in 1 .. MaxCeilings |-> Null]

LEMMA BlankSound ==
  ASSUME NEW L, Blank(L)
  PROVE  Sound(L, "idle", Cap, NoTurns)
<1> DEFINE r == [x \in Nodes |-> 0]
<1>1. Linked(L) = {} /\ \A b \in Blocks : ~Live(L.th[b]) /\ ~Moves(L.th[b])
  BY DEF Blank, Linked, Live, Moves
<1>2. Pointers(L)
  <2>1. SpecialOK(L) /\ PlatsListed(L) /\ Alone(L)
    BY <1>1 DEF Blank, SpecialOK, PlatsListed, Alone
  <2>2. ArrayOK(L, L.plats, "plat") /\ ArrayOK(L, L.ceilings, "ceiling")
    BY DEF Blank, ArrayOK
  <2> QED BY <1>1, <2>1, <2>2 DEF Pointers, Blank
<1>3. Cap \in Nodes /\ r \in [Nodes -> Nat]
  BY DEF Nodes
<1>4. Chain(L, r)
  BY <1>1, <1>3 DEF Chain, Follows, Blank
<1>5. Turns(L, r, "idle", Cap, NoTurns)
  BY <1>1 DEF Turns, NoTurns
<1> QED BY <1>2, <1>3, <1>4, <1>5 DEF Sound, Blank

LEMMA EmptyBlank == Blank(Empty)
BY BlocksTyped DEF Blank, Empty, Levels, Nodes, Cap, Errors, Unused

NoMovers(L) == \A b \in Blocks : ~Moves(L.th[b])

(* P_LoadThings, and a saved game's mobjs: none of them moves a sector.    *)
LEMMA MobjsSound ==
  ASSUME NEW L, Blank(L), NEW k \in Nat, NEW ts \in [1 .. k -> Thinkers], Len(ts) = k,
         \A i \in 1 .. k : ts[i] # Unused => Proper(ts[i]) /\ ts[i].what = "mobj"
  PROVE  LET M == AddEach(L, ts) IN
         M \in Levels /\ Sound(M, "idle", Cap, NoTurns) /\ NoMovers(M) /\ M.error # "noMorePlats"
<1> DEFINE M == AddEach(L, ts)
<1>1. Addable(L, ts, k)
  BY DEF Addable, Fresh, Clash
<1>2. Sound(L, "idle", Cap, NoTurns)
  BY BlankSound
<1>3. Sound(M, "idle", Cap, NoTurns) /\ Added(L, M, ts, k)
  BY <1>1, <1>2, AddEachSound
<1> HIDE DEF M
<1>4. \A b \in Blocks : ~Moves(L.th[b])
  BY DEF Blank, Moves, Live
<1>5. \A i \in 1 .. k : ts[i] # Unused => ~Moves(ts[i])
  BY DEF Moves
<1>6. NoMovers(M)
  BY <1>3, <1>4, <1>5 DEF NoMovers, Added
<1>7. \A i \in 1 .. k : ts[i].what # "plat"
  <2>1. Unused.what # "plat"
    BY DEF Unused
  <2> QED BY <2>1
<1>8. M.error # "noMorePlats"
  BY <1>3, <1>7 DEF Added, Blank
<1> QED BY <1>3, <1>6, <1>8 DEF Sound, M

LEMMA ThingsTyped ==
  /\ Things \in Nat /\ P_LoadThings \in [1 .. Things -> Thinkers] /\ Len(P_LoadThings) = Things
  /\ \A i \in 1 .. Things : P_LoadThings[i] # Unused => Proper(P_LoadThings[i]) /\ P_LoadThings[i].what = "mobj"
<1>1. Things \in Nat
  BY MoverConstants
<1>2. Item \in Thinkers /\ Proper(Item) /\ Item.what = "mobj"
  BY ItemProper DEF Proper
<1>3. Len(P_LoadThings) = Things
  BY <1>1 DEF P_LoadThings
<1> QED BY <1>1, <1>2, <1>3 DEF P_LoadThings

LEMMA SpecialsTyped ==
  /\ NumSectors \in Nat /\ P_SpawnSpecials \in [1 .. NumSectors -> Thinkers]
  /\ Len(P_SpawnSpecials) = NumSectors
  /\ \A s \in 1 .. NumSectors : P_SpawnSpecials[s] # Unused =>
       /\ Proper(P_SpawnSpecials[s]) /\ P_SpawnSpecials[s].sector = s
  /\ \A s \in 1 .. NumSectors : P_SpawnSpecials[s].what # "plat"
<1>1. NumSectors \in Nat /\ Sectors = 1 .. NumSectors
  BY MoverConstants DEF Sectors
<1>2. "door" \in Kinds /\ "normal" \in Types /\ "waiting" \in Ways
  BY DEF Kinds, Types, Ways
<1>3. \A s \in Sectors : /\ Proper(Mover("door", s, "normal", "waiting"))
                         /\ Mover("door", s, "normal", "waiting").sector = s
                         /\ Mover("door", s, "normal", "waiting").what = "door"
  BY <1>2, MoverProper
<1>4. \A s \in Sectors : P_SpawnSpecials[s] \in {Mover("door", s, "normal", "waiting"), Unused}
  BY <1>1 DEF P_SpawnSpecials
<1>5. Unused \in Thinkers /\ Unused.what # "plat"
  BY BlocksTyped DEF Unused
<1>6. \A s \in Sectors : Mover("door", s, "normal", "waiting") \in Thinkers
  BY <1>3 DEF Proper
<1>7. P_SpawnSpecials \in [1 .. NumSectors -> Thinkers]
  BY <1>1, <1>5, <1>6 DEF P_SpawnSpecials
<1>8. Len(P_SpawnSpecials) = NumSectors
  BY <1>1 DEF P_SpawnSpecials
<1> QED BY <1>1, <1>3, <1>4, <1>5, <1>7, <1>8

(* P_SetupLevel builds a level that P_RunThinkers can go through.          *)
LEMMA SetupSound ==
  Sound(P_SetupLevel, "idle", Cap, NoTurns) /\ P_SetupLevel.error # "noMorePlats"
<1> DEFINE L == AddEach(Empty, P_LoadThings)
           ts == P_SpawnSpecials
           M == AddEach(L, ts)
<1>1. L \in Levels /\ Sound(L, "idle", Cap, NoTurns) /\ NoMovers(L) /\ L.error # "noMorePlats"
  BY EmptyBlank, ThingsTyped, MobjsSound
<1>2. P_SetupLevel = M
  BY DEF P_SetupLevel
<1> HIDE DEF L
<1>3. PICK k \in Nat : k = NumSectors
  BY MoverConstants
<1>4. /\ ts \in [1 .. k -> Thinkers] /\ Len(ts) = k
      /\ \A s \in 1 .. k : ts[s] # Unused => Proper(ts[s]) /\ ts[s].sector = s
      /\ \A s \in 1 .. k : ts[s].what # "plat"
  BY <1>3, SpecialsTyped
<1> HIDE DEF ts
<1>5. Addable(L, ts, k)
  <2>1. \A s \in 1 .. k : ts[s] # Unused => Proper(ts[s]) /\ Fresh(L, ts[s])
    BY <1>1, <1>4 DEF Fresh, NoMovers
  <2>2. \A s, u \in 1 .. k : s # u /\ ts[s] # Unused /\ ts[u] # Unused => ~Clash(ts[s], ts[u])
    BY <1>4 DEF Clash
  <2> QED BY <2>1, <2>2 DEF Addable
<1>6. Sound(M, "idle", Cap, NoTurns) /\ Added(L, M, ts, k)
  BY <1>1, <1>4, <1>5, AddEachSound
<1> HIDE DEF M
<1>7. M.error # "noMorePlats"
  BY <1>1, <1>4, <1>6 DEF Added
<1> QED BY <1>2, <1>6, <1>7

(* What is saved is a list of thinkers of the level, each of them once.    *)
LEMMA SavedTyped ==
  ASSUME NEW L \in Levels, NEW r \in [Nodes -> Nat], Chain(L, r), NEW those, those \subseteq Blocks
  PROVE  \E k \in Nat : /\ Saved(L, those) \in [1 .. k -> Thinkers] /\ Len(Saved(L, those)) = k
                        /\ \A i \in 1 .. k : Saved(L, those)[i] # Unused =>
                             \E b \in those : Saved(L, those)[i] = L.th[b]
                        /\ \A i, j \in 1 .. k :
                             i # j /\ Saved(L, those)[i] # Unused /\ Saved(L, those)[j] # Unused =>
                               \E b, d \in those : /\ b # d /\ Saved(L, those)[i] = L.th[b]
                                                   /\ Saved(L, those)[j] = L.th[d]
<1> DEFINE w == Walk(L)
           ts == [i \in 1 .. Cardinality(Blocks) |-> IF w[i - 1] \in those THEN L.th[w[i - 1]] ELSE Unused]
<1>0. PICK k \in Nat : k = Cardinality(Blocks)
  BY BlocksCounted
<1>1. Saved(L, those) = ts
  BY DEF Saved
<1>2. \A i, j \in 0 .. k : i < j /\ w[j] # Cap => w[i] # Cap /\ r[w[i]] < r[w[j]]
  BY <1>0, WalkSteps, WalkUp
<1>3. \A i \in 0 .. k : w[i] \in Linked(L) \cup {Cap}
  BY <1>0, WalkSteps DEF Steps
<1> HIDE DEF w
<1>4. ts \in [1 .. k -> Thinkers]
  BY <1>0, BlocksTyped, LevelFields
<1>5. Len(ts) = k
  BY <1>0
<1>6. \A i \in 1 .. k : ts[i] = IF w[i - 1] \in those THEN L.th[w[i - 1]] ELSE Unused
  BY <1>0
<1> HIDE DEF ts
<1>7. \A i \in 1 .. k : ts[i] # Unused => w[i - 1] \in those /\ ts[i] = L.th[w[i - 1]]
  BY <1>6
<1>8. Cap \notin those /\ \A x \in Linked(L) : r[x] \in Nat
  BY BlocksTyped DEF Linked, Nodes
<1>9. ASSUME NEW i \in 1 .. k, NEW j \in 1 .. k, i < j, w[i - 1] \in those, w[j - 1] \in those
      PROVE  w[i - 1] # w[j - 1]
  <2>1. i - 1 \in 0 .. k /\ j - 1 \in 0 .. k /\ i - 1 < j - 1
    BY <1>9
  <2>2. r[w[i - 1]] < r[w[j - 1]] /\ w[j - 1] \in Linked(L) /\ w[i - 1] \in Linked(L)
    BY <1>2, <1>3, <1>8, <1>9, <2>1
  <2> QED BY <1>8, <2>2
<1>10. ASSUME NEW i \in 1 .. k, NEW j \in 1 .. k, i # j, ts[i] # Unused, ts[j] # Unused
       PROVE  \E b, d \in those : b # d /\ ts[i] = L.th[b] /\ ts[j] = L.th[d]
  <2>1. w[i - 1] # w[j - 1]
    <3>1. CASE i < j
      BY <1>7, <1>9, <1>10, <3>1
    <3>2. CASE j < i
      BY <1>7, <1>9, <1>10, <3>2
    <3> QED BY <1>10, <3>1, <3>2
  <2> QED BY <1>7, <1>10, <2>1
<1>11. \A i \in 1 .. k : ts[i] # Unused => \E b \in those : ts[i] = L.th[b]
  BY <1>7
<1> QED BY <1>1, <1>4, <1>5, <1>10, <1>11

(* Only movers are archived by P_ArchiveSpecials.                          *)
LEMMA ArchivedMoves ==
  ASSUME NEW L \in Levels, Pointers(L), NEW b \in Blocks, Archives(L, b)
  PROVE  Moves(L.th[b])
<1>1. CASE Thinks(L.th[b]) /\ Moves(L.th[b])
  BY <1>1
<1>2. CASE SlotOf(L.ceilings, b) # 0
  <2>1. L.ceilings \in [1 .. MaxCeilings -> Nodes] /\ MaxCeilings \in Nat /\ b # Null
    BY LevelFields, BlocksTyped DEF Cap
  <2>2. SlotOf(L.ceilings, b) \in DOMAIN L.ceilings /\ L.ceilings[SlotOf(L.ceilings, b)] = b
    BY <1>2, <2>1, SlotFound
  <2>3. \A i \in DOMAIN L.ceilings : L.ceilings[i] # Null => Moves(L.th[L.ceilings[i]])
    BY DEF Pointers, ArrayOK
  <2> QED BY <2>1, <2>2, <2>3
<1> QED BY <1>1, <1>2 DEF Archives

LEMMA UsedSound ==
  ASSUME NEW L, NEW p, NEW c, NEW n, Sound(L, p, c, n), NEW u, u \subseteq Lines
  PROVE  Sound([L EXCEPT !.used = u], p, c, n)
<1> DEFINE M == [L EXCEPT !.used = u]
<1>1. /\ M \in Levels /\ M.th = L.th /\ M.next = L.next /\ M.prev = L.prev /\ M.error = L.error
      /\ M.special = L.special /\ M.plats = L.plats /\ M.ceilings = L.ceilings /\ L \in Levels
  BY DEF Levels, Sound
<1> HIDE DEF M
<1>2. Pointers(M)
  BY <1>1, SamePointers DEF Sound
<1>3. Changed(L, M)
  BY <1>1, <1>2 DEF Changed, Linked
<1> QED BY <1>3, ChangedSound DEF M

(* A game can be loaded into a new level, whatever was saved.              *)
LEMMA ReloadSound ==
  ASSUME NEW L, NEW p, NEW c, NEW n, Sound(L, p, c, n)
  PROVE  LET world == P_UnArchiveThinkers(P_SetupLevel, P_ArchiveThinkers(L))
             N == P_UnArchiveSpecials(world, P_ArchiveSpecials(L))
         IN Sound([N EXCEPT !.used = L.used], "idle", Cap, NoTurns)
<1> DEFINE world == P_UnArchiveThinkers(P_SetupLevel, P_ArchiveThinkers(L))
           N == P_UnArchiveSpecials(world, P_ArchiveSpecials(L))
           lost == Mobjs(P_SetupLevel)
           base == [Empty EXCEPT !.th = [b \in Blocks |-> IF b \in lost THEN [Unused EXCEPT !.function = "lost"]
                                                          ELSE Unused]]
           mobjs == P_ArchiveThinkers(L)
           movers == P_ArchiveSpecials(L)
<1>1. L \in Levels /\ Pointers(L) /\ L.used \subseteq Lines
  BY DEF Sound, Levels
<1>2. PICK r \in [Nodes -> Nat] : Chain(L, r)
  BY DEF Sound
<1>3. Blank(base)
  <2> DEFINE th == [b \in Blocks |-> IF b \in lost THEN [Unused EXCEPT !.function = "lost"] ELSE Unused]
  <2>1. [Unused EXCEPT !.function = "lost"] \in Thinkers /\ Unused \in Thinkers
    BY BlocksTyped DEF Thinkers, Unused
  <2>2. /\ [Unused EXCEPT !.function = "lost"].function = "lost" /\ Unused.function = "none"
    BY DEF Unused
  <2>3. th \in [Blocks -> Thinkers] /\ \A b \in Blocks : th[b].function \in {"lost", "none"}
    BY <2>1, <2>2
  <2>4. base = [Empty EXCEPT !.th = th]
    OBVIOUS
  <2> HIDE DEF th, base
  <2>5. Empty \in Levels
    BY EmptyBlank DEF Blank
  <2>6. /\ base \in Levels /\ base.th = th /\ base.next = Empty.next /\ base.prev = Empty.prev
        /\ base.special = Empty.special /\ base.plats = Empty.plats /\ base.ceilings = Empty.ceilings
        /\ base.error = Empty.error
    BY <2>3, <2>4, <2>5 DEF Levels
  <2> QED BY <2>3, <2>6, EmptyBlank DEF Blank
<1>4. world = AddEach(base, mobjs) /\ N = AddEach(world, movers)
  BY DEF P_UnArchiveThinkers, P_UnArchiveSpecials
<1> HIDE DEF base, lost
<1>5. world \in Levels /\ Sound(world, "idle", Cap, NoTurns) /\ NoMovers(world)
  <2>1. Mobjs(L) \subseteq Blocks /\ mobjs = Saved(L, Mobjs(L))
    BY DEF Mobjs, P_ArchiveThinkers
  <2>2. PICK k \in Nat : /\ mobjs \in [1 .. k -> Thinkers] /\ Len(mobjs) = k
                         /\ \A i \in 1 .. k : mobjs[i] # Unused => \E b \in Mobjs(L) : mobjs[i] = L.th[b]
    BY <1>1, <1>2, <2>1, SavedTyped
  <2>3. \A b \in Mobjs(L) : Proper(L.th[b]) /\ L.th[b].what = "mobj"
    BY <1>1, LevelFields DEF Mobjs, Proper, Thinks, Live
  <2> HIDE DEF mobjs, world
  <2>4. \A i \in 1 .. k : mobjs[i] # Unused => Proper(mobjs[i]) /\ mobjs[i].what = "mobj"
    BY <2>2, <2>3
  <2> QED BY <1>3, <1>4, <2>2, <2>4, MobjsSound
<1> HIDE DEF world
<1>6. Sound(N, "idle", Cap, NoTurns)
  <2> DEFINE those == {b \in Blocks : Archives(L, b)}
  <2>1. those \subseteq Blocks /\ movers = Saved(L, those)
    BY DEF P_ArchiveSpecials
  <2>2. \A b \in those : b \in Blocks /\ Moves(L.th[b])
    BY <1>1, ArchivedMoves
  <2> HIDE DEF those
  <2>3. PICK k \in Nat : /\ movers \in [1 .. k -> Thinkers] /\ Len(movers) = k
                         /\ \A i \in 1 .. k : movers[i] # Unused => \E b \in those : movers[i] = L.th[b]
                         /\ \A i, j \in 1 .. k : i # j /\ movers[i] # Unused /\ movers[j] # Unused =>
                              \E b, d \in those : b # d /\ movers[i] = L.th[b] /\ movers[j] = L.th[d]
    BY <1>1, <1>2, <2>1, SavedTyped
  <2>4. \A b \in those : Proper(L.th[b])
    BY <1>1, <2>2, LevelFields DEF Pointers, Proper, Moves
  <2>5. \A b, d \in those : b # d => ~Clash(L.th[b], L.th[d])
    BY <1>1, <2>2 DEF Pointers, Alone, Clash
  <2> HIDE DEF movers
  <2>6. \A i \in 1 .. k : movers[i] # Unused => Proper(movers[i]) /\ Fresh(world, movers[i])
    BY <1>5, <2>3, <2>4 DEF Fresh, NoMovers
  <2>7. \A i, j \in 1 .. k : i # j /\ movers[i] # Unused /\ movers[j] # Unused => ~Clash(movers[i], movers[j])
    <3> TAKE i, j \in 1 .. k
    <3> HAVE i # j /\ movers[i] # Unused /\ movers[j] # Unused
    <3>1. PICK b \in those, d \in those : b # d /\ movers[i] = L.th[b] /\ movers[j] = L.th[d]
      BY <2>3
    <3> QED BY <2>5, <3>1
  <2>8. Addable(world, movers, k)
    BY <2>6, <2>7 DEF Addable
  <2>9. Sound(AddEach(world, movers), "idle", Cap, NoTurns)
    BY <1>5, <2>3, <2>8, AddEachSound
  <2> QED BY <1>4, <2>9
<1> QED BY <1>1, <1>6, UsedSound DEF world

-----------------------------------------------------------------------------
(* What a line does                                                        *)

LEMMA ErrorSound ==
  ASSUME NEW L, NEW p, NEW c, NEW n, Sound(L, p, c, n)
  PROVE  Sound(L, "error", c, n)
<1>1. PICK r \in [Nodes -> Nat] : Chain(L, r) /\ Turns(L, r, p, c, n)
  BY DEF Sound
<1>2. Turns(L, r, "error", c, n)
  BY <1>1 DEF Turns
<1> QED BY <1>1, <1>2 DEF Sound

LEMMA FirstWays == \A type : FirstWay(type) \subseteq Ways
BY DEF FirstWay, Ways

(* A door that is opened by hand; its sector may have two of them.         *)
LEMMA VerticalSound ==
  ASSUME NEW L, NEW p, NEW c, NEW n, Sound(L, p, c, n), p = "idle" \/ c # Cap,
         NEW line \in Lines, line.special = "manual", NEW player \in BOOLEAN
  PROVE  Sound(EV_VerticalDoor(L, line, player), p, c, n)
<1> DEFINE b == L.special[line.sector]
           t == Mover("door", line.sector, IF line.type = "raise" THEN "normal" ELSE "open", "up")
           u == IF line.type = "open" THEN Started(L, t).used \cup {line} ELSE Started(L, t).used
           M == EV_VerticalDoor(L, line, player)
<1>1. L \in Levels /\ Pointers(L)
  BY DEF Sound
<1>2. line.sector \in Sectors /\ line.type \in {"raise", "open"}
  BY MoverConstants
<1>3. CASE b # Null /\ line.type = "raise"
  <2>1. b \in Blocks
    BY <1>1, <1>2, <1>3, LevelFields
  <2>2. /\ Changed(L, L)
        /\ Changed(L, [L EXCEPT !.th[b].status = "up"]) /\ Changed(L, [L EXCEPT !.th[b].status = "down"])
    <3>1. Changed(L, L)
      BY <1>1 DEF Changed
    <3>2. Changed(L, Turn(L, b, "up")) /\ Changed(L, Turn(L, b, "down"))
      BY <1>1, <2>1, TurnChanges DEF Ways
    <3> QED BY <3>1, <3>2 DEF Turn
  <2>3. M \in {L, [L EXCEPT !.th[b].status = "up"], [L EXCEPT !.th[b].status = "down"]}
    <3>1. M = IF L.th[b].what # "door" THEN L
              ELSE IF L.th[b].status = "down" THEN [L EXCEPT !.th[b].status = "up"]
              ELSE IF player THEN [L EXCEPT !.th[b].status = "down"] ELSE L
      BY <1>3 DEF EV_VerticalDoor
    <3> HIDE DEF M
    <3> QED BY <3>1
  <2>4. Changed(L, M)
    BY <2>2, <2>3
  <2> QED BY <2>4, ChangedSound
<1>4. CASE ~(b # Null /\ line.type = "raise")
  <2>1. Proper(t) /\ t.sector = line.sector /\ t.what = "door"
    BY <1>2, MoverProper DEF Kinds, Types, Ways
  <2>2. M = [Started(L, t) EXCEPT !.used = u]
    BY <1>4 DEF EV_VerticalDoor
  <2> HIDE DEF t
  <2>3. Fresh(L, t)
    <3>1. CASE line.type = "raise"
      BY <1>1, <1>4, <2>1, <3>1, IdleFresh DEF Idle
    <3>2. CASE line.type = "open"
      BY <2>1, <3>2 DEF Fresh, Guarded
    <3> QED BY <1>2, <3>1, <3>2
  <2>4. Sound(Started(L, t), p, c, n)
    BY <2>1, <2>3, StartedSound
  <2>5. u \subseteq Lines
    BY <2>4 DEF Sound, Levels
  <2> HIDE DEF u
  <2> QED BY <2>2, <2>4, <2>5, UsedSound
<1> QED BY <1>3, <1>4

(* Whatever the special of a line is, the level it leaves is sound.        *)
LEMMA ActivatedSound ==
  ASSUME NEW L, NEW p, NEW c, NEW n, Sound(L, p, c, n), p = "idle" \/ c # Cap,
         NEW line \in Lines, NEW N \in Activated(L, line)
  PROVE  Sound(N, p, c, n)
<1>1. L \in Levels /\ Pointers(L)
  BY DEF Sound
<1> DEFINE Do(M) == {StartEach(M, line.tag, line.special, line.type, way) :
                       way \in [Sectors -> FirstWay(line.type)]}
<1>2. ASSUME NEW M, Sound(M, p, c, n), line.special \in Kinds
      PROVE  \A K \in Do(M) : Sound(K, p, c, n)
  <2> SUFFICES ASSUME NEW way \in [Sectors -> FirstWay(line.type)]
               PROVE  Sound(StartEach(M, line.tag, line.special, line.type, way), p, c, n)
    OBVIOUS
  <2>1. way \in [Sectors -> Ways]
    BY FirstWays
  <2>2. line.type \in Types
    BY DEF Types
  <2> QED BY <1>2, <2>1, <2>2, StartEachSound
<1>3. \A array \in {L.plats, L.ceilings} :
        Sound(Resumed(L, array, line.tag), p, c, n) /\ Sound(Stopped(L, array, line.tag), p, c, n)
  BY <1>1, ResumedChanges, StoppedChanges, ChangedSound
<1>4. line.special \in {"plat", "stopPlat", "ceiling", "stopCrush", "floor", "door", "donut", "manual"}
  BY MoverConstants
<1>5. CASE line.special = "plat"
  <2>1. N \in Do(IF line.type = "perpetualRaise" THEN Resumed(L, L.plats, line.tag) ELSE L)
    BY <1>5 DEF Activated
  <2> HIDE DEF Do
  <2> QED BY <1>2, <1>3, <1>5, <2>1 DEF Kinds
<1>6. CASE line.special = "ceiling"
  <2>1. N \in Do(IF line.type = "crushAndRaise" THEN Resumed(L, L.ceilings, line.tag) ELSE L)
    BY <1>6 DEF Activated
  <2> HIDE DEF Do
  <2> QED BY <1>2, <1>3, <1>6, <2>1 DEF Kinds
<1>7. CASE line.special \in {"floor", "door"}
  <2>1. N \in Do(L)
    BY <1>7 DEF Activated
  <2> HIDE DEF Do
  <2> QED BY <1>2, <1>7, <2>1 DEF Kinds
<1>8. CASE line.special = "donut"
  BY <1>8, DonutSound DEF Activated
<1>9. CASE line.special \in {"stopPlat", "stopCrush"}
  BY <1>3, <1>9 DEF Activated
<1>10. CASE line.special = "manual"
  <2>1. \E player \in BOOLEAN : N = EV_VerticalDoor(L, line, player)
    BY <1>10 DEF Activated
  <2> QED BY <1>10, <2>1, VerticalSound
<1> QED BY <1>4, <1>5, <1>6, <1>7, <1>8, <1>9, <1>10

-----------------------------------------------------------------------------
(* The steps                                                               *)

LEMMA BecomesKeeps ==
  ASSUME NEW L, NEW c, NEW n, Sound(L, pc, c, n), Becomes(L),
         pc \in {"idle", "run", "act", "error"}, current' = c, turns' = n
  PROVE  MoversInv'
<1>1. level' = L /\ pc' = IF L.error = "none" THEN pc ELSE "error"
  BY DEF Becomes
<1>2. Sound(L, "error", c, n)
  BY ErrorSound
<1>3. Sound(level', pc', current', turns')
  BY <1>1, <1>2
<1> QED BY <1>1, <1>3 DEF MoversInv

(* Outside the list, and when it is a mobj's turn, a thinker can be added. *)
LEMMA MayAdd ==
  ASSUME MoversInv, pc \in {"idle", "act"}
  PROVE  Sound(level, pc, current, turns) /\ (pc = "idle" \/ current # Cap)
BY DEF MoversInv, Sound, Turns

(* Before the run no thinker has had its turn.                             *)
LEMMA IdleTurns ==
  ASSUME MoversInv, pc = "idle"
  PROVE  current = Cap /\ turns = NoTurns
<1>1. turns \in [Blocks -> {0, 1}] /\ current = Cap /\ \A b \in Blocks : turns[b] = 0
  BY DEF MoversInv, Sound, Turns
<1> QED BY <1>1 DEF NoTurns

LEMMA UseLineKeeps ==
  ASSUME MoversInv, NEW line \in Lines, UseLine(line)
  PROVE  MoversInv'
<1>1. PICK L \in Activated(level, line) : Becomes(L)
  BY DEF UseLine
<1>2. /\ pc \in {"idle", "act"} /\ current' = current /\ turns' = turns
      /\ Sound(level, pc, current, turns) /\ (pc = "idle" \/ current # Cap)
  BY MayAdd DEF UseLine
<1>3. Sound(L, pc, current, turns)
  BY <1>2, ActivatedSound
<1> QED BY <1>1, <1>2, <1>3, BecomesKeeps

LEMMA SpawnKeeps ==
  ASSUME MoversInv, P_SpawnMobj
  PROVE  MoversInv'
<1>1. /\ pc \in {"idle", "act"} /\ current' = current /\ turns' = turns /\ Becomes(Started(level, Item))
      /\ Sound(level, pc, current, turns) /\ (pc = "idle" \/ current # Cap)
  BY MayAdd DEF P_SpawnMobj
<1>2. Fresh(level, Item)
  BY ItemProper DEF Fresh
<1>3. Sound(Started(level, Item), pc, current, turns)
  BY <1>1, <1>2, ItemProper, StartedSound
<1> QED BY <1>1, <1>3, BecomesKeeps

LEMMA RemoveKeeps ==
  ASSUME MoversInv, P_RemoveMobj
  PROVE  MoversInv'
<1>1. /\ pc \in {"idle", "act"} /\ pc' = pc /\ current' = current /\ turns' = turns
      /\ Sound(level, pc, current, turns) /\ level \in Levels /\ Pointers(level)
      /\ level.error # "noMorePlats"
  BY DEF P_RemoveMobj, MoversInv, Sound
<1>2. PICK b \in Mobjs(level) : level' = P_RemoveThinker(level, b)
  BY DEF P_RemoveMobj
<1>3. Changed(level, level')
  BY <1>1, <1>2, MobjRemoved
<1>4. Sound(level', pc, current, turns) /\ level'.error = level.error
  BY <1>1, <1>3, ChangedSound DEF Changed
<1> QED BY <1>1, <1>4 DEF MoversInv

LEMMA StartRunKeeps ==
  ASSUME MoversInv, StartRun
  PROVE  MoversInv'
<1>1. /\ pc = "idle" /\ pc' = "run" /\ current' = level.next[Cap] /\ level' = level /\ turns' = turns
      /\ Sound(level, pc, current, turns) /\ level \in Levels /\ Pointers(level)
      /\ level.error # "noMorePlats"
  BY DEF StartRun, MoversInv, Sound
<1>2. PICK r \in [Nodes -> Nat] : Chain(level, r) /\ Turns(level, r, pc, current, turns)
  BY <1>1 DEF Sound
<1>3. turns \in [Blocks -> {0, 1}] /\ \A b \in Blocks : turns[b] = 0
  BY <1>1, <1>2 DEF Turns
<1>4. Follows(level, r, Cap) /\ r[Cap] = 0 /\ \A b \in Linked(level) : r[b] > 0
  BY <1>2 DEF Chain
<1>5. Linked(level) \subseteq Blocks /\ Cap \notin Linked(level) /\ \A x \in Linked(level) : r[x] \in Nat
  BY BlocksTyped DEF Linked, Nodes
<1>6. Turns(level, r, "run", level.next[Cap], turns)
  <2>1. CASE level.next[Cap] = Cap /\ \A b \in Linked(level) : r[b] <= r[Cap]
    <3>1. Linked(level) = {}
      BY <1>4, <1>5, <2>1
    <3> QED BY <1>3, <2>1, <3>1 DEF Turns
  <2>2. CASE /\ level.next[Cap] \in Linked(level)
             /\ \A b \in Linked(level) : r[b] <= r[Cap] \/ r[b] >= r[level.next[Cap]]
    <3>1. \A b \in Linked(level) : ~(r[b] < r[level.next[Cap]])
      BY <1>4, <1>5, <2>2
    <3> QED BY <1>3, <1>5, <2>2, <3>1 DEF Turns
  <2> QED BY <1>4, <2>1, <2>2 DEF Follows
<1>7. Sound(level', pc', current', turns')
  BY <1>1, <1>2, <1>6 DEF Sound
<1> QED BY <1>1, <1>7 DEF MoversInv

(* A removed thinker is freed when nothing refers to it any more.          *)
LEMMA FreeRemovedKeeps ==
  ASSUME MoversInv, FreeRemoved
  PROVE  MoversInv'
<1> DEFINE M == Unlinked(level, current)
<1>1. /\ pc = "run" /\ pc' = "run" /\ level' = M /\ current' = M.next[current]
      /\ turns' = [turns EXCEPT ![current] = 0]
      /\ current # Cap /\ level.th[current].function = "removed"
      /\ Sound(level, pc, current, turns) /\ level \in Levels /\ Pointers(level)
      /\ level.error # "noMorePlats"
  BY DEF FreeRemoved, Advance, MoversInv, Sound
<1>2. PICK r \in [Nodes -> Nat] : Chain(level, r) /\ Turns(level, r, pc, current, turns)
  BY <1>1 DEF Sound
<1>3. current \in Linked(level) /\ current \in Blocks
  BY <1>1, <1>2 DEF Turns, Linked
<1>4. /\ M \in Levels /\ M.th = [level.th EXCEPT ![current] = Unused] /\ M.next[current] = level.next[current]
      /\ Linked(M) = Linked(level) \ {current} /\ Chain(M, r)
      /\ M.special = level.special /\ M.plats = level.plats /\ M.ceilings = level.ceilings
      /\ M.error = level.error
  BY <1>1, <1>2, <1>3, Unlinks
<1> HIDE DEF M
<1>5. Pointers(M)
  <2>1. ~Moves(level.th[current])
    BY <1>1 DEF Moves, Live
  <2>2. /\ Cleared(level.plats, M.plats, current) /\ Cleared(level.ceilings, M.ceilings, current)
        /\ \A s \in Sectors : M.special[s] = level.special[s] /\ M.special[s] # current
    BY <1>1, <1>3, <1>4, <2>1, OwnPlace
  <2>3. \A x \in Blocks : M.th[x] = IF x = current THEN Unused ELSE level.th[x]
    BY <1>1, <1>4, LevelFields
  <2>4. ~Live(M.th[current]) /\ \A x \in Blocks : x # current => M.th[x] = level.th[x]
    BY <1>3, <2>3 DEF Live, Unused
  <2> QED BY <1>1, <1>3, <1>4, <2>2, <2>4, LosesPointers
<1>6. Turns(M, r, "run", level.next[current], [turns EXCEPT ![current] = 0])
  BY <1>1, <1>2, <1>3, <1>4, GoesOnFreed
<1>7. Sound(level', pc', current', turns')
  BY <1>1, <1>4, <1>5, <1>6 DEF Sound
<1> QED BY <1>1, <1>4, <1>7 DEF MoversInv

LEMMA SkipStoppedKeeps ==
  ASSUME MoversInv, SkipStopped \/ MobjDone
  PROVE  MoversInv'
<1>1. /\ pc \in {"run", "act"} /\ pc' = "run" /\ level' = level /\ current' = level.next[current]
      /\ turns' = [turns EXCEPT ![current] = @ + 1]
      /\ Sound(level, pc, current, turns) /\ level \in Levels /\ Pointers(level)
      /\ level.error # "noMorePlats"
  BY DEF SkipStopped, MobjDone, Advance, Passed, MoversInv, Sound
<1>2. PICK r \in [Nodes -> Nat] : Chain(level, r) /\ Turns(level, r, pc, current, turns)
  BY <1>1 DEF Sound
<1>3. current # Cap
  <2>1. CASE SkipStopped
    BY <2>1 DEF SkipStopped
  <2>2. CASE MobjDone
    BY <1>2, <2>2 DEF MobjDone, Turns
  <2> QED BY <2>1, <2>2
<1>4. current \in Linked(level)
  BY <1>2, <1>3 DEF Turns
<1>5. Turns(level, r, "run", level.next[current], [turns EXCEPT ![current] = @ + 1])
  BY <1>1, <1>2, <1>4, GoesOn
<1>6. Sound(level', pc', current', turns')
  BY <1>1, <1>2, <1>5 DEF Sound
<1> QED BY <1>1, <1>6 DEF MoversInv

LEMMA MobjThinksKeeps ==
  ASSUME MoversInv, MobjThinks
  PROVE  MoversInv'
<1>1. /\ pc = "run" /\ pc' = "act" /\ level' = level /\ current' = current /\ turns' = turns
      /\ Sound(level, pc, current, turns) /\ level \in Levels /\ Pointers(level)
      /\ level.error # "noMorePlats"
  BY DEF MobjThinks, MoversInv, Sound
<1>2. current # Cap
  BY BlocksTyped DEF MobjThinks, Mobjs
<1>3. PICK r \in [Nodes -> Nat] : Chain(level, r) /\ Turns(level, r, pc, current, turns)
  BY <1>1 DEF Sound
<1>4. Turns(level, r, "act", current, turns)
  BY <1>1, <1>2, <1>3 DEF Turns
<1>5. Sound(level', pc', current', turns')
  BY <1>1, <1>3, <1>4 DEF Sound
<1> QED BY <1>1, <1>5 DEF MoversInv

LEMMA EndRunKeeps ==
  ASSUME MoversInv, EndRun
  PROVE  MoversInv'
<1>1. /\ pc = "run" /\ pc' = "idle" /\ level' = level /\ current' = Cap /\ current = Cap
      /\ turns' = NoTurns
      /\ Sound(level, pc, current, turns) /\ level \in Levels /\ Pointers(level)
      /\ level.error # "noMorePlats"
  BY DEF EndRun, MoversInv, Sound, NoTurns
<1>2. PICK r \in [Nodes -> Nat] : Chain(level, r) /\ Turns(level, r, pc, current, turns)
  BY <1>1 DEF Sound
<1>3. Turns(level, r, "idle", Cap, NoTurns)
  BY <1>1, <1>2 DEF Turns, NoTurns
<1>4. Sound(level', pc', current', turns')
  BY <1>1, <1>2, <1>3 DEF Sound
<1> QED BY <1>1, <1>4 DEF MoversInv

(* What P_ChangeSector does to the mobjs under a plane leaves the mover    *)
(* that moves it as it was.                                                *)
LEMMA CrushedSound ==
  ASSUME NEW L, NEW p, NEW c \in Blocks, NEW n, Sound(L, p, c, n), Moves(L.th[c]),
         L.error # "noMorePlats", NEW M \in Crushed(L, c)
  PROVE  Sound(M, p, c, n) /\ M.th[c] = L.th[c] /\ M.error # "noMorePlats"
<1>1. L \in Levels /\ Pointers(L) /\ c # Cap
  BY BlocksTyped DEF Sound
<1>2. M = L \/ (\E m \in Mobjs(L) : M = P_RemoveThinker(L, m)) \/ M = Started(L, Item)
  BY DEF Crushed
<1>3. ASSUME NEW m \in Mobjs(L), M = P_RemoveThinker(L, m)
      PROVE  Sound(M, p, c, n) /\ M.th[c] = L.th[c] /\ M.error # "noMorePlats"
  <2>1. Changed(L, M)
    BY <1>1, <1>3, MobjRemoved
  <2>2. c # m
    BY DEF Mobjs, Moves
  <2>3. M.th[c] = L.th[c]
    BY <1>1, <1>3, <2>2, MobjRemoved
  <2>4. Sound(M, p, c, n)
    BY <2>1, ChangedSound
  <2> QED BY <2>1, <2>3, <2>4 DEF Changed
<1>4. CASE M = Started(L, Item)
  <2>1. Fresh(L, Item)
    BY ItemProper DEF Fresh
  <2>2. Sound(M, p, c, n)
    BY <1>1, <1>4, <2>1, ItemProper, StartedSound
  <2>3. Grown(L, M, Item)
    BY <1>1, <1>4, ItemProper, StartedLevel
  <2>4. Live(L.th[c]) /\ Item.what # "plat"
    BY ItemProper DEF Moves
  <2> QED BY <2>2, <2>3, <2>4 DEF Grown
<1> QED BY <1>2, <1>3, <1>4

LEMMA MoverThinksKeeps ==
  ASSUME MoversInv, MoverThinks
  PROVE  MoversInv'
<1>1. /\ pc = "run" /\ current # Cap /\ Moves(level.th[current])
      /\ Sound(level, pc, current, turns) /\ level.error # "noMorePlats"
      /\ current' = level'.next[current] /\ turns' = [turns EXCEPT ![current] = @ + 1]
  BY DEF MoverThinks, Advance, Passed, MoversInv
<1>2a. PICK M \in Crushed(level, current) : \E L \in Thought(M, current) : Becomes(L)
  BY DEF MoverThinks
<1>2. PICK L \in Thought(M, current) : Becomes(L)
  BY <1>2a
<1>3. current \in Blocks
  BY <1>1 DEF Sound, Turns, Linked
<1>4. /\ Sound(M, pc, current, turns) /\ M.th[current] = level.th[current]
      /\ M.error # "noMorePlats"
  BY <1>1, <1>2, <1>3, CrushedSound
<1>5. Changed(M, L)
  BY <1>1, <1>2, <1>3, <1>4, ThoughtChanges DEF Sound
<1>6. Sound(L, pc, current, turns)
  BY <1>4, <1>5, ChangedSound
<1>7. PICK r \in [Nodes -> Nat] : Chain(L, r) /\ Turns(L, r, pc, current, turns)
  BY <1>6 DEF Sound
<1>8. L \in Levels /\ Pointers(L) /\ current \in Linked(L)
  BY <1>1, <1>6, <1>7 DEF Sound, Turns
<1>9. Turns(L, r, "run", L.next[current], [turns EXCEPT ![current] = @ + 1])
  BY <1>1, <1>7, <1>8, GoesOn
<1>10. Sound(L, pc, L.next[current], [turns EXCEPT ![current] = @ + 1])
  BY <1>1, <1>7, <1>8, <1>9 DEF Sound
<1>11. level' = L
  BY <1>2 DEF Becomes
<1> QED BY <1>1, <1>2, <1>10, <1>11, BecomesKeeps

LEMMA NextLevelKeeps ==
  ASSUME MoversInv, NextLevel
  PROVE  MoversInv'
<1>1. /\ pc = "idle" /\ Becomes(P_SetupLevel) /\ current' = Cap /\ turns' = NoTurns
  BY IdleTurns DEF NextLevel
<1>2. Sound(P_SetupLevel, pc, Cap, NoTurns)
  BY <1>1, SetupSound
<1> QED BY <1>1, <1>2, BecomesKeeps

LEMMA ReloadKeeps ==
  ASSUME MoversInv, Reload
  PROVE  MoversInv'
<1> DEFINE world == P_UnArchiveThinkers(P_SetupLevel, P_ArchiveThinkers(level))
           L == [P_UnArchiveSpecials(world, P_ArchiveSpecials(level)) EXCEPT !.used = level.used]
<1>1. /\ pc = "idle" /\ Becomes(L) /\ current' = Cap /\ turns' = NoTurns
  BY IdleTurns DEF Reload
<1>2. Sound(level, pc, current, turns)
  BY DEF MoversInv
<1>3. Sound(L, "idle", Cap, NoTurns)
  BY <1>2, ReloadSound
<1> HIDE DEF L
<1>4. Sound(L, pc, Cap, NoTurns)
  BY <1>1, <1>3
<1> QED BY <1>1, <1>4, BecomesKeeps

-----------------------------------------------------------------------------
(* P_SetupLevel leaves a list P_RunThinkers can go through, and no step of *)
(* P_RunThinkers, of the think functions of plats, ceilings, floors and    *)
(* doors, of the lines that start and stop them, and no loaded game leaves *)
(* one that it cannot.                                                     *)
THEOREM MoversInvariant == Spec => []MoversInv
<1>1. Init => MoversInv
  <2> SUFFICES ASSUME Init PROVE MoversInv
    OBVIOUS
  <2>1. level = P_SetupLevel /\ pc = "idle" /\ current = Cap /\ turns = NoTurns
    BY DEF Init, NoTurns
  <2> QED BY <2>1, SetupSound DEF MoversInv
<1>2. MoversInv /\ [Next]_vars => MoversInv'
  <2> SUFFICES ASSUME MoversInv, [Next]_vars PROVE MoversInv'
    OBVIOUS
  <2>1. ASSUME NEW line \in Lines, UseLine(line) PROVE MoversInv'
    BY <2>1, UseLineKeeps
  <2>2. CASE P_SpawnMobj
    BY <2>2, SpawnKeeps
  <2>3. CASE P_RemoveMobj
    BY <2>3, RemoveKeeps
  <2>4. CASE StartRun
    BY <2>4, StartRunKeeps
  <2>5. CASE FreeRemoved
    BY <2>5, FreeRemovedKeeps
  <2>6. CASE SkipStopped \/ MobjDone
    BY <2>6, SkipStoppedKeeps
  <2>7. CASE MoverThinks
    BY <2>7, MoverThinksKeeps
  <2>8. CASE MobjThinks
    BY <2>8, MobjThinksKeeps
  <2>9. CASE EndRun
    BY <2>9, EndRunKeeps
  <2>10. CASE NextLevel
    BY <2>10, NextLevelKeeps
  <2>11. CASE Reload
    BY <2>11, ReloadKeeps
  <2>12. CASE UNCHANGED vars
    BY <2>12 DEF vars, MoversInv
  <2> QED BY <2>1, <2>2, <2>3, <2>4, <2>5, <2>6, <2>7, <2>8, <2>9, <2>10, <2>11, <2>12 DEF Next, RunStep
<1> QED BY <1>1, <1>2, PTL DEF Spec

(* While P_RunThinkers stands in the middle of it, with thinkers added by  *)
(* P_AddThinker, marked by P_RemoveThinker and unlinked, the list leads    *)
(* through every thinker once and back, and currentthinker is in it.       *)
THEOREM ListSoundAlways == Spec => []ListSound
<1>1. MoversInv => ListSound
  <2> SUFFICES ASSUME MoversInv PROVE ListSound
    OBVIOUS
  <2>1. level \in Levels /\ pc \in {"idle", "run", "act", "error"}
    BY DEF MoversInv, Sound
  <2>2. PICK r \in [Nodes -> Nat] : Chain(level, r) /\ Turns(level, r, pc, current, turns)
    BY DEF MoversInv, Sound
  <2>3. current \in Linked(level) \cup {Cap} /\ turns \in [Blocks -> {0, 1}]
    BY <2>2 DEF Turns
  <2>4. TypeOK
    <3>1. turns \in [Blocks -> Nat] /\ current \in Blocks \cup {Cap}
      BY <2>3 DEF Linked
    <3>2. \A b \in Blocks : level.th[b] \in Thinkers
      BY <2>1, LevelFields
    <3>3. \A b \in Blocks :
            /\ level.th[b].function \in {"none", "think", "stopped", "removed", "lost"}
            /\ level.th[b].what \in {"none", "mobj", "plat", "ceiling", "floor", "door"}
      BY <3>2 DEF Thinkers, Kinds
    <3> QED BY <2>1, <3>1, <3>3 DEF TypeOK
  <2>5. Walk(level)[Cardinality(Blocks)] = Cap /\ InList(level) = Linked(level)
    BY <2>1, <2>2, WalkAll
  <2>6. \A b \in Linked(level) \cup {Cap} : level.prev[level.next[b]] = b
    BY <2>2 DEF Chain
  <2>7. Linked(level) = {b \in Blocks : level.th[b].function \in {"think", "stopped", "removed"}}
    BY DEF Linked
  <2> QED BY <2>3, <2>4, <2>5, <2>6, <2>7 DEF ListSound
<1> QED BY <1>1, MoversInvariant, PTL

(* specialdata, activeplats and activeceilings point to movers that are    *)
(* alive, and every plat is in activeplats: P_RemoveActivePlat never comes *)
(* to its I_Error, and T_PlatRaise and the lines write to no freed memory. *)
THEOREM PointersAlwaysLive == Spec => []PointersLive
<1>1. MoversInv => PointersLive
  <2> SUFFICES ASSUME MoversInv PROVE PointersLive
    OBVIOUS
  <2>1. level \in Levels /\ Pointers(level)
    BY DEF MoversInv, Sound
  <2>2. \A s \in Sectors : level.special[s] # Null =>
          Moves(level.th[level.special[s]]) /\ level.th[level.special[s]].sector = s
    BY <2>1 DEF Pointers, SpecialOK
  <2>3. \A i \in DOMAIN level.plats : level.plats[i] # Null => Moves(level.th[level.plats[i]])
    BY <2>1 DEF Pointers, ArrayOK
  <2>4. \A i \in DOMAIN level.ceilings : level.ceilings[i] # Null =>
          Moves(level.th[level.ceilings[i]]) /\ level.th[level.ceilings[i]].what = "ceiling"
    BY <2>1 DEF Pointers, ArrayOK
  <2>5. ASSUME NEW b \in Blocks, level.th[b].what = "plat", Live(level.th[b]), level.error = "none"
        PROVE  Cardinality({i \in DOMAIN level.plats : level.plats[i] = b}) = 1
    <3>1. PICK i \in DOMAIN level.plats : level.plats[i] = b
      BY <2>1, <2>5 DEF Pointers, PlatsListed
    <3>2. b # Null
      BY BlocksTyped DEF Cap
    <3>3. \A j \in DOMAIN level.plats : level.plats[j] = b => j = i
      BY <2>1, <3>1, <3>2 DEF Pointers, ArrayOK
    <3>4. {j \in DOMAIN level.plats : level.plats[j] = b} = {i}
      BY <3>1, <3>3
    <3> QED BY <3>4, FS_Singleton
  <2>6. level.error # "cantFindPlat"
    BY <2>1 DEF Pointers
  <2> QED BY <2>2, <2>3, <2>4, <2>5, <2>6 DEF PointersLive
<1> QED BY <1>1, MoversInvariant, PTL

(* EV_DoPlat, EV_DoCeiling, EV_DoFloor, EV_DoDoor and EV_VerticalDoor      *)
(* start no mover in a sector that has one, apart from the rings of donuts *)
(* and doors that stay open, and P_UnArchiveSpecials makes no second one.  *)
THEOREM OneMoverAlways == Spec => []OneMover
<1>1. MoversInv => OneMover
  BY DEF MoversInv, Sound, Pointers, Alone, OneMover
<1> QED BY <1>1, MoversInvariant, PTL

(* P_RunThinkers calls no thinker twice in a run and, when it is through,  *)
(* has called each, those included that were added meanwhile.              *)
THEOREM TurnsOnce == Spec => []TurnOnce
<1>1. MoversInv => TurnOnce
  <2> SUFFICES ASSUME MoversInv PROVE TurnOnce
    OBVIOUS
  <2>1. level \in Levels
    BY DEF MoversInv, Sound
  <2>2. PICK r \in [Nodes -> Nat] : Chain(level, r) /\ Turns(level, r, pc, current, turns)
    BY DEF MoversInv, Sound
  <2>3. \A b \in Blocks : turns[b] <= 1
    BY <2>2 DEF Turns
  <2>4. pc = "run" /\ current = Cap => \A b \in Linked(level) : turns[b] = 1
    BY <2>2 DEF Turns
  <2>5. \A b \in Blocks : Live(level.th[b]) => b \in Linked(level)
    BY <2>1, MovesLinked
  <2> QED BY <2>3, <2>4, <2>5 DEF TurnOnce
<1> QED BY <1>1, MoversInvariant, PTL
=============================================================================
