---------------------------- MODULE TicLoopProofs ----------------------------
(***************************************************************************)
(* Proofs about TicLoop, for a ring, a lead, a clock and an overflow of    *)
(* any size, playing or timing a demo.                                     *)
(***************************************************************************)
EXTENDS TicLoop, TLAPS

-----------------------------------------------------------------------------
(* The ring.                                                               *)

(* Two tics less than a ring apart share no slot.                          *)
LEMMA SlotsDiffer ==
  ASSUME NEW b \in Nat \ {0}, NEW i \in Nat, NEW j \in Nat,
         i % b = j % b, i - j < b, j - i < b
  PROVE  i = j
<1> DEFINE q == (i \div b) - (j \div b)
<1>1. /\ i \div b \in Int /\ j \div b \in Int /\ i % b \in Int /\ j % b \in Int
      /\ i = b * (i \div b) + (i % b)
      /\ j = b * (j \div b) + (j % b)
  OBVIOUS
<1>2. q \in Int /\ i - j = b * q
  BY <1>1
<1>3. CASE q >= 1
  <2>1. b * q >= b
    BY <1>2, <1>3
  <2> QED
    BY <2>1, <1>2
<1>4. CASE q <= -1
  <2>1. b * q <= -b
    BY <1>2, <1>4
  <2> QED
    BY <2>1, <1>2
<1>5. CASE q = 0
  BY <1>2, <1>5
<1> QED
  BY <1>2, <1>3, <1>4, <1>5

(* BuildNewTic, repeated n times, makes at most n ticcmds, keeps the lead  *)
(* and overwrites no ticcmd that was not run.                              *)
LEMMA Made ==
  ASSUME TypeOK, LeadBounded, PendingIntact, NEW n \in Nat, BuildTics(n)
  PROVE  /\ maketic' \in Nat /\ ticdata' \in [0 .. BACKUPTICS - 1 -> Nat \cup {-1}]
         /\ maketic <= maketic' /\ maketic' <= maketic + n /\ maketic' - gametic <= MaxLead
         /\ maketic - gametic < MaxLead /\ n = 1 => maketic' = maketic + 1
         /\ \A k \in gametic .. maketic' - 1 : ticdata'[Slot(k)] = k
<1> DEFINE made == maketic .. maketic + Allowed(n) - 1
<1> USE LoopConstants
<1>1. /\ Allowed(n) \in Nat /\ Allowed(n) <= n
      /\ Allowed(n) = 0 \/ maketic + Allowed(n) - gametic <= MaxLead
      /\ maketic - gametic < MaxLead /\ n = 1 => Allowed(n) = 1
  BY DEF Allowed, Smaller, Larger, TypeOK, LeadBounded
<1>2. maketic' = maketic + Allowed(n) /\ maketic \in Nat /\ gametic \in Nat
      /\ gametic <= maketic /\ maketic - gametic <= MaxLead
  BY DEF BuildTics, TypeOK, LeadBounded
<1>3. \A k \in made : k \in Nat /\ Slot(k) \in 0 .. BACKUPTICS - 1
  BY <1>1, <1>2 DEF Slot
<1>4. ASSUME NEW k \in gametic .. maketic + Allowed(n) - 1, NEW j \in made, Slot(j) = Slot(k)
      PROVE  j = k
  <2>1. k \in Nat /\ j \in Nat /\ j - k < BACKUPTICS /\ k - j < BACKUPTICS
    BY <1>1, <1>2
  <2> QED
    BY <2>1, <1>4, SlotsDiffer DEF Slot
<1>5. ticdata' \in [0 .. BACKUPTICS - 1 -> Nat \cup {-1}]
  <2> SUFFICES ASSUME NEW s \in 0 .. BACKUPTICS - 1, NEW k \in made, Slot(k) = s
               PROVE  (CHOOSE i \in made : Slot(i) = s /\ \A j \in made : Slot(j) = s => j <= i) \in Nat
    BY DEF BuildTics, TypeOK
  <2>1. Slot(k) = s /\ \A j \in made : Slot(j) = s => j <= k
    BY <1>1, <1>2, <1>4
  <2> QED
    BY <2>1, <1>3
<1>6. ASSUME NEW k \in gametic .. maketic + Allowed(n) - 1
      PROVE  ticdata'[Slot(k)] = k
  <2>1. k \in Nat /\ Slot(k) \in 0 .. BACKUPTICS - 1
    BY <1>1, <1>2 DEF Slot
  <2>2. CASE k \in made
    <3>1. \A j \in made : Slot(j) = Slot(k) => j <= k
      BY <1>2, <1>4, <2>2
    <3>2. (CHOOSE i \in made : Slot(i) = Slot(k) /\ \A j \in made : Slot(j) = Slot(k) => j <= i) = k
      BY <1>4, <2>2, <3>1
    <3> QED
      BY <2>1, <2>2, <3>2 DEF BuildTics
  <2>3. CASE k \notin made
    <3>1. k \in gametic .. maketic - 1 /\ ~ \E j \in made : Slot(j) = Slot(k)
      BY <1>1, <1>2, <1>4, <2>3
    <3>2. ticdata'[Slot(k)] = ticdata[Slot(k)]
      BY <2>1, <3>1 DEF BuildTics
    <3> QED
      BY <3>1, <3>2 DEF PendingIntact
  <2> QED
    BY <2>2, <2>3
<1> QED
  BY <1>1, <1>2, <1>5, <1>6

-----------------------------------------------------------------------------
(* NetUpdate.                                                              *)

Inv == TypeOK /\ LoopInvariant

(* What a call of NetUpdate keeps, wherever it is made from.               *)
NetKeeps ==
  /\ lasttime' \in -HalfRange .. HalfRange - 1 /\ skiptics' \in Nat
  /\ maketic' \in Nat /\ ticdata' \in [0 .. BACKUPTICS - 1 -> Nat \cup {-1}]
  /\ maketic <= maketic' /\ maketic' - gametic <= MaxLead
  /\ \A k \in gametic .. maketic' - 1 : ticdata'[Slot(k)] = k
  /\ singletics => UNCHANGED maker
  /\ ~singletics => /\ maketic' <= now
                    /\ maketic' - skiptics' + Adjusted(now) - lasttime' <= now

LEMMA Updated ==
  ASSUME Inv, NetUpdate
  PROVE  NetKeeps
<1> USE LoopConstants
<1> TypeOK /\ LeadBounded /\ PendingIntact /\ Paid
  BY DEF Inv, LoopInvariant
<1> DEFINE nowtime == Adjusted(now)
           newtics == nowtime - lasttime
<1>1. CASE singletics
  <2>1. UNCHANGED maker
    BY <1>1 DEF NetUpdate
  <2> QED
    BY <1>1, <2>1 DEF NetKeeps, maker, TypeOK, LeadBounded, PendingIntact
<1>2. CASE ~singletics
  <2>1. CatchUp /\ lasttime' = nowtime
    BY <1>2 DEF NetUpdate, CatchUp, Noted
  <2>2. now \in Nat /\ now < 2 * HalfRange /\ nowtime \in -HalfRange .. HalfRange - 1
        /\ lasttime \in Int /\ newtics \in Int /\ nowtime \in Int
    BY DEF TypeOK, Adjusted
  <2>3. maketic <= now /\ maketic - skiptics + newtics <= now
    BY <1>2, <2>2 DEF Paid, TypeOK
  <2>4. CASE skiptics <= newtics
    <3>1. skiptics' = 0 /\ BuildTics(newtics - skiptics) /\ newtics - skiptics \in Nat
      BY <2>1, <2>2, <2>4 DEF CatchUp, TypeOK
    <3>2. /\ maketic' \in Nat /\ ticdata' \in [0 .. BACKUPTICS - 1 -> Nat \cup {-1}]
          /\ maketic <= maketic' /\ maketic' <= maketic + (newtics - skiptics)
          /\ maketic' - gametic <= MaxLead
          /\ \A k \in gametic .. maketic' - 1 : ticdata'[Slot(k)] = k
      BY <3>1, Made
    <3>3. maketic' <= now
      BY <2>2, <2>3, <3>1, <3>2 DEF TypeOK
    <3>4. maketic' - skiptics' + nowtime - lasttime' = maketic'
      <4>1. maketic' - 0 + nowtime - nowtime = maketic'
        BY <2>2, <3>2
      <4> QED
        BY <2>1, <3>1, <4>1
    <3> QED
      BY <1>2, <2>1, <2>2, <3>1, <3>2, <3>3, <3>4 DEF NetKeeps
  <2>5. CASE ~(skiptics <= newtics)
    <3>1. skiptics' = skiptics - newtics /\ UNCHANGED <<maketic, ticdata>> /\ skiptics' \in Nat
      BY <2>1, <2>2, <2>5 DEF CatchUp, TypeOK
    <3>2. maketic' - skiptics' + nowtime - lasttime' <= now
      BY <2>1, <2>2, <2>3, <3>1 DEF TypeOK
    <3> QED
      BY <1>2, <2>1, <2>2, <2>3, <3>1, <3>2 DEF NetKeeps, TypeOK, LeadBounded, PendingIntact
  <2> QED
    BY <2>4, <2>5
<1> QED
  BY <1>1, <1>2

-----------------------------------------------------------------------------
(* The invariant.                                                          *)

LEMMA InvInit == Init => Inv
<1> SUFFICES ASSUME Init PROVE Inv
  OBVIOUS
<1> USE LoopConstants DEF Init
<1>1. TypeOK
  <2>1. singletics \in BOOLEAN
    OBVIOUS
  <2>2. ticdata \in [0 .. BACKUPTICS - 1 -> Nat \cup {-1}]
    OBVIOUS
  <2>3. now \in 0 .. MaxTime /\ lasttime \in -HalfRange .. HalfRange - 1
    OBVIOUS
  <2> QED
    BY <2>1, <2>2, <2>3 DEF TypeOK
<1>2. LeadBounded /\ PendingIntact /\ NoError /\ Stages /\ Frames
  BY DEF LeadBounded, PendingIntact, NoError, Stages, Frames
<1>3. Paid
  BY DEF Paid, Adjusted
<1> QED
  BY <1>1, <1>2, <1>3 DEF Inv, LoopInvariant

(* The clock.  The overflow only takes time away from NetUpdate.           *)
LEMMA InvTick == Inv /\ Tick => Inv'
<1> SUFFICES ASSUME Inv, Tick PROVE Inv'
  OBVIOUS
<1> USE LoopConstants DEF Inv, LoopInvariant, Tick, maker, local
<1>1. TypeOK'
  BY DEF TypeOK
<1>2. now \in Nat /\ now' = now + 1 /\ UNCHANGED <<singletics, skiptics, maketic, lasttime>>
  BY DEF TypeOK
<1>3. Adjusted(now') <= Adjusted(now) + 1 /\ Adjusted(now) \in Int /\ Adjusted(now') \in Int
  BY <1>2 DEF Adjusted
<1>4. Paid'
  BY <1>2, <1>3 DEF Paid, TypeOK
<1>5. LeadBounded' /\ PendingIntact' /\ NoError' /\ Stages' /\ Frames'
  BY DEF LeadBounded, PendingIntact, NoError, Stages, Frames
<1>6. oldentertics' <= now'
  BY DEF TypeOK
<1> QED
  BY <1>1, <1>4, <1>5, <1>6

(* The steps that only move through TryRunTics.                            *)
LEMMA InvLocal ==
  ASSUME Inv, Enter \/ Ready \/ Check \/ RunDone \/ NextFrame
  PROVE  Inv'
<1> USE LoopConstants
<1>1. UNCHANGED <<clock, maker, gametic>>
  BY DEF Enter, Ready, Check, RunDone, NextFrame
<1>2. LeadBounded' /\ PendingIntact' /\ Paid'
  BY <1>1 DEF Inv, LoopInvariant, LeadBounded, PendingIntact, Paid, clock, maker
<1>3. TypeOK' /\ NoError' /\ oldentertics' <= now'
  <2> USE DEF Inv, LoopInvariant, TypeOK, NoError, clock, maker, local
  <2>1. CASE Enter
    BY <2>1 DEF Enter
  <2>2. CASE Ready
    BY <2>2 DEF Ready
  <2>3. CASE Check
    BY <2>3 DEF Check, Return
  <2>4. CASE RunDone
    BY <2>4 DEF RunDone, Return
  <2>5. CASE NextFrame
    BY <2>5 DEF NextFrame
  <2> QED
    BY <2>1, <2>2, <2>3, <2>4, <2>5
<1>4. Stages' /\ Frames'
  <2> USE DEF Inv, LoopInvariant, TypeOK, Stages, Frames, clock, maker, local
  <2>1. CASE Enter
    BY <2>1 DEF Enter
  <2>2. CASE Ready
    BY <2>2 DEF Ready, Enough
  <2>3. CASE Check
    BY <2>3 DEF Check, Return
  <2>4. CASE RunDone
    BY <2>4 DEF RunDone, Return, More
  <2>5. CASE NextFrame
    BY <2>5 DEF NextFrame
  <2> QED
    BY <2>1, <2>2, <2>3, <2>4, <2>5
<1> QED
  BY <1>2, <1>3, <1>4 DEF Inv, LoopInvariant

(* A tic is run: there is a ticcmd for it, and "gametic>lowtic" is no case. *)
LEMMA InvRunTic == Inv /\ RunTic => Inv'
<1> SUFFICES ASSUME Inv, RunTic PROVE Inv'
  OBVIOUS
<1> USE DEF Inv, LoopInvariant, RunTic, More
<1>1. /\ lowtic <= maketic /\ gametic + counts <= lowtic /\ counts >= 1
      /\ lowtic \in Nat /\ maketic \in Nat /\ gametic \in Nat /\ counts \in Nat /\ ran \in Nat
  BY DEF Stages, TypeOK
<1>2. /\ gametic' = gametic + 1 /\ counts' = counts - 1 /\ ran' = ran + 1 /\ pc' = "commands"
      /\ UNCHANGED <<clock, maker, entertic, oldentertics, realtics, lowtic, started, idle>>
  BY <1>1
<1>3. TypeOK' /\ oldentertics' <= now'
  BY <1>1, <1>2 DEF TypeOK, clock, maker
<1>4. LeadBounded' /\ PendingIntact' /\ Paid' /\ NoError'
  BY <1>1, <1>2, LoopConstants DEF LeadBounded, PendingIntact, Paid, NoError, clock, maker
<1>5. Stages' /\ Frames'
  BY <1>1, <1>2 DEF Stages, Frames, clock, maker
<1> QED
  BY <1>3, <1>4, <1>5

(* The steps that call NetUpdate.                                          *)
LEMMA Ticcmds ==
  ASSUME Inv, NetKeeps, UNCHANGED <<clock, gametic>>
  PROVE  LeadBounded' /\ PendingIntact' /\ Paid'
<1>1. gametic <= maketic /\ maketic <= maketic' /\ maketic \in Nat /\ maketic' \in Nat /\ gametic \in Nat
  BY DEF Inv, LoopInvariant, LeadBounded, TypeOK, NetKeeps
<1>2. LeadBounded'
  BY <1>1 DEF NetKeeps, LeadBounded
<1>3. PendingIntact'
  BY DEF NetKeeps, PendingIntact
<1>4. Paid'
  <2>1. CASE singletics
    BY <2>1 DEF Paid, clock
  <2>2. CASE ~singletics
    BY <2>2 DEF NetKeeps, Paid, clock
  <2> QED
    BY <2>1, <2>2
<1> QED
  BY <1>2, <1>3, <1>4

LEMMA InvUpdates ==
  ASSUME Inv, Poll \/ Commands \/ Display
  PROVE  Inv'
<1> NetUpdate /\ UNCHANGED <<clock, gametic>>
  BY DEF Poll, Commands, Display
<1>1. NetKeeps /\ LeadBounded' /\ PendingIntact' /\ Paid'
  BY Updated, Ticcmds
<1>2. /\ maketic <= maketic' /\ maketic' \in Nat /\ maketic \in Nat /\ gametic \in Nat
      /\ gametic <= maketic
      /\ singletics => maketic' = maketic
  BY <1>1 DEF NetKeeps, maker, Inv, LoopInvariant, LeadBounded, TypeOK
<1>3. CASE Poll
  <2>0. lowtic' = maketic'
    BY <1>3 DEF Poll, GetLowTic
  <2>1. pc = "wait" /\ UNCHANGED <<entertic, oldentertics, realtics, counts, started, ran, idle>>
    BY <1>3 DEF Poll
  <2>3. pc' = "check"
    <3>1. ~(lowtic' < gametic)
      BY <1>2, <2>0
    <3> QED
      BY <1>3, <3>1 DEF Poll
  <2>2. ~singletics
    BY <1>3, <2>1 DEF Poll, Enough, Inv, LoopInvariant, Frames, TypeOK
  <2> QED
    BY <1>1, <1>2, <2>0, <2>1, <2>2, <2>3
    DEF Inv, LoopInvariant, TypeOK, NoError, Stages, Frames, NetKeeps, clock
<1>4. CASE Commands
  <2>1. pc = "commands" /\ pc' = "run" /\ UNCHANGED <<local, started, ran, idle>>
    BY <1>4 DEF Commands
  <2> QED
    BY <1>1, <1>2, <2>1
    DEF Inv, LoopInvariant, TypeOK, NoError, Stages, Frames, NetKeeps, clock, local
<1>5. CASE Display
  <2>1. pc = "display" /\ UNCHANGED <<pc, local, started, ran, idle>>
    BY <1>5 DEF Display
  <2> QED
    BY <1>1, <1>2, <2>1
    DEF Inv, LoopInvariant, TypeOK, NoError, Stages, Frames, NetKeeps, clock, local
<1> QED
  BY <1>3, <1>4, <1>5

(* The first NetUpdate of a call, and how many tics it is to run.          *)
LEMMA InvFirstUpdate == Inv /\ FirstUpdate => Inv'
<1> SUFFICES ASSUME Inv, FirstUpdate PROVE Inv'
  OBVIOUS
<1> UNCHANGED <<clock, gametic>>
  BY DEF FirstUpdate
<1>1. /\ pc = "update" /\ pc' = "wait" /\ lowtic' = maketic'
      /\ counts' = Counts(lowtic' - gametic)
      /\ UNCHANGED <<singletics, now, gametic, entertic, oldentertics, realtics, started, ran, idle>>
  BY DEF FirstUpdate, GetLowTic, clock
<1>2. TypeOK /\ LeadBounded /\ PendingIntact /\ Frames /\ oldentertics <= now
  BY DEF Inv, LoopInvariant
<1>3. CASE singletics
  <2>1. BuildTics(1) /\ UNCHANGED <<lasttime, skiptics>> /\ maketic = gametic /\ ran = 0
    BY <1>1, <1>2, <1>3 DEF FirstUpdate, Frames
  <2>2. /\ maketic' \in Nat /\ ticdata' \in [0 .. BACKUPTICS - 1 -> Nat \cup {-1}]
        /\ maketic' - gametic <= MaxLead /\ maketic' = maketic + 1
        /\ \A k \in gametic .. maketic' - 1 : ticdata'[Slot(k)] = k
    <3>1. maketic - gametic < MaxLead
      BY <1>2, <2>1, LoopConstants DEF TypeOK
    <3> QED
      BY <1>2, <2>1, <3>1, Made
  <2>3. counts' = 1 /\ lowtic' = gametic + 1
    <3>1. lowtic' = gametic + 1 /\ gametic \in Nat /\ realtics \in Nat
      BY <1>1, <1>2, <2>1, <2>2 DEF TypeOK
    <3>2. lowtic' - gametic = 1
      BY <3>1
    <3> QED
      BY <1>1, <3>1, <3>2 DEF Counts, Larger
  <2>4. TypeOK' /\ NoError'
    BY <1>1, <1>2, <2>1, <2>2, <2>3 DEF TypeOK, NoError
  <2>5. LeadBounded' /\ PendingIntact'
    BY <1>1, <1>2, <2>1, <2>2 DEF TypeOK, LeadBounded, PendingIntact
  <2>6. Stages' /\ Frames' /\ Paid'
    BY <1>1, <1>2, <1>3, <2>1, <2>2, <2>3 DEF TypeOK, Stages, Frames, Paid
  <2> QED
    BY <1>1, <1>2, <2>4, <2>5, <2>6 DEF Inv, LoopInvariant
<1>4. CASE ~singletics
  <2>1. NetUpdate
    BY <1>4 DEF FirstUpdate
  <2>2. NetKeeps /\ LeadBounded' /\ PendingIntact' /\ Paid'
    BY <2>1, Updated, Ticcmds
  <2>3. counts' \in Nat /\ counts' >= 1
    <3>1. lowtic' - gametic \in Int /\ realtics \in Nat
      BY <1>1, <1>2, <2>2 DEF TypeOK, NetKeeps
    <3> QED
      BY <1>1, <3>1 DEF Counts, Larger
  <2>4. TypeOK' /\ NoError'
    BY <1>1, <1>2, <2>2, <2>3 DEF TypeOK, NoError, NetKeeps
  <2>5. Stages' /\ Frames'
    BY <1>1, <1>2, <1>4, <2>2, <2>3 DEF TypeOK, Stages, Frames, LeadBounded, NetKeeps
  <2> QED
    BY <1>1, <1>2, <2>2, <2>4, <2>5 DEF Inv, LoopInvariant
<1> QED
  BY <1>2, <1>3, <1>4 DEF TypeOK

(* D_StartGameLoop forgives the clock what it has not been asked for.      *)
LEMMA InvStart == Inv /\ D_StartGameLoop => Inv'
<1> SUFFICES ASSUME Inv, D_StartGameLoop PROVE Inv'
  OBVIOUS
<1> USE LoopConstants DEF Inv, LoopInvariant
<1>1. /\ pc = "display" /\ pc' = "enter" /\ lasttime' = Adjusted(now) /\ idle' = 0 /\ started' = TRUE
      /\ UNCHANGED <<singletics, now, skiptics, maketic, ticdata, gametic, ran>>
      /\ UNCHANGED <<entertic, oldentertics, realtics, lowtic, counts>>
  BY DEF D_StartGameLoop, clock, local
<1>2. Adjusted(now) \in -HalfRange .. HalfRange - 1 /\ Adjusted(now) \in Int
  BY DEF Adjusted, TypeOK
<1>3. TypeOK' /\ NoError' /\ oldentertics' <= now'
  BY <1>1, <1>2 DEF TypeOK, NoError
<1>4. LeadBounded' /\ PendingIntact' /\ Stages' /\ Frames'
  BY <1>1 DEF LeadBounded, PendingIntact, Stages, Frames
<1>5. Paid'
  <2>1. CASE singletics
    BY <1>1, <2>1 DEF Paid
  <2>2. CASE ~singletics
    <3>1. maketic <= now /\ maketic \in Nat /\ skiptics \in Nat /\ now \in Nat
      BY <2>2 DEF Paid, TypeOK
    <3>2. maketic' - skiptics' + Adjusted(now') - lasttime' <= now'
      BY <1>1, <1>2, <3>1
    <3> QED
      BY <1>1, <3>1, <3>2 DEF Paid
  <2> QED
    BY <2>1, <2>2
<1> QED
  BY <1>3, <1>4, <1>5

(* Every variable of the loop keeps its type, and the invariant holds, for *)
(* any constants: the facts the theorems below are read off.               *)
LEMMA InvAlways == Spec => []Inv
<1>1. Inv /\ [Next]_vars => Inv'
  <2> SUFFICES ASSUME Inv, [Next]_vars PROVE Inv'
    OBVIOUS
  <2>1. CASE UNCHANGED vars
    BY <2>1 DEF Inv, LoopInvariant, TypeOK, LeadBounded, PendingIntact, NoError, Stages, Frames,
       Paid, vars, clock, maker, local
  <2> QED
    BY <2>1, InvTick, InvLocal, InvRunTic, InvUpdates, InvFirstUpdate, InvStart DEF Next, Frame
<1> QED
  BY <1>1, InvInit, PTL DEF Spec

-----------------------------------------------------------------------------
(* What the game relies on.                                                *)

(* The variables of d_loop.c stay in their types, the overflow included.   *)
THEOREM LoopTypes == Spec => []TypeOK
<1>1. Inv => TypeOK
  BY DEF Inv
<1> QED
  BY <1>1, InvAlways, PTL

(* No ticcmd that was not run is ever overwritten in the ring of BuildNewTic. *)
THEOREM NoTiccmdLost == Spec => []PendingIntact
<1>1. Inv => PendingIntact
  BY DEF Inv, LoopInvariant
<1> QED
  BY <1>1, InvAlways, PTL

(* Tics are run after their ticcmds, which are made at most MaxLead ahead. *)
THEOREM LeadStaysBounded == Spec => []LeadBounded
<1>1. Inv => LeadBounded
  BY DEF Inv, LoopInvariant
<1> QED
  BY <1>1, InvAlways, PTL

(* The two calls of I_Error in TryRunTics are unreachable.                 *)
THEOREM ErrorsUnreachable == Spec => []NoError
<1>1. Inv => NoError
  BY DEF Inv, LoopInvariant
<1> QED
  BY <1>1, InvAlways, PTL

(* The game is never ahead of the clock, not even after GetAdjustedTime has *)
(* overflowed.                                                             *)
THEOREM NeverAheadOfClock == Spec => []NotAheadOfClock
<1>1. Inv => NotAheadOfClock
  BY DEF Inv, LoopInvariant, Paid, NotAheadOfClock
<1> QED
  BY <1>1, InvAlways, PTL

-----------------------------------------------------------------------------
(* Two calls in a row do not come back with nothing run.                   *)

(* NetUpdate before the overflow: it owes no tics, and unless one is there *)
(* to run now, the clock has not moved since its last call.                *)
LEMMA CaughtUp ==
  ASSUME Inv, NetUpdate, ~singletics, now < HalfRange, skiptics = 0, lasttime <= now
  PROVE  /\ skiptics' = 0 /\ lasttime' = now
         /\ maketic' > gametic \/ (maketic' = gametic /\ lasttime = now)
<1> USE LoopConstants
<1>1. /\ now \in Nat /\ lasttime \in Int /\ maketic \in Nat /\ gametic \in Nat
      /\ gametic <= maketic /\ Adjusted(now) = now
  BY DEF Inv, LoopInvariant, TypeOK, LeadBounded, Adjusted
<1>2. CatchUp /\ lasttime' = now
  BY <1>1 DEF NetUpdate, CatchUp, Noted
<1>3. now - lasttime \in Nat /\ 0 <= now - lasttime
  BY <1>1
<1>4. skiptics' = 0 /\ BuildTics(now - lasttime)
  <2>1. skiptics' = 0 /\ BuildTics((now - lasttime) - 0)
    BY <1>1, <1>2, <1>3 DEF CatchUp
  <2>2. (now - lasttime) - 0 = now - lasttime
    BY <1>3
  <2> QED
    BY <2>1, <2>2
<1>5. maketic' = maketic + Allowed(now - lasttime)
  BY <1>4 DEF BuildTics
<1>6. /\ Allowed(now - lasttime) \in Nat
      /\ Allowed(now - lasttime) = 0 => now - lasttime = 0 \/ maketic - gametic >= MaxLead
  BY <1>1, <1>3 DEF Allowed, Smaller, Larger
<1>7. maketic' > gametic \/ (maketic' = gametic /\ lasttime = now)
  <2>1. CASE Allowed(now - lasttime) = 0 /\ now - lasttime = 0
    BY <1>1, <1>5, <2>1
  <2>2. CASE Allowed(now - lasttime) = 0 /\ maketic - gametic >= MaxLead
    BY <1>1, <1>5, <2>2
  <2>3. CASE Allowed(now - lasttime) >= 1
    BY <1>1, <1>5, <1>6, <2>3
  <2> QED
    BY <1>6, <2>1, <2>2, <2>3
<1> QED
  BY <1>2, <1>4, <1>7

(* How far one tic is ahead of another.                                    *)
LEMMA Ahead ==
  ASSUME NEW m \in Nat, NEW g \in Nat, m > g
  PROVE  m - g \in Nat /\ m - g > 0
OBVIOUS

(* A call never plans to run more tics than there are, unless it has none. *)
LEMMA CountsFit ==
  ASSUME NEW n \in Nat, n > 0, realtics \in Nat
  PROVE  Counts(n) \in Nat /\ Counts(n) <= n /\ Counts(n) >= 1
BY DEF Counts, Larger

Awake == Inv /\ Wakes

LEMMA WakesInit == Init => Wakes
BY DEF Init, Wakes, Due

(* The steps that call NetUpdate but the first of a call.                  *)
LEMMA WakesUpdates ==
  ASSUME Awake, Poll \/ Commands \/ Display
  PROVE  Wakes'
<1> USE DEF Awake
<1>1. Inv /\ Wakes /\ TypeOK /\ NetUpdate
  BY DEF Inv, Poll, Commands, Display
<1>2. UNCHANGED <<now, singletics, gametic, entertic, counts, ran, idle, started>>
  BY DEF Poll, Commands, Display, clock, local
<1>3. /\ now < HalfRange /\ ~singletics =>
           /\ skiptics' = 0 /\ lasttime' = now
           /\ maketic' > gametic \/ (maketic' = gametic /\ lasttime = now)
  BY <1>1, CaughtUp DEF Wakes
<1>4. CASE Poll
  <2>1. /\ pc = "wait" /\ ~Enough /\ lowtic' = maketic' /\ pc' \in {"check", "error"}
    BY <1>4 DEF Poll, GetLowTic
  <2>2. now < HalfRange /\ ~singletics => idle = 0 /\ (maketic' > gametic \/ lasttime' <= entertic)
    <3>1. SUFFICES ASSUME now < HalfRange, ~singletics PROVE idle = 0 /\ (maketic' > gametic \/ lasttime' <= entertic)
      OBVIOUS
    <3>2. idle = 0
      BY <1>1, <2>1, <3>1 DEF Wakes
    <3>3. CASE maketic' = gametic /\ lasttime = now
      <4>1. ~(maketic > gametic)
        BY <1>1, <3>3, Updated DEF NetKeeps, TypeOK
      <4>2. lasttime <= entertic
        BY <1>1, <2>1, <3>1, <4>1 DEF Wakes
      <4> QED
        BY <1>3, <3>1, <3>2, <3>3, <4>2
    <3> QED
      BY <1>3, <3>1, <3>2, <3>3
  <2>3. ran = 0
    BY <1>1, <2>1 DEF Wakes
  <2> QED
    BY <1>1, <1>2, <1>3, <2>1, <2>2, <2>3 DEF Wakes, TypeOK
<1>5. CASE Commands
  <2>1. pc = "commands" /\ pc' = "run" /\ ran >= 1
    BY <1>1, <1>5 DEF Commands, Wakes
  <2> QED
    BY <1>1, <1>2, <1>3, <2>1 DEF Wakes, TypeOK
<1>6. CASE Display
  <2>1. pc = "display" /\ pc' = "display"
    BY <1>6 DEF Display
  <2>2. ASSUME now < HalfRange, ~singletics, idle = 1
        PROVE  maketic' > gametic
    <3>1. Due
      BY <1>1, <2>1, <2>2 DEF Wakes
    <3> QED
      BY <1>1, <1>3, <2>2, <3>1, Updated DEF Due, TypeOK, NetKeeps
  <2> QED
    BY <1>1, <1>2, <1>3, <2>1, <2>2 DEF Wakes, TypeOK, Due
<1> QED
  BY <1>4, <1>5, <1>6

(* The first NetUpdate of a call: after a call that ran nothing there is a *)
(* tic, and this one does not wait for more.                               *)
LEMMA WakesFirst ==
  ASSUME Awake, FirstUpdate
  PROVE  Wakes'
<1> USE DEF Awake
<1>1. Inv /\ Wakes /\ TypeOK
  BY DEF Inv
<1>2. /\ pc = "update" /\ pc' = "wait" /\ lowtic' = maketic'
      /\ counts' = Counts(lowtic' - gametic) /\ ran = 0
      /\ UNCHANGED <<now, singletics, gametic, entertic, ran, idle, started>>
  BY <1>1 DEF FirstUpdate, GetLowTic, Wakes, clock
<1>3. CASE singletics
  BY <1>1, <1>2, <1>3 DEF Wakes
<1>4. CASE ~singletics /\ ~(now < HalfRange)
  BY <1>1, <1>2, <1>4 DEF Wakes
<1>5. CASE ~singletics /\ now < HalfRange
  <2>1. NetUpdate /\ skiptics = 0 /\ lasttime <= now
    BY <1>1, <1>5 DEF FirstUpdate, Wakes
  <2>2. /\ skiptics' = 0 /\ lasttime' = now
        /\ maketic' > gametic \/ (maketic' = gametic /\ lasttime = now)
    BY <1>1, <1>5, <2>1, CaughtUp
  <2>3. maketic <= maketic' /\ maketic' \in Nat /\ gametic \in Nat /\ gametic <= maketic /\ maketic \in Nat
    BY <1>1, <2>1, Updated DEF NetKeeps, Inv, LoopInvariant, LeadBounded, TypeOK
  <2>4. maketic' > gametic \/ lasttime' <= entertic
    <3>1. CASE maketic' = gametic /\ lasttime = now
      <4>1. ~(maketic > gametic)
        BY <2>3, <3>1
      <4>2. lasttime <= entertic
        BY <1>1, <1>2, <1>5, <4>1 DEF Wakes
      <4> QED
        BY <2>2, <3>1, <4>2
    <3> QED
      BY <2>2, <3>1
  <2>5. ASSUME idle = 1
        PROVE  Enough'
    <3>1. Due
      BY <1>1, <1>2, <1>5, <2>5 DEF Wakes
    <3>2. maketic' > gametic
      <4>1. CASE maketic > gametic
        BY <2>3, <4>1
      <4>2. CASE lasttime < now
        <5>1. lasttime # now
          BY <1>1, <4>2, LoopConstants DEF TypeOK
        <5> QED
          BY <2>2, <5>1
      <4> QED
        BY <3>1, <4>1, <4>2 DEF Due
    <3>3. lowtic' - gametic \in Nat /\ lowtic' - gametic > 0
      <4>1. lowtic' = maketic'
        BY <1>2
      <4>2. maketic' - gametic \in Nat /\ maketic' - gametic > 0
        BY <2>3, <3>2, Ahead
      <4> QED
        BY <4>1, <4>2
    <3>4. counts' \in Nat /\ counts' <= lowtic' - gametic
      BY <1>1, <1>2, <3>3, CountsFit DEF TypeOK
    <3>5. lowtic' >= gametic + counts'
      BY <1>2, <2>3, <3>4
    <3> QED
      BY <1>2, <3>5 DEF Enough
  <2>6. idle = 0 \/ idle = 1
    BY <1>1, <1>5 DEF Wakes
  <2>7. lasttime' <= now'
    BY <1>1, <1>2, <2>2 DEF TypeOK
  <2> QED
    BY <1>2, <1>5, <2>2, <2>4, <2>5, <2>6, <2>7 DEF Wakes
<1> QED
  BY <1>1, <1>3, <1>4, <1>5 DEF TypeOK

(* The steps of a call that leave the ticcmds alone, and the clock.        *)
LEMMA WakesLocal ==
  ASSUME Awake, Enter \/ Ready \/ Check \/ RunTic \/ RunDone \/ NextFrame \/ Tick \/ D_StartGameLoop
  PROVE  Wakes'
<1> USE DEF Awake
<1>1. Wakes /\ TypeOK /\ Stages /\ Frames /\ NoError /\ now \in Nat /\ lasttime \in Int /\ LeadBounded
  BY DEF Inv, LoopInvariant, TypeOK
<1>2. CASE Enter
  BY <1>1, <1>2 DEF Enter, Wakes, Due, clock, maker
<1>3. CASE Ready
  BY <1>1, <1>3 DEF Ready, Wakes, clock, maker, local, Stages, TypeOK
<1>4. CASE Check
  <2>1. pc = "check" /\ ~singletics /\ ran = 0 /\ UNCHANGED <<clock, maker, gametic, local, started, ran>>
    BY <1>1, <1>4 DEF Check, Frames, Wakes
  <2>2. CASE TimeIsUp
    <3>1. pc' = "display" /\ idle' = idle + 1
      BY <1>4, <2>1, <2>2 DEF Check, Return
    <3>2. now < HalfRange => Due
      BY <1>1, <2>1, <2>2 DEF Wakes, Due, TimeIsUp, TypeOK
    <3>3. now < HalfRange => idle = 0
      BY <1>1, <2>1 DEF Wakes
    <3> QED
      BY <1>1, <2>1, <3>1, <3>2, <3>3 DEF Wakes, Due, clock, maker, local
  <2>3. CASE ~TimeIsUp
    <3>1. pc' = "wait" /\ idle' = idle
      BY <1>4, <2>3 DEF Check
    <3>2. now < HalfRange => idle = 0
      BY <1>1, <2>1 DEF Wakes
    <3> QED
      BY <1>1, <2>1, <3>1, <3>2 DEF Wakes, clock, maker, local
  <2> QED
    BY <2>2, <2>3
<1>5. CASE RunTic
  <2>1. gametic <= lowtic /\ ran \in Nat
    BY <1>1, <1>5 DEF RunTic, Stages, TypeOK
  <2>2. /\ pc' = "commands" /\ ran' = ran + 1
        /\ UNCHANGED <<now, singletics, skiptics, lasttime, maketic, entertic, idle>>
    BY <1>1, <1>5, <2>1 DEF RunTic, clock, maker, TypeOK
  <2> QED
    BY <1>1, <1>5, <2>1, <2>2 DEF RunTic, Wakes, TypeOK
<1>6. CASE RunDone
  <2>1. ran >= 1
    BY <1>1, <1>6 DEF RunDone, More, Wakes, TypeOK
  <2>2. idle' = 0 /\ pc' = "display"
    BY <1>1, <1>6, <2>1 DEF RunDone, Return, TypeOK
  <2> QED
    BY <1>1, <1>6, <2>1, <2>2 DEF RunDone, Wakes, clock, maker, local
<1>7. CASE NextFrame
  BY <1>1, <1>7 DEF NextFrame, Wakes, Due, clock, maker, local
<1>8. CASE Tick
  <2>1. /\ now' = now + 1
        /\ UNCHANGED <<singletics, lasttime, skiptics, maketic, gametic, pc, entertic, lowtic, counts, ran, idle>>
    BY <1>8 DEF Tick, maker, local
  <2>2. Due => Due'
    BY <1>1, <2>1 DEF Due
  <2>3. Enough' <=> Enough
    BY <2>1 DEF Enough
  <2>4. now' < HalfRange => now < HalfRange
    BY <1>1, <2>1, LoopConstants
  <2>5. lasttime <= now => lasttime' <= now'
    BY <1>1, <2>1
  <2> QED
    BY <1>1, <2>1, <2>2, <2>3, <2>4, <2>5 DEF Wakes
<1>9. CASE D_StartGameLoop
  BY <1>1, <1>9 DEF D_StartGameLoop, Wakes, Due, clock, local, Adjusted
<1> QED
  BY <1>2, <1>3, <1>4, <1>5, <1>6, <1>7, <1>8, <1>9

LEMMA AwakeAlways == Spec => []Awake
<1>1. Init => Awake
  BY InvInit, WakesInit DEF Awake
<1>2. Inv /\ Wakes /\ [Next]_vars => Wakes'
  <2> SUFFICES ASSUME Inv, Wakes, [Next]_vars PROVE Wakes'
    OBVIOUS
  <2>1. Awake
    BY DEF Awake
  <2>2. CASE UNCHANGED vars
    BY <2>2 DEF Wakes, Due, Enough, vars, clock, maker, local
  <2> QED
    BY <2>1, <2>2, WakesUpdates, WakesFirst, WakesLocal DEF Next, Frame
<1>3. Inv /\ Wakes <=> Awake
  BY DEF Awake
<1>4. Init => Wakes
  BY WakesInit
<1> QED
  BY <1>2, <1>3, <1>4, InvAlways, PTL DEF Spec

(* Before the clock overflows, a call of TryRunTics that returned because  *)
(* the clock moved, with nothing run, is never followed by another.        *)
THEOREM NeverIdleTwice == Spec => []NotIdleTwice
<1>1. Awake => NotIdleTwice
  <2> SUFFICES ASSUME Awake, now < HalfRange PROVE idle <= 1
    BY DEF NotIdleTwice
  <2>1. CASE singletics
    BY <2>1 DEF Awake, Wakes
  <2>2. CASE ~singletics
    BY <2>2 DEF Awake, Wakes
  <2> QED
    BY <2>1, <2>2
<1> QED
  BY <1>1, AwakeAlways, PTL
=============================================================================
