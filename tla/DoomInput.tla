----------------------------- MODULE DoomInput -----------------------------
(***************************************************************************)
(* The way of a key from the keyboard to the responders: DG_GetKey         *)
(* (doomgeneric_profan.c), I_GetEvent with the count of shift keys         *)
(* (i_input.c), the ring of events (d_event.c) and D_ProcessEvents         *)
(* (d_main.c), in the order in which BuildNewTic (d_loop.c) calls them.    *)
(*                                                                         *)
(* The keyboard is outside of the program and goes on at any time; codes   *)
(* wait in profanOS until syscall_sc_get takes them.                       *)
(***************************************************************************)
EXTENDS Integers, Sequences, FiniteSets

CONSTANTS
  ScanCodes, KeyOf, NoKey, Shift, Repeating, MaxRepeats,   \* see KeyQueue
  MAXEVENTS,   \* the slots of the ring, 64 in the code
  NoEvent,     \* a slot that is not in use
  KbSize,      \* the codes that profanOS keeps
  Quick        \* the codes that arrive while I_GetEvent is looping

(* An assumption about profanOS and the player, which no code of the       *)
(* program enforces: the codes that wait when I_GetEvent begins, and those *)
(* that come while it loops, are fewer than the slots of the ring.         *)
ASSUME InputConstants ==
  /\ IsFiniteSet(ScanCodes)
  /\ Shift # NoKey /\ MaxRepeats \in Nat /\ Repeating \subseteq ScanCodes
  /\ MAXEVENTS \in Nat /\ KbSize \in Nat /\ Quick \in Nat
  /\ KbSize + Quick < MAXEVENTS

VARIABLES
  down, repeats, known,   \* see KeyQueue
  keyboard,               \* the codes that wait in profanOS
  late,                   \* how many of them came during this I_GetEvent
  shiftdown, events, eventhead, eventtail,
  pc                      \* "idle", "get" (I_GetEvent), "process"

vars == <<down, repeats, known, keyboard, late, shiftdown,
          events, eventhead, eventtail, pc>>

Following(i) == IF i + 1 = MAXEVENTS THEN 0 ELSE i + 1
Occupied == IF eventtail <= eventhead THEN eventhead - eventtail
            ELSE eventhead + MAXEVENTS - eventtail
InRing == [i \in 1..Occupied |-> events[(eventtail + i - 1) % MAXEVENTS]]

(* What I_GetEvent makes of a code when n shift presses are outstanding.   *)
CountsPresses(k) == IF KeyOf[k.code] = Shift /\ k.pressed THEN 1 ELSE 0
Change(k) == IF KeyOf[k.code] # Shift THEN 0 ELSE IF k.pressed THEN 1 ELSE -1
EventOf(k, n) ==
  IF k.pressed THEN [type |-> "keydown", key |-> KeyOf[k.code], shifted |-> n > 0]
  ELSE [type |-> "keyup", key |-> KeyOf[k.code], shifted |-> FALSE]

(* The codes that wait, as the events they will be: the count of shift     *)
(* presses and the events when all of q are read, from acc on.             *)
Reads(acc, k) ==
  IF KeyOf[k.code] = NoKey THEN acc
  ELSE LET n == acc.shift + Change(k)
       IN [shift |-> n, seq |-> Append(acc.seq, EventOf(k, n))]
ReadsAll(acc, q) ==
  LET after[i \in 0 .. Len(q)] == IF i = 0 THEN acc ELSE Reads(after[i - 1], q[i])
  IN after[Len(q)]
Unread == ReadsAll([shift |-> shiftdown, seq |-> <<>>], keyboard).seq

Queue == INSTANCE KeyQueue WITH waiting <- InRing \o Unread

Init ==
  /\ down \in SUBSET (ScanCodes \ Queue!ShiftKeys)
  /\ repeats = 0 /\ known = {} /\ keyboard = <<>> /\ late = 0
  /\ shiftdown = 0 /\ pc = "idle"
  /\ events = [i \in 0..MAXEVENTS-1 |-> NoEvent] /\ eventhead = 0 /\ eventtail = 0

(* A key goes down, repeats or goes up.                                    *)
Type(c) ==
  /\ Len(keyboard) < KbSize /\ (pc = "get" => late < Quick)
  /\ \/ Queue!Pushed(c) /\ keyboard' = Append(keyboard, [code |-> c, pressed |-> TRUE])
     \/ Queue!LetGo(c) /\ keyboard' = Append(keyboard, [code |-> c, pressed |-> FALSE])
  /\ late' = IF pc = "get" THEN late + 1 ELSE late
  /\ UNCHANGED <<known, shiftdown, events, eventhead, eventtail, pc>>

I_StartTic ==
  /\ pc = "idle" /\ pc' = "get" /\ late' = 0
  /\ UNCHANGED <<down, repeats, known, keyboard, shiftdown, events, eventhead, eventtail>>

(* D_PostEvent does not look at eventtail.                                 *)
D_PostEvent(e) ==
  /\ events' = [events EXCEPT ![eventhead] = e]
  /\ eventhead' = Following(eventhead)

(* One round of the loop of I_GetEvent, which a release ends.              *)
PostsPresses(k) == k.pressed
Posts(k) == TRUE
GoesOn(k) == k.pressed
GetKey ==
  /\ pc = "get" /\ keyboard # <<>>
  /\ LET k == Head(keyboard) IN
       /\ KeyOf[k.code] # NoKey
       /\ shiftdown' = shiftdown + Change(k)
       /\ IF Posts(k) THEN D_PostEvent(EventOf(k, shiftdown'))
          ELSE UNCHANGED <<events, eventhead>>
       /\ pc' = IF GoesOn(k) THEN "get" ELSE "process"
  /\ keyboard' = Tail(keyboard)
  /\ UNCHANGED <<down, repeats, known, late, eventtail>>

(* DG_GetKey returns 0 when no code waits, and also for a code that Doom   *)
(* has no key for: the codes behind it wait for the next tic.              *)
NoKeyToGet ==
  /\ pc = "get"
  /\ keyboard # <<>> => KeyOf[Head(keyboard).code] = NoKey
  /\ keyboard' = IF keyboard = <<>> THEN <<>> ELSE Tail(keyboard)
  /\ pc' = "process"
  /\ UNCHANGED <<down, repeats, known, late, shiftdown, events, eventhead, eventtail>>

(* D_ProcessEvents gives each event to the responders.  A slot is not      *)
(* looked at after it was taken.                                           *)
OnlyOne == "idle"
Again == "process"
D_PopEvent ==
  /\ pc = "process" /\ eventtail # eventhead
  /\ LET e == events[eventtail]
     IN known' = IF e.type = "keydown" THEN known \cup {e.key} ELSE known \ {e.key}
  /\ events' = [events EXCEPT ![eventtail] = NoEvent]
  /\ eventtail' = Following(eventtail)
  /\ pc' = Again
  /\ UNCHANGED <<down, repeats, keyboard, late, shiftdown, eventhead>>
Processed ==
  /\ pc = "process" /\ eventtail = eventhead /\ pc' = "idle"
  /\ UNCHANGED <<down, repeats, known, keyboard, late, shiftdown, events, eventhead, eventtail>>

BuildNewTic == I_StartTic \/ GetKey \/ NoKeyToGet \/ D_PopEvent \/ Processed
Next == BuildNewTic \/ \E c \in ScanCodes : Type(c)

(* The main loop comes to build another tic again and again.               *)
Spec == Init /\ [][Next]_vars /\ WF_vars(BuildNewTic)

-----------------------------------------------------------------------------
TypeOK ==
  /\ down \subseteq ScanCodes /\ repeats \in 0..MaxRepeats
  /\ keyboard \in Seq([code : ScanCodes, pressed : BOOLEAN]) /\ Len(keyboard) <= KbSize
  /\ late \in 0..Quick /\ pc \in {"idle", "get", "process"}
  /\ eventhead \in 0..MAXEVENTS-1 /\ eventtail \in 0..MAXEVENTS-1

(* The ring is drained before each read of the keyboard, in every order of *)
(* typing and reading: I_GetEvent never fills it with what an earlier one  *)
(* left (full, it would look empty and all in it would be forgotten).      *)
(* That one I_GetEvent alone does not fill it is assumed (InputConstants): *)
(* nothing in the program bounds what the keyboard holds for it.           *)
NeverFull ==
  /\ TypeOK
  /\ pc = "get" /\ keyboard # <<>> => Following(eventhead) # eventtail

(* The strengthening: who reads has room for all that can still arrive.    *)
Room ==
  /\ pc = "idle" => Occupied = 0
  /\ pc = "get" => Occupied + Len(keyboard) <= KbSize + late

(* When all codes are read and all events taken, the game takes no key to  *)
(* be down that is not: a player who lets go of the keys stands still,     *)
(* although each I_GetEvent ends with the first release and with the first *)
(* code without a key, and both shift keys are one key to the game.        *)
NoneStuck ==
  keyboard = <<>> /\ eventhead = eventtail => known \subseteq {KeyOf[c] : c \in down}

(* Every key that Doom has a use for is heard, once, in order, and as it   *)
(* was typed (KeyQueue): the ring, the two reasons to stop reading and the *)
(* count of shift keys lose nothing, reorder nothing and delay nothing for *)
(* ever, and a letter read late is a capital if it was one.                *)
ImplementsQueue == Queue!QueueSpec

(* "Is the shift key currently down?" (i_input.c:46), "Is shift held down?" *)
(* (:246): with every code read, the count says whether one is.  A held    *)
(* shift key that repeats its press is counted up again, and only once     *)
(* down when it is let go (UpdateShiftStatus).                             *)
ShiftHeld == keyboard = <<>> => (shiftdown > 0 <=> down \cap Queue!ShiftKeys # {})
=============================================================================
