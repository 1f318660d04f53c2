------------------------------ MODULE KeyQueue ------------------------------
(***************************************************************************)
(* What the player may expect of the keyboard: every key typed that Doom   *)
(* has a use for is heard, once, in the order of typing, and as it was     *)
(* typed: a letter is a capital when a shift key was down at that moment,  *)
(* however much later it is read.  It is a capital only then, as long as   *)
(* no press of a shift key has been repeated; after that nothing is        *)
(* promised of the letters typed without one.  DoomInput implements this.  *)
(***************************************************************************)
EXTENDS Integers, Sequences

CONSTANTS
  ScanCodes,   \* the keys of the keyboard
  KeyOf,       \* the key of Doom that each of them stands for
  NoKey,       \* ... none
  Shift,       \* KEY_RSHIFT, which both shift keys stand for
  Repeating,   \* the keys that send their press again while held
  MaxRepeats   \* bound: how often shift keys do so

VARIABLES
  down,      \* the keys that are held down
  repeats,   \* how often the press of a shift key was repeated
  waiting,   \* typed and not heard yet
  known      \* the keys of Doom that its responders take to be down

queueVars == <<down, repeats, waiting, known>>

ShiftKeys == {c \in ScanCodes : KeyOf[c] = Shift}
Keydown(k, s) == [type |-> "keydown", key |-> k, shifted |-> s]
Keyup(k)      == [type |-> "keyup", key |-> k, shifted |-> FALSE]

(* The program may be started with keys held, but not with a shift key.    *)
QueueInit ==
  /\ down \in SUBSET (ScanCodes \ ShiftKeys) /\ repeats = 0
  /\ waiting = <<>> /\ known = {}

(* A press, or its repetition.                                             *)
Pushed(c) ==
  /\ c \in down => c \in Repeating
  /\ down' = down \cup {c}
  /\ IF c \in down /\ KeyOf[c] = Shift
     THEN repeats < MaxRepeats /\ repeats' = repeats + 1 ELSE repeats' = repeats
LetGo(c) ==
  /\ c \in down /\ down' = down \ {c} /\ UNCHANGED repeats
Capitals == down' \cap ShiftKeys # {}
MayBe(s) == s = Capitals \/ (s /\ repeats' > 0)

Type(c) ==
  /\ \/ /\ Pushed(c)
        /\ \E s \in BOOLEAN :
             /\ MayBe(s)
             /\ waiting' = IF KeyOf[c] = NoKey THEN waiting
                           ELSE Append(waiting, Keydown(KeyOf[c], s))
     \/ LetGo(c) /\ waiting' = IF KeyOf[c] = NoKey THEN waiting
                               ELSE Append(waiting, Keyup(KeyOf[c]))
  /\ UNCHANGED known

After(e) == IF e.type = "keydown" THEN known \cup {e.key} ELSE known \ {e.key}
Hear ==
  /\ waiting # <<>>
  /\ waiting' = Tail(waiting) /\ known' = After(Head(waiting))
  /\ UNCHANGED <<down, repeats>>

QueueNext == Hear \/ \E c \in ScanCodes : Type(c)

QueueSpec == QueueInit /\ [][QueueNext]_queueVars /\ WF_queueVars(Hear)
=============================================================================
