------------------------------- MODULE TicLoop -------------------------------
(***************************************************************************)
(* The game loop of Doom, cmd/doom/d_loop.c, as this port runs it: one     *)
(* player, the classic synchronisation (new_sync = 0), ticdup = 1.         *)
(* NetUpdate makes a ticcmd for each tic of the clock and puts it in the   *)
(* ring ticdata; TryRunTics runs the tics.  NetUpdate is called from       *)
(* TryRunTics, after every tic, and from the renderer, and the clock moves *)
(* on between any two of these.                                            *)
(*                                                                         *)
(* Time is counted in tics of 1/35 second.  The conversion from            *)
(* milliseconds in GetAdjustedTime overflows a signed int: from HalfRange  *)
(* on it yields negative times.                                            *)
(***************************************************************************)
EXTENDS Integers

CONSTANTS
  BACKUPTICS,   \* the slots of ticdata
  MaxLead,      \* how far maketic may be ahead of gametic
  Modes,        \* the values singletics may have: TRUE when a demo is timed
  HalfRange,    \* the first tic whose conversion overflows
  MaxTime,      \* bound: the clock stops there
  MaxTic        \* bound: no frame begins after so many tics

ASSUME LoopConstants ==
  /\ BACKUPTICS \in Nat \ {0} /\ MaxLead \in Nat \ {0} /\ MaxLead <= BACKUPTICS
  /\ Modes \subseteq BOOLEAN
  /\ HalfRange \in Nat \ {0} /\ MaxTime \in Nat /\ MaxTime < 2 * HalfRange
  /\ MaxTic \in Nat

VARIABLES
  singletics,     \* each frame makes one ticcmd and runs it, whatever the clock does
  now,            \* the clock, as I_GetTime reads it
  lasttime,       \* NetUpdate's last reading
  skiptics,       \* tics NetUpdate still has to let pass
  maketic,        \* the next tic to make a ticcmd for
  gametic,        \* the next tic to run
  ticdata,        \* for each slot, the tic its ticcmd was made for, or -1
  pc,             \* where the frame is
  entertic, oldentertics, realtics, lowtic, counts,   \* TryRunTics' own
  started,        \* D_StartGameLoop has been called
  ran,            \* history: the tics the running TryRunTics has run
  idle            \* history: the calls of TryRunTics in a row that ran none

clock == <<now, singletics>>
maker == <<lasttime, skiptics, maketic, ticdata>>
local == <<entertic, oldentertics, realtics, lowtic, counts>>
vars  == <<clock, maker, gametic, pc, local, started, ran, idle>>

Smaller(a, b) == IF a < b THEN a ELSE b
Larger(a, b) == IF a > b THEN a ELSE b

(* GetAdjustedTime: (time_ms * TICRATE) / 1000 in a signed int.            *)
Adjusted(t) == IF t < HalfRange THEN t ELSE t - 2 * HalfRange

-----------------------------------------------------------------------------
(* BuildNewTic, repeated until it refuses: ticcmds for n tics.             *)
Slot(k) == k % BACKUPTICS
Unbounded(n) == n
Allowed(n) == Smaller(n, Larger(0, MaxLead - (maketic - gametic)))
BuildTics(n) ==
  LET made == maketic .. maketic + Allowed(n) - 1 IN
  /\ maketic' = maketic + Allowed(n)
  /\ ticdata' = [s \in 0 .. BACKUPTICS - 1 |->
                   IF \E k \in made : Slot(k) = s
                   THEN CHOOSE k \in made : Slot(k) = s /\ \A j \in made : Slot(j) = s => j <= k
                   ELSE ticdata[s]]

(* The clock is read once.  A clock that went back leaves skiptics behind. *)
KeepsTime(t) == lasttime
Noted(t) == t

CatchUp ==
  LET nowtime == Adjusted(now)
      newtics == nowtime - lasttime
  IN /\ lasttime' = Noted(nowtime)
     /\ IF skiptics <= newtics
        THEN skiptics' = 0 /\ BuildTics(newtics - skiptics)
        ELSE skiptics' = skiptics - newtics /\ UNCHANGED <<maketic, ticdata>>

NetUpdate == IF singletics THEN UNCHANGED maker ELSE CatchUp

-----------------------------------------------------------------------------
(* TryRunTics                                                              *)

Enter ==
  /\ pc = "enter" /\ gametic < MaxTic
  /\ entertic' = now /\ realtics' = now - oldentertics /\ oldentertics' = now
  /\ ran' = 0
  /\ pc' = "update"
  /\ UNCHANGED <<clock, maker, gametic, lowtic, counts, started, idle>>

(* How many tics to run: what is available, but little more than the time  *)
(* that went by.                                                           *)
Counts(available) ==
  Larger(1, IF realtics < available - 1 THEN realtics + 1
            ELSE IF realtics < available THEN realtics ELSE available)

GetLowTic == maketic

FirstUpdate ==
  /\ pc = "update"
  /\ IF singletics THEN BuildTics(1) /\ UNCHANGED <<lasttime, skiptics>> ELSE NetUpdate
  /\ lowtic' = GetLowTic'
  /\ counts' = Counts(lowtic' - gametic)
  /\ pc' = "wait"
  /\ UNCHANGED <<clock, gametic, entertic, oldentertics, realtics, started, ran, idle>>

NeverWaits == TRUE
WaitsForOneMore == lowtic > gametic + counts
Enough == lowtic >= gametic + counts

Ready ==
  /\ pc = "wait" /\ Enough
  /\ pc' = "run"
  /\ UNCHANGED <<clock, maker, gametic, local, started, ran, idle>>

Poll ==
  /\ pc = "wait" /\ ~Enough
  /\ NetUpdate
  /\ lowtic' = GetLowTic'
  /\ pc' = IF lowtic' < gametic THEN "error" ELSE "check"
  /\ UNCHANGED <<clock, gametic, entertic, oldentertics, realtics, counts, started, ran, idle>>

Return == pc' = "display" /\ idle' = IF ran = 0 THEN idle + 1 ELSE 0

(* The menu is still running: do not stay in the loop over a tic.          *)
StaysForever == FALSE
TimeIsUp == now - entertic > 0

Check ==
  /\ pc = "check"
  /\ IF TimeIsUp THEN Return ELSE pc' = "wait" /\ idle' = idle
  /\ UNCHANGED <<clock, maker, gametic, local, started, ran>>

(* while (counts--)                                                        *)
EvenNone == TRUE
More == counts > 0

RunTic ==
  /\ pc = "run" /\ More
  /\ IF gametic > lowtic
     THEN pc' = "error" /\ UNCHANGED <<gametic, counts, ran>>
     ELSE /\ gametic' = gametic + 1 /\ counts' = counts - 1 /\ ran' = ran + 1
          /\ pc' = "commands"
  /\ UNCHANGED <<clock, maker, entertic, oldentertics, realtics, lowtic, started, idle>>

(* Check for new console commands after every tic.                         *)
Commands ==
  /\ pc = "commands"
  /\ NetUpdate
  /\ pc' = "run"
  /\ UNCHANGED <<clock, gametic, local, started, ran, idle>>

RunDone ==
  /\ pc = "run" /\ ~More
  /\ Return
  /\ UNCHANGED <<clock, maker, gametic, local, started, ran>>

-----------------------------------------------------------------------------
(* D_DoomLoop calls TryRunTics once before it starts the clock of the loop *)
(* and the first frame.                                                    *)
D_StartGameLoop ==
  /\ pc = "display" /\ ~started
  /\ started' = TRUE /\ lasttime' = Adjusted(now) /\ idle' = 0
  /\ pc' = "enter"
  /\ UNCHANGED <<clock, skiptics, maketic, ticdata, gametic, local, ran>>

(* R_RenderPlayerView and D_Display call NetUpdate a few times a frame.    *)
Display ==
  /\ pc = "display" /\ started
  /\ NetUpdate
  /\ UNCHANGED <<clock, gametic, pc, local, started, ran, idle>>

NextFrame ==
  /\ pc = "display" /\ started
  /\ pc' = "enter"
  /\ UNCHANGED <<clock, maker, gametic, local, started, ran, idle>>

Tick ==
  /\ now < MaxTime
  /\ now' = now + 1
  /\ UNCHANGED <<singletics, maker, gametic, pc, local, started, ran, idle>>

Init ==
  /\ singletics \in Modes
  /\ now = 0 /\ lasttime = 0 /\ skiptics = 0 /\ maketic = 0 /\ gametic = 0
  /\ ticdata = [s \in 0 .. BACKUPTICS - 1 |-> -1]
  /\ pc = "enter" /\ started = FALSE
  /\ entertic = 0 /\ oldentertics = 0 /\ realtics = 0 /\ lowtic = 0 /\ counts = 0
  /\ ran = 0 /\ idle = 0

Frame ==
  \/ Enter \/ FirstUpdate \/ Ready \/ Poll \/ Check \/ RunTic \/ Commands
  \/ RunDone \/ D_StartGameLoop \/ NextFrame

Next == Frame \/ Display \/ Tick

Spec == Init /\ [][Next]_vars

(* The loop never blocks but in I_Sleep(1), and the clock is the           *)
(* hardware's.                                                             *)
FairSpec == Spec /\ WF_vars(Frame) /\ WF_vars(Tick)

-----------------------------------------------------------------------------
TypeOK ==
  /\ singletics \in BOOLEAN
  /\ now \in 0 .. MaxTime /\ lasttime \in -HalfRange .. HalfRange - 1
  /\ skiptics \in Nat /\ maketic \in Nat /\ gametic \in Nat
  /\ ticdata \in [0 .. BACKUPTICS - 1 -> Nat \cup {-1}]
  /\ pc \in {"enter", "update", "wait", "check", "run", "commands", "display", "error"}
  /\ entertic \in Nat /\ oldentertics \in Nat /\ realtics \in Nat
  /\ lowtic \in Nat /\ counts \in Nat
  /\ started \in BOOLEAN /\ ran \in Nat /\ idle \in Nat

(* NetUpdate never overwrites a ticcmd that has not been run: every tic is *)
(* run with the ticcmd that was made for it, however long a frame takes.   *)
PendingIntact == \A k \in gametic .. maketic - 1 : ticdata[Slot(k)] = k

(* A tic is never run before its ticcmd is made, nor made too early.       *)
LeadBounded == gametic <= maketic /\ maketic - gametic <= MaxLead

(* "TryRunTics: lowtic < gametic" and "gametic>lowtic" never happen.       *)
NoError == pc # "error"

(* Each ticcmd is paid for by a tic of the clock: the game cannot run      *)
(* faster than real time, also when the adjusted time has overflowed.      *)
NotAheadOfClock == ~singletics => maketic <= now

(* Until then, two calls in a row never return with nothing run: one that  *)
(* gave up because the clock moved leaves a tic for the next.              *)
NotIdleTwice == started /\ now < HalfRange => idle <= 1

(* TryRunTics comes back within a tic of the clock, to update the screen.  *)
Returns == (pc = "update" /\ entertic < MaxTime) ~> pc = "display"

(* What PendingIntact, LeadBounded, NoError and NotAheadOfClock            *)
(* rest on: what a call of TryRunTics knows of its counters,               *)
(* what a frame of a timed demo has made and run, and what NetUpdate owes  *)
(* to the clock, skipped tics and unread time included.                    *)
Stages ==
  /\ pc \in {"wait", "check"} => gametic <= lowtic /\ lowtic <= maketic /\ counts >= 1
  /\ pc \in {"run", "commands"} => lowtic <= maketic /\ gametic + counts <= lowtic
Frames ==
  singletics =>
    /\ pc \in {"enter", "update", "display"} => maketic = gametic
    /\ pc = "wait" => lowtic = maketic /\ maketic = gametic + 1 /\ counts = 1
    /\ pc # "check"
    /\ pc \in {"run", "commands"} => maketic = gametic + counts /\ ran + counts = 1
    /\ pc \in {"update", "wait"} => ran = 0
    /\ pc = "display" => ran = 1
Paid ==
  ~singletics => maketic <= now /\ maketic - skiptics + Adjusted(now) - lasttime <= now

(* What NotIdleTwice rests on.  A call that has made no tic so far has not  *)
(* let NetUpdate see the clock move; so one that gives up because it moved *)
(* leaves a tic made, or due at the next NetUpdate, which the next call    *)
(* runs without waiting.                                                   *)
Due == maketic > gametic \/ lasttime < now
Wakes ==
  /\ pc \in {"update", "wait", "check"} => ran = 0
  /\ pc = "run" => ran + counts >= 1
  /\ pc = "commands" => ran >= 1
  /\ singletics => idle = 0
  /\ now < HalfRange /\ ~singletics =>
       /\ skiptics = 0 /\ lasttime <= now
       /\ pc \in {"update", "wait", "check"} => maketic > gametic \/ lasttime <= entertic
       /\ idle = 0 \/ /\ idle = 1 /\ pc # "check"
                      /\ pc \in {"display", "enter", "update"} => Due
                      /\ pc = "wait" => Enough

LoopInvariant ==
  /\ LeadBounded /\ PendingIntact /\ NoError /\ Stages /\ Frames /\ Paid
  /\ oldentertics <= now
=============================================================================
