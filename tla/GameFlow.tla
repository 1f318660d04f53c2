------------------------------- MODULE GameFlow -------------------------------
(***************************************************************************)
(* What the program of Doom is doing: playing a level, showing the         *)
(* intermission or the finale, or going through the pages and demos of the *)
(* title.  cmd/doom/g_game.c keeps it in gamestate and in one pending      *)
(* gameaction, which G_Ticker performs at the start of the next tic.       *)
(* Requests come from the menu (m_menu.c), from the level, from the        *)
(* intermission and from the sequence of demos (d_main.c); the menu works  *)
(* on key events, between any two tics, and on what it saw when it opened. *)
(*                                                                         *)
(* One player, no network game.  What a level, an intermission, a page or  *)
(* the file system does is left open: \E over the outcomes.                *)
(***************************************************************************)
EXTENDS Integers, Sequences

CONSTANTS
  Keys,         \* the keys bound to the controls of the game
  Starts,       \* how the program may start: "title", "game", "loadgame"
  DemoSaves,    \* a demo may hold the command to save, from its recording
  MaxLead,      \* the ticcmds that may wait to be run
  PageTics,     \* how long a page is shown
  MaxPending    \* bound: the events that may wait to be processed

ASSUME FlowConstants ==
  /\ Starts \subseteq {"title", "game", "loadgame"}
  /\ DemoSaves \in BOOLEAN
  /\ MaxLead \in Nat \ {0} /\ MaxPending \in Nat \ {0}
  /\ PageTics \in Nat /\ PageTics >= MaxLead

VARIABLES
  game,         \* the variables of g_game.c and d_main.c, see Flow
  menu,         \* "off", "main", or a question the menu waits an answer to
  sendsave,     \* the next ticcmd asks to save
  cmds,         \* ticcmds made and not run: whether each asks to save
  held,         \* the keys that are down
  pending,      \* the events not processed
  ran,          \* gametic > 0
  unread        \* no game was begun since a start with -loadgame

vars == <<game, menu, sendsave, cmds, held, pending, ran, unread>>

GameStates == {"level", "intermission", "finale", "demoscreen"}
GameActions == {"nothing", "loadlevel", "newgame", "loadgame", "savegame", "playdemo",
                "completed", "victory", "worlddone", "screenshot"}

Flow ==
  [gamestate : GameStates, gameaction : GameActions, oldgamestate : GameStates,
   advancedemo : BOOLEAN, title : BOOLEAN,   \* title: demosequence is -1
   pagetic : 0 .. PageTics, demoplayback : BOOLEAN, usergame : BOOLEAN,
   reborn : BOOLEAN,                     \* the player's PST_REBORN
   gamekeydown : SUBSET Keys,
   level : {"none", "game", "demo"},     \* whose level P_SetupLevel has loaded
   wi : BOOLEAN]                         \* the intermission's graphics are loaded

-----------------------------------------------------------------------------
(* What the actions do                                                     *)

KeepsKeys(g) == [g EXCEPT !.gamestate = "level", !.gameaction = "nothing", !.reborn = FALSE]
LoadLevel(g) == [g EXCEPT !.gamestate = "level", !.gameaction = "nothing", !.reborn = FALSE,
                          !.gamekeydown = {}]

InitNew(g, owner) ==
  [LoadLevel(g) EXCEPT !.usergame = TRUE, !.demoplayback = FALSE, !.level = owner]

StaysUsers(g) == [InitNew(g, "demo") EXCEPT !.demoplayback = TRUE]
DoPlayDemo(g) == [InitNew(g, "demo") EXCEPT !.usergame = FALSE, !.demoplayback = TRUE]

(* A file that is not there, or is of another version, is not an error.    *)
DoLoadGame(g, readable) ==
  IF readable THEN InitNew(g, "game") ELSE [g EXCEPT !.gameaction = "nothing"]

DoCompleted(g, last) ==
  IF last THEN [g EXCEPT !.gameaction = "victory"]
  ELSE [g EXCEPT !.gameaction = "nothing", !.gamestate = "intermission", !.wi = TRUE]

StartFinale(g) == [g EXCEPT !.gameaction = "nothing", !.gamestate = "finale"]

Perform(g, readable, last) ==
  CASE g.gameaction \in {"loadlevel", "worlddone"} -> LoadLevel(g)
    [] g.gameaction = "newgame"   -> InitNew(g, "game")
    [] g.gameaction = "loadgame"  -> DoLoadGame(g, readable)
    [] g.gameaction = "playdemo"  -> DoPlayDemo(g)
    [] g.gameaction = "completed" -> DoCompleted(g, last)
    [] g.gameaction = "victory"   -> StartFinale(g)
    [] g.gameaction \in {"savegame", "screenshot"} -> [g EXCEPT !.gameaction = "nothing"]
    [] g.gameaction = "nothing"   -> g

(* while (gameaction != ga_nothing): only a victory comes out of another.  *)
Settled(g, readable, last) == Perform(Perform(g, readable, last), readable, last)

(* The next page, or the next demo; the sequence begins with a page.       *)
StaysInLevel(g, demo) ==
  [g EXCEPT !.reborn = FALSE, !.advancedemo = FALSE, !.title = FALSE, !.usergame = FALSE,
            !.gameaction = IF demo THEN "playdemo" ELSE "nothing",
            !.pagetic = IF demo THEN @ ELSE PageTics]
DoAdvanceDemo(g, demo) ==
  [StaysInLevel(g, demo) EXCEPT !.gamestate = IF demo THEN @ ELSE "demoscreen"]

-----------------------------------------------------------------------------
(* G_Ticker, in the order of its parts                                     *)

DoReborn(g) == IF g.reborn THEN [g EXCEPT !.gameaction = "loadlevel"] ELSE g

(* A demo's commands replace the player's, but for the tic it ends in.     *)
DemoEnds(g, over) ==
  IF g.demoplayback /\ over THEN [g EXCEPT !.demoplayback = FALSE, !.advancedemo = TRUE] ELSE g
Asks(g, over, save) == IF g.demoplayback /\ ~over THEN DemoSaves ELSE save
SpecialButtons(g, asks) == IF asks THEN [g EXCEPT !.gameaction = "savegame"] ELSE g

(* Have we just finished displaying an intermission screen?                *)
NeverEnds(g) == [g EXCEPT !.oldgamestate = g.gamestate]
Finished(g) ==
  [g EXCEPT !.wi = @ /\ ~(g.oldgamestate = "intermission" /\ g.gamestate # "intermission"),
            !.oldgamestate = g.gamestate]

(* The clock of a page may fall below 0, all that matters is that it did.  *)
NeverTurns(g) == [g EXCEPT !.pagetic = @ - 1]
PageTicker(g) == IF g.pagetic > 0 THEN NeverTurns(g) ELSE [g EXCEPT !.advancedemo = TRUE]

(* P_Ticker, WI_Ticker, F_Ticker, D_PageTicker.  A menu stops the level.   *)
(* Without a level the list of thinkers was never set up, and following it *)
(* is undefined: the program stops, or goes on with nothing that plays.    *)
Runs(g) == g.level # "none" /\ (menu = "off" \/ g.demoplayback)
Outcomes(g) ==
  CASE g.gamestate = "level" ->
         {g} \cup IF Runs(g)
                 THEN {[g EXCEPT !.gameaction = "completed"], [g EXCEPT !.reborn = TRUE],
                       [g EXCEPT !.gameaction = "completed", !.reborn = TRUE]}
                 ELSE {}
    [] g.gamestate = "intermission" -> {g, [g EXCEPT !.gameaction = "worlddone"], StartFinale(g)}
    [] g.gamestate = "finale"       -> {g, [g EXCEPT !.gameaction = "worlddone"]}
    [] g.gamestate = "demoscreen"   -> {PageTicker(g)}

(* G_DoLoadLevel, which forgets a request to save, and G_InitNew before it. *)
BeginsGame(g, readable) ==
  g.gameaction \in {"newgame", "playdemo"} \/ (g.gameaction = "loadgame" /\ readable)
LoadsLevel(g, readable) ==
  BeginsGame(g, readable) \/ g.gameaction \in {"loadlevel", "worlddone"}

Ticker(g, save, readable, last, over) ==
  LET s == Settled(g, readable, last)
  IN Outcomes(Finished(SpecialButtons(DemoEnds(s, over), Asks(s, over, save))))

RunTic ==
  /\ cmds # <<>>
  /\ \E demo, readable, last, over \in BOOLEAN :
       /\ game.title => ~demo
       /\ LET g == DoReborn(IF game.advancedemo THEN DoAdvanceDemo(game, demo) ELSE game)
          IN /\ game' \in Ticker(g, Head(cmds), readable, last, over)
             /\ sendsave' = (sendsave /\ ~LoadsLevel(g, readable))
             /\ unread' = (unread /\ ~BeginsGame(g, readable))
  /\ cmds' = Tail(cmds)
  /\ ran' = TRUE
  /\ UNCHANGED <<menu, held, pending>>

(* G_BuildTiccmd: of the special buttons only the one to save matters.     *)
BuildTiccmd ==
  /\ Len(cmds) < MaxLead
  /\ cmds' = Append(cmds, sendsave)
  /\ sendsave' = FALSE
  /\ UNCHANGED <<game, menu, held, pending, ran, unread>>

-----------------------------------------------------------------------------
(* D_ProcessEvents: M_Responder, and G_Responder for what it does not eat  *)

Down(ev) == pending # <<>> /\ Head(pending) = ev /\ pending' = Tail(pending)
KeyDown == \E k \in Keys : Down([key |-> k, down |-> TRUE])
Eaten == KeyDown /\ UNCHANGED <<cmds, held, ran, unread>>

(* The questions are only asked of a player in a game.                     *)
MaySave == game.usergame /\ game.gamestate = "level"
MayEnd == game.usergame

OpenMenu ==
  /\ Eaten
  /\ \/ menu = "off" /\ menu' \in {"off", "main"}
     \/ menu \in {"off", "main"} /\ MaySave /\ menu' = "save"
     \/ menu \in {"off", "main"} /\ MayEnd /\ menu' = "end"
     \/ menu \in {"main", "save", "end"} /\ menu' = "off"
     \/ menu \in {"main", "save"} /\ menu' \in {menu, "main"}
  /\ UNCHANGED <<game, sendsave>>

Request(action) ==
  /\ Eaten /\ menu = "main" /\ menu' = "off"
  /\ game' = [game EXCEPT !.gameaction = action]
  /\ UNCHANGED sendsave

ScreenShot ==
  /\ Eaten /\ menu # "end" /\ UNCHANGED <<menu, sendsave>>
  /\ game' = [game EXCEPT !.gameaction = "screenshot"]

DoSave ==
  /\ Eaten /\ menu = "save" /\ menu' = "off"
  /\ sendsave' = TRUE
  /\ UNCHANGED game

(* D_StartTitle                                                            *)
EndGame ==
  /\ Eaten /\ menu = "end" /\ menu' = "off"
  /\ game' = [game EXCEPT !.gameaction = "nothing", !.advancedemo = TRUE, !.title = TRUE]
  /\ UNCHANGED sendsave

(* Any key pops up the menu if in demos, and no key reaches the game.      *)
InDemos == /\ game.gameaction = "nothing"
           /\ game.demoplayback \/ game.gamestate = "demoscreen"

PopUp ==
  /\ KeyDown /\ InDemos
  /\ menu' = IF menu = "off" THEN "main" ELSE menu
  /\ UNCHANGED <<game, sendsave, cmds, held, ran, unread>>

PressKey(k) ==
  /\ Down([key |-> k, down |-> TRUE]) /\ ~InDemos
  /\ \/ game' = [game EXCEPT !.gamekeydown = @ \cup {k}]
     \/ game.gamestate \in {"level", "finale"} /\ UNCHANGED game
  /\ UNCHANGED <<menu, sendsave, cmds, held, ran, unread>>

InMenus == InDemos \/ menu # "off"
Ignored == InDemos
LiftKey(k) ==
  /\ Down([key |-> k, down |-> FALSE])
  /\ game' = IF Ignored THEN game ELSE [game EXCEPT !.gamekeydown = @ \ {k}]
  /\ UNCHANGED <<menu, sendsave, cmds, held, ran, unread>>

ProcessEvents ==
  \/ OpenMenu \/ Request("newgame") \/ Request("loadgame") \/ ScreenShot
  \/ DoSave \/ EndGame \/ PopUp
  \/ \E k \in Keys : PressKey(k) \/ LiftKey(k)

-----------------------------------------------------------------------------
(* The keyboard: a held key repeats.                                       *)
Type(k) ==
  /\ Len(pending) < MaxPending
  /\ \/ /\ held' = held \cup {k}
        /\ pending' = Append(pending, [key |-> k, down |-> TRUE])
     \/ /\ k \in held /\ held' = held \ {k}
        /\ pending' = Append(pending, [key |-> k, down |-> FALSE])
  /\ UNCHANGED <<game, menu, sendsave, cmds, ran, unread>>

(* gamestate is 0, GS_LEVEL, until something sets it.                      *)
Blank ==
  [gamestate |-> "level", gameaction |-> "nothing", oldgamestate |-> "level",
   advancedemo |-> FALSE, title |-> FALSE, pagetic |-> 0, demoplayback |-> FALSE,
   usergame |-> FALSE, reborn |-> FALSE, gamekeydown |-> {}, level |-> "none", wi |-> FALSE]

Begun(start) ==
  CASE start = "title"    -> [Blank EXCEPT !.advancedemo = TRUE, !.title = TRUE]
    [] start = "game"     -> InitNew(Blank, "game")
    [] start = "loadgame" -> [Blank EXCEPT !.gameaction = "loadgame"]

Init ==
  /\ \E start \in Starts : game = Begun(start) /\ unread = (start = "loadgame")
  /\ menu = "off" /\ sendsave = FALSE /\ cmds = <<>>
  /\ held = {} /\ pending = <<>> /\ ran = FALSE

Next == RunTic \/ BuildTiccmd \/ ProcessEvents \/ \E k \in Keys : Type(k)

Spec == Init /\ [][Next]_vars

-----------------------------------------------------------------------------
Events == [key : Keys, down : BOOLEAN]

TypeOK ==
  /\ game \in Flow
  /\ menu \in {"off", "main", "save", "end"}
  /\ sendsave \in BOOLEAN /\ cmds \in Seq(BOOLEAN) /\ Len(cmds) <= MaxLead
  /\ held \subseteq Keys /\ pending \in Seq(Events)
  /\ ran \in BOOLEAN /\ unread \in BOOLEAN

(* The player's man never goes on by himself: a key that counts as down in *)
(* a game is down, or its release is still to be processed, whatever menus *)
(* and demos the key was pressed or lifted in.                             *)
LiftWaits(k) == \E i \in 1 .. Len(pending) : pending[i] = [key |-> k, down |-> FALSE]
NoStuckKeys == game.usergame => \A k \in game.gamekeydown : k \in held \/ LiftWaits(k)

(* WI_Drawer is never called after WI_End has unloaded the graphics, and   *)
(* they are unloaded in the tic after the intermission, however it ends.   *)
IntermissionLoaded ==
  /\ game.gamestate = "intermission" => game.wi
  /\ game.wi => "intermission" \in {game.gamestate, game.oldgamestate}

(* A demo is not the user's game, and neither of them runs on the other's  *)
(* level.                                                                  *)
OwnLevel ==
  /\ game.usergame => game.level = "game"
  /\ game.demoplayback => ~game.usergame /\ game.level = "demo"

(* Once a tic was run, a gamestate of GS_LEVEL means that there is a level: *)
(* P_Ticker and D_Display do not ask.  The exception: D_DoomMain starts    *)
(* neither the title nor a game after -loadgame, and the saved game is     *)
(* then not loaded, as its file cannot be read (G_DoLoadGame returns) or   *)
(* ga_screenshot has taken the place of ga_loadgame before the first tic.  *)
LevelsExist == ran /\ game.gamestate = "level" => game.level # "none" \/ unread

(* "no save / end game here" (D_DoAdvanceDemo): a save that the next tic is *)
(* to write to the player's slot is of the player's level, not of a demo's. *)
SavesOwnGame ==
  game.gameaction = "savegame" /\ ~game.advancedemo /\ ~game.reborn => game.level = "game"
=============================================================================
