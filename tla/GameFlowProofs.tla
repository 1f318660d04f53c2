--------------------------- MODULE GameFlowProofs ---------------------------
(***************************************************************************)
(* Proofs about GameFlow, for any keys, any number of waiting commands and *)
(* events, and any length of a page.                                       *)
(*                                                                         *)
(* Everything that happens to gamestate and gameaction in a tic is a       *)
(* chain of operators on the record; a tic preserves what each of them     *)
(* does.  There is a lemma for each operator, and one for their chain.     *)
(***************************************************************************)
EXTENDS GameFlow, SequenceTheorems, TLAPS

-----------------------------------------------------------------------------
(* The invariant                                                           *)

(* Whose game it is; and the pages of the title are nobody's.              *)
Own(g) ==
  /\ g.usergame => g.level = "game"
  /\ g.demoplayback => ~g.usergame /\ g.level = "demo"
  /\ g.gamestate = "demoscreen" => ~g.usergame
  /\ g.gamestate = "intermission" => g.wi

(* In the middle of a tic the intermission may be over and not unloaded.   *)
WiSeen(g) == g.wi => "intermission" \in {g.gamestate, g.oldgamestate}

(* Between two tics the graphics are only loaded after an intermission.    *)
Unloads(g) == g.wi => g.oldgamestate = "intermission"

(* No level: only pages are shown, and nothing is pending that would go on *)
(* with a level.                                                           *)
Leaving == {"loadlevel", "worlddone", "completed", "victory"}
Loaded(g) ==
  g.level = "none" =>
    g.gamestate = "demoscreen" /\ ~g.reborn /\ g.gameaction \notin Leaving

(* Before the first tic gamestate is GS_LEVEL without a level, but the     *)
(* title page comes before anything else.                                  *)
AtStart(g) ==
  /\ g.gamestate = "level" /\ g.advancedemo /\ g.title
  /\ ~g.reborn /\ g.gameaction \notin Leaving

(* A press that waits is of a key that is down, or its release waits       *)
(* behind it.                                                              *)
PressesSound ==
  \A i \in 1 .. Len(pending) :
    pending[i].down => \/ pending[i].key \in held
                       \/ \E j \in i+1 .. Len(pending) :
                            pending[j] = [key |-> pending[i].key, down |-> FALSE]

FlowInv ==
  /\ TypeOK
  /\ Own(game)
  /\ Unloads(game)
  /\ NoStuckKeys
  /\ PressesSound

(* The start with a saved game has neither, until a game begins.           *)
LevelsInv == Loaded(game) \/ (~ran /\ AtStart(game)) \/ unread

-----------------------------------------------------------------------------
(* The operators on the record                                             *)

(* A game that goes on from g to h gets no key from it, and one that       *)
(* begins has none.                                                        *)
KeysFrom(g, h) ==
  h.usergame => h.gamekeydown = {} \/ (g.usergame /\ h.gamekeydown \subseteq g.gamekeydown)

(* What every operator of a tic does.                                      *)
Fine(g) == g \in Flow /\ Own(g) /\ WiSeen(g)
Leads(g, h) == Fine(h) /\ KeysFrom(g, h) /\ (Loaded(g) => Loaded(h))

LEMMA LeadsTransitive ==
  ASSUME NEW f, NEW g, NEW h, Leads(f, g), Leads(g, h)
  PROVE  Leads(f, h)
BY DEF Leads, KeysFrom

LEMMA LoadLevelFlow ==
  ASSUME NEW g \in Flow
  PROVE  /\ LoadLevel(g) \in Flow
         /\ LoadLevel(g).gamestate = "level" /\ LoadLevel(g).gameaction = "nothing"
         /\ ~LoadLevel(g).reborn /\ LoadLevel(g).gamekeydown = {}
         /\ LoadLevel(g).level = g.level /\ LoadLevel(g).wi = g.wi
         /\ LoadLevel(g).oldgamestate = g.oldgamestate
         /\ LoadLevel(g).usergame = g.usergame /\ LoadLevel(g).demoplayback = g.demoplayback
BY DEF LoadLevel, Flow, GameStates, GameActions

LEMMA InitNewFlow ==
  ASSUME NEW g \in Flow, NEW o \in {"game", "demo"}
  PROVE  /\ InitNew(g, o) \in Flow
         /\ InitNew(g, o).gamestate = "level" /\ InitNew(g, o).gameaction = "nothing"
         /\ ~InitNew(g, o).reborn /\ InitNew(g, o).gamekeydown = {}
         /\ InitNew(g, o).level = o /\ InitNew(g, o).wi = g.wi
         /\ InitNew(g, o).oldgamestate = g.oldgamestate
         /\ InitNew(g, o).usergame /\ ~InitNew(g, o).demoplayback
<1> DEFINE l == LoadLevel(g)
           i == [l EXCEPT !.usergame = TRUE, !.demoplayback = FALSE, !.level = o]
<1>1. l \in Flow
  BY LoadLevelFlow
<1>2. i \in Flow /\ i.level = o /\ i.usergame /\ ~i.demoplayback
  BY <1>1 DEF Flow
<1>3. /\ i.gamestate = l.gamestate /\ i.gameaction = l.gameaction /\ i.reborn = l.reborn
      /\ i.gamekeydown = l.gamekeydown /\ i.wi = l.wi /\ i.oldgamestate = l.oldgamestate
  BY <1>1 DEF Flow
<1>4. i = InitNew(g, o)
  BY DEF InitNew
<1> QED BY <1>2, <1>3, <1>4, LoadLevelFlow

(* A pending action is only performed in a tic that began with the         *)
(* graphics of the intermission as the last tic left them.                 *)
Ready(g) == g.gameaction # "nothing" => (g.wi => g.oldgamestate = "intermission")

LEMMA LoadLevelLeads ==
  ASSUME NEW g, Fine(g), Ready(g), g.gameaction \in {"loadlevel", "worlddone"}
  PROVE  Leads(g, LoadLevel(g)) /\ Ready(LoadLevel(g))
BY LoadLevelFlow DEF Leads, Fine, Own, WiSeen, KeysFrom, Loaded, Leaving, Ready

LEMMA InitNewLeads ==
  ASSUME NEW g, Fine(g), Ready(g), g.gameaction # "nothing"
  PROVE  Leads(g, InitNew(g, "game")) /\ Ready(InitNew(g, "game"))
BY InitNewFlow DEF Leads, Fine, Own, WiSeen, KeysFrom, Loaded, Leaving, Ready

LEMMA DoPlayDemoLeads ==
  ASSUME NEW g, Fine(g), Ready(g), g.gameaction # "nothing"
  PROVE  Leads(g, DoPlayDemo(g)) /\ Ready(DoPlayDemo(g))
<1> DEFINE i == InitNew(g, "demo")
           d == [i EXCEPT !.usergame = FALSE, !.demoplayback = TRUE]
<1>1. /\ i \in Flow /\ i.gamestate = "level" /\ i.gameaction = "nothing"
      /\ i.level = "demo" /\ i.wi = g.wi /\ i.oldgamestate = g.oldgamestate
  BY InitNewFlow DEF Fine
<1>2. d \in Flow /\ ~d.usergame
  BY <1>1 DEF Flow
<1>3. /\ d.gamestate = i.gamestate /\ d.gameaction = i.gameaction
      /\ d.level = i.level /\ d.wi = i.wi /\ d.oldgamestate = i.oldgamestate
  BY <1>1 DEF Flow
<1>4. d = DoPlayDemo(g)
  BY DEF DoPlayDemo
<1>5. Fine(d) /\ Ready(d)
  BY <1>1, <1>2, <1>3 DEF Fine, Own, WiSeen, Ready
<1>6. KeysFrom(g, d) /\ Loaded(d)
  BY <1>1, <1>2, <1>3 DEF KeysFrom, Loaded
<1> QED BY <1>4, <1>5, <1>6 DEF Leads

(* A request for an action leaves what is played alone.                    *)
LEMMA ActionLeads ==
  ASSUME NEW g, Fine(g), NEW a \in GameActions, NEW h, h = [g EXCEPT !.gameaction = a]
  PROVE  /\ Fine(h) /\ KeysFrom(g, h)
         /\ Loaded(g) /\ (a \in Leaving => g.level # "none") => Loaded(h)
         /\ h.gameaction = a /\ h.gamestate = g.gamestate /\ h.reborn = g.reborn
         /\ h.level = g.level /\ h.wi = g.wi /\ h.oldgamestate = g.oldgamestate
<1>1. h \in Flow /\ h.gameaction = a
  BY DEF Fine, Flow
<1>2. /\ h.gamestate = g.gamestate /\ h.level = g.level /\ h.wi = g.wi
      /\ h.oldgamestate = g.oldgamestate /\ h.usergame = g.usergame
      /\ h.demoplayback = g.demoplayback /\ h.reborn = g.reborn
      /\ h.gamekeydown = g.gamekeydown
  BY DEF Fine, Flow
<1>3. Fine(h)
  BY <1>1, <1>2 DEF Fine, Own, WiSeen
<1>4. KeysFrom(g, h) /\ (Loaded(g) /\ (a \in Leaving => g.level # "none") => Loaded(h))
  BY <1>1, <1>2 DEF KeysFrom, Loaded
<1> QED BY <1>1, <1>2, <1>3, <1>4

(* The states of the game between two levels.                              *)
LEMMA IntermissionLeads ==
  ASSUME NEW g, Fine(g), Ready(g), g.gameaction = "completed"
  PROVE  LET h == [g EXCEPT !.gameaction = "nothing", !.gamestate = "intermission", !.wi = TRUE]
         IN Leads(g, h) /\ Ready(h)
<1> DEFINE h == [g EXCEPT !.gameaction = "nothing", !.gamestate = "intermission", !.wi = TRUE]
<1>1. h \in Flow /\ h.gameaction = "nothing" /\ h.gamestate = "intermission" /\ h.wi
  BY DEF Fine, Flow, GameActions, GameStates
<1>2. /\ h.level = g.level /\ h.usergame = g.usergame
      /\ h.demoplayback = g.demoplayback /\ h.gamekeydown = g.gamekeydown
  BY DEF Fine, Flow
<1> QED BY <1>1, <1>2 DEF Leads, Fine, Own, WiSeen, KeysFrom, Loaded, Leaving, Ready

LEMMA StartFinaleLeads ==
  ASSUME NEW g, Fine(g), Unloads(g), g.level # "none" \/ ~Loaded(g)
  PROVE  /\ Leads(g, StartFinale(g)) /\ Ready(StartFinale(g))
         /\ StartFinale(g).wi = g.wi /\ StartFinale(g).oldgamestate = g.oldgamestate
<1> DEFINE h == StartFinale(g)
<1>1. h \in Flow /\ h.gameaction = "nothing" /\ h.gamestate = "finale"
  BY DEF StartFinale, Fine, Flow, GameActions, GameStates
<1>2. /\ h.level = g.level /\ h.usergame = g.usergame
      /\ h.demoplayback = g.demoplayback /\ h.gamekeydown = g.gamekeydown
      /\ h.wi = g.wi /\ h.oldgamestate = g.oldgamestate
  BY DEF StartFinale, Fine, Flow
<1> QED BY <1>1, <1>2 DEF Leads, Fine, Own, WiSeen, KeysFrom, Loaded, Ready, Unloads

LEMMA PerformLeads ==
  ASSUME NEW g, Fine(g), Ready(g), NEW readable \in BOOLEAN, NEW last \in BOOLEAN
  PROVE  /\ Leads(g, Perform(g, readable, last)) /\ Ready(Perform(g, readable, last))
<1> DEFINE h == Perform(g, readable, last)
<1>1. CASE g.gameaction \in {"loadlevel", "worlddone"}
  <2>1. h = LoadLevel(g)
    BY <1>1 DEF Perform
  <2> QED BY <1>1, <2>1, LoadLevelLeads
<1>2. CASE g.gameaction = "newgame"
  <2>1. h = InitNew(g, "game")
    BY <1>2 DEF Perform
  <2> QED BY <1>2, <2>1, InitNewLeads
<1>3. CASE g.gameaction = "loadgame"
  <2>1. h = DoLoadGame(g, readable)
    BY <1>3 DEF Perform
  <2>2. CASE readable
    BY <1>3, <2>1, <2>2, InitNewLeads DEF DoLoadGame
  <2>3. CASE ~readable
    <3>1. h = [g EXCEPT !.gameaction = "nothing"]
      BY <2>1, <2>3 DEF DoLoadGame
    <3> QED BY <3>1, ActionLeads DEF Leads, Ready, GameActions, Leaving
  <2> QED BY <2>2, <2>3
<1>4. CASE g.gameaction = "playdemo"
  <2>1. h = DoPlayDemo(g)
    BY <1>4 DEF Perform
  <2> QED BY <1>4, <2>1, DoPlayDemoLeads
<1>5. CASE g.gameaction = "completed"
  <2>1. h = DoCompleted(g, last)
    BY <1>5 DEF Perform
  <2>2. CASE last
    <3>1. h = [g EXCEPT !.gameaction = "victory"]
      BY <2>1, <2>2 DEF DoCompleted
    <3>2. Loaded(g) => g.level # "none"
      BY <1>5 DEF Loaded, Leaving
    <3> QED BY <1>5, <3>1, <3>2, ActionLeads DEF Leads, Ready, GameActions
  <2>3. CASE ~last
    BY <1>5, <2>1, <2>3, IntermissionLeads DEF DoCompleted
  <2> QED BY <2>2, <2>3
<1>6. CASE g.gameaction = "victory"
  <2>1. h = StartFinale(g)
    BY <1>6 DEF Perform
  <2>2. g.level # "none" \/ ~Loaded(g)
    BY <1>6 DEF Loaded, Leaving
  <2> QED BY <1>6, <2>1, <2>2, StartFinaleLeads DEF Ready, Unloads
<1>7. CASE g.gameaction \in {"savegame", "screenshot"}
  <2>1. h = [g EXCEPT !.gameaction = "nothing"]
    BY <1>7 DEF Perform
  <2> QED BY <2>1, ActionLeads DEF Leads, Ready, GameActions, Leaving
<1>8. CASE g.gameaction = "nothing"
  <2>1. h = g
    BY <1>8 DEF Perform
  <2>2. Leads(g, g)
    BY DEF Leads, KeysFrom
  <2> QED BY <2>1, <2>2
<1> QED
  BY <1>1, <1>2, <1>3, <1>4, <1>5, <1>6, <1>7, <1>8 DEF Fine, Flow, GameActions

-----------------------------------------------------------------------------
(* A tic                                                                   *)

(* A game that begins has a level, and the rest of the tic keeps it.       *)
LEMMA BeginsLoaded ==
  ASSUME NEW g, Fine(g), Unloads(g), NEW readable \in BOOLEAN, NEW last \in BOOLEAN,
         BeginsGame(g, readable)
  PROVE  Loaded(Settled(g, readable, last))
<1> DEFINE h == Perform(g, readable, last)
<1>1. h.level # "none"
  <2>1. CASE g.gameaction = "playdemo"
    <3> DEFINE i == InitNew(g, "demo")
               d == [i EXCEPT !.usergame = FALSE, !.demoplayback = TRUE]
    <3>1. i \in Flow /\ i.level = "demo"
      BY InitNewFlow DEF Fine
    <3>2. d.level = i.level
      BY <3>1 DEF Flow
    <3>3. h = d
      BY <2>1 DEF Perform, DoPlayDemo
    <3> QED BY <3>1, <3>2, <3>3
  <2>2. CASE g.gameaction = "newgame"
    <3>1. h = InitNew(g, "game")
      BY <2>2 DEF Perform
    <3> QED BY <3>1, InitNewFlow DEF Fine
  <2>3. CASE g.gameaction = "loadgame" /\ readable
    <3>1. h = InitNew(g, "game")
      BY <2>3 DEF Perform, DoLoadGame
    <3> QED BY <3>1, InitNewFlow DEF Fine
  <2> QED BY <2>1, <2>2, <2>3 DEF BeginsGame
<1>2. Leads(g, h) /\ Ready(h)
  BY PerformLeads DEF Ready, Unloads
<1>3. Leads(h, Perform(h, readable, last))
  BY <1>2, PerformLeads DEF Leads
<1>4. Loaded(h)
  BY <1>1 DEF Loaded
<1> QED BY <1>3, <1>4 DEF Settled, Leads

LEMMA SettledLeads ==
  ASSUME NEW g, Fine(g), Unloads(g), NEW readable \in BOOLEAN, NEW last \in BOOLEAN
  PROVE  Leads(g, Settled(g, readable, last))
<1> DEFINE h == Perform(g, readable, last)
<1>1. Ready(g)
  BY DEF Ready, Unloads
<1>2. Leads(g, h) /\ Ready(h)
  BY <1>1, PerformLeads
<1>3. Leads(h, Perform(h, readable, last))
  BY <1>2, PerformLeads DEF Leads
<1>4. Settled(g, readable, last) = Perform(h, readable, last)
  BY DEF Settled
<1> QED BY <1>2, <1>3, <1>4, LeadsTransitive

LEMMA AdvanceLeads ==
  ASSUME NEW g, Fine(g), Unloads(g), NEW demo \in BOOLEAN
  PROVE  /\ Fine(DoAdvanceDemo(g, demo)) /\ Unloads(DoAdvanceDemo(g, demo))
         /\ KeysFrom(g, DoAdvanceDemo(g, demo))
         /\ Loaded(g) \/ (AtStart(g) /\ ~demo) => Loaded(DoAdvanceDemo(g, demo))
<1> DEFINE action == IF demo THEN "playdemo" ELSE "nothing"
           page == IF demo THEN g.pagetic ELSE PageTics
           state == IF demo THEN g.gamestate ELSE "demoscreen"
           s == [g EXCEPT !.reborn = FALSE, !.advancedemo = FALSE, !.title = FALSE,
                          !.usergame = FALSE, !.gameaction = action, !.pagetic = page]
           h == [s EXCEPT !.gamestate = state]
<1>1. action \in GameActions /\ action \notin Leaving
  BY DEF GameActions, Leaving
<1>2. page \in 0 .. PageTics /\ state \in GameStates
  BY FlowConstants DEF Fine, Flow, GameStates
<1> HIDE DEF action, page, state
<1>3. s \in Flow /\ ~s.reborn /\ ~s.usergame /\ s.gameaction = action
  BY <1>1, <1>2 DEF Fine, Flow
<1>4. /\ s.gamestate = g.gamestate /\ s.level = g.level /\ s.wi = g.wi
      /\ s.oldgamestate = g.oldgamestate /\ s.demoplayback = g.demoplayback
  BY <1>1, <1>2 DEF Fine, Flow
<1>5. h \in Flow /\ h.gamestate = state
  BY <1>2, <1>3 DEF Flow
<1>6. /\ h.level = s.level /\ h.wi = s.wi /\ h.oldgamestate = s.oldgamestate
      /\ h.demoplayback = s.demoplayback /\ h.reborn = s.reborn
      /\ h.usergame = s.usergame /\ h.gameaction = s.gameaction
  BY <1>3 DEF Flow
<1>7. h = DoAdvanceDemo(g, demo)
  BY DEF DoAdvanceDemo, StaysInLevel, action, page, state, h, s
<1>8. h.gamestate \in {g.gamestate, "demoscreen"} /\ (~demo => h.gamestate = "demoscreen")
  BY <1>5 DEF state
<1> HIDE DEF h, s
<1>9. Fine(h) /\ Unloads(h)
  BY <1>3, <1>4, <1>5, <1>6, <1>8 DEF Fine, Own, WiSeen, Unloads
<1>10. KeysFrom(g, h)
  BY <1>3, <1>6 DEF KeysFrom
<1>11. Loaded(g) \/ (AtStart(g) /\ ~demo) => Loaded(h)
  BY <1>1, <1>3, <1>4, <1>6, <1>8 DEF Loaded, AtStart
<1> QED BY <1>7, <1>9, <1>10, <1>11

LEMMA DoRebornLeads ==
  ASSUME NEW g, Fine(g), Unloads(g)
  PROVE  Leads(g, DoReborn(g)) /\ Unloads(DoReborn(g))
<1>1. CASE g.reborn
  <2> DEFINE h == [g EXCEPT !.gameaction = "loadlevel"]
  <2>1. Loaded(g) => g.level # "none"
    BY <1>1 DEF Loaded
  <2>2. Leads(g, h) /\ Unloads(h)
    BY <2>1, ActionLeads DEF Leads, Unloads, GameActions
  <2> QED BY <1>1, <2>2 DEF DoReborn
<1>2. CASE ~g.reborn
  BY <1>2 DEF DoReborn, Leads, KeysFrom
<1> QED BY <1>1, <1>2

LEMMA DemoEndsLeads ==
  ASSUME NEW g, Fine(g), NEW over \in BOOLEAN
  PROVE  Leads(g, DemoEnds(g, over))
<1>1. CASE g.demoplayback /\ over
  <2> DEFINE h == [g EXCEPT !.demoplayback = FALSE, !.advancedemo = TRUE]
  <2>1. h \in Flow /\ ~h.demoplayback
    BY DEF Fine, Flow
  <2>2. /\ h.gamestate = g.gamestate /\ h.level = g.level /\ h.wi = g.wi
        /\ h.oldgamestate = g.oldgamestate /\ h.usergame = g.usergame
        /\ h.reborn = g.reborn /\ h.gameaction = g.gameaction
        /\ h.gamekeydown = g.gamekeydown
    BY DEF Fine, Flow
  <2>3. Leads(g, h)
    BY <2>1, <2>2 DEF Leads, Fine, Own, WiSeen, KeysFrom, Loaded
  <2> QED BY <1>1, <2>3 DEF DemoEnds
<1>2. CASE ~(g.demoplayback /\ over)
  BY <1>2 DEF DemoEnds, Leads, KeysFrom
<1> QED BY <1>1, <1>2

LEMMA SpecialButtonsLeads ==
  ASSUME NEW g, Fine(g), NEW asks \in BOOLEAN
  PROVE  Leads(g, SpecialButtons(g, asks))
<1>1. CASE asks
  BY <1>1, ActionLeads DEF SpecialButtons, Leads, GameActions, Leaving
<1>2. CASE ~asks
  BY <1>2 DEF SpecialButtons, Leads, KeysFrom
<1> QED BY <1>1, <1>2

(* The end of an intermission is noticed in the tic that ends it.          *)
LEMMA FinishedLeads ==
  ASSUME NEW g, Fine(g)
  PROVE  /\ Leads(g, Finished(g)) /\ Unloads(Finished(g))
         /\ Finished(g).wi => Finished(g).gamestate = "intermission"
<1> DEFINE w == g.wi /\ ~(g.oldgamestate = "intermission" /\ g.gamestate # "intermission")
           h == [g EXCEPT !.wi = w, !.oldgamestate = g.gamestate]
<1>1. w \in BOOLEAN /\ (w => g.gamestate = "intermission")
  BY DEF Fine, WiSeen, Flow
<1>2. g.gamestate = "intermission" => w
  BY DEF Fine, Own
<1> HIDE DEF w
<1>3. h \in Flow /\ h.wi = w /\ h.oldgamestate = g.gamestate
  BY <1>1 DEF Fine, Flow
<1>4. /\ h.gamestate = g.gamestate /\ h.level = g.level /\ h.usergame = g.usergame
      /\ h.demoplayback = g.demoplayback /\ h.reborn = g.reborn
      /\ h.gameaction = g.gameaction /\ h.gamekeydown = g.gamekeydown
  BY <1>1 DEF Fine, Flow
<1>5. h = Finished(g)
  BY DEF Finished, w
<1> HIDE DEF h
<1>6. Fine(h)
  BY <1>1, <1>2, <1>3, <1>4 DEF Fine, Own, WiSeen
<1>7. KeysFrom(g, h) /\ (Loaded(g) => Loaded(h))
  BY <1>4 DEF KeysFrom, Loaded
<1> QED BY <1>1, <1>3, <1>4, <1>5, <1>6, <1>7 DEF Leads, Unloads

LEMMA PageTickerLeads ==
  ASSUME NEW g, Fine(g), g.gamestate = "demoscreen", g.wi => g.gamestate = "intermission"
  PROVE  Leads(g, PageTicker(g)) /\ Unloads(PageTicker(g))
<1> DEFINE t == [g EXCEPT !.pagetic = g.pagetic - 1]
           a == [g EXCEPT !.advancedemo = TRUE]
<1>1. g.pagetic > 0 => t \in Flow
  BY FlowConstants DEF Fine, Flow
<1>2. a \in Flow
  BY DEF Fine, Flow
<1>3. \A h \in {t, a} :
        /\ h.gamestate = g.gamestate /\ h.level = g.level /\ h.usergame = g.usergame
        /\ h.demoplayback = g.demoplayback /\ h.reborn = g.reborn /\ h.wi = g.wi
        /\ h.gameaction = g.gameaction /\ h.gamekeydown = g.gamekeydown
  BY DEF Fine, Flow
<1> HIDE DEF a, t
<1>4. \A h \in {t, a} : h \in Flow => Leads(g, h) /\ Unloads(h)
  BY <1>3 DEF Leads, Fine, Own, WiSeen, KeysFrom, Loaded, Unloads
<1>5. PageTicker(g) = IF g.pagetic > 0 THEN t ELSE a
  BY DEF PageTicker, NeverTurns, t, a
<1> QED BY <1>1, <1>2, <1>4, <1>5

LEMMA DiesLeads ==
  ASSUME NEW g, Fine(g), Unloads(g), g.gamestate = "level",
         NEW d, d = [g EXCEPT !.reborn = TRUE]
  PROVE  Leads(g, d) /\ Unloads(d)
<1>1. d \in Flow
  BY DEF Fine, Flow
<1>2. /\ d.gamestate = g.gamestate /\ d.level = g.level /\ d.usergame = g.usergame
      /\ d.demoplayback = g.demoplayback /\ d.wi = g.wi /\ d.oldgamestate = g.oldgamestate
      /\ d.gamekeydown = g.gamekeydown
  BY DEF Fine, Flow
<1> QED BY <1>1, <1>2 DEF Leads, Fine, Own, WiSeen, KeysFrom, Loaded, Unloads

LEMMA OutcomesLead ==
  ASSUME NEW g, Fine(g), Unloads(g), g.wi => g.gamestate = "intermission",
         NEW h \in Outcomes(g)
  PROVE  Leads(g, h) /\ Unloads(h)
<1> DEFINE done == [g EXCEPT !.gameaction = "completed"]
           gone == [g EXCEPT !.gameaction = "worlddone"]
           dead == [g EXCEPT !.reborn = TRUE]
           both == [done EXCEPT !.reborn = TRUE]
<1>1. g.gamestate \in GameStates
  BY DEF Fine, Flow
<1>2. Leads(g, g)
  BY DEF Leads, KeysFrom
<1>3. g.gamestate # "demoscreen" => (Loaded(g) => g.level # "none")
  BY DEF Loaded
<1>4. CASE g.gamestate = "level"
  <2>1. h \in {g, done, dead, both}
    BY <1>4 DEF Outcomes
  <2>2. Leads(g, done) /\ Unloads(done) /\ done.gamestate = "level"
    BY <1>3, <1>4, ActionLeads DEF Leads, Unloads, GameActions
  <2>3. Leads(g, dead) /\ Unloads(dead)
    BY <1>4, DiesLeads
  <2>4. Leads(done, both) /\ Unloads(both)
    BY <2>2, DiesLeads DEF Leads
  <2>5. Leads(g, both)
    BY <2>2, <2>4, LeadsTransitive
  <2> QED BY <1>2, <2>1, <2>2, <2>3, <2>4, <2>5
<1>5. CASE g.gamestate \in {"intermission", "finale"}
  <2>1. h \in {g, gone, StartFinale(g)}
    BY <1>5 DEF Outcomes
  <2>2. Leads(g, gone) /\ Unloads(gone)
    BY <1>3, <1>5, ActionLeads DEF Leads, Unloads, GameActions
  <2>3. Leads(g, StartFinale(g)) /\ Unloads(StartFinale(g))
    BY <1>3, <1>5, StartFinaleLeads DEF Unloads
  <2> QED BY <1>2, <2>1, <2>2, <2>3
<1>6. CASE g.gamestate = "demoscreen"
  BY <1>6, PageTickerLeads DEF Outcomes
<1> QED BY <1>1, <1>4, <1>5, <1>6 DEF GameStates

LEMMA TickerLeads ==
  ASSUME NEW g, Fine(g), Unloads(g), NEW save \in BOOLEAN, NEW readable \in BOOLEAN,
         NEW last \in BOOLEAN, NEW over \in BOOLEAN,
         NEW h \in Ticker(g, save, readable, last, over)
  PROVE  /\ Leads(g, h) /\ Unloads(h)
         /\ BeginsGame(g, readable) => Loaded(h)
<1> DEFINE s == Settled(g, readable, last)
           e == DemoEnds(s, over)
           asks == Asks(s, over, save)
           p == SpecialButtons(e, asks)
           f == Finished(p)
<1>2. Leads(g, s) /\ (BeginsGame(g, readable) => Loaded(s))
  BY SettledLeads, BeginsLoaded
<1>3. Leads(s, e)
  BY <1>2, DemoEndsLeads DEF Leads
<1>4. asks \in BOOLEAN
  BY FlowConstants DEF Asks
<1>5. Leads(e, p)
  BY <1>3, <1>4, SpecialButtonsLeads DEF Leads
<1>6. Leads(p, f) /\ Unloads(f) /\ (f.wi => f.gamestate = "intermission")
  BY <1>5, FinishedLeads DEF Leads
<1>7. h \in Outcomes(f)
  BY DEF Ticker
<1>8. Leads(f, h) /\ Unloads(h)
  BY <1>6, <1>7, OutcomesLead DEF Leads
<1>9. Leads(s, f)
  BY <1>3, <1>5, <1>6, LeadsTransitive
<1>10. Leads(s, h)
  BY <1>8, <1>9, LeadsTransitive
<1>11. Leads(g, h)
  BY <1>2, <1>10, LeadsTransitive
<1> QED BY <1>2, <1>8, <1>10, <1>11 DEF Leads

(* What a tic makes of the record, the sequence of demos included.         *)
LEMMA TicLeads ==
  ASSUME Fine(game), Unloads(game), cmds \in Seq(BOOLEAN), RunTic
  PROVE  /\ Fine(game') /\ Unloads(game') /\ KeysFrom(game, game')
         /\ Loaded(game) \/ AtStart(game) \/ (unread /\ ~unread') => Loaded(game')
         /\ (unread' => unread) /\ sendsave' \in BOOLEAN /\ unread' \in BOOLEAN
<1> DEFINE First(demo) == IF game.advancedemo THEN DoAdvanceDemo(game, demo) ELSE game
<1>1. PICK demo \in BOOLEAN, readable \in BOOLEAN, last \in BOOLEAN, over \in BOOLEAN :
        /\ game.title => ~demo
        /\ game' \in Ticker(DoReborn(First(demo)), Head(cmds), readable, last, over)
        /\ sendsave' = (sendsave /\ ~LoadsLevel(DoReborn(First(demo)), readable))
        /\ unread' = (unread /\ ~BeginsGame(DoReborn(First(demo)), readable))
  BY Zenon DEF RunTic
<1> DEFINE f == First(demo)
           g == DoReborn(f)
<1>2. Head(cmds) \in BOOLEAN
  BY HeadTailProperties DEF RunTic
<1>3. /\ Fine(f) /\ Unloads(f) /\ KeysFrom(game, f)
      /\ Loaded(game) \/ AtStart(game) => Loaded(f)
  <2>1. CASE game.advancedemo
    BY <1>1, <2>1, AdvanceLeads DEF AtStart
  <2>2. CASE ~game.advancedemo
    BY <2>2 DEF KeysFrom, AtStart
  <2> QED BY <2>1, <2>2
<1> HIDE DEF First, f
<1>4. Leads(f, g) /\ Unloads(g)
  BY <1>3, DoRebornLeads
<1> HIDE DEF g
<1>5. /\ Leads(g, game') /\ Unloads(game')
      /\ BeginsGame(g, readable) => Loaded(game')
  BY <1>1, <1>2, <1>4, TickerLeads DEF Leads, f, g
<1>6. Leads(f, game')
  BY <1>4, <1>5, LeadsTransitive
<1>7. /\ unread /\ ~unread' => BeginsGame(g, readable)
      /\ (unread' => unread) /\ sendsave' \in BOOLEAN /\ unread' \in BOOLEAN
  BY <1>1 DEF f, g
<1> QED BY <1>3, <1>5, <1>6, <1>7 DEF Leads, KeysFrom

-----------------------------------------------------------------------------
(* The events                                                              *)

LEMMA FineOfInv == ASSUME FlowInv PROVE Fine(game) /\ Unloads(game)
BY DEF FlowInv, TypeOK, Fine, WiSeen, Unloads

(* The first event goes; what waits behind it does not change.             *)
LEMMA FirstEventGoes ==
  ASSUME pending \in Seq(Events), pending # <<>>, pending' = Tail(pending), held' = held,
         PressesSound
  PROVE  /\ pending' \in Seq(Events) /\ PressesSound'
         /\ \A k : LiftWaits(k) /\ Head(pending) # [key |-> k, down |-> FALSE] => LiftWaits(k)'
<1>1. /\ pending' \in Seq(Events) /\ Len(pending) \in Nat /\ Len(pending') = Len(pending) - 1
      /\ Head(pending) = pending[1]
      /\ \A i \in 1 .. Len(pending') : pending'[i] = pending[i + 1]
  BY HeadTailProperties, LenProperties
<1>2. ASSUME NEW k, LiftWaits(k), Head(pending) # [key |-> k, down |-> FALSE]
      PROVE  LiftWaits(k)'
  <2>1. PICK i \in 1 .. Len(pending) : pending[i] = [key |-> k, down |-> FALSE]
    BY <1>2 DEF LiftWaits
  <2>2. i # 1
    BY <1>1, <1>2, <2>1
  <2>3. i - 1 \in 1 .. Len(pending') /\ pending'[i - 1] = pending[i]
    BY <1>1, <2>2
  <2> QED BY <2>1, <2>3 DEF LiftWaits
<1>3. PressesSound'
  <2> SUFFICES ASSUME NEW i \in 1 .. Len(pending'), pending'[i].down
               PROVE  \/ pending'[i].key \in held'
                      \/ \E j \in i+1 .. Len(pending') :
                           pending'[j] = [key |-> pending'[i].key, down |-> FALSE]
    BY DEF PressesSound
  <2>1. i + 1 \in 1 .. Len(pending) /\ pending'[i] = pending[i + 1]
    BY <1>1
  <2>2. CASE pending[i + 1].key \in held
    BY <2>1, <2>2
  <2>3. CASE \E j \in i+2 .. Len(pending) :
               pending[j] = [key |-> pending[i + 1].key, down |-> FALSE]
    <3>1. PICK j \in i+2 .. Len(pending) :
                 pending[j] = [key |-> pending[i + 1].key, down |-> FALSE]
      BY <2>3
    <3>2. j - 1 \in i+1 .. Len(pending') /\ pending'[j - 1] = pending[j]
      BY <1>1, <3>1
    <3> QED BY <2>1, <3>1, <3>2
  <2>4. \/ pending[i + 1].key \in held
        \/ \E j \in i+2 .. Len(pending) :
             pending[j] = [key |-> pending[i + 1].key, down |-> FALSE]
    <3> DEFINE m == i + 1
    <3>1. m \in 1 .. Len(pending) /\ pending[m].down /\ m + 1 = i + 2
      BY <2>1
    <3> HIDE DEF m
    <3>2. \/ pending[m].key \in held
          \/ \E j \in m+1 .. Len(pending) : pending[j] = [key |-> pending[m].key, down |-> FALSE]
      BY <3>1 DEF PressesSound
    <3> QED BY <3>1, <3>2 DEF m
  <2> QED BY <2>2, <2>3, <2>4
<1> QED BY <1>1, <1>2, <1>3

(* A key goes down, again perhaps, or comes up: the event is the last.     *)
LEMMA LastEventComes ==
  ASSUME pending \in Seq(Events), PressesSound, NEW k \in Keys, NEW down \in BOOLEAN,
         pending' = Append(pending, [key |-> k, down |-> down]),
         held' = IF down THEN held \cup {k} ELSE held \ {k}
  PROVE  /\ pending' \in Seq(Events) /\ PressesSound'
         /\ \A c : c \in held \/ LiftWaits(c) => c \in held' \/ LiftWaits(c)'
<1> DEFINE ev == [key |-> k, down |-> down]
           n == Len(pending)
<1>1. ev \in Events
  BY DEF Events
<1>2. /\ pending' \in Seq(Events) /\ n \in Nat /\ Len(pending') = n + 1
      /\ \A i \in 1 .. n : pending'[i] = pending[i]
      /\ pending'[n + 1] = ev
  BY <1>1, AppendProperties, LenProperties
<1>3. \A c : LiftWaits(c) => LiftWaits(c)'
  BY <1>2 DEF LiftWaits
<1>4. ASSUME ~down PROVE LiftWaits(k)'
  <2>1. ev = [key |-> k, down |-> FALSE]
    BY <1>4
  <2>2. n + 1 \in 1 .. Len(pending')
    BY <1>2
  <2> QED BY <1>2, <2>1, <2>2 DEF LiftWaits
<1>5. PressesSound'
  <2> SUFFICES ASSUME NEW i \in 1 .. Len(pending'), pending'[i].down
               PROVE  \/ pending'[i].key \in held'
                      \/ \E j \in i+1 .. Len(pending') :
                           pending'[j] = [key |-> pending'[i].key, down |-> FALSE]
    BY DEF PressesSound
  <2>1. CASE i = n + 1
    BY <1>2, <2>1
  <2>2. CASE i \in 1 .. n /\ ~down /\ pending[i].key = k
    <3>1. pending'[n + 1] = [key |-> pending'[i].key, down |-> FALSE]
      BY <1>2, <2>2
    <3> QED BY <1>2, <2>2, <3>1
  <2>3. CASE i \in 1 .. n /\ (down \/ pending[i].key # k)
    <3>1. \/ pending[i].key \in held
          \/ \E j \in i+1 .. n : pending[j] = [key |-> pending[i].key, down |-> FALSE]
      BY <1>2, <2>3 DEF PressesSound
    <3>2. CASE pending[i].key \in held
      BY <1>2, <2>3, <3>2
    <3>3. CASE \E j \in i+1 .. n : pending[j] = [key |-> pending[i].key, down |-> FALSE]
      <4>1. PICK j \in i+1 .. n : pending[j] = [key |-> pending[i].key, down |-> FALSE]
        BY <3>3
      <4>2. pending'[j] = pending[j] /\ j \in i+1 .. n+1 /\ pending'[i] = pending[i]
        BY <1>2, <2>3
      <4> QED BY <1>2, <4>1, <4>2
    <3> QED BY <3>1, <3>2, <3>3
  <2>4. i = n + 1 \/ i \in 1 .. n
    BY <1>2
  <2> QED BY <2>1, <2>2, <2>3, <2>4
<1> QED BY <1>2, <1>3, <1>4, <1>5

(* An event does not reach what is played, but for the keys of the game    *)
(* and the next action; nothing the menu asks for goes on with a level.    *)
Touches(g, h) ==
  /\ Fine(h) /\ Unloads(h)
  /\ h.usergame = g.usergame
  /\ (Loaded(g) => Loaded(h)) /\ (AtStart(g) => AtStart(h))

LEMMA KeysTouch ==
  ASSUME NEW g, Fine(g), Unloads(g), NEW keys \in SUBSET Keys,
         NEW h, h = [g EXCEPT !.gamekeydown = keys]
  PROVE  Touches(g, h) /\ h.gamekeydown = keys
<1>1. h \in Flow /\ h.gamekeydown = keys
  BY DEF Fine, Flow
<1>2. /\ h.gamestate = g.gamestate /\ h.level = g.level /\ h.usergame = g.usergame
      /\ h.demoplayback = g.demoplayback /\ h.wi = g.wi /\ h.oldgamestate = g.oldgamestate
      /\ h.gameaction = g.gameaction /\ h.reborn = g.reborn
      /\ h.advancedemo = g.advancedemo /\ h.title = g.title
  BY DEF Fine, Flow
<1> QED BY <1>1, <1>2 DEF Touches, Fine, Own, WiSeen, Unloads, Loaded, AtStart

LEMMA RequestTouches ==
  ASSUME NEW g, Fine(g), Unloads(g), NEW a \in GameActions, a \notin Leaving,
         NEW h, h = [g EXCEPT !.gameaction = a]
  PROVE  Touches(g, h) /\ h.gamekeydown = g.gamekeydown
<1>1. h.usergame = g.usergame /\ h.advancedemo = g.advancedemo /\ h.title = g.title
      /\ h.gamekeydown = g.gamekeydown
  BY DEF Fine, Flow
<1> QED BY <1>1, ActionLeads DEF Touches, Unloads, AtStart

LEMMA TitleTouches ==
  ASSUME NEW g, Fine(g), Unloads(g),
         NEW h, h = [g EXCEPT !.gameaction = "nothing", !.advancedemo = TRUE, !.title = TRUE]
  PROVE  Touches(g, h) /\ h.gamekeydown = g.gamekeydown
<1>1. h \in Flow /\ h.gameaction = "nothing" /\ h.advancedemo /\ h.title
  BY DEF Fine, Flow, GameActions
<1>2. /\ h.gamestate = g.gamestate /\ h.level = g.level /\ h.usergame = g.usergame
      /\ h.demoplayback = g.demoplayback /\ h.wi = g.wi /\ h.oldgamestate = g.oldgamestate
      /\ h.reborn = g.reborn /\ h.gamekeydown = g.gamekeydown
  BY DEF Fine, Flow
<1> QED
  BY <1>1, <1>2 DEF Touches, Fine, Own, WiSeen, Unloads, Loaded, Leaving, AtStart

LEMMA NoneTouches ==
  ASSUME NEW g, Fine(g), Unloads(g)
  PROVE  Touches(g, g)
BY DEF Touches

-----------------------------------------------------------------------------
(* The invariant holds                                                     *)

(* What keeps the invariant when an event is taken from the queue.         *)
LEMMA EventKeeps ==
  ASSUME FlowInv, pending # <<>>, pending' = Tail(pending), Touches(game, game'),
         menu' \in {"off", "main", "save", "end"}, sendsave' \in BOOLEAN,
         UNCHANGED <<cmds, held, ran, unread>>,
         game'.usergame => \A k \in game'.gamekeydown :
           (k \in held \/ LiftWaits(k)) /\ Head(pending) # [key |-> k, down |-> FALSE]
  PROVE  FlowInv'
<1>1. /\ pending' \in Seq(Events) /\ PressesSound'
      /\ \A k : LiftWaits(k) /\ Head(pending) # [key |-> k, down |-> FALSE] => LiftWaits(k)'
  BY FirstEventGoes DEF FlowInv, TypeOK
<1>2. Own(game') /\ Unloads(game') /\ game' \in Flow
  BY DEF Touches, Fine
<1>3. NoStuckKeys'
  BY <1>1 DEF NoStuckKeys
<1>4. TypeOK'
  BY <1>1, <1>2 DEF FlowInv, TypeOK
<1> QED BY <1>1, <1>2, <1>3, <1>4 DEF FlowInv

LEMMA ProcessEventsKeeps ==
  ASSUME FlowInv, ProcessEvents
  PROVE  FlowInv' /\ Touches(game, game') /\ ran' = ran /\ unread' = unread
<1>1. Fine(game) /\ Unloads(game)
  BY FineOfInv
<1>2. game.usergame => \A k \in game.gamekeydown : k \in held \/ LiftWaits(k)
  BY DEF FlowInv, NoStuckKeys
<1>3. menu \in {"off", "main", "save", "end"} /\ sendsave \in BOOLEAN
      /\ pending \in Seq(Events) /\ game.gamekeydown \subseteq Keys
  BY DEF FlowInv, TypeOK, Flow
<1>4. ASSUME KeyDown, Touches(game, game'), game'.gamekeydown = game.gamekeydown,
             menu' \in {"off", "main", "save", "end"}, sendsave' \in BOOLEAN,
             UNCHANGED <<cmds, held, ran, unread>>
      PROVE  FlowInv' /\ Touches(game, game') /\ ran' = ran /\ unread' = unread
  <2>1. PICK c \in Keys : /\ pending # <<>> /\ pending' = Tail(pending)
                          /\ Head(pending) = [key |-> c, down |-> TRUE]
    BY <1>4 DEF KeyDown, Down
  <2>2. \A k : Head(pending) # [key |-> k, down |-> FALSE]
    BY <2>1
  <2>3. game'.usergame = game.usergame
    BY <1>4 DEF Touches
  <2> QED BY <1>2, <1>4, <2>1, <2>2, <2>3, EventKeeps
<1>5. CASE OpenMenu \/ DoSave \/ PopUp
  <2>1. Touches(game, game)
    BY <1>1, NoneTouches
  <2>2. /\ KeyDown /\ game' = game /\ UNCHANGED <<cmds, held, ran, unread>>
        /\ menu' \in {"off", "main", "save", "end"} /\ sendsave' \in BOOLEAN
    BY <1>3, <1>5 DEF OpenMenu, DoSave, PopUp, Eaten
  <2> QED BY <1>4, <2>1, <2>2
<1>6. ASSUME NEW a \in {"newgame", "loadgame", "screenshot"},
             (a = "screenshot" /\ ScreenShot) \/ Request(a)
      PROVE  FlowInv' /\ Touches(game, game') /\ ran' = ran /\ unread' = unread
  <2>1. /\ KeyDown /\ game' = [game EXCEPT !.gameaction = a] /\ UNCHANGED <<cmds, held, ran, unread>>
        /\ menu' \in {"off", "main", "save", "end"} /\ sendsave' \in BOOLEAN
    BY <1>3, <1>6 DEF ScreenShot, Request, Eaten
  <2>2. Touches(game, game') /\ game'.gamekeydown = game.gamekeydown
    BY <1>1, <2>1, RequestTouches DEF GameActions, Leaving
  <2> QED BY <1>4, <2>1, <2>2
<1>7. CASE EndGame
  <2>1. /\ KeyDown /\ UNCHANGED <<cmds, held, ran, unread>>
        /\ game' = [game EXCEPT !.gameaction = "nothing", !.advancedemo = TRUE, !.title = TRUE]
        /\ menu' \in {"off", "main", "save", "end"} /\ sendsave' \in BOOLEAN
    BY <1>3, <1>7 DEF EndGame, Eaten
  <2>2. Touches(game, game') /\ game'.gamekeydown = game.gamekeydown
    BY <1>1, <2>1, TitleTouches
  <2> QED BY <1>4, <2>1, <2>2
<1>8. ASSUME NEW k \in Keys, PressKey(k)
      PROVE  FlowInv' /\ Touches(game, game') /\ ran' = ran /\ unread' = unread
  <2>1. /\ pending # <<>> /\ pending' = Tail(pending)
        /\ Head(pending) = [key |-> k, down |-> TRUE] /\ UNCHANGED <<menu, sendsave, cmds, held, ran, unread>>
    BY <1>8 DEF PressKey, Down
  <2>2. /\ Touches(game, game')
        /\ game'.gamekeydown \subseteq game.gamekeydown \cup {k}
    <3> DEFINE keys == game.gamekeydown \cup {k}
    <3>1. CASE game' = [game EXCEPT !.gamekeydown = keys]
      <4>1. keys \in SUBSET Keys
        BY <1>3
      <4> QED BY <1>1, <3>1, <4>1, KeysTouch
    <3>2. CASE game' = game
      BY <1>1, <3>2, NoneTouches
    <3> QED BY <1>8, <3>1, <3>2 DEF PressKey
  <2>3. k \in held \/ LiftWaits(k)
    <3>1. Len(pending) \in Nat \ {0} /\ Head(pending) = pending[1]
      BY <1>3, <2>1, EmptySeq
    <3>2. 1 \in 1 .. Len(pending) /\ pending[1].down /\ pending[1].key = k
      BY <2>1, <3>1
    <3>3. k \in held \/ \E j \in 1+1 .. Len(pending) : pending[j] = [key |-> k, down |-> FALSE]
      BY <3>2 DEF FlowInv, PressesSound
    <3>4. ASSUME NEW j \in 1+1 .. Len(pending), pending[j] = [key |-> k, down |-> FALSE]
          PROVE  LiftWaits(k)
      <4>1. j \in 1 .. Len(pending)
        BY <3>1
      <4> QED BY <3>4, <4>1 DEF LiftWaits
    <3> QED BY <3>3, <3>4
  <2>4. \A c : Head(pending) # [key |-> c, down |-> FALSE]
    BY <2>1
  <2>5. game'.usergame = game.usergame
    BY <2>2 DEF Touches
  <2> QED BY <1>2, <1>3, <2>1, <2>2, <2>3, <2>4, <2>5, EventKeeps
<1>9. ASSUME NEW k \in Keys, LiftKey(k)
      PROVE  FlowInv' /\ Touches(game, game') /\ ran' = ran /\ unread' = unread
  <2>1. /\ pending # <<>> /\ pending' = Tail(pending)
        /\ Head(pending) = [key |-> k, down |-> FALSE] /\ UNCHANGED <<menu, sendsave, cmds, held, ran, unread>>
    BY <1>9 DEF LiftKey, Down
  <2>2. \A c : c # k => Head(pending) # [key |-> c, down |-> FALSE]
    BY <2>1
  <2>3. CASE InDemos
    <3>1. game' = game
      BY <1>9, <2>3 DEF LiftKey, Ignored
    <3>2. ~game.usergame
      BY <2>3 DEF InDemos, FlowInv, Own
    <3>3. Touches(game, game')
      BY <1>1, <3>1, NoneTouches
    <3> QED BY <1>3, <2>1, <3>1, <3>2, <3>3, EventKeeps
  <2>4. CASE ~InDemos
    <3>1. game' = [game EXCEPT !.gamekeydown = game.gamekeydown \ {k}]
      BY <1>9, <2>4 DEF LiftKey, Ignored
    <3>2. Touches(game, game') /\ game'.gamekeydown = game.gamekeydown \ {k}
      BY <1>1, <1>3, <3>1, KeysTouch
    <3>3. game'.usergame = game.usergame
      BY <3>2 DEF Touches
    <3> QED BY <1>2, <1>3, <2>1, <2>2, <3>2, <3>3, EventKeeps
  <2> QED BY <2>3, <2>4
<1> QED BY <1>5, <1>6, <1>7, <1>8, <1>9 DEF ProcessEvents

LEMMA FlowInvInit == Init => FlowInv
<1> SUFFICES ASSUME Init PROVE FlowInv
  OBVIOUS
<1>1. PICK start \in Starts : game = Begun(start)
  BY DEF Init
<1>2. Blank \in Flow /\ Blank.oldgamestate = "level" /\ ~Blank.wi
  BY FlowConstants DEF Blank, Flow, GameStates, GameActions
<1>3. game \in Flow /\ Own(game) /\ Unloads(game) /\ game.gamekeydown = {}
  <2>1. CASE start = "title"
    <3>1. game = [Blank EXCEPT !.advancedemo = TRUE, !.title = TRUE]
      BY <1>1, <2>1 DEF Begun
    <3>2. /\ game.gamestate = "level" /\ ~game.usergame /\ ~game.demoplayback
          /\ ~game.wi /\ game.gamekeydown = {}
      BY <3>1 DEF Blank
    <3>3. game \in Flow
      BY <1>2, <3>1 DEF Flow, GameActions
    <3> QED BY <3>2, <3>3 DEF Own, Unloads
  <2>2. CASE start = "game"
    <3>1. game = InitNew(Blank, "game")
      BY <1>1, <2>2 DEF Begun
    <3> QED BY <1>2, <3>1, InitNewFlow DEF Own, Unloads
  <2>3. CASE start = "loadgame"
    <3>1. game = [Blank EXCEPT !.gameaction = "loadgame"]
      BY <1>1, <2>3 DEF Begun
    <3>2. /\ game.gamestate = "level" /\ ~game.usergame /\ ~game.demoplayback
          /\ ~game.wi /\ game.gamekeydown = {}
      BY <3>1 DEF Blank
    <3>3. game \in Flow
      BY <1>2, <3>1 DEF Flow, GameActions
    <3> QED BY <3>2, <3>3 DEF Own, Unloads
  <2> QED BY FlowConstants, <2>1, <2>2, <2>3
<1>4. TypeOK
  <2>1. /\ cmds = <<>> /\ pending = <<>> /\ held = {} /\ menu = "off"
        /\ sendsave = FALSE /\ ran = FALSE
    BY DEF Init
  <2>2. cmds \in Seq(BOOLEAN) /\ pending \in Seq(Events) /\ Len(cmds) = 0
    BY <2>1
  <2>3. sendsave \in BOOLEAN /\ ran \in BOOLEAN /\ unread \in BOOLEAN /\ held \subseteq Keys
    BY <2>1 DEF Init
  <2>4. menu \in {"off", "main", "save", "end"} /\ Len(cmds) <= MaxLead
    BY FlowConstants, <2>1, <2>2
  <2> QED BY <1>3, <2>2, <2>3, <2>4 DEF TypeOK
<1>5. NoStuckKeys /\ PressesSound
  BY <1>3, EmptySeq DEF Init, NoStuckKeys, PressesSound
<1> QED BY <1>3, <1>4, <1>5 DEF FlowInv

LEMMA RunTicKeeps ==
  ASSUME FlowInv, RunTic
  PROVE  /\ FlowInv' /\ ran' = TRUE
         /\ Loaded(game) \/ AtStart(game) \/ (unread /\ ~unread') => Loaded(game')
<1>1. /\ Fine(game) /\ Unloads(game) /\ cmds \in Seq(BOOLEAN) /\ Len(cmds) <= MaxLead
      /\ cmds # <<>>
  BY FineOfInv DEF FlowInv, TypeOK, RunTic
<1>2. /\ Fine(game') /\ Unloads(game') /\ KeysFrom(game, game')
      /\ Loaded(game) \/ AtStart(game) \/ (unread /\ ~unread') => Loaded(game')
      /\ sendsave' \in BOOLEAN /\ unread' \in BOOLEAN
  BY <1>1, TicLeads
<1>3. /\ cmds' \in Seq(BOOLEAN) /\ Len(cmds') = Len(cmds) - 1 /\ Len(cmds) \in Nat
      /\ ran' = TRUE /\ UNCHANGED <<menu, held, pending>>
  BY <1>1, HeadTailProperties, LenProperties DEF RunTic
<1>4. TypeOK'
  BY FlowConstants, <1>1, <1>2, <1>3 DEF FlowInv, TypeOK, Fine
<1>5. NoStuckKeys'
  BY <1>2, <1>3 DEF FlowInv, NoStuckKeys, KeysFrom, LiftWaits
<1>6. PressesSound'
  BY <1>3 DEF FlowInv, PressesSound
<1> QED BY <1>2, <1>3, <1>4, <1>5, <1>6 DEF FlowInv, Fine

LEMMA TypeKeeps ==
  ASSUME FlowInv, NEW k \in Keys, Type(k)
  PROVE  FlowInv' /\ game' = game /\ ran' = ran /\ unread' = unread
<1>1. /\ UNCHANGED <<game, menu, sendsave, cmds, ran, unread>> /\ pending \in Seq(Events)
      /\ PressesSound /\ TypeOK
  BY DEF Type, FlowInv, TypeOK
<1>2. PICK down \in BOOLEAN : /\ pending' = Append(pending, [key |-> k, down |-> down])
                              /\ held' = IF down THEN held \cup {k} ELSE held \ {k}
  <2>1. CASE held' = held \cup {k} /\ pending' = Append(pending, [key |-> k, down |-> TRUE])
    BY <2>1
  <2>2. CASE held' = held \ {k} /\ pending' = Append(pending, [key |-> k, down |-> FALSE])
    BY <2>2
  <2> QED BY <2>1, <2>2 DEF Type
<1>3. /\ pending' \in Seq(Events) /\ PressesSound'
      /\ \A c : c \in held \/ LiftWaits(c) => c \in held' \/ LiftWaits(c)'
  BY <1>1, <1>2, LastEventComes
<1>4. held' \subseteq Keys
  BY <1>1, <1>2 DEF TypeOK
<1>5. TypeOK'
  BY <1>1, <1>3, <1>4 DEF TypeOK
<1>6. NoStuckKeys'
  BY <1>1, <1>3 DEF FlowInv, NoStuckKeys
<1> QED BY <1>1, <1>3, <1>5, <1>6 DEF FlowInv

LEMMA BuildTiccmdKeeps ==
  ASSUME FlowInv, BuildTiccmd
  PROVE  FlowInv' /\ game' = game /\ ran' = ran /\ unread' = unread
<1>1. /\ UNCHANGED <<game, menu, held, pending, ran, unread>> /\ cmds \in Seq(BOOLEAN)
      /\ sendsave \in BOOLEAN /\ Len(cmds) < MaxLead /\ Len(cmds) \in Nat
      /\ cmds' = Append(cmds, sendsave) /\ sendsave' = FALSE
  BY LenProperties DEF BuildTiccmd, FlowInv, TypeOK
<1>2. cmds' \in Seq(BOOLEAN) /\ Len(cmds') = Len(cmds) + 1
  BY <1>1, AppendProperties
<1>3. sendsave' \in BOOLEAN
  BY <1>1
<1>4. Len(cmds') <= MaxLead
  BY FlowConstants, <1>1, <1>2
<1> QED
  BY <1>1, <1>2, <1>3, <1>4
     DEF FlowInv, TypeOK, Own, Unloads, NoStuckKeys, PressesSound, LiftWaits

(* One step, as far as the levels go too.                                  *)
LEMMA StepKeeps ==
  ASSUME FlowInv, [Next]_vars
  PROVE  FlowInv' /\ (LevelsInv => LevelsInv')
<1>1. CASE RunTic
  BY <1>1, RunTicKeeps DEF LevelsInv
<1>2. CASE BuildTiccmd
  BY <1>2, BuildTiccmdKeeps DEF LevelsInv, AtStart
<1>3. CASE ProcessEvents
  BY <1>3, ProcessEventsKeeps DEF LevelsInv, Touches
<1>4. ASSUME NEW k \in Keys, Type(k)
      PROVE  FlowInv' /\ (LevelsInv => LevelsInv')
  BY <1>4, TypeKeeps DEF LevelsInv, AtStart
<1>5. CASE UNCHANGED vars
  BY <1>5 DEF vars, FlowInv, TypeOK, Own, Unloads, NoStuckKeys, PressesSound, LiftWaits,
              LevelsInv, AtStart, Loaded
<1> QED BY <1>1, <1>2, <1>3, <1>4, <1>5 DEF Next

(* FlowInv is an invariant of the program, however it is started.          *)
THEOREM FlowInvariant == Spec => []FlowInv
<1>1. FlowInv /\ [Next]_vars => FlowInv'
  BY StepKeeps
<1> QED BY FlowInvInit, <1>1, PTL DEF Spec

-----------------------------------------------------------------------------
(* What follows                                                            *)

(* Every variable keeps its type through every chain of actions of a tic   *)
(* (G_Ticker) and every event.                                             *)
THEOREM FlowTypes == Spec => []TypeOK
<1>1. FlowInv => TypeOK
  BY DEF FlowInv
<1> QED BY <1>1, FlowInvariant, PTL

(* A demo never plays on the user's level nor counts as his game, and his  *)
(* game never goes on in the level of a demo: usergame and demoplayback of *)
(* G_DoPlayDemo, G_InitNew and D_DoAdvanceDemo agree with the level that   *)
(* is loaded, whatever requests the menu makes in between.                 *)
THEOREM OwnLevelAlways == Spec => []OwnLevel
<1>1. FlowInv => OwnLevel
  BY DEF FlowInv, Own, OwnLevel
<1> QED BY <1>1, FlowInvariant, PTL

(* The graphics of the intermission are there as long as it is shown, and  *)
(* are unloaded in the tic after it, however it ends: G_Ticker's           *)
(* comparison of gamestate and oldgamestate misses no end.                 *)
THEOREM IntermissionAlwaysLoaded == Spec => []IntermissionLoaded
<1>1. FlowInv => IntermissionLoaded
  BY DEF FlowInv, Own, Unloads, IntermissionLoaded
<1> QED BY <1>1, FlowInvariant, PTL

(* A key that counts as down in the user's game is down or its release is  *)
(* on its way, for any number of keys and of waiting events: no release is *)
(* lost to the menu or to a demo (D_ProcessEvents, G_Responder).           *)
THEOREM NoKeySticks == Spec => []NoStuckKeys
<1>1. FlowInv => NoStuckKeys
  BY DEF FlowInv
<1> QED BY <1>1, FlowInvariant, PTL

(* However it is started, the program has a level whenever gamestate says  *)
(* that it plays one, from the first tic on; but for a start with -loadgame *)
(* after which no game has begun, as the file could not be read or a       *)
(* screenshot took the place of the request (G_DoLoadGame, D_DoomMain).    *)
THEOREM LevelsAlwaysExist == Spec => []LevelsExist
<1>1. Init => LevelsInv
  <2> SUFFICES ASSUME Init PROVE LevelsInv
    OBVIOUS
  <2>1. PICK start \in Starts : game = Begun(start) /\ unread = (start = "loadgame")
    BY DEF Init
  <2>2. CASE start = "title"
    <3>1. game = [Blank EXCEPT !.advancedemo = TRUE, !.title = TRUE]
      BY <2>1, <2>2 DEF Begun
    <3>2. AtStart(game)
      BY <3>1 DEF Blank, AtStart, Leaving
    <3> QED BY <3>2 DEF Init, LevelsInv
  <2>3. CASE start = "game"
    <3>1. game = InitNew(Blank, "game")
      BY <2>1, <2>3 DEF Begun
    <3>2. Blank \in Flow
      BY FlowConstants DEF Blank, Flow, GameStates, GameActions
    <3> QED BY <3>1, <3>2, InitNewFlow DEF Loaded, LevelsInv
  <2>4. CASE start = "loadgame"
    BY <2>1, <2>4 DEF LevelsInv
  <2> QED BY FlowConstants, <2>1, <2>2, <2>3, <2>4
<1>2. FlowInv /\ LevelsInv /\ [Next]_vars => LevelsInv'
  BY StepKeeps
<1>3. LevelsInv => LevelsExist
  BY DEF LevelsInv, LevelsExist, Loaded
<1> QED BY <1>1, <1>2, <1>3, FlowInvariant, PTL DEF Spec
=============================================================================
