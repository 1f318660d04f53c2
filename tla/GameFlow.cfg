SPECIFICATION Spec
CONSTANTS
  k1 = k1
  k2 = k2
  Keys = {k1}
  Starts = {"title", "game", "loadgame"}
  DemoSaves = FALSE
  MaxLead = 2
  PageTics = 2
  MaxPending = 2
CHECK_DEADLOCK FALSE
INVARIANTS TypeOK NoStuckKeys IntermissionLoaded OwnLevel LevelsExist
