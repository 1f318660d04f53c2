SPECIFICATION FairSpec
CONSTANTS
  BACKUPTICS = 4
  MaxLead = 3
  Modes = {FALSE, TRUE}
  HalfRange = 8
  MaxTime = 11
  MaxTic = 20
CHECK_DEADLOCK FALSE
INVARIANTS TypeOK PendingIntact NoError NotAheadOfClock NotIdleTwice
PROPERTY Returns
