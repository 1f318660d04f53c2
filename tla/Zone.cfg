SPECIFICATION FairSpec
CONSTANTS
  u1 = u1
  u2 = u2
  null = null
  Users = {u1, u2}
  NoUser = null
  Cells = 7
  Header = 1
  MinFragment = 1
  Requests = {1, 2}
  Tags = {1, 5, 8}
CHECK_DEADLOCK FALSE
INVARIANTS HeapSound MarksSound CursorsSound SweepComplete FailsLate
PROPERTIES PinnedStay ImplementsContract
