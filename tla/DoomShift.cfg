SPECIFICATION Spec
CONSTANTS
  ScanCodes = {"left shift", "right shift", "a", "num lock"}
  KeyOf <- MCKeyOf
  NoKey = "none"
  Shift = "RSHIFT"
  Repeating = {"right shift", "a"}
  MaxRepeats = 1
  MAXEVENTS = 4
  NoEvent = NoEvent
  KbSize = 2
  Quick = 1
INVARIANT ShiftHeld
