SPECIFICATION Spec
CONSTANTS
  NumSectors = 2
  Tag <- MCTag
  Ring <- MCRing
  Lines <- MCLines
  Timed = {1}
  Things = 1
  Blocks = {1, 2, 3}
  Null = 0
  MaxPlats = 1
  MaxCeilings = 1
CHECK_DEADLOCK FALSE
PROPERTY SavedWhole
