SPECIFICATION Spec
CONSTANTS
  Users = {"STFST01", "D_E1M1", "REJECT", "composite", "patch"}
  NoUser = "none"
  Tags = {1, 5, 8}
  Holders = {"status bar", "intermission", "music", "reject", "texture", "column", "sprite"}
  Lump <- MCLump
  Kind <- MCKind
  Nobody = "nobody"
CHECK_DEADLOCK FALSE
INVARIANTS PointersValid Valid
