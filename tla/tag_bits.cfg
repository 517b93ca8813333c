SPECIFICATION Spec
CONSTANTS
  LANES = 16
  MistestedLanes = {12}
  bFix = TRUE
  MaxLanes = 4
INVARIANTS ByteTests WalkAsModelled
CHECK_DEADLOCK FALSE
