SPECIFICATION Spec
CONSTANTS
  LANES = 16
  MistestedLanes = {12}
  bFix = TRUE
  MaxLanes = 4
INVARIANT VisitsEveryHit
CHECK_DEADLOCK FALSE
