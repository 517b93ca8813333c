SPECIFICATION Spec
CONSTANTS
  LANES = 16
  MistestedLanes = {}
  JUMP_WRAP = 256
  Capacities = {16, 32, 48, 64, 80, 96, 112, 128, 144, 192, 208, 240, 256, 512}
  Homes = {0, 5, 100, 511}
INVARIANTS ClosedForm CoversTable
CHECK_DEADLOCK FALSE
