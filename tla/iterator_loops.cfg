SPECIFICATION IterSpec
CONSTANTS
  k1 = k1 k2 = k2 k3 = k3 v1 = v1 None = None
  GroupA = {k1}
  GroupB = {k3}
  GroupC = {k2}
  GroupD = {}
  Keys <- MCKeys
  Values = {v1}
  Home <- MCHome
  TagOf <- MCTagOf
  LANES = 2
  JUMP_WRAP = 8
  MistestedLanes = {}
  Capacities = {4, 8}
  ResizeOnlyEmpty = FALSE
  LoadFactors = {}
  VECTOR = 4
  Sizes = {0}
  Calls = {"Add", "Remove", "Rehash"}
INVARIANTS WildOnlyByGrowthOrEmptying
PROPERTIES VisitsEachOnce VisitsOnlyHeld LoopEnds
VIEW IterView
CHECK_DEADLOCK FALSE
