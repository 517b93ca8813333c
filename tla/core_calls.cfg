SPECIFICATION FairSpec
CONSTANTS
  k1 = k1 k2 = k2 k3 = k3 k4 = k4 v1 = v1 None = None
  GroupA = {k1}
  GroupB = {k4}
  GroupC = {}
  GroupD = {k2, k3}
  Keys <- MCKeys
  Values = {v1}
  Home <- MCHome
  TagOf <- MCTagOf
  LANES = 2
  JUMP_WRAP = 4
  MistestedLanes = {}
  Capacities = {4, 6}
  ResizeOnlyEmpty = FALSE
  LoadFactors = {}
  Sizes = {4, 6}
  Calls = {"Add", "Find", "Remove", "Rehash", "Resize"}
INVARIANTS TypeOK ProbeChain NeverMissesStored CountIsFull HangOnlyWhenExhausted
PROPERTIES RehashKeepsContents CopyOnlyPastTombstone RehashEnds
VIEW View
CHECK_DEADLOCK FALSE
