SPECIFICATION MapSpecification
CONSTANTS
  k1 = k1 k2 = k2 k3 = k3 k4 = k4 v1 = v1 v2 = v2 None = None
  GroupA = {k1, k2}
  GroupB = {k3}
  GroupC = {k4}
  GroupD = {}
  Keys <- MCKeys
  Values = {v1, v2}
  Home <- MCHome
  TagOf <- MCTagOf
  LANES = 2
  JUMP_WRAP = 8
  MistestedLanes = {}
  Capacities = {4, 8}
  ResizeOnlyEmpty = FALSE
  LoadFactors = {5000, 9900}
  Sizes = {4, 8}
  Calls = {"Add", "AddOrUpdate", "AddUnique", "Find", "Remove", "Rehash", "Clear", "Resize", "max_load_factor"}
INVARIANTS NoDuplicates
PROPERTIES ImplementsMap
VIEW MapView
CHECK_DEADLOCK FALSE
