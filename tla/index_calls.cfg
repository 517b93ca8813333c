SPECIFICATION Spec
CONSTANTS
  k1 = k1 k2 = k2 k3 = k3 k4 = k4 None = None
  GroupA = {k1, k2}
  GroupB = {k3}
  GroupC = {k4}
  Keys <- MCKeys
  Home <- MCHome
  TagOf <- MCTagOf
  LANES = 2
  JUMP_WRAP = 8
  MistestedLanes = {}
  Capacities = {2, 4, 8}
  ResizeOnlyEmpty = FALSE
  LoadFactors = {7500}
  Sizes = {0, 4, 8}
  Calls = {"TryAdd", "AddUnique", "TryGetIndex", "Clear"}
  PAGE = 2
  MaxFaults = 2
INVARIANTS TypeOK IndexFound SlotsLeadToKeys WildOnlyAfterFault
PROPERTIES ImplementsIndex RetryRepairs
VIEW View
SYMMETRY Symmetry
CHECK_DEADLOCK FALSE
