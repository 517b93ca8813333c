SPECIFICATION Spec
CONSTANTS
  k1 = k1 k2 = k2 k3 = k3 v1 = v1 None = None
  GroupA = {k1, k2}
  GroupB = {k3}
  GroupC = {}
  GroupD = {}
  Keys <- MCKeys
  Values = {v1}
  Home <- MCHome
  TagOf <- MCTagOf
  LANES = 2
  JUMP_WRAP = 8
  MistestedLanes = {}
  Capacities = {4, 8}
  ResizeOnlyEmpty = TRUE
  LoadFactors = {}
  Sizes = {0, 3, 7}
  Calls = {"Add", "AddOrUpdate", "AddUnique", "Remove", "Rehash", "Clear", "Resize"}
PROPERTIES ResizesOnlyEmpty
VIEW View
SYMMETRY Symmetry
CHECK_DEADLOCK FALSE
