SPECIFICATION Spec
CONSTANTS
  k1 = k1 k2 = k2 k3 = k3 v1 = v1 None = None
  GroupA = {k1, k2}
  GroupB = {k3}
  GroupC = {}
  GroupD = {}
  Keys <- MCKeys
  Values = {v1}
  Home <- MCHome
  TagOf <- MCTagOf
  LANES = 2
  JUMP_WRAP = 8
  MistestedLanes = {}
  Capacities = {4, 8}
  ResizeOnlyEmpty = FALSE
  LoadFactors = {}
  Sizes = {4, 8}
  Calls = {"Add", "Remove"}
PROPERTIES RemovedIsGone
VIEW View
CHECK_DEADLOCK FALSE
