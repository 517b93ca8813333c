SPECIFICATION Spec
CONSTANTS
  a1 = a1 a2 = a2 a3 = a3 a4 = a4 a5 = a5 b1 = b1 b2 = b2 c1 = c1 c2 = c2 v1=v1 None = None
  GroupA = {a1, a2, a3, a4, a5}
  GroupB = {b1, b2}
  GroupC = {c1, c2}
  GroupD = {}
  Keys <- MCKeys
  Values = {v1}
  Home <- MCHome
  TagOf <- MCTagOf
  LANES = 2
  JUMP_WRAP = 8
  MistestedLanes = {}
  Capacities = {8, 16, 32}
  ResizeOnlyEmpty = FALSE
  LoadFactors = {5000, 7500, 9900}
  Sizes = {0, 8, 16}
  Calls = {"Add", "Rehash", "Resize", "Clear", "max_load_factor"}
INVARIANTS NoHang
PROPERTIES OverfullOnlyByLowering AbortOnlyByShrinking
VIEW View
SYMMETRY Symmetry
CHECK_DEADLOCK FALSE
