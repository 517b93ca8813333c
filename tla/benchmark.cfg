SPECIFICATION Spec
CONSTANTS
  None = None
  Generators <- MCGenerators
  Shuffle <- MCShuffle
  CommandLines <- MCCommandLines
  DataSizes = {1, 2}
  UNIT = 4
  MARGIN = 2
  MILLION = 3
  SAMPLE = 2
  WINDOW = 2
  ALIGN = 2
  CHUNK = 2
  BUFFER = 4
  HALF = 64
  Uninitialised = {0, 6, 8}
INVARIANTS HalvesDistinct WholeOrRejected KeepsContract
PROPERTIES FailsOnlyAtTheEdges BenchEnds
