SPECIFICATION Spec
CONSTANTS
  Modes = {1, 2, 4, 8}
INVARIANTS RoundsUp GrowthNeverStalls SavesMemory
