SPECIFICATION FilterSpec
CONSTANTS
  PipeCap = 3
  OutMax = 0
  Split = FALSE
  Filter = TRUE
  ChildMay = {}
  StdinSize = 7
  Timeout = 1
  IntMax = 7
  Chunk = 2
  Faults = {}
PROPERTIES
  FilterCompletes
