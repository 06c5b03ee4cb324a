SPECIFICATION FairSpec
CONSTANTS
  PipeCap = 2
  OutMax = 1
  Split = FALSE
  Filter = FALSE
  ChildMay = {}
  StdinSize = 3
  Timeout = 2
  IntMax = 7
  Chunk = 2
  Faults = {}
PROPERTIES
  RunReturns
