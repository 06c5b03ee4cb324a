SPECIFICATION FairSpec
CONSTANTS
  PipeCap = 2
  OutMax = 3
  Split = FALSE
  Filter = FALSE
  ChildMay = {"exec_fails", "close_in", "spawn", "crash"}
  StdinSize = 2
  Timeout = 2
  IntMax = 7
  Chunk = 2
  Faults = {"pipe", "fork"}
PROPERTIES
  ImplementsFairContract
