SPECIFICATION FairSpec
CONSTANTS
  PipeCap = 2
  OutMax = 3
  Split = TRUE
  Filter = FALSE
  ChildMay = {"exec_fails", "close_in", "close_out", "spawn", "crash"}
  StdinSize = 3
  Timeout = 2
  IntMax = 7
  Chunk = 2
  Faults = {"pipe", "fork", "poll", "append", "wait"}
INVARIANTS
  TypeOK
  NoOutputLost
  DrainNeverBlocks
  EndsHaveOneOwner
PROPERTIES
  KillOnlyAtDeadline
  ComesBack
