SPECIFICATION FairSpec
CONSTANTS
  PipeCap = 2
  OutMax = 3
  Split = FALSE
  Filter = FALSE
  ChildMay = {"exec_fails", "close_in", "close_out", "spawn", "crash"}
  StdinSize = 3
  Timeout = 2
  MaxSlice = 1
  MaxNow = 3
  Capacity = 2
  Chunk = 2
  Faults = {"pipe", "fork", "malloc", "poll", "read", "wait"}
INVARIANTS
  BufferInBounds
  NothingLeaks
  NoOutputLost
  NoChildLeftBehind
  ReportIsTruth
PROPERTIES
  OneDoublingIsEnough
  KillOnlyAtDeadline
  CommandReturns
