SPECIFICATION FairSpec
CONSTANTS
  MaxDepth = 2
  MaxUnits = 5
  Slots = {s1, s2}
  MaxActions = 2
  MaxSuites = 2
  MaxSize = 1
INVARIANTS Restored NoStray OriginalComplete ContentComplete RunsOnce ExactlyTheTreeGoes ExitCodeIsTruth
PROPERTY RunEnds
