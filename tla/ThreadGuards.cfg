SPECIFICATION FairSpec
CONSTANTS
  Workers = {w1, w2}
  Timeout = 1
  Grace = 2
INVARIANTS HandlesHaveOneOwner EndedIsNotNamed
PROPERTIES JoinedIsNotLeaked RunningIsNotMissed CallsEnd
