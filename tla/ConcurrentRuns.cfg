SPECIFICATION FairSpec
CONSTANTS
  Runs = {r1, r2}
INVARIANTS HeldUpByOverlap StandstillNeedsTwoFilters
PROPERTIES EachKeepsContract EveryRunReturns
