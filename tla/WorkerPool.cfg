SPECIFICATION FairSpec
CONSTANTS
  Count = 3
  MaxRuns = 3
INVARIANTS JobsWhole
PROPERTIES CallsReturn
