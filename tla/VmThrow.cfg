CONSTANTS
  Images <- ThrowImages
  MaxRuns = 1
SPECIFICATION FairSpec
INVARIANT Agrees
CHECK_DEADLOCK FALSE
