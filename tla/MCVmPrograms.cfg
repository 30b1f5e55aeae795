CONSTANTS
  Images <- MCImages
  MaxRuns = 1
SPECIFICATION FairSpec
INVARIANTS
  Agrees
  NoMachineFault
  HandlersReachable
  ClosedAtEnd
PROPERTY Terminates
CHECK_DEADLOCK FALSE
