CONSTANTS
  Images <- MCImages
  MaxRuns = 2
SPECIFICATION Spec
INVARIANTS
  CallersFrame
  JitAgrees
PROPERTY
  ImplementsLifecycle
CHECK_DEADLOCK FALSE
