CONSTANTS
  Sources <- MCMalformed
  Module <- MCModule
  Exports <- MCExports
  Natives <- MCNatives
SPECIFICATION Spec
CHECK_DEADLOCK FALSE
INVARIANTS
  MalformedRefused
