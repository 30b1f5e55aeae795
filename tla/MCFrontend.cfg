CONSTANTS
  Sources <- MCSources
  Module <- MCModule
  Exports <- MCExports
  Natives <- MCNatives
SPECIFICATION Spec
CHECK_DEADLOCK FALSE
INVARIANTS
  ArenaSound
  BalancedIffParsed
  PrecedenceKept
  BindingsStable
  EmitterTotal
  NoCaptureEscapes
  NamesAgree
  NothingDropped
