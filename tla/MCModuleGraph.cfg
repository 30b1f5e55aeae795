CONSTANTS
  entry = entry
  a = a
  b = b
  c = c
  alias = alias
  flat = flat
  Files <- MCFiles
  Entry = entry
  Aliases = {alias}
  Flat = flat
  Sources <- MCSources
  Exports <- MCExports
SPECIFICATION Spec
INVARIANTS
  EdgesTell
  Complete
  SameEnvironment
PROPERTY ImplementsWalk
CHECK_DEADLOCK FALSE
