CONSTANTS
  main = main
  a = a
  b = b
  Files <- MCFiles
  Entry = main
  Sources <- MCSources
  Registries <- Both
  MaxKept = 1
SPECIFICATION Spec
INVARIANT EntryOnce
