CONSTANTS
  main = main
  a = a
  b = b
  Files <- MCFiles
  Entry = main
  Sources <- MCSources
  Registries <- Both
  MaxKept = 1
SPECIFICATION FairSpec
INVARIANTS
  Marked
  DependencyFirst
  InPostOrder
PROPERTIES
  ImplementsWalk
  Terminates
