CONSTANTS
  a = a
  b = b
  Servers <- MCServers
  Clients <- MCClients
  Fds <- MCFds
SPECIFICATION Spec
INVARIANTS
  OneHolder
  Answerable
  OwnResponse
  ClosedClean
PROPERTY ImplementsFlow
SYMMETRY Alike
CHECK_DEADLOCK FALSE
