CONSTANTS
  a = a
  p = p
  q = q
  Clients <- MCClients
  Servers <- MCServers
  MaxSessions = 2
  MaxFaults = 2
SPECIFICATION FairSpec
INVARIANTS
  Accounted
  TakenOnce
  LeftClean
PROPERTIES
  ImplementsCall
  ClientReturns
  NextServes
CHECK_DEADLOCK FALSE
