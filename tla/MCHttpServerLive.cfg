CONSTANTS
  a = a
  b = b
  Servers <- OneServer
  Clients <- MCClients
  Fds <- MCFds
SPECIFICATION FairSpec
PROPERTIES
  NextComesBack
  CloseComesBack
CHECK_DEADLOCK FALSE
