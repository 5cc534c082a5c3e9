SPECIFICATION MCSpec
CONSTANTS
  c1 = c1
  c2 = c2
  None = None
  Clients <- MCClients
  Servers <- MCServers
  Procs <- MCProcs
  Inodes <- MCInodes
  Retries <- MCRetries
  Backlog = 2
  Timeouts = {"none", "some"}
  MaxFaults = 1
CHECK_DEADLOCK FALSE
INVARIANTS
  OneServer
  SocketStands
  ServedByServer
  CleanEnd
PROPERTIES
  KeepsClient
  EndsAtLast
