SPECIFICATION FairSpec
CONSTANTS
  FDs = {3, 4}
  QueueCap = 1
  MaxOpens = 2
  Daemons = {d1, d2}
  Registrations = {r1}
  NULL = NULL
  Requests <- OnePublish
  MaxPackets = 2
  ReconnectAllowed = TRUE
PROPERTIES CallsReturn LossNoticed RequestsAreSent
INVARIANTS SocketOwned OneDaemon ServedWhenInitialized
