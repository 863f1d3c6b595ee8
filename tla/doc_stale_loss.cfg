SPECIFICATION Spec
CONSTANTS
  FDs = {3, 4}
  QueueCap = 2
  MaxOpens = 2
  Daemons = {d1, d2}
  Registrations = {r1, r2}
  NULL = NULL
  Requests <- OnePublish
  MaxPackets = 3
  ReconnectAllowed = TRUE
SYMMETRY MCSymmetry
INVARIANT ReportedWhenConnected
