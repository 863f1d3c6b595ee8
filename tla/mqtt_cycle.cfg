SPECIFICATION Spec
CONSTANTS
  FDs = {3, 4}
  QueueCap = 2
  MaxOpens = 3
  Daemons = {d1, d2}
  Registrations = {r1, r2}
  NULL = NULL
  Requests <- MCRequests
  MaxPackets = 3
  ReconnectAllowed = FALSE
SYMMETRY MCSymmetry
INVARIANTS TypeOK WireFaithful HealthyMeansConnected CallbackMatches QuietWhenDown
PROPERTY ImplementsSession
