SPECIFICATION FairConnSpec
CONSTANTS
  TotalLayers = 2
  Nodes = {1, 2}
  PeerNodes = {1, 2}
  Composites = {0, 5}
  PruneAfter = 0
  Conns = {1, 2, 3}
  Misconfigured = {3}
  FirstScores = {5}
  MaxSends = 1
  None = None
INVARIANTS
  ConnTypeOK
  RegisteredIsServed
  ServedIsRegistered
  JoinOutcome
PROPERTIES
  OnlyItsDevice
  GoneIsForgotten
  HandshakeEnds
CHECK_DEADLOCK FALSE
