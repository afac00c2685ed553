SPECIFICATION Spec
CONSTANTS
  TotalLayers = 3
  Nodes = {1, 2, 3}
  PeerNodes = {1, 3}
  Composites = {0, 1, 5}
  PruneAfter = 0
INVARIANTS
  TypeOK
  SettledStates
  StagesRegistered
  RouteInOrder
PROPERTIES
  LayersMoveTogether
  LayersFollowCapacity
  DegradedKeepsLayers
