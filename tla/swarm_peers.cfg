SPECIFICATION Spec
CONSTANTS
  TotalLayers = 5
  Nodes = {1, 2, 3}
  PeerNodes = {1, 2, 3}
  Composites = {0, 3, 5}
  PruneAfter = 0
INVARIANTS
  TypeOK
  SettledStates
  StagesRegistered
  RouteTiles
PROPERTIES
  LayersMoveTogether
  DegradedKeepsLayers
  ImplementsLayerRoute
