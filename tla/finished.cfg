SPECIFICATION InferenceSpec
CONSTANTS
  TotalLayers = 3
  Nodes = {1, 2}
  PeerNodes = {1, 2}
  Composites = {3, 5}
  PruneAfter = 0
  Tasks = {t1}
  SequenceIds = {0}
  MaxStarts = 1
  MaxControls = 4
  Lossy = TRUE
INVARIANTS
  EveryFinishIsComplete
CHECK_DEADLOCK FALSE
