SPECIFICATION FairInferenceSpec
CONSTANTS
  TotalLayers = 3
  Nodes = {1, 2}
  PeerNodes = {1, 2}
  Composites = {1, 3, 5}
  PruneAfter = 0
  Tasks = {t1}
  SequenceIds = {0, 1}
  MaxStarts = 2
  MaxControls = 4
  Lossy = FALSE
PROPERTIES
  SequencesEnd
CHECK_DEADLOCK FALSE
