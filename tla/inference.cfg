SPECIFICATION InferenceSpec
CONSTANTS
  TotalLayers = 3
  Nodes = {1, 2}
  PeerNodes = {1, 2}
  Composites = {1, 3, 5}
  PruneAfter = 0
  Tasks = {t1, t2}
  SequenceIds = {0, 1}
  MaxStarts = 2
  MaxControls = 4
  Lossy = TRUE
INVARIANTS
  InferenceTypeOK
  FinishedIsComplete
  MessageMatchesStage
  FinishedOnce
  
PROPERTIES
  ImplementsAnswers
CHECK_DEADLOCK FALSE
