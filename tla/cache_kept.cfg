SPECIFICATION Spec
CONSTANTS
  Tasks = {t1, t2}
  SliceEnds = {0, 1, 2, 3, 4}
  ModelLayers = 3
  MaxSeqLen = 3
  ChunkLens = {1, 2}
  MaxCalls = 3
INVARIANTS
  CacheMaintained
