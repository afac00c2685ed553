SPECIFICATION Spec
CONSTANTS
  FileLen = 6
  Readahead = 2
  Wants = {1, 2, 4}
  Offsets = {0, 1, 3, 5, 7}
  MaxPosition = 8
INVARIANTS
  ReaderTypeOK
  BufferIsFile
  FetchedOnce
PROPERTIES
  ImplementsByteFile
