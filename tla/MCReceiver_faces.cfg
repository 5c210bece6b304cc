SPECIFICATION Spec
CONSTANTS
  Faces <- MCTwoFaces
  LastChunk = 3
  Ports <- MCOnePort
  InitialWindow = 1
  Controllers = {"ICP", "RAQM"}
  InSequence = FALSE
  Limit = 2
  MaxSuppressed = 2
  MaxDownloads = 1
  MaxWindow = 5
  MaxRequests = 4
INVARIANTS ChunkAccounted
CHECK_DEADLOCK FALSE
