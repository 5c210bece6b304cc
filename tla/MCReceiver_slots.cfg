SPECIFICATION Spec
CONSTANTS
  Faces <- MCTwoFaces
  LastChunk = 2
  Ports <- MCOnePort
  InitialWindow = 1
  Controllers = {"ICP"}
  InSequence = TRUE
  Limit = 2
  MaxSuppressed = 0
  MaxDownloads = 1
  MaxWindow = 4
  MaxRequests = 4
INVARIANTS WindowsHoldMissing
CHECK_DEADLOCK FALSE
