SPECIFICATION FairSpec
CONSTANTS
  Faces <- MCOneFace
  LastChunk = 2
  Ports <- MCTwoPorts
  InitialWindow = 2
  Controllers = {"ICP", "RAQM", "CBR"}
  InSequence = FALSE
  Limit = 2
  MaxSuppressed = 0
  MaxDownloads = 2
  MaxWindow = 4
  MaxRequests = 4
INVARIANTS OneTurnAhead TimerWhileWaiting WindowsHoldMissing WindowCanGrow
PROPERTIES Terminates
CHECK_DEADLOCK FALSE
