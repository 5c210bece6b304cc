SPECIFICATION Spec
CONSTANTS
  Packets <- MCFull
  Size <- MCSize
  Flows <- MCTwoFlows
  Flow <- MCFlow
  QueueSize = 4
  Quantum = 2
  Bucket <- MCOneBucket
  NoFlow = NoFlow
  MaxStale = 6
PROPERTIES DropsFromLongest
CHECK_DEADLOCK FALSE
