SPECIFICATION Spec
CONSTANTS
  Packets <- MCLive
  Size <- MCSize
  Flows <- MCFlows
  Flow <- MCFlow
  QueueSize = 6
  Quantum = 2
  Bucket <- MCBuckets
  NoFlow = NoFlow
  MaxStale = 6
INVARIANTS NeverCrashes Consistent CreditSpent FairShare
PROPERTIES ImplementsChannel EveryPacketLeaves
CHECK_DEADLOCK FALSE
