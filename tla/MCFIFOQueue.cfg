SPECIFICATION FIFOSpec
CONSTANTS
  p1 = p1  p2 = p2  p3 = p3  p4 = p4
  Packets <- MCPackets
  Size <- MCSize
  QueueSize = 4
INVARIANT ServiceConsistent
PROPERTIES ImplementsFIFOChannel EveryPacketArrives
