SPECIFICATION Spec
CONSTANTS
  Contents <- MCContents
  LastChunk <- MCLastChunk
  Bits <- MCBits
  KBit = 1000
  Limit = 4
INVARIANTS RecordsAgree SizeAccounted LeastRecentEvicted
PROPERTIES ImplementsStore
