SPECIFICATION Spec
CONSTANTS
  f1 = f1  f2 = f2  info = info  chunk = chunk  port0 = port0  port1 = port1
  Local = Local
  RemoteFaces <- MCFaces
  Keys <- MCKeys
  InfoKeys <- MCInfoKeys
  Ports <- MCPorts
  DownloadPort = port0
  Timer = 2
  Filtering = TRUE
  MaxClock = 3
  MaxInterests = 3
  MaxAge = 0
SYMMETRY MCSymmetry
INVARIANTS IndexAgreement  OneRequestPerSocket
PROPERTIES NeighboursServed
