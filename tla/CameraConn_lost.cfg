\* a camera that closes while it is handed over
SPECIFICATION BoundedSpec
CONSTANTS
  k1 = k1
  k2 = k2
  Conns = {k1, k2}
  NoConn = NoConn
  MaxLines = 3
  MaxReceived = 1
PROPERTIES
  ClosedIsReleased
