\* two connections of the same camera, three lines in all, at most one on k2
SPECIFICATION BoundedSpec
CONSTANTS
  k1 = k1
  k2 = k2
  Conns = {k1, k2}
  NoConn = NoConn
  MaxLines = 3
  MaxReceived = 3
INVARIANTS
  OneOwner
  OsTouchesLive
  GcTouchesLive
PROPERTIES
  ReleasedByOs
