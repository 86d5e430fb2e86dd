\* two mounts, a camera, a focuser, two plans; units 1 and 2 of a group
SPECIFICATION BoundedSpec
CONSTANTS
  m1 = m1
  m2 = m2
  k = k
  f = f
  p1 = p1
  p2 = p2
  Obss = {1, 2}
  Conns = {m1, m2, k, f}
  Kind <- MCKind
  Gids = {"001"}
  ConnGid <- MCConnGid
  SplitUnit = 2
  LastUnit = 2
  StatusLen = 3
  Plans = {p1, p2}
  None = None
INVARIANT OneHome
INVARIANT SoleRunner
PROPERTY MountsFindHome
PROPERTY DumpedInTheEnd
\* each connection opens once
CHECK_DEADLOCK FALSE
