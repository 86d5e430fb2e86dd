\* GFT: the mount is handed over, its states are not evaluated; two cameras,
\* entries that start idle or exposing
SPECIFICATION BoundedSpec
CONSTANTS
  c1 = c1
  c2 = c2
  m1 = m1
  m2 = m2
  p1 = p1
  p2 = p2
  t1 = t1
  t2 = t2
  Cams = {c1, c2}
  MountConns = {m1}
  Plans = {p1}
  Targets = {t1}
  TargetOf <- MCTargetOf
  Still = {}
  Timed = {p1}
  MountReports = {}
  CamReports = {1, 6}
  FreshStates = {0, 2}
  Gwac = FALSE
  MaxFlat = 1
  NoPlan = NoPlan
  NoConn = NoConn
  NoTarget = NoTarget
SYMMETRY CamSymmetry
INVARIANTS
  TypeOK
  CamonlineExact
  NoPhantomExposure
  ExposingExact
PROPERTIES
  OverIsQuiet
  InterruptStopsExposing
  StartsOnTarget
