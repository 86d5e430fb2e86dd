\* a plan that has not run is published as over
SPECIFICATION ObedientSpec
CONSTANTS
  c1 = c1
  c2 = c2
  m1 = m1
  m2 = m2
  p1 = p1
  p2 = p2
  t1 = t1
  t2 = t2
  Cams = {c1, c2}
  MountConns = {m1}
  Plans = {p1}
  Targets = {t1}
  TargetOf <- MCTargetOf
  Still = {}
  Timed = {p1}
  MountReports = {6, 7}
  CamReports = {1, 2}
  FreshStates = {0}
  Gwac = TRUE
  MaxFlat = 0
  NoPlan = NoPlan
  NoConn = NoConn
  NoTarget = NoTarget
PROPERTIES
  OverOnlyAfterRunning
