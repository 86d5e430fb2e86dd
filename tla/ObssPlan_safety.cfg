\* GWAC: one camera, two mount connections, a plan that points and a still one
SPECIFICATION BoundedSpec
CONSTANTS
  c1 = c1
  c2 = c2
  m1 = m1
  m2 = m2
  p1 = p1
  p2 = p2
  t1 = t1
  t2 = t2
  Cams = {c1}
  MountConns = {m1, m2}
  Plans = {p1, p2}
  Targets = {t1, t2}
  TargetOf <- MCTargetOf
  Still = {p2}
  Timed = {p1}
  MountReports = {6, 7}
  CamReports = {1, 2}
  FreshStates = {0}
  Gwac = TRUE
  MaxFlat = 0
  NoPlan = NoPlan
  NoConn = NoConn
  NoTarget = NoTarget
INVARIANTS
  HeldPlanIsOpen
  CrashOnlyWhenRaced
  RunningWasSent
  MountIsOpen
PROPERTIES
  LifecycleSpec
