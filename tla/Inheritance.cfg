CONSTANTS
  g1 = g1
  g2 = g2
  g3 = g3
  r1 = r1
  r2 = r2
  m1 = m1
  d1 = d1
  c1 = c1
  c2 = c2
  Groups = {g1, g2, g3}
  Requests = {r1, r2}
  Root = Root
  Unborn = Unborn
  Gone = Gone
  MaxCrashes = 1
  Monitors = {m1}
  Devices = {d1}
  DeviceOf <- MCDeviceOf
  Channels = {c1, c2}
  Windows = {w1}
  Teams = {t1}
  Aspects <- MCAspects
  Concerned <- MCConcerned
  EditBound <- MCEditBound
  TreeBound <- MCTreeBound
SYMMETRY Symmetry
SPECIFICATION Spec
INVARIANTS TreeIsSound NearestScopeDecides ReadersAgree
PROPERTY SettingsEditReachesWorkers
CHECK_DEADLOCK FALSE
