SPECIFICATION Spec
CONSTANTS
  Users = {u1}
  Devices = {d1}
  Sids = {s1}
  Jtis = {j1, j2}
  Procs = {p1, p2}
  Null = Null
  MaxTime = 0
  SessionTTL = 1
  AccessTTL = 1
  RefreshTTL = 1
  MaxFaults = 0
  LastSignIn = 0
PROPERTIES RemovedStaysUnusable
CHECK_DEADLOCK FALSE
