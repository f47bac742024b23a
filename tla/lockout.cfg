SPECIFICATION FairSpec
CONSTANTS
  Users = {u1}
  Devices = {d1}
  Sids = {s1}
  Jtis = {j1, j2}
  Procs = {p1, p2}
  Null = Null
  MaxTime = 3
  SessionTTL = 2
  AccessTTL = 1
  RefreshTTL = 2
  MaxFaults = 1
  LastSignIn = 1
PROPERTIES LockoutEnds
CHECK_DEADLOCK FALSE
