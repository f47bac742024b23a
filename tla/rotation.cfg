SPECIFICATION Spec
CONSTANTS
  Users = {u1}
  Devices = {d1}
  Sids = {s1}
  Jtis = {j1, j2, j3}
  Procs = {p1, p2}
  Null = Null
  MaxTime = 3
  SessionTTL = 2
  AccessTTL = 1
  RefreshTTL = 2
  MaxFaults = 1
  LastSignIn = 0
SYMMETRY Symmetry
INVARIANTS IndInv OneExpiry RotatedStaysDead NoOrphanedSession
PROPERTIES RotatedNeverAccepted EndedForGood UndoneOnlyByRefresh
CHECK_DEADLOCK FALSE
