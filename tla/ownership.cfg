SPECIFICATION Spec
CONSTANTS
  Users = {u1, u2}
  Devices = {d1}
  Sids = {s1, s2, s3}
  Jtis = {j1, j2, j3}
  Procs = {p1, p2}
  Null = Null
  MaxTime = 1
  SessionTTL = 2
  AccessTTL = 1
  RefreshTTL = 2
  MaxFaults = 0
  LastSignIn = 1
SYMMETRY Symmetry
INVARIANTS TypeOK TokenBinding ActiveBounded
PROPERTIES EndedOnlyByOwner
CHECK_DEADLOCK FALSE
