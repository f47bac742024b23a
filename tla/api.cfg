SPECIFICATION SeededSpec
CONSTANTS
  Users = {u1, u2}
  Devices = {d1}
  Sids = {s1, s2}
  Jtis = {j1, j2, j3}
  Procs = {p1}
  Emails = {e1, e2}
  Passwords = {w1}
  Creators = {c1}
  Null = Null
  MaxTime = 1
  SessionTTL = 2
  AccessTTL = 2
  RefreshTTL = 2
  MaxFaults = 1
  LastSignIn = 1
SYMMETRY Symmetry
INVARIANTS SessionsOfAccounts
CHECK_DEADLOCK FALSE
