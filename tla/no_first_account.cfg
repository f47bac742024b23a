SPECIFICATION ApiSpec
CONSTANTS
  Users = {u1}
  Devices = {d1}
  Sids = {s1}
  Jtis = {j1, j2}
  Procs = {p1}
  Emails = {e1}
  Passwords = {w1}
  Creators = {c1}
  Null = Null
  MaxTime = 2
  SessionTTL = 2
  AccessTTL = 1
  RefreshTTL = 2
  MaxFaults = 0
  LastSignIn = 2
PROPERTIES FirstAccountCreated
CHECK_DEADLOCK FALSE
