SPECIFICATION ListSpec
CONSTANTS
  Users = {u1, u2}
  Devices = {d1}
  Sids = {s1, s2}
  Jtis = {j1, j2, j3}
  Procs = {p1}
  Null = Null
  MaxTime = 2
  SessionTTL = 2
  AccessTTL = 1
  RefreshTTL = 2
  MaxFaults = 1
  LastSignIn = 2
  Pages <- MCPages
SYMMETRY Symmetry
INVARIANTS OneActivePerDevice CookieUsable AnnouncedIsRevoked ListingInv OnlyOwnSessionsListed PageAgreesWithTotal
PROPERTIES ImplementsLifecycle
CHECK_DEADLOCK FALSE
