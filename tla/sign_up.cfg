SPECIFICATION Spec
CONSTANTS
  Users = {u1, u2, u3}
  Emails = {e1, e2}
  Passwords = {w1, w2}
  Creators = {c1, c2}
  Null = Null
  MaxFaults = 2
SYMMETRY Symmetry
INVARIANTS TypeOK IndInv OneAccountPerEmail CreatedStaysTheirs
CHECK_DEADLOCK FALSE
