SPECIFICATION Spec
CONSTANTS
  None = None
  Provider = {p1, p2, p3}
  Adopts = {p1}
  Provisions = {p2}
  Configured = {p1, p2}
  User = {u1, u2}
  Email = {e1, e2}
  Browser = {b1, b2}
  Subject = {s1, s2}
  Request = {r1, r2}
  StateLifetime = 1
  MaxStates = 2
  MaxLinks = 2
  MaxEvents = 2
SYMMETRY Symmetry
INVARIANTS TypeOK SignInBehindState LinksHold LastWayInStays
CHECK_DEADLOCK FALSE
