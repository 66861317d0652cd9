SPECIFICATION Spec
CONSTANTS
  u1 = u1
  name = name
  email = email
  stranger = stranger
  p1 = p1
  p2 = p2
  None = None
  User = {u1}
  Identifier = {name, stranger}
  Address = {a1}
  Password = {p1, p2}
  Request = {r1, r2}
  Owner <- OneOwner
  FirstPassword <- FirstP1
  Stale = {u1}
  MaxPerIdentifier = 1
  MaxPerAddress = 1
  Window = 1
  SessionLifetime = 1
  ChallengeLifetime = 1
  ResetLifetime = 1
  MaxEvents = 3
  MaxTime = 1
SYMMETRY RequestSymmetry
INVARIANTS TypeOK LockoutBounded RevocationsHold
CHECK_DEADLOCK FALSE
