SPECIFICATION Spec
CONSTANTS
  u1 = u1
  name = name
  email = email
  stranger = stranger
  p1 = p1
  p2 = p2
  None = None
  User = {u1}
  Identifier = {name}
  Address = {a1}
  Password = {p1, p2}
  Request = {r1, r2, r3}
  Owner <- OneOwner
  FirstPassword <- FirstP1
  Stale = {u1}
  MaxPerIdentifier = 1
  MaxPerAddress = 2
  Window = 1
  SessionLifetime = 1
  ChallengeLifetime = 1
  ResetLifetime = 1
  MaxEvents = 4
  MaxTime = 0
SYMMETRY RequestSymmetry
PROPERTY OnlyResetsChangePasswords
CHECK_DEADLOCK FALSE
