SPECIFICATION Spec
CONSTANTS
  k1 = k1
  User = {u1, u2}
  Key = {k1}
  Device = {d1}
  Request = {r1, r2}
  KeyOf <- Clones
  MaxAttempts = 1
  CeremonyLifetime = 1
  MaxCounter = 2
  MaxCeremonies = 3
  MaxChallenges = 2
  MaxRows = 2
  MaxTime = 1
SYMMETRY Symmetry
INVARIANTS TypeOK SessionsProven
PROPERTIES FallsOnlyWhenOvertaken
CHECK_DEADLOCK FALSE
