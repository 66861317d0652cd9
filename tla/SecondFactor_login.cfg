SPECIFICATION Spec
CONSTANTS
  User = {u1}
  Request = {r1, r2}
  CodeAt <- RepeatingCodes
  Drift = 1
  MaxAttempts = 1
  ChallengeLifetime = 1
  CodesPerSet = 1
  Start = 2
  MaxTime = 4
  MaxSecrets = 1
  MaxChallenges = 2
  MaxSessions = 3
  MaxRecoveryCodes = 1
SYMMETRY RequestSymmetry
INVARIANTS TypeOK ProofOpensOneSession SpentStepsStaySpent FailuresBounded
CHECK_DEADLOCK FALSE
