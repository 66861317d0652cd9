SPECIFICATION Spec
CONSTANTS
  User = {u1}
  Client = {c1, c2}
  Request = {r1, r2}
  Uri = {a}
  Verifier = {}
  None = None
  GrantTypes <- BothGrants
  ScopeSets <- OfflineOrNot
  CodeLifetime = 1
  CodeRetention = 0
  RefreshLifetime = 1
  MaxCodes = 1
  MaxTokens = 3
  MaxTime = 1
SYMMETRY RequestSymmetry
INVARIANTS TypeOK OneUsableToken SuccessorChain  Lineage
PROPERTIES ImplementsFamily QuietRevocationEnds RefreshNeedsEnabledAccount
CHECK_DEADLOCK FALSE
