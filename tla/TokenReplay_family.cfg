SPECIFICATION HistorySpec
CONSTANTS
  User = {u1}
  Client = {c1}
  Request = {r1, r2}
  Uri = {a}
  Verifier = {}
  None = None
  GrantTypes <- BothGrants
  ScopeSets <- OfflineOrNot
  CodeLifetime = 1
  CodeRetention = 0
  RefreshLifetime = 1
  MaxCodes = 1
  MaxTokens = 3
  MaxTime = 0
INVARIANT ReplayEndsFamily
CHECK_DEADLOCK FALSE
