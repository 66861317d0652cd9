SPECIFICATION KeyringSpec
CONSTANTS
  Realm = {here, there}
  NoRealm = NoRealm
  Request = {r1}
  Operator = {o1, o2}
  Lifetime = 1
  RetireAfter = 3
  Timeout = 1
  Patience = 1
  MaxKeys = 4
  MaxNow = 6
INVARIANTS KeyringTypeOK OneSigner TokensVerify
PROPERTY RetiredKeysGo
