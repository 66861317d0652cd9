SPECIFICATION Spec
CONSTANTS
  ann = ann
  ben = ben
  out = out
  openid = openid
  email = email
  None = None
  User = {ann, ben, out}
  Foreign = {out}
  Client = {app}
  Scope = {openid, email}
  Browser = {b1}
  Request = {r1, r2}
  Admin = {a1}
  Registration <- Registrations
  Change <- Changes
  Asking <- Askings
  MaxSessions = 2
  MaxKeys = 2
  MaxEvents = 4
CHECK_DEADLOCK FALSE
SYMMETRY Symmetry
INVARIANTS TypeOK CodesEarned
PROPERTIES RecordedWasShown ChangesReachTheirClient
