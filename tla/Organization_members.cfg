SPECIFICATION Spec
CONSTANTS
  stranger = stranger
  Org = {o1}
  User = {u1, u2, stranger}
  Email = {e1}
  Request = {r1, r2}
  Role = {"owner", "member"}
  RealmOf <- OneStranger
  InvitationLifetime = 1
  MaxInvitations = 2
  MaxChanges = 1
  MaxTime = 2
SYMMETRY Symmetry
INVARIANTS TypeOK SeatBehindLink
PROPERTIES LastOwnerStays
CHECK_DEADLOCK FALSE
