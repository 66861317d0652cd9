SPECIFICATION AdministrationSpec
CONSTANTS
  alice = alice
  bob = bob
  carol = carol
  x = x
  y = y
  z = z
  r1 = r1
  r2 = r2
  Realm = {here, there}
  here = here
  there = there
  Request = {r1, r2}
  Account = {alice, bob, carol}
  RowId = {x, y, z}
  Elsewhere = Elsewhere
  Nowhere = Nowhere
  Absent = Absent
  ActorOf <- Actors
  Offers <- AllOrDeletions
  Aims <- AllOrOwn
  Holdings <- SomeHoldings
  AccountsAtStart = {alice, bob}
  RowsAtStart = {x, y}
  Upstream = x
  Earlier = 2
  PageSize = 1
INVARIANTS AdministrationTypeOK AnswersFit TrailFits WalkSkipsNothing
CHECK_DEADLOCK FALSE
