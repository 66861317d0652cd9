CONSTANTS
  manager = manager
  clerk = clerk
  recruit = recruit
  chief = chief
  abroad = abroad
  fresh = fresh
  team = team
  unit = unit
  here = here
  there = there
  q1 = q1
  q2 = q2
  User = {manager, clerk, recruit}
  Role = {chief, abroad, fresh}
  Group = {team, unit}
  Realm = {here, there}
  Request = {q1, q2}
  None = None
  RealmOf <- MCRealmOf
  UsersAtStart = {manager, clerk}
  RolesAtStart = {chief, abroad}
  RolesOfUsers <- MCRolesOfUsers
  RolePermissions <- MCRolePermissions
  ParentsAtStart <- MCParents
  MembersAtStart <- MCMembers
  RolesOfGroups <- MCRolesOfGroups
  TokenGrants <- MCTokenGrants
  RoleGrants <- MCRoleGrants
  MaxTokens = 1
  MaxChanges = 3
SYMMETRY RequestSymmetry
SPECIFICATION Spec
INVARIANTS TypeOK CyclesNeedTwoMoves
PROPERTY ChangesNeedAuthority
CHECK_DEADLOCK FALSE
