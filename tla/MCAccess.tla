------------------------------ MODULE MCAccess ------------------------------
(* An instance of Access: a manager who may change all through a role    *)
(* that a group holds too, a clerk in a group beside it, a third account   *)
(* to be created, a role of another realm and one to be created.           *)
EXTENDS Access, TLC

CONSTANTS manager, clerk, recruit, chief, abroad, fresh, team, unit, here, there, q1, q2

MCRealmOf == [x \in User \cup Role \cup Group |-> IF x = abroad THEN there ELSE here]

MCRolesOfUsers == {<<manager, chief>>}
MCRolePermissions ==
  [o \in Role |-> CASE o = chief -> Permission \ {"user:read"}
                    [] o = abroad -> {"user:read"}
                    [] o = fresh -> {}]
MCParents == [g \in {team, unit} |-> None]
MCMembers == {<<clerk, unit>>}
MCRolesOfGroups == {<<team, chief>>}

MCTokenGrants == {{"user:read"}, {"user:write"}}
MCRoleGrants == {{"user:read", "user:write"}, {"role:write"}}

RequestSymmetry == Permutations(Request)
=============================================================================
