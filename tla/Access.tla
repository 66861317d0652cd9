------------------------------- MODULE Access --------------------------------
(***************************************************************************)
(* Who may change what: a request of the REST API from its credential (a   *)
(* session or an API token, server/src/auth.rs, identity/src/api_token.rs) *)
(* through the permissions it carries (user.rs, permissions: roles held    *)
(* directly and through the ancestors of groups) to the administrative     *)
(* operation it asks for (identity/src/admin.rs, role.rs, group.rs).       *)
(*                                                                         *)
(* The credential, the account and the permissions are read by separate    *)
(* statements, once; the operation runs on what they said.  What an        *)
(* operation reads of its targets is whether they exist and their realm:   *)
(* the first its write finds out again by the foreign keys, the second     *)
(* never changes, so it is one step with its write.  Two operations are    *)
(* not: the permissions of a role are replaced by a transaction that is    *)
(* not serialised, and the trigger that refuses cycles looks before the    *)
(* move it allows is visible.  Names, and refusals for their sake, are     *)
(* left out: any request may end in an error (Abort).                      *)
(***************************************************************************)
EXTENDS Server, Naturals, Sequences, FiniteSets, FiniteSetsExt

CONSTANTS
  User, Role, Group, None,
  RealmOf,        \* the realm of each user, role and group
  UsersAtStart, RolesAtStart, RolesOfUsers, RolePermissions, ParentsAtStart, MembersAtStart,
  RolesOfGroups,
  TokenGrants,    \* the permissions tokens are asked for with
  RoleGrants,     \* and those that roles are given
  MaxTokens, MaxChanges   \* bounds

Permission == {"user:read", "user:write", "role:write", "group:write"}

ASSUME RealmAssumption == RealmOf \in [User \cup Role \cup Group -> Realm]
ASSUME NoneAssumption == None \notin User \cup Role \cup Group
ASSUME GroupAssumption == IsFiniteSet(Group)
ASSUME GrantAssumption == /\ TokenGrants \subseteq SUBSET Permission
                          /\ RoleGrants \subseteq SUBSET Permission

(* The rows at the start refer to rows of the same realm, and the groups   *)
(* are a tree.                                                             *)
GroupsAtStart == DOMAIN ParentsAtStart
ASSUME RowsAssumption ==
  /\ UsersAtStart \subseteq User /\ RolesAtStart \subseteq Role /\ GroupsAtStart \subseteq Group
  /\ RolesOfUsers \subseteq UsersAtStart \X RolesAtStart
  /\ MembersAtStart \subseteq UsersAtStart \X GroupsAtStart
  /\ RolesOfGroups \subseteq GroupsAtStart \X RolesAtStart
  /\ \A h \in RolesOfUsers \cup MembersAtStart \cup RolesOfGroups : RealmOf[h[1]] = RealmOf[h[2]]
  /\ RolePermissions \in [Role -> SUBSET Permission]
  /\ \A o \in Role \ RolesAtStart : RolePermissions[o] = {}
ASSUME TreeAssumption ==
  /\ ParentsAtStart \in [GroupsAtStart -> GroupsAtStart \cup {None}]
  /\ \E level \in [GroupsAtStart -> 0..Cardinality(Group)] :
       \A g \in GroupsAtStart : LET p == ParentsAtStart[g]
                                IN p # None => RealmOf[p] = RealmOf[g] /\ level[p] < level[g]

VARIABLES
  users,       \* users: unused, enabled, disabled or deleted
  sessions,    \* the users with a live session
  roles,       \* roles
  userRoles,   \* user_roles
  grants,      \* role_permissions
  groups,      \* groups: unused, present or deleted
  parent,      \* groups.parent_id
  members,     \* group_members
  groupRoles,  \* group_roles
  tokens,      \* api_tokens, in insertion order
  req,         \* the requests in progress
  since,       \* history: what has been true of a request's account and
               \* credential at some time since it arrived
  raced,       \* history: the groups moved while another was
  changes      \* how many operations have been carried out

vars == <<users, sessions, roles, userRoles, grants, groups, parent, members, groupRoles, tokens,
          req, since, raced, changes>>

accounts == <<users, sessions, roles, userRoles, grants>>
tree == <<groups, parent, members, groupRoles>>

Token == [user : User, permissions : SUBSET Permission,
          revoked : BOOLEAN, expired : BOOLEAN, deleted : BOOLEAN]

At == {"idle", "account", "permissions", "ready", "revoke", "insert", "commit", "moving"}

(* `user', `token' (0: a session) and `perms' are the Actor; the rest are  *)
(* the locals of the two transactions.                                     *)
Locals == [at : At, user : User \cup {None}, token : Nat, perms : SUBSET Permission,
           target : User \cup Role \cup Group \cup {None}, into : Group \cup {None},
           set : SUBSET Permission, todo : SUBSET Permission, staged : SUBSET Permission,
           withdrawn : SUBSET Permission]

Blank == [at |-> "idle", user |-> None, token |-> 0, perms |-> {}, target |-> None,
          into |-> None, set |-> {}, todo |-> {}, staged |-> {}, withdrawn |-> {}]

Facts == [live : BOOLEAN, enabled : BOOLEAN, held : SUBSET Permission]

Nothing == [live |-> FALSE, enabled |-> FALSE, held |-> {}]

TypeOK ==
  /\ users \in [User -> {"unused", "enabled", "disabled", "deleted"}]
  /\ sessions \subseteq {u \in User : users[u] \in {"enabled", "disabled"}}
  /\ userRoles \subseteq {u \in User : users[u] \in {"enabled", "disabled"}} \X roles
  /\ roles \subseteq Role
  /\ grants \in [Role -> SUBSET Permission]
  /\ \A o \in Role \ roles : grants[o] = {}
  /\ groups \in [Group -> {"unused", "present", "deleted"}]
  /\ parent \in [Group -> Group \cup {None}]
  /\ \A g \in Group : parent[g] # None => groups[g] = "present" /\ groups[parent[g]] = "present"
  /\ members \subseteq {u \in User : users[u] \in {"enabled", "disabled"}} \X
                       {g \in Group : groups[g] = "present"}
  /\ groupRoles \subseteq {g \in Group : groups[g] = "present"} \X roles
  /\ tokens \in Seq(Token)
  /\ req \in [Request -> Locals]
  /\ since \in [Request -> Facts]
  /\ raced \subseteq Group
  /\ changes \in Nat

Init ==
  /\ users = [u \in User |-> IF u \in UsersAtStart THEN "enabled" ELSE "unused"]
  /\ sessions = {}
  /\ roles = RolesAtStart /\ userRoles = RolesOfUsers /\ grants = RolePermissions
  /\ groups = [g \in Group |-> IF g \in GroupsAtStart THEN "present" ELSE "unused"]
  /\ parent = [g \in Group |-> IF g \in GroupsAtStart THEN ParentsAtStart[g] ELSE None]
  /\ members = MembersAtStart /\ groupRoles = RolesOfGroups
  /\ tokens = <<>>
  /\ req = [r \in Request |-> Blank]
  /\ since = [r \in Request |-> Nothing]
  /\ raced = {} /\ changes = 0

-----------------------------------------------------------------------------
OnFile(u) == users[u] \in {"enabled", "disabled"}

(* The groups and all that is above them.                                  *)
Ancestry(gs) ==
  LET up[n \in 0..Cardinality(Group)] ==
        IF n = 0 THEN gs
        ELSE up[n - 1] \cup {parent[g] : g \in {h \in up[n - 1] : parent[h] # None}}
  IN up[Cardinality(Group)]

AboveItself(g) == parent[g] # None /\ g \in Ancestry({parent[g]})

(* by_id computes the path of a group, which never ends below a cycle.     *)
Found(g) == groups[g] = "present" /\ \A a \in Ancestry({g}) : ~AboveItself(a)

Subtree(g) == {h \in Group : groups[h] = "present" /\ g \in Ancestry({h})}

GroupsOf(u) == Ancestry({m[2] : m \in {n \in members : n[1] = u}})

RolesHeld(u) == {h[2] : h \in {g \in userRoles : g[1] = u}}
       \cup {h[2] : h \in {g \in groupRoles : g[1] \in GroupsOf(u)}}

Held(u) == UNION {grants[o] : o \in RolesHeld(u)}

(* holds, with what a permission implies.                                  *)
Covers(held, p) == p \in held \/ (p = "user:read" /\ "user:write" \in held)

Covered(held) == {p \in Permission : Covers(held, p)}

Live(n) == ~tokens[n].revoked /\ ~tokens[n].expired /\ ~tokens[n].deleted

-----------------------------------------------------------------------------
PresentSession(r, u) ==
  /\ req[r].at = "idle" /\ u \in sessions
  /\ req' = [req EXCEPT ![r] = [Blank EXCEPT !.at = "account", !.user = u, !.perms = Permission]]
  /\ UNCHANGED <<accounts, tree, tokens, raced, changes>>

PresentToken(r, n) ==
  /\ req[r].at = "idle" /\ Live(n)
  /\ req' = [req EXCEPT ![r] = [Blank EXCEPT !.at = "account", !.user = tokens[n].user,
                                             !.token = n, !.perms = tokens[n].permissions]]
  /\ UNCHANGED <<accounts, tree, tokens, raced, changes>>

(* user::by_id, and whether the account is enabled.                        *)
ReadAccount(r) ==
  /\ req[r].at = "account"
  /\ req' = [req EXCEPT ![r] = IF users[req[r].user] = "enabled"
                               THEN [@ EXCEPT !.at = "permissions"] ELSE Blank]
  /\ UNCHANGED <<accounts, tree, tokens, raced, changes>>

(* Mutant: a token keeps what it was granted.                              *)
ReadPermissionsGranted(r) ==
  /\ req[r].at = "permissions"
  /\ req' = [req EXCEPT ![r].at = "ready",
                        ![r].perms = IF req[r].token = 0 THEN Covered(Held(req[r].user)) ELSE @]
  /\ UNCHANGED <<accounts, tree, tokens, raced, changes>>

(* What was granted, narrowed by what the account holds now.               *)
ReadPermissions(r) ==
  /\ req[r].at = "permissions"
  /\ req' = [req EXCEPT ![r].at = "ready", ![r].perms = @ \cap Covered(Held(req[r].user))]
  /\ UNCHANGED <<accounts, tree, tokens, raced, changes>>

(* A request that is refused, or stops, ends its transaction.              *)
Abort(r) ==
  /\ req[r].at # "idle"
  /\ req' = [req EXCEPT ![r] = Blank]
  /\ UNCHANGED <<accounts, tree, tokens, raced, changes>>

-----------------------------------------------------------------------------
Allowed(r, p) == req[r].at = "ready" /\ Covers(req[r].perms, p)

(* Whether it is in the realm of the actor.                                *)
Mine(r, x) == RealmOf[x] = RealmOf[req[r].user]

MyRole(r, o) == o \in roles /\ Mine(r, o)

Carry(r, locals) ==
  /\ changes < MaxChanges /\ changes' = changes + 1
  /\ req' = [req EXCEPT ![r] = locals]

Answer(r) == Carry(r, Blank)

CreateUser(r, u) ==
  /\ Allowed(r, "user:write") /\ Mine(r, u) /\ users[u] = "unused"
  /\ users' = [users EXCEPT ![u] = "enabled"]
  /\ Answer(r)
  /\ UNCHANGED <<sessions, roles, userRoles, grants, tree, tokens, raced>>

(* Disabling revokes the sessions by a second statement.                   *)
SetUserEnabled(r, u, enabled) ==
  /\ Allowed(r, "user:write") /\ OnFile(u) /\ Mine(r, u)
  /\ \/ /\ enabled
        /\ users' = [users EXCEPT ![u] = "enabled"]
        /\ Answer(r)
     \/ /\ ~enabled /\ u # req[r].user
        /\ users' = [users EXCEPT ![u] = "disabled"]
        /\ Carry(r, [req[r] EXCEPT !.at = "revoke", !.target = u])
  /\ UNCHANGED <<sessions, roles, userRoles, grants, tree, tokens, raced>>

RevokeSessions(r) ==
  /\ req[r].at = "revoke"
  /\ sessions' = sessions \ {req[r].target}
  /\ req' = [req EXCEPT ![r] = Blank]
  /\ UNCHANGED <<users, roles, userRoles, grants, tree, tokens, raced, changes>>

(* The foreign keys take along what refers to the user.                    *)
DeleteUser(r, u) ==
  /\ Allowed(r, "user:write") /\ OnFile(u) /\ Mine(r, u) /\ u # req[r].user
  /\ users' = [users EXCEPT ![u] = "deleted"]
  /\ sessions' = sessions \ {u}
  /\ userRoles' = {h \in userRoles : h[1] # u}
  /\ members' = {m \in members : m[1] # u}
  /\ tokens' = [n \in DOMAIN tokens |-> [tokens[n] EXCEPT !.deleted = @ \/ tokens[n].user = u]]
  /\ Answer(r)
  /\ UNCHANGED <<roles, grants, groups, parent, groupRoles, raced>>

(* An upsert: of a role that exists it changes the description.            *)
CreateRole(r, o) ==
  /\ Allowed(r, "role:write") /\ Mine(r, o) /\ o \notin roles
  /\ roles' = roles \cup {o}
  /\ Answer(r)
  /\ UNCHANGED <<users, sessions, userRoles, grants, tree, tokens, raced>>

GrantRole(r, u, o) ==
  /\ Allowed(r, "role:write") /\ OnFile(u) /\ Mine(r, u) /\ MyRole(r, o)
  /\ userRoles' = userRoles \cup {<<u, o>>}
  /\ Answer(r)
  /\ UNCHANGED <<users, sessions, roles, grants, tree, tokens, raced>>

RevokeRole(r, u, o) ==
  /\ Allowed(r, "role:write") /\ OnFile(u) /\ Mine(r, u) /\ MyRole(r, o)
  /\ userRoles' = userRoles \ {<<u, o>>}
  /\ Answer(r)
  /\ UNCHANGED <<users, sessions, roles, grants, tree, tokens, raced>>

-----------------------------------------------------------------------------
(* set_permissions, a transaction: each permission's row is locked by its  *)
(* upsert and attached to the role, unless it is already ...               *)
BeginSet(r, o, set) ==
  /\ Allowed(r, "role:write") /\ MyRole(r, o)
  /\ Carry(r, [req[r] EXCEPT !.at = "insert", !.target = o, !.set = set, !.todo = set])
  /\ UNCHANGED <<accounts, tree, tokens, raced>>

(* The row of `p' is another transaction's, or is being withdrawn by it.   *)
Blocked(r, p) ==
  \E q \in Request \ {r} :
    /\ req[q].at \in {"insert", "commit"}
    /\ \/ p \in req[q].set \ req[q].todo /\ RealmOf[req[q].target] = RealmOf[req[r].target]
       \/ p \in req[q].withdrawn /\ req[q].target = req[r].target

InsertPermission(r, p) ==
  /\ req[r].at = "insert" /\ p \in req[r].todo /\ ~Blocked(r, p)
  /\ req' = [req EXCEPT ![r].todo = @ \ {p},
                        ![r].staged = IF p \in grants[req[r].target] THEN @ ELSE @ \cup {p}]
  /\ UNCHANGED <<accounts, tree, tokens, raced, changes>>

(* ... then what the role holds beside the set, as far as it is visible    *)
(* now, is withdrawn (a DELETE waits for another one of the same row, and  *)
(* then finds it gone: as good as withdrawing it twice) ...                *)
WithdrawPermissions(r) ==
  /\ req[r].at = "insert" /\ req[r].todo = {}
  /\ req' = [req EXCEPT ![r].at = "commit",
                        ![r].withdrawn = grants[req[r].target] \ req[r].set]
  /\ UNCHANGED <<accounts, tree, tokens, raced, changes>>

(* ... and all of it becomes visible.                                      *)
CommitSet(r) ==
  LET o == req[r].target
  IN /\ req[r].at = "commit"
     /\ grants' = [grants EXCEPT ![o] = (@ \cup req[r].staged) \ req[r].withdrawn]
     /\ req' = [req EXCEPT ![r] = Blank]
     /\ UNCHANGED <<users, sessions, roles, userRoles, tree, tokens, raced, changes>>

-----------------------------------------------------------------------------
CreateGroup(r, g, p) ==
  /\ Allowed(r, "group:write") /\ Mine(r, g) /\ groups[g] = "unused"
  /\ p # None => Found(p) /\ Mine(r, p)
  /\ groups' = [groups EXCEPT ![g] = "present"]
  /\ parent' = [parent EXCEPT ![g] = p]
  /\ Answer(r)
  /\ UNCHANGED <<accounts, members, groupRoles, tokens, raced>>

Moving == {r \in Request : req[r].at = "moving"}

BeginMove(r, g, p) ==
  /\ Allowed(r, "group:write") /\ Found(g) /\ Mine(r, g) /\ g # p
  /\ p # None => Found(p) /\ Mine(r, p)
  /\ \A q \in Moving : req[q].target # g
  /\ Carry(r, [req[r] EXCEPT !.at = "moving", !.target = g, !.into = p])
  /\ raced' = IF Moving # {} THEN raced \cup {g} \cup {req[q].target : q \in Moving} ELSE raced
  /\ UNCHANGED <<accounts, tree, tokens>>

(* Mutant: no trigger.                                                     *)
MoveUnchecked(r, g, p) == BeginMove(r, g, p)

(* The UPDATE locks the group, asks the trigger, and keeps the new parent  *)
(* from being deleted; it may still be moved ...                           *)
StartMove(r, g, p) == (p # None => g \notin Ancestry({p})) /\ BeginMove(r, g, p)

(* ... and commits.                                                        *)
CommitMove(r) ==
  /\ req[r].at = "moving"
  /\ parent' = [parent EXCEPT ![req[r].target] = req[r].into]
  /\ req' = [req EXCEPT ![r] = Blank]
  /\ UNCHANGED <<accounts, groups, members, groupRoles, tokens, raced, changes>>

(* Mutant: what is below the group stays.                                  *)
DeleteGroupAlone(r, g) ==
  /\ Allowed(r, "group:write") /\ Found(g) /\ Mine(r, g)
  /\ groups' = [groups EXCEPT ![g] = "deleted"]
  /\ parent' = [parent EXCEPT ![g] = None]
  /\ members' = {m \in members : m[2] # g}
  /\ groupRoles' = {h \in groupRoles : h[1] # g}
  /\ Answer(r)
  /\ UNCHANGED <<accounts, tokens, raced>>

(* The subtree goes along, and waits for the moves within or into it.      *)
DeleteGroup(r, g) ==
  LET gone == Subtree(g)
  IN /\ Allowed(r, "group:write") /\ Found(g) /\ Mine(r, g)
     /\ \A q \in Moving : {req[q].target, req[q].into} \cap gone = {}
     /\ groups' = [h \in Group |-> IF h \in gone THEN "deleted" ELSE groups[h]]
     /\ parent' = [h \in Group |-> IF h \in gone THEN None ELSE parent[h]]
     /\ members' = {m \in members : m[2] \notin gone}
     /\ groupRoles' = {h \in groupRoles : h[1] \notin gone}
     /\ Answer(r)
     /\ UNCHANGED <<accounts, tokens, raced>>

AddMember(r, g, u) ==
  /\ Allowed(r, "group:write") /\ Found(g) /\ Mine(r, g) /\ OnFile(u) /\ Mine(r, u)
  /\ members' = members \cup {<<u, g>>}
  /\ Answer(r)
  /\ UNCHANGED <<accounts, groups, parent, groupRoles, tokens, raced>>

RemoveMember(r, g, u) ==
  /\ Allowed(r, "group:write") /\ Found(g) /\ Mine(r, g) /\ OnFile(u) /\ Mine(r, u)
  /\ members' = members \ {<<u, g>>}
  /\ Answer(r)
  /\ UNCHANGED <<accounts, groups, parent, groupRoles, tokens, raced>>

GrantGroupRole(r, g, o) ==
  /\ Allowed(r, "group:write") /\ Allowed(r, "role:write")
  /\ Found(g) /\ Mine(r, g) /\ o \in roles /\ RealmOf[o] = RealmOf[g]
  /\ groupRoles' = groupRoles \cup {<<g, o>>}
  /\ Answer(r)
  /\ UNCHANGED <<accounts, groups, parent, members, tokens, raced>>

RevokeGroupRole(r, g, o) ==
  /\ Allowed(r, "group:write") /\ Allowed(r, "role:write") /\ Found(g) /\ Mine(r, g)
  /\ groupRoles' = groupRoles \ {<<g, o>>}
  /\ Answer(r)
  /\ UNCHANGED <<accounts, groups, parent, members, tokens, raced>>

-----------------------------------------------------------------------------
MintToken(r, u, ps) ==
  /\ ps # {} /\ \A p \in ps : Allowed(r, p)
  /\ OnFile(u) /\ Mine(r, u) /\ Len(tokens) < MaxTokens
  /\ tokens' = Append(tokens, [user |-> u, permissions |-> ps,
                                revoked |-> FALSE, expired |-> FALSE, deleted |-> FALSE])
  /\ Answer(r)
  /\ UNCHANGED <<accounts, tree, raced>>

(* One's own, or with the permission to change users.                      *)
RevokeToken(r, n) ==
  /\ req[r].at = "ready" /\ ~tokens[n].deleted
  /\ Mine(r, tokens[n].user)
  /\ tokens[n].user # req[r].user => Allowed(r, "user:write")
  /\ tokens' = [tokens EXCEPT ![n].revoked = TRUE]
  /\ Answer(r)
  /\ UNCHANGED <<accounts, tree, raced>>

Expire(n) ==
  /\ ~tokens[n].expired /\ ~tokens[n].deleted
  /\ tokens' = [tokens EXCEPT ![n].expired = TRUE]
  /\ UNCHANGED <<accounts, tree, req, raced, changes>>

(* Whatever has expired goes, revoked or not.                              *)
PurgeTokens ==
  /\ \E n \in DOMAIN tokens : tokens[n].expired /\ ~tokens[n].deleted
  /\ tokens' = [n \in DOMAIN tokens |-> [tokens[n] EXCEPT !.deleted = @ \/ tokens[n].expired]]
  /\ UNCHANGED <<accounts, tree, req, raced, changes>>

(* SignIn has what leads to a session.                                     *)
SignedIn(u) ==
  /\ users[u] = "enabled" /\ u \notin sessions
  /\ sessions' = sessions \cup {u}
  /\ UNCHANGED <<users, roles, userRoles, grants, tree, tokens, req, raced, changes>>

-----------------------------------------------------------------------------
(* What is true of the account and the credential of a request now.        *)
FactsNow(r) ==
  LET u == req[r].user
      n == req[r].token
  IN [live |-> IF n = 0 THEN u \in sessions ELSE Live(n),
      enabled |-> users[u] = "enabled",
      held |-> IF n = 0 THEN Covered(Held(u)) ELSE Covered(Held(u)) \cap tokens[n].permissions]

Observe ==
  since' = [r \in Request |->
    IF req'[r].at = "idle" THEN Nothing
    ELSE LET f == FactsNow(r)'
         IN [live |-> since[r].live \/ f.live, enabled |-> since[r].enabled \/ f.enabled,
             held |-> since[r].held \cup f.held]]

(* Through the console as well as through the API, which reads the account *)
(* behind the session in the same way (web/src/server_ctx.rs).             *)
ManageAccounts(r) ==
  \E u \in User :
    \/ CreateUser(r, u) \/ DeleteUser(r, u)
    \/ \E enabled \in BOOLEAN : SetUserEnabled(r, u, enabled)

ManageGroups(r) ==
  \E g \in Group : DeleteGroup(r, g) \/ \E p \in Group \cup {None} : CreateGroup(r, g, p)

(* Through the API alone.                                                  *)
OperateOnUsers(r) ==
  \E u \in User :
    \/ \E o \in Role : GrantRole(r, u, o) \/ RevokeRole(r, u, o)
    \/ \E ps \in TokenGrants : MintToken(r, u, ps)

OperateOnRoles(r) ==
  \/ \E o \in Role : CreateRole(r, o) \/ \E set \in RoleGrants : BeginSet(r, o, set)
  \/ \E p \in Permission : InsertPermission(r, p)
  \/ WithdrawPermissions(r)
  \/ CommitSet(r)

OperateOnGroups(r) ==
  \/ \E g \in Group, p \in Group \cup {None} : StartMove(r, g, p)
  \/ CommitMove(r)
  \/ \E g \in Group, u \in User : AddMember(r, g, u) \/ RemoveMember(r, g, u)
  \/ \E g \in Group, o \in Role : GrantGroupRole(r, g, o) \/ RevokeGroupRole(r, g, o)

Next ==
  /\ \/ \E r \in Request :
          \/ \E u \in User : PresentSession(r, u)
          \/ \E n \in DOMAIN tokens : PresentToken(r, n) \/ RevokeToken(r, n)
          \/ ReadAccount(r) \/ ReadPermissions(r) \/ Abort(r) \/ RevokeSessions(r)
          \/ ManageAccounts(r) \/ ManageGroups(r)
          \/ OperateOnUsers(r) \/ OperateOnRoles(r) \/ OperateOnGroups(r)
     \/ \E n \in DOMAIN tokens : Expire(n)
     \/ PurgeTokens
     \/ \E u \in User : SignedIn(u)
  /\ Observe

Spec == Init /\ [][Next]_vars

-----------------------------------------------------------------------------
(* The request that is answered in this step, whose session or token was   *)
(* live, whose account enabled and which held `ps' or what implies it,     *)
(* through a token no more than that was granted, each at some time since  *)
(* it arrived.                                                             *)
Authorised(r, ps) ==
  /\ req'[r] # req[r]
  /\ since[r].live /\ since[r].enabled
  /\ ps \subseteq Covered(since[r].held)

Changed(f) == {x \in DOMAIN f : f'[x] # f[x]}

(* The permissions a step needs for what it changes.  What goes with a     *)
(* deleted user or group needs none of its own.                            *)
Needed ==
  LET gone == {x \in User : users'[x] = "deleted"} \cup {g \in Group : groups'[g] = "deleted"}
      of(rows) == {h \in rows : {h[1], h[2]} \cap gone = {}}
  IN     (IF Changed(users) # {} \/ sessions \ sessions' # {} THEN {"user:write"} ELSE {})
    \cup (IF roles # roles' \/ Changed(grants) # {} \/ of(SymDiff(userRoles, userRoles')) # {}
            \/ of(SymDiff(groupRoles, groupRoles')) # {} THEN {"role:write"} ELSE {})
    \cup (IF Changed(groups) \cup Changed(parent) # {} \/ of(SymDiff(members, members')) # {}
            \/ of(SymDiff(groupRoles, groupRoles')) # {} THEN {"group:write"} ELSE {})
    \cup UNION {tokens'[n].permissions : n \in DOMAIN tokens' \ DOMAIN tokens}

(* The users, roles and groups a step changes, and whose tokens.           *)
Touched ==
  Changed(users) \cup (roles' \ roles) \cup Changed(grants)
    \cup Changed(groups) \cup Changed(parent)
    \cup {tokens'[n].user : n \in DOMAIN tokens' \ DOMAIN tokens}
    \cup UNION {{h[1], h[2]} : h \in SymDiff(userRoles, userRoles') \cup
                 SymDiff(members, members') \cup SymDiff(groupRoles, groupRoles')}

(* Nothing is changed but by a request whose credential was live, whose    *)
(* account was enabled and held the permission for it (auth.rs, actor_for; *)
(* api_token.rs, authenticate; admin.rs) at some time since the request    *)
(* arrived, and in the realm of that account: neither an old grant to a    *)
(* token nor a role withdrawn before counts.                               *)
ChangesNeedAuthority ==
  [][Needed \cup Touched # {} =>
       \E r \in Request : /\ Authorised(r, Needed)
                          /\ \A x \in Touched : RealmOf[x] = RealmOf[req[r].user]]_vars

(* The groups are a tree (0007_groups.sql, groups_reject_cycle), unless    *)
(* two groups were moved at once.                                          *)
CyclesNeedTwoMoves ==
  \A g \in Group : AboveItself(g) =>
    \E h \in Ancestry({g}) \cap raced : AboveItself(h)
=============================================================================
