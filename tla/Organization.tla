----------------------------- MODULE Organization -----------------------------
(***************************************************************************)
(* Organisations: who belongs to them and in which role, the invitations   *)
(* people join by, and the last owner (identity/src/organization.rs with   *)
(* its callers in identity/src/admin.rs).                                  *)
(*                                                                         *)
(* remove_member is a transaction that locks the organisation's row FOR    *)
(* UPDATE; the lock is held from its first statement to its commit.  What  *)
(* waits for it is whatever touches that row or, by its foreign key,       *)
(* inserts a row that refers to it.  A role that is overwritten in place   *)
(* does neither.  The other operations are single statements and the       *)
(* transaction of an invitation.  Whether an organisation is enabled is    *)
(* asked by a login only: SignIn has that.                                 *)
(***************************************************************************)
EXTENDS Naturals, Sequences, FiniteSets

CONSTANTS
  Org, User, Email, Request,
  Role,                \* MemberRole; all but "owner" are alike here
  RealmOf,             \* the realm of each organisation and each user
  InvitationLifetime,  \* organization.rs INVITATION_LIFETIME
  MaxInvitations, MaxChanges, MaxTime   \* bounds

None == "none"

ASSUME UserAssumption == IsFiniteSet(User)
ASSUME RoleAssumption == "owner" \in Role /\ None \notin Role
ASSUME LifetimeAssumption == InvitationLifetime \in Nat \ {0}

VARIABLES
  orgs,         \* which of organizations are on file
  users,        \* the users on file
  members,      \* organization_members.role, or None
  invitations,  \* organization_invitations, in insertion order
  req,          \* the requests in progress
  origin,       \* history: what each membership rests on
  overridden,   \* history: the organisations whose owners changed beside the lock
  changes,      \* how many memberships administrators have set
  now

vars == <<orgs, users, members, invitations, req, origin, overridden, changes, now>>

history == <<origin, overridden>>

(* `accepted_by' holds at most one user, and nobody again once that user   *)
(* has been deleted.                                                       *)
Invitation == [org : Org, email : Email, role : Role, expires_at : Nat,
               accepted : BOOLEAN, accepted_by : SUBSET User, deleted : BOOLEAN]

At == {"idle", "count", "role", "delete", "insert", "admit"}

(* `owners' is how many a removal has counted, `old' the open invitations  *)
(* that inviting again replaces.                                           *)
Locals == [at : At, org : Org \cup {None}, user : User \cup {None},
           email : Email \cup {None}, role : Role \cup {None}, owners : Nat,
           old : SUBSET Nat, invitation : Nat]

TypeOK ==
  /\ orgs \in [Org -> {"absent", "present", "deleted"}]
  /\ users \subseteq User
  /\ members \in [Org -> [User -> Role \cup {None}]]
  /\ \A o \in Org, u \in User :
       members[o][u] # None => orgs[o] = "present" /\ u \in users
  /\ invitations \in Seq(Invitation)
  /\ req \in [Request -> Locals]
  /\ \A r \in Request : req[r].at \in {"insert", "admit"} => req[r].role # None
  /\ origin \in [Org -> [User -> Nat]]
  /\ overridden \subseteq Org
  /\ changes \in Nat /\ now \in Nat

Blank == [at |-> "idle", org |-> None, user |-> None, email |-> None, role |-> None,
          owners |-> 0, old |-> {}, invitation |-> 0]

Nobody == [u \in User |-> None]
NoOrigin == [u \in User |-> 0]

Init ==
  /\ orgs = [o \in Org |-> "absent"]
  /\ users = User
  /\ members = [o \in Org |-> Nobody]
  /\ invitations = <<>>
  /\ req = [r \in Request |-> Blank]
  /\ origin = [o \in Org |-> NoOrigin]
  /\ overridden = {}
  /\ changes = 0 /\ now = 0

-----------------------------------------------------------------------------
Finish(r) == req' = [req EXCEPT ![r] = Blank]
Goto(r, at) == req' = [req EXCEPT ![r].at = at]

OnFile(o) == orgs[o] = "present"
Locked(o) == \E r \in Request : req[r].at \in {"count", "role", "delete"} /\ req[r].org = o
Owners(o) == {u \in User : members[o][u] = "owner"}

(* An invitation that the unique index on open invitations counts.         *)
Open(n) == ~invitations[n].deleted /\ ~invitations[n].accepted

(* Mutant: a link that has been accepted can be accepted again.            *)
ClaimableAgain(n) == ~invitations[n].deleted /\ now < invitations[n].expires_at

(* One that accept_invitation can still claim.                             *)
Claimable(n) == Open(n) /\ now < invitations[n].expires_at

SameRealm(o, u) == RealmOf[o] = RealmOf[u]

(* The INSERT ... ON CONFLICT DO UPDATE of set_member can go ahead: a new  *)
(* row waits for the lock on the organisation.                             *)
Unhindered(o, u) == members[o][u] # None \/ ~Locked(o)

(* set_member's statement; `n' is the invitation behind it, 0 for an       *)
(* administrator.  It asks nobody who the owners are.                      *)
PutMember(o, u, role, n) ==
  /\ members' = [members EXCEPT ![o][u] = role]
  /\ origin' = [origin EXCEPT ![o][u] = n]
  /\ overridden' = IF \/ members[o][u] = "owner" /\ role # "owner"
                      \/ members[o][u] # None /\ Locked(o)
                   THEN overridden \cup {o} ELSE overridden

-----------------------------------------------------------------------------
Create(o) ==
  /\ orgs[o] = "absent"
  /\ orgs' = [orgs EXCEPT ![o] = "present"]
  /\ UNCHANGED <<users, members, invitations, req, history, changes, now>>

(* The foreign keys take members and invitations along.                    *)
Delete(o) ==
  /\ OnFile(o) /\ ~Locked(o)
  /\ orgs' = [orgs EXCEPT ![o] = "deleted"]
  /\ members' = [members EXCEPT ![o] = Nobody]
  /\ invitations' = [n \in DOMAIN invitations |->
       [invitations[n] EXCEPT !.deleted = @ \/ invitations[n].org = o]]
  /\ origin' = [origin EXCEPT ![o] = NoOrigin]
  /\ UNCHANGED <<users, req, overridden, changes, now>>

(* set_organization_member, by an administrator.                           *)
SetMember(o, u, role) ==
  /\ OnFile(o) /\ u \in users /\ SameRealm(o, u) /\ Unhindered(o, u)
  /\ changes < MaxChanges /\ changes' = changes + 1
  /\ PutMember(o, u, role, 0)
  /\ UNCHANGED <<orgs, users, invitations, req, now>>

-----------------------------------------------------------------------------
(* Mutant: the organisation is read without FOR UPDATE.                    *)
ReadOrganization(r, o, u) ==
  /\ req[r].at = "idle" /\ OnFile(o) /\ u \in users /\ SameRealm(o, u)
  /\ req' = [req EXCEPT ![r] = [@ EXCEPT !.at = "count", !.org = o, !.user = u]]
  /\ UNCHANGED <<orgs, users, members, invitations, history, changes, now>>

(* remove_member: the organisation is locked ...                           *)
LockOrganization(r, o, u) ==
  /\ req[r].at = "idle" /\ OnFile(o) /\ ~Locked(o) /\ u \in users /\ SameRealm(o, u)
  /\ req' = [req EXCEPT ![r] = [@ EXCEPT !.at = "count", !.org = o, !.user = u]]
  /\ UNCHANGED <<orgs, users, members, invitations, history, changes, now>>

(* ... its owners counted ...                                              *)
CountOwners(r) ==
  /\ req[r].at = "count"
  /\ req' = [req EXCEPT ![r] =
       [@ EXCEPT !.at = "role", !.owners = Cardinality(Owners(req[r].org))]]
  /\ UNCHANGED <<orgs, users, members, invitations, history, changes, now>>

(* ... the role of who leaves read, and the last owner refused ...         *)
ReadRole(r) ==
  /\ req[r].at = "role"
  /\ IF members[req[r].org][req[r].user] = "owner" /\ req[r].owners <= 1
     THEN Finish(r) ELSE Goto(r, "delete")
  /\ UNCHANGED <<orgs, users, members, invitations, history, changes, now>>

(* ... and the membership deleted, whatever its role is by then.           *)
DeleteMember(r) ==
  LET o == req[r].org
      u == req[r].user
  IN /\ req[r].at = "delete"
     /\ members' = [members EXCEPT ![o][u] = None]
     /\ origin' = [origin EXCEPT ![o][u] = 0]
     /\ Finish(r)
     /\ UNCHANGED <<orgs, users, invitations, overridden, changes, now>>

-----------------------------------------------------------------------------
(* invite: the open invitation to the address is deleted ...  (A claim or  *)
(* withdrawal of that row either precedes the DELETE or waits for its      *)
(* commit and then finds nothing; so the row is taken at the commit, if it *)
(* is still open.)                                                         *)
DeleteOpen(r, o, e, role) ==
  /\ req[r].at = "idle" /\ OnFile(o) /\ Len(invitations) < MaxInvitations
  /\ req' = [req EXCEPT ![r] =
       [@ EXCEPT !.at = "insert", !.org = o, !.email = e, !.role = role,
                 !.old = {n \in DOMAIN invitations :
                            Open(n) /\ invitations[n].org = o /\ invitations[n].email = e}]]
  /\ UNCHANGED <<orgs, users, members, invitations, history, changes, now>>

Rival(r, n) ==
  /\ Open(n) /\ n \notin req[r].old
  /\ invitations[n].org = req[r].org /\ invitations[n].email = req[r].email

Replaced(r) ==
  Append([n \in DOMAIN invitations |->
            [invitations[n] EXCEPT !.deleted = @ \/ (n \in req[r].old /\ Open(n))]],
         [org |-> req[r].org, email |-> req[r].email, role |-> req[r].role,
          expires_at |-> now + InvitationLifetime,
          accepted |-> FALSE, accepted_by |-> {}, deleted |-> FALSE])

(* ... and the new one inserted in the same transaction, which rolls back  *)
(* if somebody else has invited the address meanwhile.                     *)
InsertInvitation(r) ==
  /\ req[r].at = "insert" /\ ~Locked(req[r].org) /\ Len(invitations) < MaxInvitations
  /\ invitations' = IF OnFile(req[r].org) /\ \A n \in DOMAIN invitations : ~Rival(r, n)
                     THEN Replaced(r) ELSE invitations
  /\ Finish(r)
  /\ UNCHANGED <<orgs, users, members, history, changes, now>>

(* accept_invitation, by whoever holds the link: it is claimed ...         *)
ClaimInvitation(r, n, u) ==
  /\ req[r].at = "idle" /\ Claimable(n) /\ u \in users
  /\ invitations' = [invitations EXCEPT ![n] =
       [@ EXCEPT !.accepted = TRUE, !.accepted_by = {u}]]
  /\ req' = [req EXCEPT ![r] =
       [@ EXCEPT !.at = "admit", !.org = invitations[n].org, !.user = u,
                 !.role = invitations[n].role, !.invitation = n]]
  /\ UNCHANGED <<orgs, users, members, history, changes, now>>

(* ... and set_member called, unless the organisation or the user is gone  *)
(* or they are of different realms; the link is spent all the same.        *)
Admit(r) ==
  LET o == req[r].org
      u == req[r].user
  IN /\ req[r].at = "admit"
     /\ IF OnFile(o) /\ u \in users /\ SameRealm(o, u)
        THEN Unhindered(o, u) /\ PutMember(o, u, req[r].role, req[r].invitation)
        ELSE UNCHANGED <<members, history>>
     /\ Finish(r)
     /\ UNCHANGED <<orgs, users, invitations, changes, now>>

RevokeInvitation(n) ==
  /\ Open(n)
  /\ invitations' = [invitations EXCEPT ![n].deleted = TRUE]
  /\ UNCHANGED <<orgs, users, members, req, history, changes, now>>

-----------------------------------------------------------------------------
(* Mutant: no ON DELETE CASCADE.                                           *)
DeleteUserAlone(u) ==
  /\ u \in users
  /\ users' = users \ {u}
  /\ UNCHANGED <<orgs, members, invitations, req, history, changes, now>>

(* Memberships go with their user; an accepted invitation forgets whom it  *)
(* admitted.                                                               *)
DeleteUser(u) ==
  /\ u \in users
  /\ users' = users \ {u}
  /\ members' = [o \in Org |-> [members[o] EXCEPT ![u] = None]]
  /\ invitations' = [n \in DOMAIN invitations |->
       [invitations[n] EXCEPT !.accepted_by = @ \ {u}]]
  /\ origin' = [o \in Org |-> [origin[o] EXCEPT ![u] = 0]]
  /\ overridden' = overridden \cup {o \in Org : members[o][u] = "owner"}
  /\ UNCHANGED <<orgs, req, changes, now>>

Expired(n) == Open(n) /\ invitations[n].expires_at < now

Purge ==
  /\ \E n \in DOMAIN invitations : Expired(n)
  /\ invitations' = [n \in DOMAIN invitations |->
       [invitations[n] EXCEPT !.deleted = @ \/ Expired(n)]]
  /\ UNCHANGED <<orgs, users, members, req, history, changes, now>>

(* A request stops between two statements; a transaction rolls back.       *)
Abort(r) ==
  /\ req[r].at # "idle"
  /\ Finish(r)
  /\ UNCHANGED <<orgs, users, members, invitations, history, changes, now>>

Tick ==
  /\ now < MaxTime
  /\ now' = now + 1
  /\ UNCHANGED <<orgs, users, members, invitations, req, history, changes>>

-----------------------------------------------------------------------------
RemoveMember(r) ==
  \/ \E o \in Org, u \in User : LockOrganization(r, o, u)
  \/ CountOwners(r) \/ ReadRole(r) \/ DeleteMember(r)

Invite(r) ==
  \/ \E o \in Org, e \in Email, role \in Role : DeleteOpen(r, o, e, role)
  \/ InsertInvitation(r)

AcceptInvitation(r) ==
  \/ \E n \in DOMAIN invitations, u \in User : ClaimInvitation(r, n, u)
  \/ Admit(r)

(* Through the console as well as through the API.                         *)
ManageOrganization(o) == Create(o) \/ Delete(o)

Next ==
  \/ \E r \in Request : RemoveMember(r) \/ Invite(r) \/ AcceptInvitation(r) \/ Abort(r)
  \/ \E o \in Org : \/ ManageOrganization(o)
                     \/ \E u \in User, role \in Role : SetMember(o, u, role)
  \/ \E n \in DOMAIN invitations : RevokeInvitation(n)
  \/ \E u \in User : DeleteUser(u)
  \/ Purge \/ Tick

Spec == Init /\ [][Next]_vars

-----------------------------------------------------------------------------
(* However many members leave at once, removals never take the last owner: *)
(* an organisation loses it only when an owner was demoted or deleted, or  *)
(* a role overwritten while a removal was counting (organization.rs,       *)
(* remove_member, "leaving none").                                         *)
LastOwnerStays ==
  [][\A o \in Org :
       Owners(o) # {} /\ OnFile(o)' /\ o \notin overridden' => Owners(o)' # {}]_vars

(* A membership that an invitation gave is of its organisation, in its     *)
(* role, of a user of its realm, the one recorded as having accepted it; a *)
(* withdrawn, replaced or purged invitation has given none                 *)
(* (organization.rs, "one link admits exactly one person").                *)
SeatBehindLink ==
  \A o \in Org, u \in User :
    members[o][u] # None /\ origin[o][u] # 0 =>
      LET link == invitations[origin[o][u]]
      IN /\ link.org = o /\ link.role = members[o][u] /\ RealmOf[u] = RealmOf[o]
         /\ link.accepted /\ link.accepted_by = {u} /\ ~link.deleted
=============================================================================
