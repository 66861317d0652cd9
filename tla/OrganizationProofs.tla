-------------------------- MODULE OrganizationProofs --------------------------
(***************************************************************************)
(* Proofs about organisations: the typing of their state, what is behind a *)
(* membership that an invitation gave, and that removals leave an owner.   *)
(***************************************************************************)
EXTENDS Organization, FiniteSetTheorems, TLAPS

(* A removal, which holds the lock of its organisation.                    *)
Removes(l) == l.at \in {"count", "role", "delete"}

(* What is behind a membership, or one about to be given.                  *)
Behind(n, o, u, role) ==
  /\ n \in DOMAIN invitations
  /\ invitations[n].org = o /\ invitations[n].role = role /\ invitations[n].accepted
  /\ u \in users => invitations[n].accepted_by = {u}
  /\ invitations[n].deleted => orgs[o] = "deleted"

(* What a request knows of its organisation.                               *)
Fits(l) ==
  /\ l.at # "idle" => l.org \in Org
  /\ l.at \in {"count", "role", "delete", "admit"} => l.user \in User
  /\ l.at = "insert" => l.email \in Email
  /\ l.at \in {"insert", "admit"} => l.role \in Role
  /\ l.at = "admit" => Behind(l.invitation, l.org, l.user, l.role)

Shape == TypeOK /\ \A r \in Request : Fits(req[r])

Seats ==
  \A o \in Org, u \in User : members[o][u] # None /\ origin[o][u] # 0
    => Behind(origin[o][u], o, u, members[o][u]) /\ SameRealm(o, u)

OneRemoval ==
  \A r \in Request : \A q \in Request \ {r} :
    Removes(req[r]) /\ Removes(req[q]) => req[r].org # req[q].org

(* What a removal has counted still holds, unless somebody changed the     *)
(* owners beside its lock.                                                 *)
Counted(l) ==
  l.org \notin overridden =>
    /\ l.at = "role" => l.owners = Cardinality(Owners(l.org))
    /\ l.at = "delete" /\ Owners(l.org) # {} => Owners(l.org) \ {l.user} # {}

CountsHold == \A r \in Request : Counted(req[r])

IInv == Shape /\ Seats /\ OneRemoval /\ CountsHold

-----------------------------------------------------------------------------
LEMMA Member ==
  ASSUME NEW S, NEW s \in Seq(S), NEW i \in DOMAIN s
  PROVE  s[i] \in S
OBVIOUS

LEMMA Appended ==
  ASSUME NEW S, NEW s \in Seq(S), NEW x \in S
  PROVE  /\ Append(s, x) \in Seq(S) /\ DOMAIN s \subseteq DOMAIN Append(s, x)
         /\ \A i \in DOMAIN s : Append(s, x)[i] = s[i]
OBVIOUS

LEMMA Rewritten ==
  ASSUME NEW S, NEW s \in Seq(S), NEW t, DOMAIN t = DOMAIN s, t = [i \in DOMAIN s |-> t[i]],
         \A i \in DOMAIN s : t[i] \in S
  PROVE  t \in Seq(S)
<1>1. DOMAIN s = 1..Len(s) /\ Len(s) \in Nat
  OBVIOUS
<1>2. t \in [1..Len(s) -> S]
  BY <1>1
<1> QED
  BY <1>1, <1>2

LEMMA RequestTypes ==
  ASSUME Shape, NEW r \in Request
  PROVE  /\ req \in [Request -> Locals] /\ req[r] \in Locals /\ Fits(req[r])
         /\ Blank \in Locals /\ Blank.at = "idle"
<1>1. req \in [Request -> Locals] /\ Fits(req[r])
  BY DEF Shape, TypeOK
<1>2. Blank \in Locals /\ Blank.at = "idle"
  BY DEF Blank, Locals, At
<1> QED
  BY <1>1, <1>2

LEMMA InvitationTypes ==
  ASSUME Shape, NEW n \in DOMAIN invitations
  PROVE  /\ n \in Nat \ {0} /\ invitations[n] \in Invitation
         /\ invitations[n].org \in Org /\ invitations[n].role \in Role
         /\ invitations[n].accepted \in BOOLEAN /\ invitations[n].deleted \in BOOLEAN
         /\ invitations[n].accepted_by \subseteq User
<1>1. invitations \in Seq(Invitation)
  BY DEF Shape, TypeOK
<1>2. invitations[n] \in Invitation /\ n \in Nat \ {0}
  BY <1>1, Member
<1> QED
  BY <1>2 DEF Invitation

LEMMA TableTypes ==
  ASSUME Shape
  PROVE  /\ members \in [Org -> [User -> Role \cup {None}]]
         /\ origin \in [Org -> [User -> Nat]]
         /\ orgs \in [Org -> {"absent", "present", "deleted"}] /\ users \subseteq User
         /\ \A o \in Org, u \in User :
              members[o][u] # None => orgs[o] = "present" /\ u \in users
BY DEF Shape, TypeOK

-----------------------------------------------------------------------------
(* Which actions write which variable.                                     *)
LEMMA Writers ==
  ASSUME Next
  PROVE  /\ \/ UNCHANGED orgs
            \/ \E o \in Org : Create(o) \/ Delete(o)
         /\ \/ UNCHANGED users
            \/ \E u \in User : DeleteUser(u)
         /\ \/ UNCHANGED <<members, origin>>
            \/ \E o \in Org : Delete(o)
            \/ \E o \in Org, u \in User, role \in Role : SetMember(o, u, role)
            \/ \E r \in Request : DeleteMember(r) \/ Admit(r)
            \/ \E u \in User : DeleteUser(u)
         /\ \/ UNCHANGED overridden
            \/ \E o \in Org, u \in User, role \in Role : SetMember(o, u, role)
            \/ \E r \in Request : Admit(r)
            \/ \E u \in User : DeleteUser(u)
         /\ \/ UNCHANGED invitations
            \/ \E o \in Org : Delete(o)
            \/ \E r \in Request : InsertInvitation(r)
            \/ \E r \in Request, n \in DOMAIN invitations, u \in User : ClaimInvitation(r, n, u)
            \/ \E n \in DOMAIN invitations : RevokeInvitation(n)
            \/ \E u \in User : DeleteUser(u)
            \/ Purge
         /\ \/ UNCHANGED now
            \/ Tick
         /\ \/ UNCHANGED changes
            \/ \E o \in Org, u \in User, role \in Role : SetMember(o, u, role)
<1>1. \/ UNCHANGED orgs
      \/ \E o \in Org : Create(o) \/ Delete(o)
  BY DEF Next, RemoveMember, Invite, AcceptInvitation, ManageOrganization, history, SetMember,
         PutMember, LockOrganization, CountOwners, ReadRole, DeleteMember, DeleteOpen,
         InsertInvitation, ClaimInvitation, Admit, RevokeInvitation, DeleteUser, Purge, Abort,
         Tick
<1>2. \/ UNCHANGED users
      \/ \E u \in User : DeleteUser(u)
  BY DEF Next, RemoveMember, Invite, AcceptInvitation, ManageOrganization, history, Create,
         Delete, SetMember, PutMember, LockOrganization, CountOwners, ReadRole, DeleteMember,
         DeleteOpen, InsertInvitation, ClaimInvitation, Admit, RevokeInvitation, Purge, Abort,
         Tick
<1>3. \/ UNCHANGED <<members, origin>>
      \/ \E o \in Org : Delete(o)
      \/ \E o \in Org, u \in User, role \in Role : SetMember(o, u, role)
      \/ \E r \in Request : DeleteMember(r) \/ Admit(r)
      \/ \E u \in User : DeleteUser(u)
  BY DEF Next, RemoveMember, Invite, AcceptInvitation, ManageOrganization, history, Create,
         LockOrganization, CountOwners, ReadRole, DeleteOpen, InsertInvitation,
         ClaimInvitation, RevokeInvitation, Purge, Abort, Tick
<1>4. \/ UNCHANGED overridden
      \/ \E o \in Org, u \in User, role \in Role : SetMember(o, u, role)
      \/ \E r \in Request : Admit(r)
      \/ \E u \in User : DeleteUser(u)
  BY DEF Next, RemoveMember, Invite, AcceptInvitation, ManageOrganization, history, Create,
         Delete, LockOrganization, CountOwners, ReadRole, DeleteMember, DeleteOpen,
         InsertInvitation, ClaimInvitation, RevokeInvitation, Purge, Abort, Tick
<1>5. \/ UNCHANGED invitations
      \/ \E o \in Org : Delete(o)
      \/ \E r \in Request : InsertInvitation(r)
      \/ \E r \in Request, n \in DOMAIN invitations, u \in User : ClaimInvitation(r, n, u)
      \/ \E n \in DOMAIN invitations : RevokeInvitation(n)
      \/ \E u \in User : DeleteUser(u)
      \/ Purge
  BY DEF Next, RemoveMember, Invite, AcceptInvitation, ManageOrganization, history, Create,
         SetMember, PutMember, LockOrganization, CountOwners, ReadRole, DeleteMember,
         DeleteOpen, Admit, Abort, Tick
<1>6. \/ UNCHANGED now
      \/ Tick
  BY DEF Next, RemoveMember, Invite, AcceptInvitation, ManageOrganization, history, Create,
         Delete, SetMember, PutMember, LockOrganization, CountOwners, ReadRole, DeleteMember,
         DeleteOpen, InsertInvitation, ClaimInvitation, Admit, RevokeInvitation, DeleteUser,
         Purge, Abort
<1>7. \/ UNCHANGED changes
      \/ \E o \in Org, u \in User, role \in Role : SetMember(o, u, role)
  BY DEF Next, RemoveMember, Invite, AcceptInvitation, ManageOrganization, Create, Delete,
         LockOrganization, CountOwners, ReadRole, DeleteMember, DeleteOpen, InsertInvitation,
         ClaimInvitation, Admit, RevokeInvitation, DeleteUser, Purge, Abort, Tick
<1> QED
  BY <1>1, <1>2, <1>3, <1>4, <1>5, <1>6, <1>7

-----------------------------------------------------------------------------
(* An invitation of the table is written in place, if at all.              *)
Kept ==
  /\ DOMAIN invitations \subseteq DOMAIN invitations'
  /\ \A n \in DOMAIN invitations :
       /\ invitations'[n].org = invitations[n].org /\ invitations'[n].role = invitations[n].role
       /\ invitations[n].accepted =>
            /\ invitations'[n].accepted
            /\ \/ invitations'[n].accepted_by = invitations[n].accepted_by
               \/ \E v \in User \ users' : invitations'[n].accepted_by = invitations[n].accepted_by \ {v}
            /\ \/ invitations'[n].deleted = invitations[n].deleted
               \/ orgs'[invitations[n].org] = "deleted"

LEMMA InvitationsKept ==
  ASSUME Shape, Next
  PROVE  invitations' \in Seq(Invitation) /\ Kept
<1> DEFINE Good(n, row) ==
             /\ row \in Invitation
             /\ row.org = invitations[n].org /\ row.role = invitations[n].role
             /\ invitations[n].accepted =>
                  /\ row.accepted
                  /\ \/ row.accepted_by = invitations[n].accepted_by
                     \/ \E v \in User \ users' : row.accepted_by = invitations[n].accepted_by \ {v}
                  /\ \/ row.deleted = invitations[n].deleted
                     \/ orgs'[invitations[n].org] = "deleted"
<1>1. invitations \in Seq(Invitation) /\ now \in Nat
  BY DEF Shape, TypeOK
<1>2. ASSUME invitations' = [n \in DOMAIN invitations |-> invitations'[n]],
             DOMAIN invitations' = DOMAIN invitations,
             \A n \in DOMAIN invitations : Good(n, invitations'[n])
      PROVE  invitations' \in Seq(Invitation) /\ Kept
  <2>1. invitations' \in Seq(Invitation)
    BY <1>1, <1>2, Rewritten
  <2> QED
    BY <1>2, <2>1 DEF Kept
<1>3. CASE UNCHANGED invitations
  BY <1>1, <1>3 DEF Kept
<1>4. ASSUME NEW o \in Org, Delete(o) PROVE invitations' \in Seq(Invitation) /\ Kept
  <2> DEFINE row(n) == [invitations[n] EXCEPT !.deleted = @ \/ invitations[n].org = o]
  <2>1. invitations' = [n \in DOMAIN invitations |-> row(n)]
    BY <1>4 DEF Delete
  <2>2. orgs'[o] = "deleted"
    BY <1>4, TableTypes DEF Delete
  <2>3. ASSUME NEW n \in DOMAIN invitations PROVE Good(n, row(n))
    <3>1. row(n) \in Invitation
      BY InvitationTypes DEF Invitation
    <3>2. /\ row(n).org = invitations[n].org /\ row(n).role = invitations[n].role
          /\ row(n).accepted_by = invitations[n].accepted_by
      BY InvitationTypes DEF Invitation
    <3>3. row(n).accepted = invitations[n].accepted
      BY InvitationTypes DEF Invitation
    <3>4. invitations[n].org # o => row(n).deleted = invitations[n].deleted
      BY InvitationTypes DEF Invitation
    <3>5. row(n).deleted = invitations[n].deleted \/ orgs'[invitations[n].org] = "deleted"
      <4>1. CASE invitations[n].org = o
        BY <2>2, <4>1
      <4>2. CASE invitations[n].org # o
        BY <3>4, <4>2
      <4> QED
        BY <4>1, <4>2
    <3> HIDE DEF row
    <3> QED
      BY <3>1, <3>2, <3>3, <3>5
  <2> HIDE DEF row
  <2> QED
    BY <1>2, <2>1, <2>3
<1>5. ASSUME NEW r \in Request, InsertInvitation(r), invitations' # invitations
      PROVE  invitations' \in Seq(Invitation) /\ Kept
  <2> DEFINE row(n) == [invitations[n] EXCEPT !.deleted = @ \/ (n \in req[r].old /\ Open(n))]
             old == [n \in DOMAIN invitations |-> row(n)]
             new == [org |-> req[r].org, email |-> req[r].email, role |-> req[r].role,
                     expires_at |-> now + InvitationLifetime,
                     accepted |-> FALSE, accepted_by |-> {}, deleted |-> FALSE]
  <2>1. invitations' = Append(old, new)
    BY <1>5 DEF InsertInvitation, Replaced
  <2>2. new \in Invitation
    BY <1>1, <1>5, RequestTypes, LifetimeAssumption DEF InsertInvitation, Fits, Invitation
  <2>3. ASSUME NEW n \in DOMAIN invitations PROVE Good(n, row(n))
    <3>1. row(n) \in Invitation
      BY InvitationTypes DEF Invitation
    <3>2. /\ row(n).org = invitations[n].org /\ row(n).role = invitations[n].role
          /\ row(n).accepted_by = invitations[n].accepted_by
      BY InvitationTypes DEF Invitation
    <3>3. row(n).accepted = invitations[n].accepted
      BY InvitationTypes DEF Invitation
    <3>4. invitations[n].accepted => row(n).deleted = invitations[n].deleted
      BY InvitationTypes DEF Invitation, Open
    <3> HIDE DEF row
    <3> QED
      BY <3>1, <3>2, <3>3, <3>4
  <2> HIDE DEF row, new
  <2>4. old \in Seq(Invitation)
    BY <1>1, <2>3, Rewritten
  <2>5. /\ Append(old, new) \in Seq(Invitation) /\ DOMAIN old \subseteq DOMAIN Append(old, new)
        /\ \A n \in DOMAIN old : Append(old, new)[n] = old[n]
    BY <2>2, <2>4, Appended
  <2> QED
    BY <2>1, <2>3, <2>5 DEF Kept
<1>6. ASSUME NEW r \in Request, NEW n \in DOMAIN invitations, NEW u \in User,
             ClaimInvitation(r, n, u)
      PROVE  invitations' \in Seq(Invitation) /\ Kept
  <2> DEFINE row == [invitations[n] EXCEPT !.accepted = TRUE, !.accepted_by = {u}]
  <2>1. invitations' = [invitations EXCEPT ![n] = row] /\ ~invitations[n].accepted
    BY <1>6 DEF ClaimInvitation, Claimable, Open
  <2>2. /\ row \in Invitation /\ row.org = invitations[n].org /\ row.role = invitations[n].role
    BY InvitationTypes DEF Invitation
  <2> HIDE DEF row
  <2>3. /\ invitations'[n] = row /\ DOMAIN invitations' = DOMAIN invitations
        /\ \A m \in DOMAIN invitations \ {n} : invitations'[m] = invitations[m]
    BY <1>1, <2>1
  <2>4. \A m \in DOMAIN invitations : Good(m, invitations'[m])
    BY <2>1, <2>2, <2>3, InvitationTypes
  <2> QED
    BY <1>1, <1>2, <2>1, <2>3, <2>4
<1>7. ASSUME NEW n \in DOMAIN invitations, RevokeInvitation(n)
      PROVE  invitations' \in Seq(Invitation) /\ Kept
  <2> DEFINE row == [invitations[n] EXCEPT !.deleted = TRUE]
  <2>1. invitations' = [invitations EXCEPT ![n] = row] /\ ~invitations[n].accepted
    BY <1>7 DEF RevokeInvitation, Open
  <2>2. /\ row \in Invitation /\ row.org = invitations[n].org /\ row.role = invitations[n].role
    BY InvitationTypes DEF Invitation
  <2> HIDE DEF row
  <2>3. /\ invitations'[n] = row /\ DOMAIN invitations' = DOMAIN invitations
        /\ \A m \in DOMAIN invitations \ {n} : invitations'[m] = invitations[m]
    BY <1>1, <2>1
  <2>4. \A m \in DOMAIN invitations : Good(m, invitations'[m])
    BY <2>1, <2>2, <2>3, InvitationTypes
  <2> QED
    BY <1>1, <1>2, <2>1, <2>3, <2>4
<1>8. ASSUME NEW u \in User, DeleteUser(u) PROVE invitations' \in Seq(Invitation) /\ Kept
  <2>1. invitations' = [n \in DOMAIN invitations |->
                          [invitations[n] EXCEPT !.accepted_by = @ \ {u}]]
    BY <1>8 DEF DeleteUser
  <2>2. ASSUME NEW n \in DOMAIN invitations
        PROVE  /\ invitations'[n] \in Invitation
               /\ invitations'[n].org = invitations[n].org
               /\ invitations'[n].role = invitations[n].role
               /\ invitations'[n].accepted_by = invitations[n].accepted_by \ {u}
               /\ invitations'[n].accepted = invitations[n].accepted
               /\ invitations'[n].deleted = invitations[n].deleted
    BY <2>1, InvitationTypes DEF Invitation
  <2>3. u \notin users'
    BY <1>8 DEF DeleteUser
  <2>4. \A n \in DOMAIN invitations : Good(n, invitations'[n])
    BY <2>2, <2>3
  <2> QED
    BY <1>2, <2>1, <2>4
<1>9. ASSUME Purge PROVE invitations' \in Seq(Invitation) /\ Kept
  <2> DEFINE row(n) == [invitations[n] EXCEPT !.deleted = @ \/ Expired(n)]
  <2>1. invitations' = [n \in DOMAIN invitations |-> row(n)]
    BY <1>9 DEF Purge
  <2>2. ASSUME NEW n \in DOMAIN invitations PROVE Good(n, row(n))
    <3>1. row(n) \in Invitation
      BY InvitationTypes DEF Invitation
    <3>2. /\ row(n).org = invitations[n].org /\ row(n).role = invitations[n].role
          /\ row(n).accepted_by = invitations[n].accepted_by
      BY InvitationTypes DEF Invitation
    <3>3. row(n).accepted = invitations[n].accepted
      BY InvitationTypes DEF Invitation
    <3>4. invitations[n].accepted => row(n).deleted = invitations[n].deleted
      BY InvitationTypes DEF Invitation, Open, Expired
    <3> HIDE DEF row
    <3> QED
      BY <3>1, <3>2, <3>3, <3>4
  <2> HIDE DEF row
  <2> QED
    BY <1>2, <2>1, <2>2
<1> QED
  BY <1>3, <1>4, <1>5, <1>6, <1>7, <1>8, <1>9, Writers

-----------------------------------------------------------------------------
(* Organisations and users that are gone stay gone; what is behind a       *)
(* membership stays behind it.                                             *)
LEMMA GoneStays ==
  ASSUME Shape, Next
  PROVE  /\ users' \subseteq users /\ orgs' \in [Org -> {"absent", "present", "deleted"}]
         /\ \A o \in Org : orgs[o] = "deleted" => orgs'[o] = "deleted"
<1>1. users' \subseteq users
  BY Writers DEF DeleteUser
<1>2. orgs \in [Org -> {"absent", "present", "deleted"}]
  BY TableTypes
<1>3. /\ orgs' \in [Org -> {"absent", "present", "deleted"}]
      /\ \A o \in Org : orgs[o] = "deleted" => orgs'[o] = "deleted"
  BY <1>2, Writers DEF Create, Delete, OnFile
<1> QED
  BY <1>1, <1>3

LEMMA BehindStands ==
  ASSUME Shape, Next, NEW n, NEW o \in Org, NEW u \in User, NEW role, Behind(n, o, u, role)
  PROVE  Behind(n, o, u, role)'
<1>1. Kept
  BY InvitationsKept
<1>2. /\ n \in DOMAIN invitations'
      /\ invitations'[n].org = o /\ invitations'[n].role = role /\ invitations'[n].accepted
  BY <1>1 DEF Kept, Behind
<1>3. ASSUME u \in users' PROVE invitations'[n].accepted_by = {u}
  <2>1. invitations[n].accepted_by = {u}
    BY <1>3, GoneStays DEF Behind
  <2> QED
    BY <1>1, <1>3, <2>1 DEF Kept, Behind
<1>4. ASSUME invitations'[n].deleted PROVE orgs'[o] = "deleted"
  BY <1>1, <1>4, GoneStays DEF Kept, Behind
<1> QED
  BY <1>2, <1>3, <1>4 DEF Behind

LEMMA FitsStands ==
  ASSUME Shape, Next, NEW l \in Locals, Fits(l)
  PROVE  Fits(l)'
<1>1. l.at = "admit" => Behind(l.invitation, l.org, l.user, l.role)'
  BY BehindStands DEF Fits
<1> QED
  BY <1>1 DEF Fits

-----------------------------------------------------------------------------
(* How a request moves.                                                    *)
Becomes(l, k) ==
  /\ Removes(l) => \/ Removes(k) /\ l.org = k.org
                   \/ ~Locked(l.org)
  /\ l.at = "role" => l.owners = Cardinality(Owners(l.org)) /\ UNCHANGED <<members, overridden>>
  /\ l.at = "delete" => /\ k.at = "role" /\ l.org = k.org /\ l.user = k.user
                        /\ UNCHANGED <<members, overridden>>
                        /\ members[k.org][k.user] = "owner" => ~(k.owners <= 1)

Moves(r) ==
  \E l \in Locals : req' = [req EXCEPT ![r] = l] /\ Fits(l)' /\ Becomes(l, req[r])

LEMMA MovesTo ==
  ASSUME Shape, Next, NEW r \in Request, NEW l \in Locals,
         req' = [req EXCEPT ![r] = l], Fits(l), Becomes(l, req[r])
  PROVE  Moves(r)
<1>1. Fits(l)'
  BY FitsStands
<1> QED
  BY <1>1 DEF Moves

LEMMA FinishMoves ==
  ASSUME Shape, NEW r \in Request, Finish(r)
  PROVE  Moves(r)
<1>1. Blank \in Locals /\ Blank.at = "idle"
  BY RequestTypes
<1>2. Becomes(Blank, req[r])
  BY <1>1 DEF Becomes, Removes
<1>3. PICK l \in Locals : l = Blank
  BY <1>1
<1>4. Fits(l)'
  BY <1>1, <1>3 DEF Fits
<1> QED
  BY <1>2, <1>3, <1>4 DEF Moves, Finish

LEMMA LockOrganizationMoves ==
  ASSUME Shape, Next, NEW r \in Request, NEW o \in Org, NEW u \in User, LockOrganization(r, o, u)
  PROVE  Moves(r)
<1> DEFINE l == [req[r] EXCEPT !.at = "count", !.org = o, !.user = u]
<1>1. l \in Locals /\ l.at = "count" /\ l.org = o /\ l.user = u
  BY RequestTypes DEF Locals, At
<1>2. req' = [req EXCEPT ![r] = l] /\ ~Locked(o)
  BY RequestTypes DEF LockOrganization
<1> HIDE DEF l
<1>3. Fits(l)
  BY <1>1 DEF Fits
<1>4. Becomes(l, req[r])
  BY <1>1, <1>2 DEF Becomes
<1> QED
  BY <1>1, <1>2, <1>3, <1>4, MovesTo

LEMMA OwnersFinite ==
  ASSUME NEW o
  PROVE  IsFiniteSet(Owners(o)) /\ Cardinality(Owners(o)) \in Nat
<1>1. Owners(o) \subseteq User
  BY DEF Owners
<1> QED
  BY <1>1, UserAssumption, FS_Subset, FS_CardinalityType

LEMMA CountOwnersMoves ==
  ASSUME Shape, Next, NEW r \in Request, CountOwners(r)
  PROVE  Moves(r)
<1> DEFINE k == req[r]
           l == [k EXCEPT !.at = "role", !.owners = Cardinality(Owners(k.org))]
<1>1. k \in Locals /\ Fits(k) /\ k.at = "count" /\ Removes(k)
  BY RequestTypes DEF CountOwners, Removes
<1>2. l \in Locals /\ l.at = "role" /\ l.org = k.org /\ l.user = k.user
      /\ l.owners = Cardinality(Owners(k.org))
  BY <1>1, OwnersFinite DEF Locals, At
<1>3. req' = [req EXCEPT ![r] = l] /\ UNCHANGED <<members, overridden>>
  BY RequestTypes DEF CountOwners, history
<1> HIDE DEF l
<1>4. Fits(l)
  BY <1>1, <1>2 DEF Fits
<1>5. Becomes(l, k)
  BY <1>1, <1>2, <1>3 DEF Becomes
<1> QED
  BY <1>2, <1>3, <1>4, <1>5, MovesTo

LEMMA ReadRoleMoves ==
  ASSUME Shape, Next, NEW r \in Request, ReadRole(r)
  PROVE  Moves(r)
<1> DEFINE k == req[r]
           l == [k EXCEPT !.at = "delete"]
<1>1. k \in Locals /\ Fits(k) /\ k.at = "role" /\ Removes(k)
  BY RequestTypes DEF ReadRole, Removes
<1>2. CASE Finish(r)
  BY <1>2, FinishMoves
<1>3. CASE Goto(r, "delete") /\ ~(members[k.org][k.user] = "owner" /\ k.owners <= 1)
  <2>1. l \in Locals /\ l.at = "delete" /\ l.org = k.org /\ l.user = k.user
    BY <1>1 DEF Locals, At
  <2>2. req' = [req EXCEPT ![r] = l] /\ UNCHANGED <<members, overridden>>
    BY <1>3, RequestTypes DEF ReadRole, Goto, history
  <2> HIDE DEF l
  <2>3. Fits(l)
    BY <1>1, <2>1 DEF Fits
  <2>4. Becomes(l, k)
    BY <1>1, <1>3, <2>1, <2>2 DEF Becomes
  <2> QED
    BY <2>1, <2>2, <2>3, <2>4, MovesTo
<1> QED
  BY <1>2, <1>3 DEF ReadRole

LEMMA DeleteOpenMoves ==
  ASSUME Shape, Next, NEW r \in Request, NEW o \in Org, NEW e \in Email, NEW role \in Role,
         DeleteOpen(r, o, e, role)
  PROVE  Moves(r)
<1> DEFINE old == {n \in DOMAIN invitations :
                     Open(n) /\ invitations[n].org = o /\ invitations[n].email = e}
           l == [req[r] EXCEPT !.at = "insert", !.org = o, !.email = e, !.role = role, !.old = old]
<1>1. old \subseteq Nat
  BY InvitationTypes
<1>2. req' = [req EXCEPT ![r] = l]
  BY RequestTypes DEF DeleteOpen
<1> HIDE DEF old
<1>3. l \in Locals /\ l.at = "insert" /\ l.org = o /\ l.email = e /\ l.role = role
  BY <1>1, RequestTypes DEF Locals, At
<1> HIDE DEF l
<1>4. Fits(l)
  BY <1>3 DEF Fits
<1>5. Becomes(l, req[r])
  BY <1>3 DEF Becomes, Removes
<1> QED
  BY <1>2, <1>3, <1>4, <1>5, MovesTo

LEMMA ClaimInvitationMoves ==
  ASSUME Shape, Next, NEW r \in Request, NEW n \in DOMAIN invitations, NEW u \in User,
         ClaimInvitation(r, n, u)
  PROVE  Moves(r)
<1> DEFINE l == [req[r] EXCEPT !.at = "admit", !.org = invitations[n].org, !.user = u,
                               !.role = invitations[n].role, !.invitation = n]
           row == [invitations[n] EXCEPT !.accepted = TRUE, !.accepted_by = {u}]
<1>1. /\ l \in Locals /\ l.at = "admit" /\ l.org = invitations[n].org /\ l.user = u
      /\ l.role = invitations[n].role /\ l.invitation = n
  BY RequestTypes, InvitationTypes DEF Locals, At
<1>2. req' = [req EXCEPT ![r] = l] /\ invitations' = [invitations EXCEPT ![n] = row]
      /\ ~invitations[n].deleted
  BY RequestTypes DEF ClaimInvitation, Claimable, Open
<1>3. /\ row.org = invitations[n].org /\ row.role = invitations[n].role
      /\ row.accepted_by = {u}
  BY InvitationTypes DEF Invitation
<1>4. row.accepted /\ ~row.deleted
  BY <1>2, InvitationTypes DEF Invitation
<1>5. n \in DOMAIN invitations' /\ invitations'[n] = row
  BY <1>2
<1> HIDE DEF l, row
<1>6. PICK m \in Locals : m = l
  BY <1>1
<1>7. /\ m.at = "admit" /\ m.user = u /\ m.invitation = n
      /\ m.org \in Org /\ m.role \in Role /\ m.org = invitations[n].org
      /\ m.role = invitations[n].role
  BY <1>1, <1>6, InvitationTypes
<1>8. Behind(m.invitation, m.org, m.user, m.role)'
  BY <1>3, <1>4, <1>5, <1>7 DEF Behind
<1>9. Fits(m)'
  BY <1>7, <1>8 DEF Fits
<1>10. Becomes(m, req[r])
  BY <1>7 DEF Becomes, Removes
<1> QED
  BY <1>2, <1>6, <1>9, <1>10 DEF Moves

(* In every step at most one request moves.                                *)
LEMMA NextMoves ==
  ASSUME Shape, Next
  PROVE  UNCHANGED req \/ \E r \in Request : Moves(r)
<1>1. ASSUME NEW r \in Request, RemoveMember(r) \/ Invite(r) \/ AcceptInvitation(r) \/ Abort(r)
      PROVE  Moves(r)
  <2>1. ASSUME DeleteMember(r) \/ InsertInvitation(r) \/ Admit(r) \/ Abort(r) PROVE Moves(r)
    BY <2>1, FinishMoves DEF DeleteMember, InsertInvitation, Admit, Abort
  <2> QED
    BY <1>1, <2>1, LockOrganizationMoves, CountOwnersMoves, ReadRoleMoves, DeleteOpenMoves,
       ClaimInvitationMoves DEF RemoveMember, Invite, AcceptInvitation
<1>2. ASSUME ~\E r \in Request : RemoveMember(r) \/ Invite(r) \/ AcceptInvitation(r) \/ Abort(r)
      PROVE  UNCHANGED req
  BY <1>2 DEF Next, ManageOrganization, Create, Delete, SetMember, RevokeInvitation,
              DeleteUser, Purge, Tick
<1> QED
  BY <1>1, <1>2

-----------------------------------------------------------------------------
(* What set_member's statement does.                                       *)
LEMMA Puts ==
  ASSUME Shape, NEW o \in Org, NEW u \in User, NEW role \in Role, NEW n \in Nat,
         PutMember(o, u, role, n), Unhindered(o, u)
  PROVE  /\ members' \in [Org -> [User -> Role \cup {None}]]
         /\ origin' \in [Org -> [User -> Nat]]
         /\ members'[o][u] = role /\ origin'[o][u] = n
         /\ \A p \in Org, v \in User : p # o \/ v # u =>
              members'[p][v] = members[p][v] /\ origin'[p][v] = origin[p][v]
         /\ overridden \subseteq overridden' /\ overridden' \subseteq overridden \cup {o}
         /\ o \notin overridden' => ~Locked(o) /\ Owners(o) \subseteq Owners(o)'
<1>1. /\ members' = [members EXCEPT ![o][u] = role] /\ origin' = [origin EXCEPT ![o][u] = n]
  BY DEF PutMember
<1>2. /\ members' \in [Org -> [User -> Role \cup {None}]]
      /\ members'[o][u] = role
      /\ \A p \in Org, v \in User : p # o \/ v # u => members'[p][v] = members[p][v]
  BY <1>1, TableTypes
<1>3. /\ origin' \in [Org -> [User -> Nat]]
      /\ origin'[o][u] = n
      /\ \A p \in Org, v \in User : p # o \/ v # u => origin'[p][v] = origin[p][v]
  BY <1>1, TableTypes
<1>4. overridden \subseteq overridden' /\ overridden' \subseteq overridden \cup {o}
  BY DEF PutMember
<1>5. ASSUME o \notin overridden' PROVE ~Locked(o) /\ Owners(o) \subseteq Owners(o)'
  <2>1. /\ ~(members[o][u] = "owner" /\ role # "owner")
        /\ ~(members[o][u] # None /\ Locked(o))
    BY <1>5 DEF PutMember
  <2>2. ~Locked(o)
    BY <2>1 DEF Unhindered
  <2>3. Owners(o) \subseteq Owners(o)'
    BY <1>2, <2>1 DEF Owners
  <2> QED
    BY <2>2, <2>3
<1> QED
  BY <1>2, <1>3, <1>4, <1>5

(* An invitation admits who accepted it, if anybody.                       *)
LEMMA Admits ==
  ASSUME Shape, NEW r \in Request, Admit(r)
  PROVE  LET l == req[r]
         IN /\ l.org \in Org /\ l.user \in User /\ l.role \in Role /\ l.invitation \in Nat
            /\ Behind(l.invitation, l.org, l.user, l.role)
            /\ \/ UNCHANGED <<members, origin, overridden>>
               \/ /\ OnFile(l.org) /\ l.user \in users /\ SameRealm(l.org, l.user)
                  /\ Unhindered(l.org, l.user)
                  /\ PutMember(l.org, l.user, l.role, l.invitation)
<1>1. req[r].at = "admit" /\ Fits(req[r]) /\ req[r] \in Locals
  BY RequestTypes DEF Admit
<1>2. /\ req[r].org \in Org /\ req[r].user \in User /\ req[r].role \in Role
      /\ Behind(req[r].invitation, req[r].org, req[r].user, req[r].role)
  BY <1>1 DEF Fits
<1>3. req[r].invitation \in Nat
  BY <1>1 DEF Locals
<1> QED
  BY <1>2, <1>3 DEF Admit, history

(* What a removal deletes.                                                 *)
LEMMA Removals ==
  ASSUME Shape, NEW r \in Request, DeleteMember(r)
  PROVE  LET l == req[r]
         IN /\ l.at = "delete" /\ l.org \in Org /\ l.user \in User
            /\ members' \in [Org -> [User -> Role \cup {None}]]
            /\ origin' \in [Org -> [User -> Nat]]
            /\ members'[l.org][l.user] = None
            /\ \A p \in Org, v \in User : p # l.org \/ v # l.user =>
                 members'[p][v] = members[p][v] /\ origin'[p][v] = origin[p][v]
            /\ UNCHANGED overridden /\ req' = [req EXCEPT ![r] = Blank]
<1>1. req[r].at = "delete" /\ Fits(req[r])
  BY RequestTypes DEF DeleteMember
<1>2. req[r].org \in Org /\ req[r].user \in User
  BY <1>1 DEF Fits
<1>3. /\ members' = [members EXCEPT ![req[r].org][req[r].user] = None]
      /\ origin' = [origin EXCEPT ![req[r].org][req[r].user] = 0]
      /\ UNCHANGED overridden /\ req' = [req EXCEPT ![r] = Blank]
  BY DEF DeleteMember, Finish
<1>4. /\ members' \in [Org -> [User -> Role \cup {None}]]
      /\ members'[req[r].org][req[r].user] = None
      /\ \A p \in Org, v \in User :
           p # req[r].org \/ v # req[r].user => members'[p][v] = members[p][v]
  BY <1>2, <1>3, TableTypes
<1>5. /\ origin' \in [Org -> [User -> Nat]]
      /\ \A p \in Org, v \in User :
           p # req[r].org \/ v # req[r].user => origin'[p][v] = origin[p][v]
  BY <1>2, <1>3, TableTypes
<1> QED
  BY <1>1, <1>2, <1>3, <1>4, <1>5

(* What goes with an organisation, and with a user.                        *)
LEMMA Deletions ==
  ASSUME Shape, NEW o \in Org, Delete(o)
  PROVE  /\ members' \in [Org -> [User -> Role \cup {None}]]
         /\ origin' \in [Org -> [User -> Nat]]
         /\ \A u \in User : members'[o][u] = None
         /\ \A p \in Org \ {o}, u \in User :
              members'[p][u] = members[p][u] /\ origin'[p][u] = origin[p][u]
         /\ orgs'[o] = "deleted" /\ \A p \in Org \ {o} : orgs'[p] = orgs[p]
         /\ ~Locked(o) /\ UNCHANGED <<users, overridden>>
BY TableTypes DEF Delete, Nobody, NoOrigin

LEMMA UserDeletions ==
  ASSUME Shape, NEW u \in User, DeleteUser(u)
  PROVE  /\ members' \in [Org -> [User -> Role \cup {None}]]
         /\ origin' \in [Org -> [User -> Nat]]
         /\ \A o \in Org : members'[o][u] = None
         /\ \A o \in Org, v \in User \ {u} :
              members'[o][v] = members[o][v] /\ origin'[o][v] = origin[o][v]
         /\ overridden' = overridden \cup {o \in Org : members[o][u] = "owner"}
         /\ users' = users \ {u} /\ UNCHANGED orgs
BY TableTypes DEF DeleteUser

-----------------------------------------------------------------------------
(* A membership that outlasts a step has its organisation and its user on  *)
(* file after it.                                                          *)
LEMMA StaysOnFile ==
  ASSUME Shape, Next, NEW o \in Org, NEW u \in User,
         members[o][u] # None, members'[o][u] # None
  PROVE  orgs'[o] = "present" /\ u \in users'
<1>1. orgs[o] = "present" /\ u \in users /\ orgs \in [Org -> {"absent", "present", "deleted"}]
  BY TableTypes
<1>2. orgs'[o] = "present"
  <2>1. CASE UNCHANGED orgs
    BY <1>1, <2>1
  <2>2. ASSUME NEW p \in Org, Create(p) PROVE orgs'[o] = "present"
    BY <1>1, <2>2 DEF Create
  <2>3. ASSUME NEW p \in Org, Delete(p) PROVE orgs'[o] = "present"
    BY <1>1, <2>3, Deletions
  <2> QED
    BY <2>1, <2>2, <2>3, Writers
<1>3. u \in users'
  BY <1>1, Writers, UserDeletions
<1> QED
  BY <1>2, <1>3

(* A membership after a step: none, the one before, or one just given.     *)
Seat(o, u) ==
  \/ members'[o][u] = None
  \/ members'[o][u] = members[o][u] /\ origin'[o][u] = origin[o][u]
  \/ /\ orgs'[o] = "present" /\ u \in users' /\ SameRealm(o, u)
     /\ origin'[o][u] # 0 => Behind(origin'[o][u], o, u, members'[o][u])

LEMMA SeatsMove ==
  ASSUME Shape, Next
  PROVE  /\ members' \in [Org -> [User -> Role \cup {None}]]
         /\ origin' \in [Org -> [User -> Nat]]
         /\ \A o \in Org, u \in User : Seat(o, u)
<1> DEFINE Moved == /\ members' \in [Org -> [User -> Role \cup {None}]]
                    /\ origin' \in [Org -> [User -> Nat]]
                    /\ \A o \in Org, u \in User : Seat(o, u)
<1>1. CASE UNCHANGED <<members, origin>>
  BY <1>1, TableTypes DEF Seat
<1>2. ASSUME NEW p \in Org, Delete(p) PROVE Moved
  BY <1>2, Deletions DEF Seat
<1>3. ASSUME NEW p \in Org, NEW v \in User, NEW role \in Role, SetMember(p, v, role)
      PROVE  Moved
  <2>1. /\ OnFile(p) /\ v \in users /\ SameRealm(p, v) /\ Unhindered(p, v)
        /\ PutMember(p, v, role, 0) /\ UNCHANGED <<orgs, users>>
    BY <1>3 DEF SetMember
  <2>2. /\ members' \in [Org -> [User -> Role \cup {None}]]
        /\ origin' \in [Org -> [User -> Nat]]
        /\ members'[p][v] = role /\ origin'[p][v] = 0
        /\ \A o \in Org, u \in User : o # p \/ u # v =>
             members'[o][u] = members[o][u] /\ origin'[o][u] = origin[o][u]
    BY <2>1, Puts
  <2>3. ASSUME NEW o \in Org, NEW u \in User PROVE Seat(o, u)
    BY <2>1, <2>2 DEF Seat, OnFile
  <2> QED
    BY <2>2, <2>3
<1>4. ASSUME NEW r \in Request, DeleteMember(r) PROVE Moved
  <2> DEFINE p == req[r].org
             v == req[r].user
  <2>1. /\ p \in Org /\ v \in User
        /\ members' \in [Org -> [User -> Role \cup {None}]]
        /\ origin' \in [Org -> [User -> Nat]] /\ members'[p][v] = None
        /\ \A o \in Org, u \in User : o # p \/ u # v =>
             members'[o][u] = members[o][u] /\ origin'[o][u] = origin[o][u]
    BY <1>4, Removals
  <2>2. ASSUME NEW o \in Org, NEW u \in User PROVE Seat(o, u)
    BY <2>1 DEF Seat
  <2> QED
    BY <2>1, <2>2
<1>5. ASSUME NEW r \in Request, Admit(r) PROVE Moved
  <2> DEFINE p == req[r].org
             v == req[r].user
             role == req[r].role
             n == req[r].invitation
  <2>1. /\ p \in Org /\ v \in User /\ role \in Role /\ n \in Nat /\ Behind(n, p, v, role)
        /\ \/ UNCHANGED <<members, origin, overridden>>
           \/ /\ OnFile(p) /\ v \in users /\ SameRealm(p, v)
              /\ Unhindered(p, v) /\ PutMember(p, v, role, n)
    BY <1>5, Admits
  <2>2. UNCHANGED <<orgs, users>>
    BY <1>5 DEF Admit
  <2> HIDE DEF p, v, role, n
  <2>3. CASE /\ OnFile(p) /\ v \in users /\ SameRealm(p, v)
             /\ Unhindered(p, v) /\ PutMember(p, v, role, n)
    <3>1. /\ members' \in [Org -> [User -> Role \cup {None}]]
          /\ origin' \in [Org -> [User -> Nat]]
          /\ members'[p][v] = role /\ origin'[p][v] = n
          /\ \A o \in Org, u \in User : o # p \/ u # v =>
               members'[o][u] = members[o][u] /\ origin'[o][u] = origin[o][u]
      BY <2>1, <2>3, Puts
    <3>2. ASSUME NEW o \in Org, NEW u \in User PROVE Seat(o, u)
      BY <2>1, <2>2, <2>3, <3>1 DEF Seat, OnFile
    <3> QED
      BY <3>1, <3>2
  <2> QED
    BY <1>1, <2>1, <2>3
<1>6. ASSUME NEW v \in User, DeleteUser(v) PROVE Moved
  BY <1>6, UserDeletions DEF Seat
<1> QED
  BY <1>1, <1>2, <1>3, <1>4, <1>5, <1>6, Writers

-----------------------------------------------------------------------------
LEMMA RequestsMove ==
  ASSUME Shape, Next
  PROVE  /\ req' \in [Request -> Locals]
         /\ \A r \in Request : Fits(req[r])'
         /\ \A r \in Request :
              \/ req'[r] = req[r]
              \/ /\ Becomes(req'[r], req[r])
                 /\ \A q \in Request \ {r} : req'[q] = req[q]
<1>1. req \in [Request -> Locals]
  BY DEF Shape, TypeOK
<1>2. ASSUME NEW r \in Request PROVE Fits(req[r]) /\ req[r] \in Locals
  BY RequestTypes
<1>3. CASE UNCHANGED req
  <2>1. ASSUME NEW r \in Request PROVE Fits(req[r])'
    <3>1. PICK l \in Locals : l = req[r]
      BY <1>2
    <3>2. Fits(l)'
      BY <1>2, <3>1, FitsStands
    <3> QED
      BY <1>3, <3>1, <3>2
  <2> QED
    BY <1>1, <1>3, <2>1
<1>4. ASSUME NEW q \in Request, Moves(q)
      PROVE  /\ req' \in [Request -> Locals]
             /\ \A r \in Request : Fits(req[r])'
             /\ \A r \in Request :
                  \/ req'[r] = req[r]
                  \/ /\ Becomes(req'[r], req[r])
                     /\ \A p \in Request \ {r} : req'[p] = req[p]
  <2>1. PICK l \in Locals : req' = [req EXCEPT ![q] = l] /\ Fits(l)' /\ Becomes(l, req[q])
    BY <1>4 DEF Moves
  <2>2. /\ req' \in [Request -> Locals] /\ req'[q] = l
        /\ \A p \in Request \ {q} : req'[p] = req[p]
    BY <1>1, <2>1
  <2>3. ASSUME NEW r \in Request PROVE Fits(req[r])'
    <3>1. CASE r = q
      BY <2>1, <2>2, <3>1
    <3>2. CASE r # q
      <4>1. PICK k \in Locals : k = req[r]
        BY <1>2
      <4>2. Fits(k)'
        BY <1>2, <4>1, FitsStands
      <4> QED
        BY <2>2, <3>2, <4>1, <4>2
    <3> QED
      BY <3>1, <3>2
  <2>4. ASSUME NEW r \in Request
        PROVE  \/ req'[r] = req[r]
               \/ /\ Becomes(req'[r], req[r])
                  /\ \A p \in Request \ {r} : req'[p] = req[p]
    BY <2>1, <2>2
  <2> QED
    BY <2>2, <2>3, <2>4
<1> QED
  BY <1>3, <1>4, NextMoves

LEMMA NextShape ==
  ASSUME Shape, Next
  PROVE  Shape'
<1>1. /\ orgs' \in [Org -> {"absent", "present", "deleted"}] /\ users' \subseteq User
  BY GoneStays, TableTypes
<1>2. /\ members' \in [Org -> [User -> Role \cup {None}]]
      /\ origin' \in [Org -> [User -> Nat]]
  BY SeatsMove
<1>3. ASSUME NEW o \in Org, NEW u \in User, members'[o][u] # None
      PROVE  orgs'[o] = "present" /\ u \in users'
  <2>1. Seat(o, u)
    BY SeatsMove
  <2> QED
    BY <1>3, <2>1, StaysOnFile DEF Seat
<1>4. invitations' \in Seq(Invitation)
  BY InvitationsKept
<1>5. req' \in [Request -> Locals] /\ \A r \in Request : Fits(req[r])'
  BY RequestsMove
<1>6. ASSUME NEW r \in Request, req'[r].at \in {"insert", "admit"} PROVE req'[r].role # None
  BY <1>5, <1>6, RoleAssumption DEF Fits
<1>7. overridden' \subseteq Org
  <2>1. overridden \subseteq Org
    BY DEF Shape, TypeOK
  <2>2. ASSUME NEW o \in Org, NEW u \in User, NEW role \in Role, SetMember(o, u, role)
        PROVE  overridden' \subseteq Org
    BY <2>1, <2>2 DEF SetMember, PutMember
  <2>3. ASSUME NEW r \in Request, Admit(r) PROVE overridden' \subseteq Org
    BY <2>1, <2>3, Admits DEF PutMember
  <2>4. ASSUME NEW u \in User, DeleteUser(u) PROVE overridden' \subseteq Org
    BY <2>1, <2>4, UserDeletions
  <2> QED
    BY <2>1, <2>2, <2>3, <2>4, Writers
<1>8. changes' \in Nat /\ now' \in Nat
  <2>1. changes \in Nat /\ now \in Nat
    BY DEF Shape, TypeOK
  <2>2. now' \in Nat
    BY <2>1, Writers DEF Tick
  <2>3. changes' \in Nat
    BY <2>1, Writers DEF SetMember
  <2> QED
    BY <2>2, <2>3
<1>9. TypeOK'
  BY <1>1, <1>2, <1>3, <1>4, <1>5, <1>6, <1>7, <1>8 DEF TypeOK
<1> QED
  BY <1>5, <1>9 DEF Shape

(* What an invitation gave is still behind the membership.                 *)
LEMMA NextSeats ==
  ASSUME Shape, Seats, Next
  PROVE  Seats'
<1> SUFFICES ASSUME NEW o \in Org, NEW u \in User, members'[o][u] # None, origin'[o][u] # 0
             PROVE  Behind(origin[o][u], o, u, members[o][u])' /\ SameRealm(o, u)
  BY DEF Seats, SameRealm
<1> DEFINE n == origin'[o][u]
           role == members'[o][u]
<1>1. Seat(o, u)
  BY SeatsMove
<1>2. Behind(n, o, u, role) /\ SameRealm(o, u)
  BY <1>1 DEF Seat, Seats
<1>3. n \in Nat /\ role \in Role \cup {None}
  BY SeatsMove
<1>4. PICK m \in Nat, k \in Role \cup {None} : m = n /\ k = role
  BY <1>3
<1>5. Behind(m, o, u, k)'
  BY <1>2, <1>4, BehindStands
<1> QED
  BY <1>2, <1>4, <1>5

-----------------------------------------------------------------------------
(* While a removal goes on, only what is counted as overriding it changes  *)
(* the owners of its organisation.                                         *)
LEMMA OwnersHeld ==
  ASSUME Shape, OneRemoval, Next, NEW r \in Request, Removes(req[r]), req'[r] = req[r],
         req[r].org \notin overridden'
  PROVE  req[r].org \notin overridden /\ Owners(req[r].org)' = Owners(req[r].org)
<1>1. PICK o \in Org : o = req[r].org
  BY RequestTypes DEF Fits, Removes
<1>2. Locked(o) /\ o \notin overridden'
  BY <1>1 DEF Locked, Removes
<1> DEFINE Held == /\ o \notin overridden
                   /\ \A u \in User : members'[o][u] = "owner" <=> members[o][u] = "owner"
<1>3. ASSUME UNCHANGED <<members, origin>>
      PROVE  \A u \in User : members'[o][u] = "owner" <=> members[o][u] = "owner"
  BY <1>3
<1>4. ASSUME UNCHANGED overridden PROVE o \notin overridden
  BY <1>2, <1>4
<1>5. ASSUME NEW p \in Org, Delete(p) PROVE Held
  BY <1>2, <1>5, Deletions
<1>6. ASSUME NEW p \in Org, NEW v \in User, NEW role \in Role, SetMember(p, v, role)
      PROVE  Held
  <2>1. Unhindered(p, v) /\ PutMember(p, v, role, 0)
    BY <1>6 DEF SetMember
  <2> QED
    BY <1>2, <2>1, Puts
<1>7. ASSUME NEW q \in Request, DeleteMember(q) PROVE Held
  <2>1. /\ req[q].at = "delete" /\ UNCHANGED overridden /\ req' = [req EXCEPT ![q] = Blank]
        /\ \A p \in Org, v \in User :
             p # req[q].org \/ v # req[q].user => members'[p][v] = members[p][v]
    BY <1>7, Removals
  <2>2. q # r
    BY <2>1, RequestTypes DEF Removes
  <2>3. req[q].org # o
    BY <1>1, <2>1, <2>2 DEF OneRemoval, Removes
  <2> QED
    BY <1>2, <2>1, <2>3
<1>8. ASSUME NEW q \in Request, Admit(q) PROVE Held
  <2>1. /\ req[q].org \in Org /\ req[q].user \in User /\ req[q].role \in Role
        /\ req[q].invitation \in Nat
        /\ \/ UNCHANGED <<members, origin, overridden>>
           \/ /\ Unhindered(req[q].org, req[q].user)
              /\ PutMember(req[q].org, req[q].user, req[q].role, req[q].invitation)
    BY <1>8, Admits
  <2> QED
    BY <1>2, <2>1, Puts
<1>9. ASSUME NEW v \in User, DeleteUser(v) PROVE Held
  <2>1. members[o][v] # "owner"
    BY <1>2, <1>9, UserDeletions
  <2>2. /\ o \notin overridden /\ members'[o][v] = None
        /\ \A u \in User \ {v} : members'[o][u] = members[o][u]
    BY <1>2, <1>9, UserDeletions
  <2> QED
    BY <2>1, <2>2 DEF None
<1>10. Held
  BY <1>3, <1>4, <1>5, <1>6, <1>7, <1>8, <1>9, Writers
<1> QED
  BY <1>1, <1>10 DEF Owners

LEMMA NextOneRemoval ==
  ASSUME Shape, OneRemoval, Next
  PROVE  OneRemoval'
<1> SUFFICES ASSUME NEW r \in Request, NEW q \in Request \ {r},
                    Removes(req'[r]), Removes(req'[q])
             PROVE  req'[r].org # req'[q].org
  BY DEF OneRemoval, Removes
<1>1. ASSUME NEW p \in Request, NEW m \in Request \ {p}, req'[m] = req[m],
             Becomes(req'[p], req[p]), Removes(req'[p]), Removes(req'[m])
      PROVE  req'[p].org # req'[m].org
  BY <1>1 DEF Becomes, OneRemoval, Locked, Removes
<1>2. CASE req'[r] = req[r] /\ req'[q] = req[q]
  BY <1>2 DEF OneRemoval
<1>3. CASE req'[r] # req[r]
  <2>1. Becomes(req'[r], req[r]) /\ req'[q] = req[q]
    BY <1>3, RequestsMove
  <2> QED
    BY <1>1, <2>1
<1>4. CASE req'[q] # req[q]
  <2>1. Becomes(req'[q], req[q]) /\ req'[r] = req[r]
    BY <1>4, RequestsMove
  <2> QED
    BY <1>1, <2>1
<1> QED
  BY <1>2, <1>3, <1>4

(* Who is the only one of a set is all of it.                              *)
LEMMA OnlyOne ==
  ASSUME NEW S, NEW x, S # {}, S \ {x} = {}
  PROVE  Cardinality(S) = 1 /\ x \in S
<1>1. S = {x}
  OBVIOUS
<1> QED
  BY <1>1, FS_Singleton

LEMMA NextCountsHold ==
  ASSUME Shape, OneRemoval, CountsHold, Next
  PROVE  CountsHold'
<1> SUFFICES ASSUME NEW r \in Request
             PROVE  Counted(req[r])'
  BY DEF CountsHold
<1> DEFINE k == req[r]
<1>1. PICK l \in Locals : l = req'[r]
  BY RequestsMove
<1>2. Counted(k) /\ k \in Locals
  BY RequestTypes DEF CountsHold
<1> SUFFICES ASSUME l.at \in {"role", "delete"}, l.org \notin overridden'
             PROVE  /\ l.at = "role" => l.owners = Cardinality(Owners(l.org)')
                    /\ l.at = "delete" /\ Owners(l.org)' # {} => Owners(l.org)' \ {l.user} # {}
  BY <1>1 DEF Counted
<1>3. CASE req'[r] = req[r]
  <2>1. l = k /\ Removes(k)
    BY <1>1, <1>3 DEF Removes
  <2>2. k.org \notin overridden /\ Owners(k.org)' = Owners(k.org)
    BY <1>3, <2>1, OwnersHeld
  <2>3. Owners(l.org)' = Owners(l.org)
    BY <1>1, <2>1, <2>2 DEF Owners
  <2> QED
    BY <1>2, <2>1, <2>2, <2>3 DEF Counted
<1>4. CASE req'[r] # req[r]
  <2>1. Becomes(l, k)
    BY <1>1, <1>4, RequestsMove
  <2>2. UNCHANGED <<members, overridden>>
    BY <2>1 DEF Becomes
  <2>3. Owners(l.org)' = Owners(l.org) /\ l.org \notin overridden
    BY <2>2 DEF Owners
  <2>4. ASSUME l.at = "role" PROVE l.owners = Cardinality(Owners(l.org))
    BY <2>1, <2>4 DEF Becomes
  <2>5. ASSUME l.at = "delete", Owners(l.org) # {}, Owners(l.org) \ {l.user} = {} PROVE FALSE
    <3>1. /\ k.at = "role" /\ l.org = k.org /\ l.user = k.user
          /\ members[k.org][k.user] = "owner" => ~(k.owners <= 1)
      BY <2>1, <2>5 DEF Becomes
    <3>2. k.owners = Cardinality(Owners(k.org))
      BY <1>2, <2>3, <3>1 DEF Counted
    <3>3. Cardinality(Owners(k.org)) = 1 /\ k.user \in Owners(k.org)
      BY <2>5, <3>1, OnlyOne
    <3>4. members[k.org][k.user] = "owner"
      BY <3>3 DEF Owners
    <3> QED
      BY <3>1, <3>2, <3>3, <3>4
  <2> QED
    BY <2>3, <2>4, <2>5
<1> QED
  BY <1>3, <1>4

-----------------------------------------------------------------------------
LEMMA InitIInv == Init => IInv
<1> SUFFICES ASSUME Init PROVE IInv
  OBVIOUS
<1>1. \A r \in Request : req[r] = Blank
  BY DEF Init
<1>2. Blank \in Locals /\ Blank.at = "idle"
  BY DEF Blank, Locals, At
<1>3. \A o \in Org, u \in User : members[o][u] = None
  BY DEF Init, Nobody
<1>4. TypeOK
  <2>1. members \in [Org -> [User -> Role \cup {None}]] /\ origin \in [Org -> [User -> Nat]]
    BY DEF Init, Nobody, NoOrigin
  <2>2. req \in [Request -> Locals]
    BY <1>2 DEF Init
  <2> QED
    BY <1>1, <1>2, <1>3, <2>1, <2>2 DEF Init, TypeOK
<1>5. Shape
  BY <1>1, <1>2, <1>4 DEF Shape, Fits
<1>6. Seats /\ OneRemoval /\ CountsHold
  BY <1>1, <1>2, <1>3 DEF Seats, OneRemoval, CountsHold, Counted, Removes
<1> QED
  BY <1>5, <1>6 DEF IInv

LEMMA NextIInv == IInv /\ [Next]_vars => IInv'
<1> SUFFICES ASSUME IInv, [Next]_vars PROVE IInv'
  OBVIOUS
<1>1. CASE Next
  BY <1>1, NextShape, NextSeats, NextOneRemoval, NextCountsHold DEF IInv
<1>2. CASE UNCHANGED vars
  <2>1. TypeOK'
    BY <1>2 DEF vars, IInv, Shape, TypeOK
  <2>2. \A r \in Request : Fits(req[r])'
    BY <1>2 DEF vars, IInv, Shape, Fits, Behind
  <2>3. Seats' /\ OneRemoval'
    BY <1>2 DEF vars, IInv, Seats, Behind, SameRealm, OneRemoval, Removes
  <2>4. CountsHold'
    BY <1>2 DEF vars, IInv, CountsHold, Counted, Owners
  <2> QED
    BY <2>1, <2>2, <2>3, <2>4 DEF IInv, Shape
<1> QED
  BY <1>1, <1>2

LEMMA Invariance == Spec => []IInv
BY InitIInv, NextIInv, PTL DEF Spec

(* The variables keep their types; a membership is of an organisation and  *)
(* a user on file.                                                         *)
THEOREM Typing == Spec => []TypeOK
<1>1. IInv => TypeOK
  BY DEF IInv, Shape
<1> QED
  BY <1>1, Invariance, PTL

(* A membership that an invitation gave is of the organisation, the role   *)
(* and the realm of that invitation, which its user has accepted and       *)
(* nobody has withdrawn (organization.rs accept_invitation).               *)
THEOREM LinksAdmitTheirOwn == Spec => []SeatBehindLink
<1>1. Shape /\ Seats => SeatBehindLink
  <2> SUFFICES ASSUME Shape, Seats, NEW o \in Org, NEW u \in User,
                      members[o][u] # None, origin[o][u] # 0
               PROVE  LET link == invitations[origin[o][u]]
                      IN /\ link.org = o /\ link.role = members[o][u]
                         /\ RealmOf[u] = RealmOf[o]
                         /\ link.accepted /\ link.accepted_by = {u} /\ ~link.deleted
    BY DEF SeatBehindLink
  <2>1. Behind(origin[o][u], o, u, members[o][u]) /\ SameRealm(o, u)
    BY DEF Seats
  <2>2. orgs[o] = "present" /\ u \in users
    BY TableTypes
  <2> QED
    BY <2>1, <2>2 DEF Behind, SameRealm
<1>2. IInv => SeatBehindLink
  BY <1>1 DEF IInv
<1> QED
  BY <1>2, Invariance, PTL

(* No step takes the last owner of an organisation, unless an owner was    *)
(* demoted or deleted beside the removals, or a role overwritten under     *)
(* their lock (organization.rs remove_member).                             *)
LEMMA StepKeepsOwner ==
  ASSUME IInv, Next, NEW o \in Org, Owners(o) # {}, orgs'[o] = "present",
         o \notin overridden'
  PROVE  Owners(o)' # {}
<1>1. Shape /\ CountsHold
  BY DEF IInv
<1>2. ASSUME UNCHANGED <<members, origin>> PROVE Owners(o)' # {}
  BY <1>2 DEF Owners
<1>3. ASSUME NEW p \in Org, Delete(p) PROVE Owners(o)' # {}
  BY <1>1, <1>3, Deletions DEF Owners
<1>4. ASSUME NEW p \in Org, NEW v \in User, NEW role \in Role, NEW n \in Nat,
             Unhindered(p, v), PutMember(p, v, role, n)
      PROVE  Owners(o)' # {}
  <2>1. CASE p = o
    BY <1>1, <1>4, <2>1, Puts
  <2>2. CASE p # o
    BY <1>1, <1>4, <2>2, Puts DEF Owners
  <2> QED
    BY <2>1, <2>2
<1>5. ASSUME NEW p \in Org, NEW v \in User, NEW role \in Role, SetMember(p, v, role)
      PROVE  Owners(o)' # {}
  BY <1>4, <1>5 DEF SetMember
<1>6. ASSUME NEW r \in Request, DeleteMember(r) PROVE Owners(o)' # {}
  <2> DEFINE l == req[r]
  <2>1. /\ l.at = "delete" /\ UNCHANGED overridden
        /\ \A p \in Org, v \in User :
             p # l.org \/ v # l.user => members'[p][v] = members[p][v]
    BY <1>1, <1>6, Removals
  <2>2. Counted(l)
    BY <1>1 DEF CountsHold
  <2>3. CASE l.org = o
    <3>1. Owners(o) \ {l.user} # {}
      BY <2>1, <2>2, <2>3 DEF Counted
    <3> QED
      BY <2>1, <3>1 DEF Owners
  <2>4. CASE l.org # o
    BY <2>1, <2>4 DEF Owners
  <2> QED
    BY <2>3, <2>4
<1>7. ASSUME NEW r \in Request, Admit(r) PROVE Owners(o)' # {}
  BY <1>1, <1>2, <1>4, <1>7, Admits
<1>8. ASSUME NEW v \in User, DeleteUser(v) PROVE Owners(o)' # {}
  BY <1>1, <1>8, UserDeletions DEF Owners
<1> QED
  BY <1>1, <1>2, <1>3, <1>5, <1>6, <1>7, <1>8, Writers

(* However many members leave at once, one of them stays an owner, unless  *)
(* somebody changed the owners beside the lock (organization.rs            *)
(* remove_member).                                                         *)
THEOREM OwnersStay == Spec => LastOwnerStays
<1>1. IInv /\ [Next]_vars =>
        [\A o \in Org :
           Owners(o) # {} /\ OnFile(o)' /\ o \notin overridden' => Owners(o)' # {}]_vars
  BY StepKeepsOwner DEF OnFile
<1> QED
  BY <1>1, Invariance, PTL DEF Spec, LastOwnerStays
=============================================================================
