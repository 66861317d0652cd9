------------------------------ MODULE Operations ------------------------------
(***************************************************************************)
(* What the administrative operations do, in order: the functions of       *)
(* identity/src/admin.rs and oauth/src/admin.rs, with the functions of the *)
(* tables they call, written as sequences of statements.  A statement is   *)
(* one query, one transaction, or one test that may end the operation; it  *)
(* names the rows it is about by their kind and by the argument of the     *)
(* operation that identifies them, 0 standing for the account that acts.   *)
(* Administration carries the statements out, one at a time.               *)
(*                                                                         *)
(* An operation is its statements, the kinds of its arguments and the      *)
(* permissions it demands.  The values written, and everything a test says *)
(* of them, are left out: a test that may refuse them is a statement that  *)
(* may.                                                                    *)
(***************************************************************************)
EXTENDS Naturals, Sequences, TLC

Implies == "realm:write" :> "realm:read" @@ "user:write" :> "user:read"
        @@ "role:write" :> "role:read" @@ "client:write" :> "client:read"
        @@ "group:write" :> "group:read" @@ "organization:write" :> "organization:read"
        @@ "identity_provider:write" :> "identity_provider:read"

Permissions == DOMAIN Implies \cup {Implies[p] : p \in DOMAIN Implies} \cup {"audit:read"}

Can(held, p) == p \in held \/ \E q \in held \cap DOMAIN Implies : Implies[q] = p

(* The errors of an operation, and their statuses: refused 400, forbidden  *)
(* 403, notFound 404, conflict 409, internal 500.                          *)
AppError == {"malformed", "unauthenticated", "refused", "forbidden", "notFound", "conflict",
             "internal"}

-----------------------------------------------------------------------------
(* Statements.                                                             *)

Require == [do |-> "require"]
RequireUnlessOwn(n) == [do |-> "requireUnlessOwn", own |-> n]   \* the actor's own: n are skipped
Validated(otherwise) == [do |-> "validate", otherwise |-> otherwise]
Validate == Validated("refused")      \* what contract/validate.rs refuses, and the like
Query == [do |-> "query"]
OtherThanActor == [do |-> "otherThanActor"]
Record == [do |-> "record"]

(* A row that must be there; and, InRealm, in the realm of the actor.      *)
Look(kind, i) == [do |-> "look", row |-> <<kind, i>>, mine |-> FALSE]
InRealm(s) == [s EXCEPT !.mine = TRUE]

(* A new row, that refers to others; a duplicate is answered `duplicate'.  *)
Insert(kind, i, refs, duplicate) ==
  [do |-> "insert", row |-> <<kind, i>>, refs |-> refs, duplicate |-> duplicate]

(* The rows that join others, which are no arguments.                      *)
Join(refs) == [do |-> "join", refs |-> refs]

(* A row changed, or deleted with what hangs on it.  If it is gone the     *)
(* answer is `missing', or the statement goes unnoticed; if `lock', which  *)
(* may be another row, is there, the statement may be refused.             *)
Change(kind, i, missing, refs, may) ==
  [do |-> "change", row |-> <<kind, i>>, missing |-> missing, refs |-> refs, lock |-> <<kind, i>>,
   may |-> may]
DeleteUnder(kind, i, missing, lock, may) ==
  [do |-> "remove", row |-> <<kind, i>>, missing |-> missing, lock |-> lock, may |-> may]
Delete(kind, i, missing) == DeleteUnder(kind, i, missing, <<kind, i>>, {})

(* A list whose rows are then looked up one by one, by `each'.             *)
Gather(what) == [do |-> "gather", what |-> what]
Each == [do |-> "each"]

(* The two halves of a page of the trail.                                  *)
Count == [do |-> "count"]
Page == [do |-> "page"]

Operation(needs, names, steps) == [needs |-> needs, names |-> names, steps |-> steps]

-----------------------------------------------------------------------------
(* Accounts and roles.                                                     *)

user_by_id(i) == Look("user", i)

user_create(i) == <<Validate, Insert("user", i, {}, "conflict")>>

realm_by_name == Query

own_realm == Operation({"realm:read"}, <<>>, <<Require, Query>>)

list_users == Operation({"user:read"}, <<>>, <<Require, Query>>)

count_users == Operation({"user:read"}, <<>>, <<Require, Query>>)

create_user ==
  Operation({"user:write"}, <<"user">>, <<Require>> \o user_create(1) \o <<Record>>)

disable_user ==
  Operation({"user:write"}, <<"user">>,
            <<Require, InRealm(user_by_id(1)), OtherThanActor, Change("user", 1, "unnoticed", {}, {}),
              Query, user_by_id(1)>>)

enable_user ==
  Operation({"user:write"}, <<"user">>,
            <<Require, InRealm(user_by_id(1)), Change("user", 1, "unnoticed", {}, {}),
              user_by_id(1)>>)

delete_user ==
  Operation({"user:write"}, <<"user">>,
            <<Require, InRealm(user_by_id(1)), OtherThanActor, Delete("user", 1, "unnoticed"),
              Record>>)

role_realm(i) == Look("role", i)

role_grant(user, role) == Join({<<"user", user>>, <<"role", role>>})

role_revoke == Join({})

(* An upsert: a role that is there is no duplicate.                        *)
role_ensure(i) == Insert("role", i, {}, "updated")

list_roles == Operation({"role:read"}, <<>>, <<Require, Query>>)

create_role == Operation({"role:write"}, <<"role">>, <<Require, role_ensure(1), Record>>)

set_role_permissions ==
  Operation({"role:write"}, <<"role">>,
            <<Require, InRealm(role_realm(1)), Join({<<"role", 1>>}), Record>>)

grant_role ==
  Operation({"role:write"}, <<"user", "role">>,
            <<Require, InRealm(user_by_id(1)), InRealm(role_realm(2)), role_grant(1, 2), Record>>)

revoke_role ==
  Operation({"role:write"}, <<"user", "role">>,
            <<Require, InRealm(user_by_id(1)), InRealm(role_realm(2)), role_revoke, Record>>)

-----------------------------------------------------------------------------
(* Groups.                                                                 *)

group_by_id(i) == Look("group", i)

(* Under group 2, or at the root.                                          *)
group_create == <<Validate, Insert("group", 1, {}, "conflict"), Query>>
group_create_under ==
  <<Validate, InRealm(group_by_id(2)), Insert("group", 1, {<<"group", 2>>}, "conflict"), Query>>

group_move_to ==
  <<group_by_id(1), Change("group", 1, "unnoticed", {}, {"conflict"}), group_by_id(1)>>
group_move_under ==
  <<group_by_id(1), InRealm(group_by_id(2)),
    Change("group", 1, "unnoticed", {<<"group", 2>>}, {"refused", "conflict"}), group_by_id(1)>>

group_delete == Delete("group", 1, "notFound")

group_add_member ==
  <<group_by_id(1), user_by_id(2), Join({<<"group", 1>>, <<"user", 2>>})>>

group_remove_member == Join({})

group_grant_role ==
  <<group_by_id(1), InRealm(role_realm(2)), Join({<<"group", 1>>, <<"role", 2>>})>>

group_revoke_role == Join({})

group_members_of == Gather("members")

group_list == Query

group_roles_of == Query

get_group(i) == InRealm(group_by_id(i))

list_groups == Operation({"group:read"}, <<>>, <<Require, group_list>>)

create_group ==
  Operation({"group:write"}, <<"group">>, <<Require>> \o group_create \o <<Record>>)

create_subgroup ==
  Operation({"group:write"}, <<"group", "group">>, <<Require>> \o group_create_under \o <<Record>>)

move_group ==
  Operation({"group:write", "group:read"}, <<"group", "group">>,
            <<Require, get_group(1)>> \o group_move_under \o <<Record>>)

move_group_to_root ==
  Operation({"group:write", "group:read"}, <<"group">>,
            <<Require, get_group(1)>> \o group_move_to \o <<Record>>)

delete_group ==
  Operation({"group:write", "group:read"}, <<"group">>,
            <<Require, get_group(1), group_delete, Record>>)

add_group_member ==
  Operation({"group:write", "group:read"}, <<"group", "user">>,
            <<Require, get_group(1), InRealm(user_by_id(2))>> \o group_add_member \o <<Record>>)

remove_group_member ==
  Operation({"group:write", "group:read"}, <<"group", "user">>,
            <<Require, get_group(1), InRealm(user_by_id(2)), group_remove_member, Record>>)

grant_group_role ==
  Operation({"group:write", "role:write", "group:read"}, <<"group", "role">>,
            <<Require, get_group(1)>> \o group_grant_role \o <<Record>>)

(* Nothing looks the role up.                                              *)
revoke_group_role ==
  Operation({"group:write", "role:write", "group:read"}, <<"group", "role">>,
            <<Require, get_group(1), group_revoke_role, Record>>)

group_members ==
  Operation({"group:read"}, <<"group">>, <<Require, get_group(1), group_members_of, Each>>)

group_roles == Operation({"group:read"}, <<"group">>, <<Require, get_group(1), group_roles_of>>)

-----------------------------------------------------------------------------
(* Organizations.                                                          *)

organization_by_id(i) == Look("organization", i)

organization_create == <<Validate, Insert("organization", 1, {}, "conflict")>>

organization_set_enabled ==
  <<Change("organization", 1, "notFound", {}, {}), organization_by_id(1)>>

organization_delete == Delete("organization", 1, "notFound")

organization_set_member(i) ==
  <<organization_by_id(1), user_by_id(i), Join({<<"organization", 1>>, <<"user", i>>})>>

(* The last owner stays: the row of the organization is locked first.      *)
organization_remove_member == Change("organization", 1, "notFound", {}, {"refused"})

organization_members_of == <<Gather("members"), Each>>

(* The open invitation for the address is replaced.                        *)
organization_invite ==
  <<organization_by_id(1), Validate,
    Insert("invitation", 1, {<<"organization", 1>>, <<"user", 0>>}, "updated")>>

organization_revoke_invitation(i) == Delete("invitation", i, "notFound")

organization_list == Query

organization_invitations_of == Query

(* A link, which may be spent or expired, identifies the invitation, and   *)
(* the invitation its organization.                                        *)
organization_peek_invitation == <<Look("invitation", 1), Validated("notFound")>>

(* The link is spent before anything is asked of who presents it.          *)
organization_accept_invitation ==
  <<Change("invitation", 1, "unauthenticated", {<<"user", 0>>}, {"unauthenticated"}),
    InRealm(organization_by_id(1)), user_by_id(0)>> \o organization_set_member(0)

get_organization(i) == InRealm(organization_by_id(i))

list_organizations ==
  Operation({"organization:read"}, <<>>, <<Require, organization_list>>)

create_organization ==
  Operation({"organization:write"}, <<"organization">>,
            <<Require>> \o organization_create \o <<Record>>)

set_organization_enabled ==
  Operation({"organization:write", "organization:read"}, <<"organization">>,
            <<Require, get_organization(1)>> \o organization_set_enabled \o <<Record>>)

delete_organization ==
  Operation({"organization:write", "organization:read"}, <<"organization">>,
            <<Require, get_organization(1), organization_delete, Record>>)

organization_members ==
  Operation({"organization:read"}, <<"organization">>,
            <<Require, get_organization(1)>> \o organization_members_of)

set_organization_member ==
  Operation({"organization:write", "organization:read"}, <<"organization", "user">>,
            <<Require, get_organization(1), InRealm(user_by_id(2))>> \o organization_set_member(2)
              \o <<Record>>)

remove_organization_member ==
  Operation({"organization:write", "organization:read"}, <<"organization", "user">>,
            <<Require, get_organization(1), InRealm(user_by_id(2)), organization_remove_member,
              Record>>)

invite_to_organization ==
  Operation({"organization:write", "organization:read"}, <<"organization">>,
            <<Require, get_organization(1)>> \o organization_invite \o <<Record>>)

organization_invitations ==
  Operation({"organization:read"}, <<"organization">>,
            <<Require, get_organization(1), organization_invitations_of>>)

(* The invitation is looked for among those of the organization.           *)
revoke_organization_invitation ==
  Operation({"organization:write", "organization:read"}, <<"organization", "invitation">>,
            <<Require, get_organization(1), Look("invitation", 2),
              organization_revoke_invitation(2), Record>>)

(* Joining needs no permission.                                            *)
accept_organization_invitation ==
  Operation({}, <<"invitation">>, organization_accept_invitation \o <<Record>>)

(* The console adds up the members and invitations of each organization it *)
(* lists, by the operations above.                                         *)
console_organizations ==
  Operation({"organization:read"}, <<>>, <<Require, Gather("organizations"), Each>>)

-----------------------------------------------------------------------------
(* Identity providers and the upstream accounts linked to an account.      *)

provider_by_id(i) == Look("identity_provider", i)

provider_create ==
  <<Validate, Insert("identity_provider", 1, {}, "conflict")>>

provider_set_enabled ==
  <<Change("identity_provider", 1, "notFound", {}, {}), provider_by_id(1)>>

provider_delete == Delete("identity_provider", 1, "notFound")

(* The account is locked; its last way in stays.                           *)
provider_unlink == DeleteUnder("federated_identity", 2, "notFound", <<"user", 2>>, {"refused"})

link_count == Query

provider_list == Query

links_of == Query

get_identity_provider(i) == InRealm(provider_by_id(i))

list_identity_providers ==
  Operation({"identity_provider:read"}, <<>>, <<Require, provider_list>>)

create_identity_provider ==
  Operation({"identity_provider:write"}, <<"identity_provider">>,
            <<Require>> \o provider_create \o <<Record>>)

set_identity_provider_enabled ==
  Operation({"identity_provider:write", "identity_provider:read"}, <<"identity_provider">>,
            <<Require, get_identity_provider(1)>> \o provider_set_enabled \o <<Record>>)

delete_identity_provider ==
  Operation({"identity_provider:write", "identity_provider:read"}, <<"identity_provider">>,
            <<Require, get_identity_provider(1), link_count, provider_delete, Record>>)

identity_links ==
  Operation({"user:read"}, <<"user">>, <<Require, InRealm(user_by_id(1)), links_of>>)

unlink_identity ==
  Operation({"user:write"}, <<"identity_provider", "user">>,
            <<Require, InRealm(provider_by_id(1)), InRealm(user_by_id(2)), provider_unlink, Record>>)

-----------------------------------------------------------------------------
(* API tokens.  A token carries permissions of the actor who mints it:     *)
(* here user:read.                                                         *)

token_by_id(i) == Look("api_token", i)

token_mint ==
  <<Validate, Require, InRealm(user_by_id(1)),
    Insert("api_token", 1, {<<"user", 1>>, <<"user", 0>>}, "conflict")>>

token_list == Query

token_list_in_realm == Query

token_revoke == Change("api_token", 1, "notFound", {}, {})

mint_api_token ==
  Operation({"user:read"}, <<"user">>, token_mint \o <<user_by_id(1), Record>>)

list_api_tokens ==
  Operation({"user:read"}, <<"user">>, <<RequireUnlessOwn(1), InRealm(user_by_id(1)), token_list>>)

list_realm_api_tokens == Operation({"user:read"}, <<>>, <<Require, token_list_in_realm>>)

revoke_api_token ==
  Operation({"user:write"}, <<"api_token">>,
            <<InRealm(token_by_id(1)), RequireUnlessOwn(0), token_revoke, Record>>)

-----------------------------------------------------------------------------
(* OAuth clients (oauth/src/admin.rs), which are named by their client_id  *)
(* within the realm.                                                       *)

client_by_client_id(i) == Look("client", i)

client_register == <<Validate, Insert("client", 1, {}, "refused")>>

(* protocol_to_app makes a client that is gone a refusal.                  *)
client_update == <<Validate, Change("client", 1, "refused", {}, {})>>

(* A public client has no secret.                                          *)
client_rotate_secret == <<Validate, Change("client", 1, "notFound", {}, {})>>

client_list == Query

client_delete == Delete("client", 1, "notFound")

list_clients == Operation({"client:read"}, <<>>, <<Require, client_list>>)

get_client == Operation({"client:read"}, <<"client">>, <<Require, client_by_client_id(1)>>)

register_client ==
  Operation({"client:write"}, <<"client">>, <<Require>> \o client_register \o <<Record>>)

update_client ==
  Operation({"client:write"}, <<"client">>,
            <<Require, client_by_client_id(1)>> \o client_update \o <<Record>>)

rotate_secret ==
  Operation({"client:write"}, <<"client">>,
            <<Require, client_by_client_id(1)>> \o client_rotate_secret \o <<Record>>)

(* The REST API answers a rotation with the client, read again.            *)
rotate_client_secret ==
  Operation({"client:write", "client:read"}, <<"client">>,
            rotate_secret.steps \o <<client_by_client_id(1)>>)

delete_client == Operation({"client:write"}, <<"client">>, <<Require, client_delete, Record>>)

-----------------------------------------------------------------------------
(* The trail: a page of it, counted first, and its export.                 *)

list_audit == Operation({"audit:read"}, <<>>, <<Require, Count, Page>>)

export_audit == Operation({"audit:read"}, <<>>, <<Require, Query>>)
=============================================================================
