------------------------------- MODULE Handlers -------------------------------
(***************************************************************************)
(* The ways to the administrative operations: the handlers of the REST API *)
(* (server/src/api.rs), the server functions of the console                *)
(* (web/src/api.rs) and the commands of the command line                   *)
(* (server/src/cli.rs), each with what it carries out.                     *)
(*                                                                         *)
(* A handler's name stands for it in both; where the two differ, and where *)
(* one handler stands for two operations (an account enabled or disabled,  *)
(* a group with or without a parent), there is a name for each.            *)
(***************************************************************************)
EXTENDS Operations

(* One operation after the other.                                          *)
Then(a, b) == Operation(a.needs \cup b.needs, a.names \o b.names, a.steps \o b.steps)

(* Answered from the actor alone, from the session, or from nothing.       *)
whoami == Operation({}, <<>>, <<>>)

RestAccounts ==
  [csrf |-> whoami, whoami |-> whoami, list_permissions |-> whoami, get_realm |-> own_realm,
   list_users |-> Then(list_users, count_users), create_user |-> create_user,
   enable_user |-> enable_user, disable_user |-> disable_user, delete_user |-> delete_user]

RestRoles ==
  [list_roles |-> list_roles, create_role |-> create_role,
   set_role_permissions |-> set_role_permissions, grant_role |-> grant_role,
   revoke_role |-> revoke_role]

RestOrganizations ==
  [list_organizations |-> list_organizations, create_organization |-> create_organization,
   get_organization |-> Operation({"organization:read"}, <<"organization">>,
                                  <<Require, get_organization(1)>>),
   set_organization_enabled |-> set_organization_enabled,
   delete_organization |-> delete_organization,
   list_organization_members |-> organization_members,
   set_organization_member |-> set_organization_member]

RestMembers ==
  [remove_organization_member |-> remove_organization_member,
   list_organization_invitations |-> organization_invitations,
   invite_to_organization |-> invite_to_organization,
   revoke_organization_invitation |-> revoke_organization_invitation]

RestInvitations ==
  [accept_invitation |-> Operation(accept_organization_invitation.needs,
                                   accept_organization_invitation.names,
                                   <<user_by_id(0)>> \o accept_organization_invitation.steps)]

RestTokens ==
  [list_realm_api_tokens |-> list_realm_api_tokens, list_api_tokens |-> list_api_tokens,
   mint_api_token |-> mint_api_token, revoke_api_token |-> revoke_api_token]

RestProviders ==
  [list_identity_providers |-> list_identity_providers,
   create_identity_provider |-> create_identity_provider,
   get_identity_provider |-> Operation({"identity_provider:read"}, <<"identity_provider">>,
                                       <<Require, get_identity_provider(1)>>),
   set_identity_provider_enabled |-> set_identity_provider_enabled,
   delete_identity_provider |-> delete_identity_provider]

RestLinks == [list_identity_links |-> identity_links, unlink_identity |-> unlink_identity]

RestGroups ==
  [list_groups |-> list_groups, create_group |-> create_group, create_subgroup |-> create_subgroup,
   get_group |-> Operation({"group:read"}, <<"group">>, <<Require, get_group(1)>>),
   delete_group |-> delete_group, move_group |-> move_group,
   move_group_to_root |-> move_group_to_root, list_group_members |-> group_members]

RestGrants ==
  [add_group_member |-> add_group_member, remove_group_member |-> remove_group_member,
   list_group_roles |-> group_roles, grant_group_role |-> grant_group_role,
   revoke_group_role |-> revoke_group_role]

RestTrail == [list_audit |-> list_audit, export_audit |-> export_audit]

RestClients ==
  [list_clients |-> list_clients, get_client |-> get_client, register_client |-> register_client,
   update_client |-> update_client, delete_client |-> delete_client,
   rotate_client_secret |-> rotate_client_secret]

Rest == RestAccounts @@ RestRoles @@ RestOrganizations @@ RestMembers @@ RestInvitations
     @@ RestTokens @@ RestProviders @@ RestLinks @@ RestGroups @@ RestGrants @@ RestTrail @@ RestClients

(* The routes of the GET method, which no CSRF token protects.             *)
RestReads ==
  {"csrf", "whoami", "list_permissions", "get_realm", "list_users", "list_roles", "list_clients",
   "get_client", "list_realm_api_tokens", "list_api_tokens", "list_identity_providers",
   "get_identity_provider", "list_identity_links", "list_groups", "get_group",
   "list_group_members", "list_group_roles", "list_organizations", "get_organization",
   "list_organization_members", "list_organization_invitations", "list_audit", "export_audit"}

-----------------------------------------------------------------------------
(* The console lists organizations with how many members and invitations   *)
(* each has, groups and providers with rows that are no more looked up.    *)

ConsoleAccounts ==
  [list_users |-> Then(list_users, count_users), create_user |-> create_user,
   enable_user |-> enable_user, disable_user |-> disable_user, delete_user |-> delete_user,
   list_roles |-> list_roles]

ConsoleTrail == [list_audit |-> list_audit]

ConsoleGroups ==
  [console_groups |-> Operation(list_groups.needs, <<>>, list_groups.steps \o <<Query, Query>>),
   create_group |-> create_group, create_subgroup |-> create_subgroup,
   delete_group |-> delete_group]

ConsoleOrganizations ==
  [console_organizations |-> console_organizations, create_organization |-> create_organization,
   set_organization_enabled |-> set_organization_enabled,
   delete_organization |-> delete_organization]

ConsoleProviders ==
  [console_providers |-> Operation(list_identity_providers.needs, <<>>,
                                   list_identity_providers.steps \o <<link_count>>),
   set_identity_provider_enabled |-> set_identity_provider_enabled,
   delete_identity_provider |-> delete_identity_provider]

ConsoleClients ==
  [list_clients |-> list_clients, register_client |-> register_client,
   console_rotate |-> rotate_secret, delete_client |-> delete_client]

Console == ConsoleAccounts @@ ConsoleTrail @@ ConsoleGroups @@ ConsoleOrganizations
        @@ ConsoleProviders @@ ConsoleClients

-----------------------------------------------------------------------------
(* What is open to anyone: the schema, what an invitation is to, the       *)
(* buttons of the login page, and the registration of a client             *)
(* (server/src/oidc.rs), which is switched off unless configured and makes *)
(* up the client_id.                                                       *)

OpenInvitations ==
  [peek_invitation |-> Operation({}, <<"invitation">>,
                                 organization_peek_invitation \o <<organization_by_id(1)>>)]

OpenRegistration ==
  [register |-> Operation({}, <<"client">>, <<Validate, realm_by_name>> \o client_register)]

OpenLogin == [sign_in_providers |-> Operation({}, <<>>, <<realm_by_name, provider_list>>)]

Open == [openapi |-> whoami] @@ OpenInvitations @@ OpenRegistration @@ OpenLogin

-----------------------------------------------------------------------------
(* The first administrator of a realm (which is there), and a client.      *)

CommandSeed ==
  [seed |-> Operation({}, <<"user", "role">>,
                      <<realm_by_name>> \o user_create(1)
                        \o <<role_ensure(2), Join({<<"role", 2>>}), role_grant(1, 2)>>)]

CommandClient ==
  [register_by_command |-> Operation({}, <<"client">>, <<realm_by_name>> \o client_register)]

Command == CommandSeed @@ CommandClient

Handler == Rest @@ Console @@ Open @@ Command
=============================================================================
