# authenc: models, checks and proofs

authenc is an identity provider: it signs people in with passwords, one-time
codes and passkeys, issues OAuth 2.0 / OpenID Connect tokens, and is
administered through a REST API and a web interface. It is one Rust process (or
several) in front of one PostgreSQL database. All durable state is in tables;
the process keeps nothing between requests that a decision depends on. A handler
is a straight line of `await`ed SQL statements, and with few exceptions those
statements are **not** in a transaction: each is atomic by itself, and
statements of concurrent requests interleave in any order. That, the crash or
cancellation of a handler between two statements, and the database clock passing
an expiry in between are where this program can go wrong, and they are what the
modules here are about.

Conventions of all modules: one action per SQL statement (or per transaction,
where the code opens one and takes the locks that make it atomic); a request is
a record with a program counter `at` and the locals the handler carries from one
`await` to the next; `Abort` ends a request between any two statements; a table
is a sequence indexed by id, a function, or a set of rows; `now` is the database
clock (`now()` in the SQL), one tick at a time. Secrets are the ids of their rows:
hashing is injective and nobody guesses 256 bits. History variables are commented
as such and never read by a guard that stands for code.

## Inventory

| Component | Source (under `src/crates`) | State | Operations | What is hard |
| --- | --- | --- | --- | --- |
| authorization codes | `oauth/src/code.rs` | `authorization_codes` | issue, redeem (claim, then check), replay lookup, purge | two redemptions at once; a replay racing the first mint |
| refresh tokens | `oauth/src/refresh.rs` | `refresh_tokens` (family, `used_at`, `revoked_at`, `replaced_by`) | mint, rotate, detect reuse, revoke family / token, introspect, purge | rotation is four statements; reuse detection races the successor's INSERT |
| token endpoint | `server/src/oidc.rs`, `oauth/src/grant.rs`, `scope.rs` | none of its own | code grant, refresh grant | account state re-read late or not at all |
| password login | `identity/src/login.rs`, `user.rs`, `password.rs` | `users`, `user_passwords`, `login_attempts` | authenticate, lockout, rehash, record | count before, record after; rehash from a stale read |
| sessions | `identity/src/session.rs`, `web/src/server_ctx.rs` | `sessions` | create, lookup, revoke, revoke all, purge | logins in flight while sessions are revoked |
| credential recovery | `identity/src/recovery.rs` | `password_reset_tokens`, `email_verification_tokens` | request, complete | order of password, revocation, failures; crash in between |
| MFA challenges | `identity/src/mfa/{mod,challenge}.rs` | `mfa_challenges` | issue, lookup, record failure, consume, purge | budget checked before, charged after |
| TOTP | `identity/src/mfa/totp.rs` | `totp_credentials` | begin, confirm, verify, disable | last accepted step is a compare-and-set in one place and a plain write in another |
| recovery codes | `identity/src/mfa/recovery.rs` | `recovery_codes` | generate (transaction), claim | two generations at once |
| passkeys | `identity/src/mfa/passkey.rs` | `passkeys`, `webauthn_ceremonies` | register, authenticate, remove, purge | read-modify-write of the counter; ceremony state older than the row |
| organizations | `identity/src/organization.rs` | `organizations`, `organization_members`, `organization_invitations` | membership, invitations, suspension | the last owner; one invitation, two acceptances |
| accounts, roles, permissions | `identity/src/{admin,user,role}.rs`, `contract/src/{permission,model}.rs` | `users`, `roles`, `role_permissions`, `user_roles` | create, disable, delete, grant, revoke, replace a role's permissions (transaction), resolve | permissions are read once, the operation runs on them later |
| groups | `identity/src/group.rs`, `migrations/0007` | `groups`, `group_members`, `group_roles` | create, move, delete, membership, roles of a group | cycle check on a statement snapshot |
| signing keys | `oauth/src/keyring.rs` | `signing_keys` | active (load or create), rotate (transaction), jwks, verify, purge | two first requests at once; rotation against tokens being signed |
| authorization endpoint, consent, clients | `server/src/oidc.rs`, `oauth/src/{consent,client}.rs` | `oauth_clients`, `oauth_consents`, `authorization_codes` | authorize, approve, register, update, rotate the secret, delete | the consent, the client, the session or the account changes while the page is open |
| API tokens | `identity/src/api_token.rs` | `api_tokens` | mint, authenticate, revoke, purge | authority as an intersection at use |
| federation, social login | `identity/src/federation.rs`, `oauth/src/social.rs`, `server/src/federation.rs` | `identity_providers`, `federated_identities`, `federation_login_states` | start, callback, link, unlink, delete, purge | single-use state bound to a browser; two first sign-ins at once; the last way in |
| LDAP | `identity/src/directory.rs` | `ldap_directories` | configure, authenticate | nothing refers to this module |
| REST API, web interface, command line | `server/src/{api,auth,cli}.rs`, `web/src/api.rs` | none of their own | one handler per operation above | authentication of a request is three statements; what an operation is about is deleted under it |
| audit log | `identity/src/audit.rs`, `web/src/pages/audit.rs` | `audit_events` | record, count, list, walk through the pages, purge | recorded after the change, for an account that may be gone; paging by offset while events arrive |
| configuration, mail, pages, discovery | the rest | | | straight-line I/O |

Interactions. The web interface calls `login::authenticate`, which reads
accounts, organizations and enrolments and ends in a session or in a challenge;
`login::second_factor` and the passkey ceremony answer the challenge and share
`open_session`. A session is what the authorization endpoint asks for before it
issues a code; the code is what the token endpoint exchanges, for tokens that the
realm's active key signs. The REST API and the console reach the same functions of
`admin.rs`, each after reading the session (or the API token), the account and its
permissions from the database. `admin.rs` wraps every administrative change with a permission check and an audit event, and is
where one component's change must reach another (disabling an account ends its
sessions). `cli.rs purge` deletes expired rows of every table.

## Modules

| Module | Models | |
| --- | --- | --- |
| `GrantFamily` | what one authorization promises: unissued, code, exchange, token, …, ended; one credential at a time, no revival | abstract specification |
| `TokenGrant` | codes, refresh tokens and the token endpoint, statement by statement | implements `GrantFamily` |
| `TokenReplay` | `TokenGrant` with a history of revocations that answered a replay | the documented promises the interleaving breaks |
| `SecondFactor` | login after the password: challenges, TOTP enrolment and verification, recovery codes | |
| `SignIn` | password login, lockout, rehash, sessions, reset, disabling, suspension | |
| `Passkey` | registration and authentication ceremonies, the signature counter, removal | |
| `Organization` | membership under its lock, invitations, the last owner, deletion | |
| `Federation` | social login: state and cookie, links, adoption, provisioning, unlinking | |
| `Server` | the realms and the requests, for the three below | constants only |
| `Access` | a request's credential and permissions; accounts, roles, groups, API tokens and what an administrator does to them | |
| `Authorization` | the authorization endpoint, the consent page and record, the client registry | its codes are `TokenGrant`'s |
| `Keyring` | signing keys, rotation, tokens in flight, verification, purge | states fairness |
| `Operations` | the administrative operations, each as the sequence of its statements | used by `Handlers` |
| `Handlers` | the REST handlers, the console's server functions, what is open to anyone, two commands: which operation each carries out | used by `Administration` |
| `HandlerTable` | what the sequences of statements have in common: what is looked up before it is referred to, that a change is followed by its record, … | stated of every handler, evaluated by TLC |
| `Administration` | those operations under way beside each other, what they answer, the audit log and its pages | |
| `MC…` | the same on small instances | TLC |
| `TokenGrantProofs`, `AuthorizationProofs`, `SignInProofs`, `SecondFactorProofs`, `PasskeyProofs`, `OrganizationProofs`, `FederationProofs` | theorems about these components, each beside its module | TLAPS |
| `RealmProofs` | theorems about the three components that administer a realm, `Access`, `Keyring` and `Administration` | TLAPS |

`Access`, `Keyring` and `Administration` have no variable in common and are not composed; one proof module extends
all three, so their names are apart: `KeyringInit`, `AdministrationSpec`, `KeyringTypeOK` and so on.

### TokenGrant

`codes` and `tokens` are the two tables in insertion order, `account` is
`users.enabled` (or deleted, with the cascade of the foreign keys), `clients`
the registered clients. A code's id is the id of its family, as in
`code::redeem`. `RedeemGranted`/`RedeemRefused`/`RedeemMissed` are the claiming UPDATE
with the three things that follow without another statement (the client, URI and
PKCE checks come *after* the claim, so a wrong verifier burns the code);
`CheckReplay` is the SELECT after a missed claim and `RevokeFamily` the UPDATE
that answers a replay. `RotateClaim`, `MintSuccessor`, `Link`, `CheckAccount` and
`Reply` are `refresh::rotate` and the rest of `refresh_grant`, in the order of the
code: the successor is stored before the account is looked at. Cascades, single
revocation, purge in its two statements and the clock run beside them.
`Usable` is `introspect`'s condition. `sent` says a secret has left in a
response; only sent tokens can be presented.

### SecondFactor

`totp[u]` is the row of `totp_credentials`, `recovery[u]` the unspent codes of a
user, `challenges` and `sessions` tables. The constant `CodeAt` is the table of
digits that a secret shows at a step of the clock, so that equal digits at two
steps (which `verify_code` resolves to the earliest that is not spent) can be explored. Verification is `Present`
(lookup), `VerifyTotp` (read and compare), `ClaimStep` (the conditional UPDATE),
`Consume`, `OpenSession`; `RecordFailure` is the other branch. Enrolment,
confirmation, regeneration (its DELETE and its INSERT apart, because under READ
COMMITTED the DELETE sees its own snapshot) and removal come from the settings
page of a signed-in user, and both requests may be there at once. `confirm` writes the step it
matched by the row's id alone, so of two confirmations of one secret the slower may lower
`last_step` again: `twice` remembers those secrets and `Lowered` excepts them.

### SignIn

`authenticate` is `Attempt`, `CountByIdentifier`, `CountByAddress`,
`ReadAccount` (the row and the verification of the password read from it),
`CheckOrganization`, `Rehash`, `FinishLogin`, or `RecordFailure`. A reset is
`ClaimReset`, `SetPassword`, `RevokeSessions`, `ClearFailures`; disabling is
`Disable`, `RevokeSessions`. The second factor is one action, `AnswerChallenge`, because
`SecondFactor` has the rest of it. `attempts` is the set of rows of `login_attempts`, which the two
counts of the lockout read within their window. `ended[u]` counts revocations and a login remembers
the count it saw when it read the account: that tells sessions opened by logins
from before a revocation from the others.

### Passkey

`passkeys[k]` is the row of a credential (id, owner, counter), `ceremonies` and
`challenges` tables; a ceremony stores the counters of its user's keys at its
beginning, as `webauthn-rs` state does. `Sign` is the authenticator: it counts and
produces an assertion that can be presented in any request, to any challenge, any
number of times; two `Device`s may hold one `Key` (a cloned authenticator). `Verifies`
stands for the library. `ClaimCeremony` is `claim_ceremony` plus verification,
`Reread` and `StoreCounter` the SELECT and the UPDATE around `update_credential`.

### Organization

`members[o][u]` is the role of a row of `organization_members`, `invitations` the
table of links. `remove_member` is one transaction, `LockOrganization`,
`CountOwners`, `ReadRole`, `DeleteMember`, and holds `FOR UPDATE` on the
organisation's row throughout. What waits for that lock is another removal, the
deletion of the organisation, and any INSERT that refers to it by its foreign key
(a new member, a new invitation). What does not wait is a role written over an
existing one. `invite` is `DeleteOpen` and `InsertInvitation` under the unique
index of open invitations; accepting is `ClaimInvitation` and `Admit`, two
statements outside a transaction. Deleting a user or an organisation cascades as
the foreign keys do. `origin` remembers the invitation behind a membership and
`overridden` the organisations whose owners changed beside the lock.

### Federation

`states` is `federation_login_states`, `cookie[b]` the state whose cookie a browser holds, `links`
the rows of `federated_identities`. A callback is `ClaimState` (the cookie and the URL agree, one
conditional UPDATE), `LoadProvider`, `FindLink` (the exchange with the upstream, whose answer is
any account, address and verification, and the lookup of a link), then `ReadAccount`, or
`FindByEmail` and `LinkUser`, or `Provision` and `LinkUser`, and `Open`: separate statements
throughout. `unlink` is a transaction under `FOR UPDATE` on the user's row, `LockUser`,
`CountLinks`, `DeleteLink`; a change of that row and an INSERT that refers to it wait, the
deletion of a provider with its links does not. `stranded` remembers who lost a link that way or
was left by a provisioning that stopped before its link. `Open` stands for a session or a
challenge; what follows is in `SecondFactor` and `SignIn`.

### Access

A request starts with `PresentSession` or `PresentToken` (the row is live now), reads the account
(`ReadAccount`), then its permissions (`ReadPermissions`: the roles of the user, of its groups and
of everything above them; for a token intersected with what it was minted with), and carries out one
operation on what those reads said. All of that may be out of date by then; `since[r]` records what
has been true of the credential, the account and the permissions at some time since the request
arrived, which is as much as the code can promise. The set `since[r].held` has every permission held at some
time; `ChangesNeedAuthority` asks that each permission a change needs is covered by it. An operation is one step with the reads of its
targets, for a target's realm never changes and a foreign key finds out whether it exists; three
are more: disabling is an UPDATE and the revocation of sessions; `role::set_permissions` is a
transaction whose inserts lock rows of `permissions` (`Blocked`) and whose DELETE sees what is
committed (`BeginSet`, `InsertPermission`, `WithdrawPermissions`, `CommitSet`); a move asks the
trigger (`StartMove`) before its own UPDATE is visible (`CommitMove`), so `raced` remembers groups
that were moved at once. `ManageAccounts` and `ManageGroups` are what the console offers too,
`OperateOn…` is the API's alone.

### Authorization

`Authorize` and `Approve` are GET and POST of the endpoint; `ReadSession`, `ReadAccount`,
`CheckConsent`, `RecordConsent` and `IssueCode` their statements. `pages[b]` is the consent page a
browser has open, with the client and the scopes it listed and the session whose token is in
its form; `Login` replaces the browser's session underneath it. A client has a number of its own
(`key`, the row's id) apart from its `client_id`, so that one deleted and registered again
is another. `Read` and `Write` are the two statements of `admin::update` and
`rotate_secret`, between which the row may change. A code is only recorded: `TokenGrant` has the rest.

### Keyring

`keys` is `signing_keys`; a purged row keeps its position. A request loads the active key or
creates one under the unique index, signs the access token and perhaps, later, an id token, or
publishes the JWKS document. A rotation is an open transaction (`BeginRotation`, `Retire`,
`CommitRotation`, `RollBack`): what it retired is locked but still active for everyone else, and
its deadline counts from its BEGIN because `now()` does. `tokens` are the tokens not yet expired.

### Operations, Handlers, Administration

The other modules say what an operation does to its tables; these say, for all of them, in which
order the statements come, what each may answer, and where the event is recorded.
`Operations` has a definition for every function of `admin.rs` (and of `oauth/src/admin.rs`), a
sequence of statements: `Require`, `Look` (a row that must be there, `InRealm` if in the actor's
realm), `Insert`, `Join`, `Change`, `Delete`, `Record`, and so on, where a function of a table
(`group_move_to`, `token_mint`, …) is a statement or a short sequence of its own. `Handlers` maps each
handler of the API, each server function of the console, each handler that is open to anyone and the
commands `seed` and `register` to operations; `RestReads` are the routes a session needs no CSRF token
for. `Administration` interprets the statements one at a time: `present` is the set of rows there are, by kind
and identifier, `calls` the requests with their place in their sequence. `Find` is the look-up,
`InsertRow`, `JoinRows`, `ChangeRow`, `RemoveRow` the writes with their foreign keys and cascades,
`RecordEvent` the event (`audit::observe`: nothing happens if the INSERT fails), `CountEvents` and
`ReadPage` the two queries of a page of the trail and `Older` the button that asks for the next
one. `whole` says that every row a call looks for, changes or removes was there, in the realm and within
the named organization or provider, when it arrived: only then can a later "not found" be blamed on a race.
An identifier that a call creates is new to the table and to every other call in progress, except for roles and
clients, which are known by names the callers choose. Values are left out: a test that may refuse them (`Validate`) may answer either way.

## Runs

Every passing run is exhaustive within its bounds.

| Run | Question | Result |
| --- | --- | --- |
| `TokenGrant_family` | two requests of two clients over one code and three tokens, with narrowed scopes, the clock, purge, accounts disabled and deleted: can both end with usable tokens? does an expiry or a purge revive a family or hide a replay, does a token change hands? | `OneUsableToken`, `SuccessorChain`, `Lineage`, `SpentStaysDetectable`, `QuietRevocationEnds`, `RefreshNeedsEnabledAccount` hold; `ImplementsFamily`: the tables implement `GrantFamily` |
| `SecondFactor_login` | enrolment, confirmation, removal, recovery codes and logins at once: does every session rest on one proof, spent once? how far is the budget of guesses overrun? | `ProofOpensOneSession`, `SpentStepsStaySpent` hold; `FailuresBounded`: by the answers in flight |
| `SignIn_login` | concurrent guesses, resets and disablings against logins in flight, with and without a second factor in between: how far is the lockout overrun, which logins survive? | `LockoutBounded`: by the requests in flight; `RevocationsHold`: only logins that had read the account before |
| `Passkey_login` | two accounts, cloned keys, two requests: what does a session rest on, when can a counter fall? | `SessionsProven` (one session per ceremony, behind an assertion of its own), `FallsOnlyWhenOvertaken` hold |
| `Organization_members` | removals, invitations and administrators at once, in two realms | `LastOwnerStays`, `SeatBehindLink` hold |
| `Federation_signin` | two social logins or unlinks at once, at a provider that adopts, one that provisions and one to be created, while accounts and providers come and go | `SignInBehindState`, `LinksHold` (one account per upstream account, linked on a verified address), `LastWayInStays` hold |
| `Access_admin` | two requests change accounts, roles, groups and tokens between each other's reads and writes: does anything change on an authority that had gone before the request came, or across realms? | `ChangesNeedAuthority` holds; `CyclesNeedTwoMoves`: the tree breaks only by two moves at once |
| `Authorization_codes` | two authorization requests, a consent page, changes of session, client and account in between: what is recorded, who gets a code? | `CodesEarned` (an approval behind every code, of an account that could give it), `RecordedWasShown`, `ChangesReachTheirClient` hold |
| `Keyring_rotation` | two rotations, requests that sign with a key loaded before, crashes, the purge, in two realms | `OneSigner`, `TokensVerify` hold, and the liveness property `RetiredKeysGo` |
| `Administration_calls` | any handler, statement by statement, beside one that deletes what it is about or that pages through the trail: does an answer say what happened, does the trail, can a reader of the trail miss an event? | `AnswersFit` (another realm's rows are not there; failures need a race; a call nobody meant changes nothing), `TrailFits`, `WalkSkipsNothing` hold, each with the exceptions its comment names |

The other runs state what a document or comment of the repository says and end in a
counterexample. Each has an entry under `findings` in `PROJECT.json` that quotes the
line.

| Run | What the documentation says | What happens |
| --- | --- | --- |
| `TokenReplay_family` | a replayed token or code costs both holders their access | the replay arrives between claim and mint; the successor is minted after the revocation and lives |
| `SignIn_rehash` | after a reset the old password is worthless | a login in flight writes the old password back as a rehash |

Other differences between the code and what a document or comment says are in the
models, where a property names the exception or no property is stated:

- `docs/security-model.md` says account state is "re-checked on every use": a code redeemed after
  its account was disabled still yields tokens, since `authorization_code_grant` goes from `redeem`
  to `grant::issue` without reading the account. `RefreshNeedsEnabledAccount` is about refresh tokens only;
- `SECURITY.md` says replay of a one-time code is refused: of two confirmations of one secret the
  slower writes its earlier step over the later (`totp.rs`, `confirm`), and the later code is accepted
  once more (`SpentStepsStaySpent` and `ProofOpensOneSession` except `Lowered`);
- `migrations/0007_groups.sql` puts the rule against cycles where "nothing can route around it": each
  of two concurrent moves is checked on a tree without the other, and `path_of` then never ends for
  the groups concerned (`CyclesNeedTwoMoves` excepts groups moved at once);
- `README.md` says "the approved set is what gets recorded": with no scope parameter the POST resolves
  the scopes again, so a client widened or replaced while the page is open has more
  recorded than was listed (`RecordedWasShown` excepts `Overtaken` requests);
- replacing a role's permissions withdraws "anything the role holds and this set does not": two
  replacements at once leave the union of their sets;
- `cli.rs` says of API tokens that "revoked tokens are kept": the purge deletes a revoked one too
  once it has expired;
- `web/src/api.rs` says of `disable_totp` that every other session is revoked: it revokes none;
- `README.md` says that "every administrative change records": enabling or disabling an account
  (`admin.rs`, `set_user_enabled`) records nothing, and `Action::UserUpdated`, which exists for it, is
  never constructed; nor do the commands `seed` and `register` or the open registration of a client
  (`Unrecorded`). An invitation of another realm is spent before its realm is looked at and
  the refusal is recorded nowhere (`Burnt`). A change by an account that is deleted before it is recorded is not
  recorded either (`TrailFits` excepts `Raced` calls);
- the trail may say more than happened: the second of two deletions of one account is recorded too,
  and so is the revocation of a group's role that it never had (not even that it is a role is looked up);
- `rotate_client_secret` looks its client up once more after the rotation: if it was deleted meanwhile
  the answer is 404, though the secret was rotated and that is recorded; of a list whose rows are read one by one
  (`group_members`, `organization::members`, the console's organisations) one deletion makes a 404 of the whole;
- the audit page counts before it lists: an event that lands in between makes the last page seem the last
  although one more event has moved beyond it (`WalkSkipsNothing` excepts walks where one `landed`);
- of two first requests of a realm that both create its key one ends in an error, after its
  authorization code was claimed; the code is spent.

Some passing properties are deliberately weaker than what a document says, and
the difference is a behaviour of the code:

- a challenge "dies" at five wrong answers: answers in flight when the fifth is
  recorded are still checked (`FailuresBounded` counts them);
- regenerating recovery codes deletes "every existing code": two regenerations at
  once keep each other's, since each DELETE sees its own snapshot;
- a reset ends "every session": a login that read the old password before the
  revocation opens its session after it (`RevocationsHold` excepts the
  logins that had read the account by then), and a pending challenge of a disabled account
  still opens a session (likewise);
- a passkey's new counter is "persisted on every assertion" and one that goes
  backwards is refused: of two overlapping ceremonies the lower counter may be
  written last, and the comparison is with the counter at the ceremony's
  beginning (`FallsOnlyWhenOvertaken` says when);
- disabling an account "revokes refresh tokens": `revoke_all_for_user` has no caller
  outside tests, so they remain and are refused on use
  (`RefreshNeedsEnabledAccount`);
- a removal counts owners under its lock, and an owner demoted between the count
  and the DELETE is not noticed; `ROADMAP.md` says "an organisation must keep at least
  one owner", but `set_member` overwrites the role of the only owner, and deleting an account
  takes its memberships along, without that check (`LastOwnerStays` excepts `overridden`
  organisations);
- unlinking refuses the last way in; deleting a provider does not, as its comment says, and a
  provisioning that stops before its link leaves an account without one, whose address a later
  sign-in through a provider that does not adopt cannot use (`LastWayInStays` excepts `stranded` accounts).

### Bounds

Bounds are the `Max…` constants, enforced in the guards, so that the state space is
finite and no property is cut off by a constraint. Two concurrent
requests are enough: they only ever race for one row at a time, and what a third party does to that
row (a revocation, a removal, an administrator's change, expiry, purge) is an action that needs no
request. `SignIn_rehash` has three, because its counterexample is one login between
two requests of a reset; three tokens give a chain with a middle. Lifetimes are one or
two ticks against a clock of a few: enough for a row to be fresh, at its boundary,
expired and purged. Budgets of five and ten attempts are one or two: the
properties relate the count to the constant. The digits an authenticator shows
alternate with the step (`RepeatingCodes`), so that equal codes at two steps occur; three sessions
are needed before two can rest on one proof, since the first is the one that enrols.
Some counters are bounded together, so that one instance has many of one thing or some of
each: `SignIn_login` has three events (attempts, resets, disablings and the like) in all,
`Federation_signin` two that are each a change or a tick, `Authorization_codes` four that are requests,
ends of sessions or changes, `Access_admin` three operations. `Organization` has three users,
one of another realm, two invitations and one change by an administrator. `Federation` has two states, so two
sign-ins, and two addresses. `Access` has one API token that reads users or changes them, two groups, three roles (one of another
realm, one to be created) and three accounts (one to be created), and its two requests may both be the
manager's. `Administration` has one call of any handler by one account, and beside it one by another that
deletes an account, a group, an organisation, a provider, a client or an invitation, or walks through the trail; of
each kind there are two rows in the realm (two, so that an invitation or a link may be sought under the wrong
organization or provider), one in another, one to be created and one that never was, two accounts
(a third to be created), three sets of permissions (none, to see everything, to change everything), two earlier
events, pages of one and one purge. Two calls are enough because an answer is about the rows
of its own call, and what matters of any other is what that deletes or records. `Keyring` has `RetireAfter` = `Lifetime` + `Timeout` + `Patience`, the tightest
its assumption allows (the command's default is 48 hours against 15 minutes and 30 seconds), and
six ticks, two for what comes before a rotation and the rest for its key to go. `Patience`, how long a
rotation stays open, is an assumption about the environment: the command has no timeout of its own.
Requests and, where nothing tells them apart, users are interchangeable model values and are
declared symmetric; no run with symmetry checks liveness.

All runs but `Keyring_rotation` set `CHECK_DEADLOCK FALSE` because an idle server with its bounds used up and
its clock stopped really stops.

### Fairness

`Keyring` alone states fairness: weak fairness of each request's own steps (`TimeoutLayer` in
`http.rs` ends every request after 30 seconds, so it is answered or aborted), of each rotation's (it
commits, or its connection is closed and it rolls back), of the purge and of the clock. Nothing
in the process runs the purge: it is a command (`cli.rs`, "Safe to run on a timer"), and that an operator
runs it again and again is an assumption. Asking for a token and rotating a key are not fair:
nobody has to. Under this `RetiredKeysGo` says that every retired key is purged in the end. Without the purge being fair it
does not hold, and nothing else in the program would make it hold. The run has no symmetry.

All other properties are safety properties and hold for a server that may stop at any point. The
violated action property needs no fairness either: its counterexample ends in the bad step.

## Proofs

Every safety invariant and every action property that a passing run checks
is proved as a theorem of the specification, for any number of users, clients, realms, rows, requests and
ticks. Each `…Proofs` module begins with its inductive invariant, `IInv` (in `RealmProofs`: `AccessInv`,
`KeyringInv`, `AdministrationInv`), in named parts; then one
lemma per action that it preserves it, the lemmas on tables those need (a row appended, a row changed in place,
a step that only moves a request), the invariance, and the theorems. Each
of these invariants was checked by TLC on the component's run before it was proved.

| Module | Theorem | Property |
| --- | --- | --- |
| `TokenGrantProofs` | `Typing`, `AtMostOneUsable`, `Descent`, `SpentTokensChained`, `SpentRowsStay` | `TypeOK`, `OneUsableToken`, `Lineage`, `SuccessorChain`, `SpentStaysDetectable` |
| | `FamiliesImplemented` | `ImplementsFamily`: the tables implement `GrantFamily` |
| | `RefreshesAdmitted`, `QuietRevocations` | the action properties `RefreshNeedsEnabledAccount`, `QuietRevocationEnds` |
| `AuthorizationProofs` | `Typing`, `CodesAreEarned` | `TypeOK`, `CodesEarned` |
| | `RecordsWereShown`, `ChangesAreAimed` | the action properties `RecordedWasShown`, `ChangesReachTheirClient` |
| `SignInProofs` | `Typing`, `RevocationsReach`, `LockoutHolds` | `TypeOK`, `RevocationsHold`, `LockoutBounded` |
| `SecondFactorProofs` | `Typing`, `ProofsOpenOneSession`, `SpentSteps`, `BudgetHolds` | `TypeOK`, `ProofOpensOneSession`, `SpentStepsStaySpent`, `FailuresBounded` |
| `PasskeyProofs` | `Typing`, `SessionsAreProven` | `TypeOK`, `SessionsProven` |
| | `CountersRise` | the action property `FallsOnlyWhenOvertaken` |
| `OrganizationProofs` | `Typing`, `LinksAdmitTheirOwn` | `TypeOK`, `SeatBehindLink` |
| | `OwnersStay` | the action property `LastOwnerStays` |
| `FederationProofs` | `Typing`, `StatesOpenOneSignIn`, `LinksLeadHome`, `WaysInStay` | `TypeOK`, `SignInBehindState`, `LinksHold`, `LastWayInStays` |
| `RealmProofs` (Access) | `Typing`, `CyclesNeedRaces` | `TypeOK`, `CyclesNeedTwoMoves` |
| | `ChangesAreAuthorised` | the action property `ChangesNeedAuthority` |
| `RealmProofs` (Keyring) | `KeyringTyping`, `RealmHasOneSigner`, `TokensStayValid` | `KeyringTypeOK`, `OneSigner`, `TokensVerify` |
| `RealmProofs` (Administration) | `AdministrationTyping`, `AnswersAreFit`, `TrailIsFit`, `WalkIsComplete` | `AdministrationTypeOK`, `AnswersFit`, `TrailFits`, `WalkSkipsNothing` |

What the inductive invariants add, and why:

- **TokenGrant.** A state with one usable token and a request about to mint a second satisfies
  `OneUsableToken`, so requests count as credentials: `OneCredential` says that a
  family has at most one unspent token *or* one request that has spent the family's credential and not
  stored the next (`Pending`), never two and never both. `RequestsWellFormed` ties a request's locals to
  the rows they name (a pending request's code is spent, its token is of its family), without which a claim
  in another family could not be told apart; `Lineage` needs it since `MintSuccessor` copies from
  the request. The refinement reads the phase of a family off those counts: `PhaseFact` is what each
  phase says of the rows, `TablesKept` what no step does to them (flags that are up stay up), and `Holds`
  that a family is only taken by a request that found it alive. The chain of successors needs `Links`: between
  the two writes of a rotation the row it minted has no predecessor and belongs to that rotation alone.
  `Retention` says that rows leave because of their age or their owner, never because they are spent;
  `Admission` that a refresh past the look at the account remembers that it was enabled;
  `Revokers` that who is about to take a family down has seen it spent.
- **Keyring.** A commit retires one key and adds another; it keeps `OneSigner` only if the
  key it retires is the one that signs. `Exclusive` says that an open rotation holds its realm's active key and no other holds that one (the row lock and the
  partial unique index). `TokensVerify` speaks of tokens that exist; `Outlives` speaks of those that
  a request with a key in its hand may still sign: the key verifies until that request's
  beginning + `Timeout` + `Lifetime`. With `InTime` (nobody works longer than its timeout) this is
  where `RetireAfter >= Lifetime + Timeout + Patience` is needed. `Fits` shows that the bound on rows never stops a
  rotation that has begun.
- **Access.** `Standing` ties what a request carries to what was seen since it arrived: its account was enabled once it
  has read it, its permissions are among `since[r].held` once it has read those, and until then a token's are what it was
  minted with. `Begun` keeps what the operations of more than one step were begun with: a transaction on a role's permissions
  still has the permission and the role of its realm, a move its groups. With both, the action property
  follows operation by operation (`Needed`, `Authorised`). For cycles, `MovesFit` says that a move that no other
  overlapped is still one the trigger would allow; the rest is about paths of any length. `Ancestry` is a recursive
  function, so what it computes would be an induction over data; the proof goes round that: `LeastNatural` (a set of
  numbers has a least member, from the well-foundedness of `<` stated of sets) gives that the ancestry is the least set that has the groups and,
  with a group, its parent, and everything after uses only that closure. A cycle made by one move then
  goes through the group that moved, which the trigger had not found above its new parent (`CyclesNeedRaces`), or
  was one before.
- **Administration.** The sequences of statements are data; the proof is by what they have in common. `Known` says that every row
  which the statements passed so far have established (`Settled`: found, inserted, changed, the actor's own) is there or was
  deleted, so a foreign key that fails now means a race, and `Whole` the same for what was there on arrival. `Asked` says who lacks a
  permission has not come past the statement that asks for it, `KeptOut` that a row of another realm keeps the call before its
  first look at it (`Ward`). For the trail, `Followed` has a change's record still ahead until it is recorded, and `Earned`
  that a statement passed that should have changed something has, or its row was deleted (`RowGone`), with `Fresh` (no two
  calls create a group with one identifier, and none that ever was) since a group that comes back would look like one never deleted.
  The walk has an invariant of its own on top, `WalkInv`: all due that is among the `offset` newest events, or after a page the `offset + PageSize` newest, has been
  seen; events only ever move away from the newest, so recording and purging keep it. The total counted
  before a page is not too small unless an event `landed`, and a page shows at most `PageSize`, so at the end nothing is left out.
- **Authorization.** `Earned` says what a request has established by the statement where it stands: a
  consent recorded for this registration, an account seen enabled and of the client's realm, scopes resolved from the page
  it came from. `KeysOnce` tells registrations that were deleted and registered again under one name apart, and `Aimed`
  is the same for an administrator between reading and writing.
- **SignIn.** `LoginsCurrent` extends `RevocationsHold` from sessions to challenges and to logins that will end in
  one: whoever read the account since its last revocation, with none due, carries its present password and an
  enabled account. `Budget` extends the lockout from failures recorded to guesses past the count and
  not yet recorded; one per other request is the room there is.
- **SecondFactor.** A session may be opened by a request that has already consumed its challenge:
  `ChallengesApart` and `ProofsApart` give such requests their challenge and proof to themselves.
  `SecretsOwned` and `CodesOwned` (a secret and a code are of one user for good, also in the hands of a
  request that began before the last enrolment) keep spent steps of an old secret apart from the new
  one's; `StepsSpent` adds to `SpentStepsStaySpent` that nothing of a secret is spent before it is confirmed.
- **Passkey.** `Apart` and `UsedUp` are the same for ceremonies and challenges; `Assured` says that a
  request about to write or open has proof, by a row of the user of its challenge, although
  a passkey may be removed and registered again by another user meanwhile (`Owned`).
- **Organization.** `OneRemoval` is the row lock: two removals of one organisation are never between
  their statements at once. `CountsHold` says that what a removal counted is still so, unless
  owners were changed beside the lock; the action property then follows from the state
  before the step. `Seats` is `SeatBehindLink` including invitations that were deleted with their organisation.
- **Federation.** `LinksApart` are the two unique indexes of the links, `StatesApart` gives a claimed state to
  one request or outcome, `OneUnlink` and `CountsHold` are the lock on the user's row and what the
  count under it promises (`Enough`), also while a provider is deleted with its links beside it. A request's `Fits`
  carries what proved the account from the callback to the INSERT of the link.

Assumed are the named assumptions on the constants in each component's module, which TLC evaluates on
every run. Besides types they are: codes, login states, invitations and everything in `Keyring` live for at least one tick, and
limits of attempts (and of registrations in `Authorization`) are at least one; `None` is nobody;
`Drift` is below the first moment, so that step 0 can stand for a `last_step` of NULL; `RetireAfter` as above; the sets of
realms and operators in `Keyring`, of users in `Organization` and of requests in `SignIn` and
`SecondFactor` are finite, for these modules count their members, and so are the groups of `Access` and the accounts and rows of `Administration`. The rows
that `Access` starts from refer to each other within a realm and its groups are a tree (`RowsAssumption`, `TreeAssumption`:
what the foreign keys and `seed` leave); identifiers in `Administration` are not those of another realm's or of no row
(`NamesAssumption`), an account that acts is there at the start. `HandlerAssumption` is different in kind: it speaks of no constant,
only of the table of handlers, and each of its conjuncts is a finite check on every handler that TLC carries out in full. A
handler added or changed against it fails there before any proof is looked at. Nothing else is taken as given.

Only model-checked:

- `RetiredKeysGo`, which is liveness under fairness and out of the prover's reach;
- the two documented promises that do not hold.

## Not modelled

Cryptography (Argon2, HMAC, JWT signatures, AES-GCM, WebAuthn verification) is perfect.
Headers, rendering, mail delivery, configuration, discovery documents and telemetry are
straight-line I/O. `directory.rs` (LDAP) is referred to by nothing but its own tests. The same is true of `mfa::clear`,
`consent::revoke`, `refresh::revoke_all_for_user` and `recovery::request_email_verification`; since no e-mail
verification is ever requested, the page that confirms one never finds a token, and it is left out too.
The events that sign-in, recovery and the token endpoint record are left out of their modules:
recording is the last thing a step does, fails without notice and is read by nothing but the trail's pages, and
`Administration` has it for the operations where a reader relies on it.
`Administration` in turn leaves out the values, the tree of groups and the rows that join two others
(`Access`, `Organization` and `Federation` have them), so its answers to a repeated membership or a
cycle are any of those the code gives. `cli seed` is modelled as its statements: stopped between the
account and its role it is refused when repeated ("nothing was changed"), and
leaves an account without permissions. Realms are
created there and never change. A large part of the source is not in any map: the
request and response types, documentation, error and event names, rendering and tests.

## Plan

1. Done: every component whose state a decision rests on (`GrantFamily`, `TokenGrant`, `TokenReplay`, `SecondFactor`, `SignIn`,
   `Passkey`, `Organization`, `Federation`, `Access`, `Authorization`, `Keyring`), and every way to
   the administrative operations (`Operations`, `Handlers`, `Administration`); the theorems above.
2. Done: every safety property of a passing run as a theorem. What remains with TLC is `RetiredKeysGo` and the two documented
   promises that the code does not keep.
3. Larger instances where time allows: a second request in `Keyring`, three groups in `Access`.
