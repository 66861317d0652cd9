------------------------------ MODULE Federation ------------------------------
(***************************************************************************)
(* Signing in with an account held somewhere else: the two requests of a   *)
(* social login (server/src/federation.rs), its state (oauth/src/          *)
(* social.rs), how the upstream account resolves to a local one (identity/ *)
(* src/federation.rs: a link, adoption by verified address, provisioning), *)
(* and what takes a link away again.                                       *)
(*                                                                         *)
(* A sign-in is a chain of statements outside any transaction.  unlink is  *)
(* a transaction that holds FOR UPDATE on the user's row: what waits for   *)
(* it is any change of that row and any INSERT that refers to it by its    *)
(* foreign key, not the deletion of a provider with its links.  What the   *)
(* outcome (a session, or a challenge if a factor is enrolled) leads to is *)
(* in SecondFactor and SignIn.  The realm is one, and enabled.             *)
(***************************************************************************)
EXTENDS Naturals, Sequences, FiniteSets

CONSTANTS
  Provider, User, Email, Browser, Request,
  Subject,         \* the upstream accounts, each with its `sub'
  Adopts,          \* the providers with link_by_verified_email
  Provisions,      \* the providers with allow_provisioning
  StateLifetime,   \* social.rs STATE_LIFETIME
  None,
  Configured,      \* the providers there are from the start
  MaxStates, MaxLinks, MaxEvents   \* bounds; events are changes and ticks

ASSUME ProviderAssumption == {Adopts, Provisions, Configured} \subseteq SUBSET Provider
ASSUME NoneAssumption == None \notin Provider \cup User \cup Email \cup Browser \cup Subject
ASSUME LifetimeAssumption == StateLifetime \in Nat \ {0}

VARIABLES
  providers,  \* identity_providers: unused, enabled, disabled or deleted
  users,      \* users with their user_passwords
  links,      \* federated_identities, in insertion order
  states,     \* federation_login_states, in insertion order
  cookie,     \* the state whose cookie each browser holds, or 0
  outcomes,   \* the sign-ins that reached a session or a challenge
  req,        \* the requests in progress
  stranded,   \* history: users who lost a link with its provider, or whose
              \* provisioning stopped before the link
  changes,    \* how many changes administrators and owners have made
  now

vars == <<providers, users, links, states, cookie, outcomes, req, stranded, changes, now>>

Account == [status : {"unused", "present", "deleted"}, email : Email \cup {None},
            password : BOOLEAN, enabled : BOOLEAN]

(* `user' was linked on the strength of `email' and `verified', which are  *)
(* left out if the same request had just provisioned it.                   *)
Link == [provider : Provider, subject : Subject, user : User, email : Email \cup {None},
         verified : BOOLEAN, provisioned : BOOLEAN, deleted : BOOLEAN]

LoginState == [provider : Provider, browser : Browser, expires_at : Nat, consumed : BOOLEAN,
               deleted : BOOLEAN]

Outcome == [state : Nat, browser : Browser, provider : Provider, subject : Subject,
            user : User, link : Nat]

At == {"idle", "provider", "find", "account", "adopt", "provision", "link", "open",
       "count", "unlink"}

Locals == [at : At, browser : Browser \cup {None}, state : Nat,
           provider : Provider \cup {None}, subject : Subject \cup {None},
           email : Email \cup {None}, verified : BOOLEAN, user : User \cup {None},
           enabled : BOOLEAN, provisioned : BOOLEAN, link : Nat]

Blank == [at |-> "idle", browser |-> None, state |-> 0, provider |-> None,
          subject |-> None, email |-> None, verified |-> FALSE, user |-> None,
          enabled |-> FALSE, provisioned |-> FALSE, link |-> 0]

Unused == [status |-> "unused", email |-> None, password |-> FALSE, enabled |-> FALSE]

Present(u) == users[u].status = "present"
Exists(p) == providers[p] \in {"enabled", "disabled"}
LiveLink(n) == ~links[n].deleted

TypeOK ==
  /\ providers \in [Provider -> {"unused", "enabled", "disabled", "deleted"}]
  /\ users \in [User -> Account]
  /\ \A u, v \in User : Present(u) /\ Present(v) /\ users[u].email = users[v].email => u = v
  /\ links \in Seq(Link)
  /\ \A n \in DOMAIN links :
       LiveLink(n) => Present(links[n].user) /\ Exists(links[n].provider)
  /\ states \in Seq(LoginState)
  /\ cookie \in [Browser -> 0..Len(states)]
  /\ outcomes \in Seq(Outcome)
  /\ req \in [Request -> Locals]
  /\ stranded \subseteq User
  /\ changes \in Nat /\ now \in Nat

Init ==
  /\ providers = [p \in Provider |-> IF p \in Configured THEN "enabled" ELSE "unused"]
  /\ users = [u \in User |-> Unused]
  /\ links = <<>> /\ states = <<>> /\ outcomes = <<>>
  /\ cookie = [b \in Browser |-> 0]
  /\ req = [r \in Request |-> Blank]
  /\ stranded = {} /\ changes = 0 /\ now = 0

-----------------------------------------------------------------------------
(* The callback always takes its cookie along; a crash sends no response.  *)
Reply(r) ==
  /\ req' = [req EXCEPT ![r] = Blank]
  /\ cookie' = [cookie EXCEPT ![req[r].browser] = 0]

Continue(r, locals) == req' = [req EXCEPT ![r] = locals] /\ UNCHANGED cookie

Goto(r, at) == Continue(r, [req[r] EXCEPT !.at = at])

Finish(r) == Continue(r, Blank)

(* An unlink holds the user's row.                                         *)
Locked(u) == \E r \in Request : req[r].at \in {"count", "unlink"} /\ req[r].user = u

EmailTaken(e) == \E u \in User : Present(u) /\ users[u].email = e

LinksOf(u) == {n \in DOMAIN links : LiveLink(n) /\ links[n].user = u}

WayIn(u) == users[u].password \/ LinksOf(u) # {}

Claimable(n) == ~states[n].consumed /\ ~states[n].deleted /\ now < states[n].expires_at

(* The rows of a table without those whose index is in a set.              *)
Without(table, rows) ==
  [n \in DOMAIN table |-> [table[n] EXCEPT !.deleted = @ \/ n \in rows]]

-----------------------------------------------------------------------------
(* start: a state for this browser, and its cookie.                        *)
Start(b, p) ==
  /\ providers[p] = "enabled" /\ Len(states) < MaxStates
  /\ states' = Append(states, [provider |-> p, browser |-> b,
                  expires_at |-> now + StateLifetime, consumed |-> FALSE, deleted |-> FALSE])
  /\ cookie' = [cookie EXCEPT ![b] = Len(states) + 1]
  /\ UNCHANGED <<providers, users, links, outcomes, req, stranded, changes, now>>

(* A callback whose state is not the one of the cookie, or with an error.  *)
RefuseCallback(b) ==
  /\ cookie[b] # 0
  /\ cookie' = [cookie EXCEPT ![b] = 0]
  /\ UNCHANGED <<providers, users, links, states, outcomes, req, stranded, changes, now>>

Claim(r, b, n, p) ==
  /\ req[r].at = "idle"
  /\ IF Claimable(n)
     THEN /\ states' = [states EXCEPT ![n].consumed = TRUE]
          /\ Continue(r, [Blank EXCEPT !.at = "provider", !.browser = b, !.state = n,
                                       !.provider = p])
     ELSE UNCHANGED <<states, req>> /\ cookie' = [cookie EXCEPT ![b] = 0]
  /\ UNCHANGED <<providers, users, links, outcomes, stranded, changes, now>>

(* Mutant: the state in the URL is not compared with the cookie.           *)
ClaimUnbound(r, b, p) == \E n \in DOMAIN states : Claim(r, b, n, p)

(* One that agrees with it claims the state; `p' is the path's provider.   *)
ClaimState(r, b, p) == cookie[b] # 0 /\ Claim(r, b, cookie[b], p)

(* enabled_provider, whether the state was issued for it, and its secret.  *)
LoadProvider(r) ==
  /\ req[r].at = "provider"
  /\ IF providers[req[r].provider] = "enabled" /\ states[req[r].state].provider = req[r].provider
     THEN Goto(r, "find") ELSE Reply(r)
  /\ UNCHANGED <<providers, users, links, states, outcomes, stranded, changes, now>>

(* Mutant: the provider's word that the address is verified is not asked.  *)
TrustedProvider(r, email, verified) == req[r].provider \in Adopts /\ email # None

(* Both halves of the condition under which an address proves anything.    *)
Trusted(r, email, verified) == req[r].provider \in Adopts /\ verified /\ email # None

(* With neither link nor account to adopt: a new one, where allowed.       *)
ProvisionOrReply(r, locals) ==
  IF locals.provider \in Provisions /\ locals.email # None
  THEN Continue(r, [locals EXCEPT !.at = "provision", !.verified = FALSE])
  ELSE Reply(r)

(* What an upstream may say of who signed in (verify_id_token, read_claims).*)
Claims == [subject : Subject, email : Email \cup {None}, verified : BOOLEAN]

(* complete, unless the upstream refuses the code: what it says of the     *)
(* account behind the code and of its address now; and existing_link.      *)
FindLink(r, claims) ==
  LET found == {n \in DOMAIN links : LiveLink(n) /\ links[n].provider = req[r].provider
                                                 /\ links[n].subject = claims.subject}
      told == [req[r] EXCEPT !.subject = claims.subject, !.email = claims.email,
                             !.verified = claims.verified]
  IN /\ req[r].at = "find"
     /\ \/ Reply(r)
        \/ \E n \in found : Continue(r, [req[r] EXCEPT !.at = "account", !.subject = claims.subject,
                                                       !.user = links[n].user, !.link = n])
        \/ /\ found = {}
           /\ IF Trusted(r, claims.email, claims.verified)
              THEN Continue(r, [told EXCEPT !.at = "adopt"])
              ELSE ProvisionOrReply(r, told)
     /\ UNCHANGED <<providers, users, links, states, outcomes, stranded, changes, now>>

(* id_by_email, and user::by_id for the account found.                     *)
FindByEmail(r) ==
  /\ req[r].at = "adopt"
  /\ \/ \E u \in User :
          /\ Present(u) /\ users[u].email = req[r].email
          /\ Continue(r, [req[r] EXCEPT !.at = "link", !.user = u, !.enabled = users[u].enabled])
     \/ ~EmailTaken(req[r].email) /\ ProvisionOrReply(r, req[r])
  /\ UNCHANGED <<providers, users, links, states, outcomes, stranded, changes, now>>

(* user::by_id of a linked account.                                        *)
ReadAccount(r) ==
  LET u == req[r].user
  IN /\ req[r].at = "account"
     /\ IF Present(u)
        THEN Continue(r, [req[r] EXCEPT !.at = "open", !.enabled = users[u].enabled])
        ELSE Reply(r)
     /\ UNCHANGED <<providers, users, links, states, outcomes, stranded, changes, now>>

(* create_without_password, refused also if the user name is taken.        *)
Provision(r) ==
  /\ req[r].at = "provision"
  /\ \/ Reply(r) /\ UNCHANGED users
     \/ \E u \in User :
          /\ ~EmailTaken(req[r].email) /\ users[u].status = "unused"
          /\ users' = [users EXCEPT ![u] = [status |-> "present", email |-> req[r].email,
                                            password |-> FALSE, enabled |-> TRUE]]
          /\ Continue(r, [req[r] EXCEPT !.at = "link", !.user = u, !.enabled = TRUE,
                                        !.email = None, !.provisioned = TRUE])
  /\ UNCHANGED <<providers, links, states, outcomes, stranded, changes, now>>

NewLink(r) == [provider |-> req[r].provider, subject |-> req[r].subject, user |-> req[r].user,
               email |-> req[r].email, verified |-> req[r].verified,
               provisioned |-> req[r].provisioned, deleted |-> FALSE]

(* The unique indexes: an account upstream is one here, and the other way  *)
(* round.                                                                  *)
Unlinked(p, s, u) ==
  \A n \in DOMAIN links : LiveLink(n) /\ links[n].provider = p =>
                            links[n].subject # s /\ links[n].user # u

(* A provisioned account that is left without its link.                    *)
Stranded(r) == IF req[r].at = "link" /\ req[r].provisioned
               THEN stranded \cup {req[r].user} ELSE stranded

(* link: refused by the unique indexes, or by a foreign key.               *)
LinkUser(r) ==
  LET p == req[r].provider
      s == req[r].subject
      u == req[r].user
  IN /\ req[r].at = "link" /\ ~Locked(u) /\ Len(links) < MaxLinks
     /\ IF Present(u) /\ Exists(p) /\ Unlinked(p, s, u)
        THEN /\ links' = Append(links, NewLink(r))
             /\ Continue(r, [req[r] EXCEPT !.at = "open", !.link = Len(links) + 1, !.email = None,
                                          !.verified = FALSE, !.provisioned = FALSE])
             /\ UNCHANGED stranded
        ELSE /\ Reply(r) /\ UNCHANGED links
             /\ stranded' = Stranded(r)
     /\ UNCHANGED <<providers, users, states, outcomes, changes, now>>

(* A challenge or a session, both of which refer to the user, if the       *)
(* account as read was enabled; and if blocks_sign_in does not refuse,     *)
(* which it may for any account.                                           *)
Open(r) ==
  /\ req[r].at = "open"
  /\ \/ UNCHANGED outcomes
     \/ /\ req[r].enabled /\ Present(req[r].user)
        /\ outcomes' = Append(outcomes,
             [state |-> req[r].state, browser |-> req[r].browser,
              provider |-> req[r].provider, subject |-> req[r].subject,
              user |-> req[r].user, link |-> req[r].link])
  /\ Reply(r)
  /\ UNCHANGED <<providers, users, links, states, stranded, changes, now>>

-----------------------------------------------------------------------------
(* Mutant: the user's row is read without FOR UPDATE.                      *)
ReadUser(r, p, u) ==
  /\ req[r].at = "idle" /\ Exists(p) /\ Present(u)
  /\ Continue(r, [Blank EXCEPT !.at = "count", !.provider = p, !.user = u])
  /\ UNCHANGED <<providers, users, links, states, outcomes, stranded, changes, now>>

(* unlink: the user's row is locked ...                                    *)
LockUser(r, p, u) ==
  /\ req[r].at = "idle" /\ Exists(p) /\ Present(u) /\ ~Locked(u)
  /\ Continue(r, [Blank EXCEPT !.at = "count", !.provider = p, !.user = u])
  /\ UNCHANGED <<providers, users, links, states, outcomes, stranded, changes, now>>

(* ... a password looked for, which nobody can add meanwhile, the links    *)
(* counted, and the last way in refused ...                                *)
CountLinks(r) ==
  LET u == req[r].user
  IN /\ req[r].at = "count"
     /\ IF ~users[u].password /\ Cardinality(LinksOf(u)) <= 1 THEN Finish(r) ELSE Goto(r, "unlink")
     /\ UNCHANGED <<providers, users, links, states, outcomes, stranded, changes, now>>

(* ... and the link deleted, if there is one.                              *)
DeleteLink(r) ==
  /\ req[r].at = "unlink"
  /\ links' = Without(links, {n \in LinksOf(req[r].user) : links[n].provider = req[r].provider})
  /\ Finish(r)
  /\ UNCHANGED <<providers, users, states, outcomes, stranded, changes, now>>

-----------------------------------------------------------------------------
Change == changes + now < MaxEvents /\ changes' = changes + 1

(* user::create, one transaction.                                          *)
Register(u, e) ==
  /\ users[u].status = "unused" /\ ~EmailTaken(e) /\ Change
  /\ users' = [users EXCEPT ![u] = [status |-> "present", email |-> e, password |-> TRUE,
                                    enabled |-> TRUE]]
  /\ UNCHANGED <<providers, links, states, cookie, outcomes, req, stranded, now>>

(* A first password, by a reset link (SignIn has the others).              *)
SetPassword(u) ==
  /\ Present(u) /\ ~users[u].password /\ ~Locked(u) /\ Change
  /\ users' = [users EXCEPT ![u].password = TRUE]
  /\ UNCHANGED <<providers, links, states, cookie, outcomes, req, stranded, now>>

SetUserEnabled(u) ==
  /\ Present(u) /\ ~Locked(u) /\ Change
  /\ users' = [users EXCEPT ![u].enabled = ~@]
  /\ UNCHANGED <<providers, links, states, cookie, outcomes, req, stranded, now>>

(* Mutant: the links stay behind.                                          *)
DeleteUserAlone(u) ==
  /\ Present(u) /\ ~Locked(u) /\ Change
  /\ users' = [users EXCEPT ![u] = [Unused EXCEPT !.status = "deleted"]]
  /\ UNCHANGED <<providers, links, states, cookie, outcomes, req, stranded, now>>

(* The foreign keys take the links along.                                  *)
DeleteUser(u) ==
  /\ Present(u) /\ ~Locked(u) /\ Change
  /\ users' = [users EXCEPT ![u] = [Unused EXCEPT !.status = "deleted"]]
  /\ links' = Without(links, LinksOf(u))
  /\ stranded' = stranded \ {u}
  /\ UNCHANGED <<providers, states, cookie, outcomes, req, now>>

CreateProvider(p) ==
  /\ providers[p] = "unused" /\ Change
  /\ providers' = [providers EXCEPT ![p] = "enabled"]
  /\ UNCHANGED <<users, links, states, cookie, outcomes, req, stranded, now>>

SetProviderEnabled(p) ==
  /\ Exists(p) /\ Change
  /\ providers' = [providers EXCEPT ![p] = IF @ = "enabled" THEN "disabled" ELSE "enabled"]
  /\ UNCHANGED <<users, links, states, cookie, outcomes, req, stranded, now>>

(* And here links and states, without asking who has another way in.       *)
DeleteProvider(p) ==
  LET gone == {n \in DOMAIN links : LiveLink(n) /\ links[n].provider = p}
  IN /\ Exists(p) /\ Change
     /\ providers' = [providers EXCEPT ![p] = "deleted"]
     /\ links' = Without(links, gone)
     /\ states' = Without(states, {n \in DOMAIN states : states[n].provider = p})
     /\ stranded' = stranded \cup {links[n].user : n \in gone}
     /\ UNCHANGED <<users, cookie, outcomes, req, now>>

Expired(n) == ~states[n].deleted /\ states[n].expires_at < now

Purge ==
  /\ \E n \in DOMAIN states : Expired(n)
  /\ states' = Without(states, {n \in DOMAIN states : Expired(n)})
  /\ UNCHANGED <<providers, users, links, cookie, outcomes, req, stranded, changes, now>>

(* A request stops between two statements; a transaction rolls back.       *)
Abort(r) ==
  /\ req[r].at # "idle"
  /\ Finish(r)
  /\ stranded' = Stranded(r)
  /\ UNCHANGED <<providers, users, links, states, outcomes, changes, now>>

Tick ==
  /\ changes + now < MaxEvents
  /\ now' = now + 1
  /\ UNCHANGED <<providers, users, links, states, cookie, outcomes, req, stranded, changes>>

-----------------------------------------------------------------------------
SignIn(r) ==
  \/ \E b \in Browser, p \in Provider : ClaimState(r, b, p)
  \/ \E claims \in Claims : FindLink(r, claims)
  \/ LoadProvider(r) \/ FindByEmail(r) \/ ReadAccount(r) \/ Provision(r) \/ LinkUser(r)
  \/ Open(r)

Unlink(r) ==
  \/ \E p \in Provider, u \in User : LockUser(r, p, u)
  \/ CountLinks(r) \/ DeleteLink(r)

Begin(b) == \E p \in Provider : Start(b, p)

(* Through the console as well as through the API.                         *)
ManageProvider(p) == SetProviderEnabled(p) \/ DeleteProvider(p)

Next ==
  \/ \E r \in Request : SignIn(r) \/ Unlink(r) \/ Abort(r)
  \/ \E b \in Browser : RefuseCallback(b) \/ Begin(b)
  \/ \E u \in User : \/ \E e \in Email : Register(u, e)
                     \/ SetPassword(u) \/ SetUserEnabled(u) \/ DeleteUser(u)
  \/ \E p \in Provider : CreateProvider(p) \/ ManageProvider(p)
  \/ Purge \/ Tick

Spec == Init /\ [][Next]_vars

-----------------------------------------------------------------------------
(* A state opens at most one sign-in, in the browser that began it and at  *)
(* the provider it was issued for, whoever presents it, however often      *)
(* (oauth/src/social.rs, claim_state, "one sign-in rather than two";       *)
(* server/src/federation.rs, "The binding that defeats login CSRF").       *)
SignInBehindState ==
  \A i, j \in DOMAIN outcomes :
    LET o == outcomes[i]
    IN /\ o.state = outcomes[j].state => i = j
       /\ states[o.state].browser = o.browser /\ states[o.state].provider = o.provider

(* One upstream account signs in as one local account, also if its first   *)
(* two sign-ins run at once: as another only after the link of one of them *)
(* was taken away (migrations/0009_federation.sql, "One upstream account   *)
(* signs in as exactly one local account").                                *)
OneAccountUpstream ==
  \A i, j \in DOMAIN outcomes :
    /\ outcomes[i].provider = outcomes[j].provider
    /\ outcomes[i].subject = outcomes[j].subject
    /\ outcomes[i].user # outcomes[j].user
    => links[outcomes[i].link].deleted \/ links[outcomes[j].link].deleted

(* An account is linked by the request that provisioned it, or on its own  *)
(* address, verified by a provider that is trusted with that (identity/    *)
(* src/federation.rs, adopt_or_provision, "only under both conditions").   *)
LinkProven ==
  \A n \in DOMAIN links :
    LiveLink(n) /\ ~links[n].provisioned =>
      /\ links[n].provider \in Adopts /\ links[n].verified
      /\ links[n].email = users[links[n].user].email

(* Who signs in with a link is who it was made for.                        *)
LinksHold == OneAccountUpstream /\ LinkProven

(* Unlinking never takes the last way into an account, however many links  *)
(* are removed at once.  Without any are only accounts whose provisioning  *)
(* stopped before, or is about to make, the link, and those who lost one   *)
(* with its provider (identity/src/federation.rs, unlink, "leaving none"). *)
LastWayInStays ==
  \A u \in User :
    \/ ~Present(u) \/ WayIn(u) \/ u \in stranded
    \/ \E r \in Request : req[r].at = "link" /\ req[r].provisioned /\ req[r].user = u
=============================================================================
