---------------------------- MODULE Authorization ----------------------------
(* The authorization endpoint (server/src/oidc.rs), the consent page       *)
(* (web/src/pages/consent.rs), the consent record (oauth/src/consent.rs)   *)
(* and the registered clients (oauth/src/client.rs, admin.rs), of one      *)
(* realm.  A request reads the client, the session and the account in      *)
(* separate statements, may send the browser to the consent page, and ends *)
(* in an authorization code, whose life from then on is TokenGrant's.      *)
(*                                                                         *)
(* A request that validation refuses changes nothing and is left out:      *)
(* unknown client, other response_type or grant type, missing challenge,   *)
(* and a redirect address or scopes the client is not registered for.      *)
(* Addresses and challenges go from the request to the code unchanged and  *)
(* are compared there, in TokenGrant.                                      *)
EXTENDS Naturals, FiniteSets

CONSTANTS
    User, Foreign,      \* accounts; those of another realm
    Client,             \* the client_id values
    Scope,
    Browser, Request, Admin,
    Registration,       \* what clients are registered with: scopes, public, consent
    Change,             \* what administrators write: scopes or consent
    Asking,             \* the scope parameters of requests, {} when it is left out
    None,
    MaxSessions,        \* bound: sessions ever opened
    MaxKeys,            \* bound: clients ever registered
    MaxEvents           \* bound: requests, ends of sessions and changes, together

ASSUME AuthorizationAssumption ==
    /\ Foreign \subseteq User
    /\ Registration \subseteq [scopes : (SUBSET Scope) \ {{}}, public : BOOLEAN, consent : BOOLEAN]
    /\ Change \subseteq [scopes : (SUBSET Scope) \cup {None}, consent : BOOLEAN \cup {None}]
    /\ Asking \subseteq SUBSET Scope
    /\ None \notin User
    /\ {MaxSessions, MaxEvents} \subseteq Nat /\ MaxKeys \in Nat \ {0}

VARIABLES
    clients,      \* oauth_clients by client_id
    accounts,     \* users.enabled
    sessions,     \* sessions, by number
    cookie,       \* the session cookie of a browser
    consents,     \* oauth_consents: scopes by user and registration
    codes,        \* authorization_codes as issued
    requests,     \* GET and POST of the authorization endpoint
    pages,        \* the consent page a browser has open
    ops,          \* administrative requests between their two statements
    lastKey,      \* the latest registration
    events        \* bound

vars == <<clients, accounts, sessions, cookie, consents, codes, requests, pages, ops, lastKey, events>>

Key == 1 .. MaxKeys     \* oauth_clients.id, never used again
SessionId == 1 .. MaxSessions
NoKey == 0

ClientRow == [key : Key, scopes : SUBSET Scope, public : BOOLEAN, consent : BOOLEAN, secret : Nat]
Code == [key : Key, user : User, scopes : SUBSET Scope, consent : BOOLEAN]
Page == [client : Client, asked : SUBSET Scope, key : Key, registered : SUBSET Scope,
         session : SessionId]

(* What the handler carries; `page` is the form a POST came from.  History:*)
(* the client as the request read it, and whether the account was enabled  *)
(* at some moment since the request arrived.                               *)
Locals == [at : {"idle", "session", "account", "consent", "record", "code"},
           session : SessionId \cup {0}, key : Key \cup {NoKey}, registered : SUBSET Scope,
           scopes : SUBSET Scope, consent : BOOLEAN, page : Page \cup {None}, seen : BOOLEAN]
Op == [at : {"idle", "update", "rotate"}, client : Client \cup {None}, key : Key \cup {NoKey},
       change : Change \cup {None}]

TypeOK ==
    /\ clients \in [Client -> ClientRow \cup {None}]
    /\ \A c \in Client : clients[c] # None => (clients[c].public <=> clients[c].secret = 0)
    /\ accounts \in [User -> {"enabled", "disabled", "deleted"}]
    /\ sessions \in [SessionId -> [user : User \cup {None}, live : BOOLEAN]]
    /\ cookie \in [Browser -> SessionId \cup {0}]
    /\ consents \in [User -> [Key -> SUBSET Scope]]
    /\ codes \subseteq Code
    /\ requests \in [Request -> Locals]
    /\ pages \in [Browser -> Page \cup {None}]
    /\ ops \in [Admin -> Op]
    /\ lastKey \in Key
    /\ events \in 0 .. MaxEvents

NoLocals == [at |-> "idle", session |-> 0, key |-> NoKey, registered |-> {}, scopes |-> {},
             consent |-> FALSE, page |-> None, seen |-> FALSE]
NoOp == [at |-> "idle", client |-> None, key |-> NoKey, change |-> None]

(* The row register inserts.  A secret is its generation; a public client  *)
(* is issued none.                                                         *)
SecretForEveryone(reg, n) ==
    [key |-> n, scopes |-> reg.scopes, public |-> reg.public, consent |-> reg.consent,
     secret |-> 1]
Registered(reg, n) ==
    [key |-> n, scopes |-> reg.scopes, public |-> reg.public,
     consent |-> reg.consent, secret |-> IF reg.public THEN 0 ELSE 1]

Init ==
    /\ \E reg \in Registration, c \in Client :
          clients = [d \in Client |-> IF d = c THEN Registered(reg, 1) ELSE None]
    /\ accounts = [u \in User |-> "enabled"]
    /\ sessions = [s \in SessionId |-> [user |-> None, live |-> FALSE]]
    /\ cookie = [b \in Browser |-> 0]
    /\ consents = [u \in User |-> [k \in Key |-> {}]]
    /\ codes = {}
    /\ requests = [r \in Request |-> NoLocals]
    /\ pages = [b \in Browser |-> None]
    /\ ops = [a \in Admin |-> NoOp]
    /\ lastKey = 1
    /\ events = 0

-----------------------------------------------------------------------------
(* Reading.                                                                *)

Exists(c) == clients[c] # None
KeyHeld(k) == \E c \in Client : Exists(c) /\ clients[c].key = k
Signed(b) == cookie[b] # 0 /\ sessions[cookie[b]].live

(* scope::resolve: nothing asked for means everything registered.          *)
Resolved(asked, registered) == IF asked = {} THEN registered ELSE asked
Acceptable(asked, registered) == asked \subseteq registered

(* user_belongs_to.                                                        *)
UserBelongs(u) == accounts[u] = "enabled" /\ u \notin Foreign

(* consent::is_satisfied.                                                  *)
Satisfied(u, k, scopes) == scopes \subseteq consents[u][k]

-----------------------------------------------------------------------------
(* The authorization endpoint.                                             *)

At(r, at) == requests[r].at = at
Goto(r, at) == requests' = [requests EXCEPT ![r].at = at]
ReadyForCode(r) == requests' = [requests EXCEPT ![r].at = "code", ![r].page = None,
                                                ![r].registered = {}]
Finish(r) == requests' = [requests EXCEPT ![r] = NoLocals]
UserOf(r) == sessions[requests[r].session].user
Elsewhere == UNCHANGED <<clients, accounts, sessions, cookie, pages, ops, lastKey>>
Counted == events < MaxEvents /\ events' = events + 1
Uncounted == UNCHANGED events

(* The checks of validate, on one read of the client.                      *)
Valid(c, asked) == Exists(c) /\ Acceptable(asked, clients[c].scopes)

Validated(b, c, asked, page) ==
    [at |-> "session", session |-> cookie[b], key |-> clients[c].key,
     registered |-> clients[c].scopes, scopes |-> Resolved(asked, clients[c].scopes),
     consent |-> clients[c].consent, page |-> page,
     seen |-> accounts[sessions[cookie[b]].user] = "enabled"]

(* GET: a browser arrives from a client.                                   *)
Authorize(r, b, c, asked) ==
    /\ Counted /\ At(r, "idle") /\ cookie[b] # 0
    /\ Valid(c, asked)
    /\ requests' = [requests EXCEPT ![r] = Validated(b, c, asked, None)]
    /\ Elsewhere /\ UNCHANGED <<consents, codes>>

(* POST: the consent form, with the parameters the page was opened with,   *)
(* validated again.                                                        *)
Approve(r, b) == LET page == pages[b] IN
    /\ Counted /\ At(r, "idle") /\ cookie[b] # 0
    /\ page # None
    /\ Valid(page.client, page.asked)
    /\ requests' = [requests EXCEPT ![r] = Validated(b, page.client, page.asked, page)]
    /\ Elsewhere /\ UNCHANGED <<consents, codes>>

(* session.csrf_token_matches: the form carries the token of the session   *)
(* that was shown the page.                                                *)
TokenIgnored(r) == TRUE
TokenMatches(r) ==
    requests[r].page # None => requests[r].page.session = requests[r].session

ReadSession(r) ==
    /\ At(r, "session")
    /\ IF sessions[requests[r].session].live /\ TokenMatches(r) THEN Goto(r, "account")
                                                               ELSE Finish(r)
    /\ Elsewhere /\ Uncounted /\ UNCHANGED <<consents, codes>>

(* user::by_id, after the session: an account may be disabled while its    *)
(* session is still there.                                                 *)
ReadAccount(r) ==
    /\ At(r, "account")
    /\ \/ ~UserBelongs(UserOf(r)) /\ Finish(r)
       \/ /\ UserBelongs(UserOf(r))
          /\ \/ requests[r].page # None /\ Goto(r, "record")
             \/ requests[r].page = None /\ requests[r].consent /\ Goto(r, "consent")
             \/ requests[r].page = None /\ ~requests[r].consent /\ ReadyForCode(r)
    /\ Elsewhere /\ Uncounted /\ UNCHANGED <<consents, codes>>

(* A recorded consent that covers the request is enough, unless the client *)
(* asks for the page (prompt=consent) or the query fails; then the request *)
(* ends in a redirect to the page, or in an error when prompt=none.        *)
CheckConsent(r) ==
    /\ At(r, "consent")
    /\ \/ Satisfied(UserOf(r), requests[r].key, requests[r].scopes) /\ ReadyForCode(r)
       \/ Finish(r)
    /\ Elsewhere /\ Uncounted /\ UNCHANGED <<consents, codes>>

(* consent::record: one INSERT ... ON CONFLICT DO UPDATE that stores the   *)
(* union; its foreign keys fail when the client or the user is gone.       *)
OnlyLast(old, new) == new
Together(old, new) == old \cup new

RecordConsent(r) == LET u == UserOf(r)  k == requests[r].key IN
    /\ At(r, "record")
    /\ \/ /\ KeyHeld(k) /\ accounts[u] # "deleted"
          /\ consents' = [consents EXCEPT ![u][k] = Together(@, requests[r].scopes)]
          /\ ReadyForCode(r)
       \/ /\ ~(KeyHeld(k) /\ accounts[u] # "deleted")
          /\ Finish(r)
          /\ UNCHANGED consents
    /\ Elsewhere /\ Uncounted /\ UNCHANGED codes

(* grant_code: code::issue and the redirect.                               *)
IssueCode(r) == LET u == UserOf(r)  k == requests[r].key IN
    /\ At(r, "code")
    /\ codes' = IF KeyHeld(k) /\ accounts[u] # "deleted"
          THEN codes \cup {[key |-> k, user |-> u, scopes |-> requests[r].scopes,
                            consent |-> requests[r].consent]}
          ELSE codes
    /\ Finish(r)
    /\ Elsewhere /\ Uncounted /\ UNCHANGED consents

(* The person declines, the browser leaves, the request times out.         *)
Abort(r) ==
    /\ ~At(r, "idle")
    /\ Finish(r)
    /\ Elsewhere /\ Uncounted /\ UNCHANGED <<consents, codes>>

-----------------------------------------------------------------------------
(* Browsers.                                                               *)

(* /consent with the parameters of an authorization request in its         *)
(* address; consent_prompt resolves what to show.  What it reads before    *)
(* the client, the submission reads again.                                 *)
OpenPage(b, c, asked) == LET s == cookie[b] IN
    /\ Signed(b) /\ UserBelongs(sessions[s].user)
    /\ Exists(c) /\ Acceptable(asked, clients[c].scopes)
    /\ pages' = [pages EXCEPT ![b] =
          [client |-> c, asked |-> asked, key |-> clients[c].key,
           registered |-> clients[c].scopes, session |-> s]]
    /\ UNCHANGED <<clients, accounts, sessions, cookie, consents, codes, requests, ops, lastKey, events>>

(* A login, of any realm; it replaces the cookie.                          *)
Login(b, u) ==
    /\ accounts[u] = "enabled"
    /\ \E s \in SessionId :
          /\ sessions[s].user = None /\ \A t \in SessionId : t < s => sessions[t].user # None
          /\ sessions' = [sessions EXCEPT ![s] = [user |-> u, live |-> TRUE]]
          /\ cookie' = [cookie EXCEPT ![b] = s]
    /\ UNCHANGED <<clients, accounts, consents, codes, requests, pages, ops, lastKey, events>>

(* Logout, expiry, or a revocation from elsewhere.                         *)
EndSession(s) ==
    /\ Counted /\ sessions[s].live
    /\ sessions' = [sessions EXCEPT ![s].live = FALSE]
    /\ UNCHANGED <<clients, accounts, cookie, consents, codes, requests, pages, ops, lastKey>>

-----------------------------------------------------------------------------
(* Administration.                                                         *)

Register(c, reg) ==
    /\ Counted /\ ~Exists(c) /\ lastKey < MaxKeys
    /\ clients' = [clients EXCEPT ![c] = Registered(reg, lastKey + 1)]
    /\ lastKey' = lastKey + 1
    /\ UNCHANGED <<accounts, sessions, cookie, consents, codes, requests, pages, ops>>

(* admin::update and admin::rotate_secret read the client by its           *)
(* client_id; a public client has no secret to rotate.                     *)
Read(a, c, at, change) ==
    /\ Counted /\ ops[a].at = "idle" /\ Exists(c)
    /\ at = "rotate" => ~clients[c].public
    /\ ops' = [ops EXCEPT ![a] =
          [at |-> at, client |-> c, key |-> clients[c].key, change |-> change]]
    /\ UNCHANGED <<clients, accounts, sessions, cookie, consents, codes, requests, pages, lastKey>>

(* They write by the key they read: a registration that replaced it in the *)
(* meantime is another row.                                                *)
TargetByName(a) == Exists(ops[a].client)
Target(a) == Exists(ops[a].client) /\ clients[ops[a].client].key = ops[a].key

Or(value, old) == IF value = None THEN old ELSE value
Applied(row, ch) ==
    [row EXCEPT !.scopes = Or(ch.scopes, @), !.consent = Or(ch.consent, @)]
Rekeyed(row) == [row EXCEPT !.secret = @ + 1]

Write(a) == LET c == ops[a].client IN
    /\ ops[a].at # "idle"
    /\ ops' = [ops EXCEPT ![a] = NoOp]
    /\ \/ /\ Target(a)
          /\ clients' = [clients EXCEPT ![c] =
                IF ops[a].at = "update" THEN Applied(@, ops[a].change)
                                        ELSE Rekeyed(@)]
       \/ ~Target(a) /\ UNCHANGED clients
    /\ UNCHANGED <<accounts, sessions, cookie, consents, codes, requests, pages, lastKey, events>>

(* client::delete, with the cascade to codes and consents.                 *)
Delete(c) ==
    /\ Counted /\ Exists(c)
    /\ clients' = [clients EXCEPT ![c] = None]
    /\ consents' = [u \in User |-> [consents[u] EXCEPT ![clients[c].key] = {}]]
    /\ codes' = {code \in codes : code.key # clients[c].key}
    /\ UNCHANGED <<accounts, sessions, cookie, requests, pages, ops, lastKey>>

(* set_user_enabled; the sessions of a disabled account end in a later     *)
(* statement, or never if that one fails.                                  *)
Disable(u) ==
    /\ Counted /\ accounts[u] = "enabled"
    /\ accounts' = [accounts EXCEPT ![u] = "disabled"]
    /\ UNCHANGED <<clients, sessions, cookie, consents, codes, requests, pages, ops, lastKey>>

Enable(u) ==
    /\ Counted /\ accounts[u] = "disabled"
    /\ accounts' = [accounts EXCEPT ![u] = "enabled"]
    /\ requests' = [r \in Request |-> IF ~At(r, "idle") /\ UserOf(r) = u
                                        THEN [requests[r] EXCEPT !.seen = TRUE] ELSE requests[r]]
    /\ UNCHANGED <<clients, sessions, cookie, consents, codes, pages, ops, lastKey>>

(* delete_user, with the cascade.                                          *)
DeleteUser(u) ==
    /\ Counted /\ accounts[u] # "deleted"
    /\ accounts' = [accounts EXCEPT ![u] = "deleted"]
    /\ sessions' = [s \in SessionId |->
          IF sessions[s].user = u THEN [sessions[s] EXCEPT !.live = FALSE] ELSE sessions[s]]
    /\ consents' = [consents EXCEPT ![u] = [k \in Key |-> {}]]
    /\ codes' = {code \in codes : code.user # u}
    /\ UNCHANGED <<clients, cookie, requests, pages, ops, lastKey>>

Serve(r) ==
    \/ ReadSession(r) \/ ReadAccount(r) \/ CheckConsent(r)
    \/ RecordConsent(r) \/ IssueCode(r) \/ Abort(r)

(* Through the console as well as through the API, by the command line and *)
(* through dynamic registration where that is switched on.                 *)
ManageClients ==
    \/ \E c \in Client, reg \in Registration : Register(c, reg)
    \/ \E a \in Admin, c \in Client : Read(a, c, "rotate", None)
    \/ \E c \in Client : Delete(c)

(* Through the API alone.                                                  *)
UpdateClient(a) ==
    \E c \in Client, change \in Change : Read(a, c, "update", change)

Next ==
    \/ \E r \in Request, b \in Browser, c \in Client, asked \in Asking :
          Authorize(r, b, c, asked)
    \/ \E r \in Request, b \in Browser : Approve(r, b)
    \/ \E r \in Request : Serve(r)
    \/ \E b \in Browser, c \in Client, asked \in Asking : OpenPage(b, c, asked)
    \/ \E b \in Browser, u \in User : Login(b, u)
    \/ \E s \in SessionId : EndSession(s)
    \/ ManageClients
    \/ \E a \in Admin : UpdateClient(a) \/ Write(a)
    \/ \E u \in User : Disable(u) \/ Enable(u) \/ DeleteUser(u)

Spec == Init /\ [][Next]_vars

-----------------------------------------------------------------------------
(* A code for a client that asks for consent grants nothing its user has   *)
(* not approved for this registration, whatever was approved, changed and  *)
(* deleted in between.                                                     *)
CodeBehindApproval ==
    \A code \in codes : code.consent => code.scopes \subseteq consents[code.user][code.key]

(* No code is on its way for an account of another realm, or for one that  *)
(* was disabled before the request arrived and ever since.                 *)
DisabledGetNoCode ==
    \A r \in Request : At(r, "code") => UserOf(r) \notin Foreign /\ requests[r].seen

(* A code stands for an approval, of an account that could give it.        *)
CodesEarned == CodeBehindApproval /\ DisabledGetNoCode

(* The client is not the one the page was shown for, or is registered for  *)
(* other scopes than then.                                                 *)
Overtaken(r) ==
    \/ requests[r].page.key # requests[r].key
    \/ requests[r].page.registered # requests[r].registered

(* What consent_prompt resolved and the page listed.                       *)
Shown(page) == Resolved(page.asked, page.registered)

(* Scopes are recorded only from the form of a page shown to the same      *)
(* user, and only scopes that page listed, unless the client was changed   *)
(* or replaced while the page was open.                                    *)
RecordedWasShown ==
    [][\A u \in User, k \in Key : consents'[u][k] \subseteq consents[u][k] \/
         \E r \in Request :
            /\ At(r, "record") /\ UserOf(r) = u /\ requests[r].key = k
            /\ sessions[requests[r].page.session].user = u
            /\ \/ consents'[u][k] \ consents[u][k] \subseteq Shown(requests[r].page)
               \/ Overtaken(r)]_vars

(* A change or a new secret reaches the registration its administrator     *)
(* looked at, never one registered under the same client_id since.         *)
ChangesReachTheirClient ==
    [][\A c \in Client :
         clients[c] # None /\ clients'[c] # None /\ clients'[c] # clients[c] =>
            /\ clients'[c].key = clients[c].key
            /\ \E a \in Admin : ops[a].at # "idle" /\ ops[a].key = clients[c].key]_vars
=============================================================================
