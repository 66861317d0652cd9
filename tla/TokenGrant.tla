------------------------------ MODULE TokenGrant ------------------------------
(***************************************************************************)
(* The token endpoint: authorization codes, families of refresh tokens and *)
(* the requests that exchange one for the next (oauth/src/code.rs,         *)
(* oauth/src/refresh.rs, oauth/src/grant.rs, server/src/oidc.rs).          *)
(*                                                                         *)
(* Every SQL statement of the code is one step.  None of these handlers    *)
(* opens a transaction, so the statements of concurrent requests           *)
(* interleave freely, and a request may die between any two of them.       *)
(*                                                                         *)
(* A table is a sequence of rows in insertion order; a row's index is its  *)
(* id and its secret.  A deleted row keeps its place with `deleted' set,   *)
(* because ids are never reused.                                           *)
(***************************************************************************)
EXTENDS Naturals, Sequences, FiniteSets

CONSTANTS
  User, Client, Request, Uri, Verifier,
  None,             \* an absent client, challenge or verifier (SQL NULL)
  GrantTypes,       \* the grant types each client is registered for
  ScopeSets,        \* the scope sets a request may name
  CodeLifetime,     \* code.rs CODE_LIFETIME, in ticks
  CodeRetention,    \* how long past expiry a code row is kept
  RefreshLifetime,  \* refresh.rs REFRESH_TOKEN_LIFETIME, in ticks
  MaxCodes, MaxTokens, MaxTime   \* bounds of the model

AuthorizationCode == "authorization_code"
RefreshToken == "refresh_token"
Openid == "openid"
OfflineAccess == "offline_access"

ASSUME NoneAssumption == None \notin Client \cup Verifier
ASSUME GrantTypesAssumption ==
  GrantTypes \in [Client -> SUBSET {AuthorizationCode, RefreshToken}]
ASSUME LifetimeAssumption ==
  /\ CodeLifetime \in Nat \ {0} /\ CodeRetention \in Nat /\ RefreshLifetime \in Nat
  /\ MaxCodes \in Nat /\ MaxTokens \in Nat /\ MaxTime \in Nat

VARIABLES
  codes,     \* table authorization_codes
  tokens,    \* table refresh_tokens
  req,       \* the token-endpoint requests in progress
  account,   \* users.enabled, or deleted
  clients,   \* the registered clients
  purging,   \* how far a run of the purge command has got
  now        \* the database clock

vars == <<codes, tokens, req, account, clients, purging, now>>

Scope == UNION ScopeSets

CodeRow == [client : Client, user : User, scopes : SUBSET Scope,
            redirect_uri : Uri, code_challenge : Verifier \cup {None},
            expires_at : Nat, used : BOOLEAN, deleted : BOOLEAN]

(* `sent' is not a column: it says the secret has left in a response, so   *)
(* that somebody can present it.                                           *)
TokenRow == [client : Client, user : User, scopes : SUBSET Scope,
             family : Nat, expires_at : Nat, used : BOOLEAN,
             revoked : BOOLEAN, replaced_by : Nat, deleted : BOOLEAN,
             sent : BOOLEAN]

(* Where a request stands: the name of the next thing it does.             *)
At == {"idle", "check_replay", "check_reuse", "revoke_family", "sign",
       "mint", "rotate", "link", "check_account", "reply"}

(* A request's locals.  `token' is the refresh token it spent (0 on the    *)
(* code path), `successor' the one it minted, `scopes' what the response   *)
(* grants.  `admitted' is a history variable: the account behind the       *)
(* request was enabled at some moment since the request began.             *)
RequestState == [at : At, client : Client \cup {None}, family : Nat,
                 token : Nat, successor : Nat, scopes : SUBSET Scope,
                 admitted : BOOLEAN]

Idle == [at |-> "idle", client |-> None, family |-> 0, token |-> 0,
         successor |-> 0, scopes |-> {}, admitted |-> FALSE]

TypeOK ==
  /\ codes \in Seq(CodeRow)
  /\ tokens \in Seq(TokenRow)
  /\ req \in [Request -> RequestState]
  /\ account \in [User -> {"enabled", "disabled", "deleted"}]
  /\ clients \subseteq Client
  /\ purging \in {"idle", "codes_done"}
  /\ now \in Nat

Init ==
  /\ codes = <<>>
  /\ tokens = <<>>
  /\ req = [r \in Request |-> Idle]
  /\ account = [u \in User |-> "enabled"]
  /\ clients = Client
  /\ purging = "idle"
  /\ now = 0

-----------------------------------------------------------------------------
(* Rows and the conditions of the WHERE clauses.                           *)

Code(c) == c \in DOMAIN codes /\ ~codes[c].deleted
Token(t) == t \in DOMAIN tokens /\ ~tokens[t].deleted

(* Mutants: the claim forgets used_at IS NULL, or the client.              *)
UnspentCodeAgain(c, cl) == Code(c) /\ codes[c].client = cl
UnspentCodeAnyClient(c, cl) == Code(c) /\ ~codes[c].used

UnspentCode(c, cl) == Code(c) /\ codes[c].client = cl /\ ~codes[c].used
SpentCode(c, cl) == Code(c) /\ codes[c].client = cl /\ codes[c].used

(* S256: a challenge stands for the one verifier that hashes to it.        *)
Matches(challenge, verifier) == verifier = challenge

(* What a redemption demands of the code it has just claimed: not expired, *)
(* the redirect URI of the authorization request, and the PKCE verifier    *)
(* exactly when a challenge was pinned.                                    *)
ProvesCode(c, uri, verifier) ==
  /\ now < codes[c].expires_at
  /\ uri = codes[c].redirect_uri
  /\ Matches(codes[c].code_challenge, verifier)

(* A refresh token that rotation accepts and introspection calls active.   *)
Usable(t) == Token(t) /\ ~tokens[t].used /\ ~tokens[t].revoked
                      /\ now < tokens[t].expires_at

SpentToken(t, cl) == Token(t) /\ tokens[t].client = cl /\ tokens[t].used

(* The foreign keys an INSERT into either table is checked against.        *)
ForeignKeysHold(u, cl) == account[u] # "deleted" /\ cl \in clients

(* Mutant: the account only has to exist.                                  *)
UserExists(u) == account[u] # "deleted"

UserBelongs(u) == account[u] = "enabled"

(* Mutant: the expiry is left NULL.                                        *)
UnendingRow(u, cl, scopes, f) ==
  [client |-> cl, user |-> u, scopes |-> scopes, family |-> f,
   expires_at |-> None, used |-> FALSE, revoked |-> FALSE,
   replaced_by |-> 0, deleted |-> FALSE, sent |-> FALSE]

(* The row mint() inserts.                                                 *)
MintedRow(u, cl, scopes, f) ==
  [client |-> cl, user |-> u, scopes |-> scopes, family |-> f,
   expires_at |-> now + RefreshLifetime, used |-> FALSE, revoked |-> FALSE,
   replaced_by |-> 0, deleted |-> FALSE, sent |-> FALSE]

(* A request that begins by asking about a row it could not claim.         *)
Asking(at, cl, f, t) ==
  [at |-> at, client |-> cl, family |-> f, token |-> t, successor |-> 0,
   scopes |-> {}, admitted |-> FALSE]

(* A request that has just stored its refresh token.                       *)
Minted(r, at, successor) ==
  [at |-> at, client |-> req[r].client, family |-> req[r].family,
   token |-> req[r].token, successor |-> successor,
   scopes |-> req[r].scopes, admitted |-> req[r].admitted]

Finish(r) == req' = [req EXCEPT ![r] = Idle]
Goto(r, at) == req' = [req EXCEPT ![r].at = at]

FamilyOf(r) == req[r].family

-----------------------------------------------------------------------------
(* The authorization endpoint's last step, grant_code: one row, and its    *)
(* secret leaves in the redirect.  The account was looked at when the      *)
(* authorization request began, statements ago; what is certain here is    *)
(* that the foreign keys hold.                                             *)
IssueCode(u, cl, scopes, uri, challenge) ==
  /\ Len(codes) < MaxCodes
  /\ ForeignKeysHold(u, cl) /\ AuthorizationCode \in GrantTypes[cl]
  /\ codes' = Append(codes,
       [client |-> cl, user |-> u, scopes |-> scopes, redirect_uri |-> uri,
        code_challenge |-> challenge, expires_at |-> now + CodeLifetime,
        used |-> FALSE, deleted |-> FALSE])
  /\ UNCHANGED <<tokens, req, account, clients, purging, now>>

-----------------------------------------------------------------------------
(* grant_type=authorization_code.                                          *)

(* client::authenticate: of the clients there are, by a secret that only   *)
(* the client has, or by none if it is public.                             *)
Authenticates(cl) == cl \in clients

(* A client that authenticated and is registered for the grant it asks.    *)
MayAsk(r, cl, grant) ==
  req[r].at = "idle" /\ Authenticates(cl) /\ grant \in GrantTypes[cl]

(* redeem: the claiming UPDATE finds a row and what follows it is in       *)
(* order, so the request goes on to sign.                                  *)
RedeemGranted(r, cl, c, uri, verifier) ==
  /\ MayAsk(r, cl, AuthorizationCode)
  /\ UnspentCode(c, cl)
  /\ ProvesCode(c, uri, verifier)
  /\ codes' = [codes EXCEPT ![c].used = TRUE]
  /\ req' = [req EXCEPT ![r] =
       [at |-> "sign", client |-> cl, family |-> c, token |-> 0,
        successor |-> 0, scopes |-> codes[c].scopes,
        admitted |-> account[codes[c].user] = "enabled"]]
  /\ UNCHANGED <<tokens, account, clients, purging, now>>

(* redeem: the row is claimed first and the checks fail after, so the code *)
(* is spent and nothing is issued.                                         *)
RedeemRefused(r, cl, c, uri, verifier) ==
  /\ MayAsk(r, cl, AuthorizationCode)
  /\ UnspentCode(c, cl)
  /\ ~ProvesCode(c, uri, verifier)
  /\ codes' = [codes EXCEPT ![c].used = TRUE]
  /\ UNCHANGED <<tokens, req, account, clients, purging, now>>

(* redeem: the UPDATE claimed nothing; a second statement asks why.        *)
RedeemMissed(r, cl, c) ==
  /\ MayAsk(r, cl, AuthorizationCode)
  /\ c \in DOMAIN codes /\ ~UnspentCode(c, cl)
  /\ req' = [req EXCEPT ![r] = Asking("check_replay", cl, c, 0)]
  /\ UNCHANGED <<codes, tokens, account, clients, purging, now>>

(* The SELECT of a spent code: Replayed, or a plain invalid_grant.         *)
CheckReplay(r) ==
  /\ req[r].at = "check_replay"
  /\ IF SpentCode(FamilyOf(r), req[r].client)
     THEN Goto(r, "revoke_family")
     ELSE Finish(r)
  /\ UNCHANGED <<codes, tokens, account, clients, purging, now>>

(* Mutant: the presented token is revoked, not its family.                 *)
RevokePresented(r) ==
  /\ req[r].at = "revoke_family"
  /\ tokens' = [t \in DOMAIN tokens |->
       IF Token(t) /\ t = req[r].token
       THEN [tokens[t] EXCEPT !.revoked = TRUE] ELSE tokens[t]]
  /\ Finish(r)
  /\ UNCHANGED <<codes, account, clients, purging, now>>

(* revoke_family, after which the request answers invalid_grant.           *)
RevokeFamily(r) ==
  /\ req[r].at = "revoke_family"
  /\ tokens' = [t \in DOMAIN tokens |->
       IF Token(t) /\ tokens[t].family = FamilyOf(r)
       THEN [tokens[t] EXCEPT !.revoked = TRUE] ELSE tokens[t]]
  /\ Finish(r)
  /\ UNCHANGED <<codes, account, clients, purging, now>>

(* grant::issue up to the refresh token: the access token is signed, and   *)
(* with openid the user is read again for the ID token.  A rotation        *)
(* already holds its refresh token; the code path mints one only if        *)
(* offline_access was granted and the client may refresh.                  *)
Sign(r) ==
  LET user == codes[FamilyOf(r)].user
  IN /\ req[r].at = "sign"
     /\ \/ /\ Openid \in req[r].scopes /\ account[user] = "deleted"
           /\ Finish(r)
        \/ /\ Openid \in req[r].scopes => account[user] # "deleted"
           /\ Goto(r, IF /\ req[r].token = 0
                         /\ OfflineAccess \in req[r].scopes
                         /\ RefreshToken \in GrantTypes[req[r].client]
                      THEN "mint" ELSE "reply")
     /\ UNCHANGED <<codes, tokens, account, clients, purging, now>>

(* grant::issue: mint the first refresh token of the family.               *)
MintFirst(r) ==
  LET code == codes[FamilyOf(r)]
  IN /\ req[r].at = "mint"
     /\ IF ForeignKeysHold(code.user, req[r].client)
        THEN /\ Len(tokens) < MaxTokens
             /\ tokens' = Append(tokens, MintedRow(code.user, req[r].client,
                                                   req[r].scopes, FamilyOf(r)))
             /\ req' = [req EXCEPT ![r] = Minted(r, "reply", Len(tokens) + 1)]
        ELSE Finish(r) /\ UNCHANGED tokens
     /\ UNCHANGED <<codes, account, clients, purging, now>>

-----------------------------------------------------------------------------
(* grant_type=refresh_token.                                               *)

(* Mutant: the presented token is read but not spent.                      *)
RotateRead(r, cl, t) ==
  /\ MayAsk(r, cl, RefreshToken)
  /\ Usable(t) /\ tokens[t].sent /\ tokens[t].client = cl
  /\ req' = [req EXCEPT ![r] =
       [at |-> "rotate", client |-> cl, family |-> tokens[t].family,
        token |-> t, successor |-> 0, scopes |-> tokens[t].scopes,
        admitted |-> account[tokens[t].user] = "enabled"]]
  /\ UNCHANGED <<codes, tokens, account, clients, purging, now>>

(* rotate: the claiming UPDATE spends the presented token.                 *)
RotateClaim(r, cl, t) ==
  /\ MayAsk(r, cl, RefreshToken)
  /\ Usable(t) /\ tokens[t].sent /\ tokens[t].client = cl
  /\ tokens' = [tokens EXCEPT ![t].used = TRUE]
  /\ req' = [req EXCEPT ![r] =
       [at |-> "rotate", client |-> cl, family |-> tokens[t].family,
        token |-> t, successor |-> 0, scopes |-> tokens[t].scopes,
        admitted |-> account[tokens[t].user] = "enabled"]]
  /\ UNCHANGED <<codes, account, clients, purging, now>>

(* rotate: nothing claimed, because the token is spent, revoked, expired,  *)
(* gone or another client's.                                               *)
RotateMissed(r, cl, t) ==
  /\ MayAsk(r, cl, RefreshToken)
  /\ t \in DOMAIN tokens /\ tokens[t].sent
  /\ ~(Usable(t) /\ tokens[t].client = cl)
  /\ req' = [req EXCEPT ![r] =
       Asking("check_reuse", cl, tokens[t].family, t)]
  /\ UNCHANGED <<codes, tokens, account, clients, purging, now>>

(* detect_reuse: was this a spent token of this client?                    *)
DetectReuse(r) ==
  /\ req[r].at = "check_reuse"
  /\ IF SpentToken(req[r].token, req[r].client)
     THEN Goto(r, "revoke_family")
     ELSE Finish(r)
  /\ UNCHANGED <<codes, tokens, account, clients, purging, now>>

(* rotate: mint the successor, in the family and with everything the       *)
(* spent row carried.                                                      *)
MintSuccessor(r) ==
  LET spent == tokens[req[r].token]
  IN /\ req[r].at = "rotate"
     /\ IF ForeignKeysHold(spent.user, req[r].client)
        THEN /\ Len(tokens) < MaxTokens
             /\ tokens' = Append(tokens, MintedRow(spent.user, req[r].client,
                                                   spent.scopes, spent.family))
             /\ req' = [req EXCEPT ![r] = Minted(r, "link", Len(tokens) + 1)]
        ELSE Finish(r) /\ UNCHANGED tokens
     /\ UNCHANGED <<codes, account, clients, purging, now>>

(* Mutant: the bind parameters of the linking UPDATE are swapped.          *)
LinkBackwards(r) ==
  /\ req[r].at = "link"
  /\ tokens' = [tokens EXCEPT ![req[r].successor].replaced_by = req[r].token]
  /\ Goto(r, "check_account")
  /\ UNCHANGED <<codes, account, clients, purging, now>>

(* rotate: point the spent row at its successor, unless either is gone.    *)
Link(r) ==
  /\ req[r].at = "link"
  /\ tokens' = [tokens EXCEPT ![req[r].token].replaced_by =
       IF Token(req[r].token) /\ Token(req[r].successor)
       THEN req[r].successor ELSE @]
  /\ Goto(r, "check_account")
  /\ UNCHANGED <<codes, account, clients, purging, now>>

(* What the refresh request may name: less than it holds, never more;      *)
(* naming nothing keeps everything (scope::resolve).                       *)
Resolved(requested, held) == IF requested = {} THEN held ELSE requested

(* refresh_grant after the rotation: a scope outside the token's refuses   *)
(* the request, though the token is already spent; an account that can no  *)
(* longer sign in takes the family down.                                   *)
CheckAccount(r, requested) ==
  /\ req[r].at = "check_account"
  /\ \/ /\ ~(Resolved(requested, req[r].scopes) \subseteq req[r].scopes)
        /\ Finish(r)
     \/ /\ Resolved(requested, req[r].scopes) \subseteq req[r].scopes
        /\ IF UserBelongs(tokens[req[r].token].user)
           THEN req' = [req EXCEPT ![r].at = "sign",
                          ![r].scopes = Resolved(requested, @)]
           ELSE Goto(r, "revoke_family")
  /\ UNCHANGED <<codes, tokens, account, clients, purging, now>>

-----------------------------------------------------------------------------
(* The response leaves, and with it the secret of the refresh token.       *)
Reply(r) ==
  /\ req[r].at = "reply"
  /\ tokens' = [t \in DOMAIN tokens |->
       IF t = req[r].successor THEN [tokens[t] EXCEPT !.sent = TRUE]
       ELSE tokens[t]]
  /\ Finish(r)
  /\ UNCHANGED <<codes, account, clients, purging, now>>

(* A request stops between two statements: the client disconnects, the     *)
(* server dies, a statement or the signing key fails.  What it has written *)
(* stays.                                                                  *)
Abort(r) ==
  /\ req[r].at # "idle"
  /\ Finish(r)
  /\ UNCHANGED <<codes, tokens, account, clients, purging, now>>

(* The revocation endpoint (RFC 7009): one token of the asking client.     *)
RevokeToken(cl, t) ==
  /\ cl \in clients
  /\ Token(t) /\ tokens[t].sent /\ tokens[t].client = cl /\ ~tokens[t].revoked
  /\ tokens' = [tokens EXCEPT ![t].revoked = TRUE]
  /\ UNCHANGED <<codes, req, account, clients, purging, now>>

-----------------------------------------------------------------------------
(* The purge command deletes codes and then, in a later statement, tokens. *)
PurgeCodes ==
  /\ purging = "idle"
  /\ codes' = [c \in DOMAIN codes |->
       IF codes[c].expires_at + CodeRetention < now
       THEN [codes[c] EXCEPT !.deleted = TRUE] ELSE codes[c]]
  /\ purging' = "codes_done"
  /\ UNCHANGED <<tokens, req, account, clients, now>>

(* Mutant: spent tokens are purged before they expire.                     *)
PurgeSpentTokens ==
  /\ purging = "codes_done"
  /\ tokens' = [t \in DOMAIN tokens |->
       IF tokens[t].expires_at < now \/ tokens[t].used
       THEN [tokens[t] EXCEPT !.deleted = TRUE] ELSE tokens[t]]
  /\ purging' = "idle"
  /\ UNCHANGED <<codes, req, account, clients, now>>

PurgeTokens ==
  /\ purging = "codes_done"
  /\ tokens' = [t \in DOMAIN tokens |->
       IF tokens[t].expires_at < now
       THEN [tokens[t] EXCEPT !.deleted = TRUE] ELSE tokens[t]]
  /\ purging' = "idle"
  /\ UNCHANGED <<codes, req, account, clients, now>>

(* Administration of accounts and clients.  Deleting either cascades.      *)
DisableUser(u) ==
  /\ account[u] = "enabled"
  /\ account' = [account EXCEPT ![u] = "disabled"]
  /\ UNCHANGED <<codes, tokens, req, clients, purging, now>>

Serves(r, u) == /\ req[r].at \notin {"idle", "check_replay", "check_reuse"}
                /\ FamilyOf(r) \in DOMAIN codes /\ codes[FamilyOf(r)].user = u

EnableUser(u) ==
  /\ account[u] = "disabled"
  /\ account' = [account EXCEPT ![u] = "enabled"]
  /\ req' = [r \in Request |->
       IF Serves(r, u) THEN [req[r] EXCEPT !.admitted = TRUE] ELSE req[r]]
  /\ UNCHANGED <<codes, tokens, clients, purging, now>>

Cascade(Gone(_)) ==
  /\ codes' = [c \in DOMAIN codes |->
       IF Gone(codes[c]) THEN [codes[c] EXCEPT !.deleted = TRUE] ELSE codes[c]]
  /\ tokens' = [t \in DOMAIN tokens |->
       IF Gone(tokens[t]) THEN [tokens[t] EXCEPT !.deleted = TRUE]
       ELSE tokens[t]]

DeleteUser(u) ==
  /\ account[u] # "deleted"
  /\ account' = [account EXCEPT ![u] = "deleted"]
  /\ Cascade(LAMBDA row : row.user = u)
  /\ UNCHANGED <<req, clients, purging, now>>

DeleteClient(cl) ==
  /\ cl \in clients
  /\ clients' = clients \ {cl}
  /\ Cascade(LAMBDA row : row.client = cl)
  /\ UNCHANGED <<req, account, purging, now>>

Tick ==
  /\ now < MaxTime
  /\ now' = now + 1
  /\ UNCHANGED <<codes, tokens, req, account, clients, purging>>

-----------------------------------------------------------------------------
Presented == Verifier \cup {None}

CodeGrant(r) ==
  \/ \E cl \in Client, c \in DOMAIN codes :
       \/ \E uri \in Uri, v \in Presented :
            RedeemGranted(r, cl, c, uri, v) \/ RedeemRefused(r, cl, c, uri, v)
       \/ RedeemMissed(r, cl, c)
  \/ CheckReplay(r)
  \/ MintFirst(r)

RefreshGrant(r) ==
  \/ \E cl \in Client, t \in DOMAIN tokens :
       RotateClaim(r, cl, t) \/ RotateMissed(r, cl, t)
  \/ DetectReuse(r)
  \/ MintSuccessor(r)
  \/ Link(r)
  \/ \E requested \in ScopeSets \cup {{}} : CheckAccount(r, requested)

RequestStep(r) ==
  CodeGrant(r) \/ RefreshGrant(r) \/ RevokeFamily(r) \/ Sign(r) \/ Reply(r)
  \/ Abort(r)

Administration ==
  \/ \E u \in User : DisableUser(u) \/ EnableUser(u) \/ DeleteUser(u)
  \/ \E cl \in Client : DeleteClient(cl)
  \/ \E cl \in Client, t \in DOMAIN tokens : RevokeToken(cl, t)
  \/ PurgeCodes \/ PurgeTokens

Next ==
  \/ \E u \in User, cl \in Client, s \in ScopeSets, uri \in Uri, v \in Presented :
       IssueCode(u, cl, s, uri, v)
  \/ \E r \in Request : RequestStep(r)
  \/ Administration
  \/ Tick

Spec == Init /\ [][Next]_vars

-----------------------------------------------------------------------------
(* A request that has spent its family's credential and not yet stored the *)
(* next one.                                                               *)
Pending(r) ==
  \/ req[r].at \in {"mint", "rotate"}
  \/ req[r].at = "sign" /\ req[r].token = 0

HoldersOf(f) == {r \in Request : Pending(r) /\ FamilyOf(r) = f}

(* The code or the one unspent token of a family, or the request that is   *)
(* exchanging it: never two of these.                                      *)
OneCredential ==
  /\ \A s, t \in DOMAIN tokens :
       /\ tokens[s].family = tokens[t].family
       /\ ~tokens[s].used /\ ~tokens[t].used
       => s = t
  /\ \A r \in Request, t \in DOMAIN tokens :
       Pending(r) /\ tokens[t].family = FamilyOf(r) => tokens[t].used
  /\ \A q, r \in Request :
       Pending(q) /\ Pending(r) /\ FamilyOf(q) = FamilyOf(r) => q = r

(* The rows a request refers to exist and agree with what it remembers.    *)
RequestsWellFormed ==
  \A r \in Request :
    /\ req[r].at \in {"sign", "mint", "rotate", "link", "check_account", "reply"} =>
         /\ FamilyOf(r) \in DOMAIN codes /\ codes[FamilyOf(r)].used
         /\ req[r].client = codes[FamilyOf(r)].client
         /\ req[r].scopes \subseteq codes[FamilyOf(r)].scopes
    /\ req[r].at \in {"rotate", "link", "check_account"} =>
         /\ req[r].token \in DOMAIN tokens
         /\ tokens[req[r].token].family = FamilyOf(r)
    /\ req[r].at \in {"link", "check_account"} =>
         req[r].successor \in DOMAIN tokens

(* What a token grants descends from the code it was first exchanged for:  *)
(* the same client and user, never a wider scope (code.rs, "Bound to the   *)
(* client").                                                               *)
Lineage ==
  \A t \in DOMAIN tokens :
    LET f == tokens[t].family
    IN /\ f \in DOMAIN codes /\ codes[f].used
       /\ tokens[t].client = codes[f].client
       /\ tokens[t].user = codes[f].user
       /\ tokens[t].scopes \subseteq codes[f].scopes

(* The inductive invariant.                                                *)
IInv == TypeOK /\ RequestsWellFormed /\ Lineage /\ OneCredential

(* The phase of a family in the abstract specification.                    *)
PhaseOf(f) ==
  IF f \notin DOMAIN codes THEN "unissued"
  ELSE IF Code(f) /\ ~codes[f].used /\ now < codes[f].expires_at THEN "code"
  ELSE IF HoldersOf(f) # {} THEN "exchange"
  ELSE IF \E t \in DOMAIN tokens : tokens[t].family = f /\ Usable(t) THEN "token"
  ELSE "ended"

Abstract == INSTANCE GrantFamily
  WITH Family <- 1..MaxCodes, phase <- [f \in 1..MaxCodes |-> PhaseOf(f)]

(* The table implements the abstract family: whatever requests, purges and *)
(* administration interleave, a family is carried by one credential at a   *)
(* time and an ended family never revives.                                 *)
ImplementsFamily == Abstract!Spec

(* However the exchanges of one authorization interleave, no two refresh   *)
(* tokens of its family are ever accepted (refresh.rs, rotate).            *)
OneUsableToken ==
  \A s, t \in DOMAIN tokens :
    Usable(s) /\ Usable(t) /\ tokens[s].family = tokens[t].family => s = t

(* replaced_by links the spent tokens of a family into one chain that an   *)
(* investigation can walk: forward, within the family, never two into one. *)
SuccessorChain ==
  \A t \in DOMAIN tokens : tokens[t].replaced_by # 0 =>
    LET s == tokens[t].replaced_by
    IN /\ s \in DOMAIN tokens /\ s > t
       /\ tokens[t].used /\ tokens[s].family = tokens[t].family
       /\ \A q \in DOMAIN tokens : tokens[q].replaced_by = s => q = t

(* A spent credential stays on file while presenting it could still be a   *)
(* replay: tokens until they expire, codes until their retention is over.  *)
SpentStaysDetectable ==
  /\ \A t \in DOMAIN tokens :
       /\ tokens[t].used /\ now <= tokens[t].expires_at
       /\ ForeignKeysHold(tokens[t].user, tokens[t].client)
       => Token(t)
  /\ \A c \in DOMAIN codes :
       /\ codes[c].used /\ now <= codes[c].expires_at + CodeRetention
       /\ ForeignKeysHold(codes[c].user, codes[c].client)
       => Code(c)

(* A revocation of a family with no exchange in flight ends the family,    *)
(* whichever of its tokens was the live one.                               *)
QuietRevocationEnds ==
  [][\A r \in Request, f \in DOMAIN codes :
       RevokeFamily(r) /\ FamilyOf(r) = f /\ HoldersOf(f) = {}
         => PhaseOf(f)' = "ended"]_vars

(* A refresh is only ever answered for an account that was enabled at some *)
(* moment of the request (oidc.rs, "A disabled account must not be able to *)
(* refresh its way back in").                                              *)
RefreshNeedsEnabledAccount ==
  [][\A r \in Request : Reply(r) /\ req[r].token # 0 => req[r].admitted]_vars
=============================================================================
