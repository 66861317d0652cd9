-------------------------------- MODULE SignIn --------------------------------
(***************************************************************************)
(* Passwords and sessions: login::authenticate with its lockout, the       *)
(* sessions it opens, the password reset that ends them and the            *)
(* administrator who changes an account (identity/src/{login,session,     *)
(* recovery,admin}.rs).                                                    *)
(*                                                                         *)
(* Each SQL statement is a step.  The second factor is the module          *)
(* SecondFactor; here answering a challenge is one step.  A login that     *)
(* succeeds also records an attempt, which nothing reads and which is left *)
(* out.  Accounts are not deleted.                                         *)
(***************************************************************************)
EXTENDS Naturals, Sequences, FiniteSets

CONSTANTS
  User, Identifier, Address, Password, Request,
  None,               \* nobody, and nothing
  Owner,              \* the user whose username or email an identifier is
  FirstPassword,      \* each user's password at the start
  Stale,              \* the users whose hash was made under weaker parameters
  MaxPerIdentifier,   \* login.rs MAX_ATTEMPTS_PER_IDENTIFIER
  MaxPerAddress,      \* login.rs MAX_ATTEMPTS_PER_ADDRESS
  Window,             \* login.rs WINDOW
  SessionLifetime, ChallengeLifetime, ResetLifetime,
  MaxEvents, MaxTime  \* bounds

ASSUME OwnerAssumption == None \notin User \cup Password /\ Owner \in [Identifier -> User \cup {None}]
ASSUME PasswordAssumption == FirstPassword \in [User -> Password]
ASSUME RequestAssumption == IsFiniteSet(Request)
ASSUME LimitAssumption ==
  /\ MaxPerIdentifier \in Nat \ {0} /\ MaxPerAddress \in Nat \ {0} /\ Window \in Nat
  /\ {SessionLifetime, ChallengeLifetime, ResetLifetime} \subseteq Nat

VARIABLES
  passwords,   \* user_passwords: the password behind the hash, and its vintage
  enabled,     \* users.enabled
  enrolled,    \* the users with a confirmed second factor, which does not change here
  blocked,     \* the users whom organization::blocks_sign_in stops
  attempts,    \* login_attempts: the failed ones
  sessions,    \* sessions
  challenges,  \* mfa_challenges that can still be answered
  resets,      \* password_reset_tokens, in order
  req,         \* the requests in progress
  ended,       \* history: how often each user's sessions have been revoked
  cut,         \* history: the users one of whose resets or disablings stopped
               \* before the revocation, or whose new password a rehash has
               \* overwritten, since the last one that got there
  changes,     \* how often an administrator has stopped an account
  opened,      \* how many sessions and challenges have been created
  now

vars == <<passwords, enabled, enrolled, blocked, attempts, sessions, challenges, resets,
          req, ended, cut, changes, opened, now>>

accounts == <<passwords, enabled, blocked, changes>>
history == <<ended, cut>>

At == {"idle", "identifier", "address", "locked", "read", "failed",
       "organization", "rehash", "finish", "open", "set_password",
       "revoke", "clear"}

(* A request's locals: `stale' is about the hash that was read and `epoch' *)
(* is the user's `ended' at that moment, `reset' tells a reset from a      *)
(* disabling, `left' holds the identifiers a reset still has to clear.     *)
Locals == [at : At, user : User \cup {None}, identifier : Identifier \cup {None},
           address : Address \cup {None}, password : Password \cup {None}, stale : BOOLEAN, epoch : Nat,
           reset : BOOLEAN, left : SUBSET Identifier]

(* `id' is the row's place; `checked' tells a refusal that checked the     *)
(* password from one of the lockout.                                       *)
Failure == [id : Nat, identifier : Identifier, address : Address, at : Nat, checked : BOOLEAN]

Login == [id : Nat, user : User, password : Password, epoch : Nat, expires_at : Nat]

NoLocals == [at |-> "idle", user |-> None, identifier |-> None, address |-> None,
             password |-> None, stale |-> FALSE, epoch |-> 0, reset |-> FALSE, left |-> {}]

TypeOK ==
  /\ passwords \in [User -> [value : Password, stale : BOOLEAN]]
  /\ enabled \in [User -> BOOLEAN] /\ enrolled \subseteq User
  /\ blocked \subseteq User
  /\ attempts \subseteq Failure
  /\ sessions \subseteq Login /\ challenges \subseteq Login
  /\ resets \in Seq([user : User, expires_at : Nat, used : BOOLEAN])
  /\ req \in [Request -> Locals]
  /\ \A r \in Request : req[r].at \in {"rehash", "finish", "open", "set_password", "revoke"}
                        => req[r].user # None
  /\ ended \in [User -> Nat] /\ cut \subseteq User
  /\ changes \in Nat /\ opened \in Nat /\ now \in Nat

Init ==
  /\ passwords = [u \in User |-> [value |-> FirstPassword[u], stale |-> u \in Stale]]
  /\ enabled = [u \in User |-> TRUE] /\ enrolled \in SUBSET User
  /\ blocked = {}
  /\ attempts = {} /\ sessions = {} /\ challenges = {} /\ resets = <<>>
  /\ req = [r \in Request |-> NoLocals]
  /\ ended = [u \in User |-> 0] /\ cut = {}
  /\ changes = 0 /\ opened = 0 /\ now = 0

-----------------------------------------------------------------------------
(* Failures, resets, sessions, challenges and changes share one bound.     *)
Room == Cardinality(attempts) + Len(resets) + opened + changes < MaxEvents

Goto(r, at) == req' = [req EXCEPT ![r].at = at]

Idle(r) == req' = [req EXCEPT ![r] = NoLocals]

Recent(t) == t.at + Window > now

(* The two counts of is_locked.                                            *)
FailuresOf(i) == {t \in attempts : t.identifier = i /\ Recent(t)}
FailuresFrom(a) == {t \in attempts : t.address = a /\ Recent(t)}

(* The places no recorded failure takes.                                   *)
Free == {n \in 1..MaxEvents : \A t \in attempts : t.id # n}

(* The login is refused; what it was for is recorded.                      *)
Refuse(r, at) ==
  req' = [req EXCEPT ![r] = [NoLocals EXCEPT !.at = at, !.identifier = req[r].identifier,
                                             !.address = req[r].address]]

NewLogin(r, u, epoch, lifetime) ==
  [id |-> opened + 1, user |-> u, password |-> req[r].password, epoch |-> epoch,
   expires_at |-> now + lifetime]

-----------------------------------------------------------------------------
(* authenticate: somebody submits a password ...                           *)
Attempt(r, i, a, p) ==
  /\ req[r].at = "idle"
  /\ req' = [req EXCEPT ![r] =
       [@ EXCEPT !.at = "identifier", !.identifier = i, !.address = a, !.password = p]]
  /\ UNCHANGED <<accounts, attempts, sessions, challenges, resets, history, opened, now>>

(* ... the recent failures are counted, by identifier and by address ...   *)
CountByIdentifier(r) ==
  /\ req[r].at = "identifier"
  /\ IF Cardinality(FailuresOf(req[r].identifier)) >= MaxPerIdentifier
     THEN Refuse(r, "locked") ELSE Goto(r, "address")
  /\ UNCHANGED <<accounts, attempts, sessions, challenges, resets, history, opened, now>>

(* Mutant: one failure more is let through.                                *)
CountOneMore(r) ==
  /\ req[r].at = "address"
  /\ IF Cardinality(FailuresFrom(req[r].address)) > MaxPerAddress
     THEN Refuse(r, "locked") ELSE Goto(r, "read")
  /\ UNCHANGED <<accounts, attempts, sessions, challenges, resets, history, opened, now>>

CountByAddress(r) ==
  /\ req[r].at = "address"
  /\ IF Cardinality(FailuresFrom(req[r].address)) >= MaxPerAddress
     THEN Refuse(r, "locked") ELSE Goto(r, "read")
  /\ UNCHANGED <<accounts, attempts, sessions, challenges, resets, history, opened, now>>

(* Mutant: an identifier that is nobody's passes the check.                *)
ReadAnybody(r) ==
  LET u == Owner[req[r].identifier]
  IN /\ req[r].at = "read"
     /\ IF u \in User => passwords[u].value = req[r].password /\ enabled[u]
        THEN req' = [req EXCEPT ![r] =
               [@ EXCEPT !.at = "organization", !.user = u,
                         !.stale = u \in User /\ passwords[u].stale,
                         !.epoch = IF u \in User THEN ended[u] ELSE 0]]
        ELSE Refuse(r, "failed")
     /\ UNCHANGED <<accounts, attempts, sessions, challenges, resets, history, opened, now>>

(* ... the account is read and the password checked ...                    *)
ReadAccount(r) ==
  LET u == Owner[req[r].identifier]
  IN /\ req[r].at = "read"
     /\ IF u \in User /\ passwords[u].value = req[r].password /\ enabled[u]
        THEN req' = [req EXCEPT ![r] =
               [@ EXCEPT !.at = "organization", !.user = u,
                         !.stale = passwords[u].stale, !.epoch = ended[u]]]
        ELSE Refuse(r, "failed")
     /\ UNCHANGED <<accounts, attempts, sessions, challenges, resets, history, opened, now>>

(* organization::blocks_sign_in: all organisations of the user are         *)
(* suspended.                                                              *)
BlocksSignIn(u) == u \in blocked

(* ... the organisations of the user are asked ...                         *)
CheckOrganization(r) ==
  /\ req[r].at = "organization"
  /\ IF BlocksSignIn(req[r].user) THEN Refuse(r, "failed")
     ELSE req' = [req EXCEPT ![r].at = IF req[r].stale THEN "rehash" ELSE "finish",
                             ![r].identifier = None, ![r].address = None, ![r].stale = FALSE]
  /\ UNCHANGED <<accounts, attempts, sessions, challenges, resets, history, opened, now>>

(* ... a hash of weaker parameters is replaced by one of the password that *)
(* was submitted; the login goes on when that fails ...                    *)
Rehash(r) ==
  /\ req[r].at = "rehash"
  /\ passwords' \in {passwords, [passwords EXCEPT ![req[r].user] =
                                   [value |-> req[r].password, stale |-> FALSE]]}
  /\ cut' = IF passwords'[req[r].user].value = passwords[req[r].user].value
            THEN cut ELSE cut \cup {req[r].user}
  /\ Goto(r, "finish")
  /\ UNCHANGED <<enabled, blocked, changes, attempts, sessions, challenges, resets,
                 ended, opened, now>>

(* ... and a challenge or a session is created.                            *)
FinishLogin(r) ==
  LET u == req[r].user
  IN /\ req[r].at = "finish" /\ Room
     /\ IF u \in enrolled
        THEN /\ challenges' = challenges \cup {NewLogin(r, u, req[r].epoch, ChallengeLifetime)}
             /\ UNCHANGED sessions
        ELSE /\ sessions' = sessions \cup {NewLogin(r, u, req[r].epoch, SessionLifetime)}
             /\ UNCHANGED challenges
     /\ opened' = opened + 1
     /\ Idle(r)
     /\ UNCHANGED <<accounts, attempts, resets, history, now>>

(* record: every refusal is a failed attempt, a locked-out one too.        *)
RecordFailure(r) ==
  /\ req[r].at \in {"locked", "failed"} /\ Room
  /\ \E n \in Free :
       /\ \A m \in Free : n <= m
       /\ attempts' = attempts \cup
            {[id |-> n, identifier |-> req[r].identifier, address |-> req[r].address,
              at |-> now, checked |-> req[r].at = "failed"]}
  /\ Idle(r)
  /\ UNCHANGED <<accounts, sessions, challenges, resets, history, opened, now>>

(* second_factor: a challenge is answered and spent ...                    *)
AnswerChallenge(r, c) ==
  /\ req[r].at = "idle" /\ now < c.expires_at
  /\ challenges' = challenges \ {c}
  /\ req' = [req EXCEPT ![r] =
       [@ EXCEPT !.at = "open", !.user = c.user, !.password = c.password, !.epoch = c.epoch]]
  /\ UNCHANGED <<accounts, attempts, sessions, resets, history, opened, now>>

(* ... and opens a session.                                                *)
OpenSession(r) ==
  /\ req[r].at = "open" /\ Room
  /\ sessions' = sessions \cup {NewLogin(r, req[r].user, req[r].epoch, SessionLifetime)}
  /\ opened' = opened + 1
  /\ Idle(r)
  /\ UNCHANGED <<accounts, attempts, challenges, resets, history, now>>

LogOut(s) ==
  /\ sessions' = sessions \ {s}
  /\ UNCHANGED <<accounts, attempts, challenges, resets, req, history, opened, now>>

-----------------------------------------------------------------------------
RequestReset(u) ==
  /\ Room
  /\ resets' = Append(resets, [user |-> u, expires_at |-> now + ResetLifetime, used |-> FALSE])
  /\ UNCHANGED <<accounts, attempts, sessions, challenges, req, history, opened, now>>

(* complete_password_reset: the link is spent ...                          *)
ClaimReset(r, k, p) ==
  /\ req[r].at = "idle"
  /\ ~resets[k].used /\ now < resets[k].expires_at
  /\ resets' = [resets EXCEPT ![k].used = TRUE]
  /\ req' = [req EXCEPT ![r] =
       [@ EXCEPT !.at = "set_password", !.user = resets[k].user, !.password = p,
                 !.reset = TRUE]]
  /\ UNCHANGED <<accounts, attempts, sessions, challenges, history, opened, now>>

(* Mutant: the sessions of the account go first, the password after.       *)
SetPasswordLast(r) ==
  LET u == req[r].user
  IN /\ \/ /\ req[r].at = "set_password" /\ req[r].left = {}
           /\ sessions' = {s \in sessions : s.user # u}
           /\ ended' = [ended EXCEPT ![u] = @ + 1]
           /\ req' = [req EXCEPT ![r].left = {i \in Identifier : Owner[i] = u}]
           /\ UNCHANGED passwords
        \/ /\ req[r].at = "set_password" /\ req[r].left # {}
           /\ passwords' = [passwords EXCEPT ![u] = [value |-> req[r].password, stale |-> FALSE]]
           /\ Goto(r, "clear")
           /\ UNCHANGED <<sessions, ended>>
     /\ UNCHANGED <<enabled, blocked, changes, attempts, challenges, resets, cut, opened, now>>

(* ... the password replaced ...                                           *)
SetPassword(r) ==
  /\ req[r].at = "set_password"
  /\ passwords' = [passwords EXCEPT ![req[r].user] =
       [value |-> req[r].password, stale |-> FALSE]]
  /\ Goto(r, "revoke")
  /\ UNCHANGED <<enabled, blocked, changes, attempts, sessions, challenges, resets,
                 history, opened, now>>

(* ... session::revoke_all_for_user called, by a reset and by a disabling  *)
(* alike ...                                                               *)
RevokeSessions(r) ==
  LET u == req[r].user
  IN /\ req[r].at = "revoke"
     /\ sessions' = {s \in sessions : s.user # u}
     /\ ended' = [ended EXCEPT ![u] = @ + 1] /\ cut' = cut \ {u}
     /\ IF req[r].reset
        THEN req' = [req EXCEPT ![r] =
               [@ EXCEPT !.at = "clear", !.left = {i \in Identifier : Owner[i] = u}]]
        ELSE Idle(r)
     /\ UNCHANGED <<accounts, attempts, challenges, resets, opened, now>>

(* ... and the failures recorded against the account's names cleared, one  *)
(* name at a time.                                                         *)
ClearFailures(r) ==
  /\ req[r].at = "clear"
  /\ \E i \in req[r].left :
       /\ attempts' = {t \in attempts : t.identifier # i}
       /\ IF req[r].left = {i} THEN Idle(r) ELSE req' = [req EXCEPT ![r].left = @ \ {i}]
  /\ UNCHANGED <<accounts, sessions, challenges, resets, history, opened, now>>

-----------------------------------------------------------------------------
(* set_user_enabled: the account is disabled, its sessions end after that. *)
Disable(r, u) ==
  /\ req[r].at = "idle" /\ Room
  /\ enabled' = [enabled EXCEPT ![u] = FALSE]
  /\ changes' = changes + 1
  /\ req' = [req EXCEPT ![r] = [@ EXCEPT !.at = "revoke", !.user = u]]
  /\ UNCHANGED <<passwords, blocked, attempts, sessions, challenges, resets, history,
                 opened, now>>

Enable(u) ==
  /\ ~enabled[u]
  /\ enabled' = [enabled EXCEPT ![u] = TRUE]
  /\ UNCHANGED <<passwords, blocked, changes, attempts, sessions, challenges, resets, req,
                 history, opened, now>>

(* Organisations are suspended and reinstated, members join and leave:     *)
(* whether one of them stops the user changes.                             *)
Suspend(u) ==
  /\ u \notin blocked /\ Room
  /\ blocked' = blocked \cup {u}
  /\ changes' = changes + 1
  /\ UNCHANGED <<passwords, enabled, attempts, sessions, challenges, resets, req,
                 history, opened, now>>

Reinstate(u) ==
  /\ u \in blocked
  /\ blocked' = blocked \ {u}
  /\ UNCHANGED <<passwords, enabled, changes, attempts, sessions, challenges, resets, req,
                 history, opened, now>>

-----------------------------------------------------------------------------
(* A reset link whose row is gone is refused as one already used is.       *)
Purge ==
  /\ \/ \E s \in sessions \cup challenges : s.expires_at <= now
     \/ \E k \in DOMAIN resets : ~resets[k].used /\ resets[k].expires_at <= now
  /\ sessions' = {s \in sessions : s.expires_at > now}
  /\ challenges' = {c \in challenges : c.expires_at > now}
  /\ resets' = [k \in DOMAIN resets |->
       [resets[k] EXCEPT !.used = @ \/ resets[k].expires_at <= now]]
  /\ UNCHANGED <<accounts, attempts, req, history, opened, now>>

(* A request stops between two statements.                                 *)
Abort(r) ==
  /\ req[r].at # "idle"
  /\ cut' = IF req[r].at = "revoke" THEN cut \cup {req[r].user} ELSE cut
  /\ Idle(r)
  /\ UNCHANGED <<accounts, attempts, sessions, challenges, resets, ended, opened, now>>

Tick ==
  /\ now < MaxTime
  /\ now' = now + 1
  /\ UNCHANGED <<accounts, attempts, sessions, challenges, resets, req, history, opened>>

-----------------------------------------------------------------------------
Authenticate(r) ==
  \/ \E i \in Identifier, a \in Address, p \in Password : Attempt(r, i, a, p)
  \/ CountByIdentifier(r) \/ CountByAddress(r) \/ ReadAccount(r) \/ CheckOrganization(r)
  \/ Rehash(r) \/ FinishLogin(r) \/ RecordFailure(r)
  \/ \E c \in challenges : AnswerChallenge(r, c)
  \/ OpenSession(r)

CompleteReset(r) ==
  \/ \E k \in DOMAIN resets, p \in Password : ClaimReset(r, k, p)
  \/ SetPassword(r) \/ RevokeSessions(r) \/ ClearFailures(r)

Step ==
  \/ \E r \in Request : \/ Authenticate(r) \/ CompleteReset(r) \/ Abort(r)
                        \/ \E u \in User : Disable(r, u)
  \/ \E u \in User : RequestReset(u) \/ Enable(u) \/ Suspend(u) \/ Reinstate(u)
  \/ \E s \in sessions : LogOut(s)
  \/ Purge \/ Tick

Next == Step /\ UNCHANGED enrolled

Spec == Init /\ [][Next]_vars

-----------------------------------------------------------------------------
(* The lockout counts before the password is checked and records after, so *)
(* requests in flight together overrun it -- but only they: in any window  *)
(* an identifier and an address have no more guesses checked than the      *)
(* limit allows plus one for each request still in progress beside it      *)
(* (login.rs, is_locked and record).                                       *)
Checked(K) == Cardinality({t \in K : t.checked})

LockoutBounded ==
  /\ \A i \in Identifier :
       Checked(FailuresOf(i)) < MaxPerIdentifier + Cardinality(Request)
  /\ \A a \in Address :
       Checked(FailuresFrom(a)) < MaxPerAddress + Cardinality(Request)

(* Sessions that have not been revoked yet are about to be.                *)
Unsettled(u) == u \in cut \/ \E r \in Request : req[r].at = "revoke" /\ req[r].user = u

(* After a reset only the new password opens sessions: one that was opened *)
(* with another belongs to a login that read the account before the last   *)
(* revocation (recovery.rs, complete_password_reset: the password first,   *)
(* the sessions second).                                                   *)
OldPasswordsOpenNothing ==
  \A s \in sessions :
    s.epoch = ended[s.user] /\ ~Unsettled(s.user) => s.password = passwords[s.user].value

(* A disabled account is signed in only by a login that read it before its *)
(* sessions were revoked (admin.rs, set_user_enabled: the account first,   *)
(* the sessions second).                                                   *)
DisabledOpenNothing ==
  \A s \in sessions : ~enabled[s.user] /\ ~Unsettled(s.user) => s.epoch < ended[s.user]

(* A revocation of sessions reaches the logins that began before it.       *)
RevocationsHold == OldPasswordsOpenNothing /\ DisabledOpenNothing

-----------------------------------------------------------------------------
(* docs/security-model.md, "an attacker who took the password loses their  *)
(* access the moment the owner recovers": a login does not change which    *)
(* password is the account's.                                              *)
OnlyResetsChangePasswords ==
  [][\A u \in User : passwords'[u].value # passwords[u].value
       => \E r \in Request : req[r].at = "set_password" /\ req[r].user = u]_vars
=============================================================================
