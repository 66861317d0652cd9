----------------------------- MODULE SecondFactor -----------------------------
(***************************************************************************)
(* The second half of a login and the upkeep of what it is checked against *)
(* (identity/src/mfa/{mod,challenge,totp,recovery}.rs, login.rs from       *)
(* `enrolment' on, web/src/api.rs, "Managing your own second factors").    *)
(*                                                                         *)
(* A correct password has been presented: the account either gets a        *)
(* session or, if it has a confirmed authenticator, a challenge that a     *)
(* one-time code or a recovery code turns into one.  Each SQL statement is *)
(* a step and a request may stop between any two.  Time is counted in TOTP *)
(* steps of 30 seconds.  Passkeys are not in this module.                  *)
(***************************************************************************)
EXTENDS Naturals, Sequences, FiniteSets

CONSTANTS
  User, Request,
  CodeAt,             \* the digits each secret shows at each step
  Drift,              \* totp.rs DRIFT_STEPS
  MaxAttempts,        \* challenge.rs MAX_ATTEMPTS
  ChallengeLifetime,  \* challenge.rs LIFETIME, in steps
  CodesPerSet,        \* recovery.rs COUNT
  Start, MaxTime,     \* the first and the last step of the model's clock
  MaxSecrets, MaxChallenges, MaxSessions, MaxRecoveryCodes   \* bounds

Step == (Start - Drift)..(MaxTime + Drift)

ASSUME RequestAssumption == IsFiniteSet(Request)
ASSUME NumberAssumption ==
  /\ {Drift, ChallengeLifetime, CodesPerSet, Start, MaxTime, MaxSecrets,
      MaxChallenges, MaxSessions, MaxRecoveryCodes} \subseteq Nat
  /\ MaxAttempts \in Nat \ {0}
  /\ Drift < Start   \* so that 0 can stand for a last_step of NULL
ASSUME CodeAssumption == CodeAt \in [1..MaxSecrets -> [Step -> Nat]]

VARIABLES
  totp,         \* totp_credentials: at most one row per user
  recovery,     \* recovery_codes: the unused ones of each user
  challenges,   \* mfa_challenges, in insertion order
  sessions,     \* sessions
  req,          \* the requests in progress
  secrets,      \* how many secrets have been generated
  printed,      \* how many recovery codes have been generated
  spent,        \* history: <<user, proof>> for every proof ever accepted
  twice,        \* history: the secrets that two requests have confirmed
  now

vars == <<totp, recovery, challenges, sessions, req, secrets, printed, spent, twice, now>>

(* What a session can rest on besides the password.                        *)
Totp(id, step) == <<"totp", id, step>>
RecoveryCode(k) == <<"recovery", k, 0>>
PasswordOnly == <<"password", 0, 0>>

NoCredential == [id |-> 0, confirmed |-> FALSE, last_step |-> 0]

(* A confirmed credential has spent at least its confirming step.          *)
Credential == [id : Nat, confirmed : {FALSE}, last_step : {0}]
         \cup [id : Nat \ {0}, confirmed : {TRUE}, last_step : Step]
Challenge == [user : User, attempts : Nat, expires_at : Nat,
              consumed : BOOLEAN, deleted : BOOLEAN]
Session == [user : User, challenge : Nat, proof : {"totp", "recovery", "password"} \X Nat \X Nat]

At == {"idle", "challenge", "session", "totp", "claim_step", "recovery",
       "reject", "consume", "open", "enrol", "confirm", "delete_codes",
       "insert_codes"}

(* A request's locals.  `code' is what the user typed, <<id, step>> the    *)
(* row and step it matched, `old' the recovery codes a regeneration saw.   *)
Locals == [at : At, user : User, challenge : Nat, code : Nat, id : Nat,
           step : Nat, old : SUBSET Nat]

TypeOK ==
  /\ totp \in [User -> Credential]
  /\ recovery \in [User -> SUBSET Nat]
  /\ challenges \in Seq(Challenge)
  /\ sessions \subseteq Session
  /\ req \in [Request -> Locals]
  /\ secrets \in Nat /\ printed \in Nat /\ now \in Nat
  /\ spent \subseteq User \X ({"totp", "recovery"} \X Nat \X Nat)
  /\ twice \subseteq Nat

Begin(at, u) == [at |-> at, user |-> u, challenge |-> 0, code |-> 0, id |-> 0,
                 step |-> 0, old |-> {}]

Init ==
  /\ totp = [u \in User |-> NoCredential]
  /\ recovery = [u \in User |-> {}]
  /\ challenges = <<>>
  /\ sessions = {}
  /\ \E u \in User : req = [r \in Request |-> Begin("idle", u)]
  /\ secrets = 0 /\ printed = 0
  /\ spent = {} /\ twice = {}
  /\ now = Start

-----------------------------------------------------------------------------
Finish(r) == req' = [req EXCEPT ![r] = Begin("idle", req[r].user)]
Goto(r, at) == req' = [req EXCEPT ![r].at = at]
Reject(r) == req' = [req EXCEPT ![r] =
  [Begin("reject", req[r].user) EXCEPT !.challenge = req[r].challenge]]

IsRequired(u) == totp[u].confirmed

(* Mutant: the budget is not looked at.                                    *)
Unspent(c) ==
  /\ ~challenges[c].deleted /\ ~challenges[c].consumed
  /\ now < challenges[c].expires_at

(* lookup: a challenge that can still be answered.                         *)
Live(c) ==
  /\ ~challenges[c].deleted /\ ~challenges[c].consumed
  /\ now < challenges[c].expires_at
  /\ challenges[c].attempts < MaxAttempts

(* verify_code: the steps of the drift window that show these digits and   *)
(* are later than the last one spent; the earliest of them is the match.   *)
Fresh(id, code, last) ==
  {s \in (now - Drift)..(now + Drift) : CodeAt[id][s] = code /\ s > last}

Matches(step, id, code, last) ==
  step \in Fresh(id, code, last) /\ \A s \in Fresh(id, code, last) : step <= s

(* Settings are changed from a session of one's own.                       *)
SignedIn(u) == \E s \in sessions : s.user = u

-----------------------------------------------------------------------------
(* A bound: one session of each user rests on the password alone.          *)
RoomForPassword(u) ==
  /\ Cardinality(sessions) < MaxSessions
  /\ \A s \in sessions : s.user = u => s.challenge # 0

(* The requests at a point, counted by a bound where they will insert.     *)
Waiting(at) == {r \in Request : req[r].at = at}

(* authenticate, once the password was right: the enrolment is read, and   *)
(* the challenge or the session is inserted in a statement of its own.     *)
ReadEnrolment(r, u) ==
  /\ req[r].at = "idle"
  /\ IF IsRequired(u)
     THEN Len(challenges) + Cardinality(Waiting("challenge")) < MaxChallenges
     ELSE RoomForPassword(u) /\ Waiting("session") = {}
  /\ req' = [req EXCEPT ![r] =
       Begin(IF IsRequired(u) THEN "challenge" ELSE "session", u)]
  /\ UNCHANGED <<totp, recovery, challenges, sessions, secrets, printed, spent, twice, now>>

IssueChallenge(r) ==
  /\ req[r].at = "challenge"
  /\ challenges' = Append(challenges,
       [user |-> req[r].user, attempts |-> 0,
        expires_at |-> now + ChallengeLifetime,
        consumed |-> FALSE, deleted |-> FALSE])
  /\ Finish(r)
  /\ UNCHANGED <<totp, recovery, sessions, secrets, printed, spent, twice, now>>

OpenOnPassword(r) ==
  /\ req[r].at = "session" /\ RoomForPassword(req[r].user)
  /\ sessions' = sessions \cup
       {[user |-> req[r].user, challenge |-> 0, proof |-> PasswordOnly]}
  /\ Finish(r)
  /\ UNCHANGED <<totp, recovery, challenges, secrets, printed, spent, twice, now>>

-----------------------------------------------------------------------------
(* second_factor: the challenge is looked up first ...                     *)
Present(r, c, kind, code) ==
  /\ req[r].at = "idle" /\ Live(c)
  /\ req' = [req EXCEPT ![r] =
       [Begin(kind, challenges[c].user) EXCEPT !.challenge = c, !.code = code]]
  /\ UNCHANGED <<totp, recovery, challenges, sessions, secrets, printed, spent, twice, now>>

(* ... then totp::verify reads the credential and checks the code ...      *)
VerifyTotp(r) ==
  LET row == totp[req[r].user]
  IN /\ req[r].at = "totp"
     /\ \/ \E step \in Step :
             /\ row.confirmed /\ Matches(step, row.id, req[r].code, row.last_step)
             /\ req' = [req EXCEPT ![r] =
                  [@ EXCEPT !.at = "claim_step", !.code = 0, !.id = row.id, !.step = step]]
        \/ /\ row.confirmed => Fresh(row.id, req[r].code, row.last_step) = {}
           /\ Reject(r)
     /\ UNCHANGED <<totp, recovery, challenges, sessions, secrets, printed, spent, twice, now>>

(* Mutant: the UPDATE is not conditional on the stored step.               *)
OverwriteStep(r) ==
  LET u == req[r].user
  IN /\ req[r].at = "claim_step"
     /\ IF totp[u].id = req[r].id
        THEN /\ totp' = [totp EXCEPT ![u].last_step = req[r].step]
             /\ spent' = spent \cup {<<u, Totp(req[r].id, req[r].step)>>}
             /\ Goto(r, "consume")
        ELSE Reject(r) /\ UNCHANGED <<totp, spent>>
     /\ UNCHANGED <<recovery, challenges, sessions, secrets, printed, twice, now>>

(* ... and spends the matched step, unless a later one has been spent or   *)
(* the credential is gone.                                                 *)
ClaimStep(r) ==
  LET u == req[r].user
  IN /\ req[r].at = "claim_step"
     /\ IF totp[u].id = req[r].id /\ totp[u].last_step < req[r].step
        THEN /\ totp' = [totp EXCEPT ![u].last_step = req[r].step]
             /\ spent' = spent \cup {<<u, Totp(req[r].id, req[r].step)>>}
             /\ Goto(r, "consume")
        ELSE Reject(r) /\ UNCHANGED <<totp, spent>>
     /\ UNCHANGED <<recovery, challenges, sessions, secrets, printed, twice, now>>

(* recovery::claim, one atomic UPDATE.                                     *)
ClaimRecoveryCode(r) ==
  LET u == req[r].user
  IN /\ req[r].at = "recovery"
     /\ IF req[r].code \in recovery[u]
        THEN /\ recovery' = [recovery EXCEPT ![u] = @ \ {req[r].code}]
             /\ spent' = spent \cup {<<u, RecoveryCode(req[r].code)>>}
             /\ Goto(r, "consume")
        ELSE Reject(r) /\ UNCHANGED <<recovery, spent>>
     /\ UNCHANGED <<totp, challenges, sessions, secrets, printed, twice, now>>

(* A wrong answer costs an attempt; a purged challenge has none to cost.   *)
RecordFailure(r) ==
  LET c == req[r].challenge
  IN /\ req[r].at = "reject"
     /\ challenges' = [challenges EXCEPT ![c].attempts =
          IF challenges[c].deleted THEN @ ELSE @ + 1]
     /\ Finish(r)
     /\ UNCHANGED <<totp, recovery, sessions, secrets, printed, spent, twice, now>>

(* open_session: the challenge is spent, then the session is inserted.     *)
Consume(r) ==
  LET c == req[r].challenge
  IN /\ req[r].at = "consume"
     /\ IF challenges[c].consumed \/ challenges[c].deleted
        THEN Finish(r) /\ UNCHANGED challenges
        ELSE /\ challenges' = [challenges EXCEPT ![c].consumed = TRUE]
             /\ Goto(r, "open")
     /\ UNCHANGED <<totp, recovery, sessions, secrets, printed, spent, twice, now>>

(* The factor behind the accepted proof.                                   *)
ProofOf(r) == IF req[r].step # 0 THEN Totp(req[r].id, req[r].step)
              ELSE RecoveryCode(req[r].code)

OpenSession(r) ==
  /\ req[r].at = "open" /\ Cardinality(sessions) < MaxSessions
  /\ sessions' = sessions \cup
       {[user |-> req[r].user, challenge |-> req[r].challenge, proof |-> ProofOf(r)]}
  /\ Finish(r)
  /\ UNCHANGED <<totp, recovery, challenges, secrets, printed, spent, twice, now>>

-----------------------------------------------------------------------------
(* A bound: where no more codes can be printed a request stops before.     *)
RoomForCodes ==
  LET printing == Waiting("delete_codes") \cup Waiting("insert_codes")
  IN printed + CodesPerSet * (1 + Cardinality(printing)) <= MaxRecoveryCodes

(* begin_enrolment: refused while an authenticator is confirmed, checked   *)
(* before the transaction and again by the unique index inside it.         *)
BeginEnrolment(r, u) ==
  /\ req[r].at = "idle" /\ SignedIn(u) /\ ~totp[u].confirmed
  /\ secrets < MaxSecrets
  /\ req' = [req EXCEPT ![r] = Begin("enrol", u)]
  /\ UNCHANGED <<totp, recovery, challenges, sessions, secrets, printed, spent, twice, now>>

StoreEnrolment(r) ==
  LET u == req[r].user
  IN /\ req[r].at = "enrol" /\ secrets < MaxSecrets
     /\ IF totp[u].confirmed THEN UNCHANGED <<totp, secrets>>
        ELSE /\ totp' = [totp EXCEPT ![u] =
                  [id |-> secrets + 1, confirmed |-> FALSE, last_step |-> 0]]
             /\ secrets' = secrets + 1
     /\ Finish(r)
     /\ UNCHANGED <<recovery, challenges, sessions, printed, spent, twice, now>>

(* confirm: the unconfirmed row is read and the code checked against it,   *)
(* with no earlier step to respect ...                                     *)
Confirm(r, u, code) ==
  /\ req[r].at = "idle" /\ SignedIn(u)
  /\ totp[u].id # 0 /\ ~totp[u].confirmed
  /\ \E step \in Step :
       /\ Matches(step, totp[u].id, code, 0)
       /\ req' = [req EXCEPT ![r] =
            [Begin("confirm", u) EXCEPT !.id = totp[u].id, !.step = step]]
  /\ UNCHANGED <<totp, recovery, challenges, sessions, secrets, printed, spent, twice, now>>

(* Mutant: the confirming code is not spent.                               *)
ConfirmWithoutSpending(r) ==
  LET u == req[r].user
  IN /\ req[r].at = "confirm"
     /\ totp' = [totp EXCEPT ![u].confirmed = @ \/ totp[u].id = req[r].id]
     /\ spent' = spent \cup {<<u, Totp(req[r].id, req[r].step)>>}
     /\ twice' = twice \cup (IF totp[u].confirmed THEN {req[r].id} ELSE {})
     /\ IF RoomForCodes THEN req' = [req EXCEPT ![r] = Begin("delete_codes", u)]
        ELSE Finish(r)
     /\ UNCHANGED <<recovery, challenges, sessions, secrets, printed, now>>

(* ... and the row is written by id alone.  If it is gone meanwhile the    *)
(* UPDATE finds nothing, which confirm does not ask.                       *)
StoreConfirmation(r) ==
  LET u == req[r].user
  IN /\ req[r].at = "confirm"
     /\ IF totp[u].id = req[r].id
        THEN totp' = [totp EXCEPT ![u] =
               [id |-> req[r].id, confirmed |-> TRUE, last_step |-> req[r].step]]
        ELSE UNCHANGED totp
     /\ spent' = spent \cup {<<u, Totp(req[r].id, req[r].step)>>}
     /\ twice' = twice \cup (IF totp[u].confirmed THEN {req[r].id} ELSE {})
     /\ IF RoomForCodes THEN req' = [req EXCEPT ![r] = Begin("delete_codes", u)]
        ELSE Finish(r)
     /\ UNCHANGED <<recovery, challenges, sessions, secrets, printed, now>>

(* recovery::generate on the settings page.                                *)
RegenerateCodes(r, u) ==
  /\ req[r].at = "idle" /\ SignedIn(u) /\ RoomForCodes
  /\ req' = [req EXCEPT ![r] = Begin("delete_codes", u)]
  /\ UNCHANGED <<totp, recovery, challenges, sessions, secrets, printed, spent, twice, now>>

(* The DELETE of the transaction: the codes its snapshot shows.  Until the *)
(* commit a claim of one of them waits and then misses; here it may still  *)
(* succeed first, as if it had come before the DELETE.                     *)
DeleteCodes(r) ==
  /\ req[r].at = "delete_codes"
  /\ req' = [req EXCEPT ![r] =
       [@ EXCEPT !.at = "insert_codes", !.old = recovery[req[r].user]]]
  /\ UNCHANGED <<totp, recovery, challenges, sessions, secrets, printed, spent, twice, now>>

(* Its INSERT and commit.                                                  *)
InsertCodes(r) ==
  LET fresh == (printed + 1)..(printed + CodesPerSet)
  IN /\ req[r].at = "insert_codes"
     /\ recovery' = [recovery EXCEPT ![req[r].user] = (@ \ req[r].old) \cup fresh]
     /\ printed' = printed + CodesPerSet
     /\ Finish(r)
     /\ UNCHANGED <<totp, challenges, sessions, secrets, spent, twice, now>>

DisableTotp(u) ==
  /\ SignedIn(u) /\ totp[u].id # 0
  /\ totp' = [totp EXCEPT ![u] = NoCredential]
  /\ UNCHANGED <<recovery, challenges, sessions, req, secrets, printed, spent, twice, now>>

-----------------------------------------------------------------------------
Purged(u) == [user |-> u, attempts |-> 0, expires_at |-> 0,
              consumed |-> FALSE, deleted |-> TRUE]

PurgeChallenges ==
  /\ \E c \in DOMAIN challenges : ~challenges[c].deleted /\ challenges[c].expires_at < now
  /\ challenges' = [c \in DOMAIN challenges |->
       IF challenges[c].expires_at < now THEN Purged(challenges[c].user) ELSE challenges[c]]
  /\ UNCHANGED <<totp, recovery, sessions, req, secrets, printed, spent, twice, now>>

(* A request stops between two statements; an open transaction rolls back. *)
Abort(r) ==
  /\ req[r].at # "idle"
  /\ Finish(r)
  /\ UNCHANGED <<totp, recovery, challenges, sessions, secrets, printed, spent, twice, now>>

Tick ==
  /\ now < MaxTime
  /\ now' = now + 1
  /\ UNCHANGED <<totp, recovery, challenges, sessions, req, secrets, printed, spent, twice>>

-----------------------------------------------------------------------------
(* What a user can type: the digits of some secret, or a printed code.     *)
Digits == {CodeAt[i][s] : i \in 1..MaxSecrets, s \in Step}

Login(r) ==
  \/ \E u \in User : ReadEnrolment(r, u)
  \/ IssueChallenge(r) \/ OpenOnPassword(r)
  \/ \E c \in DOMAIN challenges :
       \/ \E code \in Digits : Present(r, c, "totp", code)
       \/ \E code \in 1..printed : Present(r, c, "recovery", code)
  \/ VerifyTotp(r) \/ ClaimStep(r) \/ ClaimRecoveryCode(r)
  \/ RecordFailure(r) \/ Consume(r) \/ OpenSession(r)

EnrolTotp(r) ==
  \/ \E u \in User : BeginEnrolment(r, u) \/ \E code \in Digits : Confirm(r, u, code)
  \/ StoreEnrolment(r) \/ StoreConfirmation(r)

PrintCodes(r) ==
  \/ \E u \in User : RegenerateCodes(r, u)
  \/ DeleteCodes(r) \/ InsertCodes(r)

Next ==
  \/ \E r \in Request : Login(r) \/ EnrolTotp(r) \/ PrintCodes(r) \/ Abort(r)
  \/ \E u \in User : DisableTotp(u)
  \/ PurgeChallenges
  \/ Tick

Spec == Init /\ [][Next]_vars

-----------------------------------------------------------------------------
(* totp.rs, confirm, writes the step it matched by the row's id alone: of  *)
(* two confirmations of one secret the slower may lower last_step.         *)
Lowered(proof) == proof[1] = "totp" /\ proof[2] \in twice

(* A session that answered a challenge rests on a proof of its own user    *)
(* that was spent for it, and neither the challenge nor the proof is       *)
(* behind another session, however many requests present them at once      *)
(* (challenge.rs, "Single use"; totp.rs verify; recovery.rs claim).        *)
ProofOpensOneSession ==
  \A s \in sessions : s.challenge # 0 =>
    /\ challenges[s.challenge].user = s.user
    /\ <<s.user, s.proof>> \in spent
    /\ \A t \in sessions \ {s} :
         /\ s.challenge # t.challenge
         /\ s.proof = t.proof => Lowered(s.proof)

(* A code accepted once, at confirmation or at login, is behind last_step  *)
(* for as long as its secret is enrolled, so it is never accepted again    *)
(* (SECURITY.md, "Replay is refused, not merely unlikely"), unless two     *)
(* requests confirmed the secret.                                          *)
SpentStepsStaySpent ==
  \A u \in User, step \in Step :
    LET proof == Totp(totp[u].id, step)
    IN totp[u].confirmed /\ <<u, proof>> \in spent
         => step <= totp[u].last_step \/ Lowered(proof)

Answering(c) == {r \in Request : req[r].challenge = c
                                 /\ req[r].at \in {"totp", "claim_step", "recovery", "reject"}}

(* The budget of a challenge is overrun by at most the answers that were   *)
(* already being checked when it ran out.                                  *)
FailuresBounded ==
  \A c \in DOMAIN challenges :
    challenges[c].attempts + Cardinality(Answering(c))
      < MaxAttempts + Cardinality(Request)
=============================================================================
