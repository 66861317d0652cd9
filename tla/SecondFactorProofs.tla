-------------------------- MODULE SecondFactorProofs --------------------------
(***************************************************************************)
(* Proofs about the second factor: the typing of its state, that a proof   *)
(* and a challenge open one session, that spent steps stay spent, and how  *)
(* far answers in flight overrun the budget of a challenge.                *)
(***************************************************************************)
EXTENDS SecondFactor, FiniteSetTheorems, TLAPS

Closed(c) == challenges[c].consumed \/ challenges[c].deleted

(* The answer to a challenge, its proof being checked; the proof accepted. *)
Checking(l) == l.at \in {"totp", "claim_step", "recovery", "reject"}
Accepted(l) == l.at \in {"consume", "open"}

Proof(l) == IF l.step # 0 THEN Totp(l.id, l.step) ELSE RecoveryCode(l.code)

(* What a request knows of the tables.                                     *)
Fits(l) ==
  /\ Checking(l) \/ Accepted(l) =>
       l.challenge \in DOMAIN challenges /\ challenges[l.challenge].user = l.user
  /\ l.at \in {"claim_step", "confirm"} => l.id \in 1..secrets /\ l.step \in Step
  /\ l.at = "claim_step" /\ totp[l.user].id = l.id => totp[l.user].confirmed
  /\ l.at = "recovery" => l.step = 0
  /\ Accepted(l) => <<l.user, Proof(l)>> \in spent
  /\ l.at = "open" => Closed(l.challenge)

Shape ==
  /\ TypeOK
  /\ \A u \in User : totp[u].id \in 0..secrets
  /\ \A r \in Request : Fits(req[r])

(* A secret and a recovery code are of one user for good.                  *)
SecretsOf(u) ==
  (      {totp[u].id}
    \cup {req[r].id : r \in {q \in Request : req[q].at \in {"claim_step", "confirm"}
                                             /\ req[q].user = u}}
    \cup {p[2][2] : p \in {q \in spent : q[1] = u /\ q[2][1] = "totp"}}) \ {0}

SecretsOwned ==
  /\ \A u \in User : \A v \in User \ {u} : SecretsOf(u) \cap SecretsOf(v) = {}
  /\ \A u \in User : SecretsOf(u) \subseteq 1..secrets

CodesOwned ==
  /\ \A u \in User : recovery[u] \subseteq 1..printed
  /\ \A u \in User : \A v \in User \ {u} : recovery[u] \cap recovery[v] = {}
  /\ \A p \in spent : p[2][1] = "recovery"
       => p[2][2] \in 1..printed /\ \A v \in User : p[2][2] \notin recovery[v]

(* What has been spent of the secret that is enrolled.                     *)
StepsSpent ==
  /\ \A p \in spent : p[2][1] = "totp" => p[2][2] # 0
  /\ \A u \in User, p \in spent : p[1] = u /\ p[2][1] = "totp" /\ p[2][2] = totp[u].id
       => /\ totp[u].confirmed
          /\ p[2][3] <= totp[u].last_step \/ Lowered(p[2])

(* A session, or a request that will open one, has its challenge and its   *)
(* proof to itself.                                                        *)
Answers ==
  \A s \in sessions :
    IF s.challenge = 0 THEN s.proof = PasswordOnly
    ELSE /\ s.challenge \in DOMAIN challenges
         /\ challenges[s.challenge].user = s.user /\ Closed(s.challenge)
         /\ <<s.user, s.proof>> \in spent

ChallengesApart ==
  /\ \A s \in sessions : \A t \in sessions \ {s} : s.challenge # 0 => s.challenge # t.challenge
  /\ \A r \in Request : req[r].at = "open" =>
       /\ \A s \in sessions : s.challenge # req[r].challenge
       /\ \A q \in Request \ {r} : req[q].at = "open" => req[q].challenge # req[r].challenge

ProofsApart ==
  /\ \A s \in sessions : \A t \in sessions \ {s} :
       s.challenge # 0 /\ s.proof = t.proof => Lowered(s.proof)
  /\ \A r \in Request : Accepted(req[r]) =>
       /\ \A s \in sessions : s.proof = ProofOf(r) => Lowered(s.proof)
       /\ \A q \in Request \ {r} : Accepted(req[q]) /\ ProofOf(q) = ProofOf(r)
            => Lowered(ProofOf(r))

IInv == /\ Shape /\ SecretsOwned /\ CodesOwned /\ StepsSpent
        /\ Answers /\ ChallengesApart /\ ProofsApart /\ FailuresBounded

-----------------------------------------------------------------------------
LEMMA Member ==
  ASSUME NEW S, NEW s \in Seq(S), NEW i \in DOMAIN s
  PROVE  s[i] \in S
OBVIOUS

LEMMA Appended ==
  ASSUME NEW S, NEW s \in Seq(S), NEW x \in S
  PROVE  /\ Append(s, x) \in Seq(S) /\ DOMAIN s \subseteq DOMAIN Append(s, x)
         /\ \A i \in DOMAIN s : Append(s, x)[i] = s[i]
         /\ \A i \in DOMAIN Append(s, x) \ DOMAIN s : Append(s, x)[i] = x
OBVIOUS

LEMMA Numbers ==
  /\ Step \subseteq Nat \ {0} /\ MaxAttempts \in Nat /\ Start \in Nat
  /\ CodesPerSet \in Nat /\ ChallengeLifetime \in Nat
  /\ Digits \subseteq Nat
<1>1. Step \subseteq Nat \ {0}
  BY NumberAssumption DEF Step
<1>2. Digits \subseteq Nat
  BY CodeAssumption DEF Digits
<1> QED
  BY <1>1, <1>2, NumberAssumption

LEMMA BeginIs ==
  ASSUME NEW at \in At, NEW u \in User
  PROVE  /\ Begin(at, u) \in Locals
         /\ Begin(at, u).at = at /\ Begin(at, u).user = u /\ Begin(at, u).challenge = 0
         /\ Begin(at, u).id = 0 /\ Begin(at, u).step = 0 /\ Begin(at, u).code = 0
BY DEF Begin, Locals

LEMMA RequestTypes ==
  ASSUME Shape, NEW r \in Request
  PROVE  /\ req \in [Request -> Locals] /\ req[r] \in Locals /\ Fits(req[r])
         /\ req[r].at \in At /\ req[r].user \in User /\ req[r].challenge \in Nat
         /\ req[r].code \in Nat /\ req[r].id \in Nat /\ req[r].step \in Nat
         /\ req[r].old \subseteq Nat
<1>1. req \in [Request -> Locals] /\ req[r] \in Locals /\ Fits(req[r])
  BY DEF Shape, TypeOK
<1> QED
  BY <1>1 DEF Locals

LEMMA ChallengeTypes ==
  ASSUME Shape, NEW c \in DOMAIN challenges
  PROVE  /\ c \in Nat \ {0} /\ challenges[c] \in Challenge
         /\ challenges[c].user \in User /\ challenges[c].attempts \in Nat
         /\ challenges[c].expires_at \in Nat /\ challenges[c].consumed \in BOOLEAN
         /\ challenges[c].deleted \in BOOLEAN
<1>1. challenges \in Seq(Challenge)
  BY DEF Shape, TypeOK
<1>2. challenges[c] \in Challenge /\ c \in Nat \ {0}
  BY <1>1, Member
<1> QED
  BY <1>2 DEF Challenge

LEMMA CredentialTypes ==
  ASSUME Shape, NEW u \in User
  PROVE  /\ totp[u] \in Credential /\ totp[u].id \in Nat /\ totp[u].last_step \in Nat
         /\ totp[u].confirmed => totp[u].last_step \in Step /\ totp[u].id # 0
         /\ totp[u].confirmed \in BOOLEAN
<1>1. totp[u] \in Credential
  BY DEF Shape, TypeOK
<1>2. Step \subseteq Nat
  BY Numbers
<1>3. CASE totp[u] \in [id : Nat \ {0}, confirmed : {TRUE}, last_step : Step]
  <2>1. totp[u].id \in Nat \ {0} /\ totp[u].last_step \in Step
    BY <1>3
  <2>2. totp[u].confirmed = TRUE
    BY <1>3
  <2> QED
    BY <1>1, <1>2, <2>1, <2>2, Zenon
<1>4. CASE totp[u] \in [id : Nat, confirmed : {FALSE}, last_step : {0}]
  <2>1. totp[u].id \in Nat /\ totp[u].last_step = 0
    BY <1>4
  <2>2. totp[u].confirmed = FALSE
    BY <1>4
  <2>3. 0 \in Nat
    OBVIOUS
  <2> QED
    BY <1>1, <2>1, <2>2, <2>3, Zenon
<1> QED
  BY <1>1, <1>3, <1>4 DEF Credential

-----------------------------------------------------------------------------
(* Which actions write which variable.                                     *)
LEMMA Writers ==
  ASSUME Next
  PROVE  /\ \/ UNCHANGED challenges
            \/ \E r \in Request : IssueChallenge(r) \/ RecordFailure(r) \/ Consume(r)
            \/ PurgeChallenges
         /\ \/ UNCHANGED totp
            \/ \E r \in Request : ClaimStep(r) \/ StoreEnrolment(r) \/ StoreConfirmation(r)
            \/ \E u \in User : DisableTotp(u)
         /\ \/ UNCHANGED recovery
            \/ \E r \in Request : ClaimRecoveryCode(r) \/ InsertCodes(r)
         /\ \/ UNCHANGED sessions
            \/ \E r \in Request : OpenOnPassword(r) \/ OpenSession(r)
         /\ \/ UNCHANGED secrets
            \/ \E r \in Request : StoreEnrolment(r)
         /\ \/ UNCHANGED printed
            \/ \E r \in Request : InsertCodes(r)
         /\ \/ UNCHANGED spent
            \/ \E r \in Request : ClaimStep(r) \/ ClaimRecoveryCode(r) \/ StoreConfirmation(r)
         /\ \/ UNCHANGED twice
            \/ \E r \in Request : StoreConfirmation(r)
         /\ \/ UNCHANGED now
            \/ Tick
<1>1. \/ UNCHANGED challenges
      \/ \E r \in Request : IssueChallenge(r) \/ RecordFailure(r) \/ Consume(r)
      \/ PurgeChallenges
  BY DEF Next, Login, EnrolTotp, PrintCodes, Abort, DisableTotp, Tick, ReadEnrolment,
         OpenOnPassword, Present, VerifyTotp, ClaimStep, ClaimRecoveryCode, OpenSession,
         BeginEnrolment, StoreEnrolment, Confirm, StoreConfirmation, RegenerateCodes,
         DeleteCodes, InsertCodes
<1>2. \/ UNCHANGED totp
      \/ \E r \in Request : ClaimStep(r) \/ StoreEnrolment(r) \/ StoreConfirmation(r)
      \/ \E u \in User : DisableTotp(u)
  BY DEF Next, Login, EnrolTotp, PrintCodes, Abort, Tick, ReadEnrolment, IssueChallenge,
         OpenOnPassword, Present, VerifyTotp, ClaimRecoveryCode, RecordFailure, Consume,
         OpenSession, BeginEnrolment, Confirm, RegenerateCodes, DeleteCodes, InsertCodes,
         PurgeChallenges
<1>3. \/ UNCHANGED recovery
      \/ \E r \in Request : ClaimRecoveryCode(r) \/ InsertCodes(r)
  BY DEF Next, Login, EnrolTotp, PrintCodes, Abort, DisableTotp, Tick, ReadEnrolment,
         IssueChallenge, OpenOnPassword, Present, VerifyTotp, ClaimStep, RecordFailure,
         Consume, OpenSession, BeginEnrolment, StoreEnrolment, Confirm, StoreConfirmation,
         RegenerateCodes, DeleteCodes, PurgeChallenges
<1>4. \/ UNCHANGED sessions
      \/ \E r \in Request : OpenOnPassword(r) \/ OpenSession(r)
  BY DEF Next, Login, EnrolTotp, PrintCodes, Abort, DisableTotp, Tick, ReadEnrolment,
         IssueChallenge, Present, VerifyTotp, ClaimStep, ClaimRecoveryCode, RecordFailure,
         Consume, BeginEnrolment, StoreEnrolment, Confirm, StoreConfirmation, RegenerateCodes,
         DeleteCodes, InsertCodes, PurgeChallenges
<1>5. \/ UNCHANGED secrets
      \/ \E r \in Request : StoreEnrolment(r)
  BY DEF Next, Login, EnrolTotp, PrintCodes, Abort, DisableTotp, Tick, ReadEnrolment,
         IssueChallenge, OpenOnPassword, Present, VerifyTotp, ClaimStep, ClaimRecoveryCode,
         RecordFailure, Consume, OpenSession, BeginEnrolment, Confirm, StoreConfirmation,
         RegenerateCodes, DeleteCodes, InsertCodes, PurgeChallenges
<1>6. \/ UNCHANGED printed
      \/ \E r \in Request : InsertCodes(r)
  BY DEF Next, Login, EnrolTotp, PrintCodes, Abort, DisableTotp, Tick, ReadEnrolment,
         IssueChallenge, OpenOnPassword, Present, VerifyTotp, ClaimStep, ClaimRecoveryCode,
         RecordFailure, Consume, OpenSession, BeginEnrolment, StoreEnrolment, Confirm,
         StoreConfirmation, RegenerateCodes, DeleteCodes, PurgeChallenges
<1>7. \/ UNCHANGED spent
      \/ \E r \in Request : ClaimStep(r) \/ ClaimRecoveryCode(r) \/ StoreConfirmation(r)
  BY DEF Next, Login, EnrolTotp, PrintCodes, Abort, DisableTotp, Tick, ReadEnrolment,
         IssueChallenge, OpenOnPassword, Present, VerifyTotp, RecordFailure, Consume,
         OpenSession, BeginEnrolment, StoreEnrolment, Confirm, RegenerateCodes, DeleteCodes,
         InsertCodes, PurgeChallenges
<1>8. \/ UNCHANGED twice
      \/ \E r \in Request : StoreConfirmation(r)
  BY DEF Next, Login, EnrolTotp, PrintCodes, Abort, DisableTotp, Tick, ReadEnrolment,
         IssueChallenge, OpenOnPassword, Present, VerifyTotp, ClaimStep, ClaimRecoveryCode,
         RecordFailure, Consume, OpenSession, BeginEnrolment, StoreEnrolment, Confirm,
         RegenerateCodes, DeleteCodes, InsertCodes, PurgeChallenges
<1>9. \/ UNCHANGED now
      \/ Tick
  BY DEF Next, Login, EnrolTotp, PrintCodes, Abort, DisableTotp, ReadEnrolment, IssueChallenge,
         OpenOnPassword, Present, VerifyTotp, ClaimStep, ClaimRecoveryCode, RecordFailure,
         Consume, OpenSession, BeginEnrolment, StoreEnrolment, Confirm, StoreConfirmation,
         RegenerateCodes, DeleteCodes, InsertCodes, PurgeChallenges
<1> QED
  BY <1>1, <1>2, <1>3, <1>4, <1>5, <1>6, <1>7, <1>8, <1>9

(* What the steps leave standing.                                          *)
Standing ==
  /\ DOMAIN challenges \subseteq DOMAIN challenges'
  /\ \A c \in DOMAIN challenges : /\ challenges'[c].user = challenges[c].user
                                  /\ Closed(c) => Closed(c)'
  /\ secrets' \in Nat /\ secrets <= secrets' /\ printed' \in Nat /\ printed <= printed'
  /\ spent \subseteq spent' /\ twice \subseteq twice'

LEMMA StepsStand ==
  ASSUME Shape, Next
  PROVE  Standing
<1>1. secrets \in Nat /\ printed \in Nat /\ CodesPerSet \in Nat
  BY Numbers DEF Shape, TypeOK
<1>2. secrets' \in Nat /\ secrets <= secrets'
  BY <1>1, Writers DEF StoreEnrolment
<1>3. printed' \in Nat /\ printed <= printed'
  BY <1>1, Writers DEF InsertCodes
<1>4. spent \subseteq spent' /\ twice \subseteq twice'
  BY Writers DEF ClaimStep, ClaimRecoveryCode, StoreConfirmation
<1> DEFINE Kept == /\ DOMAIN challenges \subseteq DOMAIN challenges'
                   /\ \A c \in DOMAIN challenges : /\ challenges'[c].user = challenges[c].user
                                                   /\ Closed(c) => Closed(c)'
<1>5. CASE UNCHANGED challenges
  <2>1. Kept
    BY <1>5 DEF Closed
  <2> QED
    BY <1>2, <1>3, <1>4, <2>1 DEF Standing
<1>6. ASSUME NEW r \in Request, IssueChallenge(r) PROVE Kept
  <2> DEFINE row == [user |-> req[r].user, attempts |-> 0, expires_at |-> now + ChallengeLifetime,
                     consumed |-> FALSE, deleted |-> FALSE]
  <2>1. challenges' = Append(challenges, row)
    BY <1>6 DEF IssueChallenge
  <2>2. row \in Challenge
    BY RequestTypes, Numbers DEF Challenge, Shape, TypeOK
  <2> HIDE DEF row
  <2>3. challenges \in Seq(Challenge)
    BY DEF Shape, TypeOK
  <2>4. /\ DOMAIN challenges \subseteq DOMAIN challenges'
        /\ \A c \in DOMAIN challenges : challenges'[c] = challenges[c]
    BY <2>1, <2>2, <2>3, Appended
  <2> QED
    BY <2>4 DEF Closed
<1>7. ASSUME NEW r \in Request, RecordFailure(r) PROVE Kept
  BY <1>7 DEF RecordFailure, Closed
<1>8. ASSUME NEW r \in Request, Consume(r) PROVE Kept
  <2> DEFINE c == req[r].challenge
             row == [challenges[c] EXCEPT !.consumed = TRUE]
  <2>1. c \in DOMAIN challenges
    BY <1>8, RequestTypes DEF Consume, Fits, Accepted
  <2>2. challenges[c] \in Challenge
    BY <2>1, ChallengeTypes
  <2>3. row.user = challenges[c].user /\ row.consumed
    BY <2>2 DEF Challenge
  <2>4. UNCHANGED challenges \/ challenges' = [challenges EXCEPT ![c] = row]
    BY <1>8 DEF Consume
  <2> QED
    BY <2>1, <2>3, <2>4 DEF Closed
<1>9. ASSUME PurgeChallenges PROVE Kept
  BY <1>9 DEF PurgeChallenges, Closed, Purged
<1> QED
  BY <1>2, <1>3, <1>4, <1>5, <1>6, <1>7, <1>8, <1>9, Writers DEF Standing

(* How a step leaves the credential of a user.                             *)
LEMMA CredentialChanges ==
  ASSUME Shape, Next, NEW u \in User
  PROVE  \/ totp'[u].id = 0
         \/ /\ totp'[u].id = secrets + 1 /\ secrets' = secrets + 1
            /\ \A v \in User \ {u} : totp'[v] = totp[v]
         \/ totp'[u].id = totp[u].id /\ (totp[u].confirmed => totp'[u].confirmed)
<1>1. totp \in [User -> Credential]
  BY DEF Shape, TypeOK
<1>2. CASE UNCHANGED totp
  BY <1>2
<1>3. ASSUME NEW r \in Request, ClaimStep(r)
      PROVE  totp'[u].id = totp[u].id /\ (totp[u].confirmed => totp'[u].confirmed)
  <2> DEFINE row == [totp[req[r].user] EXCEPT !.last_step = req[r].step]
  <2>1. req[r].user \in User /\ totp[req[r].user] \in Credential
    BY <1>1, RequestTypes
  <2>2. row.id = totp[req[r].user].id /\ row.confirmed = totp[req[r].user].confirmed
    BY <2>1 DEF Credential
  <2>3. UNCHANGED totp \/ totp' = [totp EXCEPT ![req[r].user] = row]
    BY <1>3 DEF ClaimStep
  <2> QED
    BY <1>1, <2>1, <2>2, <2>3
<1>4. ASSUME NEW r \in Request, StoreEnrolment(r)
      PROVE  \/ totp'[u] = totp[u]
             \/ /\ totp'[u].id = secrets + 1 /\ secrets' = secrets + 1
                /\ \A v \in User \ {u} : totp'[v] = totp[v]
  BY <1>1, <1>4, RequestTypes DEF StoreEnrolment
<1>5. ASSUME NEW r \in Request, StoreConfirmation(r)
      PROVE  totp'[u].id = totp[u].id /\ (totp[u].confirmed => totp'[u].confirmed)
  BY <1>1, <1>5, RequestTypes DEF StoreConfirmation
<1>6. ASSUME NEW v \in User, DisableTotp(v)
      PROVE  totp'[u] = totp[u] \/ totp'[u].id = 0
  BY <1>1, <1>6 DEF DisableTotp, NoCredential
<1> QED
  BY <1>2, <1>3, <1>4, <1>5, <1>6, Writers

LEMMA FitsStands ==
  ASSUME Shape, Next, NEW l \in Locals, Fits(l)
  PROVE  Fits(l)'
<1>1. Standing
  BY StepsStand
<1>2. /\ l.at \in {"claim_step", "confirm"} => l.id \in 1..secrets'
      /\ Accepted(l) => <<l.user, Proof(l)>> \in spent'
      /\ l.at = "open" => Closed(l.challenge)'
  <2>1. secrets \in Nat
    BY DEF Shape, TypeOK
  <2> QED
    BY <1>1, <2>1 DEF Standing, Fits, Accepted
<1>3. Checking(l) \/ Accepted(l) =>
        l.challenge \in DOMAIN challenges' /\ challenges'[l.challenge].user = l.user
  BY <1>1 DEF Standing, Fits
<1>4. ASSUME l.at = "claim_step", totp'[l.user].id = l.id PROVE totp'[l.user].confirmed
  <2>1. l.user \in User /\ l.id \in 1..secrets /\ secrets \in Nat
    BY <1>4 DEF Shape, TypeOK, Fits, Locals
  <2>2. totp'[l.user].id = totp[l.user].id /\ (totp[l.user].confirmed => totp'[l.user].confirmed)
    BY <1>4, <2>1, CredentialChanges
  <2> QED
    BY <1>4, <2>2 DEF Fits
<1>5. /\ l.at \in {"claim_step", "confirm"} => l.step \in Step
      /\ l.at = "recovery" => l.step = 0
  BY DEF Fits
<1> QED
  BY <1>2, <1>3, <1>4, <1>5 DEF Fits, Checking, Accepted, Proof

-----------------------------------------------------------------------------
(* How a request moves: what it is then checking, and what it then holds.  *)
Becomes(l, k) ==
  /\ Checking(l) => \/ Checking(k) /\ l.challenge = k.challenge
                    \/ Live(l.challenge) /\ UNCHANGED challenges
  /\ l.at \in {"claim_step", "confirm"} => totp[l.user].id = l.id
  /\ Accepted(l) =>
       \/ Accepted(k) /\ l.user = k.user /\ Proof(l) = Proof(k)
       \/ /\ k.at = "claim_step" /\ Proof(l) = Totp(k.id, k.step) /\ l.user = k.user
          /\ totp[k.user].id = k.id /\ totp[k.user].last_step < k.step
       \/ /\ k.at = "recovery" /\ Proof(l) = RecoveryCode(k.code) /\ l.user = k.user
          /\ k.code \in recovery[k.user]
  /\ l.at = "open" => /\ k.at = "consume" /\ l.challenge = k.challenge
                      /\ ~Closed(k.challenge)
  /\ Accepted(l) => UNCHANGED sessions

Moves(r) ==
  \E l \in Locals : req' = [req EXCEPT ![r] = l] /\ Fits(l)' /\ Becomes(l, req[r])

LEMMA MovesTo ==
  ASSUME Shape, Next, NEW r \in Request, NEW l \in Locals,
         req' = [req EXCEPT ![r] = l], Fits(l), Becomes(l, req[r])
  PROVE  Moves(r)
<1>1. Fits(l)'
  BY FitsStands
<1> QED
  BY <1>1 DEF Moves

Quiet(l) == ~Checking(l) /\ ~Accepted(l) /\ l.at # "confirm"

LEMMA QuietMoves ==
  ASSUME NEW r \in Request, NEW l \in Locals, req' = [req EXCEPT ![r] = l], Quiet(l)
  PROVE  Moves(r)
BY DEF Moves, Fits, Becomes, Quiet, Checking, Accepted

LEMMA FinishMoves ==
  ASSUME Shape, NEW r \in Request, Finish(r)
  PROVE  Moves(r)
<1>1. Begin("idle", req[r].user) \in Locals /\ Begin("idle", req[r].user).at = "idle"
  BY RequestTypes, BeginIs DEF At
<1> QED
  BY <1>1, QuietMoves DEF Finish, Quiet, Checking, Accepted

LEMMA BeginMoves ==
  ASSUME Shape, NEW r \in Request, NEW u \in User,
         NEW at \in {"challenge", "session", "enrol", "delete_codes"},
         req' = [req EXCEPT ![r] = Begin(at, u)]
  PROVE  Moves(r)
<1>1. Begin(at, u) \in Locals /\ Begin(at, u).at = at
  BY BeginIs DEF At
<1> QED
  BY <1>1, QuietMoves DEF Quiet, Checking, Accepted

LEMMA RejectMoves ==
  ASSUME Shape, Next, NEW r \in Request, Reject(r), Checking(req[r])
  PROVE  Moves(r)
<1> DEFINE b == Begin("reject", req[r].user)
           l == [b EXCEPT !.challenge = req[r].challenge]
<1>1. b \in Locals /\ b.at = "reject" /\ b.user = req[r].user
  BY RequestTypes, BeginIs DEF At
<1>2. l \in Locals /\ l.at = "reject" /\ l.user = req[r].user /\ l.challenge = req[r].challenge
  BY <1>1, RequestTypes DEF Locals
<1>3. req' = [req EXCEPT ![r] = l]
  BY DEF Reject
<1> HIDE DEF l
<1>4. Fits(l)
  BY <1>2, RequestTypes DEF Fits, Checking, Accepted
<1>5. Becomes(l, req[r])
  BY <1>2 DEF Becomes, Checking, Accepted
<1> QED
  BY <1>2, <1>3, <1>4, <1>5, MovesTo

LEMMA PresentMoves ==
  ASSUME Shape, Next, NEW r \in Request, NEW c \in DOMAIN challenges,
         NEW kind \in {"totp", "recovery"}, NEW code \in Nat, Present(r, c, kind, code)
  PROVE  Moves(r)
<1> DEFINE b == Begin(kind, challenges[c].user)
           l == [b EXCEPT !.challenge = c, !.code = code]
<1>1. b \in Locals /\ b.at = kind /\ b.user = challenges[c].user /\ b.step = 0
  BY ChallengeTypes, BeginIs DEF At
<1>2. c \in Nat
  BY ChallengeTypes
<1>3. l \in Locals /\ l.at = kind /\ l.user = challenges[c].user /\ l.challenge = c /\ l.step = 0
  BY <1>1, <1>2 DEF Locals
<1>4. req' = [req EXCEPT ![r] = l]
  BY DEF Present
<1> HIDE DEF l
<1>5. Fits(l)
  BY <1>3 DEF Fits, Checking, Accepted
<1>6. Becomes(l, req[r])
  BY <1>3 DEF Becomes, Checking, Accepted, Present
<1> QED
  BY <1>3, <1>4, <1>5, <1>6, MovesTo

LEMMA VerifyTotpMoves ==
  ASSUME Shape, Next, NEW r \in Request, VerifyTotp(r)
  PROVE  Moves(r)
<1> DEFINE u == req[r].user
           k == req[r]
<1>1. k \in Locals /\ k.at = "totp" /\ Checking(k) /\ Fits(k) /\ u \in User
  BY RequestTypes DEF VerifyTotp, Checking
<1>2. ASSUME NEW step \in Step, totp[u].confirmed,
             req' = [req EXCEPT ![r] = [@ EXCEPT !.at = "claim_step", !.code = 0,
                                                 !.id = totp[u].id, !.step = step]]
      PROVE  Moves(r)
  <2> DEFINE l == [k EXCEPT !.at = "claim_step", !.code = 0, !.id = totp[u].id, !.step = step]
  <2>1. totp[u].id \in Nat \ {0} /\ step \in Nat \ {0}
    BY <1>1, <1>2, CredentialTypes, Numbers
  <2>2. l.at = "claim_step" /\ l.id = totp[u].id /\ l.step = step /\ l.user = u
        /\ l.challenge = k.challenge
    BY <1>1 DEF Locals
  <2>3. l \in Locals
    BY <1>1, <2>1 DEF Locals, At
  <2>4. req' = [req EXCEPT ![r] = l]
    BY <1>2, RequestTypes
  <2>5. totp[u].id \in 1..secrets
    BY <1>1, <2>1 DEF Shape, TypeOK
  <2> HIDE DEF l
  <2>6. Fits(l)
    BY <1>1, <1>2, <2>2, <2>5 DEF Fits, Checking, Accepted
  <2>7. Becomes(l, k)
    BY <1>1, <2>2 DEF Becomes, Checking, Accepted
  <2> QED
    BY <2>3, <2>4, <2>6, <2>7, MovesTo
<1>3. CASE Reject(r)
  BY <1>1, <1>3, RejectMoves
<1> QED
  BY <1>2, <1>3 DEF VerifyTotp

LEMMA ClaimStepMoves ==
  ASSUME Shape, Next, NEW r \in Request, ClaimStep(r)
  PROVE  Moves(r)
<1> DEFINE k == req[r]
           u == k.user
           l == [k EXCEPT !.at = "consume"]
<1>1. /\ k \in Locals /\ k.at = "claim_step" /\ Checking(k) /\ Fits(k) /\ u \in User
      /\ k.step # 0 /\ k.step \in Nat
  BY RequestTypes, Numbers DEF ClaimStep, Checking, Fits
<1>2. CASE Reject(r)
  BY <1>1, <1>2, RejectMoves
<1>3. ASSUME totp[u].id = k.id, totp[u].last_step < k.step, Goto(r, "consume"),
             spent' = spent \cup {<<u, Totp(k.id, k.step)>>}
      PROVE  Moves(r)
  <2>1. l \in Locals /\ l.at = "consume" /\ l.user = u /\ l.challenge = k.challenge
        /\ l.id = k.id /\ l.step = k.step
    BY <1>1 DEF Locals, At
  <2>2. req' = [req EXCEPT ![r] = l]
    BY <1>3, RequestTypes DEF Goto
  <2>3. Proof(l) = Totp(k.id, k.step)
    BY <1>1, <2>1 DEF Proof
  <2>4. UNCHANGED <<challenges, sessions>>
    BY DEF ClaimStep
  <2> HIDE DEF l
  <2>5. ASSUME NEW m \in Locals, m = l PROVE Fits(m)'
    <3>1. m.challenge \in DOMAIN challenges' /\ challenges'[m.challenge].user = m.user
      BY <1>1, <2>1, <2>4, <2>5 DEF Fits
    <3>2. <<m.user, Proof(m)>> \in spent'
      BY <1>3, <2>1, <2>3, <2>5
    <3> QED
      BY <2>1, <2>5, <3>1, <3>2 DEF Fits, Checking, Accepted, Proof
  <2>6. Becomes(l, k)
    BY <1>1, <1>3, <2>1, <2>3, <2>4 DEF Becomes, Checking, Accepted
  <2>7. PICK m \in Locals : m = l
    BY <2>1
  <2> QED
    BY <2>2, <2>5, <2>6, <2>7 DEF Moves
<1> QED
  BY <1>2, <1>3 DEF ClaimStep

LEMMA ClaimRecoveryCodeMoves ==
  ASSUME Shape, Next, NEW r \in Request, ClaimRecoveryCode(r)
  PROVE  Moves(r)
<1> DEFINE k == req[r]
           u == k.user
           l == [k EXCEPT !.at = "consume"]
<1>1. /\ k \in Locals /\ k.at = "recovery" /\ Checking(k) /\ Fits(k) /\ u \in User
      /\ k.step = 0
  BY RequestTypes DEF ClaimRecoveryCode, Checking, Fits
<1>2. CASE Reject(r)
  BY <1>1, <1>2, RejectMoves
<1>3. ASSUME k.code \in recovery[u], Goto(r, "consume"),
             spent' = spent \cup {<<u, RecoveryCode(k.code)>>}
      PROVE  Moves(r)
  <2>1. l \in Locals /\ l.at = "consume" /\ l.user = u /\ l.challenge = k.challenge
        /\ l.code = k.code /\ l.step = k.step
    BY <1>1 DEF Locals, At
  <2>2. req' = [req EXCEPT ![r] = l]
    BY <1>3, RequestTypes DEF Goto
  <2>3. Proof(l) = RecoveryCode(k.code)
    BY <1>1, <2>1 DEF Proof
  <2>4. UNCHANGED <<challenges, sessions>>
    BY DEF ClaimRecoveryCode
  <2> HIDE DEF l
  <2>5. ASSUME NEW m \in Locals, m = l PROVE Fits(m)'
    <3>1. m.challenge \in DOMAIN challenges' /\ challenges'[m.challenge].user = m.user
      BY <1>1, <2>1, <2>4, <2>5 DEF Fits
    <3>2. <<m.user, Proof(m)>> \in spent'
      BY <1>3, <2>1, <2>3, <2>5
    <3> QED
      BY <2>1, <2>5, <3>1, <3>2 DEF Fits, Checking, Accepted, Proof
  <2>6. Becomes(l, k)
    BY <1>1, <1>3, <2>1, <2>3, <2>4 DEF Becomes, Checking, Accepted
  <2>7. PICK m \in Locals : m = l
    BY <2>1
  <2> QED
    BY <2>2, <2>5, <2>6, <2>7 DEF Moves
<1> QED
  BY <1>2, <1>3 DEF ClaimRecoveryCode

LEMMA ConsumeMoves ==
  ASSUME Shape, Next, NEW r \in Request, Consume(r)
  PROVE  Moves(r)
<1> DEFINE k == req[r]
           c == k.challenge
           l == [k EXCEPT !.at = "open"]
<1>1. k \in Locals /\ k.at = "consume" /\ Accepted(k) /\ Fits(k)
  BY RequestTypes DEF Consume, Accepted
<1>2. CASE Finish(r)
  BY <1>2, FinishMoves
<1>3. ASSUME ~Closed(c), challenges' = [challenges EXCEPT ![c].consumed = TRUE], Goto(r, "open")
      PROVE  Moves(r)
  <2>1. l \in Locals /\ l.at = "open" /\ l.user = k.user /\ l.challenge = k.challenge
        /\ l.id = k.id /\ l.step = k.step /\ l.code = k.code
    BY <1>1 DEF Locals, At
  <2>2. req' = [req EXCEPT ![r] = l]
    BY <1>3, RequestTypes DEF Goto
  <2>3. Proof(l) = Proof(k)
    BY <2>1 DEF Proof
  <2>4. UNCHANGED <<spent, sessions>>
    BY DEF Consume
  <2>5. c \in DOMAIN challenges /\ challenges[c].user = k.user
    BY <1>1 DEF Fits
  <2>6. c \in DOMAIN challenges' /\ challenges'[c].user = k.user
    BY <2>5, StepsStand DEF Standing
  <2>7. challenges'[c].consumed
    BY <1>3, <2>5, ChallengeTypes DEF Challenge
  <2> HIDE DEF l
  <2>8. ASSUME NEW m \in Locals, m = l PROVE Fits(m)'
    <3>1. <<m.user, Proof(m)>> \in spent'
      BY <1>1, <2>1, <2>3, <2>4, <2>8 DEF Fits
    <3> QED
      BY <2>1, <2>6, <2>7, <2>8, <3>1 DEF Fits, Checking, Accepted, Proof, Closed
  <2>9. Becomes(l, k)
    BY <1>1, <1>3, <2>1, <2>3, <2>4 DEF Becomes, Checking, Accepted
  <2>10. PICK m \in Locals : m = l
    BY <2>1
  <2> QED
    BY <2>2, <2>8, <2>9, <2>10 DEF Moves
<1> QED
  BY <1>2, <1>3 DEF Consume, Closed

LEMMA ConfirmMoves ==
  ASSUME Shape, Next, NEW r \in Request, NEW u \in User, NEW code, Confirm(r, u, code)
  PROVE  Moves(r)
<1> DEFINE b == Begin("confirm", u)
<1>1. b \in Locals /\ b.at = "confirm" /\ b.user = u
  BY BeginIs DEF At
<1>2. totp[u].id \in 1..secrets /\ totp[u].id \in Nat
  BY CredentialTypes DEF Confirm, Shape, TypeOK
<1>3. PICK step \in Step : req' = [req EXCEPT ![r] = [b EXCEPT !.id = totp[u].id, !.step = step]]
  BY DEF Confirm
<1> DEFINE l == [b EXCEPT !.id = totp[u].id, !.step = step]
<1>4. l \in Locals /\ l.at = "confirm" /\ l.user = u /\ l.id = totp[u].id /\ l.step = step
  BY <1>1, <1>2, Numbers DEF Locals
<1>5. req' = [req EXCEPT ![r] = l]
  BY <1>3
<1> HIDE DEF l
<1>6. Fits(l)
  BY <1>2, <1>4 DEF Fits, Checking, Accepted
<1>7. Becomes(l, req[r])
  BY <1>4 DEF Becomes, Checking, Accepted
<1> QED
  BY <1>4, <1>5, <1>6, <1>7, MovesTo

LEMMA DeleteCodesMoves ==
  ASSUME Shape, NEW r \in Request, DeleteCodes(r)
  PROVE  Moves(r)
<1> DEFINE l == [req[r] EXCEPT !.at = "insert_codes", !.old = recovery[req[r].user]]
<1>1. recovery[req[r].user] \in SUBSET Nat
  BY RequestTypes DEF Shape, TypeOK
<1>2. l \in Locals /\ l.at = "insert_codes"
  BY <1>1, RequestTypes DEF Locals, At
<1>3. req' = [req EXCEPT ![r] = l]
  BY RequestTypes DEF DeleteCodes
<1> HIDE DEF l
<1> QED
  BY <1>2, <1>3, QuietMoves DEF Quiet, Checking, Accepted

(* In every step at most one request moves.                                *)
LEMMA NextMoves ==
  ASSUME Shape, Next
  PROVE  UNCHANGED req \/ \E r \in Request : Moves(r)
<1>1. ASSUME NEW r \in Request, Login(r) PROVE Moves(r)
  <2>1. ASSUME NEW u \in User, ReadEnrolment(r, u) PROVE Moves(r)
    BY <2>1, BeginMoves DEF ReadEnrolment
  <2>2. ASSUME NEW c \in DOMAIN challenges, NEW code \in Digits \cup 1..printed,
               NEW kind \in {"totp", "recovery"}, Present(r, c, kind, code)
        PROVE  Moves(r)
    <3>1. code \in Nat
      <4>1. Digits \subseteq Nat /\ 1..printed \subseteq Nat
        BY Numbers
      <4> QED
        BY <4>1
    <3> QED
      BY <2>2, <3>1, PresentMoves
  <2>3. ASSUME IssueChallenge(r) \/ OpenOnPassword(r) \/ RecordFailure(r) \/ OpenSession(r)
        PROVE  Moves(r)
    BY <2>3, FinishMoves DEF IssueChallenge, OpenOnPassword, RecordFailure, OpenSession
  <2> QED
    BY <1>1, <2>1, <2>2, <2>3, VerifyTotpMoves, ClaimStepMoves, ClaimRecoveryCodeMoves,
       ConsumeMoves DEF Login
<1>2. ASSUME NEW r \in Request, EnrolTotp(r) PROVE Moves(r)
  <2>1. ASSUME NEW u \in User, BeginEnrolment(r, u) PROVE Moves(r)
    BY <2>1, BeginMoves DEF BeginEnrolment
  <2>2. CASE StoreEnrolment(r)
    BY <2>2, FinishMoves DEF StoreEnrolment
  <2>3. CASE StoreConfirmation(r)
    BY <2>3, FinishMoves, BeginMoves, RequestTypes DEF StoreConfirmation
  <2> QED
    BY <1>2, <2>1, <2>2, <2>3, ConfirmMoves DEF EnrolTotp
<1>3. ASSUME NEW r \in Request, PrintCodes(r) PROVE Moves(r)
  <2>1. ASSUME NEW u \in User, RegenerateCodes(r, u) PROVE Moves(r)
    BY <2>1, BeginMoves DEF RegenerateCodes
  <2>2. CASE InsertCodes(r)
    BY <2>2, FinishMoves DEF InsertCodes
  <2> QED
    BY <1>3, <2>1, <2>2, DeleteCodesMoves DEF PrintCodes
<1>4. ASSUME NEW r \in Request, Abort(r) PROVE Moves(r)
  BY <1>4, FinishMoves DEF Abort
<1>5. CASE (\E u \in User : DisableTotp(u)) \/ PurgeChallenges \/ Tick
  BY <1>5 DEF DisableTotp, PurgeChallenges, Tick
<1> QED
  BY <1>1, <1>2, <1>3, <1>4, <1>5 DEF Next

-----------------------------------------------------------------------------
(* The typing.                                                             *)
LEMMA ChallengesTyped ==
  ASSUME Shape, Next
  PROVE  challenges' \in Seq(Challenge)
<1>1. challenges \in Seq(Challenge) /\ now \in Nat
  BY DEF Shape, TypeOK
<1>2. CASE UNCHANGED challenges
  BY <1>1, <1>2
<1>3. ASSUME NEW r \in Request, IssueChallenge(r) PROVE challenges' \in Seq(Challenge)
  <2> DEFINE row == [user |-> req[r].user, attempts |-> 0, expires_at |-> now + ChallengeLifetime,
                     consumed |-> FALSE, deleted |-> FALSE]
  <2>1. row \in Challenge
    BY <1>1, RequestTypes, Numbers DEF Challenge
  <2>2. challenges' = Append(challenges, row)
    BY <1>3 DEF IssueChallenge
  <2> HIDE DEF row
  <2> QED
    BY <1>1, <2>1, <2>2, Appended
<1>4. ASSUME NEW r \in Request, RecordFailure(r) PROVE challenges' \in Seq(Challenge)
  <2> DEFINE c == req[r].challenge
             row == [challenges[c] EXCEPT !.attempts = IF challenges[c].deleted THEN @ ELSE @ + 1]
  <2>1. c \in DOMAIN challenges
    BY <1>4, RequestTypes DEF RecordFailure, Fits, Checking
  <2>2. row \in Challenge
    BY <2>1, ChallengeTypes DEF Challenge
  <2>3. challenges' = [challenges EXCEPT ![c] = row]
    BY <1>4 DEF RecordFailure
  <2> HIDE DEF row
  <2> QED
    BY <1>1, <2>1, <2>2, <2>3
<1>5. ASSUME NEW r \in Request, Consume(r) PROVE challenges' \in Seq(Challenge)
  <2> DEFINE c == req[r].challenge
             row == [challenges[c] EXCEPT !.consumed = TRUE]
  <2>1. c \in DOMAIN challenges
    BY <1>5, RequestTypes DEF Consume, Fits, Accepted
  <2>2. row \in Challenge
    BY <2>1, ChallengeTypes DEF Challenge
  <2>3. UNCHANGED challenges \/ challenges' = [challenges EXCEPT ![c] = row]
    BY <1>5 DEF Consume
  <2> HIDE DEF row
  <2> QED
    BY <1>1, <2>1, <2>2, <2>3
<1>6. ASSUME PurgeChallenges PROVE challenges' \in Seq(Challenge)
  <2>1. \A c \in DOMAIN challenges : challenges[c] \in Challenge /\ Purged(challenges[c].user) \in Challenge
    BY ChallengeTypes DEF Challenge, Purged
  <2>2. DOMAIN challenges = 1..Len(challenges) /\ Len(challenges) \in Nat
    BY <1>1
  <2>3. challenges' \in [1..Len(challenges) -> Challenge]
    BY <1>6, <2>1, <2>2 DEF PurgeChallenges
  <2> QED
    BY <2>2, <2>3
<1> QED
  BY <1>2, <1>3, <1>4, <1>5, <1>6, Writers

LEMMA CredentialsTyped ==
  ASSUME Shape, Next
  PROVE  totp' \in [User -> Credential] /\ \A u \in User : totp'[u].id \in 0..secrets'
<1>1. totp \in [User -> Credential] /\ secrets \in Nat /\ \A u \in User : totp[u].id \in 0..secrets
  BY DEF Shape, TypeOK
<1>2. secrets' \in Nat /\ secrets <= secrets'
  BY StepsStand DEF Standing
<1>3. ASSUME NEW v \in User, NEW row \in Credential, totp' = [totp EXCEPT ![v] = row],
             row.id \in 0..secrets'
      PROVE  totp' \in [User -> Credential] /\ \A u \in User : totp'[u].id \in 0..secrets'
  BY <1>1, <1>2, <1>3
<1>4. CASE UNCHANGED totp
  BY <1>1, <1>2, <1>4
<1>5. ASSUME NEW r \in Request, ClaimStep(r), totp' # totp
      PROVE  totp' \in [User -> Credential] /\ \A u \in User : totp'[u].id \in 0..secrets'
  <2> DEFINE k == req[r]
             row == [totp[k.user] EXCEPT !.last_step = k.step]
  <2>1. k.user \in User /\ k.step \in Step /\ totp[k.user].id = k.id /\ totp[k.user].confirmed
    BY <1>5, RequestTypes DEF ClaimStep, Fits
  <2>2. totp[k.user] \in [id : Nat \ {0}, confirmed : {TRUE}, last_step : Step]
    <3>1. totp[k.user] \in Credential
      BY <1>1, <2>1
    <3> QED
      BY <2>1, <3>1 DEF Credential
  <2>3. row \in Credential /\ row.id = totp[k.user].id
    BY <2>1, <2>2 DEF Credential
  <2>4. totp' = [totp EXCEPT ![k.user] = row]
    BY <1>5 DEF ClaimStep
  <2>5. row.id \in 0..secrets'
    BY <1>1, <1>2, <2>1, <2>3
  <2> HIDE DEF row
  <2> QED
    BY <1>3, <2>1, <2>3, <2>4, <2>5
<1>6. ASSUME NEW r \in Request, StoreEnrolment(r), totp' # totp
      PROVE  totp' \in [User -> Credential] /\ \A u \in User : totp'[u].id \in 0..secrets'
  <2> DEFINE row == [id |-> secrets + 1, confirmed |-> FALSE, last_step |-> 0]
  <2>1. row \in Credential /\ row.id \in 0..secrets' /\ totp' = [totp EXCEPT ![req[r].user] = row]
    BY <1>1, <1>6 DEF StoreEnrolment, Credential
  <2> HIDE DEF row
  <2> QED
    BY <1>3, <2>1, RequestTypes
<1>7. ASSUME NEW r \in Request, StoreConfirmation(r), totp' # totp
      PROVE  totp' \in [User -> Credential] /\ \A u \in User : totp'[u].id \in 0..secrets'
  <2> DEFINE row == [id |-> req[r].id, confirmed |-> TRUE, last_step |-> req[r].step]
  <2>1. req[r].id \in 1..secrets /\ req[r].step \in Step
    BY <1>7, RequestTypes DEF StoreConfirmation, Fits
  <2>2. row \in Credential /\ row.id \in 0..secrets'
    BY <1>1, <1>2, <2>1 DEF Credential
  <2>3. totp' = [totp EXCEPT ![req[r].user] = row]
    BY <1>7 DEF StoreConfirmation
  <2> HIDE DEF row
  <2> QED
    BY <1>3, <2>2, <2>3, RequestTypes
<1>8. ASSUME NEW u \in User, DisableTotp(u)
      PROVE  totp' \in [User -> Credential] /\ \A v \in User : totp'[v].id \in 0..secrets'
  <2>1. NoCredential \in Credential /\ NoCredential.id \in 0..secrets'
    BY <1>1, <1>2 DEF NoCredential, Credential
  <2> QED
    BY <1>3, <1>8, <2>1 DEF DisableTotp
<1> QED
  BY <1>4, <1>5, <1>6, <1>7, <1>8, Writers

LEMMA CodesTyped ==
  ASSUME Shape, Next
  PROVE  recovery' \in [User -> SUBSET Nat]
<1>1. recovery \in [User -> SUBSET Nat] /\ printed \in Nat
  BY DEF Shape, TypeOK
<1>2. ASSUME NEW r \in Request, ClaimRecoveryCode(r) PROVE recovery' \in [User -> SUBSET Nat]
  BY <1>1, <1>2, RequestTypes DEF ClaimRecoveryCode
<1>3. ASSUME NEW r \in Request, InsertCodes(r) PROVE recovery' \in [User -> SUBSET Nat]
  <2> DEFINE fresh == (printed + 1)..(printed + CodesPerSet)
  <2>1. fresh \subseteq Nat
    BY <1>1, Numbers
  <2>2. recovery' = [recovery EXCEPT ![req[r].user] = (@ \ req[r].old) \cup fresh]
    BY <1>3 DEF InsertCodes
  <2> HIDE DEF fresh
  <2> QED
    BY <1>1, <2>1, <2>2, RequestTypes
<1> QED
  BY <1>1, <1>2, <1>3, Writers

LEMMA SpentTyped ==
  ASSUME Shape, Next
  PROVE  spent' \subseteq User \X ({"totp", "recovery"} \X Nat \X Nat) /\ twice' \subseteq Nat
<1> DEFINE S == User \X ({"totp", "recovery"} \X Nat \X Nat)
<1>1. spent \subseteq S /\ twice \subseteq Nat
  BY DEF Shape, TypeOK
<1>2. ASSUME NEW r \in Request
      PROVE  /\ <<req[r].user, Totp(req[r].id, req[r].step)>> \in S
             /\ <<req[r].user, RecoveryCode(req[r].code)>> \in S
  BY RequestTypes DEF Totp, RecoveryCode
<1> HIDE DEF S
<1>3. spent' \subseteq S
  <2>1. ASSUME NEW r \in Request, ClaimStep(r) \/ StoreConfirmation(r) PROVE spent' \subseteq S
    <3>1. UNCHANGED spent \/ spent' = spent \cup {<<req[r].user, Totp(req[r].id, req[r].step)>>}
      BY <2>1 DEF ClaimStep, StoreConfirmation
    <3>2. <<req[r].user, Totp(req[r].id, req[r].step)>> \in S
      BY <1>2
    <3> QED
      BY <1>1, <3>1, <3>2
  <2>2. ASSUME NEW r \in Request, ClaimRecoveryCode(r) PROVE spent' \subseteq S
    <3>1. UNCHANGED spent \/ spent' = spent \cup {<<req[r].user, RecoveryCode(req[r].code)>>}
      BY <2>2 DEF ClaimRecoveryCode
    <3>2. <<req[r].user, RecoveryCode(req[r].code)>> \in S
      BY <1>2
    <3> QED
      BY <1>1, <3>1, <3>2
  <2> QED
    BY <1>1, <2>1, <2>2, Writers
<1>4. ASSUME NEW r \in Request, StoreConfirmation(r) PROVE twice' \subseteq Nat
  <2>1. req[r].id \in Nat
    BY RequestTypes
  <2>2. twice' \subseteq twice \cup {req[r].id}
    BY <1>4 DEF StoreConfirmation
  <2> QED
    BY <1>1, <2>1, <2>2
<1> QED
  BY <1>1, <1>3, <1>4, Writers DEF S

LEMMA SessionsTyped ==
  ASSUME Shape, Next
  PROVE  sessions' \subseteq Session
<1>1. sessions \subseteq Session
  BY DEF Shape, TypeOK
<1>2. ASSUME NEW r \in Request, OpenOnPassword(r) PROVE sessions' \subseteq Session
  <2>1. PasswordOnly \in {"totp", "recovery", "password"} \X Nat \X Nat
    BY DEF PasswordOnly
  <2>2. [user |-> req[r].user, challenge |-> 0, proof |-> PasswordOnly] \in Session
    BY <2>1, RequestTypes DEF Session
  <2> QED
    BY <1>1, <1>2, <2>2 DEF OpenOnPassword
<1>3. ASSUME NEW r \in Request, OpenSession(r) PROVE sessions' \subseteq Session
  <2>1. ProofOf(r) \in {"totp", "recovery", "password"} \X Nat \X Nat
    BY RequestTypes DEF ProofOf, Totp, RecoveryCode
  <2>2. [user |-> req[r].user, challenge |-> req[r].challenge, proof |-> ProofOf(r)] \in Session
    BY <2>1, RequestTypes DEF Session
  <2> QED
    BY <1>1, <1>3, <2>2 DEF OpenSession
<1> QED
  BY <1>1, <1>2, <1>3, Writers

LEMMA NextShape ==
  ASSUME Shape, [Next]_vars
  PROVE  Shape'
<1>1. CASE UNCHANGED vars
  BY <1>1 DEF vars, Shape, TypeOK, Fits, Closed, Proof
<1>2. CASE Next
  <2>1. \A q \in Request : \A l \in Locals : l = req[q] => Fits(l)'
    BY <1>2, FitsStands, RequestTypes
  <2>2. ASSUME NEW r \in Request, Moves(r)
        PROVE  /\ req' \in [Request -> Locals]
               /\ \A q \in Request : \E l \in Locals : req'[q] = l /\ Fits(l)'
    <3>1. PICK l \in Locals : req' = [req EXCEPT ![r] = l] /\ Fits(l)'
      BY <2>2 DEF Moves
    <3> QED
      BY <2>1, <3>1, RequestTypes
  <2>3. ASSUME UNCHANGED req
        PROVE  /\ req' \in [Request -> Locals]
               /\ \A q \in Request : \E l \in Locals : req'[q] = l /\ Fits(l)'
    <3>1. ASSUME NEW q \in Request PROVE \E l \in Locals : req'[q] = l /\ Fits(l)'
      <4>1. PICK l \in Locals : l = req[q]
        BY RequestTypes
      <4>2. Fits(l)'
        BY <2>1, <4>1
      <4> QED
        BY <2>3, <4>1, <4>2
    <3>2. req \in [Request -> Locals]
      BY DEF Shape, TypeOK
    <3> QED
      BY <2>3, <3>1, <3>2
  <2>4. /\ req' \in [Request -> Locals]
        /\ \A q \in Request : \E l \in Locals : req'[q] = l /\ Fits(l)'
    BY <1>2, <2>2, <2>3, NextMoves
  <2>5. \A q \in Request : Fits(req[q])'
    <3> SUFFICES ASSUME NEW q \in Request PROVE Fits(req[q])'
      OBVIOUS
    <3>1. PICK l \in Locals : req'[q] = l /\ Fits(l)'
      BY <2>4
    <3> QED
      BY <3>1 DEF Fits, Checking, Accepted, Proof, Closed
  <2>6. now' \in Nat
    BY <1>2, Writers DEF Tick, Shape, TypeOK
  <2>7. secrets' \in Nat /\ printed' \in Nat
    BY <1>2, StepsStand DEF Standing
  <2> QED
    BY <1>2, <2>4, <2>5, <2>6, <2>7, ChallengesTyped, CredentialsTyped, CodesTyped,
       SpentTyped, SessionsTyped DEF Shape, TypeOK
<1> QED
  BY <1>1, <1>2

-----------------------------------------------------------------------------
(* Whose a secret is.  Only an enrolment makes one, and it is a new one.   *)
LEMMA SecretsGrow ==
  ASSUME Shape, Next, NEW u \in User, NEW id \in SecretsOf(u)'
  PROVE  \/ id \in SecretsOf(u)
         \/ /\ id = secrets + 1 /\ secrets' = secrets + 1
            /\ totp'[u].id = id /\ \A v \in User \ {u} : totp'[v] = totp[v]
<1>1. id # 0 /\ \/ id = totp'[u].id
                \/ \E r \in Request : /\ req'[r].at \in {"claim_step", "confirm"}
                                      /\ req'[r].user = u /\ req'[r].id = id
                \/ \E p \in spent' : p[1] = u /\ p[2][1] = "totp" /\ p[2][2] = id
  BY DEF SecretsOf
<1>2. CASE id = totp'[u].id
  BY <1>1, <1>2, CredentialChanges DEF SecretsOf
<1>3. ASSUME NEW q \in Request, req'[q].at \in {"claim_step", "confirm"},
             req'[q].user = u, req'[q].id = id
      PROVE  id \in SecretsOf(u)
  <2>1. CASE req'[q] = req[q]
    BY <1>1, <1>3, <2>1 DEF SecretsOf
  <2>2. ASSUME NEW r \in Request, Moves(r), req'[q] # req[q] PROVE id \in SecretsOf(u)
    <3>1. PICK l \in Locals : req' = [req EXCEPT ![r] = l] /\ Becomes(l, req[r])
      BY <2>2 DEF Moves
    <3>2. req'[q] = l
      BY <2>2, <3>1, RequestTypes
    <3>3. totp[u].id = id
      BY <1>3, <3>1, <3>2 DEF Becomes
    <3> QED
      BY <1>1, <3>3 DEF SecretsOf
  <2> QED
    BY <2>1, <2>2, NextMoves
<1>4. ASSUME NEW p \in spent', p[1] = u, p[2][1] = "totp", p[2][2] = id
      PROVE  id \in SecretsOf(u)
  <2>1. CASE p \in spent
    BY <1>1, <1>4, <2>1 DEF SecretsOf
  <2>2. ASSUME NEW r \in Request, ClaimStep(r) \/ StoreConfirmation(r), p \notin spent
        PROVE  id \in SecretsOf(u)
    <3>1. /\ p = <<req[r].user, Totp(req[r].id, req[r].step)>>
          /\ req[r].at \in {"claim_step", "confirm"}
      BY <2>2 DEF ClaimStep, StoreConfirmation
    <3>2. u = req[r].user /\ id = req[r].id
      BY <1>4, <3>1 DEF Totp
    <3> QED
      BY <1>1, <3>1, <3>2 DEF SecretsOf
  <2>3. ASSUME NEW r \in Request, ClaimRecoveryCode(r), p \notin spent
        PROVE  FALSE
    <3>1. p = <<req[r].user, RecoveryCode(req[r].code)>>
      BY <2>3 DEF ClaimRecoveryCode
    <3> QED
      BY <1>4, <3>1 DEF RecoveryCode
  <2> QED
    BY <2>1, <2>2, <2>3, Writers
<1> QED
  BY <1>1, <1>2, <1>3, <1>4

LEMMA SecretsStayOwned ==
  ASSUME Shape, SecretsOwned, Next
  PROVE  SecretsOwned'
<1>1. secrets \in Nat /\ secrets' \in Nat /\ secrets <= secrets'
  BY StepsStand DEF Standing, Shape, TypeOK
<1>2. ASSUME NEW u \in User, NEW id \in SecretsOf(u)' PROVE id \in 1..secrets'
  <2>1. id \in SecretsOf(u) \/ (id = secrets + 1 /\ secrets' = secrets + 1)
    BY <1>2, SecretsGrow
  <2> QED
    BY <1>1, <2>1 DEF SecretsOwned
<1>3. ASSUME NEW u \in User, NEW v \in User \ {u}, NEW id,
             id \in SecretsOf(u)', id \in SecretsOf(v)'
      PROVE  FALSE
  <2>1. ASSUME NEW w \in User, id \in SecretsOf(w) PROVE id \in 1..secrets
    BY <2>1 DEF SecretsOwned
  <2>2. CASE id \in SecretsOf(u) /\ id \in SecretsOf(v)
    BY <2>2 DEF SecretsOwned
  <2>3. CASE id = secrets + 1
    <3>1. id \notin SecretsOf(u) /\ id \notin SecretsOf(v)
      BY <1>1, <2>1, <2>3
    <3>2. totp'[u].id = secrets + 1 /\ totp'[v].id = secrets + 1 /\ totp'[v] = totp[v]
      BY <1>3, <2>3, <3>1, SecretsGrow
    <3>3. totp[v].id \in 0..secrets
      BY DEF Shape
    <3> QED
      BY <1>1, <3>2, <3>3
  <2> QED
    BY <1>3, <2>2, <2>3, SecretsGrow
<1> QED
  BY <1>2, <1>3 DEF SecretsOwned

-----------------------------------------------------------------------------
(* Whose a recovery code is, and that a spent one is gone.                 *)
LEMMA CodesStayOwned ==
  ASSUME Shape, CodesOwned, Next
  PROVE  CodesOwned'
<1>1. recovery \in [User -> SUBSET Nat] /\ printed \in Nat /\ CodesPerSet \in Nat
  BY Numbers DEF Shape, TypeOK
<1>2. CASE UNCHANGED <<recovery, printed>> /\ \A p \in spent' : p[2][1] = "recovery" => p \in spent
  BY <1>2 DEF CodesOwned
<1>3. ASSUME ~\E r \in Request : ClaimRecoveryCode(r) \/ InsertCodes(r)
      PROVE  UNCHANGED <<recovery, printed>> /\ \A p \in spent' : p[2][1] = "recovery" => p \in spent
  <2>1. UNCHANGED <<recovery, printed>>
    BY <1>3, Writers
  <2>2. ASSUME NEW p \in spent', NEW r \in Request, ClaimStep(r) \/ StoreConfirmation(r), p \notin spent
        PROVE  p[2][1] # "recovery"
    <3>1. p = <<req[r].user, Totp(req[r].id, req[r].step)>>
      BY <2>2 DEF ClaimStep, StoreConfirmation
    <3> QED
      BY <3>1 DEF Totp
  <2> QED
    BY <1>3, <2>1, <2>2, Writers
<1>4. ASSUME NEW r \in Request, ClaimRecoveryCode(r), req[r].code \in recovery[req[r].user]
      PROVE  CodesOwned'
  <2> DEFINE w == req[r].user
             k == req[r].code
  <2>1. /\ w \in User /\ k \in recovery[w]
        /\ recovery' = [recovery EXCEPT ![w] = @ \ {k}]
        /\ spent' = spent \cup {<<w, RecoveryCode(k)>>} /\ printed' = printed
    BY <1>4, RequestTypes DEF ClaimRecoveryCode
  <2>2. recovery'[w] = recovery[w] \ {k} /\ \A v \in User \ {w} : recovery'[v] = recovery[v]
    BY <1>1, <2>1
  <2>3. \A v \in User : k \notin recovery'[v]
    BY <2>1, <2>2 DEF CodesOwned
  <2>4. k \in 1..printed
    BY <2>1 DEF CodesOwned
  <2>5. \A v \in User : recovery'[v] \subseteq recovery[v]
    BY <2>2
  <2>6. /\ \A u \in User : recovery'[u] \subseteq 1..printed'
        /\ \A u \in User : \A v \in User \ {u} : recovery'[u] \cap recovery'[v] = {}
    BY <2>1, <2>5 DEF CodesOwned
  <2>7. ASSUME NEW p \in spent', p[2][1] = "recovery"
        PROVE  p[2][2] \in 1..printed' /\ \A v \in User : p[2][2] \notin recovery'[v]
    <3>1. CASE p \in spent
      BY <2>1, <2>5, <2>7, <3>1 DEF CodesOwned
    <3>2. CASE p = <<w, RecoveryCode(k)>>
      <4>1. p[2][2] = k
        BY <3>2 DEF RecoveryCode
      <4> QED
        BY <2>1, <2>3, <2>4, <4>1
    <3> QED
      BY <2>1, <3>1, <3>2
  <2> QED
    BY <2>6, <2>7 DEF CodesOwned
<1>5. ASSUME NEW r \in Request, InsertCodes(r)
      PROVE  CodesOwned'
  <2> DEFINE w == req[r].user
             fresh == (printed + 1)..(printed + CodesPerSet)
  <2>1. /\ w \in User /\ recovery' = [recovery EXCEPT ![w] = (@ \ req[r].old) \cup fresh]
        /\ printed' = printed + CodesPerSet /\ spent' = spent
    BY <1>5, RequestTypes DEF InsertCodes
  <2>2. recovery'[w] \subseteq recovery[w] \cup fresh /\ \A v \in User \ {w} : recovery'[v] = recovery[v]
    BY <1>1, <2>1
  <2>3. fresh \cap (1..printed) = {} /\ fresh \subseteq 1..printed' /\ 1..printed \subseteq 1..printed'
    BY <1>1, <2>1
  <2> HIDE DEF fresh
  <2>4. \A u \in User : recovery[u] \subseteq 1..printed
    BY DEF CodesOwned
  <2>5. \A u \in User : recovery'[u] \subseteq 1..printed'
    BY <2>2, <2>3, <2>4
  <2>6. \A u \in User : \A v \in User \ {u} : recovery'[u] \cap recovery'[v] = {}
    BY <2>2, <2>3, <2>4 DEF CodesOwned
  <2>7. ASSUME NEW p \in spent, p[2][1] = "recovery"
        PROVE  p[2][2] \in 1..printed' /\ \A v \in User : p[2][2] \notin recovery'[v]
    <3>1. p[2][2] \in 1..printed /\ \A v \in User : p[2][2] \notin recovery[v]
      BY <2>7 DEF CodesOwned
    <3>2. p[2][2] \notin fresh /\ p[2][2] \in 1..printed'
      BY <2>3, <3>1
    <3> QED
      BY <2>2, <3>1, <3>2
  <2> QED
    BY <2>1, <2>5, <2>6, <2>7 DEF CodesOwned
<1>6. ASSUME NEW r \in Request, ClaimRecoveryCode(r), req[r].code \notin recovery[req[r].user]
      PROVE  UNCHANGED <<recovery, printed, spent>>
  BY <1>6 DEF ClaimRecoveryCode
<1> QED
  BY <1>2, <1>3, <1>4, <1>5, <1>6

-----------------------------------------------------------------------------
(* What has been spent of the enrolled secret stays behind last_step.      *)
LEMMA StepsStaySpent ==
  ASSUME Shape, SecretsOwned, StepsSpent, Next
  PROVE  StepsSpent'
<1>1. totp \in [User -> Credential] /\ secrets \in Nat /\ \A u \in User : totp[u].id \in 0..secrets
  BY DEF Shape, TypeOK
<1>2. ASSUME NEW r \in Request, req[r].at \in {"claim_step", "confirm"}
      PROVE  req[r].id \in Nat \ {0} /\ req[r].step \in Nat
  <2>1. req[r].id \in 1..secrets /\ req[r].step \in Nat
    BY <1>2, RequestTypes DEF Fits
  <2> QED
    BY <1>1, <2>1
<1> DEFINE Behind(u, p) == p[1] = u /\ p[2][1] = "totp" /\ p[2][2] = totp[u].id
             => /\ totp[u].confirmed
                /\ p[2][3] <= totp[u].last_step \/ Lowered(p[2])
<1>3. \A u \in User, p \in spent : Behind(u, p)
  BY DEF StepsSpent
<1>4. ASSUME NEW u \in User, NEW p \in spent, totp'[u] = totp[u] PROVE Behind(u, p)'
  <2>1. twice \subseteq twice'
    BY StepsStand DEF Standing
  <2> QED
    BY <1>3, <1>4, <2>1 DEF Lowered
<1> DEFINE Known == \A p \in spent' : p[2][1] = "totp" => p[2][2] # 0
<1>5. ASSUME spent' \subseteq spent PROVE Known
  BY <1>5 DEF StepsSpent
<1>6. CASE UNCHANGED <<totp, spent>>
  BY <1>4, <1>5, <1>6 DEF StepsSpent
<1>7. ASSUME NEW r \in Request, ClaimStep(r), ~UNCHANGED <<totp, spent>>
      PROVE  StepsSpent'
  <2> DEFINE w == req[r].user
             n == <<w, Totp(req[r].id, req[r].step)>>
  <2>1. /\ w \in User /\ req[r].at = "claim_step" /\ totp[w].id = req[r].id
        /\ totp[w].last_step < req[r].step
        /\ totp' = [totp EXCEPT ![w].last_step = req[r].step]
        /\ spent' = spent \cup {n} /\ twice' = twice
    BY <1>7, RequestTypes DEF ClaimStep
  <2>2. n[1] = w /\ n[2][1] = "totp" /\ n[2][2] = req[r].id /\ n[2][3] = req[r].step
    BY DEF Totp
  <2> HIDE DEF n
  <2>3. req[r].id # 0 /\ req[r].step \in Nat /\ totp[w].confirmed
    BY <1>2, <2>1, RequestTypes DEF Fits
  <2>4. Known
    BY <2>1, <2>2, <2>3 DEF StepsSpent
  <2>5. /\ totp'[w].id = totp[w].id /\ totp'[w].last_step = req[r].step
        /\ totp'[w].confirmed
    <3>1. totp[w] \in Credential
      BY <1>1, <2>1
    <3> DEFINE row == [totp[w] EXCEPT !.last_step = req[r].step]
    <3>2. row.id = totp[w].id /\ row.last_step = req[r].step
      BY <3>1 DEF Credential
    <3>3. row.confirmed = totp[w].confirmed
      BY <3>1 DEF Credential
    <3>4. totp'[w] = row
      BY <1>1, <2>1
    <3> HIDE DEF row
    <3> QED
      BY <2>3, <3>2, <3>3, <3>4
  <2>6. \A u \in User \ {w} : totp'[u] = totp[u]
    BY <1>1, <2>1
  <2>7. ASSUME NEW p \in spent, p[1] = w, p[2][1] = "totp", p[2][2] = totp'[w].id
        PROVE  p[2][3] <= totp'[w].last_step \/ Lowered(p[2])'
    <3>1. p[2][3] <= totp[w].last_step \/ Lowered(p[2])
      BY <1>3, <2>1, <2>5, <2>7
    <3>2. p[2][3] \in Nat /\ totp[w].last_step \in Nat
      BY <2>1, CredentialTypes DEF Shape, TypeOK
    <3> QED
      BY <2>1, <2>3, <2>5, <3>1, <3>2 DEF Lowered
  <2>8. ASSUME NEW u \in User, NEW p \in spent', p[1] = u, p[2][1] = "totp", p[2][2] = totp'[u].id
        PROVE  totp'[u].confirmed /\ (p[2][3] <= totp'[u].last_step \/ Lowered(p[2])')
    <3>1. CASE u # w
      <4>1. p \in spent /\ totp'[u] = totp[u]
        BY <2>1, <2>2, <2>6, <2>8, <3>1
      <4> QED
        BY <1>4, <2>8, <4>1
    <3>2. CASE u = w /\ p \in spent
      BY <2>5, <2>7, <2>8, <3>2
    <3>3. CASE u = w /\ p = n
      BY <2>2, <2>3, <2>5, <3>3
    <3> QED
      BY <2>1, <2>8, <3>1, <3>2, <3>3
  <2> QED
    BY <2>4, <2>8 DEF StepsSpent
<1>8. ASSUME NEW r \in Request, ClaimRecoveryCode(r) PROVE StepsSpent'
  <2> DEFINE n == <<req[r].user, RecoveryCode(req[r].code)>>
  <2>1. UNCHANGED totp /\ (UNCHANGED spent \/ spent' = spent \cup {n})
    BY <1>8 DEF ClaimRecoveryCode
  <2>2. n[2][1] = "recovery"
    BY DEF RecoveryCode
  <2> HIDE DEF n
  <2>3. \A p \in spent' : p[2][1] = "totp" => p \in spent
    BY <2>1, <2>2
  <2> QED
    BY <1>4, <2>1, <2>3 DEF StepsSpent
<1>9. ASSUME NEW r \in Request, StoreConfirmation(r) PROVE StepsSpent'
  <2> DEFINE w == req[r].user
             n == <<w, Totp(req[r].id, req[r].step)>>
  <2>1. /\ w \in User /\ req[r].at = "confirm"
        /\ spent' = spent \cup {n}
        /\ totp[w].confirmed => req[r].id \in twice'
    BY <1>9, RequestTypes DEF StoreConfirmation
  <2>2. n[1] = w /\ n[2][1] = "totp" /\ n[2][2] = req[r].id /\ n[2][3] = req[r].step
    BY DEF Totp
  <2>3. n[2] = Totp(req[r].id, req[r].step)
    OBVIOUS
  <2> HIDE DEF n
  <2>4. req[r].id # 0 /\ req[r].step \in Nat
    BY <1>2, <2>1
  <2>5. Known
    BY <2>1, <2>2, <2>4 DEF StepsSpent
  <2>6. CASE totp[w].id = req[r].id
    <3>1. /\ totp'[w].id = req[r].id /\ totp'[w].confirmed /\ totp'[w].last_step = req[r].step
          /\ \A u \in User \ {w} : totp'[u] = totp[u]
      BY <1>1, <1>9, <2>1, <2>6 DEF StoreConfirmation
    <3>2. ASSUME NEW p \in spent, p[1] = w, p[2][1] = "totp", p[2][2] = totp'[w].id
          PROVE  Lowered(p[2])'
      <4>1. totp[w].confirmed
        BY <1>3, <2>1, <2>6, <3>1, <3>2
      <4> QED
        BY <2>1, <3>1, <3>2, <4>1 DEF Lowered
    <3>3. ASSUME NEW u \in User, NEW p \in spent', p[1] = u, p[2][1] = "totp", p[2][2] = totp'[u].id
          PROVE  totp'[u].confirmed /\ (p[2][3] <= totp'[u].last_step \/ Lowered(p[2])')
      <4>1. CASE u # w
        <5>1. p \in spent /\ totp'[u] = totp[u]
          BY <2>1, <2>2, <3>1, <3>3, <4>1
        <5> QED
          BY <1>4, <3>3, <5>1
      <4>2. CASE u = w /\ p \in spent
        BY <3>1, <3>2, <3>3, <4>2
      <4>3. CASE u = w /\ p = n
        BY <2>2, <2>4, <3>1, <4>3
      <4> QED
        BY <2>1, <3>3, <4>1, <4>2, <4>3
    <3> QED
      BY <2>5, <3>3 DEF StepsSpent
  <2>7. CASE totp[w].id # req[r].id
    <3>1. UNCHANGED totp
      BY <1>9, <2>7 DEF StoreConfirmation
    <3>2. ASSUME NEW u \in User, NEW p \in spent', p[1] = u, p[2][1] = "totp", p[2][2] = totp'[u].id
          PROVE  p \in spent
      BY <2>1, <2>2, <2>7, <3>1, <3>2
    <3> QED
      BY <1>4, <2>5, <3>1, <3>2 DEF StepsSpent
  <2> QED
    BY <2>6, <2>7
<1>10. ASSUME UNCHANGED spent,
              \A u \in User : totp'[u] = totp[u] \/ totp'[u].id \in {0, secrets + 1}
       PROVE  StepsSpent'
  <2>1. ASSUME NEW u \in User, NEW p \in spent, p[1] = u, p[2][1] = "totp", p[2][2] = totp'[u].id
        PROVE  totp'[u] = totp[u]
    <3>1. p[2][2] # 0
      BY <2>1 DEF StepsSpent
    <3>2. p[2][2] \in 1..secrets
      BY <2>1, <3>1 DEF SecretsOwned, SecretsOf
    <3> QED
      BY <1>1, <1>10, <2>1, <3>2
  <2> QED
    BY <1>4, <1>5, <1>10, <2>1 DEF StepsSpent
<1>11. ASSUME NEW r \in Request, StoreEnrolment(r) PROVE StepsSpent'
  <2>1. \A u \in User : totp'[u] = totp[u] \/ totp'[u].id = secrets + 1
    BY <1>1, <1>11, RequestTypes DEF StoreEnrolment
  <2> QED
    BY <1>10, <1>11, <2>1 DEF StoreEnrolment
<1>12. ASSUME NEW w \in User, DisableTotp(w) PROVE StepsSpent'
  <2>1. \A u \in User : totp'[u] = totp[u] \/ totp'[u].id = 0
    BY <1>1, <1>12 DEF DisableTotp, NoCredential
  <2> QED
    BY <1>10, <1>12, <2>1 DEF DisableTotp
<1> QED
  BY <1>6, <1>7, <1>8, <1>9, <1>11, <1>12, Writers

-----------------------------------------------------------------------------
(* What a session rests on stands.                                         *)
LEMMA AnswersStand ==
  ASSUME Shape, Answers, Next
  PROVE  Answers'
<1> DEFINE Answer(s) == IF s.challenge = 0 THEN s.proof = PasswordOnly
             ELSE /\ s.challenge \in DOMAIN challenges
                  /\ challenges[s.challenge].user = s.user /\ Closed(s.challenge)
                  /\ <<s.user, s.proof>> \in spent
<1>1. ASSUME NEW s, Answer(s) PROVE Answer(s)'
  BY <1>1, StepsStand DEF Standing
<1>2. ASSUME NEW s \in sessions PROVE Answer(s)'
  <2>1. Answer(s)
    BY DEF Answers
  <2> QED
    BY <1>1, <2>1
<1>3. ASSUME NEW s \in sessions', NEW r \in Request, OpenOnPassword(r), s \notin sessions
      PROVE  Answer(s)'
  BY <1>3 DEF OpenOnPassword
<1>4. ASSUME NEW s \in sessions', NEW r \in Request, OpenSession(r), s \notin sessions
      PROVE  Answer(s)'
  <2>1. /\ s = [user |-> req[r].user, challenge |-> req[r].challenge, proof |-> ProofOf(r)]
        /\ req[r].at = "open"
    BY <1>4 DEF OpenSession
  <2>2. s.user = req[r].user /\ s.challenge = req[r].challenge /\ s.proof = ProofOf(r)
    BY <2>1
  <2>3. /\ req[r].challenge \in DOMAIN challenges
        /\ challenges[req[r].challenge].user = req[r].user /\ Closed(req[r].challenge)
        /\ <<req[r].user, Proof(req[r])>> \in spent
    BY <2>1, RequestTypes DEF Fits, Accepted
  <2>4. ProofOf(r) = Proof(req[r])
    BY DEF ProofOf, Proof
  <2>5. req[r].challenge # 0
    BY <2>3, ChallengeTypes
  <2> QED
    BY <1>1, <2>2, <2>3, <2>4, <2>5
<1> QED
  BY <1>2, <1>3, <1>4, Writers DEF Answers

(* A request that comes to open a session closed its challenge itself.     *)
LEMMA ChallengesStayApart ==
  ASSUME Shape, Answers, ChallengesApart, Next
  PROVE  ChallengesApart'
<1> DEFINE Opens(r) == req[r].at = "open"
<1>1. ASSUME NEW s \in sessions, s.challenge # 0
      PROVE  Closed(s.challenge)
  BY <1>1 DEF Answers
<1>2. ASSUME NEW r \in Request, OpenSession(r) PROVE ChallengesApart'
  <2> DEFINE n == [user |-> req[r].user, challenge |-> req[r].challenge, proof |-> ProofOf(r)]
  <2>1. n.challenge = req[r].challenge /\ sessions' = sessions \cup {n}
    BY <1>2 DEF OpenSession
  <2> HIDE DEF n
  <2>2. /\ req' = [req EXCEPT ![r] = Begin("idle", req[r].user)] /\ Opens(r)
    BY <1>2 DEF OpenSession, Finish
  <2>3. /\ req'[r].at # "open"
        /\ \A q \in Request \ {r} : req'[q] = req[q]
    BY <2>2, RequestTypes DEF Begin
  <2>4. \A s \in sessions : s.challenge # n.challenge
    BY <2>1, <2>2 DEF ChallengesApart
  <2>5. \A s \in sessions' : \A t \in sessions' \ {s} : s.challenge # 0 => s.challenge # t.challenge
    BY <2>1, <2>4 DEF ChallengesApart
  <2>6. \A q \in Request : req'[q].at = "open" =>
          /\ \A s \in sessions' : s.challenge # req'[q].challenge
          /\ \A x \in Request \ {q} : req'[x].at = "open" => req'[x].challenge # req'[q].challenge
    BY <2>1, <2>2, <2>3 DEF ChallengesApart
  <2> QED
    BY <2>5, <2>6 DEF ChallengesApart
<1>3. ASSUME NEW r \in Request, OpenOnPassword(r) PROVE ChallengesApart'
  <2> DEFINE n == [user |-> req[r].user, challenge |-> 0, proof |-> PasswordOnly]
  <2>1. n.challenge = 0 /\ sessions' = sessions \cup {n}
    BY <1>3 DEF OpenOnPassword
  <2> HIDE DEF n
  <2>2. req' = [req EXCEPT ![r] = Begin("idle", req[r].user)]
    BY <1>3 DEF OpenOnPassword, Finish
  <2>3. /\ req'[r].at # "open"
        /\ \A q \in Request \ {r} : req'[q] = req[q]
    BY <2>2, RequestTypes DEF Begin
  <2>4. \A s \in sessions' : \A t \in sessions' \ {s} : s.challenge # 0 => s.challenge # t.challenge
    BY <2>1 DEF ChallengesApart
  <2>5. \A q \in Request : Opens(q) => req[q].challenge # 0
    BY RequestTypes, ChallengeTypes DEF Fits, Accepted
  <2>6. \A q \in Request : req'[q].at = "open" =>
          /\ \A s \in sessions' : s.challenge # req'[q].challenge
          /\ \A x \in Request \ {q} : req'[x].at = "open" => req'[x].challenge # req'[q].challenge
    BY <2>1, <2>3, <2>5 DEF ChallengesApart
  <2> QED
    BY <2>4, <2>6 DEF ChallengesApart
<1>4. ASSUME UNCHANGED sessions, NEW r \in Request, Moves(r) PROVE ChallengesApart'
  <2>1. PICK l \in Locals : req' = [req EXCEPT ![r] = l] /\ Becomes(l, req[r])
    BY <1>4 DEF Moves
  <2>2. req'[r] = l /\ \A q \in Request \ {r} : req'[q] = req[q]
    BY <2>1, RequestTypes
  <2>3. CASE l.at # "open"
    BY <1>4, <2>2, <2>3 DEF ChallengesApart
  <2>4. CASE l.at = "open"
    <3>1. l.challenge = req[r].challenge /\ ~Closed(l.challenge) /\ l.challenge # 0
      <4>1. l.challenge = req[r].challenge /\ ~Closed(l.challenge) /\ req[r].at = "consume"
        BY <2>1, <2>4 DEF Becomes
      <4> QED
        BY <4>1, RequestTypes, ChallengeTypes DEF Fits, Accepted
    <3>2. \A s \in sessions : s.challenge # l.challenge
      BY <1>1, <3>1
    <3>3. \A q \in Request \ {r} : Opens(q) => req[q].challenge # l.challenge
      BY <3>1, RequestTypes DEF Fits
    <3>4. \A q \in Request : req'[q].at = "open" =>
            /\ \A s \in sessions : s.challenge # req'[q].challenge
            /\ \A x \in Request \ {q} : req'[x].at = "open" => req'[x].challenge # req'[q].challenge
      BY <2>2, <3>2, <3>3 DEF ChallengesApart
    <3> QED
      BY <1>4, <3>4 DEF ChallengesApart
  <2> QED
    BY <2>3, <2>4
<1>5. CASE UNCHANGED <<sessions, req>>
  BY <1>5 DEF ChallengesApart
<1> QED
  BY <1>2, <1>3, <1>4, <1>5, Writers, NextMoves

(* A request that comes to hold a proof claimed it: it was nobody's.       *)
LEMMA ProofsStayApart ==
  ASSUME Shape, Answers, CodesOwned, StepsSpent, ProofsApart, SecretsOwned, Next
  PROVE  ProofsApart'
<1>1. \A proof : Lowered(proof) => Lowered(proof)'
  BY StepsStand DEF Standing, Lowered
<1>2. \A q \in Request : ProofOf(q) = Proof(req[q]) /\ ProofOf(q)' = Proof(req'[q])
  BY DEF ProofOf, Proof
<1>3. ASSUME NEW s \in sessions PROVE s.proof = PasswordOnly \/ <<s.user, s.proof>> \in spent
  BY DEF Answers
<1>4. ASSUME NEW q \in Request, Accepted(req[q])
      PROVE  <<req[q].user, ProofOf(q)>> \in spent /\ ProofOf(q) # PasswordOnly
  BY <1>2, <1>4, RequestTypes DEF Fits, Proof, Totp, RecoveryCode, PasswordOnly
<1>5. ASSUME NEW r \in Request, OpenSession(r) PROVE ProofsApart'
  <2> DEFINE n == [user |-> req[r].user, challenge |-> req[r].challenge, proof |-> ProofOf(r)]
  <2>1. n.proof = ProofOf(r) /\ sessions' = sessions \cup {n} /\ Accepted(req[r])
    BY <1>5 DEF OpenSession, Accepted
  <2> HIDE DEF n
  <2>2. req' = [req EXCEPT ![r] = Begin("idle", req[r].user)]
    BY <1>5 DEF OpenSession, Finish
  <2>3. ~Accepted(req'[r]) /\ \A q \in Request \ {r} : req'[q] = req[q]
    BY <2>2, RequestTypes DEF Begin, Accepted
  <2>4. \A s \in sessions : s.proof = n.proof => Lowered(n.proof)
    BY <2>1 DEF ProofsApart
  <2>5. \A s \in sessions' : \A t \in sessions' \ {s} :
          s.challenge # 0 /\ s.proof = t.proof => Lowered(s.proof)'
    BY <1>1, <2>1, <2>4 DEF ProofsApart
  <2>6. \A q \in Request : Accepted(req'[q]) =>
          /\ \A s \in sessions' : s.proof = ProofOf(q)' => Lowered(s.proof)'
          /\ \A x \in Request \ {q} : Accepted(req'[x]) /\ ProofOf(x)' = ProofOf(q)'
               => Lowered(ProofOf(q))'
    BY <1>1, <1>2, <2>1, <2>3 DEF ProofsApart
  <2> QED
    BY <2>5, <2>6 DEF ProofsApart, Accepted

<1>6. \A q \in User : <<q, PasswordOnly>> \notin spent
  BY DEF Shape, TypeOK, PasswordOnly
<1>7. ASSUME NEW r \in Request, OpenOnPassword(r) PROVE ProofsApart'
  <2> DEFINE n == [user |-> req[r].user, challenge |-> 0, proof |-> PasswordOnly]
  <2>1. n.challenge = 0 /\ n.proof = PasswordOnly /\ sessions' = sessions \cup {n}
    BY <1>7 DEF OpenOnPassword
  <2> HIDE DEF n
  <2>2. req' = [req EXCEPT ![r] = Begin("idle", req[r].user)]
    BY <1>7 DEF OpenOnPassword, Finish
  <2>3. ~Accepted(req'[r]) /\ \A q \in Request \ {r} : req'[q] = req[q]
    BY <2>2, RequestTypes DEF Begin, Accepted
  <2>4. ASSUME NEW s \in sessions, s.challenge # 0 PROVE s.proof # PasswordOnly
    <3>1. s.user \in User
      BY DEF Shape, TypeOK, Session
    <3> QED
      BY <1>6, <2>4, <3>1 DEF Answers
  <2>5. \A s \in sessions' : \A t \in sessions' \ {s} :
          s.challenge # 0 /\ s.proof = t.proof => Lowered(s.proof)'
    BY <1>1, <2>1, <2>4 DEF ProofsApart
  <2>6. \A q \in Request : Accepted(req'[q]) =>
          Accepted(req[q]) /\ ProofOf(q)' = ProofOf(q) /\ ProofOf(q) # PasswordOnly
    BY <1>2, <1>4, <2>3
  <2>7. \A q \in Request : Accepted(req'[q]) =>
          /\ \A s \in sessions' : s.proof = ProofOf(q)' => Lowered(s.proof)'
          /\ \A x \in Request \ {q} : Accepted(req'[x]) /\ ProofOf(x)' = ProofOf(q)'
               => Lowered(ProofOf(q))'
    BY <1>1, <2>1, <2>6 DEF ProofsApart
  <2> QED
    BY <2>5, <2>7 DEF ProofsApart, Accepted
<1>8. ASSUME NEW r \in Request, Moves(r), UNCHANGED sessions PROVE ProofsApart'
  <2> DEFINE k == req[r]
  <2>1. PICK l \in Locals : req' = [req EXCEPT ![r] = l] /\ Becomes(l, k)
    BY <1>8 DEF Moves
  <2>2. req'[r] = l /\ \A q \in Request \ {r} : req'[q] = req[q]
    BY <2>1, RequestTypes
  <2>3. \A s \in sessions' : \A t \in sessions' \ {s} :
          s.challenge # 0 /\ s.proof = t.proof => Lowered(s.proof)'
    BY <1>1, <1>8 DEF ProofsApart
  <2>4. ASSUME Accepted(l), NEW p \in spent, p[2] = Proof(l),
               ~(Accepted(k) /\ Proof(l) = Proof(k))
        PROVE  Lowered(Proof(l))
    <3>1. p[1] \in User
      BY DEF Shape, TypeOK
    <3>2. CASE /\ k.at = "claim_step" /\ Proof(l) = Totp(k.id, k.step) /\ l.user = k.user
               /\ totp[k.user].id = k.id /\ totp[k.user].last_step < k.step
      <4>1. p[2][1] = "totp" /\ p[2][2] = k.id /\ p[2][3] = k.step
        BY <2>4, <3>2 DEF Totp
      <4>2. k.user \in User /\ totp[k.user].last_step \in Nat /\ k.step \in Nat
        BY RequestTypes, CredentialTypes
      <4>3. k.id # 0
        BY <4>1 DEF StepsSpent
      <4>4. k.id \in SecretsOf(k.user) /\ k.id \in SecretsOf(p[1])
        BY <3>2, <4>1, <4>3 DEF SecretsOf
      <4>5. p[1] = k.user
        BY <3>1, <4>2, <4>4 DEF SecretsOwned
      <4>6. p[2][3] <= totp[k.user].last_step \/ Lowered(p[2])
        BY <3>2, <4>1, <4>2, <4>5 DEF StepsSpent
      <4> QED
        BY <2>4, <3>2, <4>1, <4>2, <4>6
    <3>3. CASE /\ k.at = "recovery" /\ Proof(l) = RecoveryCode(k.code) /\ l.user = k.user
               /\ k.code \in recovery[k.user]
      <4>1. p[2][1] = "recovery" /\ p[2][2] = k.code
        BY <2>4, <3>3 DEF RecoveryCode
      <4> QED
        BY <3>3, <4>1, RequestTypes DEF CodesOwned
    <3> QED
      BY <2>1, <2>4, <3>2, <3>3 DEF Becomes
  <2>5. ProofOf(r)' = Proof(l)
    BY <1>2, <2>2
  <2>6. ASSUME Accepted(l)
        PROVE  /\ \A s \in sessions : s.proof = Proof(l) => Lowered(s.proof)
               /\ \A x \in Request \ {r} : Accepted(req[x]) /\ ProofOf(x) = Proof(l)
                    => Lowered(Proof(l))
    <3>1. CASE Accepted(k) /\ Proof(l) = Proof(k)
      BY <1>2, <3>1 DEF ProofsApart
    <3>2. CASE ~(Accepted(k) /\ Proof(l) = Proof(k))
      <4>1. \A p \in spent : p[2] = Proof(l) => Lowered(Proof(l))
        BY <2>4, <2>6, <3>2
      <4>2. Proof(l) # PasswordOnly
        BY DEF Proof, Totp, RecoveryCode, PasswordOnly
      <4>3. ASSUME NEW u, NEW proof, <<u, proof>> \in spent, proof = Proof(l)
            PROVE  Lowered(Proof(l))
        BY <4>1, <4>3
      <4> QED
        BY <1>3, <1>4, <4>2, <4>3
    <3> QED
      BY <3>1, <3>2
  <2>7. ASSUME NEW q \in Request, Accepted(req'[q])
        PROVE  /\ \A s \in sessions : s.proof = ProofOf(q)' => Lowered(s.proof)'
               /\ \A x \in Request \ {q} : Accepted(req'[x]) /\ ProofOf(x)' = ProofOf(q)'
                    => Lowered(ProofOf(q))'
    <3>1. CASE q = r
      <4>1. Accepted(l) /\ \A x \in Request \ {r} : req'[x] = req[x] /\ ProofOf(x)' = ProofOf(x)
        BY <1>2, <2>2, <2>7, <3>1
      <4> QED
        BY <1>1, <2>5, <2>6, <3>1, <4>1
    <3>2. CASE q # r
      <4>1. Accepted(req[q]) /\ ProofOf(q)' = ProofOf(q)
        BY <1>2, <2>2, <2>7, <3>2
      <4>2. \A s \in sessions : s.proof = ProofOf(q) => Lowered(s.proof)
        BY <4>1 DEF ProofsApart
      <4>3. ASSUME NEW x \in Request \ {q}, Accepted(req'[x]), ProofOf(x)' = ProofOf(q)
            PROVE  Lowered(ProofOf(q))
        <5>1. CASE x = r
          BY <2>2, <2>5, <2>6, <3>2, <4>1, <4>3, <5>1
        <5>2. CASE x # r
          <6>1. Accepted(req[x]) /\ ProofOf(x) = ProofOf(q)
            BY <1>2, <2>2, <4>3, <5>2
          <6> QED
            BY <4>1, <6>1 DEF ProofsApart
        <5> QED
          BY <5>1, <5>2
      <4> QED
        BY <1>1, <4>1, <4>2, <4>3
    <3> QED
      BY <3>1, <3>2
  <2> QED
    BY <1>8, <2>3, <2>7 DEF ProofsApart, Accepted
<1>9. ASSUME UNCHANGED <<sessions, req>> PROVE ProofsApart'
  BY <1>1, <1>2, <1>9 DEF ProofsApart, Accepted
<1> QED
  BY <1>5, <1>7, <1>8, <1>9, Writers, NextMoves

-----------------------------------------------------------------------------
(* The budget of a challenge.                                              *)
Budget(c) ==
  challenges[c].attempts + Cardinality(Answering(c)) < MaxAttempts + Cardinality(Request)

LEMMA AnsweringFinite ==
  \A c : /\ IsFiniteSet(Answering(c)) /\ Cardinality(Answering(c)) \in Nat
         /\ Cardinality(Answering(c)) <= Cardinality(Request)
         /\ Cardinality(Request) \in Nat
<1>1. \A c : Answering(c) \subseteq Request
  BY DEF Answering
<1>2. \A c : IsFiniteSet(Answering(c)) /\ Cardinality(Answering(c)) <= Cardinality(Request)
  BY <1>1, RequestAssumption, FS_Subset
<1> QED
  BY <1>2, RequestAssumption, FS_CardinalityType

LEMMA AnsweringFiniteNext ==
  \A c : /\ IsFiniteSet(Answering(c)') /\ Cardinality(Answering(c)') \in Nat
         /\ Cardinality(Answering(c)') <= Cardinality(Request)
<1>1. \A c : Answering(c)' \subseteq Request
  BY DEF Answering
<1>2. \A c : IsFiniteSet(Answering(c)') /\ Cardinality(Answering(c)') <= Cardinality(Request)
  BY <1>1, RequestAssumption, FS_Subset
<1> QED
  BY <1>2, FS_CardinalityType

(* An answer to a challenge that is not being checked yet finds it live.   *)
LEMMA AnsweringGrows ==
  ASSUME Shape, Next, NEW c
  PROVE  \/ Answering(c)' \subseteq Answering(c)
         \/ Live(c) /\ UNCHANGED challenges
<1>1. ASSUME NEW r \in Request, Moves(r)
      PROVE  \/ Answering(c)' \subseteq Answering(c)
             \/ Live(c) /\ UNCHANGED challenges
  <2>1. PICK l \in Locals : req' = [req EXCEPT ![r] = l] /\ Becomes(l, req[r])
    BY <1>1 DEF Moves
  <2>2. req'[r] = l /\ \A q \in Request \ {r} : req'[q] = req[q]
    BY <2>1, RequestTypes
  <2> QED
    BY <2>1, <2>2 DEF Becomes, Answering, Checking
<1>2. CASE UNCHANGED req
  BY <1>2 DEF Answering
<1> QED
  BY <1>1, <1>2, NextMoves

LEMMA BudgetKept ==
  ASSUME Shape, FailuresBounded, Next
  PROVE  FailuresBounded'
<1> DEFINE Few(c) == challenges'[c].attempts + Cardinality(Answering(c)')
                       < MaxAttempts + Cardinality(Request)
<1>1. MaxAttempts \in Nat \ {0} /\ Cardinality(Request) \in Nat
  BY NumberAssumption, AnsweringFinite
<1>2. challenges \in Seq(Challenge)
  BY DEF Shape, TypeOK
<1>3. ASSUME NEW c \in DOMAIN challenges
      PROVE  challenges[c].attempts \in Nat /\ Budget(c)
  BY ChallengeTypes DEF FailuresBounded, Budget
<1>4. ASSUME NEW c \in DOMAIN challenges, challenges'[c].attempts \in Nat,
             challenges'[c].attempts <= challenges[c].attempts
      PROVE  Few(c)
  <2>1. CASE Answering(c)' \subseteq Answering(c)
    <3>1. Cardinality(Answering(c)') <= Cardinality(Answering(c))
      BY <2>1, AnsweringFinite, FS_Subset
    <3> QED
      BY <1>1, <1>3, <1>4, <3>1, AnsweringFinite, AnsweringFiniteNext DEF Budget
  <2>2. CASE Live(c)
    <3>1. challenges[c].attempts < MaxAttempts
      BY <2>2 DEF Live
    <3> QED
      BY <1>1, <1>3, <1>4, <3>1, AnsweringFiniteNext
  <2> QED
    BY <2>1, <2>2, AnsweringGrows
<1>5. CASE UNCHANGED challenges
  BY <1>3, <1>4, <1>5 DEF FailuresBounded
<1>6. ASSUME NEW r \in Request, IssueChallenge(r) PROVE FailuresBounded'
  <2> DEFINE row == [user |-> req[r].user, attempts |-> 0, expires_at |-> now + ChallengeLifetime,
                     consumed |-> FALSE, deleted |-> FALSE]
  <2>1. row \in Challenge /\ row.attempts = 0
    BY RequestTypes, Numbers DEF Challenge, Shape, TypeOK
  <2>2. challenges' = Append(challenges, row)
    BY <1>6 DEF IssueChallenge
  <2> HIDE DEF row
  <2>3. /\ \A c \in DOMAIN challenges : challenges'[c] = challenges[c]
        /\ \A c \in DOMAIN challenges' \ DOMAIN challenges : challenges'[c] = row
    BY <1>2, <2>1, <2>2, Appended
  <2>4. ASSUME NEW c \in DOMAIN challenges PROVE Few(c)
    BY <1>3, <1>4, <2>3
  <2>5. ASSUME NEW c \in DOMAIN challenges' \ DOMAIN challenges PROVE Few(c)
    BY <1>1, <2>1, <2>3, AnsweringFiniteNext
  <2> QED
    BY <2>4, <2>5 DEF FailuresBounded
<1>7. ASSUME NEW r \in Request, RecordFailure(r) PROVE FailuresBounded'
  <2>1. PICK d \in DOMAIN challenges : d = req[r].challenge /\ r \in Answering(d)
    BY <1>7, RequestTypes DEF RecordFailure, Fits, Checking, Answering
  <2> DEFINE row == [challenges[d] EXCEPT !.attempts = IF challenges[d].deleted THEN @ ELSE @ + 1]
  <2>2. row.attempts \in Nat /\ row.attempts <= challenges[d].attempts + 1
    BY <2>1, ChallengeTypes DEF Challenge
  <2>3. challenges' = [challenges EXCEPT ![d] = row]
    BY <1>7, <2>1 DEF RecordFailure
  <2>4. req' = [req EXCEPT ![r] = Begin("idle", req[r].user)]
    BY <1>7 DEF RecordFailure, Finish
  <2> HIDE DEF row
  <2>5. /\ challenges'[d] = row /\ DOMAIN challenges' = DOMAIN challenges
        /\ \A c \in DOMAIN challenges \ {d} : challenges'[c] = challenges[c]
    BY <1>2, <2>1, <2>3
  <2>6. Answering(d)' \subseteq Answering(d) \ {r}
    <3>1. req'[r].at = "idle" /\ \A q \in Request \ {r} : req'[q] = req[q]
      BY <2>4, RequestTypes DEF Begin
    <3> QED
      BY <3>1 DEF Answering
  <2>7. Cardinality(Answering(d)') <= Cardinality(Answering(d)) - 1
    <3>1. /\ IsFiniteSet(Answering(d) \ {r})
          /\ Cardinality(Answering(d) \ {r}) = Cardinality(Answering(d)) - 1
      BY <2>1, AnsweringFinite, FS_RemoveElement
    <3>2. Cardinality(Answering(d)') <= Cardinality(Answering(d) \ {r})
      BY <2>6, <3>1, FS_Subset
    <3> QED
      BY <3>1, <3>2
  <2>8. Few(d)
    <3>1. Budget(d) /\ challenges[d].attempts \in Nat
      BY <1>3, <2>1
    <3> QED
      BY <1>1, <2>2, <2>5, <2>7, <3>1, AnsweringFinite, AnsweringFiniteNext DEF Budget
  <2>9. ASSUME NEW c \in DOMAIN challenges \ {d} PROVE Few(c)
    BY <1>3, <1>4, <2>5
  <2>10. ASSUME NEW c \in DOMAIN challenges PROVE Few(c)
    BY <2>8, <2>9
  <2> QED
    BY <2>5, <2>10 DEF FailuresBounded
<1>8. ASSUME NEW r \in Request, Consume(r) PROVE FailuresBounded'
  <2> DEFINE d == req[r].challenge
             row == [challenges[d] EXCEPT !.consumed = TRUE]
  <2>1. d \in DOMAIN challenges
    BY <1>8, RequestTypes DEF Consume, Fits, Accepted
  <2>2. row.attempts = challenges[d].attempts
    BY <2>1, ChallengeTypes DEF Challenge
  <2>3. UNCHANGED challenges \/ challenges' = [challenges EXCEPT ![d] = row]
    BY <1>8 DEF Consume
  <2> HIDE DEF row
  <2>4. /\ DOMAIN challenges' = DOMAIN challenges
        /\ \A c \in DOMAIN challenges : challenges'[c].attempts = challenges[c].attempts
    BY <1>2, <2>1, <2>2, <2>3
  <2> QED
    BY <1>3, <1>4, <2>4 DEF FailuresBounded
<1>9. ASSUME PurgeChallenges PROVE FailuresBounded'
  <2>1. DOMAIN challenges' = DOMAIN challenges
    BY <1>9 DEF PurgeChallenges
  <2>2. \A c \in DOMAIN challenges : \/ challenges'[c].attempts = challenges[c].attempts
                                     \/ challenges'[c].attempts = 0
    BY <1>9 DEF PurgeChallenges, Purged
  <2>3. ASSUME NEW c \in DOMAIN challenges PROVE Few(c)
    BY <1>3, <1>4, <2>2
  <2> QED
    BY <2>1, <2>3 DEF FailuresBounded
<1> QED
  BY <1>5, <1>6, <1>7, <1>8, <1>9, Writers

-----------------------------------------------------------------------------
LEMMA InitIInv == Init => IInv
<1> SUFFICES ASSUME Init PROVE IInv
  OBVIOUS
<1>1. PICK v \in User : req = [r \in Request |-> Begin("idle", v)]
  BY DEF Init
<1>2. Begin("idle", v) \in Locals /\ \A r \in Request : req[r].at = "idle" /\ req[r] \in Locals
  BY <1>1, BeginIs DEF At
<1>3. Shape
  <2>1. NoCredential \in Credential /\ NoCredential.id \in 0..0
    BY DEF NoCredential, Credential
  <2>2. TypeOK
    BY <1>1, <1>2, <2>1, Numbers DEF Init, TypeOK
  <2>3. \A r \in Request : Fits(req[r])
    BY <1>2 DEF Fits, Checking, Accepted
  <2> QED
    BY <2>1, <2>2, <2>3 DEF Init, Shape
<1>4. SecretsOwned
  BY <1>2 DEF Init, SecretsOwned, SecretsOf, NoCredential
<1>5. CodesOwned /\ StepsSpent /\ Answers
  BY DEF Init, CodesOwned, StepsSpent, Answers
<1>6. ChallengesApart /\ ProofsApart
  BY <1>2 DEF Init, ChallengesApart, ProofsApart, Accepted
<1>7. FailuresBounded
  BY DEF Init, FailuresBounded
<1> QED
  BY <1>3, <1>4, <1>5, <1>6, <1>7 DEF IInv

LEMMA NextIInv == IInv /\ [Next]_vars => IInv'
<1> SUFFICES ASSUME IInv, [Next]_vars PROVE IInv'
  OBVIOUS
<1>1. CASE Next
  BY <1>1, NextShape, SecretsStayOwned, CodesStayOwned, StepsStaySpent, AnswersStand,
     ChallengesStayApart, ProofsStayApart, BudgetKept DEF IInv
<1>2. CASE UNCHANGED vars
  <2>1. Shape'
    BY <1>2, NextShape DEF IInv
  <2>2. SecretsOwned' /\ CodesOwned' /\ StepsSpent'
    BY <1>2 DEF vars, IInv, SecretsOwned, SecretsOf, CodesOwned, StepsSpent, Lowered
  <2>3. Answers' /\ ChallengesApart'
    BY <1>2 DEF vars, IInv, Answers, Closed, ChallengesApart
  <2>4. ProofsApart'
    BY <1>2 DEF vars, IInv, ProofsApart, Accepted, ProofOf, Lowered
  <2>5. FailuresBounded'
    BY <1>2 DEF vars, IInv, FailuresBounded, Answering
  <2> QED
    BY <2>1, <2>2, <2>3, <2>4, <2>5 DEF IInv
<1> QED
  BY <1>1, <1>2

LEMMA Invariance == Spec => []IInv
BY InitIInv, NextIInv, PTL DEF Spec

(* The variables keep their types: a confirmed authenticator has spent a   *)
(* step of the drift window, an answer names a challenge.                  *)
THEOREM Typing == Spec => []TypeOK
<1>1. IInv => TypeOK
  BY DEF IInv, Shape
<1> QED
  BY <1>1, Invariance, PTL

(* A challenge and an accepted proof are behind one session each, however  *)
(* many requests present them at once (challenge.rs consume, totp.rs       *)
(* verify, recovery.rs claim), unless two requests confirmed the secret.   *)
THEOREM ProofsOpenOneSession == Spec => []ProofOpensOneSession
<1>1. IInv => ProofOpensOneSession
  BY DEF IInv, Answers, ChallengesApart, ProofsApart, ProofOpensOneSession
<1> QED
  BY <1>1, Invariance, PTL

(* A step accepted of the enrolled secret is behind last_step, so its code *)
(* is not accepted again (totp.rs verify and confirm), unless two requests *)
(* confirmed the secret.                                                   *)
THEOREM SpentSteps == Spec => []SpentStepsStaySpent
<1>1. StepsSpent => SpentStepsStaySpent
  <2> SUFFICES ASSUME StepsSpent, NEW u \in User, NEW step \in Step, totp[u].confirmed,
                      <<u, Totp(totp[u].id, step)>> \in spent
               PROVE  step <= totp[u].last_step \/ Lowered(Totp(totp[u].id, step))
    BY DEF SpentStepsStaySpent
  <2> DEFINE p == <<u, Totp(totp[u].id, step)>>
  <2>1. p[1] = u /\ p[2][1] = "totp" /\ p[2][2] = totp[u].id /\ p[2][3] = step
    BY DEF Totp
  <2>2. p[2] = Totp(totp[u].id, step) /\ p \in spent
    OBVIOUS
  <2> HIDE DEF p
  <2> QED
    BY <2>1, <2>2 DEF StepsSpent
<1>2. IInv => SpentStepsStaySpent
  BY <1>1 DEF IInv
<1> QED
  BY <1>2, Invariance, PTL

(* The failures of a challenge and the answers to it being checked stay    *)
(* within its budget and one for every other request (challenge.rs lookup  *)
(* and record_failure).                                                    *)
THEOREM BudgetHolds == Spec => []FailuresBounded
<1>1. IInv => FailuresBounded
  BY DEF IInv
<1> QED
  BY <1>1, Invariance, PTL
=============================================================================
