------------------------------ MODULE SignInProofs ------------------------------
(***************************************************************************)
(* Proofs about passwords and sessions: the typing of their state, what a  *)
(* revocation of sessions reaches, and how far requests in flight overrun  *)
(* the lockout.                                                            *)
(***************************************************************************)
EXTENDS SignIn, FiniteSetTheorems, TLAPS

(* A login past the check of its password, which will end in a session.    *)
Carries(l) == l.at \in {"organization", "rehash", "finish", "open"}

(* A guess that has passed the count by identifier, and the one by         *)
(* address, and whose failure is not recorded yet.                         *)
PastIdentifier(l) == l.at \in {"address", "read", "organization", "failed"}
PastAddress(l) == l.at \in {"read", "organization", "failed"}

(* What a request carries where it stands.                                 *)
Placed(l) ==
  /\ PastIdentifier(l) \/ l.at \in {"identifier", "locked"} =>
       l.identifier \in Identifier /\ l.address \in Address
  /\ l.at \in {"identifier", "address", "read"} => l.password \in Password
  /\ Carries(l) \/ l.at = "set_password" => l.user \in User /\ l.password \in Password
  /\ l.at = "revoke" => l.user \in User

Shape ==
  /\ TypeOK /\ IsFiniteSet(attempts)
  /\ \A r \in Request : Placed(req[r])

(* A login that read the account since its sessions were last revoked, and *)
(* nothing is about to revoke: the password is still the account's, which  *)
(* is not disabled.                                                        *)
Current(u, p, e) ==
  /\ e <= ended[u]
  /\ e = ended[u] /\ ~Unsettled(u) => p = passwords[u].value /\ enabled[u]

LoginsCurrent ==
  /\ \A s \in sessions \cup challenges : Current(s.user, s.password, s.epoch)
  /\ \A r \in Request : Carries(req[r]) => Current(req[r].user, req[r].password, req[r].epoch)

(* The guesses in flight, which the bound of the lockout leaves room for.  *)
GuessesOf(i) == {r \in Request : PastIdentifier(req[r]) /\ req[r].identifier = i}
GuessesFrom(a) == {r \in Request : PastAddress(req[r]) /\ req[r].address = a}

Budget ==
  /\ \A i \in Identifier :
       Checked(FailuresOf(i)) + Cardinality(GuessesOf(i))
         < MaxPerIdentifier + Cardinality(Request)
  /\ \A a \in Address :
       Checked(FailuresFrom(a)) + Cardinality(GuessesFrom(a))
         < MaxPerAddress + Cardinality(Request)

IInv == Shape /\ LoginsCurrent /\ Budget

-----------------------------------------------------------------------------
LEMMA Member ==
  ASSUME NEW S, NEW s \in Seq(S), NEW i \in DOMAIN s
  PROVE  s[i] \in S
OBVIOUS

-----------------------------------------------------------------------------
(* How a request moves.  A login that carries on keeps what it carries; it *)
(* begins with a reading of the account or with a challenge.               *)
ReadNow(l) ==
  /\ l.user \in User /\ l.password = passwords[l.user].value /\ enabled[l.user]
  /\ l.epoch = ended[l.user]

SameLogin(l, k) == l.user = k.user /\ l.password = k.password /\ l.epoch = k.epoch

(* A guess passes a count only below the limit.                            *)
Counts(l, k) ==
  /\ PastIdentifier(l) =>
       /\ l.identifier = k.identifier
       /\ \/ PastIdentifier(k)
          \/ Cardinality(FailuresOf(k.identifier)) < MaxPerIdentifier /\ UNCHANGED <<attempts, now>>
  /\ PastAddress(l) =>
       /\ l.address = k.address
       /\ \/ PastAddress(k)
          \/ Cardinality(FailuresFrom(k.address)) < MaxPerAddress /\ UNCHANGED <<attempts, now>>

Moves(r) ==
  \E l \in Locals :
    /\ req' = [req EXCEPT ![r] = l] /\ Placed(l) /\ Counts(l, req[r])
    /\ Carries(l) => \/ Carries(req[r]) /\ SameLogin(l, req[r])
                     \/ ReadNow(l)
                     \/ \E c \in challenges : SameLogin(l, c)

LEMMA RequestTypes ==
  ASSUME Shape, NEW r \in Request
  PROVE  /\ req \in [Request -> Locals] /\ req[r] \in Locals
         /\ NoLocals \in Locals /\ Placed(NoLocals) /\ Placed(req[r])
<1>1. NoLocals \in Locals
  BY DEF NoLocals, Locals, At
<1>2. Placed(NoLocals)
  BY DEF NoLocals, Placed, PastIdentifier, Carries
<1> QED
  BY <1>1, <1>2 DEF Shape, TypeOK

LEMMA IdleMoves ==
  ASSUME Shape, NEW r \in Request, Idle(r)
  PROVE  Moves(r)
<1>1. req' = [req EXCEPT ![r] = NoLocals]
  BY DEF Idle
<1>2. /\ ~Carries(NoLocals) /\ ~PastIdentifier(NoLocals) /\ ~PastAddress(NoLocals)
  BY DEF NoLocals, Carries, PastIdentifier, PastAddress
<1> QED
  BY <1>1, <1>2, RequestTypes DEF Moves, Counts

LEMMA RefuseMoves ==
  ASSUME Shape, NEW r \in Request, NEW at \in {"locked", "failed"}, Refuse(r, at),
         PastIdentifier(req[r]) \/ req[r].at = "identifier",
         at = "failed" => PastAddress(req[r])
  PROVE  Moves(r)
<1> DEFINE l == [NoLocals EXCEPT !.at = at, !.identifier = req[r].identifier,
                                 !.address = req[r].address]
<1>1. req[r] \in Locals /\ NoLocals \in Locals /\ Placed(req[r])
  BY RequestTypes
<1>2. l \in Locals
  BY <1>1 DEF Locals, At
<1>3. l.at = at /\ l.identifier = req[r].identifier /\ l.address = req[r].address
  BY DEF NoLocals
<1>4. req' = [req EXCEPT ![r] = l]
  BY DEF Refuse
<1> HIDE DEF l
<1>5. Placed(l)
  BY <1>1, <1>3 DEF Placed, PastIdentifier, Carries
<1>6. Counts(l, req[r])
  BY <1>3 DEF Counts, PastIdentifier, PastAddress
<1>7. ~Carries(l)
  BY <1>3 DEF Carries
<1> QED
  BY <1>2, <1>4, <1>5, <1>6, <1>7 DEF Moves

(* A request that only goes on to another statement.                       *)
LEMMA GotoMoves ==
  ASSUME Shape, NEW r \in Request, NEW at \in At, Goto(r, at),
         \/ at \in {"address", "read"} /\ req[r].at \in {"identifier", "address"}
              /\ Counts([req[r] EXCEPT !.at = at], req[r])
         \/ at = "finish" /\ Carries(req[r])
         \/ at = "revoke" /\ req[r].at = "set_password"
  PROVE  Moves(r)
<1> DEFINE l == [req[r] EXCEPT !.at = at]
<1>1. req[r] \in Locals /\ Placed(req[r])
  BY RequestTypes
<1>2. l \in Locals
  BY <1>1 DEF Locals
<1>3. /\ l.at = at /\ l.identifier = req[r].identifier /\ l.address = req[r].address
      /\ l.user = req[r].user /\ l.password = req[r].password /\ l.epoch = req[r].epoch
  BY <1>1 DEF Locals
<1>4. req' = [req EXCEPT ![r] = l]
  BY DEF Goto
<1>5. \/ at \in {"address", "read"} /\ req[r].at \in {"identifier", "address"}
           /\ Counts(l, req[r])
      \/ at = "finish" /\ Carries(req[r])
      \/ at = "revoke" /\ req[r].at = "set_password"
  OBVIOUS
<1> HIDE DEF l
<1>6. Placed(l)
  BY <1>1, <1>3, <1>5 DEF Placed, PastIdentifier, Carries
<1>7. Counts(l, req[r])
  BY <1>3, <1>5 DEF Counts, PastIdentifier, PastAddress
<1>8. Carries(l) => Carries(req[r]) /\ SameLogin(l, req[r])
  BY <1>3, <1>5 DEF Carries, SameLogin
<1> QED
  BY <1>2, <1>4, <1>6, <1>7, <1>8 DEF Moves

(* The statements of a login, one by one.                                  *)
LEMMA AttemptMoves ==
  ASSUME Shape, NEW r \in Request, NEW i \in Identifier, NEW a \in Address, NEW p \in Password,
         Attempt(r, i, a, p)
  PROVE  Moves(r)
<1> DEFINE l == [req[r] EXCEPT !.at = "identifier", !.identifier = i, !.address = a,
                               !.password = p]
<1>1. req[r] \in Locals
  BY RequestTypes
<1>2. l \in Locals
  BY <1>1 DEF Locals, At
<1>3. l.at = "identifier" /\ l.identifier = i /\ l.address = a /\ l.password = p
  BY <1>1 DEF Locals
<1>4. req' = [req EXCEPT ![r] = l]
  BY DEF Attempt
<1> HIDE DEF l
<1>5. Placed(l) /\ Counts(l, req[r]) /\ ~Carries(l)
  BY <1>3 DEF Placed, PastIdentifier, PastAddress, Carries, Counts
<1> QED
  BY <1>2, <1>4, <1>5 DEF Moves

LEMMA CountMoves ==
  ASSUME Shape, NEW r \in Request, CountByIdentifier(r) \/ CountByAddress(r)
  PROVE  Moves(r)
<1>1. FailuresOf(req[r].identifier) \subseteq attempts /\ IsFiniteSet(FailuresOf(req[r].identifier))
      /\ FailuresFrom(req[r].address) \subseteq attempts /\ IsFiniteSet(FailuresFrom(req[r].address))
  BY FS_Subset DEF FailuresOf, FailuresFrom, Shape
<1>2. /\ Cardinality(FailuresOf(req[r].identifier)) \in Nat
      /\ Cardinality(FailuresFrom(req[r].address)) \in Nat
  BY <1>1, FS_CardinalityType
<1>3. req[r] \in Locals
  BY RequestTypes
<1>4. UNCHANGED <<attempts, now>>
  BY DEF CountByIdentifier, CountByAddress
<1>5. ASSUME NEW at \in {"address", "read"}
      PROVE  LET l == [req[r] EXCEPT !.at = at]
             IN l.at = at /\ l.identifier = req[r].identifier /\ l.address = req[r].address
  BY <1>3 DEF Locals
<1>6. CASE Refuse(r, "locked")
  BY <1>6, RefuseMoves DEF CountByIdentifier, CountByAddress, PastIdentifier
<1>7. CASE /\ req[r].at = "identifier" /\ Goto(r, "address")
           /\ ~(Cardinality(FailuresOf(req[r].identifier)) >= MaxPerIdentifier)
  <2>1. Cardinality(FailuresOf(req[r].identifier)) < MaxPerIdentifier
    BY <1>2, <1>7, LimitAssumption
  <2>2. Counts([req[r] EXCEPT !.at = "address"], req[r])
    BY <1>4, <1>5, <2>1 DEF Counts, PastAddress, PastIdentifier
  <2> QED
    BY <1>7, <2>2, GotoMoves DEF At
<1>8. CASE /\ req[r].at = "address" /\ Goto(r, "read")
           /\ ~(Cardinality(FailuresFrom(req[r].address)) >= MaxPerAddress)
  <2>1. Cardinality(FailuresFrom(req[r].address)) < MaxPerAddress
    BY <1>2, <1>8, LimitAssumption
  <2>2. Counts([req[r] EXCEPT !.at = "read"], req[r])
    BY <1>4, <1>5, <1>8, <2>1 DEF Counts, PastIdentifier
  <2> QED
    BY <1>8, <2>2, GotoMoves DEF At
<1> QED
  BY <1>6, <1>7, <1>8 DEF CountByIdentifier, CountByAddress

LEMMA ReadAccountMoves ==
  ASSUME Shape, NEW r \in Request, ReadAccount(r)
  PROVE  Moves(r)
<1> DEFINE u == Owner[req[r].identifier]
           l == [req[r] EXCEPT !.at = "organization", !.user = u,
                               !.stale = passwords[u].stale, !.epoch = ended[u]]
<1>1. req[r] \in Locals /\ Placed(req[r]) /\ req[r].at = "read"
  BY RequestTypes DEF ReadAccount
<1>2. CASE Refuse(r, "failed")
  BY <1>1, <1>2, RefuseMoves DEF PastIdentifier, PastAddress
<1>3. CASE /\ u \in User /\ passwords[u].value = req[r].password /\ enabled[u]
           /\ req' = [req EXCEPT ![r] = l]
  <2>1. passwords[u] \in [value : Password, stale : BOOLEAN] /\ ended[u] \in Nat
    BY <1>3 DEF Shape, TypeOK
  <2>2. l \in Locals
    BY <1>1, <1>3, <2>1 DEF Locals, At
  <2>3. /\ l.at = "organization" /\ l.user = u /\ l.epoch = ended[u] /\ l.password = req[r].password
        /\ l.identifier = req[r].identifier /\ l.address = req[r].address
    BY <1>1 DEF Locals
  <2> HIDE DEF l
  <2>4. Placed(l)
    BY <1>1, <1>3, <2>3 DEF Placed, PastIdentifier, Carries
  <2>5. Counts(l, req[r])
    BY <1>1, <2>3 DEF Counts, PastIdentifier, PastAddress
  <2>6. ReadNow(l)
    BY <1>3, <2>3 DEF ReadNow
  <2> QED
    BY <1>3, <2>2, <2>4, <2>5, <2>6 DEF Moves
<1> QED
  BY <1>2, <1>3 DEF ReadAccount

LEMMA CheckOrganizationMoves ==
  ASSUME Shape, NEW r \in Request, CheckOrganization(r)
  PROVE  Moves(r)
<1> DEFINE at == IF req[r].stale THEN "rehash" ELSE "finish"
           l == [req[r] EXCEPT !.at = at, !.identifier = None, !.address = None, !.stale = FALSE]
<1>1. req[r] \in Locals /\ Placed(req[r]) /\ req[r].at = "organization"
      /\ req \in [Request -> Locals]
  BY RequestTypes DEF CheckOrganization
<1>2. CASE Refuse(r, "failed")
  BY <1>1, <1>2, RefuseMoves DEF PastIdentifier, PastAddress
<1>3. CASE req' = [req EXCEPT ![r] = l]
  <2>1. at \in {"rehash", "finish"}
    OBVIOUS
  <2> HIDE DEF at
  <2>2. l \in Locals
    BY <1>1, <2>1 DEF Locals, At
  <2>3. /\ l.at = at /\ l.user = req[r].user /\ l.password = req[r].password
        /\ l.epoch = req[r].epoch
    BY <1>1 DEF Locals
  <2> HIDE DEF l
  <2>4. Placed(l)
    BY <1>1, <2>1, <2>3 DEF Placed, PastIdentifier, Carries
  <2>5. Counts(l, req[r])
    BY <2>1, <2>3 DEF Counts, PastIdentifier, PastAddress
  <2>6. Carries(req[r]) /\ SameLogin(l, req[r])
    BY <1>1, <2>3 DEF Carries, SameLogin
  <2> QED
    BY <1>3, <2>2, <2>4, <2>5, <2>6 DEF Moves
<1>4. ~BlocksSignIn(req[r].user) => req' = [req EXCEPT ![r] = l]
  BY <1>1 DEF CheckOrganization
<1> QED
  BY <1>2, <1>3, <1>4 DEF CheckOrganization

LEMMA AnswerChallengeMoves ==
  ASSUME Shape, NEW r \in Request, NEW c \in challenges, AnswerChallenge(r, c)
  PROVE  Moves(r)
<1> DEFINE l == [req[r] EXCEPT !.at = "open", !.user = c.user, !.password = c.password,
                               !.epoch = c.epoch]
<1>1. req[r] \in Locals /\ c \in Login
  BY RequestTypes DEF Shape, TypeOK
<1>2. c.user \in User /\ c.password \in Password /\ c.epoch \in Nat
  BY <1>1 DEF Login
<1>3. l \in Locals
  BY <1>1, <1>2 DEF Locals, At
<1>4. l.at = "open" /\ l.user = c.user /\ l.password = c.password /\ l.epoch = c.epoch
  BY <1>1 DEF Locals
<1>5. req' = [req EXCEPT ![r] = l]
  BY DEF AnswerChallenge
<1> HIDE DEF l
<1>6. Placed(l) /\ Counts(l, req[r]) /\ SameLogin(l, c)
  BY <1>2, <1>4 DEF Placed, PastIdentifier, PastAddress, Carries, Counts, SameLogin
<1> QED
  BY <1>3, <1>5, <1>6 DEF Moves

(* The statements of a reset and of a disabling.                           *)
LEMMA ClaimResetMoves ==
  ASSUME Shape, NEW r \in Request, NEW k \in DOMAIN resets, NEW p \in Password,
         ClaimReset(r, k, p)
  PROVE  Moves(r)
<1> DEFINE l == [req[r] EXCEPT !.at = "set_password", !.user = resets[k].user, !.password = p,
                               !.reset = TRUE]
<1>1. req[r] \in Locals
  BY RequestTypes
<1>2. resets[k] \in [user : User, expires_at : Nat, used : BOOLEAN]
  <2>1. resets \in Seq([user : User, expires_at : Nat, used : BOOLEAN])
    BY DEF Shape, TypeOK
  <2> QED
    BY <2>1, Member
<1>3. resets[k].user \in User
  BY <1>2
<1>4. l \in Locals
  BY <1>1, <1>3 DEF Locals, At
<1>5. l.at = "set_password" /\ l.user = resets[k].user /\ l.password = p
  BY <1>1 DEF Locals
<1>6. req' = [req EXCEPT ![r] = l]
  BY DEF ClaimReset
<1> HIDE DEF l
<1>7. Placed(l) /\ Counts(l, req[r]) /\ ~Carries(l)
  BY <1>3, <1>5 DEF Placed, PastIdentifier, PastAddress, Carries, Counts
<1> QED
  BY <1>4, <1>6, <1>7 DEF Moves

LEMMA DisableMoves ==
  ASSUME Shape, NEW r \in Request, NEW u \in User, Disable(r, u)
  PROVE  Moves(r)
<1> DEFINE l == [req[r] EXCEPT !.at = "revoke", !.user = u]
<1>1. req[r] \in Locals
  BY RequestTypes
<1>2. l \in Locals /\ l.at = "revoke" /\ l.user = u
  BY <1>1 DEF Locals, At
<1>3. req' = [req EXCEPT ![r] = l]
  BY DEF Disable
<1> HIDE DEF l
<1>4. Placed(l) /\ Counts(l, req[r]) /\ ~Carries(l)
  BY <1>2 DEF Placed, PastIdentifier, PastAddress, Carries, Counts
<1> QED
  BY <1>2, <1>3, <1>4 DEF Moves

LEMMA ClearMoves ==
  ASSUME Shape, NEW r \in Request, NEW left \in SUBSET Identifier,
         req' = [req EXCEPT ![r] = [@ EXCEPT !.at = "clear", !.left = left]]
  PROVE  Moves(r)
<1> DEFINE l == [req[r] EXCEPT !.at = "clear", !.left = left]
<1>1. req[r] \in Locals
  BY RequestTypes
<1>2. l \in Locals /\ l.at = "clear"
  BY <1>1 DEF Locals, At
<1>3. req' = [req EXCEPT ![r] = l]
  OBVIOUS
<1> HIDE DEF l
<1>4. Placed(l) /\ Counts(l, req[r]) /\ ~Carries(l)
  BY <1>2 DEF Placed, PastIdentifier, PastAddress, Carries, Counts
<1> QED
  BY <1>2, <1>3, <1>4 DEF Moves

LEMMA ResetMoves ==
  ASSUME Shape, NEW r \in Request, RevokeSessions(r) \/ ClearFailures(r)
  PROVE  Moves(r)
<1>1. req[r] \in Locals /\ req \in [Request -> Locals]
  BY RequestTypes
<1>2. CASE Idle(r)
  BY <1>2, IdleMoves
<1>3. CASE RevokeSessions(r) /\ ~Idle(r)
  BY <1>3, ClearMoves DEF RevokeSessions
<1>4. CASE ClearFailures(r) /\ ~Idle(r)
  <2>1. PICK i \in req[r].left : req' = [req EXCEPT ![r].left = @ \ {i}]
    BY <1>4 DEF ClearFailures
  <2>2. req[r].at = "clear"
    BY <1>4 DEF ClearFailures
  <2>3. [req[r] EXCEPT !.left = @ \ {i}] = [req[r] EXCEPT !.at = "clear", !.left = req[r].left \ {i}]
    BY <1>1, <2>2 DEF Locals
  <2>4. req[r].left \ {i} \in SUBSET Identifier
    BY <1>1 DEF Locals
  <2>5. req' = [req EXCEPT ![r] = [@ EXCEPT !.at = "clear", !.left = req[r].left \ {i}]]
    BY <2>1, <2>3
  <2> QED
    BY <2>4, <2>5, ClearMoves
<1> QED
  BY <1>2, <1>3, <1>4

LEMMA RequestMoves ==
  ASSUME Shape, NEW r \in Request,
         Authenticate(r) \/ CompleteReset(r) \/ Abort(r) \/ \E u \in User : Disable(r, u)
  PROVE  Moves(r)
<1>1. CASE FinishLogin(r) \/ RecordFailure(r) \/ OpenSession(r) \/ Abort(r)
  BY <1>1, IdleMoves DEF FinishLogin, RecordFailure, OpenSession, Abort
<1>2. CASE Rehash(r)
  BY <1>2, GotoMoves DEF Rehash, Carries, At
<1>3. CASE SetPassword(r)
  BY <1>3, GotoMoves DEF SetPassword, At
<1> QED
  BY <1>1, <1>2, <1>3, AttemptMoves, CountMoves, ReadAccountMoves, CheckOrganizationMoves,
     AnswerChallengeMoves, ClaimResetMoves, DisableMoves, ResetMoves
     DEF Authenticate, CompleteReset

LEMMA MovedRequests ==
  ASSUME Shape, NEW r \in Request, Moves(r)
  PROVE  /\ req' \in [Request -> Locals] /\ \A q \in Request : Placed(req'[q])
         /\ \A q \in Request : q # r => req'[q] = req[q]
BY DEF Moves, Shape, TypeOK

-----------------------------------------------------------------------------
(* The typing of the tables.                                               *)
Reset == [user : User, expires_at : Nat, used : BOOLEAN]
Hash == [value : Password, stale : BOOLEAN]

LEMMA PasswordsTyped ==
  ASSUME Shape, Next
  PROVE  passwords' \in [User -> Hash]
<1>1. passwords \in [User -> Hash]
  BY DEF Shape, TypeOK, Hash
<1>2. CASE UNCHANGED passwords
  BY <1>1, <1>2
<1>3. ASSUME NEW r \in Request, Rehash(r) \/ SetPassword(r) PROVE passwords' \in [User -> Hash]
  <2>1. req[r].user \in User /\ req[r].password \in Password
    BY <1>3 DEF Rehash, SetPassword, Shape, Placed, Carries
  <2>2. [value |-> req[r].password, stale |-> FALSE] \in Hash
    BY <2>1 DEF Hash
  <2> QED
    BY <1>1, <1>3, <2>1, <2>2 DEF Rehash, SetPassword
<1> QED
  BY <1>2, <1>3 DEF Next, Step, Authenticate, CompleteReset, Attempt, CountByIdentifier,
     CountByAddress, ReadAccount, CheckOrganization, FinishLogin, RecordFailure, AnswerChallenge,
     OpenSession, ClaimReset, RevokeSessions, ClearFailures, Abort, Disable, RequestReset, Enable,
     Suspend, Reinstate, LogOut, Purge, Tick, accounts

(* A failure is recorded with the names the request carries, in a place of *)
(* its own; nothing else adds to the failures.                             *)
Recorded(r, t) ==
  /\ t \in Failure /\ t \notin attempts /\ attempts' = attempts \cup {t}
  /\ t.identifier = req[r].identifier /\ t.address = req[r].address
  /\ t.checked <=> req[r].at = "failed"

LEMMA FailuresRecorded ==
  ASSUME Shape, NEW r \in Request, RecordFailure(r)
  PROVE  \E t \in Failure : Recorded(r, t)
<1>1. PICK n \in Free :
        attempts' = attempts \cup
          {[id |-> n, identifier |-> req[r].identifier, address |-> req[r].address,
            at |-> now, checked |-> req[r].at = "failed"]}
  BY DEF RecordFailure
<1> DEFINE t == [id |-> n, identifier |-> req[r].identifier, address |-> req[r].address,
                 at |-> now, checked |-> req[r].at = "failed"]
<1>2. n \in Nat /\ \A a \in attempts : a.id # n
  BY DEF Free
<1>3. req[r].identifier \in Identifier /\ req[r].address \in Address /\ now \in Nat
  BY DEF RecordFailure, Shape, Placed, PastIdentifier, TypeOK
<1>4. (req[r].at = "failed") \in BOOLEAN
  OBVIOUS
<1>5. t \in Failure
  BY <1>2, <1>3, <1>4 DEF Failure
<1>6. t.id = n
  OBVIOUS
<1>7. t \notin attempts
  BY <1>2, <1>6
<1>8. t.identifier = req[r].identifier /\ t.address = req[r].address
  OBVIOUS
<1>9. t.checked <=> req[r].at = "failed"
  OBVIOUS
<1>10. attempts' = attempts \cup {t}
  BY <1>1
<1> HIDE DEF t
<1> QED
  BY <1>5, <1>7, <1>8, <1>9, <1>10 DEF Recorded

LEMMA AttemptsChange ==
  ASSUME Shape, Next
  PROVE  \/ attempts' \subseteq attempts
         \/ \E r \in Request : RecordFailure(r)
BY DEF Next, Step, Authenticate, CompleteReset, Attempt, CountByIdentifier,
   CountByAddress, ReadAccount, CheckOrganization, Rehash, FinishLogin, AnswerChallenge,
   OpenSession, ClaimReset, SetPassword, RevokeSessions, ClearFailures, Abort, Disable,
   RequestReset, Enable, Suspend, Reinstate, LogOut, Purge, Tick

LEMMA AttemptsTyped ==
  ASSUME Shape, Next
  PROVE  attempts' \subseteq Failure /\ IsFiniteSet(attempts')
<1>1. attempts \subseteq Failure /\ IsFiniteSet(attempts)
  BY DEF Shape, TypeOK
<1>2. CASE attempts' \subseteq attempts
  BY <1>1, <1>2, FS_Subset
<1>3. ASSUME NEW r \in Request, RecordFailure(r)
      PROVE  attempts' \subseteq Failure /\ IsFiniteSet(attempts')
  <2>1. PICK t \in Failure : Recorded(r, t)
    BY <1>3, FailuresRecorded
  <2> QED
    BY <1>1, <2>1, FS_AddElement DEF Recorded
<1> QED
  BY <1>2, <1>3, AttemptsChange

(* What a request opens is the login it carries.                           *)
Opens(r, s) == s \in Login /\ SameLogin(s, req[r])

LEMMA NewLoginTyped ==
  ASSUME Shape, NEW r \in Request, Carries(req[r]), NEW lifetime \in Nat
  PROVE  Opens(r, NewLogin(r, req[r].user, req[r].epoch, lifetime))
<1>1. req[r].user \in User /\ req[r].password \in Password /\ req[r].epoch \in Nat
  BY RequestTypes DEF Shape, Placed, Locals
<1>2. opened + 1 \in Nat /\ now + lifetime \in Nat
  BY DEF Shape, TypeOK
<1> QED
  BY <1>1, <1>2 DEF NewLogin, Opens, Login, SameLogin

LEMMA LoginsChange ==
  ASSUME Shape, Next
  PROVE  \A s \in sessions' \cup challenges' :
           \/ s \in sessions \cup challenges
           \/ \E r \in Request : Carries(req[r]) /\ Opens(r, s)
<1>1. ASSUME NEW r \in Request, FinishLogin(r) \/ OpenSession(r),
             NEW s \in sessions' \cup challenges', s \notin sessions \cup challenges
      PROVE  Carries(req[r]) /\ Opens(r, s)
  <2>1. Carries(req[r])
    BY <1>1 DEF FinishLogin, OpenSession, Carries
  <2>2. PICK lifetime \in {SessionLifetime, ChallengeLifetime} :
          s = NewLogin(r, req[r].user, req[r].epoch, lifetime)
    BY <1>1 DEF FinishLogin, OpenSession
  <2> QED
    BY <2>1, <2>2, NewLoginTyped, LimitAssumption
<1>2. \/ sessions' \cup challenges' \subseteq sessions \cup challenges
      \/ \E r \in Request : FinishLogin(r) \/ OpenSession(r)
  BY DEF Next, Step, Authenticate, CompleteReset, Attempt, CountByIdentifier,
     CountByAddress, ReadAccount, CheckOrganization, Rehash, RecordFailure, AnswerChallenge,
     ClaimReset, SetPassword, RevokeSessions, ClearFailures, Abort, Disable,
     RequestReset, Enable, Suspend, Reinstate, LogOut, Purge, Tick
<1> QED
  BY <1>1, <1>2

LEMMA LoginsTyped ==
  ASSUME Shape, Next
  PROVE  sessions' \subseteq Login /\ challenges' \subseteq Login
<1>1. sessions \cup challenges \subseteq Login
  BY DEF Shape, TypeOK
<1>2. sessions' \cup challenges' \subseteq Login
  BY <1>1, LoginsChange DEF Opens
<1> QED
  BY <1>2

LEMMA ResetsTyped ==
  ASSUME Shape, Next
  PROVE  resets' \in Seq(Reset)
<1>1. resets \in Seq(Reset) /\ now \in Nat
  BY DEF Shape, TypeOK, Reset
<1>2. CASE UNCHANGED resets
  BY <1>1, <1>2
<1>3. ASSUME NEW u \in User, RequestReset(u) PROVE resets' \in Seq(Reset)
  <2> DEFINE e == [user |-> u, expires_at |-> now + ResetLifetime, used |-> FALSE]
  <2>1. e \in Reset
    BY <1>1, LimitAssumption DEF Reset
  <2>2. resets' = Append(resets, e)
    BY <1>3 DEF RequestReset
  <2> HIDE DEF e
  <2> QED
    BY <1>1, <2>1, <2>2
<1>4. ASSUME NEW r \in Request, NEW k \in DOMAIN resets, NEW p \in Password, ClaimReset(r, k, p)
      PROVE  resets' \in Seq(Reset)
  <2> DEFINE e == [resets[k] EXCEPT !.used = TRUE]
  <2>1. resets[k] \in Reset
    BY <1>1, Member
  <2>2. e \in Reset
    BY <2>1 DEF Reset
  <2>3. resets' = [resets EXCEPT ![k] = e]
    BY <1>4 DEF ClaimReset
  <2> HIDE DEF e
  <2> QED
    BY <1>1, <2>2, <2>3
<1>5. CASE Purge
  <2> DEFINE e(k) == [resets[k] EXCEPT !.used = @ \/ resets[k].expires_at <= now]
  <2>1. ASSUME NEW k \in DOMAIN resets PROVE e(k) \in Reset
    <3>1. resets[k] \in Reset
      BY <1>1, Member
    <3>2. (resets[k].used \/ resets[k].expires_at <= now) \in BOOLEAN
      BY <3>1 DEF Reset
    <3> QED
      BY <3>1, <3>2 DEF Reset
  <2>2. resets' = [k \in DOMAIN resets |-> e(k)]
    BY <1>5 DEF Purge
  <2> HIDE DEF e
  <2>3. DOMAIN resets = 1..Len(resets) /\ Len(resets) \in Nat
    BY <1>1
  <2>4. resets' \in [1..Len(resets) -> Reset]
    BY <2>1, <2>2, <2>3
  <2> QED
    BY <2>3, <2>4
<1> QED
  BY <1>2, <1>3, <1>4, <1>5 DEF Next, Step, Authenticate, CompleteReset, Attempt,
     CountByIdentifier, CountByAddress, ReadAccount, CheckOrganization, Rehash, FinishLogin,
     RecordFailure, AnswerChallenge, OpenSession, SetPassword, RevokeSessions, ClearFailures,
     Abort, Disable, Enable, Suspend, Reinstate, LogOut, Tick

(* The steps that change accounts.                                         *)
Quiet == UNCHANGED <<passwords, enabled, blocked, changes, ended, cut>>

LEMMA AccountsChange ==
  ASSUME Next
  PROVE  \/ Quiet
         \/ \E r \in Request : \/ Rehash(r) \/ SetPassword(r) \/ RevokeSessions(r) \/ Abort(r)
                              \/ \E u \in User : Disable(r, u)
         \/ \E u \in User : Enable(u) \/ Suspend(u) \/ Reinstate(u)
<1>1. ASSUME NEW r \in Request, Authenticate(r) PROVE Quiet \/ Rehash(r)
  BY <1>1 DEF Quiet, Authenticate, Attempt, CountByIdentifier, CountByAddress, ReadAccount,
     CheckOrganization, FinishLogin, RecordFailure, AnswerChallenge, OpenSession, accounts, history
<1>2. ASSUME NEW r \in Request, CompleteReset(r) PROVE Quiet \/ SetPassword(r) \/ RevokeSessions(r)
  BY <1>2 DEF Quiet, CompleteReset, ClaimReset, ClearFailures, accounts, history
<1>3. ASSUME NEW u \in User, RequestReset(u) PROVE Quiet
  BY <1>3 DEF Quiet, RequestReset, accounts, history
<1>4. ASSUME NEW s \in sessions, LogOut(s) PROVE Quiet
  BY <1>4 DEF Quiet, LogOut, accounts, history
<1>5. CASE Purge \/ Tick
  BY <1>5 DEF Quiet, Purge, Tick, accounts, history
<1> QED
  BY <1>1, <1>2, <1>3, <1>4, <1>5 DEF Next, Step

LEMMA Counters ==
  ASSUME Next
  PROVE  opened' \in {opened, opened + 1} /\ now' \in {now, now + 1}
BY DEF Next, Step, Authenticate, CompleteReset, Attempt, CountByIdentifier,
   CountByAddress, ReadAccount, CheckOrganization, Rehash, FinishLogin, RecordFailure,
   AnswerChallenge, OpenSession, ClaimReset, SetPassword, RevokeSessions, ClearFailures,
   Abort, Disable, RequestReset, Enable, Suspend, Reinstate, LogOut, Purge, Tick

LEMMA AccountsTyped ==
  ASSUME Shape, Next
  PROVE  /\ enabled' \in [User -> BOOLEAN] /\ enrolled' \subseteq User /\ blocked' \subseteq User
         /\ ended' \in [User -> Nat] /\ cut' \subseteq User
         /\ changes' \in Nat /\ opened' \in Nat /\ now' \in Nat
<1>1. /\ enabled \in [User -> BOOLEAN] /\ enrolled \subseteq User /\ blocked \subseteq User
      /\ ended \in [User -> Nat] /\ cut \subseteq User
      /\ changes \in Nat /\ opened \in Nat /\ now \in Nat
  BY DEF Shape, TypeOK
<1> DEFINE Typed == /\ enabled' \in [User -> BOOLEAN] /\ blocked' \subseteq User
                    /\ ended' \in [User -> Nat] /\ cut' \subseteq User /\ changes' \in Nat
<1>2. ASSUME Quiet PROVE Typed
  BY <1>1, <1>2 DEF Quiet
<1>3. ASSUME NEW r \in Request, Rehash(r) \/ SetPassword(r) \/ Abort(r) PROVE Typed
  <2>1. req[r].at \in {"rehash", "revoke"} => req[r].user \in User
    BY DEF Shape, Placed, Carries
  <2>2. UNCHANGED <<enabled, blocked, changes, ended>>
    BY <1>3 DEF Rehash, SetPassword, Abort, accounts, history
  <2>3. cut' \subseteq cut \cup (IF req[r].at \in {"rehash", "revoke"} THEN {req[r].user} ELSE {})
    BY <1>3 DEF Rehash, SetPassword, Abort, history
  <2> QED
    BY <1>1, <2>1, <2>2, <2>3
<1>4. ASSUME NEW r \in Request, RevokeSessions(r) PROVE Typed
  <2>1. req[r].user \in User
    BY <1>4 DEF RevokeSessions, Shape, Placed
  <2> QED
    BY <1>1, <1>4, <2>1 DEF RevokeSessions, accounts
<1>5. ASSUME NEW u \in User, NEW r \in Request, Disable(r, u) PROVE Typed
  <2>1. UNCHANGED <<blocked, ended, cut>> /\ changes' = changes + 1
    BY <1>5 DEF Disable, history
  <2>2. enabled' = [enabled EXCEPT ![u] = FALSE]
    BY <1>5 DEF Disable
  <2> QED
    BY <1>1, <2>1, <2>2
<1>6. ASSUME NEW u \in User, Enable(u) PROVE Typed
  BY <1>1, <1>6 DEF Enable, history
<1>7. ASSUME NEW u \in User, Suspend(u) \/ Reinstate(u) PROVE Typed
  <2>1. UNCHANGED <<enabled, ended, cut>> /\ changes' \in {changes, changes + 1}
    BY <1>7 DEF Suspend, Reinstate, history
  <2>2. blocked' \subseteq blocked \cup {u}
    BY <1>7 DEF Suspend, Reinstate
  <2> QED
    BY <1>1, <2>1, <2>2
<1>8. opened' \in Nat /\ now' \in Nat
  <2>1. opened' \in {opened, opened + 1} /\ now' \in {now, now + 1}
    BY Counters
  <2> QED
    BY <1>1, <2>1
<1>9. enrolled' = enrolled
  BY DEF Next
<1> HIDE DEF Typed
<1>10. Typed
  BY <1>2, <1>3, <1>4, <1>5, <1>6, <1>7, AccountsChange
<1>11. enrolled' \subseteq User
  BY <1>1, <1>9
<1> QED
  BY <1>8, <1>10, <1>11, Zenon DEF Typed

(* Every step is a request's or leaves the requests alone.                 *)
LEMMA NextMoves ==
  ASSUME Shape, Next
  PROVE  UNCHANGED req \/ \E r \in Request : Moves(r)
BY RequestMoves DEF Next, Step, RequestReset, Enable, Suspend, Reinstate, LogOut, Purge, Tick

LEMMA NextShape ==
  ASSUME Shape, [Next]_vars
  PROVE  Shape'
<1>1. CASE UNCHANGED vars
  BY <1>1 DEF vars, Shape, TypeOK
<1>2. CASE Next
  <2>1. req' \in [Request -> Locals] /\ \A r \in Request : Placed(req'[r])
    BY <1>2, NextMoves, MovedRequests DEF Shape, TypeOK
  <2>2. \A r \in Request : req'[r].at \in {"rehash", "finish", "open", "set_password", "revoke"}
                           => req'[r].user # None
    BY <2>1, OwnerAssumption DEF Placed, Carries
  <2>3. /\ passwords' \in [User -> [value : Password, stale : BOOLEAN]]
        /\ attempts' \subseteq Failure /\ IsFiniteSet(attempts')
        /\ sessions' \subseteq Login /\ challenges' \subseteq Login
        /\ resets' \in Seq([user : User, expires_at : Nat, used : BOOLEAN])
    BY <1>2, PasswordsTyped, AttemptsTyped, LoginsTyped, ResetsTyped DEF Hash, Reset
  <2> QED
    BY <1>2, <2>1, <2>2, <2>3, AccountsTyped DEF Shape, TypeOK
<1> QED
  BY <1>1, <1>2

-----------------------------------------------------------------------------
(* What a request does in a step of its own.                               *)
Acts(r) == \/ Authenticate(r) \/ CompleteReset(r) \/ Abort(r)
           \/ \E u \in User : Disable(r, u)

(* A revocation that is due stays due until it is made or cut off.         *)
LEMMA RevocationsStay ==
  ASSUME Shape, Next, NEW q \in Request, req[q].at = "revoke",
         ~RevokeSessions(q), ~Abort(q)
  PROVE  req'[q] = req[q]
<1>1. ~Acts(q)
  BY DEF Acts, Authenticate, CompleteReset, Attempt, CountByIdentifier, CountByAddress,
     ReadAccount, CheckOrganization, Rehash, FinishLogin, RecordFailure, AnswerChallenge,
     OpenSession, ClaimReset, SetPassword, ClearFailures, Disable
<1>2. UNCHANGED req \/ \E r \in Request : Acts(r)
  BY DEF Acts, Next, Step, RequestReset, Enable, Suspend, Reinstate, LogOut, Purge, Tick
<1>3. \A r \in Request : Acts(r) => Moves(r)
  BY RequestMoves DEF Acts
<1> QED
  BY <1>1, <1>2, <1>3, MovedRequests

Revoking(u) == \E r \in Request : req[r].at = "revoke" /\ req[r].user = u

LEMMA UnsettledMeans ==
  /\ \A u : Unsettled(u) <=> u \in cut \/ Revoking(u)
  /\ \A u : Unsettled(u)' <=> u \in cut' \/ Revoking(u)'
BY DEF Unsettled, Revoking

(* What was current stays so until a revocation overtakes it: a new        *)
(* password, an old one written back and a disabling all come with a       *)
(* revocation that is due or has been cut off.                             *)
LEMMA CurrentStays ==
  ASSUME Shape, Next, NEW u \in User, NEW p, NEW e \in Nat, Current(u, p, e)
  PROVE  Current(u, p, e)'
<1>1. /\ passwords \in [User -> [value : Password, stale : BOOLEAN]]
      /\ enabled \in [User -> BOOLEAN] /\ ended \in [User -> Nat]
      /\ ended[u] \in Nat
  BY DEF Shape, TypeOK
<1>2. /\ e <= ended[u]
      /\ e = ended[u] /\ ~(u \in cut \/ Revoking(u)) => p = passwords[u].value /\ enabled[u]
  BY UnsettledMeans DEF Current
<1>3. SUFFICES /\ e <= ended'[u]
               /\ e = ended'[u] /\ ~(u \in cut' \/ Revoking(u)') =>
                    p = passwords'[u].value /\ enabled'[u]
  BY UnsettledMeans DEF Current
<1>4. ASSUME NEW r \in Request, RevokeSessions(r)
      PROVE  /\ e <= ended'[u]
             /\ e = ended'[u] /\ ~(u \in cut' \/ Revoking(u)') =>
                  p = passwords'[u].value /\ enabled'[u]
  <2>1. /\ ended' = [ended EXCEPT ![req[r].user] = @ + 1] /\ cut' = cut \ {req[r].user}
        /\ UNCHANGED <<passwords, enabled>>
    BY <1>4 DEF RevokeSessions, accounts
  <2>2. CASE u = req[r].user
    BY <1>1, <1>2, <2>1, <2>2
  <2>3. CASE u # req[r].user
    <3>1. Revoking(u) => Revoking(u)'
      <4>1. Moves(r)
        BY <1>4, ResetMoves
      <4> QED
        BY <2>3, <4>1, MovedRequests DEF Revoking
    <3> QED
      BY <1>1, <1>2, <2>1, <2>3, <3>1
  <2> QED
    BY <2>2, <2>3
<1>5. ASSUME NEW r \in Request, Abort(r)
      PROVE  /\ e <= ended'[u]
             /\ e = ended'[u] /\ ~(u \in cut' \/ Revoking(u)') =>
                  p = passwords'[u].value /\ enabled'[u]
  <2>1. UNCHANGED <<passwords, enabled, ended>>
    BY <1>5 DEF Abort, accounts
  <2>2. Moves(r)
    BY <1>5, RequestMoves
  <2>3. u \in cut => u \in cut'
    BY <1>5 DEF Abort
  <2>4. Revoking(u) => u \in cut' \/ Revoking(u)'
    BY <1>5, <2>2, MovedRequests DEF Revoking, Abort
  <2> QED
    BY <1>2, <2>1, <2>3, <2>4
<1>6. CASE \A r \in Request : ~RevokeSessions(r) /\ ~Abort(r)
  <2>1. Revoking(u) => Revoking(u)'
    BY <1>6, RevocationsStay DEF Revoking
  <2>2. CASE Quiet
    BY <1>2, <2>1, <2>2 DEF Quiet
  <2>3. ASSUME NEW r \in Request, Rehash(r)
        PROVE  /\ e <= ended'[u]
               /\ e = ended'[u] /\ ~(u \in cut' \/ Revoking(u)') =>
                    p = passwords'[u].value /\ enabled'[u]
    <3>1. UNCHANGED <<enabled, ended>>
      BY <2>3 DEF Rehash
    <3>2. u \in cut => u \in cut'
      BY <2>3 DEF Rehash
    <3>3. u \notin cut' => passwords'[u].value = passwords[u].value
      BY <1>1, <2>3 DEF Rehash
    <3> QED
      BY <1>2, <2>1, <3>1, <3>2, <3>3
  <2>4. ASSUME NEW r \in Request, SetPassword(r)
        PROVE  /\ e <= ended'[u]
               /\ e = ended'[u] /\ ~(u \in cut' \/ Revoking(u)') =>
                    p = passwords'[u].value /\ enabled'[u]
    <3>1. UNCHANGED <<enabled, ended, cut>>
      BY <2>4 DEF SetPassword, history
    <3>2. CASE u = req[r].user
      <4>1. req'[r].at = "revoke" /\ req'[r].user = u
        BY <2>4, <3>2, RequestTypes DEF SetPassword, Goto, Locals
      <4> QED
        BY <1>2, <3>1, <4>1 DEF Revoking
    <3>3. CASE u # req[r].user
      <4>1. passwords'[u] = passwords[u]
        BY <1>1, <2>4, <3>3 DEF SetPassword
      <4> QED
        BY <1>2, <2>1, <3>1, <4>1
    <3> QED
      BY <3>2, <3>3
  <2>5. ASSUME NEW r \in Request, NEW v \in User, Disable(r, v)
        PROVE  /\ e <= ended'[u]
               /\ e = ended'[u] /\ ~(u \in cut' \/ Revoking(u)') =>
                    p = passwords'[u].value /\ enabled'[u]
    <3>1. UNCHANGED <<passwords, ended, cut>>
      BY <2>5 DEF Disable, history
    <3>2. CASE u = v
      <4>1. req'[r].at = "revoke" /\ req'[r].user = u
        BY <2>5, <3>2, RequestTypes DEF Disable, Locals
      <4> QED
        BY <1>2, <3>1, <4>1 DEF Revoking
    <3>3. CASE u # v
      <4>1. enabled'[u] = enabled[u]
        BY <1>1, <2>5, <3>3 DEF Disable
      <4> QED
        BY <1>2, <2>1, <3>1, <4>1
    <3> QED
      BY <3>2, <3>3
  <2>6. ASSUME NEW v \in User, Enable(v) \/ Suspend(v) \/ Reinstate(v)
        PROVE  /\ e <= ended'[u]
               /\ e = ended'[u] /\ ~(u \in cut' \/ Revoking(u)') =>
                    p = passwords'[u].value /\ enabled'[u]
    <3>1. UNCHANGED <<passwords, ended, cut>>
      BY <2>6 DEF Enable, Suspend, Reinstate, history
    <3>2. enabled[u] => enabled'[u]
      BY <1>1, <2>6 DEF Enable, Suspend, Reinstate
    <3> QED
      BY <1>2, <2>1, <3>1, <3>2
  <2> QED
    BY <1>6, <2>2, <2>3, <2>4, <2>5, <2>6, AccountsChange
<1> QED
  BY <1>4, <1>5, <1>6

LEMMA LoginsStayCurrent ==
  ASSUME Shape, LoginsCurrent, Next
  PROVE  LoginsCurrent'
<1>1. ASSUME NEW l, l.user \in User, l.epoch \in Nat, Current(l.user, l.password, l.epoch)
      PROVE  Current(l.user, l.password, l.epoch)'
  <2>1. ASSUME NEW u, NEW p, NEW e, u = l.user, p = l.password, e = l.epoch
        PROVE  Current(u, p, e)'
    BY <1>1, <2>1, CurrentStays
  <2> QED
    BY <2>1
<1>2. \A s \in sessions \cup challenges : s.user \in User /\ s.epoch \in Nat
  BY DEF Shape, TypeOK, Login
<1>3. \A r \in Request : Carries(req[r]) => req[r].user \in User /\ req[r].epoch \in Nat
  BY RequestTypes DEF Placed, Locals
<1>4. ASSUME NEW s \in sessions' \cup challenges' PROVE Current(s.user, s.password, s.epoch)'
  <2>1. CASE s \in sessions \cup challenges
    BY <1>1, <1>2, <2>1 DEF LoginsCurrent
  <2>2. ASSUME NEW r \in Request, Carries(req[r]), Opens(r, s)
        PROVE  Current(s.user, s.password, s.epoch)'
    <3>1. Current(s.user, s.password, s.epoch) /\ s.user \in User /\ s.epoch \in Nat
      BY <1>3, <2>2 DEF Opens, SameLogin, LoginsCurrent
    <3> QED
      BY <1>1, <3>1
  <2> QED
    BY <2>1, <2>2, LoginsChange
<1>5. ASSUME NEW r \in Request, Moves(r), NEW q \in Request, Carries(req'[q])
      PROVE  \E l \in {req'[q]} : Current(l.user, l.password, l.epoch)'
  <2>1. CASE q # r
    <3>1. req'[q] = req[q]
      BY <1>5, <2>1, MovedRequests
    <3> QED
      BY <1>1, <1>3, <1>5, <3>1 DEF LoginsCurrent
  <2>2. CASE q = r
    <3>1. PICK l \in Locals :
            /\ req' = [req EXCEPT ![r] = l] /\ Placed(l)
            /\ Carries(l) => \/ Carries(req[r]) /\ SameLogin(l, req[r])
                             \/ ReadNow(l)
                             \/ \E c \in challenges : SameLogin(l, c)
      BY <1>5 DEF Moves
    <3>2. req'[q] = l /\ Carries(l)
      BY <1>5, <2>2, <3>1, RequestTypes
    <3>3. l.user \in User /\ l.epoch \in Nat
      BY <3>1, <3>2 DEF Placed, Locals
    <3>4. ended[l.user] \in Nat
      BY <3>3 DEF Shape, TypeOK
    <3>5. Current(l.user, l.password, l.epoch)
      <4>1. CASE Carries(req[r]) /\ SameLogin(l, req[r])
        BY <4>1 DEF SameLogin, LoginsCurrent
      <4>2. CASE ReadNow(l)
        BY <3>4, <4>2 DEF ReadNow, Current
      <4>3. CASE \E c \in challenges : SameLogin(l, c)
        BY <4>3 DEF SameLogin, LoginsCurrent
      <4> QED
        BY <3>1, <3>2, <4>1, <4>2, <4>3
    <3> QED
      BY <1>1, <3>2, <3>3, <3>5
  <2> QED
    BY <2>1, <2>2
<1>6. CASE UNCHANGED req
  <2>1. ASSUME NEW q \in Request, Carries(req'[q])
        PROVE  \E l \in {req'[q]} : Current(l.user, l.password, l.epoch)'
    BY <1>1, <1>3, <1>6, <2>1 DEF LoginsCurrent
  <2> QED
    BY <1>4, <2>1 DEF LoginsCurrent, Current, Unsettled
<1>7. ASSUME NEW r \in Request, Moves(r) PROVE LoginsCurrent'
  BY <1>4, <1>5, <1>7 DEF LoginsCurrent, Current, Unsettled
<1> QED
  BY <1>6, <1>7, NextMoves

LEMMA LoginsMean ==
  ASSUME Shape, LoginsCurrent
  PROVE  RevocationsHold
<1>1. OldPasswordsOpenNothing
  BY DEF LoginsCurrent, Current, OldPasswordsOpenNothing
<1>2. \A s \in sessions : ~enabled[s.user] /\ ~Unsettled(s.user) => s.epoch # ended[s.user]
  BY DEF LoginsCurrent, Current
<1>3. \A s \in sessions : s.epoch \in Nat /\ ended[s.user] \in Nat /\ s.epoch <= ended[s.user]
  BY DEF LoginsCurrent, Current, Shape, TypeOK, Login
<1> QED
  BY <1>1, <1>2, <1>3 DEF RevocationsHold, DisabledOpenNothing

-----------------------------------------------------------------------------
(* The failures that a bound is about, and the guesses in flight that will *)
(* add to them, as finite sets.                                            *)
CheckedOf(i) == {t \in FailuresOf(i) : t.checked}
CheckedFrom(a) == {t \in FailuresFrom(a) : t.checked}

LEMMA Finite ==
  ASSUME Shape
  PROVE  /\ \A i : /\ IsFiniteSet(FailuresOf(i)) /\ IsFiniteSet(CheckedOf(i))
                   /\ IsFiniteSet(GuessesOf(i))
         /\ \A a : /\ IsFiniteSet(FailuresFrom(a)) /\ IsFiniteSet(CheckedFrom(a))
                   /\ IsFiniteSet(GuessesFrom(a))
<1>1. IsFiniteSet(attempts) /\ IsFiniteSet(Request)
  BY RequestAssumption DEF Shape
<1>2. \A i : /\ FailuresOf(i) \subseteq attempts /\ CheckedOf(i) \subseteq attempts
             /\ GuessesOf(i) \subseteq Request
  BY DEF FailuresOf, CheckedOf, GuessesOf
<1>3. \A a : /\ FailuresFrom(a) \subseteq attempts /\ CheckedFrom(a) \subseteq attempts
             /\ GuessesFrom(a) \subseteq Request
  BY DEF FailuresFrom, CheckedFrom, GuessesFrom
<1> QED
  BY <1>1, <1>2, <1>3, FS_Subset

(* Neither the failures nor the guesses grow.                              *)
LEMMA NothingAdded ==
  ASSUME NEW C, NEW D, NEW G, NEW H, IsFiniteSet(C), IsFiniteSet(G),
         D \subseteq C, H \subseteq G
  PROVE  Cardinality(D) + Cardinality(H) <= Cardinality(C) + Cardinality(G)
<1>1. Cardinality(D) <= Cardinality(C) /\ Cardinality(H) <= Cardinality(G)
  BY FS_Subset
<1>2. IsFiniteSet(D) /\ IsFiniteSet(H)
  BY FS_Subset
<1> QED
  BY <1>1, <1>2, FS_CardinalityType

(* A guess that is over is the failure it has left.                        *)
LEMMA GuessRecorded ==
  ASSUME NEW C, NEW D, NEW G, NEW H, NEW t, NEW r, IsFiniteSet(C), IsFiniteSet(G),
         D \subseteq C \cup {t}, r \in G, H \subseteq G \ {r}
  PROVE  Cardinality(D) + Cardinality(H) <= Cardinality(C) + Cardinality(G)
<1>1. IsFiniteSet(C \cup {t}) /\ Cardinality(C \cup {t}) <= Cardinality(C) + 1
  <2>1. Cardinality(C) \in Nat
    BY FS_CardinalityType
  <2>2. ASSUME t \in C
        PROVE  IsFiniteSet(C \cup {t}) /\ Cardinality(C \cup {t}) = Cardinality(C)
    <3>1. C \cup {t} = C
      BY <2>2
    <3> QED
      BY <3>1
  <2>3. ASSUME t \notin C
        PROVE  IsFiniteSet(C \cup {t}) /\ Cardinality(C \cup {t}) = Cardinality(C) + 1
    BY <2>3, FS_AddElement
  <2> QED
    BY <2>1, <2>2, <2>3
<1>2. IsFiniteSet(G \ {r}) /\ Cardinality(G \ {r}) = Cardinality(G) - 1
  BY FS_RemoveElement
<1>3. Cardinality(D) + Cardinality(H) <= Cardinality(C \cup {t}) + Cardinality(G \ {r})
  BY <1>1, <1>2, NothingAdded
<1>4. /\ Cardinality(C) \in Nat /\ Cardinality(G) \in Nat
      /\ Cardinality(C \cup {t}) \in Nat /\ Cardinality(G \ {r}) \in Nat
  BY <1>1, <1>2, FS_CardinalityType
<1>5. IsFiniteSet(D) /\ IsFiniteSet(H)
  BY <1>1, <1>2, FS_Subset
<1>6. Cardinality(D) \in Nat /\ Cardinality(H) \in Nat
  BY <1>5, FS_CardinalityType
<1> QED
  BY <1>1, <1>2, <1>3, <1>4, <1>6

(* A guess that passes a count finds fewer failures than the limit.        *)
LEMMA GuessCounted ==
  ASSUME NEW D, NEW H, NEW F, NEW M \in Nat, IsFiniteSet(F), D \subseteq F, H \subseteq Request,
         Cardinality(F) < M
  PROVE  Cardinality(D) + Cardinality(H) < M + Cardinality(Request)
<1>1. Cardinality(D) + Cardinality(H) <= Cardinality(F) + Cardinality(Request)
  BY RequestAssumption, NothingAdded
<1>2. IsFiniteSet(D) /\ IsFiniteSet(H)
  BY RequestAssumption, FS_Subset
<1>3. /\ Cardinality(D) \in Nat /\ Cardinality(H) \in Nat
      /\ Cardinality(F) \in Nat /\ Cardinality(Request) \in Nat
  BY <1>2, RequestAssumption, FS_CardinalityType
<1> QED
  BY <1>1, <1>3

(* How a step changes the failures and the guesses.                        *)
LEMMA FailuresFade ==
  ASSUME Shape, Next, attempts' \subseteq attempts
  PROVE  /\ \A i : CheckedOf(i)' \subseteq CheckedOf(i)
         /\ \A a : CheckedFrom(a)' \subseteq CheckedFrom(a)
<1>1. now \in Nat /\ now' \in {now, now + 1} /\ \A t \in attempts : t.at \in Nat
  BY Counters DEF Shape, TypeOK, Failure
<1>2. \A t \in attempts : Recent(t)' => Recent(t)
  BY <1>1, LimitAssumption DEF Recent
<1> QED
  BY <1>2 DEF CheckedOf, CheckedFrom, FailuresOf, FailuresFrom

LEMMA GuessesChange ==
  ASSUME Shape, NEW r \in Request, Moves(r)
  PROVE  /\ \A i : \/ GuessesOf(i)' \subseteq GuessesOf(i)
                   \/ Cardinality(FailuresOf(i)) < MaxPerIdentifier /\ UNCHANGED <<attempts, now>>
         /\ \A a : \/ GuessesFrom(a)' \subseteq GuessesFrom(a)
                   \/ Cardinality(FailuresFrom(a)) < MaxPerAddress /\ UNCHANGED <<attempts, now>>
<1>1. PICK l \in Locals : req' = [req EXCEPT ![r] = l] /\ Counts(l, req[r])
  BY DEF Moves
<1>2. req'[r] = l /\ \A q \in Request : q # r => req'[q] = req[q]
  BY <1>1, RequestTypes
<1> QED
  BY <1>1, <1>2 DEF Counts, GuessesOf, GuessesFrom

LEMMA BudgetKept ==
  ASSUME Shape, Budget, Next
  PROVE  Budget'
<1> DEFINE N == Cardinality(Request)
<1>1. /\ \A i : Checked(FailuresOf(i)) = Cardinality(CheckedOf(i))
      /\ \A a : Checked(FailuresFrom(a)) = Cardinality(CheckedFrom(a))
      /\ \A i : Checked(FailuresOf(i))' = Cardinality(CheckedOf(i)')
      /\ \A a : Checked(FailuresFrom(a))' = Cardinality(CheckedFrom(a)')
  BY DEF Checked, CheckedOf, CheckedFrom
<1>2. N \in Nat /\ MaxPerIdentifier \in Nat /\ MaxPerAddress \in Nat
  BY RequestAssumption, FS_CardinalityType, LimitAssumption
<1>3. /\ \A i : /\ IsFiniteSet(FailuresOf(i)) /\ IsFiniteSet(CheckedOf(i))
                /\ IsFiniteSet(GuessesOf(i))
      /\ \A a : /\ IsFiniteSet(FailuresFrom(a)) /\ IsFiniteSet(CheckedFrom(a))
                /\ IsFiniteSet(GuessesFrom(a))
  BY Finite
<1>4. /\ \A i : /\ IsFiniteSet(CheckedOf(i)') /\ IsFiniteSet(GuessesOf(i)')
      /\ \A a : /\ IsFiniteSet(CheckedFrom(a)') /\ IsFiniteSet(GuessesFrom(a)')
  <2>1. Shape'
    BY NextShape
  <2>2. IsFiniteSet(attempts') /\ IsFiniteSet(Request)
    BY <2>1, RequestAssumption DEF Shape
  <2>3. /\ \A i : CheckedOf(i)' \subseteq attempts' /\ GuessesOf(i)' \subseteq Request
        /\ \A a : CheckedFrom(a)' \subseteq attempts' /\ GuessesFrom(a)' \subseteq Request
    BY DEF CheckedOf, FailuresOf, GuessesOf, CheckedFrom, FailuresFrom, GuessesFrom
  <2> QED
    BY <2>2, <2>3, FS_Subset
<1>5. ASSUME NEW i \in Identifier,
             Cardinality(CheckedOf(i)') + Cardinality(GuessesOf(i)')
               <= Cardinality(CheckedOf(i)) + Cardinality(GuessesOf(i))
      PROVE  Cardinality(CheckedOf(i)') + Cardinality(GuessesOf(i)') < MaxPerIdentifier + N
  <2>1. /\ Cardinality(CheckedOf(i)') \in Nat /\ Cardinality(GuessesOf(i)') \in Nat
        /\ Cardinality(CheckedOf(i)) \in Nat /\ Cardinality(GuessesOf(i)) \in Nat
    BY <1>3, <1>4, FS_CardinalityType
  <2>2. Cardinality(CheckedOf(i)) + Cardinality(GuessesOf(i)) < MaxPerIdentifier + N
    BY <1>1 DEF Budget
  <2> QED
    BY <1>2, <1>5, <2>1, <2>2
<1>6. ASSUME NEW a \in Address,
             Cardinality(CheckedFrom(a)') + Cardinality(GuessesFrom(a)')
               <= Cardinality(CheckedFrom(a)) + Cardinality(GuessesFrom(a))
      PROVE  Cardinality(CheckedFrom(a)') + Cardinality(GuessesFrom(a)') < MaxPerAddress + N
  <2>1. /\ Cardinality(CheckedFrom(a)') \in Nat /\ Cardinality(GuessesFrom(a)') \in Nat
        /\ Cardinality(CheckedFrom(a)) \in Nat /\ Cardinality(GuessesFrom(a)) \in Nat
    BY <1>3, <1>4, FS_CardinalityType
  <2>2. Cardinality(CheckedFrom(a)) + Cardinality(GuessesFrom(a)) < MaxPerAddress + N
    BY <1>1 DEF Budget
  <2> QED
    BY <1>2, <1>6, <2>1, <2>2
<1> DEFINE Kept ==
      /\ \A i \in Identifier :
           Cardinality(CheckedOf(i)') + Cardinality(GuessesOf(i)') < MaxPerIdentifier + N
      /\ \A a \in Address :
           Cardinality(CheckedFrom(a)') + Cardinality(GuessesFrom(a)') < MaxPerAddress + N
<1>7. ASSUME attempts' \subseteq attempts PROVE Kept
  <2>1. /\ \A i : CheckedOf(i)' \subseteq CheckedOf(i)
        /\ \A a : CheckedFrom(a)' \subseteq CheckedFrom(a)
    BY <1>7, FailuresFade
  <2>2. ASSUME NEW i \in Identifier, GuessesOf(i)' \subseteq GuessesOf(i)
        PROVE  Cardinality(CheckedOf(i)') + Cardinality(GuessesOf(i)') < MaxPerIdentifier + N
    BY <1>3, <1>5, <2>1, <2>2, NothingAdded
  <2>3. ASSUME NEW a \in Address, GuessesFrom(a)' \subseteq GuessesFrom(a)
        PROVE  Cardinality(CheckedFrom(a)') + Cardinality(GuessesFrom(a)') < MaxPerAddress + N
    BY <1>3, <1>6, <2>1, <2>3, NothingAdded
  <2>4. ASSUME NEW i \in Identifier, Cardinality(FailuresOf(i)) < MaxPerIdentifier
        PROVE  Cardinality(CheckedOf(i)') + Cardinality(GuessesOf(i)') < MaxPerIdentifier + N
    <3>1. CheckedOf(i)' \subseteq FailuresOf(i) /\ GuessesOf(i)' \subseteq Request
      BY <2>1 DEF CheckedOf, GuessesOf
    <3> QED
      BY <1>2, <1>3, <2>4, <3>1, GuessCounted
  <2>5. ASSUME NEW a \in Address, Cardinality(FailuresFrom(a)) < MaxPerAddress
        PROVE  Cardinality(CheckedFrom(a)') + Cardinality(GuessesFrom(a)') < MaxPerAddress + N
    <3>1. CheckedFrom(a)' \subseteq FailuresFrom(a) /\ GuessesFrom(a)' \subseteq Request
      BY <2>1 DEF CheckedFrom, GuessesFrom
    <3> QED
      BY <1>2, <1>3, <2>5, <3>1, GuessCounted
  <2>6. CASE UNCHANGED req
    <3>1. /\ \A i : GuessesOf(i)' \subseteq GuessesOf(i)
          /\ \A a : GuessesFrom(a)' \subseteq GuessesFrom(a)
      BY <2>6 DEF GuessesOf, GuessesFrom
    <3> QED
      BY <2>2, <2>3, <3>1
  <2>7. CASE \E r \in Request : Moves(r)
    BY <2>2, <2>3, <2>4, <2>5, <2>7, GuessesChange
  <2> QED
    BY <2>6, <2>7, NextMoves
<1>8. ASSUME NEW r \in Request, RecordFailure(r) PROVE Kept
  <2>1. PICK t \in Failure : Recorded(r, t)
    BY <1>8, FailuresRecorded
  <2>2. now' = now /\ req' = [req EXCEPT ![r] = NoLocals] /\ req \in [Request -> Locals]
    BY <1>8, RequestTypes DEF RecordFailure, Idle
  <2>3. req'[r] = NoLocals /\ \A q \in Request : q # r => req'[q] = req[q]
    BY <2>2
  <2>4. ~PastIdentifier(NoLocals) /\ ~PastAddress(NoLocals)
    BY DEF PastIdentifier, PastAddress, NoLocals
  <2>5. /\ \A i : GuessesOf(i)' \subseteq GuessesOf(i) \ {r}
        /\ \A a : GuessesFrom(a)' \subseteq GuessesFrom(a) \ {r}
    BY <2>3, <2>4 DEF GuessesOf, GuessesFrom
  <2>6. ASSUME NEW i \in Identifier
        PROVE  Cardinality(CheckedOf(i)') + Cardinality(GuessesOf(i)') < MaxPerIdentifier + N
    <3>1. CASE r \in GuessesOf(i)
      <4>1. CheckedOf(i)' \subseteq CheckedOf(i) \cup {t}
        BY <2>1, <2>2 DEF Recorded, CheckedOf, FailuresOf, Recent
      <4> QED
        BY <1>3, <1>5, <2>5, <3>1, <4>1, GuessRecorded
    <3>2. CASE r \notin GuessesOf(i)
      <4>1. CheckedOf(i)' \subseteq CheckedOf(i)
        BY <2>1, <2>2, <3>2 DEF Recorded, CheckedOf, FailuresOf, Recent, GuessesOf, PastIdentifier
      <4>2. GuessesOf(i)' \subseteq GuessesOf(i)
        BY <2>5
      <4> QED
        BY <1>3, <1>5, <4>1, <4>2, NothingAdded
    <3> QED
      BY <3>1, <3>2
  <2>7. ASSUME NEW a \in Address
        PROVE  Cardinality(CheckedFrom(a)') + Cardinality(GuessesFrom(a)') < MaxPerAddress + N
    <3>1. CASE r \in GuessesFrom(a)
      <4>1. CheckedFrom(a)' \subseteq CheckedFrom(a) \cup {t}
        BY <2>1, <2>2 DEF Recorded, CheckedFrom, FailuresFrom, Recent
      <4> QED
        BY <1>3, <1>6, <2>5, <3>1, <4>1, GuessRecorded
    <3>2. CASE r \notin GuessesFrom(a)
      <4>1. CheckedFrom(a)' \subseteq CheckedFrom(a)
        BY <2>1, <2>2, <3>2 DEF Recorded, CheckedFrom, FailuresFrom, Recent, GuessesFrom, PastAddress
      <4>2. GuessesFrom(a)' \subseteq GuessesFrom(a)
        BY <2>5
      <4> QED
        BY <1>3, <1>6, <4>1, <4>2, NothingAdded
    <3> QED
      BY <3>1, <3>2
  <2> QED
    BY <2>6, <2>7
<1>9. Kept
  BY <1>7, <1>8, AttemptsChange
<1> QED
  BY <1>1, <1>9 DEF Budget

LEMMA BudgetMeans ==
  ASSUME Shape, Budget
  PROVE  LockoutBounded
<1>1. /\ \A i : IsFiniteSet(CheckedOf(i)) /\ IsFiniteSet(GuessesOf(i))
      /\ \A a : IsFiniteSet(CheckedFrom(a)) /\ IsFiniteSet(GuessesFrom(a))
  BY Finite
<1>2. /\ \A i : Cardinality(CheckedOf(i)) \in Nat /\ Cardinality(GuessesOf(i)) \in Nat
      /\ \A a : Cardinality(CheckedFrom(a)) \in Nat /\ Cardinality(GuessesFrom(a)) \in Nat
  BY <1>1, FS_CardinalityType
<1>3. /\ \A i : Checked(FailuresOf(i)) = Cardinality(CheckedOf(i))
      /\ \A a : Checked(FailuresFrom(a)) = Cardinality(CheckedFrom(a))
  BY DEF Checked, CheckedOf, CheckedFrom
<1>4. Cardinality(Request) \in Nat /\ MaxPerIdentifier \in Nat /\ MaxPerAddress \in Nat
  BY RequestAssumption, FS_CardinalityType, LimitAssumption
<1> QED
  BY <1>2, <1>3, <1>4 DEF Budget, LockoutBounded

-----------------------------------------------------------------------------
LEMMA InitIInv == Init => IInv
<1> SUFFICES ASSUME Init PROVE IInv
  OBVIOUS
<1>1. Shape
  <2>1. \A r \in Request : req[r] = NoLocals
    BY DEF Init
  <2>2. NoLocals \in Locals /\ Placed(NoLocals) /\ NoLocals.at = "idle"
    BY DEF NoLocals, Locals, At, Placed, PastIdentifier, Carries
  <2>3. passwords \in [User -> [value : Password, stale : BOOLEAN]]
    <3>1. \A u \in User : (u \in Stale) \in BOOLEAN
      OBVIOUS
    <3> QED
      BY <3>1, PasswordAssumption DEF Init
  <2>4. TypeOK
    BY <2>1, <2>2, <2>3 DEF Init, TypeOK
  <2> QED
    BY <2>1, <2>2, <2>4, FS_EmptySet DEF Init, Shape
<1>2. \A r \in Request : req[r].at = "idle"
  BY DEF Init, NoLocals
<1>3. LoginsCurrent
  BY <1>2 DEF Init, LoginsCurrent, Carries
<1>4. Budget
  <2>1. /\ \A i : {t \in FailuresOf(i) : t.checked} = {} /\ GuessesOf(i) = {}
        /\ \A a : {t \in FailuresFrom(a) : t.checked} = {} /\ GuessesFrom(a) = {}
    BY <1>2 DEF Init, FailuresOf, FailuresFrom, GuessesOf, GuessesFrom, PastIdentifier, PastAddress
  <2>2. /\ \A i : Checked(FailuresOf(i)) = Cardinality({})
        /\ \A a : Checked(FailuresFrom(a)) = Cardinality({})
    BY <2>1 DEF Checked
  <2>3. Cardinality({}) = 0
    BY FS_EmptySet
  <2>4. Cardinality(Request) \in Nat
    BY RequestAssumption, FS_CardinalityType
  <2> QED
    BY <2>1, <2>2, <2>3, <2>4, LimitAssumption DEF Budget
<1> QED
  BY <1>1, <1>3, <1>4 DEF IInv

LEMMA NextIInv == IInv /\ [Next]_vars => IInv'
<1> SUFFICES ASSUME IInv, [Next]_vars PROVE IInv'
  OBVIOUS
<1>1. Shape'
  BY NextShape DEF IInv
<1>2. CASE Next
  BY <1>1, <1>2, LoginsStayCurrent, BudgetKept DEF IInv
<1>3. CASE UNCHANGED vars
  <2>1. LoginsCurrent'
    BY <1>3 DEF vars, IInv, LoginsCurrent, Current, Unsettled, Carries
  <2>2. Budget'
    BY <1>3 DEF vars, IInv, Budget, Checked, FailuresOf, FailuresFrom, Recent, GuessesOf, GuessesFrom
  <2> QED
    BY <1>1, <2>1, <2>2 DEF IInv
<1> QED
  BY <1>2, <1>3

LEMMA Invariance == Spec => []IInv
BY InitIInv, NextIInv, PTL DEF Spec

(* The variables keep their types, and a request that will write an        *)
(* account or open a session knows whose.                                  *)
THEOREM Typing == Spec => []TypeOK
<1>1. IInv => TypeOK
  BY DEF IInv, Shape
<1> QED
  BY <1>1, Invariance, PTL

(* A session of an old password or of a disabled account belongs to a      *)
(* login that read the account before its sessions were last revoked, or   *)
(* its revocation is due or was cut off (recovery.rs                       *)
(* complete_password_reset, admin.rs set_user_enabled, login.rs            *)
(* authenticate).                                                          *)
THEOREM RevocationsReach == Spec => []RevocationsHold
<1>1. IInv => RevocationsHold
  BY LoginsMean DEF IInv
<1> QED
  BY <1>1, Invariance, PTL

(* In any window no more guesses have been checked against a name or from  *)
(* an address than the limit allows plus one for every other request       *)
(* (login.rs is_locked and record).                                        *)
THEOREM LockoutHolds == Spec => []LockoutBounded
<1>1. IInv => LockoutBounded
  BY BudgetMeans DEF IInv
<1> QED
  BY <1>1, Invariance, PTL
=============================================================================
