------------------------------- MODULE Passkey --------------------------------
(***************************************************************************)
(* Passkeys as a second factor (identity/src/mfa/passkey.rs and its server *)
(* functions in web/src/api.rs): ceremonies held by the server, the        *)
(* signature counter that is to expose a cloned authenticator, and the     *)
(* login challenge that an assertion answers.                              *)
(*                                                                         *)
(* A ceremony carries the credentials as they were when it began, and the  *)
(* WebAuthn library compares an assertion with those.  Each SQL statement  *)
(* is a step.  Signatures are perfect: an assertion is a record that only  *)
(* a device holding the key adds to `assertions'.                          *)
(***************************************************************************)
EXTENDS Naturals, Sequences, FiniteSets

CONSTANTS
  User, Key, Device, Request,
  KeyOf,              \* the key each authenticator holds: clones share one
  MaxAttempts,        \* challenge.rs MAX_ATTEMPTS
  CeremonyLifetime,   \* passkey.rs CEREMONY_LIFETIME
  MaxCounter, MaxCeremonies, MaxChallenges, MaxRows, MaxTime   \* bounds

ASSUME DeviceAssumption == KeyOf \in [Device -> Key]
ASSUME LimitAssumption == MaxAttempts \in Nat \ {0} /\ CeremonyLifetime \in Nat

VARIABLES
  passkeys,    \* passkeys, by credential id
  ceremonies,  \* webauthn_ceremonies, in insertion order
  challenges,  \* mfa_challenges, in insertion order
  sessions,    \* the sessions opened by passkeys, in order
  signed,      \* how often each device has signed
  assertions,  \* what the devices have signed
  accepted,    \* history: the assertions accepted, in the order they were stored
  req,         \* the requests in progress
  rows,        \* the user each passkeys row was inserted for, by its id
  now

vars == <<passkeys, ceremonies, challenges, sessions, signed, assertions, accepted,
          req, rows, now>>

NoRow == [id |-> 0]
Row == [id : Nat \ {0}, user : User, counter : Nat]
Assertion == [ceremony : Nat, key : Key, counter : Nat]

(* `seen' maps the keys of a ceremony to their counters at its beginning.  *)
Ceremony == [user : User, kind : {"registration", "authentication"},
             known : SUBSET Key, seen : [Key -> Nat], expires_at : Nat, consumed : BOOLEAN]
Challenge == [user : User, attempts : Nat, consumed : BOOLEAN]
Session == [challenge : Nat, user : User, ceremony : Nat, key : Key]

NoLocals == [at |-> "idle", challenge |-> 0, ceremony |-> 0, key |-> 0, counter |-> 0,
             id |-> 0, read |-> 0]

At == {"idle", "insert", "claim", "reread", "write", "reject", "consume", "open"}

TypeOK ==
  /\ passkeys \in [Key -> {NoRow} \cup Row]
  /\ ceremonies \in Seq(Ceremony)
  /\ challenges \in Seq(Challenge)
  /\ sessions \in Seq(Session)
  /\ signed \in [Device -> Nat]
  /\ assertions \subseteq Assertion
  /\ accepted \in Seq([by : Assertion, row : DOMAIN rows])
  /\ DOMAIN req = Request
  /\ \A r \in Request :
       /\ req[r].at \in At
       /\ req[r].ceremony \in {0} \cup DOMAIN ceremonies
       /\ req[r].challenge \in {0} \cup DOMAIN challenges
       /\ req[r].at \in {"reread", "write", "consume", "open"} =>
            /\ ceremonies[req[r].ceremony].consumed
            /\ challenges[req[r].challenge].user = ceremonies[req[r].ceremony].user
  /\ rows \in Seq(User) /\ now \in Nat

Init ==
  /\ passkeys = [k \in Key |-> NoRow]
  /\ ceremonies = <<>> /\ challenges = <<>> /\ sessions = <<>>
  /\ signed = [d \in Device |-> 0]
  /\ assertions = {} /\ accepted = <<>>
  /\ req = [r \in Request |-> NoLocals]
  /\ rows = <<>> /\ now = 0

-----------------------------------------------------------------------------
Goto(r, at) == req' = [req EXCEPT ![r].at = at]
Finish(r) == req' = [req EXCEPT ![r] = NoLocals]

KeysOf(u) == {k \in Key : passkeys[k] # NoRow /\ passkeys[k].user = u}

Live(c) == ~challenges[c].consumed /\ challenges[c].attempts < MaxAttempts

(* store_ceremony: the state holds the user's credentials of this moment.  *)
StoreCeremony(u, kind) ==
  /\ Len(ceremonies) < MaxCeremonies
  /\ ceremonies' = Append(ceremonies,
       [user |-> u, kind |-> kind, known |-> KeysOf(u),
        seen |-> [k \in Key |-> IF k \in KeysOf(u) THEN passkeys[k].counter ELSE 0],
        expires_at |-> now + CeremonyLifetime, consumed |-> FALSE])

(* Mutants: the claim does not look at the user; ...                       *)
ClaimableByAnyone(c, u, kind) ==
  /\ c \in DOMAIN ceremonies
  /\ ceremonies[c].kind = kind
  /\ ~ceremonies[c].consumed /\ now < ceremonies[c].expires_at

(* ... a ceremony can be finished more than once.                          *)
ClaimableAgain(c, u, kind) ==
  /\ c \in DOMAIN ceremonies
  /\ ceremonies[c].user = u /\ ceremonies[c].kind = kind
  /\ now < ceremonies[c].expires_at

(* claim_ceremony: which ceremonies the UPDATE finds.                      *)
Claimable(c, u, kind) ==
  /\ c \in DOMAIN ceremonies
  /\ ceremonies[c].user = u /\ ceremonies[c].kind = kind
  /\ ~ceremonies[c].consumed /\ now < ceremonies[c].expires_at

(* finish_passkey_authentication of webauthn-rs: the assertion is by one   *)
(* of the ceremony's credentials, which has not signed as often before.    *)
Verifies(a) ==
  LET c == ceremonies[a.ceremony] IN a.key \in c.known /\ a.counter > c.seen[a.key]

-----------------------------------------------------------------------------
(* A password login of the user has been answered with a challenge.        *)
IssueChallenge(u) ==
  /\ Len(challenges) < MaxChallenges
  /\ challenges' = Append(challenges, [user |-> u, attempts |-> 0, consumed |-> FALSE])
  /\ UNCHANGED <<passkeys, ceremonies, sessions, signed, assertions, accepted, req, rows, now>>

BeginRegistration(u) ==
  /\ StoreCeremony(u, "registration")
  /\ UNCHANGED <<passkeys, challenges, sessions, signed, assertions, accepted, req, rows, now>>

(* finish_registration: the ceremony is claimed ...                        *)
FinishRegistration(r, c, d) ==
  /\ req[r].at = "idle"
  /\ Claimable(c, ceremonies[c].user, "registration")
  /\ ceremonies' = [ceremonies EXCEPT ![c].consumed = TRUE]
  /\ req' = [req EXCEPT ![r] =
       [@ EXCEPT !.at = "insert", !.ceremony = c, !.key = KeyOf[d], !.counter = signed[d]]]
  /\ UNCHANGED <<passkeys, challenges, sessions, signed, assertions, accepted, rows, now>>

(* ... and the credential inserted unless its id is taken.                 *)
InsertPasskey(r) ==
  LET k == req[r].key
      u == ceremonies[req[r].ceremony].user
  IN /\ req[r].at = "insert"
     /\ IF passkeys[k] = NoRow
        THEN /\ Len(rows) < MaxRows
             /\ passkeys' = [passkeys EXCEPT ![k] =
                  [id |-> Len(rows) + 1, user |-> u, counter |-> req[r].counter]]
             /\ rows' = Append(rows, u)
        ELSE UNCHANGED <<passkeys, rows>>
     /\ Finish(r)
     /\ UNCHANGED <<ceremonies, challenges, sessions, signed, assertions, accepted, now>>

(* remove, by its owner.                                                   *)
Remove(k) ==
  /\ passkeys[k] # NoRow
  /\ passkeys' = [passkeys EXCEPT ![k] = NoRow]
  /\ UNCHANGED <<ceremonies, challenges, sessions, signed, assertions, accepted, req, rows, now>>

(* begin_passkey_login, for the user of the pending challenge.             *)
BeginAuthentication(c) ==
  /\ Live(c) /\ KeysOf(challenges[c].user) # {}
  /\ StoreCeremony(challenges[c].user, "authentication")
  /\ UNCHANGED <<passkeys, challenges, sessions, signed, assertions, accepted, req, rows, now>>

(* An authenticator signs the challenge of a ceremony.                     *)
Sign(d, c) ==
  /\ ceremonies[c].kind = "authentication" /\ signed[d] < MaxCounter
  /\ signed' = [signed EXCEPT ![d] = @ + 1]
  /\ assertions' = assertions \cup
       {[ceremony |-> c, key |-> KeyOf[d], counter |-> signed[d] + 1]}
  /\ UNCHANGED <<passkeys, ceremonies, challenges, sessions, accepted, req, rows, now>>

-----------------------------------------------------------------------------
(* finish_passkey_login: the challenge is looked up ...                    *)
Present(r, c, a) ==
  /\ req[r].at = "idle" /\ Live(c)
  /\ req' = [req EXCEPT ![r] =
       [@ EXCEPT !.at = "claim", !.challenge = c, !.ceremony = a.ceremony,
                 !.key = a.key, !.counter = a.counter]]
  /\ UNCHANGED <<passkeys, ceremonies, challenges, sessions, signed, assertions, accepted,
                 rows, now>>

Presented(r) == [ceremony |-> req[r].ceremony, key |-> req[r].key, counter |-> req[r].counter]

(* ... the ceremony claimed and the assertion checked ...                  *)
ClaimCeremony(r) ==
  LET c == req[r].ceremony
      claimed == Claimable(c, challenges[req[r].challenge].user, "authentication")
  IN /\ req[r].at = "claim"
     /\ ceremonies' = [ceremonies EXCEPT ![c].consumed = @ \/ claimed]
     /\ Goto(r, IF claimed /\ Verifies(Presented(r)) THEN "reread" ELSE "reject")
     /\ UNCHANGED <<passkeys, challenges, sessions, signed, assertions, accepted, rows, now>>

(* ... the passkey read again, for it may have been removed meanwhile ...  *)
Reread(r) ==
  LET row == passkeys[req[r].key]
  IN /\ req[r].at = "reread"
     /\ IF row # NoRow /\ row.user = challenges[req[r].challenge].user
        THEN req' = [req EXCEPT ![r] =
               [@ EXCEPT !.at = "write", !.id = row.id, !.read = row.counter]]
        ELSE Goto(r, "reject")
     /\ UNCHANGED <<passkeys, ceremonies, challenges, sessions, signed, assertions, accepted,
                    rows, now>>

(* Mutant: the asserted counter is stored even if it is the lower one.     *)
StoreAnyCounter(r) ==
  LET k == req[r].key
  IN /\ req[r].at = "write"
     /\ passkeys' = IF passkeys[k].id = req[r].id
          THEN [passkeys EXCEPT ![k].counter = req[r].counter] ELSE passkeys
     /\ accepted' = Append(accepted, [by |-> Presented(r), row |-> req[r].id])
     /\ Goto(r, "consume")
     /\ UNCHANGED <<ceremonies, challenges, sessions, signed, assertions, rows, now>>

(* ... and written back, by id, if update_credential raised its counter.   *)
StoreCounter(r) ==
  LET k == req[r].key
  IN /\ req[r].at = "write"
     /\ passkeys' = IF passkeys[k].id = req[r].id /\ req[r].counter > req[r].read
          THEN [passkeys EXCEPT ![k].counter = req[r].counter] ELSE passkeys
     /\ accepted' = Append(accepted, [by |-> Presented(r), row |-> req[r].id])
     /\ Goto(r, "consume")
     /\ UNCHANGED <<ceremonies, challenges, sessions, signed, assertions, rows, now>>

(* A failed assertion costs an attempt.                                    *)
RecordFailure(r) ==
  /\ req[r].at = "reject"
  /\ challenges' = [challenges EXCEPT ![req[r].challenge].attempts = @ + 1]
  /\ Finish(r)
  /\ UNCHANGED <<passkeys, ceremonies, sessions, signed, assertions, accepted, rows, now>>

(* open_session: the challenge is spent, then the session is inserted.     *)
Consume(r) ==
  LET c == req[r].challenge
  IN /\ req[r].at = "consume"
     /\ IF challenges[c].consumed
        THEN Finish(r) /\ UNCHANGED challenges
        ELSE /\ challenges' = [challenges EXCEPT ![c].consumed = TRUE]
             /\ Goto(r, "open")
     /\ UNCHANGED <<passkeys, ceremonies, sessions, signed, assertions, accepted, rows, now>>

OpenSession(r) ==
  LET c == req[r].challenge
  IN /\ req[r].at = "open"
     /\ sessions' = Append(sessions,
          [challenge |-> c, user |-> challenges[c].user,
           ceremony |-> req[r].ceremony, key |-> req[r].key])
     /\ Finish(r)
     /\ UNCHANGED <<passkeys, ceremonies, challenges, signed, assertions, accepted, rows, now>>

-----------------------------------------------------------------------------
(* A request stops between two statements.                                 *)
Abort(r) ==
  /\ req[r].at # "idle"
  /\ Finish(r)
  /\ UNCHANGED <<passkeys, ceremonies, challenges, sessions, signed, assertions, accepted,
                 rows, now>>

(* Expired ceremonies are purged sooner or later, which changes no answer. *)
Tick ==
  /\ now < MaxTime
  /\ now' = now + 1
  /\ UNCHANGED <<passkeys, ceremonies, challenges, sessions, signed, assertions, accepted,
                 req, rows>>

FinishLogin(r) ==
  \/ \E c \in DOMAIN challenges, a \in assertions : Present(r, c, a)
  \/ ClaimCeremony(r) \/ Reread(r) \/ StoreCounter(r)
  \/ RecordFailure(r) \/ Consume(r) \/ OpenSession(r)

Enrol(r) ==
  \/ \E c \in DOMAIN ceremonies, d \in Device : FinishRegistration(r, c, d)
  \/ InsertPasskey(r)

Next ==
  \/ \E u \in User : IssueChallenge(u) \/ BeginRegistration(u)
  \/ \E k \in Key : Remove(k)
  \/ \E c \in DOMAIN challenges : BeginAuthentication(c)
  \/ \E d \in Device, c \in DOMAIN ceremonies : Sign(d, c)
  \/ \E r \in Request : Enrol(r) \/ FinishLogin(r) \/ Abort(r)
  \/ Tick

Spec == Init /\ [][Next]_vars

-----------------------------------------------------------------------------
(* However many requests present the assertion of a ceremony, to however   *)
(* many challenges, it opens one session (passkey.rs, claim_ceremony).     *)
CeremonyOpensOneSession ==
  \A i, j \in DOMAIN sessions :
    sessions[i].ceremony = sessions[j].ceremony \/ sessions[i].challenge = sessions[j].challenge
      => i = j

(* The session is the one of the user whose ceremony and challenge it was, *)
(* and an accepted assertion by a passkey of that user stands behind it,   *)
(* wherever the key went since the ceremony began (passkey.rs, "the        *)
(* credential must belong to the user being authenticated").               *)
SessionBehindAssertion ==
  \A i \in DOMAIN sessions :
    LET s == sessions[i]
    IN /\ s.user = ceremonies[s.ceremony].user
       /\ \E n \in DOMAIN accepted :
            /\ accepted[n].by.ceremony = s.ceremony
            /\ rows[accepted[n].row] = s.user

(* Every session rests on an assertion of its own.                         *)
SessionsProven == CeremonyOpensOneSession /\ SessionBehindAssertion

(* While a key is registered its stored counter only rises, even across    *)
(* ceremonies that overlap and finish out of order; the one exception is a *)
(* write by a request whose reading of the row another has overtaken       *)
(* (passkey.rs, finish_authentication).                                    *)
Falls(k) ==
  /\ passkeys[k] # NoRow /\ passkeys'[k].id = passkeys[k].id
  /\ passkeys'[k].counter < passkeys[k].counter

Overtaken(r) ==
  StoreCounter(r) /\ req[r].read # passkeys[req[r].key].counter

FallsOnlyWhenOvertaken ==
  [][\A k \in Key : Falls(k) => \E r \in Request : Overtaken(r) /\ req[r].key = k]_vars
=============================================================================
