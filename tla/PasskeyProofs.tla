----------------------------- MODULE PasskeyProofs ------------------------------
(***************************************************************************)
(* Proofs about passkeys: the typing of their state, that every session    *)
(* rests on an accepted assertion of its own, and what may lower a stored  *)
(* counter.                                                                *)
(***************************************************************************)
EXTENDS Passkey, TLAPS

Locals == [at : At, challenge : Nat, ceremony : Nat, key : Key \cup {0}, counter : Nat,
           id : Nat, read : Nat]

(* A request that has claimed its ceremony, and one that has spent its     *)
(* login challenge too.                                                    *)
Holds(r) == req[r].at \in {"reread", "write", "consume", "open"}
Opens(r) == req[r].at = "open"

(* The tables with their types.                                            *)
Tables ==
  /\ passkeys \in [Key -> {NoRow} \cup Row]
  /\ ceremonies \in Seq(Ceremony)
  /\ challenges \in Seq(Challenge)
  /\ sessions \in Seq(Session)
  /\ signed \in [Device -> Nat]
  /\ assertions \subseteq Assertion
  /\ accepted \in Seq([by : Assertion, row : DOMAIN rows])
  /\ rows \in Seq(User) /\ now \in Nat

(* A request in progress names what it works on, and one that holds a      *)
(* ceremony holds a claimed one, of the user of its challenge.             *)
Fits(r) ==
  /\ req[r].ceremony \in {0} \cup DOMAIN ceremonies
  /\ req[r].challenge \in {0} \cup DOMAIN challenges
  /\ req[r].at # "idle" => req[r].key \in Key /\ req[r].ceremony # 0
  /\ req[r].at \notin {"idle", "insert"} => req[r].challenge # 0
  /\ Holds(r) => /\ ceremonies[req[r].ceremony].consumed
                 /\ challenges[req[r].challenge].user = ceremonies[req[r].ceremony].user

Requests == req \in [Request -> Locals] /\ \A r \in Request : Fits(r)

(* What has been signed was signed for a ceremony.                         *)
SignedForCeremonies == \A a \in assertions : a.ceremony \in DOMAIN ceremonies

(* A stored passkey belongs to the user its row was inserted for.          *)
Owned ==
  \A k \in Key : passkeys[k] # NoRow =>
    passkeys[k].id \in DOMAIN rows /\ rows[passkeys[k].id] = passkeys[k].user

Shape == Tables /\ Requests /\ SignedForCeremonies /\ Owned

(* The user a request signs in is the one of its login challenge.          *)
Subject(r) == challenges[req[r].challenge].user

(* An accepted assertion of a ceremony, by a passkey of the user.          *)
Proved(c, u) ==
  \E n \in DOMAIN accepted :
    accepted[n].by.ceremony = c /\ rows[accepted[n].row] = u

(* What a request has made sure of where it stands.                        *)
Assured(r) ==
  /\ req[r].at = "write" => req[r].id \in DOMAIN rows /\ rows[req[r].id] = Subject(r)
  /\ req[r].at \in {"consume", "open"} => Proved(req[r].ceremony, Subject(r))
  /\ Opens(r) => challenges[req[r].challenge].consumed

(* A ceremony is held by one request, a spent challenge by one.            *)
Apart ==
  \A r, q \in Request : r # q =>
    /\ Holds(r) /\ Holds(q) => req[r].ceremony # req[q].ceremony
    /\ Opens(r) /\ Opens(q) => req[r].challenge # req[q].challenge

(* What a session used up is spent, and no request holds it any more.      *)
UsedUp ==
  \A i \in DOMAIN sessions :
    /\ sessions[i].ceremony \in DOMAIN ceremonies /\ ceremonies[sessions[i].ceremony].consumed
    /\ sessions[i].challenge \in DOMAIN challenges
    /\ challenges[sessions[i].challenge].consumed
    /\ \A r \in Request :
         /\ Holds(r) => req[r].ceremony # sessions[i].ceremony
         /\ Opens(r) => req[r].challenge # sessions[i].challenge

IInv ==
  Shape /\ (\A r \in Request : Assured(r)) /\ Apart /\ UsedUp /\ SessionsProven

-----------------------------------------------------------------------------
(* Rows are added at the end of a table and changed in place.              *)
LEMMA Appended ==
  ASSUME NEW S, NEW s \in Seq(S), NEW e \in S
  PROVE  /\ Append(s, e) \in Seq(S)
         /\ DOMAIN Append(s, e) = DOMAIN s \cup {Len(s) + 1}
         /\ Len(s) + 1 \notin DOMAIN s /\ Len(s) \in Nat
         /\ \A i \in DOMAIN s : Append(s, e)[i] = s[i]
         /\ Append(s, e)[Len(s) + 1] = e
OBVIOUS

LEMMA Widened ==
  ASSUME NEW S, NEW T, S \subseteq T, NEW s \in Seq(S)
  PROVE  s \in Seq(T)
OBVIOUS

LEMMA Member ==
  ASSUME NEW S, NEW s \in Seq(S), NEW i \in DOMAIN s
  PROVE  s[i] \in S
OBVIOUS

LEMMA Changed ==
  ASSUME NEW S, NEW s \in Seq(S), NEW c \in DOMAIN s, NEW e \in S
  PROVE  /\ [s EXCEPT ![c] = e] \in Seq(S)
         /\ DOMAIN [s EXCEPT ![c] = e] = DOMAIN s
         /\ [s EXCEPT ![c] = e][c] = e
         /\ \A i \in DOMAIN s : i # c => [s EXCEPT ![c] = e][i] = s[i]
OBVIOUS

(* What every step leaves standing: rows keep their place, the users they  *)
(* were inserted for, and what has been consumed.                          *)
Standing ==
  /\ \A c \in DOMAIN ceremonies :
       /\ c \in DOMAIN ceremonies' /\ ceremonies'[c].user = ceremonies[c].user
       /\ ceremonies[c].consumed => ceremonies'[c].consumed
  /\ \A c \in DOMAIN challenges :
       /\ c \in DOMAIN challenges' /\ challenges'[c].user = challenges[c].user
       /\ challenges[c].consumed => challenges'[c].consumed
  /\ \A i \in DOMAIN rows : i \in DOMAIN rows' /\ rows'[i] = rows[i]
  /\ \A n \in DOMAIN accepted : n \in DOMAIN accepted' /\ accepted'[n] = accepted[n]

LEMMA ChallengeConsumed ==
  ASSUME Tables, NEW c \in DOMAIN challenges,
         challenges' = [challenges EXCEPT ![c].consumed = TRUE]
  PROVE  /\ challenges' \in Seq(Challenge) /\ DOMAIN challenges' = DOMAIN challenges
         /\ challenges'[c].consumed /\ challenges'[c].user = challenges[c].user
         /\ \A d \in DOMAIN challenges : d # c => challenges'[d] = challenges[d]
<1> DEFINE e == [challenges[c] EXCEPT !.consumed = TRUE]
<1>1. challenges \in Seq(Challenge) /\ challenges[c] \in Challenge
  BY DEF Tables
<1>2. e \in Challenge
  BY <1>1 DEF Challenge
<1>3. e.consumed /\ e.user = challenges[c].user
  BY <1>1 DEF Challenge
<1>4. challenges' = [challenges EXCEPT ![c] = e]
  OBVIOUS
<1> HIDE DEF e
<1>5. /\ challenges' \in Seq(Challenge)
      /\ DOMAIN challenges' = DOMAIN challenges
      /\ challenges'[c] = e
  <2>1. /\ [challenges EXCEPT ![c] = e] \in Seq(Challenge)
        /\ DOMAIN [challenges EXCEPT ![c] = e] = DOMAIN challenges
        /\ [challenges EXCEPT ![c] = e][c] = e
    BY <1>1, <1>2, Changed, Zenon
  <2> QED
    BY <1>4, <2>1, Zenon
<1>6. ASSUME NEW d \in DOMAIN challenges, d # c PROVE challenges'[d] = challenges[d]
  BY <1>6, <1>1, <1>4
<1> QED
  BY <1>5, <1>6, <1>3

LEMMA AttemptCounted ==
  ASSUME Tables, NEW c \in DOMAIN challenges,
         challenges' = [challenges EXCEPT ![c].attempts = @ + 1]
  PROVE  /\ challenges' \in Seq(Challenge) /\ DOMAIN challenges' = DOMAIN challenges
         /\ \A d \in DOMAIN challenges :
              challenges'[d].user = challenges[d].user
                /\ challenges'[d].consumed = challenges[d].consumed
<1> DEFINE e == [challenges[c] EXCEPT !.attempts = @ + 1]
<1>1. challenges \in Seq(Challenge) /\ challenges[c] \in Challenge
  BY DEF Tables
<1>2. e \in Challenge /\ e.consumed = challenges[c].consumed /\ e.user = challenges[c].user
  BY <1>1 DEF Challenge
<1>3. challenges' = [challenges EXCEPT ![c] = e]
  OBVIOUS
<1> HIDE DEF e
<1> QED
  BY <1>1, <1>2, <1>3, Changed

LEMMA CeremonyClaimed ==
  ASSUME Tables, NEW c \in DOMAIN ceremonies, NEW v \in BOOLEAN, ceremonies[c].consumed => v,
         ceremonies' = [ceremonies EXCEPT ![c].consumed = v]
  PROVE  /\ ceremonies' \in Seq(Ceremony) /\ DOMAIN ceremonies' = DOMAIN ceremonies
         /\ ceremonies'[c].consumed = v
         /\ \A d \in DOMAIN ceremonies :
              /\ ceremonies'[d].user = ceremonies[d].user
              /\ ceremonies[d].consumed => ceremonies'[d].consumed
              /\ d # c => ceremonies'[d].consumed = ceremonies[d].consumed
<1> DEFINE e == [ceremonies[c] EXCEPT !.consumed = v]
<1>1. ceremonies \in Seq(Ceremony) /\ ceremonies[c] \in Ceremony
  BY DEF Tables
<1>2. /\ e \in Ceremony /\ e.user = ceremonies[c].user
      /\ e.consumed = v
  BY <1>1 DEF Ceremony
<1>3. ceremonies' = [ceremonies EXCEPT ![c] = e]
  OBVIOUS
<1> HIDE DEF e
<1>4. /\ ceremonies' \in Seq(Ceremony) /\ DOMAIN ceremonies' = DOMAIN ceremonies
      /\ ceremonies'[c] = e /\ \A d \in DOMAIN ceremonies : d # c => ceremonies'[d] = ceremonies[d]
  BY <1>1, <1>2, <1>3, Changed
<1> QED
  BY <1>2, <1>4

LEMMA CeremonyStored ==
  ASSUME Tables, NEW u \in User, NEW kind \in {"registration", "authentication"},
         StoreCeremony(u, kind)
  PROVE  /\ ceremonies' \in Seq(Ceremony)
         /\ \A c \in DOMAIN ceremonies :
              c \in DOMAIN ceremonies' /\ ceremonies'[c] = ceremonies[c]
<1> DEFINE e == [user |-> u, kind |-> kind, known |-> KeysOf(u),
                 seen |-> [k \in Key |-> IF k \in KeysOf(u) THEN passkeys[k].counter ELSE 0],
                 expires_at |-> now + CeremonyLifetime, consumed |-> FALSE]
<1>1. \A k \in Key : (IF k \in KeysOf(u) THEN passkeys[k].counter ELSE 0) \in Nat
  BY DEF KeysOf, Tables, Row
<1>2. KeysOf(u) \in SUBSET Key /\ now + CeremonyLifetime \in Nat
  BY LimitAssumption DEF KeysOf, Tables
<1>3. [k \in Key |-> IF k \in KeysOf(u) THEN passkeys[k].counter ELSE 0] \in [Key -> Nat]
  BY <1>1
<1>4. e \in Ceremony
  BY <1>2, <1>3 DEF Ceremony
<1>5. ceremonies' = Append(ceremonies, e) /\ ceremonies \in Seq(Ceremony)
  BY DEF StoreCeremony, Tables
<1> HIDE DEF e
<1> QED
  BY <1>4, <1>5, Appended

LEMMA ShapeTypes == Shape => TypeOK
<1> SUFFICES ASSUME Shape PROVE TypeOK
  OBVIOUS
<1>1. \A r \in Request :
        /\ req[r].at \in At
        /\ req[r].ceremony \in {0} \cup DOMAIN ceremonies
        /\ req[r].challenge \in {0} \cup DOMAIN challenges
        /\ req[r].at \in {"reread", "write", "consume", "open"} =>
             /\ ceremonies[req[r].ceremony].consumed
             /\ challenges[req[r].challenge].user = ceremonies[req[r].ceremony].user
  BY DEF Shape, Requests, Fits, Holds, Locals
<1> QED
  BY <1>1 DEF Shape, Tables, Requests, TypeOK

LEMMA InitShape == Init => Shape
<1> SUFFICES ASSUME Init PROVE Shape
  OBVIOUS
<1>1. NoLocals \in Locals
  BY DEF NoLocals, Locals, At
<1>2. Tables
  BY DEF Init, Tables
<1>3. Requests
  BY <1>1 DEF Init, Requests, Fits, Holds, NoLocals
<1>4. SignedForCeremonies /\ Owned
  BY DEF Init, SignedForCeremonies, Owned
<1> QED
  BY <1>2, <1>3, <1>4 DEF Shape

(* Nothing a request relies on is taken from it by another's step.         *)
LEMMA RequestsStand ==
  ASSUME Shape, Standing, UNCHANGED req
  PROVE  Requests'
BY DEF Shape, Requests, Fits, Holds, Standing

LEMMA RequestMoves ==
  ASSUME Shape, Standing, NEW r \in Request, NEW e \in Locals,
         req' = [req EXCEPT ![r] = e], Fits(r)'
  PROVE  Requests'
<1>1. req \in [Request -> Locals] /\ req' \in [Request -> Locals]
  BY DEF Shape, Requests
<1>2. ASSUME NEW q \in Request, q # r PROVE Fits(q)'
  <2>1. req'[q] = req[q] /\ Fits(q)
    BY <1>1, <1>2 DEF Shape, Requests
  <2> QED
    BY <2>1 DEF Fits, Holds, Standing
<1> QED
  BY <1>1, <1>2 DEF Requests

(* A request that is over, and one that goes on with what it carries.      *)
LEMMA RequestEnds ==
  ASSUME Shape, Standing, NEW r \in Request, Finish(r)
  PROVE  Requests'
<1>1. NoLocals \in Locals /\ req \in [Request -> Locals]
  BY DEF NoLocals, Locals, At, Shape, Requests
<1>2. req'[r] = NoLocals
  BY <1>1 DEF Finish
<1>3. Fits(r)'
  BY <1>2 DEF Fits, Holds, NoLocals
<1> QED
  BY <1>1, <1>3, RequestMoves DEF Finish

LEMMA RequestGoesOn ==
  ASSUME Shape, Standing, NEW r \in Request, NEW at \in At, Goto(r, at),
         req[r].at \notin {"idle", "insert"},
         at \in {"reread", "write", "consume", "open"} =>
           ceremonies'[req[r].ceremony].consumed
             /\ challenges[req[r].challenge].user = ceremonies[req[r].ceremony].user
  PROVE  Requests'
<1> DEFINE e == [req[r] EXCEPT !.at = at]
<1>1. req \in [Request -> Locals] /\ req[r] \in Locals
  BY DEF Shape, Requests
<1>2. /\ e \in Locals /\ e.at = at /\ e.ceremony = req[r].ceremony
      /\ e.challenge = req[r].challenge /\ e.key = req[r].key
  BY <1>1 DEF Locals
<1>3. req' = [req EXCEPT ![r] = e]
  BY DEF Goto
<1> HIDE DEF e
<1>4. req'[r] = e
  BY <1>1, <1>3
<1>5. Fits(r)
  BY DEF Shape, Requests
<1>6. Fits(r)'
  BY <1>2, <1>4, <1>5 DEF Fits, Holds, Standing
<1> QED
  BY <1>2, <1>3, <1>6, RequestMoves

-----------------------------------------------------------------------------
(* Which passkeys are stored and what is signed stays in order as long as  *)
(* nothing is taken from under them.                                       *)
LEMMA RestStands ==
  ASSUME Shape, Standing
  PROVE  /\ UNCHANGED assertions => SignedForCeremonies'
         /\ UNCHANGED passkeys => Owned'
BY DEF Shape, SignedForCeremonies, Owned, Standing

(* The steps that add to the tables: a challenge, and a ceremony.          *)
LEMMA IssueChallengeShape ==
  ASSUME Shape, NEW u \in User, IssueChallenge(u)
  PROVE  Standing /\ Shape'
<1> DEFINE e == [user |-> u, attempts |-> 0, consumed |-> FALSE]
<1>1. e \in Challenge /\ challenges \in Seq(Challenge)
  BY DEF Challenge, Shape, Tables
<1>2. challenges' = Append(challenges, e)
  BY DEF IssueChallenge
<1> HIDE DEF e
<1>3. /\ challenges' \in Seq(Challenge)
      /\ \A c \in DOMAIN challenges : c \in DOMAIN challenges' /\ challenges'[c] = challenges[c]
  BY <1>1, <1>2, Appended
<1>4. Standing
  BY <1>3 DEF IssueChallenge, Standing
<1>5. Tables'
  BY <1>3 DEF IssueChallenge, Shape, Tables
<1> QED
  BY <1>4, <1>5, RequestsStand, RestStands DEF IssueChallenge, Shape

LEMMA BeginShape ==
  ASSUME Shape, NEW u \in User, NEW kind \in {"registration", "authentication"},
         StoreCeremony(u, kind),
         UNCHANGED <<passkeys, challenges, sessions, signed, assertions, accepted, req, rows, now>>
  PROVE  Standing /\ Shape'
<1>1. /\ ceremonies' \in Seq(Ceremony)
      /\ \A c \in DOMAIN ceremonies : c \in DOMAIN ceremonies' /\ ceremonies'[c] = ceremonies[c]
  BY CeremonyStored DEF Shape
<1>2. Standing
  BY <1>1 DEF Standing
<1>3. Tables'
  BY <1>1 DEF Shape, Tables
<1> QED
  BY <1>2, <1>3, RequestsStand, RestStands DEF Shape

LEMMA SignShape ==
  ASSUME Shape, NEW d \in Device, NEW c \in DOMAIN ceremonies, Sign(d, c)
  PROVE  Standing /\ Shape'
<1>1. Standing
  BY DEF Sign, Standing
<1>2. c \in Nat /\ KeyOf[d] \in Key /\ signed[d] + 1 \in Nat
  BY DeviceAssumption DEF Shape, Tables
<1>3. Tables'
  BY <1>2 DEF Sign, Shape, Tables, Assertion
<1>4. SignedForCeremonies'
  BY DEF Sign, Shape, SignedForCeremonies
<1> QED
  BY <1>1, <1>3, <1>4, RequestsStand, RestStands DEF Sign, Shape

LEMMA RemoveShape ==
  ASSUME Shape, NEW k \in Key, Remove(k)
  PROVE  Standing /\ Shape'
<1>1. Standing
  BY DEF Remove, Standing
<1>2. Tables'
  BY DEF Remove, Shape, Tables
<1>3. Owned'
  BY DEF Remove, Shape, Tables, Owned
<1> QED
  BY <1>1, <1>2, <1>3, RequestsStand, RestStands DEF Remove, Shape

(* The two statements of a registration.                                   *)
LEMMA FinishRegistrationShape ==
  ASSUME Shape, NEW r \in Request, NEW c \in DOMAIN ceremonies, NEW d \in Device,
         FinishRegistration(r, c, d)
  PROVE  Standing /\ Shape'
<1> DEFINE e == [req[r] EXCEPT !.at = "insert", !.ceremony = c, !.key = KeyOf[d],
                               !.counter = signed[d]]
<1>1. /\ ceremonies' \in Seq(Ceremony) /\ DOMAIN ceremonies' = DOMAIN ceremonies
      /\ \A b \in DOMAIN ceremonies :
           /\ ceremonies'[b].user = ceremonies[b].user
           /\ ceremonies[b].consumed => ceremonies'[b].consumed
  BY CeremonyClaimed DEF FinishRegistration, Shape
<1>2. Standing
  BY <1>1 DEF FinishRegistration, Standing
<1>3. req \in [Request -> Locals] /\ req[r] \in Locals
  BY DEF Shape, Requests
<1>4. c \in Nat /\ KeyOf[d] \in Key /\ signed[d] \in Nat
  BY DeviceAssumption DEF Shape, Tables
<1>5. e \in Locals
  BY <1>3, <1>4 DEF Locals, At
<1>6. e.at = "insert" /\ e.ceremony = c /\ e.key = KeyOf[d] /\ e.challenge = req[r].challenge
  BY <1>3 DEF Locals
<1>7. req' = [req EXCEPT ![r] = e]
  BY DEF FinishRegistration
<1> HIDE DEF e
<1>8. c # 0
  BY DEF Shape, Tables
<1>9. req'[r] = e /\ Fits(r) /\ challenges' = challenges /\ DOMAIN ceremonies' = DOMAIN ceremonies
  BY <1>1, <1>3, <1>7 DEF FinishRegistration, Shape, Requests
<1>10. Fits(r)'
  BY <1>4, <1>6, <1>8, <1>9 DEF Fits, Holds
<1>11. Tables'
  BY <1>1 DEF FinishRegistration, Shape, Tables
<1> QED
  BY <1>2, <1>5, <1>7, <1>10, <1>11, RequestMoves, RestStands DEF FinishRegistration, Shape

LEMMA InsertPasskeyShape ==
  ASSUME Shape, NEW r \in Request, InsertPasskey(r)
  PROVE  Standing /\ Shape'
<1> DEFINE k == req[r].key
           u == ceremonies[req[r].ceremony].user
<1>1. k \in Key /\ req[r].ceremony \in DOMAIN ceremonies /\ req[r].counter \in Nat
  BY DEF InsertPasskey, Shape, Requests, Fits, Locals
<1>2. u \in User
  <2>1. ceremonies[req[r].ceremony] \in Ceremony
    BY <1>1 DEF Shape, Tables
  <2> QED
    BY <2>1 DEF Ceremony
<1>3. Requests' /\ Standing /\ Tables' /\ Owned'
  <2>1. CASE UNCHANGED <<passkeys, rows>>
    <3>1. Standing
      BY <2>1 DEF InsertPasskey, Standing
    <3>2. Tables'
      BY <2>1 DEF InsertPasskey, Shape, Tables
    <3> QED
      BY <2>1, <3>1, <3>2, RequestEnds, RestStands DEF InsertPasskey
  <2>2. CASE passkeys[k] = NoRow
    <3> DEFINE row == [id |-> Len(rows) + 1, user |-> u, counter |-> req[r].counter]
    <3>1. rows \in Seq(User) /\ passkeys \in [Key -> {NoRow} \cup Row]
      BY DEF Shape, Tables
    <3>2. passkeys' = [passkeys EXCEPT ![k] = row] /\ rows' = Append(rows, u)
      BY <2>2 DEF InsertPasskey
    <3>3. row \in Row /\ row.id = Len(rows) + 1 /\ row.user = u
      BY <1>1, <1>2, <3>1 DEF Row
    <3> HIDE DEF row, u
    <3>4. /\ rows' \in Seq(User) /\ DOMAIN rows' = DOMAIN rows \cup {Len(rows) + 1}
          /\ \A i \in DOMAIN rows : rows'[i] = rows[i]
          /\ rows'[Len(rows) + 1] = u
      BY <1>2, <3>1, <3>2, Appended
    <3>5. Standing
      BY <3>4 DEF InsertPasskey, Standing
    <3>6. accepted' \in Seq([by : Assertion, row : DOMAIN rows'])
      <4>1. accepted \in Seq([by : Assertion, row : DOMAIN rows]) /\ accepted' = accepted
        BY DEF InsertPasskey, Shape, Tables
      <4>2. [by : Assertion, row : DOMAIN rows] \subseteq [by : Assertion, row : DOMAIN rows']
        BY <3>4
      <4> QED
        BY <4>1, <4>2, Widened
    <3>7. Tables'
      BY <3>1, <3>2, <3>3, <3>4, <3>6 DEF InsertPasskey, Shape, Tables
    <3>8. Owned'
      BY <1>1, <3>1, <3>2, <3>3, <3>4 DEF Shape, Owned
    <3> QED
      BY <3>5, <3>7, <3>8, RequestEnds DEF InsertPasskey
  <2> QED
    BY <2>1, <2>2 DEF InsertPasskey
<1> QED
  BY <1>3, RestStands DEF InsertPasskey, Shape

(* The statements of a login with a passkey.                               *)
LEMMA PresentShape ==
  ASSUME Shape, NEW r \in Request, NEW c \in DOMAIN challenges, NEW a \in assertions,
         Present(r, c, a)
  PROVE  /\ Standing /\ Shape'
         /\ req'[r].at = "claim"
<1> DEFINE e == [req[r] EXCEPT !.at = "claim", !.challenge = c, !.ceremony = a.ceremony,
                               !.key = a.key, !.counter = a.counter]
<1>1. Standing
  BY DEF Present, Standing
<1>2. req \in [Request -> Locals] /\ req[r] \in Locals
  BY DEF Shape, Requests
<1>3. /\ c \in Nat \ {0} /\ a \in Assertion
      /\ a.ceremony \in DOMAIN ceremonies /\ a.ceremony \in Nat \ {0}
  BY DEF Shape, Tables, SignedForCeremonies
<1>4. e \in Locals
  BY <1>2, <1>3 DEF Locals, At, Assertion
<1>5. /\ e.at = "claim" /\ e.ceremony = a.ceremony /\ e.key = a.key
      /\ e.challenge = c
  BY <1>2 DEF Locals
<1>6. req' = [req EXCEPT ![r] = e]
  BY DEF Present
<1> HIDE DEF e
<1>7. /\ req'[r] = e /\ challenges' = challenges /\ ceremonies' = ceremonies
      /\ a.key \in Key
  BY <1>2, <1>3, <1>6 DEF Present, Assertion
<1>8. Fits(r)'
  BY <1>3, <1>5, <1>7 DEF Fits, Holds
<1>9. Tables'
  BY DEF Present, Shape, Tables
<1> QED
  BY <1>1, <1>4, <1>5, <1>6, <1>7, <1>8, <1>9, RequestMoves, RestStands DEF Present, Shape

(* The claim either finds the ceremony as it should be or goes nowhere.    *)
LEMMA ClaimCeremonyShape ==
  ASSUME Shape, NEW r \in Request, ClaimCeremony(r)
  PROVE  /\ Standing /\ Shape'
         /\ \/ Goto(r, "reject")
            \/ /\ Goto(r, "reread")
               /\ ~ceremonies[req[r].ceremony].consumed
               /\ ceremonies'[req[r].ceremony].consumed
<1> DEFINE c == req[r].ceremony
           claimed == Claimable(c, challenges[req[r].challenge].user, "authentication")
           v == ceremonies[c].consumed \/ claimed
<1>1. c \in DOMAIN ceremonies /\ req[r].at = "claim"
  BY DEF ClaimCeremony, Shape, Requests, Fits
<1>2. ceremonies[c] \in Ceremony
  BY <1>1 DEF Shape, Tables
<1>3. ceremonies[c].consumed \in BOOLEAN
  BY <1>2 DEF Ceremony
<1>4. v \in BOOLEAN /\ (ceremonies[c].consumed => v) /\ (claimed => v)
  BY <1>3
<1>5. ceremonies' = [ceremonies EXCEPT ![c].consumed = v]
  BY DEF ClaimCeremony
<1>6. /\ claimed => ~ceremonies[c].consumed
      /\ claimed => ceremonies[c].user = challenges[req[r].challenge].user
  BY DEF Claimable
<1>7. Goto(r, "reject") \/ (claimed /\ Goto(r, "reread"))
  BY DEF ClaimCeremony
<1>8. UNCHANGED <<passkeys, challenges, sessions, signed, assertions, accepted, rows, now>>
  BY DEF ClaimCeremony
<1> HIDE DEF v, claimed
<1>9. /\ ceremonies' \in Seq(Ceremony) /\ DOMAIN ceremonies' = DOMAIN ceremonies
      /\ ceremonies'[c].consumed = v
      /\ \A b \in DOMAIN ceremonies :
           /\ ceremonies'[b].user = ceremonies[b].user
           /\ ceremonies[b].consumed => ceremonies'[b].consumed
  BY <1>1, <1>4, <1>5, CeremonyClaimed DEF Shape
<1>10. Standing
  BY <1>8, <1>9 DEF Standing
<1>11. Tables'
  BY <1>8, <1>9 DEF Shape, Tables
<1>12. Requests'
  BY <1>1, <1>4, <1>6, <1>7, <1>9, <1>10, RequestGoesOn DEF At
<1> QED
  BY <1>4, <1>6, <1>7, <1>8, <1>9, <1>10, <1>11, <1>12, RestStands DEF Shape

LEMMA RereadShape ==
  ASSUME Shape, NEW r \in Request, Reread(r)
  PROVE  /\ Standing /\ Shape'
         /\ \/ Goto(r, "reject")
            \/ /\ req'[r].at = "write" /\ req[r].at = "reread"
               /\ req'[r].ceremony = req[r].ceremony
               /\ req'[r].challenge = req[r].challenge
               /\ req'[r].id \in DOMAIN rows /\ rows[req'[r].id] = Subject(r)
<1> DEFINE row == passkeys[req[r].key]
           e == [req[r] EXCEPT !.at = "write", !.id = row.id, !.read = row.counter]
<1>1. Standing
  BY DEF Reread, Standing
<1>2. /\ req \in [Request -> Locals] /\ req[r] \in Locals /\ Fits(r)
      /\ req[r].at = "reread" /\ req[r].key \in Key
  BY DEF Reread, Shape, Requests, Fits
<1>3. Tables'
  BY DEF Reread, Shape, Tables
<1>4. ceremonies' = ceremonies /\ challenges' = challenges
  BY DEF Reread
<1>5. CASE Goto(r, "reject")
  <2>1. Requests'
    BY <1>1, <1>2, <1>5, RequestGoesOn DEF At
  <2> QED
    BY <1>1, <1>3, <1>5, <2>1, RestStands DEF Reread, Shape
<1>6. CASE /\ row # NoRow /\ row.user = Subject(r)
           /\ req' = [req EXCEPT ![r] = e]
  <2>1. row \in Row
    BY <1>2, <1>6 DEF Shape, Tables
  <2>2. row.id \in Nat /\ row.counter \in Nat
    BY <2>1 DEF Row
  <2>3. e \in Locals
    BY <1>2, <2>2 DEF Locals, At
  <2>4. /\ e.at = "write" /\ e.ceremony = req[r].ceremony /\ e.key = req[r].key
        /\ e.challenge = req[r].challenge /\ e.id = row.id
    BY <1>2 DEF Locals
  <2>5. row.id \in DOMAIN rows /\ rows[row.id] = Subject(r)
    BY <1>2, <1>6 DEF Shape, Owned
  <2> HIDE DEF e, row
  <2>6. req'[r] = e
    BY <1>2, <1>6
  <2>7. Fits(r)'
    BY <1>2, <1>4, <2>4, <2>6 DEF Fits, Holds
  <2>8. Requests'
    BY <1>1, <1>6, <2>3, <2>7, RequestMoves
  <2> QED
    BY <1>1, <1>2, <1>3, <2>4, <2>5, <2>6, <2>8, RestStands DEF Reread, Shape
<1> QED
  BY <1>5, <1>6 DEF Reread, Subject

(* The write stores a counter under the id that was read, or nothing.      *)
LEMMA StoreCounterShape ==
  ASSUME Shape, NEW r \in Request, req[r].at = "write" => req[r].id \in DOMAIN rows,
         StoreCounter(r)
  PROVE  /\ Standing /\ Shape'
         /\ Len(accepted) + 1 \in DOMAIN accepted'
         /\ accepted'[Len(accepted) + 1].by.ceremony = req[r].ceremony
         /\ accepted'[Len(accepted) + 1].row = req[r].id
<1> DEFINE k == req[r].key
           entry == [by |-> Presented(r), row |-> req[r].id]
           Entry == [by : Assertion, row : DOMAIN rows]
<1>1. /\ req \in [Request -> Locals] /\ req[r] \in Locals /\ Fits(r)
      /\ req[r].at = "write" /\ k \in Key /\ req[r].id \in DOMAIN rows
  BY DEF StoreCounter, Shape, Requests, Fits
<1>2. Presented(r) \in Assertion /\ Presented(r).ceremony = req[r].ceremony
  BY <1>1 DEF Presented, Assertion, Locals
<1>3. entry \in Entry /\ entry.by.ceremony = req[r].ceremony /\ entry.row = req[r].id
  BY <1>1, <1>2
<1>4. accepted' = Append(accepted, entry) /\ accepted \in Seq(Entry)
  BY DEF StoreCounter, Shape, Tables
<1> HIDE DEF entry, Entry
<1>5. /\ accepted' \in Seq(Entry) /\ DOMAIN accepted' = DOMAIN accepted \cup {Len(accepted) + 1}
      /\ \A n \in DOMAIN accepted : accepted'[n] = accepted[n]
      /\ accepted'[Len(accepted) + 1] = entry
  BY <1>3, <1>4, Appended
<1>6. UNCHANGED <<ceremonies, challenges, sessions, signed, assertions, rows, now>>
  BY DEF StoreCounter
<1>7. Standing
  BY <1>5, <1>6 DEF Standing
<1>8. Goto(r, "consume")
  BY DEF StoreCounter
<1>9. Requests'
  BY <1>1, <1>6, <1>7, <1>8, RequestGoesOn DEF At, Fits, Holds
<1>10. passkeys' \in [Key -> {NoRow} \cup Row] /\ Owned'
  <2>1. CASE UNCHANGED passkeys
    BY <1>7, <2>1, RestStands DEF Shape, Tables
  <2>2. CASE passkeys[k].id = req[r].id /\ passkeys' = [passkeys EXCEPT ![k].counter = req[r].counter]
    <3> DEFINE e == [passkeys[k] EXCEPT !.counter = req[r].counter]
    <3>1. passkeys \in [Key -> {NoRow} \cup Row] /\ rows \in Seq(User)
      BY DEF Shape, Tables
    <3>2. req[r].id # 0 /\ req[r].counter \in Nat
      BY <1>1, <3>1 DEF Locals
    <3>3. passkeys[k] \in Row
      BY <1>1, <2>2, <3>1, <3>2 DEF NoRow
    <3>4. e \in Row /\ e.id = passkeys[k].id /\ e.user = passkeys[k].user
      BY <3>2, <3>3 DEF Row
    <3>5. passkeys' = [passkeys EXCEPT ![k] = e]
      BY <2>2
    <3>6. passkeys[k] # NoRow
      BY <2>2, <3>2 DEF NoRow
    <3> HIDE DEF e
    <3> QED
      BY <1>1, <1>6, <3>1, <3>4, <3>5, <3>6 DEF Shape, Owned
  <2> QED
    BY <2>1, <2>2 DEF StoreCounter
<1>11. Tables'
  BY <1>5, <1>6, <1>10 DEF Shape, Tables, Entry
<1> QED
  BY <1>3, <1>5, <1>6, <1>7, <1>9, <1>10, <1>11, RestStands DEF Shape

LEMMA RecordFailureShape ==
  ASSUME Shape, NEW r \in Request, RecordFailure(r)
  PROVE  Standing /\ Shape'
<1>1. req[r].challenge \in DOMAIN challenges
  BY DEF RecordFailure, Shape, Requests, Fits
<1>2. /\ challenges' \in Seq(Challenge) /\ DOMAIN challenges' = DOMAIN challenges
      /\ \A c \in DOMAIN challenges :
           challenges'[c].user = challenges[c].user
             /\ challenges'[c].consumed = challenges[c].consumed
  BY <1>1, AttemptCounted DEF RecordFailure, Shape
<1>3. Standing
  BY <1>2 DEF RecordFailure, Standing
<1>4. Tables'
  BY <1>2 DEF RecordFailure, Shape, Tables
<1> QED
  BY <1>3, <1>4, RequestEnds, RestStands DEF RecordFailure, Shape

LEMMA ConsumeShape ==
  ASSUME Shape, NEW r \in Request, Consume(r)
  PROVE  /\ Standing /\ Shape'
         /\ \/ Finish(r)
            \/ /\ Goto(r, "open")
               /\ ~challenges[req[r].challenge].consumed
               /\ challenges'[req[r].challenge].consumed
<1>1. /\ req[r].challenge \in DOMAIN challenges /\ req[r].at = "consume"
      /\ Fits(r)
  BY DEF Consume, Shape, Requests, Fits
<1>2. UNCHANGED <<passkeys, ceremonies, sessions, signed, assertions, accepted, rows, now>>
  BY DEF Consume
<1>3. CASE Finish(r) /\ UNCHANGED challenges
  <2>1. Standing
    BY <1>2, <1>3 DEF Standing
  <2>2. Tables'
    BY <1>2, <1>3 DEF Shape, Tables
  <2> QED
    BY <1>2, <1>3, <2>1, <2>2, RequestEnds, RestStands DEF Shape
<1>4. CASE /\ ~challenges[req[r].challenge].consumed
           /\ challenges' = [challenges EXCEPT ![req[r].challenge].consumed = TRUE]
           /\ Goto(r, "open")
  <2>1. /\ challenges' \in Seq(Challenge) /\ DOMAIN challenges' = DOMAIN challenges
        /\ challenges'[req[r].challenge].consumed
        /\ challenges'[req[r].challenge].user = challenges[req[r].challenge].user
        /\ \A d \in DOMAIN challenges :
             d # req[r].challenge => challenges'[d] = challenges[d]
    BY <1>1, <1>4, ChallengeConsumed DEF Shape
  <2>2. Standing
    BY <1>2, <2>1 DEF Standing
  <2>3. Tables'
    BY <1>2, <2>1 DEF Shape, Tables
  <2>4. Requests'
    BY <1>1, <1>2, <1>4, <2>2, RequestGoesOn DEF At, Fits, Holds
  <2> QED
    BY <1>2, <1>4, <2>1, <2>2, <2>3, <2>4, RestStands DEF Shape
<1> QED
  BY <1>3, <1>4 DEF Consume

LEMMA OpenSessionShape ==
  ASSUME Shape, NEW r \in Request, OpenSession(r)
  PROVE  /\ Standing /\ Shape'
         /\ DOMAIN sessions' = DOMAIN sessions \cup {Len(sessions) + 1}
         /\ Len(sessions) + 1 \notin DOMAIN sessions
         /\ \A i \in DOMAIN sessions : sessions'[i] = sessions[i]
         /\ sessions'[Len(sessions) + 1].challenge = req[r].challenge
         /\ sessions'[Len(sessions) + 1].ceremony = req[r].ceremony
         /\ sessions'[Len(sessions) + 1].user = Subject(r)
<1> DEFINE c == req[r].challenge
           e == [challenge |-> c, user |-> challenges[c].user,
                 ceremony |-> req[r].ceremony, key |-> req[r].key]
<1>1. /\ req[r].at = "open" /\ c \in DOMAIN challenges /\ req[r].key \in Key
      /\ req[r] \in Locals
  BY DEF OpenSession, Shape, Requests, Fits
<1>2. challenges[c] \in Challenge /\ c \in Nat /\ req[r].ceremony \in Nat
  BY <1>1 DEF Shape, Tables, Locals
<1>3. challenges[c].user \in User
  BY <1>2 DEF Challenge
<1>4. e \in Session /\ sessions \in Seq(Session)
  BY <1>1, <1>2, <1>3 DEF Session, Shape, Tables
<1>5. e.challenge = c /\ e.ceremony = req[r].ceremony /\ e.user = Subject(r)
  BY DEF Subject
<1>6. sessions' = Append(sessions, e)
  BY DEF OpenSession
<1> HIDE DEF e
<1>7. /\ sessions' \in Seq(Session) /\ DOMAIN sessions' = DOMAIN sessions \cup {Len(sessions) + 1}
      /\ Len(sessions) + 1 \notin DOMAIN sessions
      /\ \A i \in DOMAIN sessions : sessions'[i] = sessions[i]
      /\ sessions'[Len(sessions) + 1] = e
  BY <1>4, <1>6, Appended
<1>8. Standing
  BY DEF OpenSession, Standing
<1>9. Tables'
  BY <1>7 DEF OpenSession, Shape, Tables
<1>10. Shape'
  BY <1>8, <1>9, RequestEnds, RestStands DEF OpenSession, Shape
<1> QED
  BY <1>5, <1>7, <1>8, <1>10

LEMMA OtherShape ==
  ASSUME Shape
  PROVE  /\ Tick => Standing /\ Shape'
         /\ \A r \in Request : Abort(r) => Standing /\ Shape'
         /\ UNCHANGED vars => Standing /\ Shape'
<1>1. ASSUME Tick \/ UNCHANGED vars PROVE Standing /\ Shape'
  <2>1. Standing
    BY <1>1 DEF Tick, vars, Standing
  <2>2. Tables'
    <3>1. CASE Tick
      BY <3>1 DEF Tick, Shape, Tables
    <3>2. CASE UNCHANGED vars
      BY <3>2 DEF vars, Shape, Tables
    <3> QED
      BY <1>1, <3>1, <3>2
  <2> QED
    BY <1>1, <2>1, <2>2, RequestsStand, RestStands DEF Tick, vars, Shape
<1>2. ASSUME NEW r \in Request, Abort(r) PROVE Standing /\ Shape'
  <2>1. Standing
    BY <1>2 DEF Abort, Standing
  <2>2. Tables'
    BY <1>2 DEF Abort, Shape, Tables
  <2> QED
    BY <1>2, <2>1, <2>2, RequestEnds, RestStands DEF Abort, Shape
<1> QED
  BY <1>1, <1>2

LEMMA NextShape ==
  ASSUME Shape, \A r \in Request : Assured(r), [Next]_vars
  PROVE  Standing /\ Shape'
<1>1. ASSUME NEW u \in User, BeginRegistration(u) PROVE Standing /\ Shape'
  BY <1>1, BeginShape DEF BeginRegistration
<1>2. ASSUME NEW c \in DOMAIN challenges, BeginAuthentication(c) PROVE Standing /\ Shape'
  <2>1. challenges[c] \in Challenge
    BY DEF Shape, Tables
  <2>2. challenges[c].user \in User
    BY <2>1 DEF Challenge
  <2> QED
    BY <1>2, <2>2, BeginShape DEF BeginAuthentication
<1>3. ASSUME NEW r \in Request, Enrol(r) PROVE Standing /\ Shape'
  BY <1>3, FinishRegistrationShape, InsertPasskeyShape DEF Enrol
<1>4. ASSUME NEW r \in Request, FinishLogin(r) PROVE Standing /\ Shape'
  BY <1>4, PresentShape, ClaimCeremonyShape, RereadShape, StoreCounterShape,
     RecordFailureShape, ConsumeShape, OpenSessionShape DEF FinishLogin, Assured
<1> QED
  BY <1>1, <1>2, <1>3, <1>4, IssueChallengeShape, RemoveShape, SignShape, OtherShape DEF Next

-----------------------------------------------------------------------------
(* How a request moves: out of the way, and through what it holds.         *)
Same(r) == /\ req'[r].ceremony = req[r].ceremony /\ req'[r].challenge = req[r].challenge
           /\ req[r].challenge \in DOMAIN challenges /\ req[r].ceremony \in DOMAIN ceremonies
           /\ req'[r].id = req[r].id

Withdraws(r) == req'[r].at \in {"idle", "insert", "claim", "reject"} /\ UNCHANGED sessions

Claims(r) ==
  /\ req'[r].at = "reread" /\ Same(r) /\ UNCHANGED sessions
  /\ ~ceremonies[req[r].ceremony].consumed

Rereads(r) ==
  /\ req[r].at = "reread" /\ req'[r].at = "write" /\ UNCHANGED sessions
  /\ req'[r].ceremony = req[r].ceremony /\ req'[r].challenge = req[r].challenge
  /\ req[r].challenge \in DOMAIN challenges
  /\ req'[r].id \in DOMAIN rows /\ rows[req'[r].id] = Subject(r)

Accepts(r) ==
  /\ req[r].at = "write" /\ req'[r].at = "consume" /\ Same(r) /\ UNCHANGED <<sessions, rows>>
  /\ Len(accepted) + 1 \in DOMAIN accepted'
  /\ accepted'[Len(accepted) + 1].by.ceremony = req[r].ceremony
  /\ accepted'[Len(accepted) + 1].row = req[r].id

Spends(r) ==
  /\ req[r].at = "consume" /\ req'[r].at = "open" /\ Same(r) /\ UNCHANGED sessions
  /\ ~challenges[req[r].challenge].consumed /\ challenges'[req[r].challenge].consumed

SignsIn(r) ==
  /\ req[r].at = "open" /\ req'[r].at = "idle"
  /\ DOMAIN sessions' = DOMAIN sessions \cup {Len(sessions) + 1}
  /\ Len(sessions) + 1 \notin DOMAIN sessions
  /\ \A i \in DOMAIN sessions : sessions'[i] = sessions[i]
  /\ sessions'[Len(sessions) + 1].challenge = req[r].challenge
  /\ sessions'[Len(sessions) + 1].ceremony = req[r].ceremony
  /\ sessions'[Len(sessions) + 1].user = Subject(r)

Moves(r) ==
  /\ \A q \in Request : q # r => req'[q] = req[q]
  /\ Withdraws(r) \/ Claims(r) \/ Rereads(r) \/ Accepts(r) \/ Spends(r) \/ SignsIn(r)

LEMMA Going ==
  ASSUME Shape, NEW r \in Request
  PROVE  /\ \A at : Goto(r, at) => /\ req'[r].at = at
                                   /\ req'[r].ceremony = req[r].ceremony
                                   /\ req'[r].challenge = req[r].challenge
                                   /\ req'[r].id = req[r].id
                                   /\ \A q \in Request : q # r => req'[q] = req[q]
         /\ Finish(r) => /\ req'[r].at = "idle"
                         /\ \A q \in Request : q # r => req'[q] = req[q]
<1>1. req \in [Request -> Locals] /\ req[r] \in Locals
  BY DEF Shape, Requests
<1>2. ASSUME NEW at, Goto(r, at)
      PROVE  /\ req'[r].at = at /\ req'[r].ceremony = req[r].ceremony
             /\ req'[r].challenge = req[r].challenge /\ req'[r].id = req[r].id
             /\ \A q \in Request : q # r => req'[q] = req[q]
  BY <1>1, <1>2 DEF Goto, Locals
<1>3. ASSUME Finish(r)
      PROVE  /\ req'[r].at = "idle"
             /\ \A q \in Request : q # r => req'[q] = req[q]
  BY <1>1, <1>3 DEF Finish, NoLocals
<1> QED
  BY <1>2, <1>3

LEMMA RequestSteps ==
  ASSUME Shape, \A r \in Request : Assured(r), NEW r \in Request,
         Enrol(r) \/ FinishLogin(r) \/ Abort(r)
  PROVE  Moves(r)
<1>1. req \in [Request -> Locals] /\ req[r] \in Locals /\ Fits(r)
  BY DEF Shape, Requests
<1>2. ASSUME NEW c \in DOMAIN ceremonies, NEW d \in Device, FinishRegistration(r, c, d)
      PROVE  Moves(r)
  BY <1>1, <1>2 DEF FinishRegistration, Moves, Withdraws, Locals
<1>3. CASE InsertPasskey(r) \/ RecordFailure(r) \/ Abort(r)
  <2>1. Finish(r) /\ UNCHANGED sessions
    BY <1>3 DEF InsertPasskey, RecordFailure, Abort
  <2> QED
    BY <2>1, Going DEF Moves, Withdraws
<1>4. ASSUME NEW c \in DOMAIN challenges, NEW a \in assertions, Present(r, c, a) PROVE Moves(r)
  BY <1>1, <1>4 DEF Present, Moves, Withdraws, Locals
<1>5. CASE ClaimCeremony(r)
  <2>1. \/ Goto(r, "reject")
        \/ Goto(r, "reread") /\ ~ceremonies[req[r].ceremony].consumed
    BY <1>5, ClaimCeremonyShape
  <2>2. UNCHANGED sessions /\ req[r].at = "claim"
    BY <1>5 DEF ClaimCeremony
  <2> QED
    BY <1>1, <2>1, <2>2, Going DEF Moves, Withdraws, Claims, Same, Fits
<1>6. CASE Reread(r)
  <2>1. \/ Goto(r, "reject")
        \/ /\ req'[r].at = "write" /\ req'[r].ceremony = req[r].ceremony
           /\ req'[r].challenge = req[r].challenge
           /\ req'[r].id \in DOMAIN rows /\ rows[req'[r].id] = Subject(r)
    BY <1>6, RereadShape
  <2>2. UNCHANGED sessions /\ req[r].at = "reread"
    BY <1>6 DEF Reread
  <2>3. \A q \in Request : q # r => req'[q] = req[q]
    BY <1>1, <1>6, Going DEF Reread
  <2> QED
    BY <1>1, <2>1, <2>2, <2>3, Going DEF Moves, Withdraws, Rereads, Fits
<1>7. CASE StoreCounter(r)
  <2>1. Goto(r, "consume") /\ req[r].at = "write" /\ UNCHANGED <<sessions, rows>>
    BY <1>7 DEF StoreCounter
  <2>2. req[r].id \in DOMAIN rows
    BY <2>1 DEF Assured
  <2>3. /\ Len(accepted) + 1 \in DOMAIN accepted'
        /\ accepted'[Len(accepted) + 1].by.ceremony = req[r].ceremony
        /\ accepted'[Len(accepted) + 1].row = req[r].id
    BY <1>7, <2>2, StoreCounterShape
  <2> QED
    BY <1>1, <2>1, <2>3, Going DEF Moves, Accepts, Same, Fits
<1>8. CASE Consume(r)
  <2>1. \/ Finish(r)
        \/ /\ Goto(r, "open") /\ ~challenges[req[r].challenge].consumed
           /\ challenges'[req[r].challenge].consumed
    BY <1>8, ConsumeShape
  <2>2. UNCHANGED sessions /\ req[r].at = "consume"
    BY <1>8 DEF Consume
  <2> QED
    BY <1>1, <2>1, <2>2, Going DEF Moves, Withdraws, Spends, Same, Fits
<1>9. CASE OpenSession(r)
  <2>1. Finish(r) /\ req[r].at = "open"
    BY <1>9 DEF OpenSession
  <2> QED
    BY <1>9, <2>1, Going, OpenSessionShape DEF Moves, SignsIn
<1> QED
  BY <1>2, <1>3, <1>4, <1>5, <1>6, <1>7, <1>8, <1>9 DEF Enrol, FinishLogin

LEMMA NextMoves ==
  ASSUME Shape, \A r \in Request : Assured(r), [Next]_vars
  PROVE  UNCHANGED <<req, sessions>> \/ \E r \in Request : Moves(r)
BY RequestSteps DEF Next, vars, IssueChallenge, BeginRegistration, BeginAuthentication, Remove,
     Sign, Tick

-----------------------------------------------------------------------------
(* What a request has made sure of stays so, and it goes on only on what   *)
(* it has made sure of.                                                    *)
LEMMA ProvedStays ==
  ASSUME Shape, Standing, NEW c, NEW u, Proved(c, u)
  PROVE  Proved(c, u)'
<1>1. PICK n \in DOMAIN accepted : accepted[n].by.ceremony = c /\ rows[accepted[n].row] = u
  BY DEF Proved
<1>2. accepted[n] \in [by : Assertion, row : DOMAIN rows]
  <2>1. accepted \in Seq([by : Assertion, row : DOMAIN rows])
    BY DEF Shape, Tables
  <2> QED
    BY <2>1, Member
<1>3. accepted[n].row \in DOMAIN rows
  BY <1>2
<1> QED
  BY <1>1, <1>3 DEF Proved, Standing

LEMMA SameAssured ==
  ASSUME Shape, Standing, NEW r \in Request, Assured(r), req'[r] = req[r]
  PROVE  Assured(r)'
<1>1. Fits(r)
  BY DEF Shape, Requests
<1>2. ASSUME req[r].at \in {"consume", "open"}
      PROVE  Proved(req[r].ceremony, Subject(r))' /\ Subject(r)' = Subject(r)
  <2>1. Subject(r)' = Subject(r)
    BY <1>1, <1>2 DEF Fits, Subject, Standing
  <2>2. ASSUME NEW c, NEW u, c = req[r].ceremony, u = Subject(r) PROVE Proved(c, u)'
    BY <1>2, <2>2, ProvedStays DEF Assured
  <2> QED
    BY <2>1, <2>2 DEF Proved
<1>3. req[r].at = "write" => req'[r].id \in DOMAIN rows' /\ rows'[req'[r].id] = Subject(r)'
  BY <1>1 DEF Assured, Fits, Subject, Standing
<1>4. Opens(r)' => challenges'[req'[r].challenge].consumed
  BY <1>1 DEF Assured, Fits, Opens, Standing
<1> QED
  BY <1>2, <1>3, <1>4 DEF Assured

LEMMA MovedAssured ==
  ASSUME Shape, Standing, NEW r \in Request, Assured(r), Moves(r)
  PROVE  Assured(r)'
<1>1. CASE Withdraws(r) \/ Claims(r) \/ SignsIn(r)
  BY <1>1 DEF Assured, Opens, Withdraws, Claims, SignsIn
<1>2. CASE Rereads(r)
  BY <1>2 DEF Assured, Opens, Rereads, Subject, Standing
<1>3. CASE Accepts(r)
  <2>1. Subject(r)' = Subject(r)
    BY <1>3 DEF Accepts, Same, Subject, Standing
  <2>2. rows'[req[r].id] = Subject(r)
    BY <1>3 DEF Accepts, Assured
  <2>3. Proved(req[r].ceremony, Subject(r))'
    BY <1>3, <2>1, <2>2 DEF Accepts, Same, Proved
  <2> QED
    BY <1>3, <2>3 DEF Accepts, Same, Assured, Opens
<1>4. CASE Spends(r)
  <2>1. Subject(r)' = Subject(r)
    BY <1>4 DEF Spends, Same, Subject, Standing
  <2>2. ASSUME NEW c, NEW u, c = req[r].ceremony, u = Subject(r) PROVE Proved(c, u)'
    BY <1>4, <2>2, ProvedStays DEF Assured, Spends
  <2>3. Proved(req[r].ceremony, Subject(r))'
    BY <1>4, <2>1, <2>2 DEF Proved, Spends, Same
  <2> QED
    BY <1>4, <2>3 DEF Spends, Same, Assured, Opens
<1> QED
  BY <1>1, <1>2, <1>3, <1>4 DEF Moves

LEMMA AssuredHolds ==
  ASSUME Shape, Standing, \A r \in Request : Assured(r),
         UNCHANGED <<req, sessions>> \/ \E r \in Request : Moves(r)
  PROVE  \A r \in Request : Assured(r)'
<1>1. CASE UNCHANGED <<req, sessions>>
  BY <1>1, SameAssured
<1>2. ASSUME NEW r \in Request, Moves(r) PROVE \A q \in Request : Assured(q)'
  BY <1>2, SameAssured, MovedAssured DEF Moves
<1> QED
  BY <1>1, <1>2

(* A request gets hold of a ceremony or a challenge only by spending it.   *)
LEMMA HoldingMoves ==
  ASSUME Shape, NEW r \in Request, Moves(r)
  PROVE  /\ Holds(r)' => /\ req'[r].ceremony = req[r].ceremony
                         /\ \/ Holds(r)
                            \/ ~ceremonies[req[r].ceremony].consumed
         /\ Opens(r)' => /\ req'[r].challenge = req[r].challenge
                         /\ ~challenges[req[r].challenge].consumed
BY DEF Moves, Holds, Opens, Withdraws, Claims, Rereads, Accepts, Spends, SignsIn, Same

LEMMA ApartHolds ==
  ASSUME Shape, Apart, \A r \in Request : Assured(r),
         UNCHANGED <<req, sessions>> \/ \E r \in Request : Moves(r)
  PROVE  Apart'
<1>1. CASE UNCHANGED <<req, sessions>>
  BY <1>1 DEF Apart, Holds, Opens
<1>2. ASSUME NEW r \in Request, Moves(r) PROVE Apart'
  <2>1. \A q \in Request : q # r => /\ req'[q] = req[q]
                                    /\ Holds(q)' <=> Holds(q)
                                    /\ Opens(q)' <=> Opens(q)
    BY <1>2 DEF Moves, Holds, Opens
  <2>2. \A q \in Request : Holds(q) => ceremonies[req[q].ceremony].consumed
    BY DEF Shape, Requests, Fits
  <2>3. \A q \in Request : Opens(q) => challenges[req[q].challenge].consumed
    BY DEF Assured
  <2>4. ASSUME NEW q \in Request, q # r
        PROVE  /\ Holds(r)' /\ Holds(q)' => req'[r].ceremony # req'[q].ceremony
               /\ Opens(r)' /\ Opens(q)' => req'[r].challenge # req'[q].challenge
    BY <1>2, <2>1, <2>2, <2>3, <2>4, HoldingMoves DEF Apart
  <2> QED
    BY <2>1, <2>4 DEF Apart
<1> QED
  BY <1>1, <1>2

LEMMA UsedUpHolds ==
  ASSUME Shape, Standing, Apart, UsedUp, \A r \in Request : Assured(r),
         UNCHANGED <<req, sessions>> \/ \E r \in Request : Moves(r)
  PROVE  UsedUp'
<1>1. CASE UNCHANGED <<req, sessions>>
  BY <1>1 DEF UsedUp, Standing, Holds, Opens
<1>2. ASSUME NEW r \in Request, Moves(r) PROVE UsedUp'
  <2>1. \A q \in Request : q # r => /\ req'[q] = req[q]
                                    /\ Holds(q)' <=> Holds(q)
                                    /\ Opens(q)' <=> Opens(q)
    BY <1>2 DEF Moves, Holds, Opens
  <2>2. ASSUME NEW i \in DOMAIN sessions, sessions'[i] = sessions[i]
        PROVE  /\ sessions'[i].ceremony \in DOMAIN ceremonies'
               /\ ceremonies'[sessions'[i].ceremony].consumed
               /\ sessions'[i].challenge \in DOMAIN challenges'
               /\ challenges'[sessions'[i].challenge].consumed
               /\ \A q \in Request :
                    /\ Holds(q)' => req'[q].ceremony # sessions'[i].ceremony
                    /\ Opens(q)' => req'[q].challenge # sessions'[i].challenge
    <3>1. /\ sessions'[i].ceremony \in DOMAIN ceremonies'
          /\ ceremonies'[sessions'[i].ceremony].consumed
          /\ sessions'[i].challenge \in DOMAIN challenges'
          /\ challenges'[sessions'[i].challenge].consumed
      BY <2>2 DEF UsedUp, Standing
    <3>2. ASSUME NEW q \in Request, q # r
          PROVE  /\ Holds(q)' => req'[q].ceremony # sessions'[i].ceremony
                 /\ Opens(q)' => req'[q].challenge # sessions'[i].challenge
      BY <2>1, <2>2, <3>2 DEF UsedUp
    <3>3. /\ Holds(r)' => req'[r].ceremony # sessions'[i].ceremony
          /\ Opens(r)' => req'[r].challenge # sessions'[i].challenge
      BY <1>2, <2>2, HoldingMoves DEF UsedUp
    <3> QED
      BY <3>1, <3>2, <3>3
  <2>3. CASE UNCHANGED sessions
    BY <2>2, <2>3 DEF UsedUp
  <2>4. CASE SignsIn(r)
    <3> DEFINE n == Len(sessions) + 1
    <3>1. /\ req[r].ceremony \in DOMAIN ceremonies /\ ceremonies[req[r].ceremony].consumed
          /\ req[r].challenge \in DOMAIN challenges /\ challenges[req[r].challenge].consumed
          /\ Holds(r) /\ Opens(r) /\ ~Holds(r)' /\ ~Opens(r)'
      BY <2>4 DEF SignsIn, Shape, Requests, Fits, Holds, Opens, Assured
    <3>2. sessions'[n].ceremony = req[r].ceremony /\ sessions'[n].challenge = req[r].challenge
      BY <2>4 DEF SignsIn
    <3>3. /\ sessions'[n].ceremony \in DOMAIN ceremonies'
          /\ ceremonies'[sessions'[n].ceremony].consumed
          /\ sessions'[n].challenge \in DOMAIN challenges'
          /\ challenges'[sessions'[n].challenge].consumed
      BY <3>1, <3>2 DEF Standing
    <3>4. \A q \in Request :
            /\ Holds(q)' => req'[q].ceremony # sessions'[n].ceremony
            /\ Opens(q)' => req'[q].challenge # sessions'[n].challenge
      BY <2>1, <3>1, <3>2 DEF Apart
    <3> HIDE DEF n
    <3>5. DOMAIN sessions' = DOMAIN sessions \cup {n}
          /\ \A i \in DOMAIN sessions : sessions'[i] = sessions[i]
      BY <2>4 DEF SignsIn, n
    <3> QED
      BY <2>2, <3>3, <3>4, <3>5 DEF UsedUp
  <2> QED
    BY <1>2, <2>3, <2>4 DEF Moves, Withdraws, Claims, Rereads, Accepts, Spends
<1> QED
  BY <1>1, <1>2

(* What stands behind a session.                                           *)
Behind(i) ==
  /\ sessions[i].user = ceremonies[sessions[i].ceremony].user
  /\ Proved(sessions[i].ceremony, sessions[i].user)

LEMMA BehindMeans == SessionBehindAssertion <=> \A i \in DOMAIN sessions : Behind(i)
BY DEF SessionBehindAssertion, Behind, Proved

LEMMA BehindMeansNext ==
  SessionBehindAssertion' <=> \A i \in DOMAIN sessions' : Behind(i)'
BY DEF SessionBehindAssertion, Behind, Proved

(* Sessions stay apart, and what stands behind one stands.                 *)
LEMMA SessionsHold ==
  ASSUME Shape, Standing, UsedUp, SessionsProven, \A r \in Request : Assured(r),
         UNCHANGED <<req, sessions>> \/ \E r \in Request : Moves(r)
  PROVE  SessionsProven'
<1>1. ASSUME NEW i \in DOMAIN sessions, sessions'[i] = sessions[i]
      PROVE  Behind(i)'
  <2>1. sessions'[i].user = ceremonies'[sessions'[i].ceremony].user
    BY <1>1, BehindMeans DEF UsedUp, SessionsProven, Behind, Standing
  <2>2. ASSUME NEW c, NEW u, c = sessions[i].ceremony, u = sessions[i].user
        PROVE  Proved(c, u)'
    BY <2>2, ProvedStays, BehindMeans DEF SessionsProven, Behind
  <2> QED
    BY <1>1, <2>1, <2>2 DEF Proved, Behind
<1>2. CASE UNCHANGED sessions
  <2>1. SessionBehindAssertion'
    BY <1>1, <1>2, BehindMeansNext
  <2>2. CeremonyOpensOneSession'
    BY <1>2 DEF SessionsProven, CeremonyOpensOneSession
  <2> QED
    BY <2>1, <2>2 DEF SessionsProven
<1>3. ASSUME NEW r \in Request, SignsIn(r), NEW n, n = Len(sessions) + 1 PROVE SessionsProven'
  <2>1. /\ Holds(r) /\ Opens(r) /\ req[r].ceremony \in DOMAIN ceremonies
        /\ req[r].challenge \in DOMAIN challenges
        /\ Subject(r) = ceremonies[req[r].ceremony].user
        /\ Proved(req[r].ceremony, Subject(r))
    BY <1>3 DEF SignsIn, Shape, Requests, Fits, Holds, Opens, Assured, Subject
  <2>2. /\ sessions'[n].ceremony = req[r].ceremony /\ sessions'[n].challenge = req[r].challenge
        /\ sessions'[n].user = Subject(r)
    BY <1>3 DEF SignsIn
  <2>3. sessions'[n].user = ceremonies'[sessions'[n].ceremony].user
    BY <2>1, <2>2 DEF Standing
  <2>4. ASSUME NEW c, NEW u, c = req[r].ceremony, u = Subject(r) PROVE Proved(c, u)'
    BY <2>1, <2>4, ProvedStays
  <2>5. Behind(n)'
    BY <2>2, <2>3, <2>4 DEF Behind, Proved
  <2>6. \A i \in DOMAIN sessions :
          sessions[i].ceremony # sessions'[n].ceremony /\ sessions[i].challenge # sessions'[n].challenge
    BY <2>1, <2>2 DEF UsedUp
  <2>7. /\ DOMAIN sessions' = DOMAIN sessions \cup {n} /\ n \notin DOMAIN sessions
        /\ \A i \in DOMAIN sessions : sessions'[i] = sessions[i]
    BY <1>3 DEF SignsIn
  <2>8. \A i \in DOMAIN sessions' : Behind(i)'
    BY <1>1, <2>5, <2>7
  <2>9. CeremonyOpensOneSession'
    BY <2>6, <2>7 DEF SessionsProven, CeremonyOpensOneSession
  <2> QED
    BY <2>8, <2>9, BehindMeansNext DEF SessionsProven
<1> QED
  BY <1>2, <1>3 DEF Moves, Withdraws, Claims, Rereads, Accepts, Spends

-----------------------------------------------------------------------------
LEMMA InitIInv == Init => IInv
<1> SUFFICES ASSUME Init PROVE IInv
  OBVIOUS
<1>1. Shape
  BY InitShape
<1>2. \A r \in Request : req[r].at = "idle"
  BY DEF Init, NoLocals
<1>3. (\A r \in Request : Assured(r)) /\ Apart
  BY <1>2 DEF Assured, Apart, Holds, Opens
<1>4. UsedUp /\ SessionsProven
  BY DEF Init, UsedUp, SessionsProven, CeremonyOpensOneSession, SessionBehindAssertion
<1> QED
  BY <1>1, <1>3, <1>4 DEF IInv

LEMMA NextIInv == IInv /\ [Next]_vars => IInv'
<1> SUFFICES ASSUME IInv, [Next]_vars PROVE IInv'
  OBVIOUS
<1>1. Standing /\ Shape'
  BY NextShape DEF IInv
<1>2. UNCHANGED <<req, sessions>> \/ \E r \in Request : Moves(r)
  BY NextMoves DEF IInv
<1>3. \A r \in Request : Assured(r)'
  BY <1>1, <1>2, AssuredHolds DEF IInv
<1>4. Apart' /\ UsedUp' /\ SessionsProven'
  BY <1>1, <1>2, ApartHolds, UsedUpHolds, SessionsHold DEF IInv
<1> QED
  BY <1>1, <1>3, <1>4 DEF IInv

LEMMA Invariance == Spec => []IInv
BY InitIInv, NextIInv, PTL DEF Spec

(* The variables keep their types, and a request that has claimed a        *)
(* ceremony holds a claimed one of the user of its login challenge.        *)
THEOREM Typing == Spec => []TypeOK
<1>1. IInv => TypeOK
  BY ShapeTypes DEF IInv
<1> QED
  BY <1>1, Invariance, PTL

(* However many requests present an assertion, to however many challenges  *)
(* and in whatever order their statements fall, a ceremony and a challenge *)
(* open one session, and an accepted assertion by a passkey of its user    *)
(* stands behind it (passkey.rs finish_authentication, claim_ceremony).    *)
THEOREM SessionsAreProven == Spec => []SessionsProven
<1>1. IInv => SessionsProven
  BY DEF IInv
<1> QED
  BY <1>1, Invariance, PTL

-----------------------------------------------------------------------------
LEMMA CounterFalls ==
  ASSUME Shape, NEW k \in Key, Falls(k), [Next]_vars
  PROVE  \E r \in Request : Overtaken(r) /\ req[r].key = k
<1>1. passkeys \in [Key -> {NoRow} \cup Row] /\ passkeys[k] \in Row
  BY DEF Shape, Tables, Falls
<1>2. passkeys[k].id \in Nat \ {0} /\ passkeys[k].counter \in Nat
  BY <1>1 DEF Row
<1>3. passkeys' # passkeys
  BY <1>2 DEF Falls
<1>4. ASSUME NEW j \in Key, Remove(j) PROVE FALSE
  <2>1. CASE j = k
    BY <1>1, <1>2, <1>4, <2>1 DEF Remove, Falls, NoRow
  <2>2. CASE j # k
    BY <1>1, <1>2, <1>4, <2>2 DEF Remove, Falls
  <2> QED
    BY <2>1, <2>2
<1>5. ASSUME NEW r \in Request, InsertPasskey(r) PROVE FALSE
  <2>1. passkeys[req[r].key] = NoRow /\ req[r].key # k
    BY <1>3, <1>5 DEF InsertPasskey, Falls
  <2>2. passkeys'[k] = passkeys[k]
    BY <1>1, <1>5, <2>1 DEF InsertPasskey
  <2> QED
    BY <1>2, <2>2 DEF Falls
<1>6. ASSUME NEW r \in Request, StoreCounter(r)
      PROVE  Overtaken(r) /\ req[r].key = k
  <2>1. /\ req[r] \in Locals /\ req[r].counter \in Nat /\ req[r].read \in Nat
    BY DEF Shape, Requests, Locals
  <2>2. /\ req[r].counter > req[r].read
        /\ passkeys' = [passkeys EXCEPT ![req[r].key].counter = req[r].counter]
    BY <1>3, <1>6 DEF StoreCounter
  <2>3. req[r].key = k
    BY <1>1, <1>2, <2>2 DEF Falls
  <2>4. passkeys'[k].counter = req[r].counter
    BY <1>1, <2>2, <2>3 DEF Row
  <2>5. req[r].read # passkeys[k].counter
    BY <1>2, <2>1, <2>2, <2>4 DEF Falls
  <2> QED
    BY <1>6, <2>3, <2>5 DEF Overtaken
<1>7. \/ \E j \in Key : Remove(j)
      \/ \E r \in Request : InsertPasskey(r) \/ StoreCounter(r)
  BY <1>3 DEF Next, vars, IssueChallenge, BeginRegistration, BeginAuthentication, Sign, Enrol,
     FinishRegistration, FinishLogin, Present, ClaimCeremony, Reread, RecordFailure, Consume,
     OpenSession, Abort, Tick
<1> QED
  BY <1>4, <1>5, <1>6, <1>7

(* A stored counter falls only in the write of a request whose reading of  *)
(* the row another request has overtaken (passkey.rs                       *)
(* finish_authentication).                                                 *)
THEOREM CountersRise == Spec => FallsOnlyWhenOvertaken
<1>1. IInv /\ [Next]_vars =>
        [\A k \in Key : Falls(k) => \E r \in Request : Overtaken(r) /\ req[r].key = k]_vars
  BY CounterFalls DEF IInv
<1> QED
  BY <1>1, Invariance, PTL DEF Spec, FallsOnlyWhenOvertaken
=============================================================================
