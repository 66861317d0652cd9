------------------------- MODULE AuthorizationProofs -------------------------
(***************************************************************************)
(* Proofs about the authorization endpoint: the typing of its state, that  *)
(* a code stands for an approval of an account that could give it, that    *)
(* what is recorded was shown, and that administrators' changes reach the  *)
(* registration they read.                                                 *)
(***************************************************************************)
EXTENDS Authorization, TLAPS

(* Who a session belongs to is known from the moment something names it,   *)
(* and a request in progress knows its session and its client.             *)
Known ==
  /\ \A b \in Browser : cookie[b] # 0 => sessions[cookie[b]].user # None
  /\ \A b \in Browser : pages[b] # None => sessions[pages[b].session].user # None
  /\ \A r \in Request : ~At(r, "idle") =>
       /\ requests[r].session # 0 /\ requests[r].key # NoKey
       /\ UserOf(r) # None /\ requests[r].key <= lastKey

(* No two clients are one registration, and none is ahead of the counter.  *)
KeysOnce ==
  /\ \A c \in Client : Exists(c) => clients[c].key <= lastKey
  /\ \A c, d \in Client : Exists(c) /\ Exists(d) /\ clients[c].key = clients[d].key => c = d

(* An administrator's request between its two statements: what it read is  *)
(* a registration there has been, with a secret if it is to be rotated.    *)
Aimed ==
  \A a \in Admin : ops[a].at # "idle" =>
    /\ ops[a].client \in Client /\ ops[a].key \in Key /\ ops[a].key <= lastKey
    /\ ops[a].at = "update" => ops[a].change \in Change
    /\ ops[a].at = "rotate" /\ Target(a) => ~clients[ops[a].client].public

Shape == TypeOK /\ Known /\ KeysOnce /\ Aimed

-----------------------------------------------------------------------------
LEMMA InitShape == Init => Shape
<1> SUFFICES ASSUME Init PROVE Shape
  OBVIOUS
<1> USE AuthorizationAssumption
<1>1. PICK reg \in Registration, e \in Client :
        clients = [d \in Client |-> IF d = e THEN Registered(reg, 1) ELSE None]
  BY DEF Init
<1>2. /\ reg.scopes \in SUBSET Scope /\ reg.public \in BOOLEAN /\ reg.consent \in BOOLEAN
  OBVIOUS
<1>3. 1 \in Key
  BY DEF Key
<1>4. Registered(reg, 1) \in ClientRow
  BY <1>2, <1>3 DEF Registered, ClientRow
<1>5. Registered(reg, 1).public <=> Registered(reg, 1).secret = 0
  BY <1>2 DEF Registered
<1>6. NoLocals \in Locals
  BY DEF NoLocals, Locals, NoKey
<1>7. NoOp \in Op
  BY DEF NoOp, Op, NoKey
<1>8. Registered(reg, 1).key = 1
  BY DEF Registered
<1>9. \A c \in Client : /\ clients[c] \in ClientRow \cup {None}
                        /\ clients[c] # None => c = e
                        /\ clients[c] # None => (clients[c].public <=> clients[c].secret = 0)
                        /\ clients[c] # None => clients[c].key = 1
  BY <1>1, <1>4, <1>5, <1>8
<1>10. TypeOK
  BY <1>1, <1>3, <1>6, <1>7, <1>9 DEF Init, TypeOK, Key, SessionId
<1>11. Known
  BY DEF Init, Known, At, NoLocals
<1>12. KeysOnce
  BY <1>9 DEF Init, KeysOnce, Exists
<1>13. Aimed
  BY DEF Init, Aimed, NoOp
<1> QED
  BY <1>10, <1>11, <1>12, <1>13 DEF Shape

(* A request that goes on keeps what it carries.                           *)
LEMMA RequestTypes ==
  ASSUME Shape, NEW r \in Request
  PROVE  /\ requests[r] \in Locals
         /\ ~At(r, "idle") => /\ UserOf(r) \in User /\ requests[r].session \in SessionId
                              /\ requests[r].key \in Key
  BY DEF Shape, TypeOK, Known, Locals, UserOf, At

LEMMA ServeTypes ==
  ASSUME Shape, NEW r \in Request, Serve(r)
  PROVE  requests' \in [Request -> Locals]
<1>1. /\ requests \in [Request -> Locals] /\ requests[r] \in Locals
      /\ NoLocals \in Locals
  BY RequestTypes DEF Shape, TypeOK, NoLocals, Locals, NoKey
<1>2. ASSUME NEW at \in {"account", "consent", "record"}
      PROVE  [requests[r] EXCEPT !.at = at] \in Locals
  BY <1>1 DEF Locals
<1>3. [requests[r] EXCEPT !.at = "code", !.page = None, !.registered = {}] \in Locals
  BY <1>1 DEF Locals
<1>4. \/ Finish(r) \/ ReadyForCode(r)
      \/ Goto(r, "account") \/ Goto(r, "consent") \/ Goto(r, "record")
  BY DEF Serve, ReadSession, ReadAccount, CheckConsent, RecordConsent, IssueCode, Abort
<1>5. CASE Finish(r)
  BY <1>1, <1>5 DEF Finish
<1>6. CASE ReadyForCode(r)
  BY <1>1, <1>3, <1>6 DEF ReadyForCode
<1>7. ASSUME NEW at \in {"account", "consent", "record"}, Goto(r, at)
      PROVE  requests' \in [Request -> Locals]
  BY <1>1, <1>2, <1>7 DEF Goto
<1> QED
  BY <1>4, <1>5, <1>6, <1>7

LEMMA ValidatedTypes ==
  ASSUME Shape, NEW b \in Browser, NEW c \in Client, NEW asked \in SUBSET Scope,
         NEW page \in Page \cup {None}, cookie[b] # 0, Valid(c, asked)
  PROVE  /\ Validated(b, c, asked, page) \in Locals
         /\ Validated(b, c, asked, page).session # 0
         /\ Validated(b, c, asked, page).key # NoKey
         /\ Validated(b, c, asked, page).key <= lastKey
         /\ sessions[Validated(b, c, asked, page).session].user # None
<1>1. /\ clients[c] \in ClientRow /\ clients[c].key \in Key
      /\ clients[c].scopes \in SUBSET Scope /\ clients[c].consent \in BOOLEAN
      /\ clients[c].key <= lastKey
  BY DEF Shape, TypeOK, KeysOnce, Valid, Exists, ClientRow
<1>2. cookie[b] \in SessionId /\ sessions[cookie[b]].user # None
  BY DEF Shape, TypeOK, Known
<1>3. Resolved(asked, clients[c].scopes) \in SUBSET Scope
  BY <1>1 DEF Resolved
<1>4. clients[c].key # NoKey
  BY <1>1, AuthorizationAssumption DEF Key, NoKey
<1>5. (accounts[sessions[cookie[b]].user] = "enabled") \in BOOLEAN
  OBVIOUS
<1> QED
  BY <1>1, <1>2, <1>3, <1>4, <1>5 DEF Validated, Locals

(* Arrivals at the endpoint: of a client's request, and of the form.       *)
LEMMA ArrivalShape ==
  ASSUME Shape, NEW r \in Request, NEW b \in Browser, NEW c \in Client,
         NEW asked \in SUBSET Scope, NEW page \in Page \cup {None},
         cookie[b] # 0, Valid(c, asked), Counted,
         requests' = [requests EXCEPT ![r] = Validated(b, c, asked, page)],
         Elsewhere, UNCHANGED <<consents, codes>>
  PROVE  Shape'
<1> DEFINE e == Validated(b, c, asked, page)
<1>1. /\ e \in Locals /\ e.session # 0 /\ e.key # NoKey /\ e.key <= lastKey
      /\ sessions[e.session].user # None
  BY ValidatedTypes
<1> HIDE DEF e
<1>2. requests \in [Request -> Locals]
  BY DEF Shape, TypeOK
<1>3. events' \in 0 .. MaxEvents
  BY AuthorizationAssumption DEF Counted, Shape, TypeOK
<1>4. TypeOK'
  BY <1>1, <1>2, <1>3 DEF e, Shape, TypeOK, Elsewhere
<1>5. Known'
  <2>1. ASSUME NEW q \in Request, ~At(q, "idle")'
        PROVE  /\ requests'[q].session # 0 /\ requests'[q].key # NoKey
               /\ UserOf(q)' # None /\ requests'[q].key <= lastKey
    BY <1>1, <1>2, <2>1 DEF e, Shape, Known, At, UserOf, Elsewhere
  <2> QED
    BY <2>1 DEF Shape, Known, Elsewhere
<1>6. KeysOnce' /\ Aimed'
  BY DEF Shape, KeysOnce, Aimed, Target, Exists, Elsewhere
<1> QED
  BY <1>4, <1>5, <1>6 DEF Shape

(* The statements of a request.                                            *)
LEMMA ServeShape ==
  ASSUME Shape, NEW r \in Request, Serve(r)
  PROVE  Shape'
<1>1. /\ requests \in [Request -> Locals] /\ requests[r] \in Locals
      /\ requests' \in [Request -> Locals]
  BY RequestTypes, ServeTypes DEF Shape, TypeOK
<1>2. Elsewhere /\ Uncounted
  BY DEF Serve, ReadSession, ReadAccount, CheckConsent, RecordConsent, IssueCode, Abort
<1>3. consents' \in [User -> [Key -> SUBSET Scope]]
  <2>1. CASE UNCHANGED consents
    BY <2>1 DEF Shape, TypeOK
  <2>2. CASE RecordConsent(r)
    <3>1. /\ UserOf(r) \in User /\ requests[r].key \in Key /\ requests[r].scopes \in SUBSET Scope
          /\ consents \in [User -> [Key -> SUBSET Scope]]
      BY <1>1, <2>2, RequestTypes DEF RecordConsent, At, Locals, Shape, TypeOK
    <3> QED
      BY <2>2, <3>1 DEF RecordConsent, Together
  <2> QED
    BY <2>1, <2>2 DEF Serve, ReadSession, ReadAccount, CheckConsent, IssueCode, Abort
<1>4. codes' \subseteq Code
  <2>1. CASE UNCHANGED codes
    BY <2>1 DEF Shape, TypeOK
  <2>2. CASE IssueCode(r)
    <3>1. /\ UserOf(r) \in User /\ requests[r].key \in Key /\ requests[r].scopes \in SUBSET Scope
          /\ requests[r].consent \in BOOLEAN /\ codes \subseteq Code
      BY <1>1, <2>2, RequestTypes DEF IssueCode, At, Locals, Shape, TypeOK
    <3> QED
      BY <2>2, <3>1 DEF IssueCode, Code
  <2> QED
    BY <2>1, <2>2 DEF Serve, ReadSession, ReadAccount, CheckConsent, RecordConsent, Abort
<1>5. TypeOK'
  BY <1>1, <1>2, <1>3, <1>4 DEF Shape, TypeOK, Elsewhere, Uncounted
<1>6. Known'
  <2>1. ASSUME NEW q \in Request, ~At(q, "idle")'
        PROVE  /\ requests'[q].session # 0 /\ requests'[q].key # NoKey
               /\ UserOf(q)' # None /\ requests'[q].key <= lastKey
    <3>1. \/ Finish(r) \/ ReadyForCode(r)
          \/ Goto(r, "account") \/ Goto(r, "consent") \/ Goto(r, "record")
      BY DEF Serve, ReadSession, ReadAccount, CheckConsent, RecordConsent, IssueCode, Abort
    <3>2. ~At(q, "idle") /\ requests'[q].session = requests[q].session
          /\ requests'[q].key = requests[q].key
      <4>1. ~At(r, "idle")
        BY DEF Serve, ReadSession, ReadAccount, CheckConsent, RecordConsent, IssueCode, Abort, At
      <4>2. q = r => ~Finish(r)
        BY <1>1, <2>1 DEF Finish, At, NoLocals
      <4>3. q # r => requests'[q] = requests[q]
        BY <1>1, <3>1 DEF Finish, ReadyForCode, Goto
      <4>4. q = r => requests'[q].session = requests[q].session
                     /\ requests'[q].key = requests[q].key
        BY <1>1, <3>1, <4>2 DEF ReadyForCode, Goto, Locals
      <4> QED
        BY <2>1, <4>1, <4>3, <4>4 DEF At
    <3> QED
      BY <1>2, <3>2 DEF Shape, Known, UserOf, Elsewhere
  <2> QED
    BY <1>2, <2>1 DEF Shape, Known, Elsewhere
<1>7. KeysOnce' /\ Aimed'
  BY <1>2 DEF Shape, KeysOnce, Aimed, Target, Exists, Elsewhere
<1> QED
  BY <1>5, <1>6, <1>7 DEF Shape

(* Browsers: the consent page, logins and the ends of sessions.            *)
LEMMA OpenPageShape ==
  ASSUME Shape, NEW b \in Browser, NEW c \in Client, NEW asked \in SUBSET Scope, OpenPage(b, c, asked)
  PROVE  Shape'
<1>1. /\ clients[c] \in ClientRow /\ cookie[b] \in SessionId
      /\ sessions[cookie[b]].user # None
  BY DEF OpenPage, Signed, Exists, Shape, TypeOK, Known
<1>2. [client |-> c, asked |-> asked, key |-> clients[c].key,
       registered |-> clients[c].scopes, session |-> cookie[b]] \in Page
  BY <1>1 DEF Page, ClientRow
<1>3. TypeOK'
  BY <1>2 DEF OpenPage, Shape, TypeOK
<1>4. Known'
  <2>1. ASSUME NEW d \in Browser, pages'[d] # None
        PROVE  sessions[pages'[d].session].user # None
    BY <1>1, <2>1 DEF OpenPage, Shape, TypeOK, Known
  <2> QED
    BY <2>1 DEF OpenPage, Shape, Known, At, UserOf
<1>5. KeysOnce' /\ Aimed'
  BY DEF OpenPage, Shape, KeysOnce, Aimed, Target, Exists
<1> QED
  BY <1>3, <1>4, <1>5 DEF Shape

LEMMA LoginShape ==
  ASSUME Shape, NEW b \in Browser, NEW u \in User, Login(b, u)
  PROVE  Shape'
<1>1. PICK n \in SessionId :
        /\ sessions[n].user = None
        /\ sessions' = [sessions EXCEPT ![n] = [user |-> u, live |-> TRUE]]
        /\ cookie' = [cookie EXCEPT ![b] = n]
  BY DEF Login
<1>2. /\ sessions \in [SessionId -> [user : User \cup {None}, live : BOOLEAN]]
      /\ cookie \in [Browser -> SessionId \cup {0}]
  BY DEF Shape, TypeOK
<1>3. \A t \in SessionId : /\ sessions'[t] = (IF t = n THEN [user |-> u, live |-> TRUE] ELSE sessions[t])
                           /\ sessions[t].user # None => sessions'[t].user # None
  BY <1>1, <1>2
<1>4. TypeOK'
  <2>1. sessions' \in [SessionId -> [user : User \cup {None}, live : BOOLEAN]]
    BY <1>1, <1>2
  <2>2. cookie' \in [Browser -> SessionId \cup {0}]
    BY <1>1, <1>2
  <2> QED
    BY <2>1, <2>2 DEF Login, Shape, TypeOK
<1>5. Known'
  <2>1. ASSUME NEW d \in Browser, cookie'[d] # 0
        PROVE  sessions'[cookie'[d]].user # None
    BY <1>1, <1>2, <1>3, <2>1, AuthorizationAssumption DEF Shape, Known
  <2>2. ASSUME NEW d \in Browser, pages'[d] # None
        PROVE  sessions'[pages'[d].session].user # None
    <3>1. pages[d] \in Page /\ pages' = pages
      BY <2>2 DEF Login, Shape, TypeOK
    <3> QED
      BY <1>3, <2>2, <3>1 DEF Shape, Known, Page
  <2>3. ASSUME NEW r \in Request, ~At(r, "idle")'
        PROVE  /\ requests'[r].session # 0 /\ requests'[r].key # NoKey
               /\ UserOf(r)' # None /\ requests'[r].key <= lastKey'
    BY <1>3, <2>3, RequestTypes DEF Login, Shape, Known, At, UserOf
  <2> QED
    BY <2>1, <2>2, <2>3 DEF Known
<1>6. KeysOnce' /\ Aimed'
  BY DEF Login, Shape, KeysOnce, Aimed, Target, Exists
<1> QED
  BY <1>4, <1>5, <1>6 DEF Shape

LEMMA EndSessionShape ==
  ASSUME Shape, NEW s \in SessionId, EndSession(s)
  PROVE  Shape'
<1>1. sessions \in [SessionId -> [user : User \cup {None}, live : BOOLEAN]]
  BY DEF Shape, TypeOK
<1>2. /\ sessions' \in [SessionId -> [user : User \cup {None}, live : BOOLEAN]]
      /\ \A t \in SessionId : sessions'[t].user = sessions[t].user
  BY <1>1 DEF EndSession
<1>3. events' \in 0 .. MaxEvents
  BY AuthorizationAssumption DEF EndSession, Counted, Shape, TypeOK
<1>4. TypeOK'
  BY <1>2, <1>3 DEF EndSession, Shape, TypeOK
<1>5. Known'
  <2>1. \A d \in Browser : cookie[d] # 0 => cookie[d] \in SessionId
    BY DEF Shape, TypeOK
  <2>2. \A d \in Browser : pages[d] # None => pages[d].session \in SessionId
    BY DEF Shape, TypeOK, Page
  <2>3. \A r \in Request : ~At(r, "idle") => requests[r].session \in SessionId
    BY RequestTypes
  <2> QED
    BY <1>2, <2>1, <2>2, <2>3 DEF EndSession, Shape, Known, At, UserOf
<1>6. KeysOnce' /\ Aimed'
  BY DEF EndSession, Shape, KeysOnce, Aimed, Target, Exists
<1> QED
  BY <1>4, <1>5, <1>6 DEF Shape

(* Administrators and their clients.                                       *)
LEMMA RegisterShape ==
  ASSUME Shape, NEW c \in Client, NEW reg \in Registration, Register(c, reg)
  PROVE  Shape'
<1>1. /\ clients \in [Client -> ClientRow \cup {None}] /\ lastKey \in Key
       /\ requests \in [Request -> Locals] /\ MaxKeys \in Nat
  BY AuthorizationAssumption DEF Shape, TypeOK
<1>2. events' \in 0 .. MaxEvents
  BY AuthorizationAssumption DEF Register, Counted, Shape, TypeOK
<1> DEFINE row == Registered(reg, lastKey + 1)
<1>3. lastKey + 1 \in Key /\ lastKey' = lastKey + 1
  BY <1>1 DEF Register, Key
<1>4. /\ reg.scopes \in SUBSET Scope /\ reg.public \in BOOLEAN /\ reg.consent \in BOOLEAN
  BY AuthorizationAssumption
<1>5. row \in ClientRow /\ row.key = lastKey + 1 /\ (row.public <=> row.secret = 0)
  BY <1>3, <1>4 DEF Registered, ClientRow
<1> HIDE DEF row
<1>6. \A d \in Client : clients'[d] = IF d = c THEN row ELSE clients[d]
  BY <1>1 DEF Register, row
<1>7. TypeOK'
  <2>1. clients' \in [Client -> ClientRow \cup {None}]
    BY <1>1, <1>5 DEF Register, row
  <2>2. \A d \in Client : clients'[d] # None => (clients'[d].public <=> clients'[d].secret = 0)
    BY <1>5, <1>6 DEF Shape, TypeOK
  <2> QED
    BY <1>2, <1>3, <2>1, <2>2 DEF Register, Shape, TypeOK
<1>8. Known'
  <2>1. \A r \in Request : requests[r].key \in Nat
    BY <1>1 DEF Locals, Key, NoKey
  <2> QED
    BY <1>1, <1>3, <2>1 DEF Register, Shape, Known, At, UserOf, Key
<1>9. KeysOnce'
  <2>1. \A d \in Client : Exists(d) => clients[d].key <= lastKey /\ clients[d].key \in Nat
    BY <1>1 DEF Shape, KeysOnce, Exists, ClientRow, Key
  <2> QED
    BY <1>1, <1>3, <1>5, <1>6, <2>1 DEF Shape, KeysOnce, Exists, Key
<1>10. Aimed'
  BY <1>1, <1>3, <1>5, <1>6 DEF Register, Shape, Aimed, Target, Exists, Key
<1> QED
  BY <1>7, <1>8, <1>9, <1>10 DEF Shape

LEMMA ReadShape ==
  ASSUME Shape, NEW a \in Admin, NEW c \in Client, NEW at \in {"update", "rotate"},
         NEW change \in Change \cup {None}, at = "update" => change \in Change, Read(a, c, at, change)
  PROVE  Shape'
<1>1. /\ clients \in [Client -> ClientRow \cup {None}] /\ lastKey \in Key
       /\ requests \in [Request -> Locals] /\ MaxKeys \in Nat
  BY AuthorizationAssumption DEF Shape, TypeOK
<1>2. events' \in 0 .. MaxEvents
  BY AuthorizationAssumption DEF Read, Counted, Shape, TypeOK
<1>3. [at |-> at, client |-> c, key |-> clients[c].key, change |-> change] \in Op
  BY <1>1 DEF Read, Exists, Op, ClientRow
<1>4. TypeOK'
  BY <1>2, <1>3 DEF Read, Shape, TypeOK
<1>5. Aimed'
  <2>1. ASSUME NEW d \in Admin, ops'[d].at # "idle"
        PROVE  /\ ops'[d].client \in Client /\ ops'[d].key \in Key /\ ops'[d].key <= lastKey
               /\ ops'[d].at = "update" => ops'[d].change \in Change
               /\ ops'[d].at = "rotate" /\ clients[ops'[d].client].key = ops'[d].key
                  /\ clients[ops'[d].client] # None
                  => ~clients[ops'[d].client].public
    <3>1. CASE d = a
      <4>1. ops'[d] = [at |-> at, client |-> c, key |-> clients[c].key, change |-> change]
        BY <3>1 DEF Read, Shape, TypeOK
      <4>2. clients[c].key \in Key /\ clients[c].key <= lastKey
        BY <1>1 DEF Read, Exists, ClientRow, Shape, KeysOnce
      <4> QED
        BY <4>1, <4>2 DEF Read
    <3>2. CASE d # a
      BY <2>1, <3>2 DEF Read, Shape, TypeOK, Aimed, Target, Exists
    <3> QED
      BY <3>1, <3>2
  <2> QED
    BY <2>1 DEF Read, Aimed, Target, Exists
<1> QED
  BY <1>4, <1>5 DEF Read, Shape, Known, KeysOnce, Exists, At, UserOf

LEMMA DeleteShape ==
  ASSUME Shape, NEW c \in Client, Delete(c)
  PROVE  Shape'
<1>1. /\ clients \in [Client -> ClientRow \cup {None}] /\ lastKey \in Key
       /\ requests \in [Request -> Locals] /\ MaxKeys \in Nat
  BY AuthorizationAssumption DEF Shape, TypeOK
<1>2. events' \in 0 .. MaxEvents
  BY AuthorizationAssumption DEF Delete, Counted, Shape, TypeOK
<1>3. clients' = [clients EXCEPT ![c] = None]
  BY DEF Delete
<1>4. consents' \in [User -> [Key -> SUBSET Scope]]
  BY DEF Delete, Shape, TypeOK
<1>5. TypeOK'
  BY <1>1, <1>2, <1>3, <1>4 DEF Delete, Shape, TypeOK
<1>6. Known'
  BY DEF Delete, Shape, Known, At, UserOf
<1>7. KeysOnce'
  BY <1>1, <1>3 DEF Delete, Shape, KeysOnce, Exists
<1>8. Aimed'
  BY <1>1, <1>3 DEF Delete, Shape, Aimed, Target, Exists
<1> QED
  BY <1>5, <1>6, <1>7, <1>8 DEF Shape

(* What an administrator's second statement writes: the row it read, if it *)
(* is still there, with its key and kind.                                  *)
LEMMA Written ==
  ASSUME Shape, NEW a \in Admin, Write(a), clients' # clients
  PROVE  /\ Target(a) /\ ops[a].client \in Client /\ Exists(ops[a].client)
         /\ \E row \in ClientRow :
              /\ row.key = clients[ops[a].client].key
              /\ row.public = clients[ops[a].client].public
              /\ (row.public <=> row.secret = 0)
              /\ clients' = [clients EXCEPT ![ops[a].client] = row]
<1> DEFINE c == ops[a].client
           row == IF ops[a].at = "update" THEN Applied(clients[c], ops[a].change)
                  ELSE Rekeyed(clients[c])
<1>1. /\ clients \in [Client -> ClientRow \cup {None}] /\ ops[a] \in Op
  BY DEF Shape, TypeOK
<1>2. Target(a)
  BY DEF Write
<1>3. /\ c \in Client /\ clients[c] \in ClientRow
      /\ (clients[c].public <=> clients[c].secret = 0)
      /\ (ops[a].at = "update" => ops[a].change \in Change)
      /\ (ops[a].at # "update" => ~clients[c].public)
  <2>1. c \in Client /\ clients[c] # None /\ ops[a].at # "idle"
    BY <1>2 DEF Write, Target, Exists, Shape, Aimed
  <2>2. clients[c] \in ClientRow /\ ops[a].at \in {"update", "rotate"}
    BY <1>1, <2>1 DEF Op
  <2>3. clients[c].public <=> clients[c].secret = 0
    BY <2>1 DEF Shape, TypeOK
  <2>4. ops[a].at = "update" => ops[a].change \in Change
    BY <2>1 DEF Shape, Aimed
  <2>5. ops[a].at # "update" => ~clients[c].public
    BY <1>2, <2>1, <2>2 DEF Shape, Aimed
  <2> QED
    BY <2>1, <2>2, <2>3, <2>4, <2>5
<1>4. clients' = [clients EXCEPT ![c] = row]
  BY Zenon DEF Write
<1>5. /\ row \in ClientRow /\ row.key = clients[c].key /\ row.public = clients[c].public
      /\ row.public <=> row.secret = 0
  <2>1. CASE ops[a].at = "update"
    <3> DEFINE ch == ops[a].change
    <3>1. /\ ch.scopes \in (SUBSET Scope) \cup {None} /\ ch.consent \in BOOLEAN \cup {None}
      BY <1>3, <2>1, AuthorizationAssumption
    <3>3. clients[c].consent \in BOOLEAN /\ clients[c].scopes \in SUBSET Scope
      BY <1>3 DEF ClientRow
    <3>2. Or(ch.scopes, clients[c].scopes) \in SUBSET Scope
      BY <3>1, <3>3, Zenon DEF Or
    <3>4. Or(ch.consent, clients[c].consent) \in BOOLEAN
      BY <3>1, <3>3, Zenon DEF Or
    <3> QED
      BY <1>3, <2>1, <3>2, <3>4 DEF Applied, ClientRow
  <2>2. CASE ops[a].at # "update"
    BY <1>3, <2>2 DEF ClientRow, Rekeyed
  <2> QED
    BY <2>1, <2>2
<1> HIDE DEF row
<1> QED
  BY <1>2, <1>3, <1>4, <1>5 DEF Target

LEMMA WriteShape ==
  ASSUME Shape, NEW a \in Admin, Write(a)
  PROVE  Shape'
<1>1. /\ clients \in [Client -> ClientRow \cup {None}] /\ ops[a] \in Op
      /\ ops \in [Admin -> Op]
  BY DEF Shape, TypeOK
<1>2. ops' = [ops EXCEPT ![a] = NoOp] /\ NoOp \in Op
  BY DEF Write, NoOp, Op, NoKey
<1>3. \A d \in Admin : d # a => ops'[d] = ops[d]
  BY <1>1, <1>2
<1>4. ops'[a].at = "idle"
  BY <1>1, <1>2 DEF NoOp
<1>5. CASE UNCHANGED clients
  <2>1. TypeOK'
    BY <1>1, <1>2, <1>5 DEF Write, Shape, TypeOK
  <2>2. Aimed'
    BY <1>3, <1>4, <1>5 DEF Write, Shape, Aimed, Target, Exists
  <2> QED
    BY <1>5, <2>1, <2>2 DEF Write, Shape, Known, KeysOnce, Exists, At, UserOf
<1>6. CASE clients' # clients
  <2> DEFINE c == ops[a].client
  <2>1. PICK row \in ClientRow :
          /\ row.key = clients[c].key /\ row.public = clients[c].public
          /\ row.public <=> row.secret = 0
          /\ clients' = [clients EXCEPT ![c] = row]
    BY <1>6, Written
  <2>2. c \in Client /\ Exists(c)
    BY <1>6, Written
  <2>3. \A d \in Client : clients'[d] = IF d = c THEN row ELSE clients[d]
    BY <1>1, <2>1
  <2>4. TypeOK'
    <3>1. clients' \in [Client -> ClientRow \cup {None}]
      BY <1>1, <2>1
    <3>2. \A d \in Client : clients'[d] # None => (clients'[d].public <=> clients'[d].secret = 0)
      BY <2>1, <2>3 DEF Shape, TypeOK
    <3> QED
      BY <1>1, <1>2, <3>1, <3>2 DEF Write, Shape, TypeOK
  <2>5. \A d \in Client : Exists(d)' => /\ Exists(d) /\ clients'[d].key = clients[d].key
                                        /\ clients'[d].public = clients[d].public
    BY <2>1, <2>2, <2>3 DEF Exists
  <2>6. KeysOnce'
    BY <2>5 DEF Write, Shape, KeysOnce
  <2>7. Aimed'
    BY <1>3, <1>4, <2>5 DEF Write, Shape, Aimed, Target
  <2>8. Known'
    BY DEF Write, Shape, Known, At, UserOf
  <2> QED
    BY <2>4, <2>6, <2>7, <2>8 DEF Shape
<1> QED
  BY <1>5, <1>6

LEMMA AccountShape ==
  ASSUME Shape, NEW u \in User, Disable(u) \/ Enable(u) \/ DeleteUser(u)
  PROVE  Shape'
<1>1. events' \in 0 .. MaxEvents
  BY AuthorizationAssumption DEF Disable, Enable, DeleteUser, Counted, Shape, TypeOK
<1>2. /\ requests \in [Request -> Locals]
      /\ sessions \in [SessionId -> [user : User \cup {None}, live : BOOLEAN]]
      /\ accounts \in [User -> {"enabled", "disabled", "deleted"}]
  BY DEF Shape, TypeOK
<1>3. CASE Disable(u)
  <2>1. TypeOK'
    BY <1>1, <1>2, <1>3 DEF Disable, Shape, TypeOK
  <2> QED
    BY <1>3, <2>1 DEF Disable, Shape, Known, KeysOnce, Aimed, Target, Exists, At, UserOf
<1>4. CASE Enable(u)
  <2>1. ASSUME NEW r \in Request
        PROVE  /\ requests'[r] \in Locals /\ requests'[r].at = requests[r].at
               /\ requests'[r].session = requests[r].session
               /\ requests'[r].key = requests[r].key
    BY <1>2, <1>4 DEF Enable, Locals
  <2>2. requests' \in [Request -> Locals]
    BY <1>4, <2>1 DEF Enable
  <2>3. TypeOK'
    BY <1>1, <1>2, <1>4, <2>2 DEF Enable, Shape, TypeOK
  <2>4. Known'
    BY <1>4, <2>1 DEF Enable, Shape, Known, At, UserOf
  <2> QED
    BY <1>4, <2>3, <2>4 DEF Enable, Shape, KeysOnce, Aimed, Target, Exists
<1>5. CASE DeleteUser(u)
  <2>1. /\ sessions' \in [SessionId -> [user : User \cup {None}, live : BOOLEAN]]
        /\ \A s \in SessionId : sessions'[s].user = sessions[s].user
    BY <1>2, <1>5 DEF DeleteUser
  <2>2. TypeOK'
    BY <1>1, <1>2, <1>5, <2>1 DEF DeleteUser, Shape, TypeOK
  <2>3. Known'
    <3>1. \A d \in Browser : cookie[d] # 0 => cookie[d] \in SessionId
      BY DEF Shape, TypeOK
    <3>2. \A d \in Browser : pages[d] # None => pages[d].session \in SessionId
      BY DEF Shape, TypeOK, Page
    <3>3. \A r \in Request : ~At(r, "idle") => requests[r].session \in SessionId
      BY RequestTypes
    <3> QED
      BY <1>5, <2>1, <3>1, <3>2, <3>3 DEF DeleteUser, Shape, Known, At, UserOf
  <2> QED
    BY <1>5, <2>2, <2>3 DEF DeleteUser, Shape, KeysOnce, Aimed, Target, Exists
<1> QED
  BY <1>3, <1>4, <1>5

LEMMA StepShape == Shape /\ [Next]_vars => Shape'
<1> SUFFICES ASSUME Shape, [Next]_vars PROVE Shape'
  OBVIOUS
<1>1. ASSUME NEW r \in Request, NEW b \in Browser, NEW c \in Client, NEW asked \in Asking,
             Authorize(r, b, c, asked)
      PROVE  Shape'
  BY <1>1, ArrivalShape, AuthorizationAssumption DEF Authorize
<1>2. ASSUME NEW r \in Request, NEW b \in Browser, Approve(r, b) PROVE Shape'
  <2>1. pages[b] \in Page /\ pages[b].client \in Client /\ pages[b].asked \in SUBSET Scope
    BY <1>2 DEF Approve, Shape, TypeOK, Page
  <2> QED
    BY <1>2, <2>1, ArrivalShape DEF Approve
<1>3. ASSUME NEW r \in Request, Serve(r) PROVE Shape'
  BY <1>3, ServeShape
<1>4. ASSUME NEW b \in Browser, NEW c \in Client, NEW asked \in Asking, OpenPage(b, c, asked)
      PROVE  Shape'
  BY <1>4, OpenPageShape, AuthorizationAssumption
<1>5. ASSUME NEW b \in Browser, NEW u \in User, Login(b, u) PROVE Shape'
  BY <1>5, LoginShape
<1>6. ASSUME NEW s \in SessionId, EndSession(s) PROVE Shape'
  BY <1>6, EndSessionShape
<1>7. CASE ManageClients
  <2>1. ASSUME NEW a \in Admin, NEW c \in Client, Read(a, c, "rotate", None) PROVE Shape'
    BY <2>1, ReadShape
  <2> QED
    BY <1>7, <2>1, RegisterShape, DeleteShape DEF ManageClients
<1>8. ASSUME NEW a \in Admin, UpdateClient(a) \/ Write(a) PROVE Shape'
  <2>1. ASSUME NEW c \in Client, NEW change \in Change, Read(a, c, "update", change)
        PROVE  Shape'
    BY <2>1, ReadShape
  <2> QED
    BY <1>8, <2>1, WriteShape DEF UpdateClient
<1>9. ASSUME NEW u \in User, Disable(u) \/ Enable(u) \/ DeleteUser(u) PROVE Shape'
  BY <1>9, AccountShape
<1>10. CASE UNCHANGED vars
  <2>1. TypeOK'
    BY <1>10 DEF Shape, TypeOK, vars
  <2> QED
    BY <1>10, <2>1 DEF Shape, Known, KeysOnce, Aimed, Target, Exists, At, UserOf, vars
<1> QED
  BY <1>1, <1>2, <1>3, <1>4, <1>5, <1>6, <1>7, <1>8, <1>9, <1>10 DEF Next

LEMMA Shaped == Spec => []Shape
  BY InitShape, StepShape, PTL DEF Spec

(* Rows, sessions, requests and pages keep their types, public clients have *)
(* no secret and confidential ones always do.                               *)
THEOREM Typing == Spec => []TypeOK
  BY Shaped, PTL DEF Shape

-----------------------------------------------------------------------------
(* A row of clients is overwritten on behalf of its own key only.          *)
LEMMA ChangesAimed ==
  ASSUME Shape, [Next]_vars, NEW c \in Client,
         clients[c] # None, clients'[c] # None, clients'[c] # clients[c]
  PROVE  /\ clients'[c].key = clients[c].key
         /\ \E a \in Admin : ops[a].at # "idle" /\ ops[a].key = clients[c].key
<1>1. clients \in [Client -> ClientRow \cup {None}]
  BY DEF Shape, TypeOK
<1>2. ASSUME NEW a \in Admin, Write(a)
      PROVE  /\ clients'[c].key = clients[c].key
             /\ ops[a].at # "idle" /\ ops[a].key = clients[c].key
  <2>1. /\ Target(a) /\ ops[a].client \in Client
        /\ \E row \in ClientRow :
             /\ row.key = clients[ops[a].client].key
             /\ clients' = [clients EXCEPT ![ops[a].client] = row]
    BY <1>2, Written
  <2>2. ops[a].client = c
    BY <1>1, <2>1
  <2> QED
    BY <1>1, <1>2, <2>1, <2>2 DEF Write, Target
<1>3. ASSUME NEW d \in Client, NEW reg \in Registration, Register(d, reg)
      PROVE  FALSE
  BY <1>1, <1>3 DEF Register, Exists
<1>4. ASSUME NEW d \in Client, Delete(d)
      PROVE  FALSE
  BY <1>1, <1>4 DEF Delete
<1> QED
  BY <1>2, <1>3, <1>4 DEF Next, Authorize, Approve, Serve, ReadSession, ReadAccount, CheckConsent,
     RecordConsent, IssueCode, Abort, Elsewhere, OpenPage, Login, EndSession, ManageClients,
     UpdateClient, Read, Disable, Enable, DeleteUser, vars

(* A change or a new secret reaches the registration its administrator     *)
(* read, whatever was deleted and registered under that name since         *)
(* (client.rs update and rotate_secret).                                   *)
THEOREM ChangesAreAimed == Spec => ChangesReachTheirClient
<1>1. Shape /\ [Next]_vars =>
        [\A c \in Client :
           clients[c] # None /\ clients'[c] # None /\ clients'[c] # clients[c] =>
              /\ clients'[c].key = clients[c].key
              /\ \E a \in Admin : ops[a].at # "idle" /\ ops[a].key = clients[c].key]_vars
  BY ChangesAimed
<1> QED
  BY <1>1, Shaped, PTL DEF Spec, ChangesReachTheirClient

-----------------------------------------------------------------------------
(* What the other steps leave standing: whose a session is, that a deleted *)
(* account stays deleted and a registration that is gone stays gone, and   *)
(* the consents of registrations and accounts that remain.                 *)
Standing ==
  /\ \A s \in SessionId : sessions[s].user # None => sessions'[s].user = sessions[s].user
  /\ \A u \in User : accounts[u] = "deleted" => accounts'[u] = "deleted"
  /\ \A u \in User : accounts'[u] = "enabled" => accounts[u] = "enabled" \/ Enable(u)
  /\ lastKey <= lastKey'
  /\ \A k \in Key : k <= lastKey /\ KeyHeld(k)' => KeyHeld(k)
  /\ \A u \in User, k \in Key :
       KeyHeld(k)' /\ accounts'[u] # "deleted" => consents[u][k] \subseteq consents'[u][k]
  /\ \A code \in codes \cap codes' :
       consents[code.user][code.key] \subseteq consents'[code.user][code.key]

LEMMA StepStanding ==
  ASSUME Shape, [Next]_vars
  PROVE  Standing
<1>1. /\ clients \in [Client -> ClientRow \cup {None}] /\ lastKey \in Key /\ Key \subseteq Nat
      /\ consents \in [User -> [Key -> SUBSET Scope]] /\ codes \subseteq Code
      /\ accounts \in [User -> {"enabled", "disabled", "deleted"}]
      /\ sessions \in [SessionId -> [user : User \cup {None}, live : BOOLEAN]]
  BY DEF Shape, TypeOK, Key
<1>2. ASSUME UNCHANGED <<clients, accounts, sessions, consents, lastKey>>
      PROVE  Standing
  BY <1>1, <1>2 DEF Standing, KeyHeld, Exists
<1>3. ASSUME NEW r \in Request, RecordConsent(r) PROVE Standing
  <2>1. /\ UserOf(r) \in User /\ requests[r].key \in Key
    BY <1>3, RequestTypes DEF RecordConsent, At
  <2>2. \A u \in User, k \in Key : consents[u][k] \subseteq consents'[u][k]
    BY <1>1, <1>3, <2>1 DEF RecordConsent, Together
  <2>3. UNCHANGED <<clients, accounts, sessions, lastKey, codes>>
    BY <1>3 DEF RecordConsent, Elsewhere
  <2>4. \A code \in codes : consents[code.user][code.key] \subseteq consents'[code.user][code.key]
    BY <1>1, <2>2 DEF Code
  <2>5. \A k : KeyHeld(k)' => KeyHeld(k)
    BY <2>3 DEF KeyHeld, Exists
  <2> QED
    BY <1>1, <2>2, <2>3, <2>4, <2>5 DEF Standing
<1>4. ASSUME NEW b \in Browser, NEW u \in User, Login(b, u) PROVE Standing
  <2>1. \A s \in SessionId : sessions[s].user # None => sessions'[s].user = sessions[s].user
    BY <1>1, <1>4 DEF Login
  <2> QED
    BY <1>1, <1>4, <2>1 DEF Login, Standing, KeyHeld, Exists
<1>5. ASSUME NEW s \in SessionId, EndSession(s) PROVE Standing
  <2>1. \A t \in SessionId : sessions'[t].user = sessions[t].user
    BY <1>1, <1>5 DEF EndSession
  <2> QED
    BY <1>1, <1>5, <2>1 DEF EndSession, Standing, KeyHeld, Exists
<1>6. ASSUME NEW c \in Client, NEW reg \in Registration, Register(c, reg) PROVE Standing
  <2>1. \A k \in Key : k <= lastKey /\ KeyHeld(k)' => KeyHeld(k)
    BY <1>1, <1>6 DEF Register, Registered, KeyHeld, Exists
  <2> QED
    BY <1>1, <1>6, <2>1 DEF Register, Standing
<1>7. ASSUME NEW c \in Client, Delete(c) PROVE Standing
  <2>1. \A k \in Key : KeyHeld(k)' => KeyHeld(k) /\ k # clients[c].key
    BY <1>1, <1>7 DEF Delete, KeyHeld, Exists, Shape, KeysOnce
  <2>2. \A u \in User, k \in Key : k # clients[c].key => consents'[u][k] = consents[u][k]
    BY <1>1, <1>7 DEF Delete
  <2> QED
    BY <1>1, <1>7, <2>1, <2>2 DEF Delete, Standing, Code
<1>8. ASSUME NEW a \in Admin, Write(a) PROVE Standing
  <2>1. \A k \in Key : KeyHeld(k)' => KeyHeld(k)
    <3>1. CASE UNCHANGED clients
      BY <3>1 DEF KeyHeld, Exists
    <3>2. CASE clients' # clients
      BY <1>1, <1>8, <3>2, Written DEF KeyHeld, Exists
    <3> QED
      BY <3>1, <3>2
  <2> QED
    BY <1>1, <1>8, <2>1 DEF Write, Standing
<1>9. ASSUME NEW u \in User, Disable(u) \/ Enable(u) PROVE Standing
  BY <1>1, <1>9 DEF Disable, Enable, Standing, KeyHeld, Exists
<1>10. ASSUME NEW u \in User, DeleteUser(u) PROVE Standing
  <2>1. \A s \in SessionId : sessions'[s].user = sessions[s].user
    BY <1>1, <1>10 DEF DeleteUser
  <2>2. \A v \in User, k \in Key : v # u => consents'[v][k] = consents[v][k]
    BY <1>1, <1>10 DEF DeleteUser
  <2> QED
    BY <1>1, <1>10, <2>1, <2>2 DEF DeleteUser, Standing, KeyHeld, Exists, Code
<1> QED
  BY <1>2, <1>3, <1>4, <1>5, <1>6, <1>7, <1>8, <1>9, <1>10
     DEF Next, Authorize, Approve, Serve, ReadSession, ReadAccount, CheckConsent,
         IssueCode, Abort, Elsewhere, OpenPage, ManageClients, UpdateClient, Read, vars

-----------------------------------------------------------------------------
(* How a request's locals change: by its own statements, by its arrival,   *)
(* or in the history of whether its account was enabled.                   *)
Arrives(r) ==
  \E b \in Browser, c \in Client, asked \in SUBSET Scope, page \in Page \cup {None} :
    /\ At(r, "idle") /\ cookie[b] # 0 /\ Valid(c, asked)
    /\ page # None => asked = page.asked
    /\ requests' = [requests EXCEPT ![r] = Validated(b, c, asked, page)]
    /\ Elsewhere /\ UNCHANGED <<consents, codes>>

LEMMA Moves ==
  ASSUME Shape, [Next]_vars, NEW r \in Request
  PROVE  \/ requests'[r] = requests[r]
         \/ /\ accounts[UserOf(r)] = "disabled" /\ Enable(UserOf(r))
            /\ requests'[r] = [requests[r] EXCEPT !.seen = TRUE]
         \/ Arrives(r)
         \/ Serve(r)
<1>1. requests \in [Request -> Locals]
  BY DEF Shape, TypeOK
<1>2. ASSUME NEW q \in Request, NEW b \in Browser, NEW c \in Client, NEW asked \in Asking,
             Authorize(q, b, c, asked)
      PROVE  requests'[r] = requests[r] \/ Arrives(r)
  <2>1. asked \in SUBSET Scope
    BY AuthorizationAssumption
  <2>2. Arrives(q)
    BY <1>2, <2>1 DEF Authorize, Arrives
  <2>3. q # r => requests'[r] = requests[r]
    BY <1>1, <1>2 DEF Authorize
  <2> QED
    BY <2>2, <2>3
<1>3. ASSUME NEW q \in Request, NEW b \in Browser, Approve(q, b)
      PROVE  requests'[r] = requests[r] \/ Arrives(r)
  <2>1. pages[b] \in Page /\ pages[b].client \in Client /\ pages[b].asked \in SUBSET Scope
    BY <1>3 DEF Approve, Shape, TypeOK, Page
  <2>2. Arrives(q)
    BY <1>3, <2>1 DEF Approve, Arrives
  <2>3. q # r => requests'[r] = requests[r]
    BY <1>1, <1>3 DEF Approve
  <2> QED
    BY <2>2, <2>3
<1>4. ASSUME NEW q \in Request, Serve(q), q # r PROVE requests'[r] = requests[r]
  <2>1. \E e : requests' = [requests EXCEPT ![q] = e]
    BY <1>4 DEF Serve, ReadSession, ReadAccount, CheckConsent, RecordConsent, IssueCode, Abort,
                Goto, ReadyForCode, Finish
  <2> QED
    BY <1>1, <1>4, <2>1
<1>5. ASSUME NEW u \in User, Enable(u)
      PROVE  \/ requests'[r] = requests[r]
             \/ /\ accounts[UserOf(r)] = "disabled" /\ Enable(UserOf(r))
                /\ requests'[r] = [requests[r] EXCEPT !.seen = TRUE]
  BY <1>1, <1>5 DEF Enable
<1> QED
  BY <1>2, <1>3, <1>4, <1>5
     DEF Next, OpenPage, Login, EndSession, ManageClients, Register, Read, Delete, UpdateClient,
         Write, Disable, DeleteUser, vars

-----------------------------------------------------------------------------
(* What a request has established by the time it stands where it stands.   *)
Earned(r) ==
  /\ /\ At(r, "code") /\ requests[r].consent
     /\ KeyHeld(requests[r].key) /\ accounts[UserOf(r)] # "deleted"
     => requests[r].scopes \subseteq consents[UserOf(r)][requests[r].key]
  /\ requests[r].at \in {"consent", "record", "code"} =>
       UserOf(r) \notin Foreign /\ requests[r].seen
  /\ ~At(r, "idle") /\ accounts[UserOf(r)] = "enabled" => requests[r].seen
  /\ At(r, "record") => requests[r].page # None
  /\ requests[r].at \in {"session", "account", "record"} /\ requests[r].page # None =>
       requests[r].scopes = Resolved(requests[r].page.asked, requests[r].registered)
  /\ requests[r].at \in {"account", "record"} /\ requests[r].page # None =>
       requests[r].page.session = requests[r].session

(* The inductive invariant.                                                *)
IInv == Shape /\ CodeBehindApproval /\ \A r \in Request : Earned(r)

LEMMA EarnedStays ==
  ASSUME IInv, [Next]_vars, NEW r \in Request,
         /\ requests'[r].at = requests[r].at /\ requests'[r].page = requests[r].page
         /\ requests'[r].session = requests[r].session
         /\ requests'[r].key = requests[r].key
         /\ requests'[r].scopes = requests[r].scopes
         /\ requests'[r].consent = requests[r].consent
         /\ requests'[r].registered = requests[r].registered,
         requests[r].seen => requests'[r].seen
  PROVE  Earned(r)'
<1>1. Shape /\ Earned(r) /\ Standing
  BY StepStanding DEF IInv
<1>2. CASE At(r, "idle")
  BY <1>2 DEF Earned, At
<1>3. CASE ~At(r, "idle")
  <2>1. /\ UserOf(r) \in User /\ requests[r].session \in SessionId /\ requests[r].key \in Key
        /\ requests[r].key <= lastKey /\ UserOf(r) # None
    BY <1>1, <1>3, RequestTypes DEF Shape, Known
  <2>2. UserOf(r)' = UserOf(r)
    BY <1>1, <2>1 DEF Standing, UserOf
  <2>3. accounts'[UserOf(r)] = "enabled" => requests'[r].seen
    <3>1. ASSUME Enable(UserOf(r)) PROVE requests'[r].seen
      <4>1. requests'[r] = [requests[r] EXCEPT !.seen = TRUE]
        BY <1>3, <3>1 DEF Enable
      <4> QED
        BY <1>1, <4>1, RequestTypes DEF Locals
    <3> QED
      BY <1>1, <1>3, <2>1, <3>1 DEF Standing, Earned
  <2>4. /\ At(r, "code") /\ requests[r].consent
        /\ KeyHeld(requests[r].key)' /\ accounts'[UserOf(r)] # "deleted"
        => requests[r].scopes \subseteq consents'[UserOf(r)][requests[r].key]
    <3>1. KeyHeld(requests[r].key)' => \E c \in Client : Exists(c)' /\ clients'[c].key = requests[r].key
      BY DEF KeyHeld
    <3>2. \A k \in Key : (\E c \in Client : Exists(c)' /\ clients'[c].key = k) => KeyHeld(k)'
      BY DEF KeyHeld
    <3> QED
      BY <1>1, <2>1, <3>1, <3>2 DEF Standing, Earned
  <2> QED
    BY <1>1, <2>2, <2>3, <2>4 DEF Earned, At
<1> QED
  BY <1>2, <1>3

LEMMA EarnedArrives ==
  ASSUME IInv, NEW r \in Request, Arrives(r)
  PROVE  Earned(r)'
<1>1. PICK b \in Browser, c \in Client, asked \in SUBSET Scope, page \in Page \cup {None} :
        /\ cookie[b] # 0 /\ Valid(c, asked) /\ (page # None => asked = page.asked)
        /\ requests' = [requests EXCEPT ![r] = Validated(b, c, asked, page)]
        /\ Elsewhere
  BY DEF Arrives
<1>2. requests'[r] = Validated(b, c, asked, page)
  BY <1>1 DEF IInv, Shape, TypeOK
<1>3. /\ requests'[r].at = "session" /\ requests'[r].page = page
      /\ requests'[r].session = cookie[b]
      /\ requests'[r].registered = clients[c].scopes
      /\ requests'[r].scopes = Resolved(asked, clients[c].scopes)
      /\ requests'[r].seen = (accounts[sessions[cookie[b]].user] = "enabled")
  BY <1>2 DEF Validated
<1> QED
  BY <1>1, <1>3 DEF Earned, At, UserOf, Elsewhere, Resolved

LEMMA EarnedServed ==
  ASSUME IInv, NEW r \in Request, Serve(r)
  PROVE  Earned(r)'
<1>1. /\ Earned(r) /\ requests \in [Request -> Locals] /\ requests[r] \in Locals
      /\ ~At(r, "idle") /\ UNCHANGED <<clients, accounts, sessions>>
      /\ consents \in [User -> [Key -> SUBSET Scope]]
  BY RequestTypes
     DEF IInv, Shape, TypeOK, Serve, ReadSession, ReadAccount, CheckConsent, RecordConsent,
         IssueCode, Abort, At, Elsewhere
<1>2. UserOf(r) \in User /\ requests[r].key \in Key
  BY <1>1, RequestTypes DEF IInv
<1>3. CASE Finish(r)
  <2>1. requests'[r].at = "idle"
    BY <1>1, <1>3 DEF Finish, NoLocals
  <2> QED
    BY <2>1 DEF Earned, At
<1>4. ASSUME NEW at \in {"account", "consent", "record"}, Goto(r, at)
      PROVE  /\ requests'[r].at = at /\ requests'[r].page = requests[r].page
             /\ requests'[r].session = requests[r].session
             /\ requests'[r].scopes = requests[r].scopes
             /\ requests'[r].registered = requests[r].registered
             /\ requests'[r].seen = requests[r].seen
  BY <1>1, <1>4 DEF Goto, Locals
<1>5. ASSUME ReadyForCode(r)
      PROVE  /\ requests'[r].at = "code" /\ requests'[r].session = requests[r].session
             /\ requests'[r].scopes = requests[r].scopes
             /\ requests'[r].key = requests[r].key
             /\ requests'[r].consent = requests[r].consent
             /\ requests'[r].seen = requests[r].seen
  BY <1>1, <1>5 DEF ReadyForCode, Locals
<1>6. CASE ReadSession(r) /\ ~Finish(r)
  <2>1. Goto(r, "account") /\ TokenMatches(r) /\ At(r, "session")
    BY <1>6 DEF ReadSession
  <2> QED
    BY <1>1, <1>4, <2>1 DEF TokenMatches, Earned, At, UserOf
<1>7. CASE ReadAccount(r) /\ ~Finish(r)
  <2>1. /\ UserBelongs(UserOf(r)) /\ At(r, "account")
        /\ \/ requests[r].page # None /\ Goto(r, "record")
           \/ Goto(r, "consent")
           \/ ~requests[r].consent /\ ReadyForCode(r)
    BY <1>7 DEF ReadAccount
  <2>2. requests[r].seen /\ UserOf(r) \notin Foreign
    BY <1>1, <2>1 DEF UserBelongs, Earned
  <2>3. CASE requests[r].page # None /\ Goto(r, "record")
    BY <1>1, <1>4, <2>1, <2>2, <2>3 DEF Earned, At, UserOf
  <2>4. CASE Goto(r, "consent")
    BY <1>1, <1>4, <2>2, <2>4 DEF Earned, At, UserOf
  <2>5. CASE ~requests[r].consent /\ ReadyForCode(r)
    BY <1>1, <1>5, <2>2, <2>5 DEF Earned, At, UserOf
  <2> QED
    BY <2>1, <2>3, <2>4, <2>5
<1>8. CASE CheckConsent(r) /\ ~Finish(r)
  <2>1. /\ At(r, "consent") /\ ReadyForCode(r) /\ UNCHANGED consents
        /\ requests[r].scopes \subseteq consents[UserOf(r)][requests[r].key]
    BY <1>8 DEF CheckConsent, Satisfied
  <2> QED
    BY <1>1, <1>5, <2>1 DEF Earned, At, UserOf
<1>9. CASE RecordConsent(r) /\ ~Finish(r)
  <2>1. /\ At(r, "record") /\ ReadyForCode(r)
        /\ requests[r].scopes \subseteq consents'[UserOf(r)][requests[r].key]
    BY <1>1, <1>2, <1>9 DEF RecordConsent, Together
  <2> QED
    BY <1>1, <1>5, <2>1 DEF Earned, At, UserOf
<1> QED
  BY <1>3, <1>6, <1>7, <1>8, <1>9 DEF Serve, IssueCode, Abort

LEMMA EarnedStep ==
  ASSUME IInv, [Next]_vars, NEW r \in Request
  PROVE  Earned(r)'
<1>1. CASE requests'[r] = requests[r]
  BY <1>1, EarnedStays
<1>2. CASE requests'[r] = [requests[r] EXCEPT !.seen = TRUE]
  <2>1. /\ requests'[r].at = requests[r].at /\ requests'[r].page = requests[r].page
        /\ requests'[r].session = requests[r].session
        /\ requests'[r].key = requests[r].key
        /\ requests'[r].scopes = requests[r].scopes
        /\ requests'[r].consent = requests[r].consent
        /\ requests'[r].registered = requests[r].registered
        /\ requests'[r].seen
    BY <1>2, RequestTypes DEF IInv, Locals
  <2> QED
    BY <2>1, EarnedStays
<1> QED
  BY <1>1, <1>2, Moves, EarnedArrives, EarnedServed DEF IInv

(* A code is inserted by the request that has earned it; the codes of a    *)
(* registration or an account go with it.                                  *)
LEMMA CodesStep ==
  ASSUME IInv, [Next]_vars
  PROVE  CodeBehindApproval'
<1>1. Shape /\ Standing
  BY StepStanding DEF IInv
<1>2. ASSUME NEW code \in codes' \ codes
      PROVE  \E r \in Request : IssueCode(r)
  BY <1>2 DEF Next, Authorize, Approve, Serve, ReadSession, ReadAccount, CheckConsent, RecordConsent,
              Abort, OpenPage, Login, EndSession, ManageClients, UpdateClient, Read, Register, Delete,
              Write, Disable, Enable, DeleteUser, vars
<1>3. ASSUME NEW r \in Request, IssueCode(r), NEW code \in codes' \ codes, code.consent
      PROVE  code.scopes \subseteq consents'[code.user][code.key]
  <2>1. /\ At(r, "code") /\ UNCHANGED consents
        /\ KeyHeld(requests[r].key) /\ accounts[UserOf(r)] # "deleted"
        /\ code = [key |-> requests[r].key, user |-> UserOf(r), scopes |-> requests[r].scopes,
                   consent |-> requests[r].consent]
    BY <1>3 DEF IssueCode
  <2> QED
    BY <1>3, <2>1 DEF IInv, Earned
<1> QED
  BY <1>1, <1>2, <1>3 DEF Standing, IInv, CodeBehindApproval

LEMMA Invariant == Spec => []IInv
<1>1. Init => IInv
  BY InitShape DEF Init, IInv, CodeBehindApproval, Earned, At, NoLocals
<1>2. IInv /\ [Next]_vars => IInv'
  BY StepShape, EarnedStep, CodesStep DEF IInv
<1> QED
  BY <1>1, <1>2, PTL DEF Spec

(* A code stands for scopes its user approved for this very registration,  *)
(* and none is on its way for an account that could not have approved.     *)
THEOREM CodesAreEarned == Spec => []CodesEarned
<1>1. IInv => CodesEarned
  BY DEF IInv, CodesEarned, DisabledGetNoCode, Earned, At
<1> QED
  BY <1>1, Invariant, PTL

(* A consent grows only where a request records what its page led it to.   *)
LEMMA RecordsShown ==
  ASSUME IInv, [Next]_vars, NEW u \in User, NEW k \in Key,
         ~(consents'[u][k] \subseteq consents[u][k])
  PROVE  \E r \in Request :
            /\ At(r, "record") /\ UserOf(r) = u /\ requests[r].key = k
            /\ sessions[requests[r].page.session].user = u
            /\ \/ consents'[u][k] \ consents[u][k] \subseteq Shown(requests[r].page)
               \/ Overtaken(r)
<1>1. consents \in [User -> [Key -> SUBSET Scope]] /\ clients \in [Client -> ClientRow \cup {None}]
  BY DEF IInv, Shape, TypeOK
<1>2. ASSUME NEW c \in Client, Delete(c) PROVE FALSE
  BY <1>1, <1>2 DEF Delete
<1>3. ASSUME NEW v \in User, DeleteUser(v) PROVE FALSE
  BY <1>1, <1>3 DEF DeleteUser
<1>4. PICK r \in Request : RecordConsent(r)
  BY <1>2, <1>3
     DEF Next, Authorize, Approve, Serve, ReadSession, ReadAccount, CheckConsent, IssueCode,
         Abort, OpenPage, Login, EndSession, ManageClients, UpdateClient, Read, Register,
         Write, Disable, Enable, vars
<1>5. /\ UserOf(r) \in User /\ requests[r].key \in Key /\ At(r, "record")
  BY <1>4, RequestTypes DEF IInv, RecordConsent, At
<1>6. /\ UserOf(r) = u /\ requests[r].key = k
      /\ consents'[u][k] \ consents[u][k] \subseteq requests[r].scopes
  BY <1>1, <1>4, <1>5 DEF RecordConsent, Together
<1>7. /\ requests[r].page # None /\ requests[r].page.session = requests[r].session
      /\ requests[r].scopes = Resolved(requests[r].page.asked, requests[r].registered)
  BY <1>5 DEF IInv, Earned, At
<1>8. sessions[requests[r].page.session].user = u
  BY <1>6, <1>7 DEF UserOf
<1>9. Overtaken(r) \/ Shown(requests[r].page) = requests[r].scopes
  BY <1>7 DEF Overtaken, Shown
<1> QED
  BY <1>5, <1>6, <1>8, <1>9

(* Scopes are recorded from the form of a page shown to the same user, and *)
(* are the ones it listed unless the client changed meanwhile (oidc.rs     *)
(* approve, consent.rs record).                                            *)
THEOREM RecordsWereShown == Spec => RecordedWasShown
<1>1. IInv /\ [Next]_vars =>
        [\A u \in User, k \in Key : consents'[u][k] \subseteq consents[u][k] \/
           \E r \in Request :
              /\ At(r, "record") /\ UserOf(r) = u /\ requests[r].key = k
              /\ sessions[requests[r].page.session].user = u
              /\ \/ consents'[u][k] \ consents[u][k] \subseteq Shown(requests[r].page)
                 \/ Overtaken(r)]_vars
  BY RecordsShown
<1> QED
  BY <1>1, Invariant, PTL DEF Spec, RecordedWasShown
=============================================================================
