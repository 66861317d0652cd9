--------------------------- MODULE FederationProofs ---------------------------
(***************************************************************************)
(* Proofs about federation: the typing of its state, the state a sign-in   *)
(* is behind, the account a link leads to and what proved it, and that     *)
(* unlinking leaves a way in.                                              *)
(***************************************************************************)
EXTENDS Federation, FiniteSetTheorems, TLAPS

(* A sign-in, from the claim of its state to its outcome.                  *)
SigningIn(l) == l.at \in At \ {"idle", "count", "unlink"}

Unlinks(l) == l.at \in {"count", "unlink"}

(* The link through which the account was found or that was made for it.   *)
Through(n, p, s, u) ==
  /\ n \in DOMAIN links
  /\ links[n].provider = p /\ links[n].subject = s /\ links[n].user = u

(* A state claimed in the browser it was issued to.                        *)
Claimed(n, b) == n \in DOMAIN states /\ states[n].consumed /\ states[n].browser = b

(* An address proves an account while it is there, if a provider trusted   *)
(* with that has verified it.                                              *)
Proves(p, e, verified, u) ==
  p \in Adopts /\ verified /\ (Present(u) => users[u].email = e)

(* What a request knows of the state, the provider and the account.        *)
Fits(l) ==
  /\ SigningIn(l) =>
       /\ l.browser \in Browser /\ l.provider \in Provider /\ Claimed(l.state, l.browser)
       /\ l.at # "provider" => states[l.state].provider = l.provider
       /\ l.at \notin {"provider", "find"} => l.subject \in Subject
  /\ l.at = "adopt" => l.provider \in Adopts /\ l.verified
  /\ l.at \in {"adopt", "provision"} => l.email \in Email
  /\ l.at \in {"account", "link", "open", "count", "unlink"} => l.user \in User
  /\ l.at \in {"link", "count", "unlink"} => users[l.user].status # "unused"
  /\ l.at = "link" => l.provisioned \/ Proves(l.provider, l.email, l.verified, l.user)
  /\ l.at \in {"account", "open"} => Through(l.link, l.provider, l.subject, l.user)
  /\ Unlinks(l) => l.provider \in Provider

CookiesOwn == \A b \in Browser : cookie[b] # 0 => states[cookie[b]].browser = b

Shape == TypeOK /\ CookiesOwn /\ \A r \in Request : Fits(req[r])

(* The unique indexes on the links.                                        *)
LinksApart ==
  \A n, m \in DOMAIN links :
    /\ LiveLink(n) /\ LiveLink(m) /\ links[n].provider = links[m].provider
    /\ links[n].subject = links[m].subject \/ links[n].user = links[m].user
    => n = m

(* A claimed state is behind one sign-in, in progress or done.             *)
StatesApart ==
  /\ \A r \in Request : \A q \in Request \ {r} :
       SigningIn(req[r]) /\ SigningIn(req[q]) => req[r].state # req[q].state
  /\ \A r \in Request, i \in DOMAIN outcomes :
       SigningIn(req[r]) => req[r].state # outcomes[i].state
  /\ \A i, j \in DOMAIN outcomes : outcomes[i].state = outcomes[j].state => i = j

(* What is behind an outcome.                                              *)
Stands(o) ==
  /\ Claimed(o.state, o.browser) /\ states[o.state].provider = o.provider
  /\ Through(o.link, o.provider, o.subject, o.user)

OutcomesStand == \A i \in DOMAIN outcomes : Stands(outcomes[i])

OneUnlink ==
  \A r \in Request : \A q \in Request \ {r} :
    Unlinks(req[r]) /\ Unlinks(req[q]) => req[r].user # req[q].user

(* An unlinking that has counted leaves a way in.                          *)
Enough(u) ==
  \/ ~Present(u) \/ users[u].password \/ u \in stranded
  \/ \E n, m \in LinksOf(u) : n # m

CountsHold == \A r \in Request : req[r].at = "unlink" => Enough(req[r].user)

IInv ==
  /\ Shape /\ LinksApart /\ StatesApart /\ OutcomesStand /\ OneUnlink /\ CountsHold
  /\ LinkProven /\ LastWayInStays

-----------------------------------------------------------------------------
LEMMA Member ==
  ASSUME NEW S, NEW s \in Seq(S), NEW i \in DOMAIN s
  PROVE  s[i] \in S
OBVIOUS

LEMMA Appended ==
  ASSUME NEW S, NEW s \in Seq(S), NEW x \in S
  PROVE  /\ Append(s, x) \in Seq(S) /\ DOMAIN Append(s, x) = DOMAIN s \cup {Len(s) + 1}
         /\ Len(s) + 1 \notin DOMAIN s /\ Append(s, x)[Len(s) + 1] = x
         /\ \A i \in DOMAIN s : Append(s, x)[i] = s[i]
OBVIOUS

LEMMA Rewritten ==
  ASSUME NEW S, NEW s \in Seq(S), NEW t, DOMAIN t = DOMAIN s, t = [i \in DOMAIN s |-> t[i]],
         \A i \in DOMAIN s : t[i] \in S
  PROVE  t \in Seq(S) /\ Len(t) = Len(s)
<1>1. DOMAIN s = 1..Len(s) /\ Len(s) \in Nat
  OBVIOUS
<1>2. t \in [1..Len(s) -> S]
  BY <1>1
<1> QED
  BY <1>1, <1>2

LEMMA RequestTypes ==
  ASSUME Shape, NEW r \in Request
  PROVE  /\ req \in [Request -> Locals] /\ req[r] \in Locals /\ Fits(req[r])
         /\ Blank \in Locals /\ Blank.at = "idle"
<1>1. req \in [Request -> Locals] /\ Fits(req[r])
  BY DEF Shape, TypeOK
<1>2. Blank \in Locals /\ Blank.at = "idle"
  BY DEF Blank, Locals, At
<1> QED
  BY <1>1, <1>2

LEMMA LinkTypes ==
  ASSUME Shape, NEW n \in DOMAIN links
  PROVE  /\ n \in Nat \ {0} /\ links[n] \in Link /\ links[n].user \in User
         /\ links[n].provider \in Provider /\ links[n].subject \in Subject
         /\ links[n].deleted \in BOOLEAN /\ links[n].verified \in BOOLEAN
         /\ links[n].provisioned \in BOOLEAN
         /\ LiveLink(n) => Present(links[n].user) /\ Exists(links[n].provider)
<1>1. links \in Seq(Link) /\ (LiveLink(n) => Present(links[n].user) /\ Exists(links[n].provider))
  BY DEF Shape, TypeOK
<1>2. links[n] \in Link /\ n \in Nat \ {0}
  BY <1>1, Member
<1> QED
  BY <1>1, <1>2 DEF Link

LEMMA StateTypes ==
  ASSUME Shape, NEW n \in DOMAIN states
  PROVE  /\ n \in Nat \ {0} /\ states[n] \in LoginState
         /\ states[n].consumed \in BOOLEAN /\ states[n].deleted \in BOOLEAN
<1>1. states \in Seq(LoginState)
  BY DEF Shape, TypeOK
<1>2. states[n] \in LoginState /\ n \in Nat \ {0}
  BY <1>1, Member
<1> QED
  BY <1>2 DEF LoginState

LEMMA TableTypes ==
  ASSUME Shape
  PROVE  /\ providers \in [Provider -> {"unused", "enabled", "disabled", "deleted"}]
         /\ users \in [User -> Account] /\ links \in Seq(Link) /\ states \in Seq(LoginState)
         /\ cookie \in [Browser -> 0..Len(states)] /\ Len(states) \in Nat
         /\ DOMAIN states = 1..Len(states)
         /\ outcomes \in Seq(Outcome) /\ req \in [Request -> Locals]
<1>1. /\ providers \in [Provider -> {"unused", "enabled", "disabled", "deleted"}]
      /\ users \in [User -> Account] /\ links \in Seq(Link) /\ states \in Seq(LoginState)
      /\ cookie \in [Browser -> 0..Len(states)]
      /\ outcomes \in Seq(Outcome) /\ req \in [Request -> Locals]
  BY DEF Shape, TypeOK
<1> QED
  BY <1>1

-----------------------------------------------------------------------------
(* Which actions write which variable.                                     *)
LEMMA Writers ==
  ASSUME Next
  PROVE  /\ \/ UNCHANGED providers
            \/ \E p \in Provider : CreateProvider(p) \/ SetProviderEnabled(p) \/ DeleteProvider(p)
         /\ \/ UNCHANGED users
            \/ \E r \in Request : Provision(r)
            \/ \E u \in User, e \in Email : Register(u, e)
            \/ \E u \in User : SetPassword(u) \/ SetUserEnabled(u) \/ DeleteUser(u)
         /\ \/ UNCHANGED links
            \/ \E r \in Request : LinkUser(r) \/ DeleteLink(r)
            \/ \E u \in User : DeleteUser(u)
            \/ \E p \in Provider : DeleteProvider(p)
         /\ \/ UNCHANGED states
            \/ \E b \in Browser, p \in Provider : Start(b, p)
            \/ \E r \in Request, b \in Browser, p \in Provider : ClaimState(r, b, p)
            \/ \E p \in Provider : DeleteProvider(p)
            \/ Purge
         /\ \/ UNCHANGED outcomes
            \/ \E r \in Request : Open(r)
         /\ \/ UNCHANGED stranded
            \/ \E r \in Request : LinkUser(r) \/ Abort(r)
            \/ \E u \in User : DeleteUser(u)
            \/ \E p \in Provider : DeleteProvider(p)
         /\ \/ UNCHANGED now
            \/ Tick
         /\ \/ UNCHANGED changes
            \/ Change
<1>1. \/ UNCHANGED providers
      \/ \E p \in Provider : CreateProvider(p) \/ SetProviderEnabled(p) \/ DeleteProvider(p)
  BY DEF Next, SignIn, Unlink, Begin, ManageProvider, Start, RefuseCallback, ClaimState, Claim,
         LoadProvider, FindLink, FindByEmail, ReadAccount, Provision, LinkUser, Open, LockUser,
         CountLinks, DeleteLink, Register, SetPassword, SetUserEnabled, DeleteUser, Purge,
         Abort, Tick
<1>2. \/ UNCHANGED users
      \/ \E r \in Request : Provision(r)
      \/ \E u \in User, e \in Email : Register(u, e)
      \/ \E u \in User : SetPassword(u) \/ SetUserEnabled(u) \/ DeleteUser(u)
  BY DEF Next, SignIn, Unlink, Begin, ManageProvider, Start, RefuseCallback, ClaimState, Claim,
         LoadProvider, FindLink, FindByEmail, ReadAccount, LinkUser, Open, LockUser,
         CountLinks, DeleteLink, CreateProvider, SetProviderEnabled, DeleteProvider, Purge,
         Abort, Tick
<1>3. \/ UNCHANGED links
      \/ \E r \in Request : LinkUser(r) \/ DeleteLink(r)
      \/ \E u \in User : DeleteUser(u)
      \/ \E p \in Provider : DeleteProvider(p)
  BY DEF Next, SignIn, Unlink, Begin, ManageProvider, Start, RefuseCallback, ClaimState, Claim,
         LoadProvider, FindLink, FindByEmail, ReadAccount, Provision, Open, LockUser,
         CountLinks, Register, SetPassword, SetUserEnabled, CreateProvider, SetProviderEnabled,
         Purge, Abort, Tick
<1>4. \/ UNCHANGED states
      \/ \E b \in Browser, p \in Provider : Start(b, p)
      \/ \E r \in Request, b \in Browser, p \in Provider : ClaimState(r, b, p)
      \/ \E p \in Provider : DeleteProvider(p)
      \/ Purge
  BY DEF Next, SignIn, Unlink, Begin, ManageProvider, RefuseCallback, LoadProvider, FindLink,
         FindByEmail, ReadAccount, Provision, LinkUser, Open, LockUser, CountLinks, DeleteLink,
         Register, SetPassword, SetUserEnabled, DeleteUser, CreateProvider, SetProviderEnabled,
         Abort, Tick
<1>5. \/ UNCHANGED outcomes
      \/ \E r \in Request : Open(r)
  BY DEF Next, SignIn, Unlink, Begin, ManageProvider, Start, RefuseCallback, ClaimState, Claim,
         LoadProvider, FindLink, FindByEmail, ReadAccount, Provision, LinkUser, LockUser,
         CountLinks, DeleteLink, Register, SetPassword, SetUserEnabled, DeleteUser,
         CreateProvider, SetProviderEnabled, DeleteProvider, Purge, Abort, Tick
<1>6. \/ UNCHANGED stranded
      \/ \E r \in Request : LinkUser(r) \/ Abort(r)
      \/ \E u \in User : DeleteUser(u)
      \/ \E p \in Provider : DeleteProvider(p)
  BY DEF Next, SignIn, Unlink, Begin, ManageProvider, Start, RefuseCallback, ClaimState, Claim,
         LoadProvider, FindLink, FindByEmail, ReadAccount, Provision, Open, LockUser,
         CountLinks, DeleteLink, Register, SetPassword, SetUserEnabled, CreateProvider,
         SetProviderEnabled, Purge, Tick
<1>7. \/ UNCHANGED now
      \/ Tick
  BY DEF Next, SignIn, Unlink, Begin, ManageProvider, Start, RefuseCallback, ClaimState, Claim,
         LoadProvider, FindLink, FindByEmail, ReadAccount, Provision, LinkUser, Open, LockUser,
         CountLinks, DeleteLink, Register, SetPassword, SetUserEnabled, DeleteUser,
         CreateProvider, SetProviderEnabled, DeleteProvider, Purge, Abort
<1>8. \/ UNCHANGED changes
      \/ Change
  BY DEF Next, SignIn, Unlink, Begin, ManageProvider, Start, RefuseCallback, ClaimState, Claim,
         LoadProvider, FindLink, FindByEmail, ReadAccount, Provision, LinkUser, Open, LockUser,
         CountLinks, DeleteLink, Register, SetPassword, SetUserEnabled, DeleteUser,
         CreateProvider, SetProviderEnabled, DeleteProvider, Purge, Abort, Tick
<1> QED
  BY <1>1, <1>2, <1>3, <1>4, <1>5, <1>6, <1>7, <1>8

-----------------------------------------------------------------------------
(* A link keeps what it says, and a deleted one stays deleted.             *)
LinksKept ==
  /\ DOMAIN links \subseteq DOMAIN links'
  /\ \A n \in DOMAIN links :
       /\ links'[n].provider = links[n].provider /\ links'[n].subject = links[n].subject
       /\ links'[n].user = links[n].user /\ links'[n].email = links[n].email
       /\ links'[n].verified = links[n].verified
       /\ links'[n].provisioned = links[n].provisioned
       /\ links[n].deleted => links'[n].deleted

LEMMA LinksWithout ==
  ASSUME Shape, NEW X, links' = Without(links, X)
  PROVE  /\ links' \in Seq(Link) /\ LinksKept /\ DOMAIN links' = DOMAIN links
         /\ \A n \in DOMAIN links : links'[n].deleted <=> links[n].deleted \/ n \in X
<1> DEFINE row(n) == [links[n] EXCEPT !.deleted = @ \/ n \in X]
<1>1. links' = [n \in DOMAIN links |-> row(n)]
  BY DEF Without
<1>2. ASSUME NEW n \in DOMAIN links
      PROVE  /\ row(n) \in Link /\ row(n).provider = links[n].provider
             /\ row(n).subject = links[n].subject /\ row(n).user = links[n].user
             /\ row(n).email = links[n].email
  BY LinkTypes DEF Link
<1>3. ASSUME NEW n \in DOMAIN links
      PROVE  row(n).verified = links[n].verified /\ row(n).provisioned = links[n].provisioned
  BY LinkTypes DEF Link
<1>4. ASSUME NEW n \in DOMAIN links
      PROVE  row(n).deleted <=> links[n].deleted \/ n \in X
  BY LinkTypes DEF Link
<1> HIDE DEF row
<1>5. links' \in Seq(Link) /\ DOMAIN links' = DOMAIN links
  BY <1>1, <1>2, TableTypes, Rewritten
<1>6. \A n \in DOMAIN links : links'[n].deleted <=> links[n].deleted \/ n \in X
  BY <1>1, <1>4
<1>7. LinksKept
  BY <1>1, <1>2, <1>3, <1>5, <1>6 DEF LinksKept
<1> QED
  BY <1>5, <1>6, <1>7

(* A request made a link.                                                  *)
Linked(r) ==
  LET l == req[r]
  IN /\ l.at = "link" /\ Present(l.user) /\ Exists(l.provider)
     /\ Unlinked(l.provider, l.subject, l.user)
     /\ links' = Append(links, NewLink(r))

LEMMA LinkedIs ==
  ASSUME Shape, NEW r \in Request, Linked(r)
  PROVE  /\ links' \in Seq(Link) /\ LinksKept
         /\ DOMAIN links' = DOMAIN links \cup {Len(links) + 1}
         /\ Len(links) + 1 \notin DOMAIN links /\ links'[Len(links) + 1] = NewLink(r)
         /\ \A n \in DOMAIN links : links'[n] = links[n]
<1>1. /\ req[r].at = "link" /\ Fits(req[r]) /\ req[r] \in Locals
      /\ links' = Append(links, NewLink(r))
  BY RequestTypes DEF Linked
<1>2. NewLink(r) \in Link
  BY <1>1 DEF Fits, SigningIn, At, NewLink, Link, Locals
<1>3. links \in Seq(Link)
  BY TableTypes
<1>4. /\ links' \in Seq(Link)
      /\ DOMAIN links' = DOMAIN links \cup {Len(links) + 1}
      /\ Len(links) + 1 \notin DOMAIN links /\ links'[Len(links) + 1] = NewLink(r)
      /\ \A n \in DOMAIN links : links'[n] = links[n]
  BY <1>1, <1>2, <1>3, Appended
<1>5. LinksKept
  BY <1>4 DEF LinksKept
<1> QED
  BY <1>4, <1>5

LEMMA LinksMove ==
  ASSUME Shape, Next
  PROVE  /\ links' \in Seq(Link) /\ LinksKept
         /\ DOMAIN links' = DOMAIN links \/ \E r \in Request : Linked(r)
<1>1. CASE UNCHANGED links
  BY <1>1, TableTypes DEF LinksKept
<1>2. ASSUME NEW r \in Request, LinkUser(r), links' # links PROVE Linked(r)
  BY <1>2 DEF LinkUser, Linked
<1>3. ASSUME NEW r \in Request, DeleteLink(r)
      PROVE  links' \in Seq(Link) /\ LinksKept /\ DOMAIN links' = DOMAIN links
  BY <1>3, LinksWithout DEF DeleteLink
<1>4. ASSUME NEW u \in User, DeleteUser(u)
      PROVE  links' \in Seq(Link) /\ LinksKept /\ DOMAIN links' = DOMAIN links
  BY <1>4, LinksWithout DEF DeleteUser
<1>5. ASSUME NEW p \in Provider, DeleteProvider(p)
      PROVE  links' \in Seq(Link) /\ LinksKept /\ DOMAIN links' = DOMAIN links
  BY <1>5, LinksWithout DEF DeleteProvider
<1> QED
  BY <1>1, <1>2, <1>3, <1>4, <1>5, LinkedIs, Writers

-----------------------------------------------------------------------------
(* A state stays with its browser and its provider, and a consumed one     *)
(* stays consumed.                                                         *)
StatesKept ==
  /\ Len(states) <= Len(states')
  /\ DOMAIN states \subseteq DOMAIN states'
  /\ \A n \in DOMAIN states :
       /\ states'[n].browser = states[n].browser /\ states'[n].provider = states[n].provider
       /\ states[n].consumed => states'[n].consumed

LEMMA StatesWithout ==
  ASSUME Shape, NEW X, states' = Without(states, X)
  PROVE  states' \in Seq(LoginState) /\ StatesKept
<1> DEFINE row(n) == [states[n] EXCEPT !.deleted = @ \/ n \in X]
<1>1. states' = [n \in DOMAIN states |-> row(n)]
  BY DEF Without
<1>2. ASSUME NEW n \in DOMAIN states
      PROVE  /\ row(n) \in LoginState /\ row(n).browser = states[n].browser
             /\ row(n).provider = states[n].provider
  BY StateTypes DEF LoginState
<1>3. ASSUME NEW n \in DOMAIN states PROVE row(n).consumed = states[n].consumed
  BY StateTypes DEF LoginState
<1> HIDE DEF row
<1>4. /\ states' \in Seq(LoginState) /\ DOMAIN states' = DOMAIN states
      /\ Len(states') = Len(states)
  BY <1>1, <1>2, TableTypes, Rewritten
<1>5. Len(states) <= Len(states')
  BY <1>4, TableTypes
<1> QED
  BY <1>1, <1>2, <1>3, <1>4, <1>5 DEF StatesKept

(* A state is claimed by who holds its cookie.                             *)
LEMMA ClaimIs ==
  ASSUME Shape, NEW r \in Request, NEW b \in Browser, NEW p \in Provider, ClaimState(r, b, p),
         Claimable(cookie[b])
  PROVE  LET n == cookie[b]
         IN /\ n \in DOMAIN states /\ states[n].browser = b /\ ~states[n].consumed
            /\ states' \in Seq(LoginState) /\ StatesKept
            /\ states'[n].consumed
<1> DEFINE n == cookie[b]
           row == [states[n] EXCEPT !.consumed = TRUE]
<1>1. n \in DOMAIN states /\ states[n].browser = b
  BY TableTypes DEF ClaimState, Shape, CookiesOwn
<1>2. ~states[n].consumed /\ states' = [states EXCEPT ![n] = row]
  BY DEF ClaimState, Claim, Claimable
<1>3. /\ row \in LoginState /\ row.browser = states[n].browser
      /\ row.provider = states[n].provider
  BY <1>1, StateTypes DEF LoginState
<1>4. row.consumed
  BY <1>1, StateTypes DEF LoginState
<1> HIDE DEF n, row
<1>5. /\ states'[n] = row /\ \A m \in DOMAIN states \ {n} : states'[m] = states[m]
      /\ DOMAIN states' = DOMAIN states
  BY <1>1, <1>2
<1>6. \A m \in DOMAIN states : states'[m] \in LoginState
  BY <1>3, <1>5, StateTypes
<1>7. states' = [m \in DOMAIN states |-> states'[m]]
  BY <1>2
<1>8. states' \in Seq(LoginState) /\ Len(states') = Len(states)
  BY <1>5, <1>6, <1>7, TableTypes, Rewritten
<1>9. Len(states) <= Len(states')
  BY <1>8, TableTypes
<1>10. StatesKept
  BY <1>3, <1>4, <1>5, <1>9 DEF StatesKept
<1> QED
  BY <1>1, <1>2, <1>4, <1>5, <1>8, <1>10 DEF n

LEMMA StartIs ==
  ASSUME Shape, NEW b \in Browser, NEW p \in Provider, Start(b, p)
  PROVE  LET n == Len(states) + 1
         IN /\ states' \in Seq(LoginState) /\ StatesKept
            /\ Len(states') = n /\ states'[n].browser = b
<1> DEFINE row == [provider |-> p, browser |-> b, expires_at |-> now + StateLifetime,
                   consumed |-> FALSE, deleted |-> FALSE]
<1>1. states' = Append(states, row)
  BY DEF Start
<1>2. row \in LoginState /\ row.browser = b
  BY LifetimeAssumption DEF LoginState, Shape, TypeOK
<1> HIDE DEF row
<1>3. /\ states' \in Seq(LoginState) /\ DOMAIN states' = DOMAIN states \cup {Len(states) + 1}
      /\ states'[Len(states) + 1] = row /\ \A n \in DOMAIN states : states'[n] = states[n]
  BY <1>1, <1>2, TableTypes, Appended
<1>4. Len(states') = Len(states) + 1 /\ Len(states) <= Len(states')
  BY <1>1, TableTypes
<1>5. StatesKept
  BY <1>3, <1>4 DEF StatesKept
<1> QED
  BY <1>2, <1>3, <1>4, <1>5

LEMMA StatesMove ==
  ASSUME Shape, Next
  PROVE  states' \in Seq(LoginState) /\ StatesKept
<1>1. CASE UNCHANGED states
  BY <1>1, TableTypes DEF StatesKept
<1>2. ASSUME NEW b \in Browser, NEW p \in Provider, Start(b, p)
      PROVE  states' \in Seq(LoginState) /\ StatesKept
  BY <1>2, StartIs
<1>3. ASSUME NEW r \in Request, NEW b \in Browser, NEW p \in Provider, ClaimState(r, b, p)
      PROVE  states' \in Seq(LoginState) /\ StatesKept
  <2>1. CASE Claimable(cookie[b])
    BY <1>3, <2>1, ClaimIs
  <2>2. CASE ~Claimable(cookie[b])
    BY <1>1, <1>3, <2>2 DEF ClaimState, Claim
  <2> QED
    BY <2>1, <2>2
<1>4. ASSUME NEW p \in Provider, DeleteProvider(p)
      PROVE  states' \in Seq(LoginState) /\ StatesKept
  BY <1>4, StatesWithout DEF DeleteProvider
<1>5. ASSUME Purge PROVE states' \in Seq(LoginState) /\ StatesKept
  BY <1>5, StatesWithout DEF Purge
<1> QED
  BY <1>1, <1>2, <1>3, <1>4, <1>5, Writers

(* A browser keeps its cookie, loses it or gets the one of a new state.    *)
LEMMA CookiesMove ==
  ASSUME Next
  PROVE  \/ UNCHANGED cookie
         \/ \E b : cookie' = [cookie EXCEPT ![b] = 0]
         \/ \E b \in Browser, p \in Provider : Start(b, p)
<1> DEFINE Moved == UNCHANGED cookie \/ \E b : cookie' = [cookie EXCEPT ![b] = 0]
<1>1. ASSUME NEW r, Reply(r) PROVE Moved
  BY <1>1 DEF Reply
<1>2. ASSUME NEW r, NEW l, Continue(r, l) PROVE Moved
  BY <1>2 DEF Continue
<1>3. ASSUME NEW r \in Request, SignIn(r) PROVE Moved
  <2>1. ASSUME NEW b \in Browser, NEW p \in Provider, ClaimState(r, b, p) PROVE Moved
    BY <1>2, <2>1 DEF ClaimState, Claim
  <2>2. ASSUME NEW l, ProvisionOrReply(r, l) PROVE Moved
    BY <1>1, <1>2, <2>2 DEF ProvisionOrReply
  <2>3. ASSUME NEW claims \in Claims, FindLink(r, claims) PROVE Moved
    BY <1>1, <1>2, <2>2, <2>3 DEF FindLink
  <2>4. ASSUME FindByEmail(r) PROVE Moved
    BY <1>2, <2>2, <2>4 DEF FindByEmail
  <2>5. ASSUME LoadProvider(r) \/ ReadAccount(r) \/ Provision(r) \/ LinkUser(r) \/ Open(r)
        PROVE  Moved
    BY <1>1, <1>2, <2>5 DEF LoadProvider, Goto, ReadAccount, Provision, LinkUser, Open
  <2> QED
    BY <1>3, <2>1, <2>3, <2>4, <2>5 DEF SignIn
<1>4. ASSUME NEW r \in Request, Unlink(r) \/ Abort(r) PROVE Moved
  BY <1>2, <1>4 DEF Unlink, LockUser, CountLinks, DeleteLink, Abort, Finish, Goto
<1> QED
  BY <1>3, <1>4 DEF Next, Begin, ManageProvider, RefuseCallback, Register, SetPassword,
     SetUserEnabled, DeleteUser, CreateProvider, SetProviderEnabled, DeleteProvider, Purge, Tick

LEMMA NextCookies ==
  ASSUME Shape, Next
  PROVE  cookie' \in [Browser -> 0..Len(states')] /\ CookiesOwn'
<1>1. /\ cookie \in [Browser -> 0..Len(states)] /\ Len(states) \in Nat
      /\ DOMAIN states = 1..Len(states) /\ CookiesOwn
  BY TableTypes DEF Shape
<1>2. /\ StatesKept /\ Len(states') \in Nat
  BY StatesMove
<1>3. ASSUME \A b \in Browser : cookie'[b] \in {0, cookie[b]}, cookie' = [b \in Browser |-> cookie'[b]]
      PROVE  cookie' \in [Browser -> 0..Len(states')] /\ CookiesOwn'
  <2>1. \A b \in Browser : cookie'[b] \in 0..Len(states')
    BY <1>1, <1>2, <1>3 DEF StatesKept
  <2>2. ASSUME NEW b \in Browser, cookie'[b] # 0 PROVE states'[cookie'[b]].browser = b
    <3>1. cookie'[b] = cookie[b] /\ cookie[b] \in DOMAIN states /\ states[cookie[b]].browser = b
      BY <1>1, <1>3, <2>2 DEF CookiesOwn
    <3> QED
      BY <1>2, <3>1 DEF StatesKept
  <2>3. cookie' \in [Browser -> 0..Len(states')]
    BY <1>3, <2>1
  <2> QED
    BY <2>2, <2>3 DEF CookiesOwn
<1>4. CASE UNCHANGED cookie
  BY <1>1, <1>3, <1>4
<1>5. ASSUME NEW b, cookie' = [cookie EXCEPT ![b] = 0]
      PROVE  cookie' \in [Browser -> 0..Len(states')] /\ CookiesOwn'
  BY <1>1, <1>3, <1>5
<1>6. ASSUME NEW b \in Browser, NEW p \in Provider, Start(b, p)
      PROVE  cookie' \in [Browser -> 0..Len(states')] /\ CookiesOwn'
  <2>1. /\ Len(states') = Len(states) + 1 /\ states'[Len(states) + 1].browser = b
        /\ cookie' = [cookie EXCEPT ![b] = Len(states) + 1]
    BY <1>6, StartIs DEF Start
  <2>2. cookie' \in [Browser -> 0..Len(states')]
    BY <1>1, <2>1
  <2>3. ASSUME NEW c \in Browser, cookie'[c] # 0 PROVE states'[cookie'[c]].browser = c
    <3>1. CASE c = b
      BY <1>1, <2>1, <3>1
    <3>2. CASE c # b
      <4>1. cookie'[c] = cookie[c] /\ cookie[c] \in DOMAIN states /\ states[cookie[c]].browser = c
        BY <1>1, <2>1, <2>3, <3>2 DEF CookiesOwn
      <4> QED
        BY <1>2, <4>1 DEF StatesKept
    <3> QED
      BY <3>1, <3>2
  <2> QED
    BY <2>2, <2>3 DEF CookiesOwn
<1> QED
  BY <1>4, <1>5, <1>6, CookiesMove

-----------------------------------------------------------------------------
(* An account that was once there is not made again; while it is there it  *)
(* keeps its address and its password.                                     *)
Remains(u) ==
  users[u].status # "unused" =>
    /\ users'[u].status # "unused"
    /\ users'[u].status = "present" =>
         /\ users[u].status = "present" /\ users'[u].email = users[u].email
         /\ users[u].password => users'[u].password

EmailsApart ==
  \A u, v \in User : Present(u) /\ Present(v) /\ users[u].email = users[v].email => u = v

LEMMA OneAccount ==
  ASSUME Shape, NEW u \in User, NEW row \in Account, users' = [users EXCEPT ![u] = row],
         users[u].status # "unused" => row.status # "unused",
         users[u].status # "unused" /\ row.status = "present" =>
           /\ Present(u) /\ row.email = users[u].email
           /\ users[u].password => row.password,
         ~Present(u) /\ row.status = "present" => ~EmailTaken(row.email)
  PROVE  users' \in [User -> Account] /\ (\A v \in User : Remains(v)) /\ EmailsApart'
<1>1. users \in [User -> Account] /\ EmailsApart
  BY DEF Shape, TypeOK, EmailsApart
<1>2. /\ users' \in [User -> Account] /\ users'[u] = row
      /\ \A v \in User \ {u} : users'[v] = users[v]
  BY <1>1
<1>3. ASSUME NEW v \in User PROVE Remains(v)
  <2>1. CASE v = u
    BY <1>2, <2>1 DEF Remains, Present
  <2>2. CASE v # u
    BY <1>2, <2>2 DEF Remains
  <2> QED
    BY <2>1, <2>2
<1>4. ASSUME NEW v \in User \ {u}, row.status = "present", users[v].status = "present",
             row.email = users[v].email
      PROVE  FALSE
  <2>1. CASE Present(u)
    BY <1>1, <1>4, <2>1 DEF EmailsApart, Present
  <2>2. CASE ~Present(u)
    BY <1>4, <2>2 DEF EmailTaken, Present
  <2> QED
    BY <2>1, <2>2
<1>5. ASSUME NEW v \in User, NEW w \in User, v # w, users'[v].status = "present",
             users'[w].status = "present", users'[v].email = users'[w].email
      PROVE  FALSE
  <2>1. CASE v = u
    BY <1>2, <1>4, <1>5, <2>1
  <2>2. CASE w = u
    BY <1>2, <1>4, <1>5, <2>2
  <2>3. CASE v # u /\ w # u
    BY <1>1, <1>2, <1>5, <2>3 DEF EmailsApart, Present
  <2> QED
    BY <2>1, <2>2, <2>3
<1> QED
  BY <1>2, <1>3, <1>5 DEF EmailsApart, Present

LEMMA UsersMove ==
  ASSUME Shape, Next
  PROVE  users' \in [User -> Account] /\ (\A u \in User : Remains(u)) /\ EmailsApart'
<1> DEFINE Moved == users' \in [User -> Account] /\ (\A u \in User : Remains(u)) /\ EmailsApart'
<1>1. users \in [User -> Account] /\ EmailsApart
  BY DEF Shape, TypeOK, EmailsApart
<1>2. CASE UNCHANGED users
  BY <1>1, <1>2 DEF Remains, EmailsApart, Present
<1>3. ASSUME NEW r \in Request, Provision(r) PROVE Moved
  <2>1. CASE UNCHANGED users
    BY <1>2, <2>1
  <2>2. ASSUME NEW u \in User, ~EmailTaken(req[r].email), users[u].status = "unused",
               users' = [users EXCEPT ![u] = [status |-> "present", email |-> req[r].email,
                                              password |-> FALSE, enabled |-> TRUE]]
        PROVE  Moved
    <3> DEFINE row == [status |-> "present", email |-> req[r].email, password |-> FALSE,
                       enabled |-> TRUE]
    <3>1. row \in Account /\ row.status = "present" /\ row.email = req[r].email
      BY <1>3, RequestTypes DEF Provision, Fits, Account
    <3>2. users' = [users EXCEPT ![u] = row]
      BY <2>2
    <3> HIDE DEF row
    <3> QED
      BY <2>2, <3>1, <3>2, OneAccount
  <2> QED
    BY <1>3, <2>1, <2>2 DEF Provision
<1>4. ASSUME NEW u \in User, NEW e \in Email, Register(u, e) PROVE Moved
  <2> DEFINE row == [status |-> "present", email |-> e, password |-> TRUE, enabled |-> TRUE]
  <2>1. row \in Account /\ row.status = "present" /\ row.email = e
    BY DEF Account
  <2>2. /\ users' = [users EXCEPT ![u] = row] /\ users[u].status = "unused"
        /\ ~EmailTaken(e)
    BY <1>4 DEF Register
  <2> HIDE DEF row
  <2> QED
    BY <2>1, <2>2, OneAccount
<1>5. ASSUME NEW u \in User, SetPassword(u) PROVE Moved
  <2> DEFINE row == [users[u] EXCEPT !.password = TRUE]
  <2>1. row \in Account /\ row.status = users[u].status /\ row.email = users[u].email
    BY <1>1 DEF Account
  <2>2. row.password
    BY <1>1 DEF Account
  <2>3. users' = [users EXCEPT ![u] = row] /\ Present(u)
    BY <1>5 DEF SetPassword
  <2> HIDE DEF row
  <2> QED
    BY <2>1, <2>2, <2>3, OneAccount
<1>6. ASSUME NEW u \in User, SetUserEnabled(u) PROVE Moved
  <2> DEFINE row == [users[u] EXCEPT !.enabled = ~@]
  <2>1. row \in Account /\ row.status = users[u].status /\ row.email = users[u].email
    BY <1>1 DEF Account
  <2>2. row.password = users[u].password
    BY <1>1 DEF Account
  <2>3. users' = [users EXCEPT ![u] = row] /\ Present(u)
    BY <1>6 DEF SetUserEnabled
  <2> HIDE DEF row
  <2> QED
    BY <2>1, <2>2, <2>3, OneAccount
<1>7. ASSUME NEW u \in User, DeleteUser(u) PROVE Moved
  <2> DEFINE row == [Unused EXCEPT !.status = "deleted"]
  <2>1. row \in Account /\ row.status = "deleted"
    BY DEF Unused, Account
  <2>2. users' = [users EXCEPT ![u] = row]
    BY <1>7 DEF DeleteUser
  <2> HIDE DEF row
  <2> QED
    BY <2>1, <2>2, OneAccount
<1> QED
  BY <1>2, <1>3, <1>4, <1>5, <1>6, <1>7, Writers

-----------------------------------------------------------------------------
(* What stands behind a request stands after every step.                   *)
LEMMA ThroughStands ==
  ASSUME Shape, Next, NEW n, NEW p, NEW s, NEW u, Through(n, p, s, u)
  PROVE  Through(n, p, s, u)'
BY LinksMove DEF Through, LinksKept

LEMMA ClaimedStands ==
  ASSUME Shape, Next, NEW n, NEW b, Claimed(n, b)
  PROVE  Claimed(n, b)' /\ states'[n].provider = states[n].provider
BY StatesMove DEF Claimed, StatesKept

LEMMA ProvesStands ==
  ASSUME Shape, Next, NEW p, NEW e, NEW v, NEW u \in User, users[u].status # "unused",
         Proves(p, e, v, u)
  PROVE  users'[u].status # "unused" /\ Proves(p, e, v, u)'
BY UsersMove DEF Proves, Remains, Present

LEMMA FitsStands ==
  ASSUME Shape, Next, NEW l \in Locals, Fits(l)
  PROVE  Fits(l)'
<1>1. SigningIn(l) => /\ Claimed(l.state, l.browser)'
                      /\ l.at # "provider" => states'[l.state].provider = l.provider
  BY ClaimedStands DEF Fits
<1>2. l.at \in {"link", "count", "unlink"} => users'[l.user].status # "unused"
  BY UsersMove DEF Remains, Fits
<1>3. l.at \in {"account", "open"} => Through(l.link, l.provider, l.subject, l.user)'
  BY ThroughStands DEF Fits
<1>4. ASSUME l.at = "link", ~l.provisioned
      PROVE  Proves(l.provider, l.email, l.verified, l.user)'
  <2>1. /\ l.user \in User /\ users[l.user].status # "unused"
        /\ Proves(l.provider, l.email, l.verified, l.user)
    BY <1>4 DEF Fits
  <2> QED
    BY <2>1, ProvesStands
<1> QED
  BY <1>1, <1>2, <1>3, <1>4 DEF Fits, SigningIn, Unlinks

-----------------------------------------------------------------------------
(* How a request moves: its state is its own or was free, its lock was     *)
(* free, it unlinks where that leaves a way in, and it does not drop the   *)
(* account it provisioned.                                                 *)
Becomes(l, k) ==
  /\ SigningIn(l) => \/ SigningIn(k) /\ l.state = k.state
                     \/ ~states[l.state].consumed
  /\ Unlinks(l) => \/ Unlinks(k) /\ l.user = k.user
                   \/ ~Locked(l.user)
  /\ l.at = "unlink" => Enough(l.user) /\ UNCHANGED <<users, links, stranded>>
  /\ k.at = "link" /\ k.provisioned =>
       k.user \in stranded' \/ \E n \in DOMAIN links' : ~links'[n].deleted /\ links'[n].user = k.user

Moves(r) ==
  \E l \in Locals : req' = [req EXCEPT ![r] = l] /\ Fits(l)' /\ Becomes(l, req[r])

LEMMA MovesTo ==
  ASSUME Shape, Next, NEW r \in Request, NEW l \in Locals,
         req' = [req EXCEPT ![r] = l], Fits(l), Becomes(l, req[r])
  PROVE  Moves(r)
<1>1. Fits(l)'
  BY FitsStands
<1> QED
  BY <1>1 DEF Moves

(* A sign-in goes on with its state.                                       *)
LEMMA GoesOn ==
  ASSUME Shape, Next, NEW r \in Request, NEW l \in Locals,
         req' = [req EXCEPT ![r] = l], Fits(l), SigningIn(l), l.state = req[r].state,
         SigningIn(req[r]), req[r].at # "link"
  PROVE  Moves(r)
<1>1. Becomes(l, req[r])
  BY DEF Becomes, SigningIn, Unlinks
<1> QED
  BY <1>1, MovesTo

LEMMA BlankFits == Blank \in Locals /\ Blank.at = "idle" /\ Fits(Blank)
BY DEF Blank, Locals, At, Fits, SigningIn, Unlinks

LEMMA Ends ==
  ASSUME Shape, Next, NEW r \in Request, req' = [req EXCEPT ![r] = Blank],
         req[r].at = "link" /\ req[r].provisioned => req[r].user \in stranded'
  PROVE  Moves(r)
<1>1. Becomes(Blank, req[r])
  BY BlankFits DEF Becomes, SigningIn, Unlinks
<1> QED
  BY <1>1, BlankFits, MovesTo

LEMMA ReplyMoves ==
  ASSUME Shape, Next, NEW r \in Request, Reply(r) \/ Finish(r), req[r].at # "link"
  PROVE  Moves(r)
BY Ends DEF Reply, Finish, Continue

LEMMA ClaimMoves ==
  ASSUME Shape, Next, NEW r \in Request, NEW b \in Browser, NEW p \in Provider,
         ClaimState(r, b, p)
  PROVE  UNCHANGED req \/ Moves(r)
<1>1. CASE ~Claimable(cookie[b])
  BY <1>1 DEF ClaimState, Claim
<1>2. CASE Claimable(cookie[b])
  <2> DEFINE n == cookie[b]
             l == [Blank EXCEPT !.at = "provider", !.browser = b, !.state = n, !.provider = p]
  <2>1. /\ n \in DOMAIN states /\ states[n].browser = b /\ ~states[n].consumed
        /\ states' \in Seq(LoginState) /\ StatesKept /\ states'[n].consumed
    BY <1>2, ClaimIs
  <2>2. req' = [req EXCEPT ![r] = l] /\ req[r].at = "idle"
    BY <1>2 DEF ClaimState, Claim, Continue
  <2>3. n \in Nat
    BY <2>1, StateTypes
  <2>4. l \in Locals /\ l.at = "provider" /\ l.browser = b /\ l.state = n /\ l.provider = p
    BY <2>3, BlankFits DEF Locals, At, Blank
  <2> HIDE DEF l, n
  <2>5. PICK m \in Locals : m = l
    BY <2>4
  <2>6. m.at = "provider" /\ m.browser = b /\ m.state = n /\ m.provider = p
    BY <2>4, <2>5
  <2>7. Claimed(m.state, m.browser)'
    BY <2>1, <2>6 DEF Claimed, StatesKept
  <2>8. Fits(m)'
    BY <2>6, <2>7 DEF Fits, SigningIn, Unlinks
  <2>9. Becomes(m, req[r])
    BY <2>1, <2>2, <2>6 DEF Becomes, Unlinks
  <2> QED
    BY <2>2, <2>5, <2>8, <2>9 DEF Moves
<1> QED
  BY <1>1, <1>2

LEMMA LoadProviderMoves ==
  ASSUME Shape, Next, NEW r \in Request, LoadProvider(r)
  PROVE  Moves(r)
<1> DEFINE k == req[r]
           l == [k EXCEPT !.at = "find"]
<1>1. k \in Locals /\ Fits(k) /\ k.at = "provider" /\ SigningIn(k)
  BY RequestTypes DEF LoadProvider, SigningIn, At
<1>2. CASE Reply(r)
  BY <1>1, <1>2, ReplyMoves
<1>3. CASE Goto(r, "find") /\ states[k.state].provider = k.provider
  <2>1. /\ l \in Locals /\ l.at = "find" /\ l.browser = k.browser /\ l.state = k.state
        /\ l.provider = k.provider
    BY <1>1 DEF Locals, At
  <2>2. req' = [req EXCEPT ![r] = l]
    BY <1>3 DEF Goto, Continue
  <2> HIDE DEF l
  <2>3. Fits(l) /\ SigningIn(l)
    BY <1>1, <1>3, <2>1 DEF Fits, SigningIn, Unlinks, At
  <2> QED
    BY <1>1, <2>1, <2>2, <2>3, GoesOn
<1> QED
  BY <1>2, <1>3 DEF LoadProvider

LEMMA ProvisionOrReplyMoves ==
  ASSUME Shape, Next, NEW r \in Request, NEW k \in Locals, ProvisionOrReply(r, k),
         SigningIn(req[r]), req[r].at # "link", k.state = req[r].state,
         k.browser \in Browser, k.provider \in Provider, k.subject \in Subject,
         Claimed(k.state, k.browser), states[k.state].provider = k.provider
  PROVE  Moves(r)
<1> DEFINE l == [k EXCEPT !.at = "provision", !.verified = FALSE]
<1>1. CASE Reply(r)
  BY <1>1, ReplyMoves
<1>2. CASE k.email # None /\ Continue(r, l)
  <2>1. /\ l \in Locals /\ l.at = "provision" /\ l.browser = k.browser /\ l.state = k.state
        /\ l.provider = k.provider /\ l.subject = k.subject /\ l.email = k.email
    BY DEF Locals, At
  <2>2. req' = [req EXCEPT ![r] = l] /\ k.email \in Email
    BY <1>2 DEF Continue, Locals
  <2> HIDE DEF l
  <2>3. Fits(l) /\ SigningIn(l)
    BY <2>1, <2>2 DEF Fits, SigningIn, Unlinks, At
  <2> QED
    BY <2>1, <2>2, <2>3, GoesOn
<1> QED
  BY <1>1, <1>2 DEF ProvisionOrReply

LEMMA FindLinkMoves ==
  ASSUME Shape, Next, NEW r \in Request, NEW claims \in Claims, FindLink(r, claims)
  PROVE  Moves(r)
<1> DEFINE k == req[r]
           told == [k EXCEPT !.subject = claims.subject, !.email = claims.email,
                             !.verified = claims.verified]
           found == {n \in DOMAIN links : LiveLink(n) /\ links[n].provider = k.provider
                                                     /\ links[n].subject = claims.subject}
<1>1. k \in Locals /\ Fits(k) /\ k.at = "find" /\ SigningIn(k)
  BY RequestTypes DEF FindLink, SigningIn, At
<1>2. /\ k.browser \in Browser /\ k.provider \in Provider /\ Claimed(k.state, k.browser)
      /\ states[k.state].provider = k.provider
  BY <1>1 DEF Fits
<1>3. /\ claims.subject \in Subject /\ claims.email \in Email \cup {None}
      /\ claims.verified \in BOOLEAN
  BY DEF Claims
<1>4. /\ told \in Locals /\ told.browser = k.browser /\ told.state = k.state
      /\ told.provider = k.provider /\ told.subject = claims.subject
      /\ told.email = claims.email
  BY <1>1, <1>3 DEF Locals
<1>5. told.verified = claims.verified
  BY <1>1, <1>3 DEF Locals
<1>6. CASE Reply(r)
  BY <1>1, <1>6, ReplyMoves
<1>7. ASSUME NEW n \in found,
             Continue(r, [k EXCEPT !.at = "account", !.subject = claims.subject,
                                   !.user = links[n].user, !.link = n])
      PROVE  Moves(r)
  <2> DEFINE l == [k EXCEPT !.at = "account", !.subject = claims.subject,
                            !.user = links[n].user, !.link = n]
  <2>1. /\ n \in DOMAIN links /\ links[n].provider = k.provider
        /\ links[n].subject = claims.subject /\ links[n].user \in User /\ n \in Nat
    BY LinkTypes
  <2>2. /\ l \in Locals /\ l.at = "account" /\ l.browser = k.browser /\ l.state = k.state
        /\ l.provider = k.provider /\ l.subject = claims.subject /\ l.user = links[n].user
        /\ l.link = n
    BY <1>1, <1>3, <2>1 DEF Locals, At
  <2>3. req' = [req EXCEPT ![r] = l]
    BY <1>7 DEF Continue
  <2> HIDE DEF l
  <2>4. Fits(l) /\ SigningIn(l)
    BY <1>2, <1>3, <2>1, <2>2 DEF Fits, SigningIn, Unlinks, At, Through
  <2> QED
    BY <1>1, <2>2, <2>3, <2>4, GoesOn
<1>8. CASE Trusted(r, claims.email, claims.verified) /\ Continue(r, [told EXCEPT !.at = "adopt"])
  <2> DEFINE l == [told EXCEPT !.at = "adopt"]
  <2>1. k.provider \in Adopts /\ claims.verified /\ claims.email \in Email
    BY <1>3, <1>8 DEF Trusted
  <2>2. req' = [req EXCEPT ![r] = l]
    BY <1>8 DEF Continue
  <2> HIDE DEF told
  <2>3. /\ l \in Locals /\ l.at = "adopt" /\ l.browser = k.browser /\ l.state = k.state
        /\ l.provider = k.provider /\ l.subject = claims.subject /\ l.email = claims.email
    BY <1>4 DEF Locals, At
  <2>4. l.verified
    BY <1>4, <1>5, <2>1 DEF Locals
  <2> HIDE DEF l
  <2>5. Fits(l) /\ SigningIn(l)
    BY <1>2, <1>3, <2>1, <2>3, <2>4 DEF Fits, SigningIn, Unlinks, At
  <2> QED
    BY <1>1, <2>2, <2>3, <2>5, GoesOn
<1>9. CASE ProvisionOrReply(r, told)
  <2> HIDE DEF told
  <2> QED
    BY <1>1, <1>2, <1>3, <1>4, <1>9, ProvisionOrReplyMoves
<1> QED
  BY <1>6, <1>7, <1>8, <1>9 DEF FindLink

LEMMA FindByEmailMoves ==
  ASSUME Shape, Next, NEW r \in Request, FindByEmail(r)
  PROVE  Moves(r)
<1> DEFINE k == req[r]
<1>1. k \in Locals /\ Fits(k) /\ k.at = "adopt" /\ SigningIn(k)
  BY RequestTypes DEF FindByEmail, SigningIn, At
<1>2. /\ k.browser \in Browser /\ k.provider \in Provider /\ Claimed(k.state, k.browser)
      /\ states[k.state].provider = k.provider /\ k.subject \in Subject
      /\ k.provider \in Adopts /\ k.verified
  BY <1>1 DEF Fits
<1>3. ASSUME NEW u \in User, Present(u), users[u].email = k.email,
             Continue(r, [k EXCEPT !.at = "link", !.user = u, !.enabled = users[u].enabled])
      PROVE  Moves(r)
  <2> DEFINE l == [k EXCEPT !.at = "link", !.user = u, !.enabled = users[u].enabled]
  <2>1. users[u].enabled \in BOOLEAN
    BY TableTypes DEF Account
  <2>2. /\ l \in Locals /\ l.at = "link" /\ l.browser = k.browser /\ l.state = k.state
        /\ l.provider = k.provider /\ l.subject = k.subject /\ l.email = k.email /\ l.user = u
    BY <1>1, <2>1 DEF Locals, At
  <2>3. l.verified = k.verified
    BY <1>1 DEF Locals
  <2>4. req' = [req EXCEPT ![r] = l]
    BY <1>3 DEF Continue
  <2> HIDE DEF l
  <2>5. Proves(l.provider, l.email, l.verified, l.user) /\ users[l.user].status # "unused"
    BY <1>2, <1>3, <2>2, <2>3 DEF Proves, Present
  <2>6. Fits(l) /\ SigningIn(l)
    BY <1>2, <2>2, <2>5 DEF Fits, SigningIn, Unlinks, At
  <2> QED
    BY <1>1, <2>2, <2>4, <2>6, GoesOn
<1>4. CASE ProvisionOrReply(r, k)
  BY <1>1, <1>2, <1>4, ProvisionOrReplyMoves
<1> QED
  BY <1>3, <1>4 DEF FindByEmail

LEMMA ReadAccountMoves ==
  ASSUME Shape, Next, NEW r \in Request, ReadAccount(r)
  PROVE  Moves(r)
<1> DEFINE k == req[r]
           l == [k EXCEPT !.at = "open", !.enabled = users[k.user].enabled]
<1>1. k \in Locals /\ Fits(k) /\ k.at = "account" /\ SigningIn(k)
  BY RequestTypes DEF ReadAccount, SigningIn, At
<1>2. CASE Reply(r)
  BY <1>1, <1>2, ReplyMoves
<1>3. CASE Continue(r, l)
  <2>1. k.user \in User /\ users[k.user].enabled \in BOOLEAN
    BY <1>1, TableTypes DEF Fits, Account
  <2>2. /\ l \in Locals /\ l.at = "open" /\ l.browser = k.browser /\ l.state = k.state
        /\ l.provider = k.provider /\ l.subject = k.subject /\ l.user = k.user
        /\ l.link = k.link
    BY <1>1, <2>1 DEF Locals, At
  <2>3. req' = [req EXCEPT ![r] = l]
    BY <1>3 DEF Continue
  <2> HIDE DEF l
  <2>4. Fits(l) /\ SigningIn(l)
    BY <1>1, <2>1, <2>2 DEF Fits, SigningIn, Unlinks, At
  <2> QED
    BY <1>1, <2>2, <2>3, <2>4, GoesOn
<1> QED
  BY <1>2, <1>3 DEF ReadAccount

LEMMA ProvisionMoves ==
  ASSUME Shape, Next, NEW r \in Request, Provision(r)
  PROVE  Moves(r)
<1> DEFINE k == req[r]
<1>1. k \in Locals /\ Fits(k) /\ k.at = "provision" /\ SigningIn(k)
  BY RequestTypes DEF Provision, SigningIn, At
<1>2. CASE Reply(r)
  BY <1>1, <1>2, ReplyMoves
<1>3. ASSUME NEW u \in User,
             users' = [users EXCEPT ![u] = [status |-> "present", email |-> k.email,
                                            password |-> FALSE, enabled |-> TRUE]],
             Continue(r, [k EXCEPT !.at = "link", !.user = u, !.enabled = TRUE,
                                   !.email = None, !.provisioned = TRUE])
      PROVE  Moves(r)
  <2> DEFINE l == [k EXCEPT !.at = "link", !.user = u, !.enabled = TRUE,
                            !.email = None, !.provisioned = TRUE]
  <2>1. /\ l \in Locals /\ l.at = "link" /\ l.browser = k.browser /\ l.state = k.state
        /\ l.provider = k.provider /\ l.subject = k.subject /\ l.user = u
    BY <1>1 DEF Locals, At
  <2>2. l.provisioned
    BY <1>1 DEF Locals
  <2>3. req' = [req EXCEPT ![r] = l]
    BY <1>3 DEF Continue
  <2>4. users'[u].status = "present"
    BY <1>3, TableTypes
  <2> HIDE DEF l
  <2>5. PICK m \in Locals : m = l
    BY <2>1
  <2>6. PICK c \in Locals : c = k
    BY <1>1
  <2>7. /\ m.at = "link" /\ m.browser = c.browser /\ m.state = c.state
        /\ m.provider = c.provider /\ m.subject = c.subject /\ m.user = u /\ m.provisioned
    BY <2>1, <2>2, <2>5, <2>6
  <2>8. Fits(c)' /\ c.at = "provision" /\ SigningIn(c)
    BY <1>1, <2>6, FitsStands
  <2>9. Fits(m)'
    BY <2>4, <2>7, <2>8 DEF Fits, SigningIn, Unlinks, At
  <2>10. Becomes(m, k)
    BY <1>1, <2>6, <2>7, <2>8 DEF Becomes, SigningIn, Unlinks
  <2> QED
    BY <2>3, <2>5, <2>9, <2>10 DEF Moves
<1> QED
  BY <1>2, <1>3 DEF Provision

LEMMA LinkUserMoves ==
  ASSUME Shape, Next, NEW r \in Request, LinkUser(r)
  PROVE  Moves(r)
<1> DEFINE k == req[r]
           n == Len(links) + 1
           l == [k EXCEPT !.at = "open", !.link = n, !.email = None,
                          !.verified = FALSE, !.provisioned = FALSE]
<1>1. k \in Locals /\ Fits(k) /\ k.at = "link" /\ SigningIn(k)
  BY RequestTypes DEF LinkUser, SigningIn, At
<1>2. CASE Reply(r) /\ stranded' = Stranded(r)
  BY <1>1, <1>2, Ends DEF Reply, Stranded
<1>3. CASE Linked(r) /\ Continue(r, l)
  <2>1. /\ DOMAIN links' = DOMAIN links \cup {n} /\ links'[n] = NewLink(r)
    BY <1>3, LinkedIs
  <2>2. /\ NewLink(r).provider = k.provider /\ NewLink(r).subject = k.subject
        /\ NewLink(r).user = k.user /\ ~NewLink(r).deleted
    BY DEF NewLink
  <2>3. n \in Nat
    BY TableTypes
  <2>4. req' = [req EXCEPT ![r] = l]
    BY <1>3 DEF Continue
  <2> HIDE DEF n
  <2>5. /\ l \in Locals /\ l.at = "open" /\ l.browser = k.browser /\ l.state = k.state
        /\ l.provider = k.provider /\ l.subject = k.subject /\ l.user = k.user /\ l.link = n
    BY <1>1, <2>3 DEF Locals, At
  <2> HIDE DEF l
  <2>6. PICK m \in Locals : m = l
    BY <2>5
  <2>7. PICK c \in Locals : c = k
    BY <1>1
  <2>8. /\ m.at = "open" /\ m.browser = c.browser /\ m.state = c.state
        /\ m.provider = c.provider /\ m.subject = c.subject /\ m.user = c.user /\ m.link = n
    BY <2>5, <2>6, <2>7
  <2>9. Fits(c)' /\ c.at = "link" /\ SigningIn(c)
    BY <1>1, <2>7, FitsStands
  <2>10. Through(m.link, m.provider, m.subject, m.user)'
    BY <2>1, <2>2, <2>7, <2>8 DEF Through
  <2>11. Fits(m)'
    BY <2>8, <2>9, <2>10 DEF Fits, SigningIn, Unlinks, At
  <2>12. \E i \in DOMAIN links' : ~links'[i].deleted /\ links'[i].user = k.user
    BY <2>1, <2>2
  <2>13. Becomes(m, k)
    BY <2>7, <2>8, <2>9, <2>12 DEF Becomes, SigningIn, Unlinks
  <2> QED
    BY <2>4, <2>6, <2>11, <2>13 DEF Moves
<1> QED
  BY <1>2, <1>3 DEF LinkUser, Linked

LEMMA LockUserMoves ==
  ASSUME Shape, Next, NEW r \in Request, NEW p \in Provider, NEW u \in User, LockUser(r, p, u)
  PROVE  Moves(r)
<1> DEFINE l == [Blank EXCEPT !.at = "count", !.provider = p, !.user = u]
<1>1. l \in Locals /\ l.at = "count" /\ l.provider = p /\ l.user = u
  BY BlankFits DEF Locals, At, Blank
<1>2. /\ req' = [req EXCEPT ![r] = l] /\ req[r].at = "idle" /\ ~Locked(u)
      /\ users[u].status # "unused"
  BY DEF LockUser, Continue, Present
<1> HIDE DEF l
<1>3. Fits(l) /\ Becomes(l, req[r])
  BY <1>1, <1>2 DEF Fits, SigningIn, Unlinks, Becomes
<1> QED
  BY <1>1, <1>2, <1>3, MovesTo

(* A finite set of more than one has two.                                  *)
LEMMA MoreThanOne ==
  ASSUME NEW S, IsFiniteSet(S), ~(Cardinality(S) <= 1)
  PROVE  \E n, m \in S : n # m
<1>1. S # {}
  BY FS_EmptySet
<1>2. PICK n \in S : TRUE
  BY <1>1
<1>3. S # {n}
  BY FS_Singleton
<1> QED
  BY <1>2, <1>3

LEMMA LinksFinite ==
  ASSUME Shape, NEW u
  PROVE  IsFiniteSet(LinksOf(u))
<1>1. DOMAIN links = 1..Len(links) /\ Len(links) \in Nat
  BY TableTypes
<1>2. IsFiniteSet(1..Len(links))
  BY <1>1, FS_Interval
<1>3. LinksOf(u) \subseteq 1..Len(links)
  BY <1>1 DEF LinksOf
<1> QED
  BY <1>2, <1>3, FS_Subset

LEMMA CountLinksMoves ==
  ASSUME Shape, Next, NEW r \in Request, CountLinks(r)
  PROVE  Moves(r)
<1> DEFINE k == req[r]
           l == [k EXCEPT !.at = "unlink"]
<1>1. k \in Locals /\ Fits(k) /\ k.at = "count" /\ Unlinks(k)
  BY RequestTypes DEF CountLinks, Unlinks
<1>2. CASE Finish(r)
  BY <1>1, <1>2, ReplyMoves
<1>3. CASE /\ Goto(r, "unlink")
           /\ users[k.user].password \/ ~(Cardinality(LinksOf(k.user)) <= 1)
  <2>1. l \in Locals /\ l.at = "unlink" /\ l.provider = k.provider /\ l.user = k.user
    BY <1>1 DEF Locals, At
  <2>2. req' = [req EXCEPT ![r] = l] /\ UNCHANGED <<users, links, stranded>>
    BY <1>3 DEF Goto, Continue, CountLinks
  <2> HIDE DEF l
  <2>3. Enough(l.user)
    BY <1>3, <2>1, LinksFinite, MoreThanOne DEF Enough
  <2>4. Fits(l)
    BY <1>1, <2>1 DEF Fits, SigningIn, Unlinks
  <2>5. Becomes(l, k)
    BY <1>1, <2>1, <2>2, <2>3 DEF Becomes, SigningIn, Unlinks
  <2> QED
    BY <2>1, <2>2, <2>4, <2>5, MovesTo
<1> QED
  BY <1>2, <1>3 DEF CountLinks

LEMMA AbortMoves ==
  ASSUME Shape, Next, NEW r \in Request, Abort(r)
  PROVE  Moves(r)
BY Ends DEF Abort, Finish, Continue, Stranded

(* In every step at most one request moves.                                *)
LEMMA NextMoves ==
  ASSUME Shape, Next
  PROVE  UNCHANGED req \/ \E r \in Request : Moves(r)
<1>1. ASSUME NEW r \in Request, Open(r) \/ DeleteLink(r) PROVE Moves(r)
  BY <1>1, ReplyMoves DEF Open, DeleteLink
<1>2. ASSUME NEW r \in Request, SignIn(r) PROVE UNCHANGED req \/ Moves(r)
  BY <1>1, <1>2, ClaimMoves, LoadProviderMoves, FindLinkMoves, FindByEmailMoves,
     ReadAccountMoves, ProvisionMoves, LinkUserMoves DEF SignIn
<1>3. ASSUME NEW r \in Request, Unlink(r) \/ Abort(r) PROVE Moves(r)
  BY <1>1, <1>3, LockUserMoves, CountLinksMoves, AbortMoves DEF Unlink
<1>4. ASSUME ~\E r \in Request : SignIn(r) \/ Unlink(r) \/ Abort(r) PROVE UNCHANGED req
  BY <1>4 DEF Next, RefuseCallback, Begin, Start, Register, SetPassword, SetUserEnabled,
              DeleteUser, CreateProvider, ManageProvider, SetProviderEnabled, DeleteProvider,
              Purge, Tick
<1> QED
  BY <1>2, <1>3, <1>4

LEMMA RequestsMove ==
  ASSUME Shape, Next
  PROVE  /\ req' \in [Request -> Locals]
         /\ \A r \in Request : Fits(req[r])'
         /\ \A r \in Request :
              \/ req'[r] = req[r]
              \/ /\ Becomes(req'[r], req[r])
                 /\ \A q \in Request \ {r} : req'[q] = req[q]
<1>1. req \in [Request -> Locals]
  BY TableTypes
<1>2. ASSUME NEW r \in Request PROVE Fits(req[r]) /\ req[r] \in Locals
  BY RequestTypes
<1>3. CASE UNCHANGED req
  <2>1. ASSUME NEW r \in Request PROVE Fits(req[r])'
    <3>1. PICK l \in Locals : l = req[r]
      BY <1>2
    <3>2. Fits(l)'
      BY <1>2, <3>1, FitsStands
    <3> QED
      BY <1>3, <3>1, <3>2
  <2> QED
    BY <1>1, <1>3, <2>1
<1>4. ASSUME NEW q \in Request, Moves(q)
      PROVE  /\ req' \in [Request -> Locals]
             /\ \A r \in Request : Fits(req[r])'
             /\ \A r \in Request :
                  \/ req'[r] = req[r]
                  \/ /\ Becomes(req'[r], req[r])
                     /\ \A p \in Request \ {r} : req'[p] = req[p]
  <2>1. PICK l \in Locals : req' = [req EXCEPT ![q] = l] /\ Fits(l)' /\ Becomes(l, req[q])
    BY <1>4 DEF Moves
  <2>2. /\ req' \in [Request -> Locals] /\ req'[q] = l
        /\ \A p \in Request \ {q} : req'[p] = req[p]
    BY <1>1, <2>1
  <2>3. ASSUME NEW r \in Request PROVE Fits(req[r])'
    <3>1. CASE r = q
      BY <2>1, <2>2, <3>1
    <3>2. CASE r # q
      <4>1. PICK k \in Locals : k = req[r]
        BY <1>2
      <4>2. Fits(k)'
        BY <1>2, <4>1, FitsStands
      <4> QED
        BY <2>2, <3>2, <4>1, <4>2
    <3> QED
      BY <3>1, <3>2
  <2>4. ASSUME NEW r \in Request
        PROVE  \/ req'[r] = req[r]
               \/ /\ Becomes(req'[r], req[r])
                  /\ \A p \in Request \ {r} : req'[p] = req[p]
    BY <2>1, <2>2
  <2> QED
    BY <2>2, <2>3, <2>4
<1> QED
  BY <1>3, <1>4, NextMoves

-----------------------------------------------------------------------------
(* Who leaves was deleted.                                                 *)
LEMMA Leaves ==
  ASSUME Shape, Next, NEW u \in User, users[u].status = "present", users'[u].status # "present"
  PROVE  DeleteUser(u)
<1>1. users \in [User -> Account]
  BY TableTypes
<1>2. ASSUME NEW r \in Request, Provision(r) PROVE FALSE
  BY <1>1, <1>2 DEF Provision
<1>3. ASSUME NEW v \in User, NEW e \in Email, Register(v, e) PROVE FALSE
  BY <1>1, <1>3 DEF Register
<1>4. ASSUME NEW v \in User, SetPassword(v) \/ SetUserEnabled(v) PROVE FALSE
  BY <1>1, <1>4 DEF SetPassword, SetUserEnabled, Account
<1>5. ASSUME NEW v \in User \ {u} PROVE ~DeleteUser(v)
  BY <1>1 DEF DeleteUser
<1> QED
  BY <1>2, <1>3, <1>4, <1>5, Writers

LEMMA ProviderLeaves ==
  ASSUME Shape, Next, NEW p \in Provider, Exists(p), ~(providers'[p] \in {"enabled", "disabled"})
  PROVE  DeleteProvider(p)
<1>1. providers \in [Provider -> {"unused", "enabled", "disabled", "deleted"}]
  BY TableTypes
<1> QED
  BY <1>1, Writers DEF CreateProvider, SetProviderEnabled, DeleteProvider, Exists

(* Who arrives has a password, or is about to get a link.                  *)
LEMMA Arrives ==
  ASSUME Shape, Next, NEW u \in User, users[u].status # "present", users'[u].status = "present"
  PROVE  \/ users'[u].password
         \/ \E r \in Request : req'[r].at = "link" /\ req'[r].provisioned /\ req'[r].user = u
<1>1. users \in [User -> Account]
  BY TableTypes
<1>2. ASSUME NEW r \in Request, Provision(r)
      PROVE  req'[r].at = "link" /\ req'[r].provisioned /\ req'[r].user = u
  <2>1. PICK v \in User :
          /\ users' = [users EXCEPT ![v] = [status |-> "present", email |-> req[r].email,
                                            password |-> FALSE, enabled |-> TRUE]]
          /\ Continue(r, [req[r] EXCEPT !.at = "link", !.user = v, !.enabled = TRUE,
                                        !.email = None, !.provisioned = TRUE])
    BY <1>2 DEF Provision
  <2>2. v = u
    BY <1>1, <2>1
  <2>3. req[r] \in Locals /\ req \in [Request -> Locals]
    BY RequestTypes
  <2> DEFINE l == [req[r] EXCEPT !.at = "link", !.user = v, !.enabled = TRUE,
                                 !.email = None, !.provisioned = TRUE]
  <2>4. l.at = "link" /\ l.user = u
    BY <2>2, <2>3 DEF Locals
  <2>5. l.provisioned
    BY <2>3 DEF Locals
  <2>6. req'[r] = l
    BY <2>1, <2>3 DEF Continue
  <2> HIDE DEF l
  <2> QED
    BY <2>4, <2>5, <2>6
<1>3. ASSUME NEW v \in User, NEW e \in Email, Register(v, e) PROVE users'[u].password
  BY <1>1, <1>3 DEF Register
<1>4. ASSUME NEW v \in User, SetPassword(v) \/ SetUserEnabled(v) \/ DeleteUser(v) PROVE FALSE
  BY <1>1, <1>4 DEF SetPassword, SetUserEnabled, DeleteUser, Unused, Present
<1> QED
  BY <1>2, <1>3, <1>4, Writers

(* A link of the table after a step was there before it, or is the one     *)
(* just made.                                                              *)
LEMMA LinkCame ==
  ASSUME Shape, Next, NEW n \in DOMAIN links', ~links'[n].deleted
  PROVE  \/ n \in DOMAIN links /\ LiveLink(n)
         \/ \E r \in Request : Linked(r) /\ n = Len(links) + 1 /\ links'[n] = NewLink(r)
<1>1. CASE n \in DOMAIN links
  BY <1>1, LinksMove, LinkTypes DEF LinksKept, LiveLink
<1>2. CASE n \notin DOMAIN links
  BY <1>2, LinksMove, LinkedIs
<1> QED
  BY <1>1, <1>2

(* A step that makes a link is LinkUser's.                                 *)
LEMMA LinkedHow ==
  ASSUME Shape, Next, NEW r \in Request, Linked(r)
  PROVE  UNCHANGED <<users, providers>>
<1>1. Len(links) + 1 \in DOMAIN links' /\ Len(links) + 1 \notin DOMAIN links
  BY LinkedIs
<1>2. links' # links
  BY <1>1
<1>3. ASSUME NEW X, links' = Without(links, X) PROVE FALSE
  BY <1>1, <1>3, LinksWithout
<1> QED
  BY <1>2, <1>3, Writers DEF LinkUser, DeleteLink, DeleteUser, DeleteProvider

LEMMA LiveLinksStand ==
  ASSUME Shape, Next, NEW n \in DOMAIN links', ~links'[n].deleted
  PROVE  /\ users'[links'[n].user].status = "present"
         /\ providers'[links'[n].provider] \in {"enabled", "disabled"}
<1>1. ASSUME NEW r \in Request, Linked(r), links'[n] = NewLink(r)
      PROVE  /\ users'[links'[n].user].status = "present"
             /\ providers'[links'[n].provider] \in {"enabled", "disabled"}
  <2>1. /\ Present(req[r].user) /\ Exists(req[r].provider)
        /\ links'[n].user = req[r].user /\ links'[n].provider = req[r].provider
    BY <1>1 DEF Linked, NewLink
  <2> QED
    BY <1>1, <2>1, LinkedHow DEF Present, Exists
<1>2. CASE n \in DOMAIN links /\ LiveLink(n)
  <2>1. /\ links[n].user \in User /\ links[n].provider \in Provider
        /\ Present(links[n].user) /\ Exists(links[n].provider)
        /\ links'[n].user = links[n].user /\ links'[n].provider = links[n].provider
    BY <1>2, LinkTypes, LinksMove DEF LinksKept
  <2>2. ASSUME users'[links[n].user].status # "present" PROVE FALSE
    <3>1. DeleteUser(links[n].user)
      BY <2>1, <2>2, Leaves DEF Present
    <3> QED
      BY <1>2, <3>1, LinksWithout DEF DeleteUser, LinksOf
  <2>3. ASSUME ~(providers'[links[n].provider] \in {"enabled", "disabled"}) PROVE FALSE
    <3>1. DeleteProvider(links[n].provider)
      BY <2>1, <2>3, ProviderLeaves
    <3> QED
      BY <1>2, <3>1, LinksWithout DEF DeleteProvider
  <2> QED
    BY <2>1, <2>2, <2>3
<1> QED
  BY <1>1, <1>2, LinkCame

-----------------------------------------------------------------------------
(* What a sign-in records of its outcome.                                  *)
Result(l) == [state |-> l.state, browser |-> l.browser, provider |-> l.provider,
              subject |-> l.subject, user |-> l.user, link |-> l.link]

Done(r) ==
  /\ req[r].at = "open" /\ req' = [req EXCEPT ![r] = Blank]
  /\ outcomes' = Append(outcomes, Result(req[r]))

LEMMA DoneIs ==
  ASSUME Shape, NEW r \in Request, Done(r)
  PROVE  /\ outcomes' \in Seq(Outcome)
         /\ DOMAIN outcomes' = DOMAIN outcomes \cup {Len(outcomes) + 1}
         /\ outcomes'[Len(outcomes) + 1] = Result(req[r])
         /\ \A i \in DOMAIN outcomes : outcomes'[i] = outcomes[i]
         /\ Stands(Result(req[r])) /\ Result(req[r]).state = req[r].state
         /\ SigningIn(req[r]) /\ ~SigningIn(req'[r])
<1> DEFINE k == req[r]
<1>1. k.at = "open" /\ Fits(k) /\ k \in Locals /\ SigningIn(k)
  BY RequestTypes DEF Done, SigningIn, At
<1>2. /\ k.browser \in Browser /\ k.provider \in Provider /\ k.subject \in Subject
      /\ k.user \in User /\ Claimed(k.state, k.browser)
      /\ states[k.state].provider = k.provider
      /\ Through(k.link, k.provider, k.subject, k.user)
  BY <1>1 DEF Fits
<1>3. k.state \in Nat /\ k.link \in Nat
  BY <1>1 DEF Locals
<1>4. Result(k) \in Outcome
  BY <1>2, <1>3 DEF Result, Outcome
<1>5. Stands(Result(k)) /\ Result(k).state = k.state
  BY <1>2 DEF Stands, Result
<1>6. /\ outcomes' \in Seq(Outcome)
      /\ DOMAIN outcomes' = DOMAIN outcomes \cup {Len(outcomes) + 1}
      /\ outcomes'[Len(outcomes) + 1] = Result(k)
      /\ \A i \in DOMAIN outcomes : outcomes'[i] = outcomes[i]
  BY <1>4, TableTypes, Appended DEF Done
<1>7. ~SigningIn(req'[r])
  BY RequestTypes, BlankFits DEF Done, SigningIn
<1> QED
  BY <1>1, <1>5, <1>6, <1>7

LEMMA OutcomesMove ==
  ASSUME Shape, Next
  PROVE  UNCHANGED outcomes \/ \E r \in Request : Done(r)
BY Writers DEF Open, Done, Result, Reply

LEMMA StandsStays ==
  ASSUME Shape, Next, NEW o, Stands(o)
  PROVE  Stands(o)'
BY ClaimedStands, ThroughStands DEF Stands

LEMMA NextOutcomesStand ==
  ASSUME Shape, OutcomesStand, Next
  PROVE  OutcomesStand'
<1>1. ASSUME NEW o, Stands(o) PROVE Stands(o)'
  BY <1>1, StandsStays
<1>2. CASE UNCHANGED outcomes
  <2> SUFFICES ASSUME NEW i \in DOMAIN outcomes PROVE Stands(outcomes[i])'
    BY <1>2 DEF OutcomesStand
  <2>1. PICK o \in {outcomes[i]} : TRUE
    OBVIOUS
  <2>2. Stands(o)'
    BY <1>1, <2>1 DEF OutcomesStand
  <2> QED
    BY <1>2, <2>1, <2>2
<1>3. ASSUME NEW r \in Request, Done(r) PROVE OutcomesStand'
  <2> SUFFICES ASSUME NEW i \in DOMAIN outcomes' PROVE Stands(outcomes[i])'
    BY DEF OutcomesStand
  <2>1. Stands(outcomes'[i])
    BY <1>3, DoneIs DEF OutcomesStand
  <2>2. PICK o \in {outcomes'[i]} : TRUE
    OBVIOUS
  <2>3. Stands(o)'
    BY <1>1, <2>1, <2>2
  <2> QED
    BY <2>2, <2>3
<1> QED
  BY <1>2, <1>3, OutcomesMove

LEMMA NextShape ==
  ASSUME Shape, Next
  PROVE  Shape'
<1>1. providers' \in [Provider -> {"unused", "enabled", "disabled", "deleted"}]
  BY TableTypes, Writers DEF CreateProvider, SetProviderEnabled, DeleteProvider
<1>2. users' \in [User -> Account] /\ EmailsApart'
  BY UsersMove
<1>3. links' \in Seq(Link) /\ states' \in Seq(LoginState)
  BY LinksMove, StatesMove
<1>4. \A n \in DOMAIN links' : ~links'[n].deleted =>
        /\ users'[links'[n].user].status = "present"
        /\ providers'[links'[n].provider] \in {"enabled", "disabled"}
  BY LiveLinksStand
<1>5. cookie' \in [Browser -> 0..Len(states')] /\ CookiesOwn'
  BY NextCookies
<1>6. outcomes' \in Seq(Outcome)
  BY TableTypes, OutcomesMove, DoneIs
<1>7. req' \in [Request -> Locals] /\ \A r \in Request : Fits(req[r])'
  BY RequestsMove
<1>8. stranded' \subseteq User
  <2>1. stranded \subseteq User
    BY DEF Shape, TypeOK
  <2>2. ASSUME NEW r \in Request, LinkUser(r) \/ Abort(r) PROVE stranded' \subseteq User
    BY <2>1, <2>2, RequestTypes DEF LinkUser, Abort, Stranded, Fits
  <2>3. ASSUME NEW p \in Provider, DeleteProvider(p) PROVE stranded' \subseteq User
    BY <2>1, <2>3, LinkTypes DEF DeleteProvider
  <2> QED
    BY <2>1, <2>2, <2>3, Writers DEF DeleteUser
<1>9. changes' \in Nat /\ now' \in Nat
  <2>1. changes \in Nat /\ now \in Nat
    BY DEF Shape, TypeOK
  <2> QED
    BY <2>1, Writers DEF Tick, Change
<1>10. TypeOK'
  BY <1>1, <1>2, <1>3, <1>4, <1>5, <1>6, <1>7, <1>8, <1>9
     DEF TypeOK, EmailsApart, Present, Exists, LiveLink
<1> QED
  BY <1>5, <1>7, <1>10 DEF Shape

LEMMA NextStatesApart ==
  ASSUME Shape, StatesApart, OutcomesStand, Next
  PROVE  StatesApart'
<1>1. ASSUME NEW r \in Request, SigningIn(req[r]) PROVE states[req[r].state].consumed
  BY <1>1, RequestTypes DEF Fits, Claimed
<1>2. ASSUME NEW i \in DOMAIN outcomes PROVE states[outcomes[i].state].consumed
  BY <1>2 DEF OutcomesStand, Stands, Claimed
<1>3. ASSUME NEW r \in Request, NEW q \in Request \ {r}, SigningIn(req'[r]), SigningIn(req'[q])
      PROVE  req'[r].state # req'[q].state
  <2>1. ASSUME NEW p \in Request, NEW m \in Request \ {p}, req'[m] = req[m],
               Becomes(req'[p], req[p]), SigningIn(req'[p]), SigningIn(req'[m])
        PROVE  req'[p].state # req'[m].state
    BY <1>1, <2>1 DEF Becomes, StatesApart
  <2>2. CASE req'[r] = req[r] /\ req'[q] = req[q]
    BY <1>3, <2>2 DEF StatesApart
  <2>3. CASE req'[r] # req[r]
    BY <1>3, <2>1, <2>3, RequestsMove
  <2>4. CASE req'[q] # req[q]
    BY <1>3, <2>1, <2>4, RequestsMove
  <2> QED
    BY <2>2, <2>3, <2>4
<1>4. ASSUME NEW r \in Request, NEW i \in DOMAIN outcomes, SigningIn(req'[r])
      PROVE  req'[r].state # outcomes[i].state
  <2>1. CASE req'[r] = req[r]
    BY <1>4, <2>1 DEF StatesApart
  <2>2. CASE req'[r] # req[r]
    BY <1>2, <1>4, <2>2, RequestsMove DEF Becomes, StatesApart
  <2> QED
    BY <2>1, <2>2
<1>5. CASE UNCHANGED outcomes
  BY <1>3, <1>4, <1>5 DEF StatesApart, SigningIn
<1>6. ASSUME NEW p \in Request, Done(p) PROVE StatesApart'
  <2> DEFINE n == Len(outcomes) + 1
  <2>1. /\ DOMAIN outcomes' = DOMAIN outcomes \cup {n}
        /\ outcomes'[n].state = req[p].state
        /\ \A i \in DOMAIN outcomes : outcomes'[i] = outcomes[i]
        /\ SigningIn(req[p]) /\ ~SigningIn(req'[p])
        /\ \A q \in Request \ {p} : req'[q] = req[q]
    BY <1>6, DoneIs, TableTypes DEF Done
  <2> HIDE DEF n
  <2>2. ASSUME NEW r \in Request, NEW i \in DOMAIN outcomes', SigningIn(req'[r])
        PROVE  req'[r].state # outcomes'[i].state
    <3>1. r # p /\ req'[r] = req[r]
      BY <2>1, <2>2
    <3>2. CASE i = n
      BY <2>1, <2>2, <3>1, <3>2 DEF StatesApart
    <3>3. CASE i \in DOMAIN outcomes
      BY <1>4, <2>1, <2>2, <3>3
    <3> QED
      BY <2>1, <3>2, <3>3
  <2>3. ASSUME NEW i \in DOMAIN outcomes PROVE req[p].state # outcomes[i].state
    BY <2>1 DEF StatesApart
  <2>4. ASSUME NEW i \in DOMAIN outcomes', NEW j \in DOMAIN outcomes',
               outcomes'[i].state = outcomes'[j].state
        PROVE  i = j
    BY <2>1, <2>3, <2>4 DEF StatesApart
  <2> QED
    BY <1>3, <2>2, <2>4 DEF StatesApart, SigningIn
<1> QED
  BY <1>5, <1>6, OutcomesMove

LEMMA NextLinksApart ==
  ASSUME Shape, LinksApart, Next
  PROVE  LinksApart'
<1>1. ASSUME NEW n \in DOMAIN links', NEW m \in DOMAIN links', n # m,
             ~links'[n].deleted, ~links'[m].deleted, links'[n].provider = links'[m].provider,
             links'[n].subject = links'[m].subject \/ links'[n].user = links'[m].user
      PROVE  FALSE
  <2>1. ASSUME NEW r \in Request, Linked(r), NEW i \in DOMAIN links, ~links'[i].deleted,
               links'[i].provider = NewLink(r).provider
        PROVE  links'[i].subject # NewLink(r).subject /\ links'[i].user # NewLink(r).user
    BY <2>1, LinkedIs DEF Linked, Unlinked, NewLink, LiveLink
  <2>2. CASE n \in DOMAIN links /\ m \in DOMAIN links
    BY <1>1, <2>2, LinkCame, LinksMove, LinkTypes DEF LinksApart, LinksKept, LiveLink
  <2>3. CASE n \notin DOMAIN links
    BY <1>1, <2>1, <2>3, LinkCame, LinkedIs
  <2>4. CASE m \notin DOMAIN links
    BY <1>1, <2>1, <2>4, LinkCame, LinkedIs
  <2> QED
    BY <2>2, <2>3, <2>4
<1> QED
  BY <1>1 DEF LinksApart, LiveLink

LEMMA NextLinkProven ==
  ASSUME Shape, LinkProven, Next
  PROVE  LinkProven'
<1> SUFFICES ASSUME NEW n \in DOMAIN links', ~links'[n].deleted, ~links'[n].provisioned
             PROVE  /\ links'[n].provider \in Adopts /\ links'[n].verified
                    /\ links'[n].email = users'[links'[n].user].email
  BY DEF LinkProven, LiveLink
<1>1. CASE n \in DOMAIN links /\ LiveLink(n)
  <2>1. /\ links'[n].provider = links[n].provider /\ links'[n].user = links[n].user
        /\ links'[n].email = links[n].email /\ links'[n].verified = links[n].verified
        /\ links'[n].provisioned = links[n].provisioned
    BY <1>1, LinksMove DEF LinksKept
  <2>2. /\ links[n].provider \in Adopts /\ links[n].verified
        /\ links[n].email = users[links[n].user].email
    BY <1>1, <2>1 DEF LinkProven
  <2>3. links[n].user \in User /\ users[links[n].user].status = "present"
    BY <1>1, LinkTypes DEF Present
  <2>4. users'[links[n].user].status = "present"
    BY <2>1, LiveLinksStand
  <2>5. users'[links[n].user].email = users[links[n].user].email
    BY <2>3, <2>4, UsersMove DEF Remains
  <2> QED
    BY <2>1, <2>2, <2>5
<1>2. ASSUME NEW r \in Request, Linked(r), links'[n] = NewLink(r)
      PROVE  /\ links'[n].provider \in Adopts /\ links'[n].verified
             /\ links'[n].email = users'[links'[n].user].email
  <2>1. /\ links'[n].provider = req[r].provider /\ links'[n].user = req[r].user
        /\ links'[n].email = req[r].email /\ links'[n].verified = req[r].verified
        /\ links'[n].provisioned = req[r].provisioned
    BY <1>2 DEF NewLink
  <2>2. Proves(req[r].provider, req[r].email, req[r].verified, req[r].user) /\ Present(req[r].user)
    BY <1>2, <2>1, RequestTypes DEF Fits, Linked
  <2> QED
    BY <1>2, <2>1, <2>2, LinkedHow DEF Proves
<1> QED
  BY <1>1, <1>2, LinkCame

-----------------------------------------------------------------------------
LEMMA NextOneUnlink ==
  ASSUME Shape, OneUnlink, Next
  PROVE  OneUnlink'
<1> SUFFICES ASSUME NEW r \in Request, NEW q \in Request \ {r},
                    Unlinks(req'[r]), Unlinks(req'[q])
             PROVE  req'[r].user # req'[q].user
  BY DEF OneUnlink, Unlinks
<1>1. ASSUME NEW p \in Request, NEW m \in Request \ {p}, req'[m] = req[m],
             Becomes(req'[p], req[p]), Unlinks(req'[p]), Unlinks(req'[m])
      PROVE  req'[p].user # req'[m].user
  BY <1>1 DEF Becomes, OneUnlink, Locked, Unlinks
<1>2. CASE req'[r] = req[r] /\ req'[q] = req[q]
  BY <1>2 DEF OneUnlink
<1>3. CASE req'[r] # req[r]
  BY <1>1, <1>3, RequestsMove
<1>4. CASE req'[q] # req[q]
  BY <1>1, <1>4, RequestsMove
<1> QED
  BY <1>2, <1>3, <1>4

(* How an account loses a link while it is there: with the provider, or by *)
(* unlinking, which takes the link at one provider only.                   *)
LEMMA LinkLost ==
  ASSUME Shape, Next, NEW u \in User, users'[u].status = "present",
         NEW n \in LinksOf(u), n \notin LinksOf(u)'
  PROVE  \/ u \in stranded'
         \/ \E r \in Request : /\ DeleteLink(r) /\ req[r].user = u
                               /\ links[n].provider = req[r].provider
                               /\ UNCHANGED <<users, stranded>>
                               /\ \A m \in LinksOf(u) :
                                    links[m].provider # req[r].provider => m \in LinksOf(u)'
<1>1. n \in DOMAIN links /\ LiveLink(n) /\ links[n].user = u
  BY DEF LinksOf
<1>2. n \in DOMAIN links' /\ links'[n].user = u /\ links'[n].deleted
  BY <1>1, LinksMove DEF LinksKept, LinksOf, LiveLink
<1>3. CASE UNCHANGED links
  BY <1>1, <1>2, <1>3 DEF LiveLink
<1>4. ASSUME NEW r \in Request, LinkUser(r) PROVE FALSE
  <2>1. Linked(r) \/ UNCHANGED links
    BY <1>4 DEF LinkUser, Linked
  <2> QED
    BY <1>1, <1>2, <1>3, <2>1, LinkedIs DEF LiveLink
<1>5. ASSUME NEW r \in Request, DeleteLink(r)
      PROVE  /\ req[r].user = u /\ links[n].provider = req[r].provider
             /\ UNCHANGED <<users, stranded>>
             /\ \A m \in LinksOf(u) :
                  links[m].provider # req[r].provider => m \in LinksOf(u)'
  <2> DEFINE X == {i \in LinksOf(req[r].user) : links[i].provider = req[r].provider}
  <2>1. links' = Without(links, X) /\ UNCHANGED <<users, stranded>>
    BY <1>5 DEF DeleteLink
  <2>2. n \in X
    BY <1>1, <1>2, <2>1, LinksWithout DEF LiveLink
  <2>3. req[r].user = u
    BY <1>1, <2>2 DEF LinksOf
  <2>4. ASSUME NEW m \in LinksOf(u), links[m].provider # req[r].provider
        PROVE  m \in LinksOf(u)'
    <3>1. m \in DOMAIN links /\ LiveLink(m) /\ links[m].user = u /\ m \notin X
      BY <2>4 DEF LinksOf
    <3>2. m \in DOMAIN links' /\ ~links'[m].deleted /\ links'[m].user = u
      BY <2>1, <3>1, LinksWithout DEF LiveLink, LinksKept
    <3> QED
      BY <3>2 DEF LinksOf, LiveLink
  <2> QED
    BY <2>1, <2>2, <2>3, <2>4
<1>6. ASSUME NEW v \in User, DeleteUser(v) PROVE FALSE
  <2>1. links' = Without(links, LinksOf(v)) /\ users'[v].status # "present"
    BY <1>6, TableTypes DEF DeleteUser, Unused
  <2>2. n \in LinksOf(v)
    BY <1>1, <1>2, <2>1, LinksWithout DEF LiveLink
  <2> QED
    BY <1>1, <2>1, <2>2 DEF LinksOf
<1>7. ASSUME NEW p \in Provider, DeleteProvider(p) PROVE u \in stranded'
  <2> DEFINE gone == {i \in DOMAIN links : LiveLink(i) /\ links[i].provider = p}
  <2>1. links' = Without(links, gone) /\ stranded' = stranded \cup {links[i].user : i \in gone}
    BY <1>7 DEF DeleteProvider
  <2>2. n \in gone
    BY <1>1, <1>2, <2>1, LinksWithout DEF LiveLink
  <2> QED
    BY <1>1, <2>1, <2>2
<1> QED
  BY <1>3, <1>4, <1>5, <1>6, <1>7, Writers

(* Who lost a link with its provider is on record until deleted.           *)
LEMMA StrandedStay ==
  ASSUME Shape, Next, NEW u \in User, u \in stranded, users'[u].status = "present"
  PROVE  u \in stranded'
<1>1. ASSUME NEW r \in Request, LinkUser(r) \/ Abort(r) PROVE u \in stranded'
  BY <1>1 DEF LinkUser, Abort, Stranded
<1>2. ASSUME NEW v \in User, DeleteUser(v) PROVE u \in stranded'
  BY <1>2, TableTypes DEF DeleteUser, Unused
<1>3. ASSUME NEW p \in Provider, DeleteProvider(p) PROVE u \in stranded'
  BY <1>3 DEF DeleteProvider
<1> QED
  BY <1>1, <1>2, <1>3, Writers

LEMMA NextCountsHold ==
  ASSUME Shape, OneUnlink, CountsHold, Next
  PROVE  CountsHold'
<1> SUFFICES ASSUME NEW r \in Request, req'[r].at = "unlink"
             PROVE  Enough(req[r].user)'
  BY DEF CountsHold
<1>1. PICK u \in User : u = req'[r].user
  BY RequestsMove DEF Fits
<1> SUFFICES ASSUME users'[u].status = "present", ~users'[u].password, u \notin stranded'
             PROVE  \E n, m \in LinksOf(u)' : n # m
  BY <1>1 DEF Enough, Present
<1>2. CASE req'[r] = req[r]
  <2>1. users[u].status # "unused" /\ Enough(u) /\ u = req[r].user /\ req[r].at = "unlink"
    BY <1>1, <1>2, RequestTypes DEF CountsHold, Fits
  <2>2. users[u].status = "present" /\ ~users[u].password
    BY <2>1, UsersMove DEF Remains
  <2>3. u \notin stranded
    BY StrandedStay
  <2>4. PICK n \in LinksOf(u), m \in LinksOf(u) : n # m
    BY <2>1, <2>2, <2>3 DEF Enough, Present
  <2>5. ASSUME NEW q \in Request, DeleteLink(q), req[q].user = u PROVE FALSE
    <3>1. req[q].at = "unlink" /\ req' = [req EXCEPT ![q] = Blank]
      BY <2>5 DEF DeleteLink, Finish, Continue
    <3>2. q # r
      BY <3>1, TableTypes, BlankFits
    <3> QED
      BY <2>1, <2>5, <3>1, <3>2 DEF OneUnlink, Unlinks
  <2>6. n \in LinksOf(u)' /\ m \in LinksOf(u)'
    BY <2>5, LinkLost
  <2> QED
    BY <2>4, <2>6
<1>3. CASE req'[r] # req[r]
  <2>1. Enough(u) /\ UNCHANGED <<users, links, stranded>>
    BY <1>1, <1>3, RequestsMove DEF Becomes
  <2> QED
    BY <2>1 DEF Enough, Present, LinksOf, LiveLink
<1> QED
  BY <1>2, <1>3

LEMMA NextWayIn ==
  ASSUME Shape, LinksApart, CountsHold, LastWayInStays, Next
  PROVE  LastWayInStays'
<1> SUFFICES ASSUME NEW u \in User, users'[u].status = "present", ~users'[u].password,
                    LinksOf(u)' = {}, u \notin stranded'
             PROVE  \E r \in Request :
                      req'[r].at = "link" /\ req'[r].provisioned /\ req'[r].user = u
  BY DEF LastWayInStays, Present, WayIn
<1>1. CASE users[u].status # "present"
  BY <1>1, Arrives
<1>2. CASE users[u].status = "present"
  <2>1. ~users[u].password /\ u \notin stranded
    BY <1>2, UsersMove, StrandedStay DEF Remains
  <2>2. ASSUME NEW n \in LinksOf(u) PROVE FALSE
    <3>1. PICK r \in Request :
            /\ DeleteLink(r) /\ req[r].user = u /\ links[n].provider = req[r].provider
            /\ \A m \in LinksOf(u) :
                 links[m].provider # req[r].provider => m \in LinksOf(u)'
      BY <2>2, LinkLost
    <3>2. Enough(u)
      BY <3>1 DEF DeleteLink, CountsHold
    <3>3. PICK i \in LinksOf(u), j \in LinksOf(u) : i # j
      BY <1>2, <2>1, <3>2 DEF Enough, Present
    <3>4. links[i].provider # links[j].provider
      BY <3>3 DEF LinksApart, LinksOf
    <3> QED
      BY <3>1, <3>3, <3>4
  <2>3. PICK r \in Request : req[r].at = "link" /\ req[r].provisioned /\ req[r].user = u
    BY <1>2, <2>1, <2>2 DEF LastWayInStays, Present, WayIn
  <2>4. CASE req'[r] = req[r]
    BY <2>3, <2>4
  <2>5. CASE req'[r] # req[r]
    <3>1. \E n \in DOMAIN links' : ~links'[n].deleted /\ links'[n].user = u
      BY <2>3, <2>5, RequestsMove DEF Becomes
    <3> QED
      BY <3>1 DEF LinksOf, LiveLink
  <2> QED
    BY <2>4, <2>5
<1> QED
  BY <1>1, <1>2

-----------------------------------------------------------------------------
LEMMA InitIInv == Init => IInv
<1> SUFFICES ASSUME Init PROVE IInv
  OBVIOUS
<1>1. \A r \in Request : req[r].at = "idle"
  BY BlankFits DEF Init
<1>2. TypeOK
  <2>1. Unused \in Account /\ Unused.status = "unused"
    BY DEF Unused, Account
  <2>2. Blank \in Locals
    BY BlankFits
  <2>3. users \in [User -> Account] /\ \A u \in User : ~Present(u)
    BY <2>1 DEF Init, Present
  <2> QED
    BY <2>2, <2>3 DEF Init, TypeOK
<1>3. Shape
  BY <1>1, <1>2 DEF Init, Shape, CookiesOwn, Fits, SigningIn, Unlinks
<1>4. LinksApart /\ LinkProven
  BY DEF Init, LinksApart, LinkProven
<1>5. StatesApart /\ OutcomesStand
  BY <1>1 DEF Init, StatesApart, OutcomesStand, SigningIn
<1>6. OneUnlink /\ CountsHold
  BY <1>1 DEF OneUnlink, CountsHold, Unlinks
<1>7. LastWayInStays
  BY DEF Init, LastWayInStays, Present, Unused
<1> QED
  BY <1>3, <1>4, <1>5, <1>6, <1>7 DEF IInv

LEMMA NextIInv == IInv /\ [Next]_vars => IInv'
<1> SUFFICES ASSUME IInv, [Next]_vars PROVE IInv'
  OBVIOUS
<1>1. CASE Next
  BY <1>1, NextShape, NextLinksApart, NextStatesApart, NextOutcomesStand, NextOneUnlink,
     NextCountsHold, NextLinkProven, NextWayIn DEF IInv
<1>2. CASE UNCHANGED vars
  <2>1. TypeOK' /\ CookiesOwn'
    BY <1>2 DEF vars, IInv, Shape, TypeOK, CookiesOwn, Present, Exists, LiveLink
  <2>2. \A r \in Request : Fits(req[r])'
    BY <1>2 DEF vars, IInv, Shape, Fits, Claimed, Proves, Through, Present
  <2>3. LinksApart' /\ LinkProven'
    BY <1>2 DEF vars, IInv, LinksApart, LinkProven, LiveLink
  <2>4. StatesApart' /\ OutcomesStand'
    BY <1>2 DEF vars, IInv, StatesApart, OutcomesStand, Stands, Claimed, Through
  <2>5. OneUnlink' /\ CountsHold'
    BY <1>2 DEF vars, IInv, OneUnlink, CountsHold, Enough, Present, LinksOf, LiveLink
  <2>6. LastWayInStays'
    BY <1>2 DEF vars, IInv, LastWayInStays, Present, WayIn, LinksOf, LiveLink
  <2> QED
    BY <2>1, <2>2, <2>3, <2>4, <2>5, <2>6 DEF IInv, Shape
<1> QED
  BY <1>1, <1>2

LEMMA Invariance == Spec => []IInv
BY InitIInv, NextIInv, PTL DEF Spec

(* The variables keep their types; addresses are unique, and a link that   *)
(* is there is of an account and a provider that are.                      *)
THEOREM Typing == Spec => []TypeOK
<1>1. IInv => TypeOK
  BY DEF IInv, Shape
<1> QED
  BY <1>1, Invariance, PTL

(* However many callbacks present a state, in whatever browser and at      *)
(* whatever provider, it opens at most one sign-in, where it belongs       *)
(* (social.rs claim_state, server/src/federation.rs callback).             *)
THEOREM StatesOpenOneSignIn == Spec => []SignInBehindState
<1>1. IInv => SignInBehindState
  BY DEF IInv, StatesApart, OutcomesStand, Stands, Claimed, SignInBehindState
<1> QED
  BY <1>1, Invariance, PTL

(* An upstream account leads to one local account while its link is there, *)
(* also if two first sign-ins run at once, and to one that was provisioned *)
(* for it or whose address a trusted provider verified (identity/src/      *)
(* federation.rs resolve, adopt_or_provision and link).                    *)
THEOREM LinksLeadHome == Spec => []LinksHold
<1>1. LinksApart /\ OutcomesStand => OneAccountUpstream
  BY DEF LinksApart, OutcomesStand, Stands, Through, LiveLink, OneAccountUpstream
<1>2. IInv => LinksHold
  BY <1>1 DEF IInv, LinksHold
<1> QED
  BY <1>2, Invariance, PTL

(* However many links of an account are removed at once, the last way into *)
(* it stays (identity/src/federation.rs unlink), unless its provider goes  *)
(* or its provisioning stopped.                                            *)
THEOREM WaysInStay == Spec => []LastWayInStays
<1>1. IInv => LastWayInStays
  BY DEF IInv
<1> QED
  BY <1>1, Invariance, PTL
=============================================================================
