---------------------------- MODULE Administration ----------------------------
(***************************************************************************)
(* Administrative calls under way: each of the operations that a REST      *)
(* handler or a server function of the console carries out, one statement  *)
(* at a time, while other calls delete what it is about.  What they answer *)
(* and what they leave in the trail (identity/src/audit.rs), and the walk  *)
(* through the trail that the audit page makes, page after page.           *)
(*                                                                         *)
(* A row is a kind and an identifier.  A token or an upstream link has the *)
(* identifier of its account, an invitation that of its organization, and  *)
(* all links are to one provider: one of each is enough for what hangs on  *)
(* what.  The rows that join two others are not kept, nor is the tree of   *)
(* groups (that is in Access): a group that is deleted may take any other  *)
(* along, and any account may be a member of anything.                     *)
(***************************************************************************)
EXTENDS Server, HandlerTable, FiniteSets, SequencesExt

CONSTANTS
  Account, RowId,
  Elsewhere,      \* the identifier of a row in another realm
  Nowhere,        \* one of no row at all
  Absent,
  ActorOf,        \* the account each request acts for
  Offers,         \* the handlers it may call
  Aims,           \* the identifiers it may name
  Holdings,       \* the sets of permissions an account may have
  AccountsAtStart, RowsAtStart,
  Upstream,       \* the provider of the links
  Earlier,        \* how many events there are to begin with
  PageSize

ASSUME ActorAssumption == ActorOf \in [Request -> AccountsAtStart] /\ AccountsAtStart \subseteq Account
ASSUME RowAssumption == RowsAtStart \subseteq RowId /\ Upstream \in RowsAtStart
ASSUME OfferAssumption == Offers \in [Request -> SUBSET DOMAIN Handler]
ASSUME HoldingAssumption == Holdings \subseteq SUBSET Permissions
ASSUME NamesAssumption == /\ Elsewhere \notin Account \cup RowId \cup {Nowhere}
                          /\ Nowhere \notin Account \cup RowId
                          /\ Absent \notin DOMAIN Handler \cup AppError \cup {"done", "aborted"}
ASSUME TableAssumption == IsFiniteSet(Account) /\ IsFiniteSet(RowId)
ASSUME PageAssumption == Earlier \in Nat /\ PageSize \in Nat \ {0}

VARIABLES
  present,   \* the rows there are
  calls,     \* the calls
  events,    \* audit_events: how many were recorded, in order
  purged,    \* and how many of them, the oldest, were purged
  deleted    \* history: the rows that were deleted

administrationVars == <<present, calls, events, purged, deleted>>

OfAccounts == {"user", "api_token", "federated_identity"}
OfRows == {"role", "group", "organization", "invitation", "identity_provider", "client"}

Ids(kind) == (IF kind \in OfAccounts THEN Account ELSE RowId) \cup {Elsewhere}

Thing == UNION {{[kind |-> k, id |-> i] : i \in Ids(k)} : k \in OfAccounts \cup OfRows}

AccountRow(a) == [kind |-> "user", id |-> a]

(* What is deleted with what (ON DELETE CASCADE).                          *)
HangsOn(t) ==
  CASE t.kind = "api_token" -> {AccountRow(t.id)}
    [] t.kind = "federated_identity" ->
         {AccountRow(t.id), [kind |-> "identity_provider",
                             id |-> IF t.id = Elsewhere THEN Elsewhere ELSE Upstream]}
    [] t.kind = "invitation" -> {[kind |-> "organization", id |-> t.id]}
    [] OTHER -> {}

(* Mutant: what hangs on a row stays.                                      *)
OnlyTheRow(t) == {t}

TakenAlong(t) == {t} \cup {d \in present : t \in HangsOn(d)}

(* `at' is the statement to come.  `lacks': a permission is missing;       *)
(* `meant': it comes from a page of the console, with a token, or with     *)
(* nothing that a browser adds of its own; `whole': all that it looks for  *)
(* was there.  The last six are the walk through the trail.                *)
Call == [op : DOMAIN Handler \cup {Absent}, targets : Seq(Account \cup RowId \cup {Elsewhere, Nowhere}),
         at : Nat, lacks : BOOLEAN, meant : BOOLEAN, whole : BOOLEAN,
         answer : AppError \cup {"done", "aborted", Absent}, changed : BOOLEAN, recorded : BOOLEAN,
         agenda : Seq({"row", "members"} \X Thing),
         offset : Nat, total : Nat, shown : Nat, seen : SUBSET Nat, due : SUBSET Nat,
         landed : BOOLEAN]

BlankCall == [op |-> Absent, targets |-> <<>>, at |-> 0, lacks |-> FALSE, meant |-> FALSE,
              whole |-> FALSE, answer |-> Absent, changed |-> FALSE, recorded |-> FALSE,
              agenda |-> <<>>, offset |-> 0, total |-> 0, shown |-> 0, seen |-> {}, due |-> {},
              landed |-> FALSE]

AdministrationTypeOK ==
  /\ present \subseteq Thing /\ deleted \subseteq Thing
  /\ \A t \in present : HangsOn(t) \subseteq present
  /\ calls \in [Request -> Call]
  /\ \A r \in Request : calls[r].op # Absent => calls[r].at <= Len(Handler[calls[r].op].steps)
  /\ events \in Nat /\ purged \in 0..events

AdministrationInit ==
  /\ present = {t \in Thing : IF t.kind \in OfAccounts THEN t.id \in AccountsAtStart \cup {Elsewhere}
                              ELSE t.id \in RowsAtStart \cup {Elsewhere}}
  /\ calls = [r \in Request |-> BlankCall]
  /\ events = Earlier /\ purged = 0
  /\ deleted = {}

-----------------------------------------------------------------------------
Steps(c) == Handler[c.op].steps

Named(c) == LET names == Handler[c.op].names
            IN {[kind |-> names[i], id |-> c.targets[i]] : i \in DOMAIN names}

(* The row that a statement of a call is about.                            *)
RowOf(r, c, row) == [kind |-> row[1], id |-> IF row[2] = 0 THEN ActorOf[r] ELSE c.targets[row[2]]]

Of(r, row) == RowOf(r, calls[r], row)

ActsOnItself(r) == calls[r].targets[1] = ActorOf[r]

(* A client is found by its name in the realm, a link among those of the   *)
(* provider, an invitation among those of the organization that is named,  *)
(* or by the secret that was sent out.                                     *)
Reaches(c, t) ==
  /\ t.kind = "client" => t.id # Elsewhere
  /\ t.kind = "federated_identity" => HangsOn(t) \subseteq Named(c)
  /\ t.kind = "invitation" => \/ HangsOn(t) \subseteq Named(c)
                               \/ "organization" \notin Range(Handler[c.op].names)

IsFound(c, t) == t \in present /\ Reaches(c, t)

(* Mutant: a row is found wherever it is.                                  *)
AnyRealm(t) == t \in Thing

(* For another realm's row the answer is that there is none.               *)
SameRealm(t) == t.id # Elsewhere

Reply(c, answer) == [c EXCEPT !.answer = answer, !.at = 0, !.agenda = <<>>]

Onward(c) == IF c.at = Len(Steps(c)) THEN Reply(c, "done") ELSE [c EXCEPT !.at = @ + 1]

OnwardChanged(c) == [Onward(c) EXCEPT !.changed = TRUE]

Becomes(r, c) == calls' = [calls EXCEPT ![r] = c]

Now(r) == Steps(calls[r])[calls[r].at]

AtStatement(r, what) == calls[r].at > 0 /\ Now(r).do = what

-----------------------------------------------------------------------------
(* Arrival.                                                                *)

Trail == (purged + 1)..events

(* The rows that calls in progress create.                                 *)
Coming == UNION {{RowOf(r, calls[r], row) : row \in Inserted(calls[r].op)} :
                   r \in {q \in Request : calls[q].at > 0}}

(* An account, a group or the like is given an identifier when it is       *)
(* created; a role and a client are known by a name of the caller's, but   *)
(* for the client that anyone registers.                                   *)
TargetFits(op, i, id) ==
  LET kind == Handler[op].names[i]
  IN IF <<kind, i>> \notin Inserted(op) THEN id \in Ids(kind) \cup {Nowhere}
     ELSE /\ id \in Ids(kind) \ {Elsewhere}
          /\ \/ kind \in {"role", "client"} /\ op # "register"
             \/ [kind |-> kind, id |-> id] \notin present \cup deleted \cup Coming

Targets(r, op) ==
  {t \in [1..Len(Handler[op].names) -> Aims[r]] : \A i \in DOMAIN t : TargetFits(op, i, t[i])}

BegunCall(r, op, targets, held, meant) ==
  LET call == [BlankCall EXCEPT !.op = op, !.targets = targets, !.meant = meant,
                 !.lacks = \E p \in Handler[op].needs : ~Can(held, p),
                 !.due = IF op = "list_audit" THEN Trail ELSE {}]
      whole == \A row \in Sought(op) : LET t == RowOf(r, call, row)
                                       IN IsFound(call, t) /\ SameRealm(t)
  IN IF Steps(call) = <<>> THEN Reply([call EXCEPT !.whole = whole], "done")
     ELSE [call EXCEPT !.whole = whole, !.at = 1]

Waiting(r) == calls[r] = BlankCall

(* verify_csrf: the session's CSRF token, for more than reading.           *)
PassesCsrf(op, meant) == op \notin RestReads => meant

(* An API token, or a session and its CSRF token, which no page but the    *)
(* console's has.                                                          *)
ArriveRest(r) ==
  /\ Waiting(r) /\ AccountRow(ActorOf[r]) \in present
  /\ \E op \in Offers[r] \cap DOMAIN Rest, held \in Holdings, meant \in BOOLEAN :
       /\ PassesCsrf(op, meant)
       /\ \E targets \in Targets(r, op) : Becomes(r, BegunCall(r, op, targets, held, meant))
  /\ UNCHANGED <<present, events, purged, deleted>>

(* A session, and no sign of another origin.                               *)
ArriveConsole(r) ==
  /\ Waiting(r) /\ AccountRow(ActorOf[r]) \in present
  /\ \E op \in Offers[r] \cap DOMAIN Console, held \in Holdings :
       \E targets \in Targets(r, op) : Becomes(r, BegunCall(r, op, targets, held, TRUE))
  /\ UNCHANGED <<present, events, purged, deleted>>

(* No credential is asked for.                                             *)
ArriveUnsigned(r) ==
  /\ Waiting(r)
  /\ \E op \in Offers[r] \cap Unsigned :
       \E targets \in Targets(r, op) : Becomes(r, BegunCall(r, op, targets, {}, TRUE))
  /\ UNCHANGED <<present, events, purged, deleted>>

(* No credential that stands; none that shows the call was meant; no sense *)
(* in what was sent.                                                       *)
TurnAway(r) ==
  /\ Waiting(r)
  /\ \E answer \in {"unauthenticated", "forbidden", "malformed"} :
       Becomes(r, Reply(BlankCall, answer))
  /\ UNCHANGED <<present, events, purged, deleted>>

AbortCall(r) ==
  /\ calls[r].at > 0
  /\ Becomes(r, Reply(calls[r], "aborted"))
  /\ UNCHANGED <<present, events, purged, deleted>>

-----------------------------------------------------------------------------
(* Tests.                                                                  *)

Demand(r) ==
  /\ AtStatement(r, "require")
  /\ Becomes(r, IF calls[r].lacks THEN Reply(calls[r], "forbidden") ELSE Onward(calls[r]))
  /\ UNCHANGED <<present, events, purged, deleted>>

DemandUnlessOwn(r) ==
  /\ AtStatement(r, "requireUnlessOwn")
  /\ Becomes(r, IF ActsOnItself(r)
                THEN Onward([calls[r] EXCEPT !.at = @ + Now(r).own])
                ELSE IF calls[r].lacks THEN Reply(calls[r], "forbidden") ELSE Onward(calls[r]))
  /\ UNCHANGED <<present, events, purged, deleted>>

(* A value may be fit to be written or not: a name, a password, a URI.     *)
Check(r) ==
  /\ AtStatement(r, "validate")
  /\ \E c \in {Onward(calls[r]), Reply(calls[r], Now(r).otherwise)} : Becomes(r, c)
  /\ UNCHANGED <<present, events, purged, deleted>>

SpareActor(r) ==
  /\ AtStatement(r, "otherThanActor")
  /\ Becomes(r, IF ActsOnItself(r) THEN Reply(calls[r], "refused") ELSE Onward(calls[r]))
  /\ UNCHANGED <<present, events, purged, deleted>>

Read(r) ==
  /\ AtStatement(r, "query")
  /\ Becomes(r, Onward(calls[r]))
  /\ UNCHANGED <<present, events, purged, deleted>>

Find(r) ==
  /\ AtStatement(r, "look")
  /\ LET t == Of(r, Now(r).row)
     IN Becomes(r, IF IsFound(calls[r], t) /\ (Now(r).mine => SameRealm(t)) THEN Onward(calls[r])
                   ELSE Reply(calls[r], "notFound"))
  /\ UNCHANGED <<present, events, purged, deleted>>

(* The list is read once, its rows one by one after that; an organization  *)
(* is looked up again for its members and for its invitations.             *)
List(r) ==
  /\ AtStatement(r, "gather")
  /\ LET organizations == SetToSeq({t \in present : t.kind = "organization" /\ SameRealm(t)})
         listed(n) == <<IF n % 3 = 2 THEN "members" ELSE "row", organizations[(n + 2) \div 3]>>
     IN IF Now(r).what = "members"
        THEN Becomes(r, [Onward(calls[r]) EXCEPT !.agenda =
                           <<<<"members", Of(r, <<Handler[calls[r].op].names[1], 1>>)>>>>])
        ELSE Becomes(r, [Onward(calls[r]) EXCEPT !.agenda =
                           [n \in 1..(3 * Len(organizations)) |-> listed(n)]])
  /\ UNCHANGED <<present, events, purged, deleted>>

FindListed(r) ==
  /\ AtStatement(r, "each")
  /\ LET c == calls[r]
         users == {t \in present : t.kind = "user" /\ SameRealm(t)}
     IN \/ c.agenda = <<>> /\ Becomes(r, Onward(c))
        \/ /\ c.agenda # <<>> /\ Head(c.agenda)[1] = "row"
           /\ Becomes(r, IF Head(c.agenda)[2] \in present THEN [c EXCEPT !.agenda = Tail(@)]
                         ELSE Reply(c, "notFound"))
        \/ /\ c.agenda # <<>> /\ Head(c.agenda)[1] = "members"
           /\ \E members \in SUBSET users :
                /\ members # {} => Head(c.agenda)[2] \in present
                /\ Becomes(r, [c EXCEPT !.agenda = SetToSeq({"row"} \X members) \o Tail(@)])
  /\ UNCHANGED <<present, events, purged, deleted>>

-----------------------------------------------------------------------------
(* Writes.                                                                 *)

RefsStand(r, refs) == \A ref \in refs : Of(r, ref) \in present

(* Names are unique; those of accounts, groups and the like are left out.  *)
Duplicates(t) ==
  IF t.kind \in {"role", "client"} THEN {t \in present}
  ELSE {FALSE} \cup {TRUE : d \in {d \in present : d.kind = t.kind /\ SameRealm(d)}}

InsertRow(r) ==
  /\ AtStatement(r, "insert")
  /\ LET s == Now(r)
         t == Of(r, s.row)
     IN \E duplicate \in Duplicates(t) :
          IF duplicate /\ s.duplicate # "updated"
          THEN Becomes(r, Reply(calls[r], s.duplicate)) /\ UNCHANGED present
          ELSE IF ~RefsStand(r, s.refs)
          THEN Becomes(r, Reply(calls[r], "internal")) /\ UNCHANGED present
          ELSE Becomes(r, OnwardChanged(calls[r])) /\ present' = present \cup {t}
  /\ UNCHANGED <<events, purged, deleted>>

JoinRows(r) ==
  /\ AtStatement(r, "join")
  /\ Becomes(r, IF RefsStand(r, Now(r).refs) THEN OnwardChanged(calls[r])
                ELSE Reply(calls[r], "internal"))
  /\ UNCHANGED <<present, events, purged, deleted>>

(* Mutant: nobody asks whether the row was there.                          *)
MissingUnnoticed(r) == Onward(calls[r])

Missing(r) ==
  IF Now(r).missing = "unnoticed" THEN Onward(calls[r]) ELSE Reply(calls[r], Now(r).missing)

Refused(r) ==
  /\ Of(r, Now(r).lock) \in present
  /\ \E answer \in Now(r).may : Becomes(r, Reply(calls[r], answer))

ChangeRow(r) ==
  /\ AtStatement(r, "change")
  /\ \/ Refused(r)
     \/ Becomes(r, IF ~IsFound(calls[r], Of(r, Now(r).row)) THEN Missing(r)
                   ELSE IF RefsStand(r, Now(r).refs) THEN OnwardChanged(calls[r])
                   ELSE Reply(calls[r], "internal"))
  /\ UNCHANGED <<present, events, purged, deleted>>

RemoveRow(r) ==
  /\ AtStatement(r, "remove")
  /\ LET t == Of(r, Now(r).row)
         below == IF t.kind = "group" THEN {g \in present : g.kind = "group" /\ SameRealm(g)} ELSE {}
     IN \/ Refused(r) /\ UNCHANGED <<present, deleted>>
        \/ ~IsFound(calls[r], t) /\ Becomes(r, Missing(r)) /\ UNCHANGED <<present, deleted>>
        \/ /\ IsFound(calls[r], t) /\ Becomes(r, OnwardChanged(calls[r]))
           /\ \E also \in SUBSET below :
                /\ present' = present \ (TakenAlong(t) \cup also)
                /\ deleted' = deleted \cup TakenAlong(t) \cup also
  /\ UNCHANGED <<events, purged>>

-----------------------------------------------------------------------------
(* The trail.                                                              *)

(* A failure to record is logged and nothing more; an event names the      *)
(* account that acts, which must be there.                                 *)
RecordEvent(r) ==
  /\ AtStatement(r, "record")
  /\ IF AccountRow(ActorOf[r]) \in present
     THEN /\ events' = events + 1
          /\ calls' = [q \in Request |->
                         IF q = r THEN [Onward(calls[r]) EXCEPT !.recorded = TRUE]
                         ELSE [calls[q] EXCEPT !.landed = @ \/ AtStatement(q, "page")]]
     ELSE Becomes(r, Onward(calls[r])) /\ UNCHANGED events
  /\ UNCHANGED <<present, purged, deleted>>

CountEvents(r) ==
  /\ AtStatement(r, "count")
  /\ Becomes(r, [Onward(calls[r]) EXCEPT !.total = Cardinality(Trail)])
  /\ UNCHANGED <<present, events, purged, deleted>>

(* Mutant: the oldest events first.                                        *)
OldestFirst(offset) == {n \in Trail : n - purged - 1 \in offset..(offset + PageSize - 1)}

(* The newest events first.                                                *)
PageRows(offset) == {n \in Trail : events - n \in offset..(offset + PageSize - 1)}

ReadPage(r) ==
  /\ AtStatement(r, "page")
  /\ LET rows == PageRows(calls[r].offset)
     IN Becomes(r, [Onward(calls[r]) EXCEPT !.shown = Cardinality(rows), !.seen = @ \cup rows])
  /\ UNCHANGED <<present, events, purged, deleted>>

AtTheEnd(c) == c.offset + c.shown >= c.total

(* The button of the audit page that asks for the next page.               *)
Older(r) ==
  /\ calls[r].op = "list_audit" /\ calls[r].answer = "done" /\ ~AtTheEnd(calls[r])
  /\ Becomes(r, IF AccountRow(ActorOf[r]) \in present
                THEN [calls[r] EXCEPT !.offset = @ + PageSize, !.at = 1, !.answer = Absent]
                ELSE Reply(calls[r], "unauthenticated"))
  /\ UNCHANGED <<present, events, purged, deleted>>

(* The command line deletes the events older than some time.               *)
PurgeTrail ==
  /\ purged = 0
  /\ purged' \in Trail
  /\ UNCHANGED <<present, calls, events, deleted>>

-----------------------------------------------------------------------------
(* One step of a call.                                                     *)
Statement(r) ==
  \/ Demand(r) \/ DemandUnlessOwn(r) \/ Check(r) \/ SpareActor(r) \/ Read(r)
  \/ Find(r) \/ List(r) \/ FindListed(r)
  \/ InsertRow(r) \/ JoinRows(r) \/ ChangeRow(r) \/ RemoveRow(r)
  \/ RecordEvent(r) \/ CountEvents(r) \/ ReadPage(r)

AdministrationNext ==
  \/ \E r \in Request :
       \/ ArriveRest(r) \/ ArriveConsole(r) \/ ArriveUnsigned(r) \/ TurnAway(r)
       \/ AbortCall(r) \/ Statement(r) \/ Older(r)
  \/ PurgeTrail

AdministrationSpec == AdministrationInit /\ [][AdministrationNext]_administrationVars

-----------------------------------------------------------------------------
Answered(c) == c.answer # Absent

(* All that the statements of a call are about, the account that acts      *)
(* included, and for a list what may be on it.                             *)
RowsTouched(r) ==
  LET c == calls[r]
      rows(s) == (IF s.do \in {"look", "insert", "change", "remove"} THEN {s.row} ELSE {})
                 \cup (IF s.do \in {"insert", "join", "change"} THEN s.refs ELSE {})
      lists == \E n \in DOMAIN Steps(c) : Steps(c)[n].do = "gather"
  IN Named(c) \cup {AccountRow(ActorOf[r])}
     \cup {Of(r, row) : row \in UNION {rows(Steps(c)[n]) : n \in DOMAIN Steps(c)}}
     \cup IF lists THEN {t \in Thing : t.kind \in {"user", "organization"}} ELSE {}

Raced(r) == RowsTouched(r) \cap deleted # {}

Burnt(c) == c.op = "accept_invitation" /\ c.targets[1] = Elsewhere

(* admin.rs, same_realm: a call that names a row of another realm changes  *)
(* nothing, records nothing and does not succeed; what it answers says no  *)
(* more than that there is no such row, and to who lacks a permission says *)
(* not even that.  Three operations are told apart: a token is looked up   *)
(* before it is known whether a permission is needed, the role that is     *)
(* taken from a group is not looked up at all, and a link to an            *)
(* organization of another realm is spent on the account that presents it. *)
(* (What is open to anyone has no realm to stay in.)                       *)
RefusalsTellNothing ==
  \A r \in Request :
    LET c == calls[r]
        named == IF c.op = "revoke_group_role" THEN {c.targets[1]} ELSE Range(c.targets)
    IN c.op \notin {Absent} \cup DOMAIN Open /\ ~Burnt(c) /\ Elsewhere \in named =>
         /\ ~c.changed /\ ~c.recorded
         /\ Answered(c) => c.answer \in {"notFound", "forbidden", "refused", "aborted"}
         /\ c.answer = "notFound" => ~c.lacks \/ c.op = "revoke_api_token"

(* A call whose rows were all there fails for want of one, or with an      *)
(* internal error, only when another call deleted something it was about,  *)
(* or when the link it presents is spent.                                  *)
FailuresNeedRaces ==
  \A r \in Request :
    LET c == calls[r]
    IN /\ c.answer = "internal" => Raced(r)
       /\ c.answer = "notFound" /\ c.whole => Raced(r) \/ c.op = "peek_invitation"

(* server/src/auth.rs, verify_csrf: what a session can be made to ask for  *)
(* by another site's page changes nothing and leaves nothing in the trail. *)
UnmeantCallsOnlyRead ==
  \A r \in Request : calls[r].op # Absent /\ ~calls[r].meant => ~calls[r].changed /\ ~calls[r].recorded

(* The answers of administrative calls fit what happened.                  *)
AnswersFit == RefusalsTellNothing /\ FailuresNeedRaces /\ UnmeantCallsOnlyRead

(* Every other administrative change that was not cut short is in the      *)
(* trail, and the trail has nothing else, but for races: the account that  *)
(* acts or a row of the call was deleted meanwhile.  The deletion of an    *)
(* account is recorded even by the second to ask for it (admin.rs,         *)
(* delete_user), the burning of a link by nobody (organization.rs,         *)
(* accept_invitation).                                                     *)
TrailFits ==
  \A r \in Request :
    LET c == calls[r]
    IN /\ c.changed /\ Answered(c) /\ c.answer # "aborted" =>
            c.recorded \/ c.op \in Unrecorded \/ Burnt(c) \/ Raced(r)
       /\ c.recorded => c.changed \/ (c.op = "delete_user" /\ Raced(r))

(* web/src/pages/audit.rs: who pages through the trail to its end sees     *)
(* every event that was there at the start and is not purged, however many *)
(* are recorded meanwhile, unless one lands between the two queries of a   *)
(* page.                                                                   *)
WalkSkipsNothing ==
  \A r \in Request :
    LET c == calls[r]
    IN c.op = "list_audit" /\ c.answer = "done" /\ AtTheEnd(c) /\ ~c.landed =>
         c.due \cap Trail \subseteq c.seen
=============================================================================
