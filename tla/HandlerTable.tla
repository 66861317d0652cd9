----------------------------- MODULE HandlerTable -----------------------------
(***************************************************************************)
(* What the sequences of statements of Operations and Handlers have in     *)
(* common, whoever calls them and whatever runs beside: that rows are      *)
(* looked up before they are referred to, that a change is followed by its *)
(* record, and so on.  It is about the table of handlers and nothing else; *)
(* HandlerAssumption states it of every handler, and TLC, which evaluates  *)
(* it, leaves nothing of it open.                                          *)
(***************************************************************************)
EXTENDS Handlers

(* What no account does.                                                   *)
Unsigned == DOMAIN (Open @@ Command)

(* What leaves nothing in the trail: an account enabled or disabled        *)
(* (admin.rs, set_user_enabled), and what no account does.                 *)
Unrecorded == {"enable_user", "disable_user"} \cup Unsigned

Numbers(op) == DOMAIN Handler[op].steps

Does(op, n, what) == Handler[op].steps[n].do \in what

Changing == {"insert", "join", "change", "remove"}

RowsOf(op, what) == {Handler[op].steps[n].row : n \in {m \in Numbers(op) : Does(op, m, what)}}

Inserted(op) == RowsOf(op, {"insert"})

Sought(op) == RowsOf(op, {"look", "change", "remove"})

Refs(op, n) == IF Does(op, n, {"insert", "join", "change"}) THEN Handler[op].steps[n].refs ELSE {}

Misses(op, n, answer) == Does(op, n, {"change", "remove"}) /\ Handler[op].steps[n].missing = answer

(* Passed over by who acts on itself.                                      *)
Skipped(op, n) ==
  \E m \in 1..(n - 1) : Does(op, m, {"requireUnlessOwn"}) /\ n <= m + Handler[op].steps[m].own

(* The rows of which statement `n' may take for granted that they have     *)
(* been there since the call arrived.                                      *)
Settles(op, n) ==
  /\ Does(op, n, {"look", "insert", "change", "remove"})
  /\ ~Misses(op, n, "unnoticed") /\ ~Skipped(op, n)
Passed(op, n) == {Handler[op].steps[m].row : m \in {m \in 1..(n - 1) : Settles(op, m)}}
Settled(op, n) ==
  Passed(op, n) \cup {<<"organization", row[2]>> : row \in {v \in Passed(op, n) : v[1] = "invitation"}}
                \cup (IF op \in Unsigned THEN {} ELSE {<<"user", 0>>})

(* Statements name rows by arguments there are and answer with errors;     *)
(* what is skipped is there to skip, and nothing has been done before.     *)
Formed(op) ==
  LET names == Handler[op].names
  IN /\ Len(names) \in Nat /\ DOMAIN names = 1..Len(names)
     /\ Len(Handler[op].steps) \in Nat /\ Numbers(op) = 1..Len(Handler[op].steps)
     /\ Handler[op].steps # <<>> => 1 \in Numbers(op)
     /\ \A n \in Numbers(op) : LET s == Handler[op].steps[n] IN
          /\ s.do = "validate" => s.otherwise \in {"refused", "notFound"}
          /\ s.do = "validate" /\ s.otherwise = "notFound" => op = "peek_invitation" /\ op \in DOMAIN Open
          /\ s.do = "insert" => s.duplicate \in {"conflict", "refused", "updated"}
          /\ s.do \in {"change", "remove"} =>
               /\ s.missing \in {"unnoticed", "notFound", "refused", "unauthenticated"}
               /\ s.missing = "unnoticed" => s.row[1] \notin {"client", "federated_identity", "invitation"}
               /\ s.may \subseteq {"refused", "conflict", "unauthenticated"}
          /\ s.do = "requireUnlessOwn" =>
               /\ s.own \in Nat /\ n + s.own <= Len(Handler[op].steps) /\ (s.own > 0 => Len(names) = 1)
               /\ \A m \in 1..(n + s.own) :
                    m = n \/ ~Does(op, m, Changing \cup {"record", "require", "requireUnlessOwn"})

(* A new row is named, or is one of an account or an organization that is  *)
(* named and referred to; nothing is looked for that is created.           *)
InsertsFit(op) ==
  LET names == Handler[op].names
  IN /\ \A n \in Numbers(op) : Does(op, n, {"insert"}) =>
          LET kind == Handler[op].steps[n].row[1]  i == Handler[op].steps[n].row[2]
          IN /\ Handler[op].steps[n].row = <<kind, i>> /\ i \in DOMAIN names
             /\ \/ kind = names[i] /\ kind \in {"user", "role", "group", "organization",
                                               "identity_provider", "client"}
                \/ /\ <<kind, names[i]>> \in {<<"api_token", "user">>, <<"invitation", "organization">>}
                   /\ <<names[i], i>> \in Refs(op, n)
     /\ \A m, n \in Numbers(op) :
          /\ Does(op, m, {"insert"}) /\ Handler[op].steps[m].row[1] = "group"
          /\ Does(op, n, {"insert"}) /\ Handler[op].steps[n].row[1] = "group"
          => m = n
     /\ Inserted(op) \cap Sought(op) = {}

(* Reads change nothing, and what no account does needs no permission.     *)
Bounded(op) ==
  /\ op \in RestReads => \A n \in Numbers(op) : ~Does(op, n, Changing \cup {"record"})
  /\ op \in Unsigned => Handler[op].needs = {}

(* The permission is asked for before anything can be found missing.       *)
Asks(op) ==
  op \in DOMAIN Open \/ op = "revoke_api_token" \/ Handler[op].needs = {} \/
  \A n \in Numbers(op) : Does(op, n, {"look", "each"}) \/ Misses(op, n, "notFound") =>
    \E m \in 1..(n - 1) : \/ Does(op, m, {"require"})
                          \/ Does(op, m, {"requireUnlessOwn"}) /\ n <= m + Handler[op].steps[m].own

(* Statement `n' fails if argument `i' names a row of another realm, and   *)
(* nothing has been changed before.                                        *)
Wards(op, i, n) == LET s == Handler[op].steps[n] IN
  /\ \A m \in 1..(n - 1) :
       Does(op, m, {"require", "requireUnlessOwn", "validate", "query", "otherThanActor", "look"})
  /\ \/ s.do = "look" /\ s.row[2] = i /\ (s.mine \/ s.row[1] = "client")
     \/ /\ s.do \in {"change", "remove"} /\ s.row = <<"client", i>>
        /\ s.missing \in {"notFound", "refused"} /\ s.may = {}

(* So does the search for an invitation among those of an organization.    *)
WardsInvitation(op, i, n) == LET s == Handler[op].steps[n] IN
  /\ op # "revoke_group_role" /\ s.do = "look" /\ s.row = <<"invitation", i>>
  /\ "organization" \in {Handler[op].names[j] : j \in DOMAIN Handler[op].names}
  /\ \A m \in 1..(n - 1) : Does(op, m, {"require", "look"})
  /\ \A j \in DOMAIN Handler[op].names : Handler[op].names[j] = "organization" =>
       \E m \in 1..(n - 1) : Wards(op, j, m)

KeepsOut(op) ==
  /\ op = "accept_invitation" => Len(Handler[op].names) = 1
  /\ op = "revoke_group_role" => Len(Handler[op].names) = 2
  /\ op \in DOMAIN Open \/ op = "accept_invitation" \/
     \A i \in DOMAIN Handler[op].names :
       \/ <<Handler[op].names[i], i>> \in Inserted(op)
       \/ op = "revoke_group_role" /\ i = 2
       \/ \E n \in Numbers(op) : Wards(op, i, n) \/ WardsInvitation(op, i, n)

(* What a statement refers to, what it may miss without a word and whose   *)
(* members it lists has been there.                                        *)
RefersToSettled(op) ==
  \A n \in Numbers(op) :
    /\ Refs(op, n) \subseteq Settled(op, n)
    /\ Misses(op, n, "unnoticed") => Handler[op].steps[n].row \in Settled(op, n)
    /\ Does(op, n, {"gather"}) /\ Handler[op].steps[n].what = "members" =>
         <<Handler[op].names[1], 1>> \in Settled(op, n)
    /\ Does(op, n, {"each"}) => \E m \in Numbers(op) : Does(op, m, {"gather"})

(* A change is followed by its record, and between the two only a race     *)
(* makes a statement fail.                                                 *)
ChangesAreRecorded(op) ==
  op \in Unrecorded \/
  \A n \in Numbers(op) :
    /\ Does(op, n, Changing) => \E m \in Numbers(op) : n < m /\ Does(op, m, {"record"})
    /\ (\E m \in 1..(n - 1) : Does(op, m, Changing))
         /\ (\E m \in Numbers(op) : n < m /\ Does(op, m, {"record"})) =>
         /\ Does(op, n, {"query", "join", "look"})
         /\ Does(op, n, {"look"}) => LET s == Handler[op].steps[n] IN
              /\ s.row \in Settled(op, n) /\ s.row[1] \in {"user", "group", "organization", "identity_provider"}
              /\ s.mine => op = "accept_invitation" /\ s.row = <<"organization", 1>>

(* What is recorded has been done, or an account was deleted twice.        *)
Leaves(op, m, n) ==
  /\ Does(op, m, Changing)
  /\ \/ ~Misses(op, m, "unnoticed")
     \/ op = "delete_user"
     \/ /\ Handler[op].steps[m].row[1] = "group"
        /\ \E k \in (m + 1)..(n - 1) :
             Does(op, k, {"look"}) /\ Handler[op].steps[k].row = Handler[op].steps[m].row
RecordsFollowChanges(op) ==
  \A n \in Numbers(op) : Does(op, n, {"record"}) =>
    op \notin Unsigned /\ \E m \in 1..(n - 1) : Leaves(op, m, n)

ASSUME HandlerAssumption ==
  /\ "list_audit" \in DOMAIN Handler /\ Handler["list_audit"] = list_audit
  /\ \A op \in DOMAIN Handler :
       /\ Formed(op) /\ InsertsFit(op) /\ Bounded(op) /\ Asks(op) /\ KeepsOut(op)
       /\ RefersToSettled(op) /\ ChangesAreRecorded(op) /\ RecordsFollowChanges(op)
=============================================================================
