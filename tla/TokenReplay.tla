----------------------------- MODULE TokenReplay ------------------------------
(***************************************************************************)
(* TokenGrant with a history of the revocations that answered a replay.    *)
(* Revoking a family is one UPDATE over the rows that exist; a concurrent  *)
(* exchange of the same family stores its token in a statement of its own. *)
(***************************************************************************)
EXTENDS MCTokenGrant

VARIABLE replayed   \* the families one of whose credentials was presented twice

(* What brought a request to revoke_family: a rotation that went through   *)
(* has a successor, a replay has none.                                     *)
Replays(r) == IF RevokeFamily(r) /\ req[r].successor = 0 THEN {FamilyOf(r)} ELSE {}

HistoryInit == Init /\ replayed = {}

HistoryNext ==
  /\ Next
  /\ replayed' = replayed \cup UNION {Replays(r) : r \in Request}

HistorySpec == HistoryInit /\ [][HistoryNext]_<<vars, replayed>>

(* A spent refresh token presented again takes access from both holders    *)
(* (docs/security-model.md, "so both lose access rather than one of them   *)
(* being an undetected thief"), and a replayed code does the same.         *)
ReplayEndsFamily ==
  \A t \in DOMAIN tokens : tokens[t].family \in replayed => ~Usable(t)
=============================================================================
