----------------------------- MODULE GrantFamily ------------------------------
(***************************************************************************)
(* What one authorization promises, without tables, requests or clocks.    *)
(*                                                                         *)
(* The authorization code's id is also the id of the family of refresh     *)
(* tokens minted from it (refresh.rs, "The family id is the authorization  *)
(* code's own id").  A family is carried by at most one credential at a    *)
(* time: first the code, then one refresh token after another, each of     *)
(* them given up to a token request before the next one exists.  A family  *)
(* whose credential is gone has ended and never comes back.                *)
(***************************************************************************)

CONSTANT Family

VARIABLE phase

Phase == {"unissued", "code", "exchange", "token", "ended"}

(* Where a family may go from each phase.                                  *)
Successors(p) ==
  CASE p = "unissued" -> {"code"}
    [] p = "code"     -> {"exchange", "ended"}
    [] p = "exchange" -> {"token", "ended"}
    [] p = "token"    -> {"exchange", "ended"}
    [] p = "ended"    -> {}

Init == phase = [f \in Family |-> "unissued"]

(* One step of the server may move several families: a purge or the        *)
(* deletion of an account ends all the families it reaches at once.        *)
Next ==
  /\ phase' \in [Family -> Phase]
  /\ \A f \in Family : phase'[f] = phase[f] \/ phase'[f] \in Successors(phase[f])

Spec == Init /\ [][Next]_phase
=============================================================================
