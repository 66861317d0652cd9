--------------------------- MODULE MCAuthorization ---------------------------
(* Authorization on small instances.                                       *)
EXTENDS Authorization, TLC

CONSTANTS ann, ben, openid, email

Plain == [scopes |-> {openid}, public |-> FALSE, consent |-> TRUE]
Wide == [scopes |-> {openid, email}, public |-> TRUE, consent |-> FALSE]
Registrations == {Plain, Wide}

(* Administrators widen the scopes or ask for consent.                     *)
Widen == [scopes |-> {openid, email}, consent |-> None]
Ask == [scopes |-> None, consent |-> TRUE]
Changes == {Widen, Ask}

Askings == {{}, {openid}}

Symmetry == Permutations(Request) \cup Permutations({ann, ben})
=============================================================================
