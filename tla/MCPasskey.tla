------------------------------- MODULE MCPasskey ------------------------------
(* Passkey on small instances.                                             *)
EXTENDS Passkey, TLC

CONSTANTS k1

(* Every authenticator holds the one key.                                  *)
Clones == [d \in Device |-> k1]

(* Requests are interchangeable, and so are users.                         *)
Symmetry == Permutations(Request) \cup Permutations(User)
=============================================================================
