------------------------------- MODULE MCSignIn -------------------------------
(* SignIn on small instances.                                              *)
EXTENDS SignIn, TLC

CONSTANTS u1, name, email, stranger, p1, p2

(* One account with a username and an email, and a name that is nobody's.  *)
OneOwner == [i \in Identifier |-> IF i = stranger THEN None ELSE u1]
FirstP1 == u1 :> p1

RequestSymmetry == Permutations(Request)
=============================================================================
