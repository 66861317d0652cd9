----------------------------- MODULE MCFederation -----------------------------
(* Federation on small instances.                                          *)
EXTENDS Federation, TLC

Symmetry == Permutations(Request) \cup Permutations(User) \cup Permutations(Subject)
       \cup Permutations(Browser) \cup Permutations(Email)
=============================================================================
