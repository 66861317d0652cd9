---------------------------- MODULE MCOrganization ----------------------------
(* Organization on small instances.                                        *)
EXTENDS Organization, TLC

CONSTANT stranger

(* One user is of another realm.                                           *)
OneStranger == [x \in Org \cup User |-> IF x = stranger THEN "elsewhere" ELSE "here"]

Symmetry == Permutations(Request) \cup Permutations(User \ {stranger})
=============================================================================
