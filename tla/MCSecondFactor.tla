---------------------------- MODULE MCSecondFactor ----------------------------
(* SecondFactor on small instances.                                        *)
EXTENDS SecondFactor, TLC

(* Every secret shows the same two digits in turn, so that a code can      *)
(* match two steps of the drift window.                                    *)
RepeatingCodes == [i \in 1..MaxSecrets |-> [s \in Step |-> s % 2]]

RequestSymmetry == Permutations(Request)
=============================================================================
