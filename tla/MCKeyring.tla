------------------------------ MODULE MCKeyring ------------------------------
(* Keyring on small instances.                                             *)
EXTENDS Keyring
=============================================================================
