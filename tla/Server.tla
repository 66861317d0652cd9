-------------------------------- MODULE Server --------------------------------
(* What the components that administer a realm have in common: the realms  *)
(* of one server and the requests it handles at the same time.             *)
CONSTANTS Realm, Request
===============================================================================
