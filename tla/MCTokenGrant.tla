----------------------------- MODULE MCTokenGrant -----------------------------
(* TokenGrant on small instances.                                          *)
EXTENDS TokenGrant, TLC

(* Every client is registered for both grants.                             *)
BothGrants == [cl \in Client |-> {AuthorizationCode, RefreshToken}]

Offline == {Openid, OfflineAccess}
OfflineOrNot == {Offline, {Openid}}

(* So are concurrent requests, and the clients.                            *)
RequestSymmetry == Permutations(Request) \cup Permutations(Client)
=============================================================================
