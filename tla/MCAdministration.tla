--------------------------- MODULE MCAdministration ---------------------------
(* Administration on a small instance: one call of any kind, beside one    *)
(* that deletes or that walks through the trail.                           *)
EXTENDS Administration

CONSTANTS alice, bob, carol, x, y, z, r1, r2, here, there

Actors == r1 :> alice @@ r2 :> bob

Deletions == {"delete_user", "delete_group", "delete_organization", "delete_identity_provider",
              "delete_client", "revoke_organization_invitation", "list_audit"}
AllOrDeletions == r1 :> DOMAIN Handler @@ r2 :> Deletions

AllOrOwn == r1 :> Account \cup RowId \cup {Elsewhere, Nowhere} @@ r2 :> AccountsAtStart \cup RowsAtStart

(* Nothing; to see everything; to change everything.                       *)
Writes == DOMAIN Implies
SomeHoldings == {{}, Permissions \ Writes, Writes \cup {"audit:read"}}
=============================================================================
