------------------------------- MODULE Keyring -------------------------------
(* The signing keys of a realm (oauth/src/keyring.rs), the tokens they sign *)
(* (oauth/src/token.rs, grant.rs) and the rotation an operator runs from   *)
(* the command line while requests are in flight.  A key pair is the       *)
(* position of its row in `keys`; a signature verifies under the key that  *)
(* made it and no other.                                                   *)
EXTENDS Server, Integers, Sequences, FiniteSets

CONSTANTS
    NoRealm,
    Operator,      \* concurrent runs of `authenc rotate-keys`
    Lifetime,      \* token.rs ACCESS_TOKEN_LIFETIME, ID_TOKEN_LIFETIME
    RetireAfter,   \* --retire-after-hours
    Timeout,       \* config.server.request_timeout
    Patience,      \* the longest a rotation stays open between BEGIN and COMMIT
    MaxKeys,       \* bound: rows ever inserted
    MaxNow         \* bound: the clock

(* A retired key outlives everything signed by a request that loaded it    *)
(* before the rotation committed: 48 hours against 15 minutes, 30 seconds  *)
(* and the time of two statements with the defaults.                       *)
ASSUME KeyringAssumption ==
    /\ {Lifetime, RetireAfter, Timeout, Patience, MaxKeys, MaxNow} \subseteq Nat \ {0}
    /\ RetireAfter >= Lifetime + Timeout + Patience
    /\ IsFiniteSet(Realm) /\ IsFiniteSet(Operator)

VARIABLES
    now,
    keys,          \* signing_keys, in the order of insertion
    requests,
    rotations,
    signed         \* history: signed tokens that have not expired

keyringVars == <<now, keys, requests, rotations, signed>>

NoKey == 0

(* signing_keys; a purged row is kept here to keep its position.           *)
SigningKey == [realm : Realm, status : {"active", "retired", "purged"}, notAfter : Nat]
KeyId == 1 .. MaxKeys

Handling == [at : {"idle", "load", "create", "use", "id"}, realm : Realm \cup {NoRealm},
           key : KeyId \cup {NoKey}, since : Nat]
Rotation == [at : {"idle", "begun", "retired"}, realm : Realm \cup {NoRealm},
             key : KeyId \cup {NoKey}, since : Nat]

KeyringTypeOK ==
    /\ now \in 0 .. MaxNow
    /\ keys \in Seq(SigningKey) /\ Len(keys) <= MaxKeys
    /\ requests \in [Request -> Handling]
    /\ rotations \in [Operator -> Rotation]
    /\ signed \subseteq [key : KeyId, exp : Nat]

Idle == [at |-> "idle", realm |-> NoRealm, key |-> NoKey, since |-> 0]
NoRotation == [at |-> "idle", realm |-> NoRealm, key |-> NoKey, since |-> 0]

KeyringInit ==
    /\ now = 0
    /\ keys = <<>>
    /\ requests = [r \in Request |-> Idle]
    /\ rotations = [o \in Operator |-> NoRotation]
    /\ signed = {}

(* WHERE realm_id = $1 AND status = 'active', as committed.                *)
Active(realm) == {k \in DOMAIN keys : keys[k].realm = realm /\ keys[k].status = "active"}

(* status = 'active' OR not_after > now()                                  *)
Verifies(k) ==
    \/ keys[k].status = "active"
    \/ keys[k].status = "retired" /\ keys[k].notAfter > now

(* verify_access_token, as UserInfo and introspection call it: the key of  *)
(* its kid, then expiry; a token names the realm of its key.               *)
Unexpired(t) == t.exp > now
Accepted(t) == t.key \in DOMAIN keys /\ Verifies(t.key) /\ Unexpired(t)

(* A key that an open transaction has retired: its row lock and its entry  *)
(* in the unique index of active keys make others wait for the outcome.    *)
HeldOpen(realm) ==
    \E o \in Operator : rotations[o].at = "retired" /\ rotations[o].key \in Active(realm)
HeldByAnother(o, realm) ==
    \E p \in Operator \ {o} : rotations[p].at = "retired" /\ rotations[p].key \in Active(realm)

Row(realm) == [realm |-> realm, status |-> "active", notAfter |-> 0]

(* not_after = now() + make_interval(...): the clock of the transaction,   *)
(* read when it began.                                                     *)
DeadlineBefore(since) == since - RetireAfter
DeadlineOfOneToken(since) == since + Lifetime
Deadline(since) == since + RetireAfter

-----------------------------------------------------------------------------
(* Requests that need the active key: the token endpoint and the JWKS      *)
(* document.                                                               *)

Doing(r, at) == requests[r].at = at
Goto(r, at) == requests' = [requests EXCEPT ![r].at = at]
Finish(r) == requests' = [requests EXCEPT ![r] = Idle]

Begin(r, realm) ==
    /\ Doing(r, "idle")
    /\ requests' = [requests EXCEPT ![r] =
          [at |-> "load", realm |-> realm, key |-> NoKey, since |-> now]]
    /\ UNCHANGED <<now, keys, rotations, signed>>

(* The key is in hand; the realm is not looked at again.                   *)
InHand(r, k) ==
    requests' = [requests EXCEPT ![r].key = k, ![r].realm = NoRealm, ![r].at = "use"]

(* load_active found the key, or found none.                               *)
LoadActive(r) ==
    /\ Doing(r, "load")
    /\ \/ \E k \in Active(requests[r].realm) :
             InHand(r, k)
       \/ Active(requests[r].realm) = {} /\ Goto(r, "create")
    /\ UNCHANGED <<now, keys, rotations, signed>>

(* The INSERT of an active key and its commit; the unique index refuses a  *)
(* second one, and the request ends in an error.                           *)
InsertableUnindexed(realm) == TRUE
Insertable(realm) == Active(realm) = {}

Create(r) == LET realm == requests[r].realm IN
    /\ Doing(r, "create")
    /\ ~HeldOpen(realm)
    /\ \/ /\ Insertable(realm)
          /\ Len(keys) < MaxKeys
          /\ keys' = Append(keys, Row(realm))
          /\ InHand(r, Len(keys) + 1)
       \/ ~Insertable(realm) /\ Finish(r) /\ UNCHANGED keys
    /\ UNCHANGED <<now, rotations, signed>>

SignedBy(k) == signed' = signed \cup {[key |-> k, exp |-> now + Lifetime]}

(* The access token; with openid the request then reads the user before it *)
(* signs the id token with the same key.                                   *)
SignAccess(r) ==
    /\ Doing(r, "use")
    /\ SignedBy(requests[r].key)
    /\ Goto(r, "id") \/ Finish(r)
    /\ UNCHANGED <<now, keys, rotations>>

SignId(r) ==
    /\ Doing(r, "id")
    /\ SignedBy(requests[r].key)
    /\ Finish(r)
    /\ UNCHANGED <<now, keys, rotations>>

(* jwks answers with what Verifies; it only makes sure there is a key.     *)
Publish(r) ==
    /\ Doing(r, "use")
    /\ Finish(r)
    /\ UNCHANGED <<now, keys, rotations, signed>>

(* The request times out, its client leaves or the process stops: at the   *)
(* latest TimeoutLayer ends it.                                            *)
AbortRequest(r) ==
    /\ ~Doing(r, "idle")
    /\ Finish(r)
    /\ UNCHANGED <<now, keys, rotations, signed>>

-----------------------------------------------------------------------------
(* authenc rotate-keys: one transaction.                                   *)

(* Bound: what is begun and what is still to be created fits.              *)
Room == Len(keys) + Cardinality({p \in Operator : rotations[p].at # "idle"})
           + Cardinality({x \in Realm : Active(x) = {}}) < MaxKeys

BeginRotation(o, realm) ==
    /\ rotations[o].at = "idle"
    /\ now + RetireAfter <= MaxNow
    /\ Room
    /\ rotations' = [rotations EXCEPT ![o] =
          [at |-> "begun", realm |-> realm, key |-> NoKey, since |-> now]]
    /\ UNCHANGED <<now, keys, requests, signed>>

(* UPDATE ... SET status = 'retired' WHERE status = 'active', not yet      *)
(* committed.  It waits for another transaction that holds the row and     *)
(* then looks again.                                                       *)
Retire(o) == LET realm == rotations[o].realm IN
    /\ rotations[o].at = "begun"
    /\ ~HeldByAnother(o, realm)
    /\ rotations' = [rotations EXCEPT ![o].at = "retired",
          ![o].key = IF Active(realm) = {} THEN NoKey ELSE CHOOSE k \in Active(realm) : TRUE]
    /\ UNCHANGED <<now, keys, requests, signed>>

RetiredForever(o) == [k \in DOMAIN keys |->
    IF k = rotations[o].key
      THEN [keys[k] EXCEPT !.status = "retired", !.notAfter = MaxNow + 1]
      ELSE keys[k]]
Retired(o) == [k \in DOMAIN keys |->
    IF k = rotations[o].key
      THEN [keys[k] EXCEPT !.status = "retired", !.notAfter = Deadline(rotations[o].since)]
      ELSE keys[k]]

(* The INSERT and the COMMIT; a key somebody else made in the meantime     *)
(* fails the INSERT and rolls the rotation back.                           *)
CommitRotation(o) == LET realm == rotations[o].realm IN
    /\ rotations[o].at = "retired"
    /\ ~HeldByAnother(o, realm)
    /\ \/ /\ Active(realm) \subseteq {rotations[o].key}
          /\ keys' = Append(Retired(o), Row(realm))
       \/ ~(Active(realm) \subseteq {rotations[o].key}) /\ UNCHANGED keys
    /\ rotations' = [rotations EXCEPT ![o] = NoRotation]
    /\ UNCHANGED <<now, requests, signed>>

(* The command is killed or loses its connection before the commit.        *)
RollBack(o) ==
    /\ rotations[o].at # "idle"
    /\ rotations' = [rotations EXCEPT ![o] = NoRotation]
    /\ UNCHANGED <<now, keys, requests, signed>>

-----------------------------------------------------------------------------
(* purge_retired: status = 'retired' AND not_after <= now().               *)
Purgeable(k) == keys[k].status = "retired" /\ keys[k].notAfter <= now

PurgeRetired ==
    /\ \E k \in DOMAIN keys : Purgeable(k)
    /\ keys' = [k \in DOMAIN keys |->
          IF Purgeable(k) THEN [keys[k] EXCEPT !.status = "purged"] ELSE keys[k]]
    /\ UNCHANGED <<now, requests, rotations, signed>>

(* Time passes, but not past the timeout of a request or the patience of a *)
(* rotation; tokens that expire are refused from then on.                  *)
Tick ==
    /\ now < MaxNow
    /\ \A r \in Request : ~Doing(r, "idle") => now - requests[r].since < Timeout
    /\ \A o \in Operator : rotations[o].at # "idle" => now - rotations[o].since < Patience
    /\ now' = now + 1
    /\ signed' = {t \in signed : t.exp > now'}
    /\ UNCHANGED <<keys, requests, rotations>>

Serve(r) ==
    LoadActive(r) \/ Create(r) \/ SignAccess(r) \/ SignId(r) \/ Publish(r) \/ AbortRequest(r)
Rotate(o) == Retire(o) \/ CommitRotation(o) \/ RollBack(o)

KeyringNext ==
    \/ \E r \in Request, realm \in Realm : Begin(r, realm)
    \/ \E r \in Request : Serve(r)
    \/ \E o \in Operator, realm \in Realm : BeginRotation(o, realm)
    \/ \E o \in Operator : Rotate(o)
    \/ PurgeRetired
    \/ Tick

(* Requests end, for TimeoutLayer ends them; a rotation commits or loses   *)
(* its connection; an operator runs the purge again and again; the clock   *)
(* runs.  Nobody has to ask for a token or rotate a key.                   *)
Fairness ==
    /\ \A r \in Request : WF_keyringVars(Serve(r))
    /\ \A o \in Operator : WF_keyringVars(Rotate(o))
    /\ WF_keyringVars(PurgeRetired)
    /\ WF_keyringVars(Tick)

KeyringSpec == KeyringInit /\ [][KeyringNext]_keyringVars /\ Fairness

-----------------------------------------------------------------------------
(* Once a realm has a key it has exactly one that signs, through           *)
(* simultaneous first requests, rotations and rolled-back rotations.       *)
OneSigner ==
    \A realm \in Realm :
        (\E k \in DOMAIN keys : keys[k].realm = realm) => Cardinality(Active(realm)) = 1

(* A token that has not expired is accepted: its key is published and looked  *)
(* up, though it was rotated away or purged after the request loaded it.   *)
TokensVerify == \A t \in signed : Accepted(t)

(* A rotated key is gone in the end: no later rotation or request keeps it.*)
RetiredKeysGo ==
    \A k \in KeyId : (k \in DOMAIN keys /\ keys[k].status = "retired")
                        ~> (k \in DOMAIN keys /\ keys[k].status = "purged")
=============================================================================
