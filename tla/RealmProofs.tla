------------------------------ MODULE RealmProofs ------------------------------
(***************************************************************************)
(* Proofs about the three components through which a realm is administered.*)
(*                                                                         *)
(* Access: the typing of its state, that nothing changes without the       *)
(* authority for it, and that the tree of groups breaks only by two moves  *)
(* at once, for every tree of groups and every set of rows it starts from. *)
(*                                                                         *)
(* Keyring: the typing of its state, that a realm has one signer and that  *)
(* tokens verify until they expire, for every set of realms, requests and  *)
(* operators and every lifetime, timeout and bound that KeyringAssumption  *)
(* allows.                                                                 *)
(*                                                                         *)
(* Administration: the typing of its state, that answers and the trail fit *)
(* what calls did, and that a walk through the trail skips nothing, for    *)
(* any number of calls, accounts and rows and every size of a page.  What  *)
(* the proofs need of the sequences of statements is HandlerAssumption: it *)
(* is about a table without a parameter, and TLC evaluates all of it.      *)
(*                                                                         *)
(* The components share the realms and the requests of Server, and no      *)
(* variable: what is proved of one says nothing of the others.             *)
(***************************************************************************)
EXTENDS Access, Keyring, Administration,
        WellFoundedInduction, FiniteSetTheorems, SequenceTheorems, TLAPS

-----------------------------------------------------------------------------
(* Induction on natural numbers, stated of a set.                          *)

LEMMA LeastNatural ==
  ASSUME NEW T \in SUBSET Nat, T # {}
  PROVE  \E n \in T : \A m \in T : n <= m
<1> DEFINE Less == OpToRel(<, Nat)
<1>1. IsWellFoundedOn(Less, Nat)
  BY NatLessThanWellFounded
<1> HIDE DEF Less
<1>2. PICK n \in T : \A m \in T : ~(<<m, n>> \in Less)
  BY <1>1, WFMin
<1>3. \A l, m \in Nat : <<l, m>> \in Less <=> l < m
  BY DEF Less, OpToRel
<1>4. \A m \in T : n <= m
  <2> TAKE m \in T
  <2>1. ~(m < n)
    BY <1>2, <1>3
  <2> QED
    BY <2>1
<1> QED
  BY <1>4

LEMMA Induction ==
  ASSUME NEW S \in SUBSET Nat, 0 \in S, \A n \in S : n + 1 \in S
  PROVE  \A n \in Nat : n \in S
<1>1. SUFFICES ASSUME Nat \ S # {} PROVE FALSE
  OBVIOUS
<1>2. PICK n \in Nat \ S : \A m \in Nat \ S : n <= m
  BY <1>1, LeastNatural
<1>3. n # 0 /\ n - 1 \in Nat /\ n - 1 \in S
  BY <1>2
<1> QED
  BY <1>2, <1>3

-----------------------------------------------------------------------------
(* The ancestry of groups along any function for `parent': the least set   *)
(* that has them and, with a group, its parent.                            *)

Forest == [Group -> Group \cup {None}]

ParentsOf(f, gs) == {f[g] : g \in {h \in gs : f[h] # None}}

ClosedUp(f, gs) == \A g \in gs : f[g] # None => f[g] \in gs

AncestryIn(f, gs) ==
  LET up[n \in 0..Cardinality(Group)] ==
        IF n = 0 THEN gs
        ELSE up[n - 1] \cup {f[g] : g \in {h \in up[n - 1] : f[h] # None}}
  IN up[Cardinality(Group)]

LEMMA AncestryNow == \A gs : Ancestry(gs) = AncestryIn(parent, gs)
  BY DEF Ancestry, AncestryIn

LEMMA AncestryNext == \A gs : Ancestry(gs)' = AncestryIn(parent', gs)
  BY DEF Ancestry, AncestryIn

Above(f, gs) == gs \cup ParentsOf(f, gs)

Solves(up, f, gs, K) == up = [n \in 0..K |-> IF n = 0 THEN gs ELSE Above(f, up[n - 1])]

(* The recursion on the number of steps has a solution.                    *)
LEMMA Climb ==
  ASSUME NEW f, NEW gs, NEW K \in Nat
  PROVE  \E up : Solves(up, f, gs, K)
<1> DEFINE S == {k \in Nat : \E up : Solves(up, f, gs, k)}
<1>1. 0 \in S
  <2>1. Solves([n \in 0..0 |-> gs], f, gs, 0)
    BY DEF Solves
  <2> QED
    BY <2>1
<1>2. ASSUME NEW k \in S PROVE k + 1 \in S
  <2>0. k \in Nat
    OBVIOUS
  <2>1. PICK up : Solves(up, f, gs, k)
    OBVIOUS
  <2> DEFINE v == [n \in 0..(k + 1) |-> IF n = 0 THEN gs ELSE Above(f, up[n - 1])]
  <2>2. \A n \in 0..k : up[n] = v[n]
    <3> TAKE n \in 0..k
    <3>1. n \in 0..(k + 1)
      BY <2>0
    <3>2. v[n] = IF n = 0 THEN gs ELSE Above(f, up[n - 1])
      BY <3>1
    <3>3. up[n] = IF n = 0 THEN gs ELSE Above(f, up[n - 1])
      BY <2>1 DEF Solves
    <3> QED
      BY <3>2, <3>3
  <2>3. \A n \in 0..(k + 1) :
          (IF n = 0 THEN gs ELSE Above(f, up[n - 1])) = (IF n = 0 THEN gs ELSE Above(f, v[n - 1]))
    <3> TAKE n \in 0..(k + 1)
    <3>1. CASE n = 0
      BY <3>1
    <3>2. CASE n # 0
      <4>1. n - 1 \in 0..k
        BY <2>0, <3>2
      <4> HIDE DEF v
      <4>2. up[n - 1] = v[n - 1]
        BY <2>2, <4>1
      <4> QED
        BY <3>2, <4>2
    <3> QED
      BY <3>1, <3>2
  <2>4. \E w : w = v
    OBVIOUS
  <2>5. PICK w : w = v
    BY <2>4
  <2>6. w = [n \in 0..(k + 1) |-> IF n = 0 THEN gs ELSE Above(f, w[n - 1])]
    <3>1. w = [n \in 0..(k + 1) |-> IF n = 0 THEN gs ELSE Above(f, up[n - 1])]
      BY <2>5
    <3>2. \A n \in 0..(k + 1) :
            (IF n = 0 THEN gs ELSE Above(f, up[n - 1])) = (IF n = 0 THEN gs ELSE Above(f, w[n - 1]))
      <4> HIDE DEF v
      <4> QED
        BY <2>3, <2>5
    <3> QED
      BY <3>1, <3>2
  <2> QED
    BY <2>0, <2>6 DEF Solves
<1>3. \A k \in Nat : k \in S
  <2>1. S \in SUBSET Nat
    OBVIOUS
  <2> HIDE DEF S
  <2> QED
    BY <1>1, <1>2, <2>1, Induction
<1> QED
  BY <1>3

Height == Cardinality(Group)

Climbs(up, f, gs) ==
  /\ up[0] = gs
  /\ \A n \in Nat : n < Height => up[n + 1] = Above(f, up[n])

LEMMA Levels == Height \in Nat
  BY GroupAssumption, FS_CardinalityType DEF Height

(* What the ancestry is: the last of sets that start with the groups and   *)
(* each add the parents of the one before.                                 *)
LEMMA AncestrySteps ==
  ASSUME NEW f, NEW gs
  PROVE  \E up : Climbs(up, f, gs) /\ AncestryIn(f, gs) = up[Height]
<1>0. Height \in Nat
  BY Levels
<1> DEFINE up == CHOOSE v : Solves(v, f, gs, Height)
<1>1. AncestryIn(f, gs) = up[Height]
  BY DEF AncestryIn, Above, ParentsOf, Solves, Height
<1>2. Solves(up, f, gs, Height)
  BY <1>0, Climb
<1> HIDE DEF up
<1>3. up[0] = gs
  <2>1. 0 \in 0..Height
    BY <1>0
  <2>2. up[0] = IF 0 = 0 THEN gs ELSE Above(f, up[0 - 1])
    BY <1>2, <2>1 DEF Solves
  <2> QED
    BY <2>2
<1>4. ASSUME NEW n \in Nat, n < Height PROVE up[n + 1] = Above(f, up[n])
  <2>1. n + 1 \in 0..Height /\ n + 1 # 0 /\ (n + 1) - 1 = n
    BY <1>0, <1>4
  <2>2. up[n + 1] = Above(f, up[(n + 1) - 1])
    BY <1>2, <2>1 DEF Solves
  <2> QED
    BY <2>1, <2>2
<1>5. Climbs(up, f, gs)
  BY <1>3, <1>4 DEF Climbs
<1> QED
  BY <1>1, <1>5

(* What holds of the first of these sets and is passed on holds of the     *)
(* ancestry.                                                               *)
LEMMA ByLevels ==
  ASSUME NEW S \in SUBSET Nat, 0 \in S, \A n \in S : n < Height => n + 1 \in S
  PROVE  Height \in S
<1> DEFINE T == {n \in Nat : n <= Height => n \in S}
<1>0. Height \in Nat
  BY Levels
<1>1. 0 \in T
  OBVIOUS
<1>2. ASSUME NEW n \in T PROVE n + 1 \in T
  BY <1>0
<1>3. T \in SUBSET Nat
  OBVIOUS
<1> HIDE DEF T
<1>4. Height \in T
  BY <1>0, <1>1, <1>2, <1>3, Induction
<1> QED
  BY <1>0, <1>4 DEF T

(* It has the groups it starts from, and nothing but groups.               *)
LEMMA AncestryOfGroups ==
  ASSUME NEW f \in Forest, NEW gs \in SUBSET Group
  PROVE  gs \subseteq AncestryIn(f, gs) /\ AncestryIn(f, gs) \subseteq Group
<1>1. PICK up : Climbs(up, f, gs) /\ AncestryIn(f, gs) = up[Height]
  BY AncestrySteps
<1> DEFINE S == {n \in Nat : gs \subseteq up[n] /\ up[n] \subseteq Group}
<1>2. 0 \in S
  BY <1>1 DEF Climbs
<1>3. ASSUME NEW n \in S, n < Height PROVE n + 1 \in S
  <2>1. ParentsOf(f, up[n]) \subseteq Group
    BY DEF ParentsOf, Forest
  <2>2. up[n + 1] = Above(f, up[n])
    BY <1>1, <1>3 DEF Climbs
  <2> QED
    BY <2>1, <2>2 DEF Above
<1>4. Height \in S
  <2>1. S \in SUBSET Nat
    OBVIOUS
  <2> HIDE DEF S
  <2> QED
    BY <1>2, <1>3, <2>1, ByLevels
<1> QED
  BY <1>1, <1>4

(* A set that has the groups and, with a group, its parent, has all of it. *)
LEMMA AncestryLeast ==
  ASSUME NEW f, NEW gs, NEW closed, gs \subseteq closed, ClosedUp(f, closed)
  PROVE  AncestryIn(f, gs) \subseteq closed
<1>1. PICK up : Climbs(up, f, gs) /\ AncestryIn(f, gs) = up[Height]
  BY AncestrySteps
<1> DEFINE S == {n \in Nat : up[n] \subseteq closed}
<1>2. 0 \in S
  BY <1>1 DEF Climbs
<1>3. ASSUME NEW n \in S, n < Height PROVE n + 1 \in S
  <2>1. ParentsOf(f, up[n]) \subseteq closed
    BY DEF ParentsOf, ClosedUp
  <2>2. up[n + 1] = Above(f, up[n])
    BY <1>1, <1>3 DEF Climbs
  <2> QED
    BY <2>1, <2>2 DEF Above
<1>4. Height \in S
  <2>1. S \in SUBSET Nat
    OBVIOUS
  <2> HIDE DEF S
  <2> QED
    BY <1>2, <1>3, <2>1, ByLevels
<1> QED
  BY <1>1, <1>4

(* It is such a set: each of the sets that is not adds a group, and there  *)
(* are no more groups than steps.                                          *)
LEMMA AncestryClosed ==
  ASSUME NEW f \in Forest, NEW gs \in SUBSET Group
  PROVE  ClosedUp(f, AncestryIn(f, gs))
<1>0. Height \in Nat /\ IsFiniteSet(Group)
  BY Levels, GroupAssumption
<1>1. PICK up : Climbs(up, f, gs) /\ AncestryIn(f, gs) = up[Height]
  BY AncestrySteps
<1> DEFINE S == {n \in Nat : /\ up[n] \subseteq Group
                             /\ \/ ClosedUp(f, up[n])
                                \/ \E few \in SUBSET up[n] : Cardinality(few) = n}
<1>2. 0 \in S
  <2>1. Cardinality({}) = 0
    BY FS_EmptySet
  <2> QED
    BY <1>1, <2>1 DEF Climbs
<1>3. ASSUME NEW n \in S, n < Height PROVE n + 1 \in S
  <2>1. ParentsOf(f, up[n]) \subseteq Group
    BY DEF ParentsOf, Forest
  <2>2. up[n + 1] = Above(f, up[n])
    BY <1>1, <1>3 DEF Climbs
  <2>3. CASE ClosedUp(f, up[n])
    <3>1. up[n + 1] = up[n]
      BY <2>2, <2>3 DEF ClosedUp, Above, ParentsOf
    <3> QED
      BY <2>3, <3>1
  <2>4. CASE ~ClosedUp(f, up[n])
    <3>1. PICK few \in SUBSET up[n] : Cardinality(few) = n
      BY <2>4
    <3>2. PICK g \in up[n] : f[g] # None /\ f[g] \notin up[n]
      BY <2>4 DEF ClosedUp
    <3>3. IsFiniteSet(few)
      BY <1>0, FS_Subset
    <3>4. Cardinality(few \cup {f[g]}) = n + 1
      BY <3>1, <3>2, <3>3, FS_AddElement
    <3>5. few \cup {f[g]} \in SUBSET up[n + 1]
      BY <2>2, <3>2 DEF Above, ParentsOf
    <3> QED
      BY <2>1, <2>2, <3>4, <3>5 DEF Above
  <2> QED
    BY <2>3, <2>4
<1>4. Height \in S
  <2>1. S \in SUBSET Nat
    OBVIOUS
  <2> HIDE DEF S
  <2> QED
    BY <1>2, <1>3, <2>1, ByLevels
<1>5. ASSUME NEW few \in SUBSET up[Height], Cardinality(few) = Height
      PROVE  ClosedUp(f, up[Height])
  <2>1. few = Group
    <3>1. few \subseteq Group
      BY <1>4
    <3> QED
      BY <1>0, <1>5, <3>1, FS_Subset DEF Height
  <2>2. up[Height] = Group
    BY <1>4, <2>1
  <2> QED
    BY <2>2 DEF ClosedUp, Forest
<1> QED
  BY <1>1, <1>4, <1>5

-----------------------------------------------------------------------------
(* The inductive invariant.                                                *)

(* What refers to a row is in the same realm.                              *)
OneRealm ==
  /\ \A h \in userRoles \cup members \cup groupRoles : RealmOf[h[1]] = RealmOf[h[2]]
  /\ \A g \in Group : parent[g] # None => RealmOf[parent[g]] = RealmOf[g]

Later == {"ready", "revoke", "insert", "commit", "moving"}

(* What has been seen of a request's credential and account by the time it *)
(* is where it is.                                                         *)
Standing(r) ==
  req[r].at # "idle" =>
    /\ req[r].user \in User
    /\ req[r].token # 0 => req[r].token \in DOMAIN tokens
    /\ since[r].live
    /\ req[r].at # "account" => since[r].enabled
    /\ req[r].at \in Later => req[r].perms \subseteq since[r].held
    /\ req[r].at \notin Later /\ req[r].token # 0 =>
         req[r].perms = tokens[req[r].token].permissions

Present(g) == g \in Group /\ groups[g] = "present"

(* What the two transactions, and the revocation of sessions, were begun   *)
(* with, still holds.                                                      *)
Begun(r) ==
  LET l == req[r]
  IN /\ l.at = "revoke" => Covers(l.perms, "user:write")
     /\ l.at \in {"insert", "commit"} =>
          Covers(l.perms, "role:write") /\ MyRole(r, l.target)
     /\ l.at = "moving" =>
          /\ Covers(l.perms, "group:write")
          /\ Present(l.target) /\ Mine(r, l.target)
          /\ l.into # None => Present(l.into) /\ Mine(r, l.into)

(* A move that no other one overlapped is still what the trigger allowed.  *)
MovesFit ==
  /\ \A r, q \in Moving : r # q => req[r].target \in raced
  /\ \A r \in Moving :
       req[r].into # None /\ req[r].target \notin raced =>
         req[r].target \notin Ancestry({req[r].into})

AccessInv ==
  /\ TypeOK
  /\ OneRealm
  /\ \A r \in Request : Standing(r) /\ Begun(r)
  /\ MovesFit
  /\ CyclesNeedTwoMoves

-----------------------------------------------------------------------------
(* Cycles.                                                                 *)

LEMMA AncestryWithin ==
  ASSUME NEW f \in Forest, NEW gs \in SUBSET Group, NEW hs \in SUBSET Group,
         gs \subseteq AncestryIn(f, hs)
  PROVE  AncestryIn(f, gs) \subseteq AncestryIn(f, hs)
  BY AncestryClosed, AncestryLeast

(* Where two functions agree on the ancestry along one, it is the same     *)
(* along the other.                                                        *)
LEMMA AncestryAgrees ==
  ASSUME NEW f \in Forest, NEW e \in Forest, NEW gs \in SUBSET Group,
         \A g \in AncestryIn(f, gs) : e[g] = f[g]
  PROVE  AncestryIn(e, gs) = AncestryIn(f, gs)
<1>1. ClosedUp(f, AncestryIn(f, gs)) /\ gs \subseteq AncestryIn(f, gs)
  BY AncestryClosed, AncestryOfGroups
<1>2. ClosedUp(e, AncestryIn(e, gs)) /\ gs \subseteq AncestryIn(e, gs)
  BY AncestryClosed, AncestryOfGroups
<1>3. AncestryIn(e, gs) \subseteq AncestryIn(f, gs)
  <2>1. ClosedUp(e, AncestryIn(f, gs))
    BY <1>1 DEF ClosedUp
  <2> QED
    BY <1>1, <2>1, AncestryLeast
<1>4. AncestryIn(f, gs) \subseteq AncestryIn(e, gs)
  <2>1. ClosedUp(f, AncestryIn(e, gs))
    BY <1>2, <1>3 DEF ClosedUp
  <2> QED
    BY <1>2, <2>1, AncestryLeast
<1> QED
  BY <1>3, <1>4

(* Where some groups lose their parent, the ancestry only shrinks.         *)
LEMMA AncestryCut ==
  ASSUME NEW f \in Forest, NEW e \in Forest, NEW gs \in SUBSET Group,
         \A g \in Group : e[g] = f[g] \/ e[g] = None
  PROVE  AncestryIn(e, gs) \subseteq AncestryIn(f, gs)
<1>1. ClosedUp(f, AncestryIn(f, gs)) /\ gs \subseteq AncestryIn(f, gs)
      /\ AncestryIn(f, gs) \subseteq Group
  BY AncestryClosed, AncestryOfGroups
<1>2. ClosedUp(e, AncestryIn(f, gs))
  BY <1>1 DEF ClosedUp
<1> QED
  BY <1>1, <1>2, AncestryLeast

(* The ancestry of one group is the group and that of its parent.          *)
LEMMA AncestryOfOne ==
  ASSUME NEW f \in Forest, NEW g \in Group, NEW h \in AncestryIn(f, {g}), h # g
  PROVE  f[g] # None /\ f[g] \in Group /\ h \in AncestryIn(f, {f[g]})
<1>1. f[g] # None
  <2>1. SUFFICES ASSUME f[g] = None PROVE FALSE
    OBVIOUS
  <2>2. AncestryIn(f, {g}) \subseteq {g}
    BY <2>1, AncestryLeast DEF ClosedUp
  <2> QED
    BY <2>2
<1>2. f[g] \in Group
  BY <1>1 DEF Forest
<1>3. AncestryIn(f, {g}) \subseteq {g} \cup AncestryIn(f, {f[g]})
  <2>1. ClosedUp(f, AncestryIn(f, {f[g]})) /\ {f[g]} \subseteq AncestryIn(f, {f[g]})
    BY <1>2, AncestryClosed, AncestryOfGroups
  <2>2. ClosedUp(f, {g} \cup AncestryIn(f, {f[g]}))
    BY <2>1 DEF ClosedUp
  <2> QED
    BY <2>2, AncestryLeast
<1> QED
  BY <1>1, <1>2, <1>3

InCycle(f, g) == f[g] # None /\ g \in AncestryIn(f, {f[g]})

LEMMA AboveItselfNow == \A g : AboveItself(g) <=> InCycle(parent, g)
  BY AncestryNow DEF AboveItself, InCycle

LEMMA AboveItselfNext == \A g : AboveItself(g)' <=> InCycle(parent', g)
  BY AncestryNext DEF AboveItself, InCycle

(* All above a group on a cycle is on that cycle.                          *)
LEMMA CycleGoesRound ==
  ASSUME NEW f \in Forest, NEW g \in Group, InCycle(f, g), NEW h \in AncestryIn(f, {g})
  PROVE  h \in Group /\ f[h] \in Group /\ g \in AncestryIn(f, {h}) /\ InCycle(f, h)
<1> DEFINE S == {x \in AncestryIn(f, {g}) : g \in AncestryIn(f, {x})}
<1>1. ClosedUp(f, AncestryIn(f, {g})) /\ g \in AncestryIn(f, {g})
      /\ AncestryIn(f, {g}) \subseteq Group
  BY AncestryClosed, AncestryOfGroups
<1>2. ClosedUp(f, S)
  <2>1. SUFFICES ASSUME NEW x \in S, f[x] # None PROVE f[x] \in S
    BY DEF ClosedUp
  <2>2. f[x] \in AncestryIn(f, {g})
    BY <1>1, <2>1 DEF ClosedUp
  <2>3. g \in AncestryIn(f, {f[x]})
    <3>1. CASE x = g
      BY <3>1 DEF InCycle
    <3>2. CASE x # g
      BY <1>1, <2>1, <3>2, AncestryOfOne
    <3> QED
      BY <3>1, <3>2
  <2> QED
    BY <2>2, <2>3
<1>3. h \in Group /\ g \in AncestryIn(f, {h})
  <2>1. {g} \subseteq S
    BY <1>1
  <2>2. AncestryIn(f, {g}) \subseteq S
    BY <1>2, <2>1, AncestryLeast
  <2> QED
    BY <1>1, <2>2
<1>4. f[h] \in Group /\ InCycle(f, h)
  <2>1. CASE h = g
    BY <2>1 DEF InCycle, Forest
  <2>2. CASE h # g
    <3>1. f[h] # None /\ f[h] \in Group /\ g \in AncestryIn(f, {f[h]})
      BY <1>3, <2>2, AncestryOfOne
    <3>2. AncestryIn(f, {g}) \subseteq AncestryIn(f, {f[h]})
      BY <3>1, AncestryWithin
    <3> QED
      BY <3>1, <3>2 DEF InCycle
  <2> QED
    BY <2>1, <2>2
<1> QED
  BY <1>3, <1>4

(* A cycle along one function whose groups have the same parents along     *)
(* another is one along that.                                              *)
LEMMA CycleAgrees ==
  ASSUME NEW f \in Forest, NEW e \in Forest, NEW g \in Group, InCycle(e, g),
         \A x \in AncestryIn(e, {g}) : e[x] = f[x]
  PROVE  InCycle(f, g) /\ AncestryIn(f, {g}) = AncestryIn(e, {g})
<1>1. g \in AncestryIn(e, {g}) /\ ClosedUp(e, AncestryIn(e, {g}))
  BY AncestryOfGroups, AncestryClosed
<1>2. AncestryIn(f, {g}) = AncestryIn(e, {g})
  BY AncestryAgrees
<1>3. e[g] \in Group /\ e[g] = f[g] /\ e[g] \in AncestryIn(e, {g})
  BY <1>1 DEF InCycle, ClosedUp, Forest
<1>4. AncestryIn(f, {e[g]}) = AncestryIn(e, {e[g]})
  <2>1. AncestryIn(e, {e[g]}) \subseteq AncestryIn(e, {g})
    BY <1>3, AncestryWithin
  <2> QED
    BY <1>3, <2>1, AncestryAgrees
<1> QED
  BY <1>2, <1>3, <1>4 DEF InCycle

(* Each cycle goes through a marked group: so does each one along a        *)
(* function that differs only where groups have lost their parent ...      *)
CyclesMarked(f, marked) ==
  \A g \in Group : InCycle(f, g) => \E h \in AncestryIn(f, {g}) \cap marked : InCycle(f, h)

LEMMA CyclesCut ==
  ASSUME NEW f \in Forest, NEW e \in Forest, NEW marked, CyclesMarked(f, marked),
         \A g \in Group : e[g] = f[g] \/ e[g] = None
  PROVE  CyclesMarked(e, marked)
<1>1. SUFFICES ASSUME NEW g \in Group, InCycle(e, g)
               PROVE  \E h \in AncestryIn(e, {g}) \cap marked : InCycle(e, h)
  BY DEF CyclesMarked
<1>2. \A x \in AncestryIn(e, {g}) : e[x] = f[x]
  BY <1>1, CycleGoesRound DEF InCycle
<1>3. InCycle(f, g) /\ AncestryIn(f, {g}) = AncestryIn(e, {g})
  BY <1>1, <1>2, CycleAgrees
<1>4. PICK h \in AncestryIn(f, {g}) \cap marked : InCycle(f, h)
  BY <1>3 DEF CyclesMarked
<1> QED
  BY <1>1, <1>3, <1>4, CycleGoesRound

(* ... or where one group has been put under another that it was not       *)
(* above, or is marked itself.                                             *)
LEMMA CyclesMove ==
  ASSUME NEW f \in Forest, NEW marked, CyclesMarked(f, marked),
         NEW t \in Group, NEW p \in Group \cup {None},
         p # None /\ t \notin marked => t \notin AncestryIn(f, {p})
  PROVE  CyclesMarked([f EXCEPT ![t] = p], marked)
<1> DEFINE e == [f EXCEPT ![t] = p]
<1>0. e \in Forest /\ e[t] = p /\ \A x \in Group : x # t => e[x] = f[x]
  BY DEF Forest
<1> HIDE DEF e
<1>1. SUFFICES ASSUME NEW g \in Group, InCycle(e, g)
               PROVE  \E h \in AncestryIn(e, {g}) \cap marked : InCycle(e, h)
  BY DEF CyclesMarked, e
<1>2. AncestryIn(e, {g}) \subseteq Group
  BY <1>0, AncestryOfGroups
<1>3. CASE t \notin AncestryIn(e, {g})
  <2>1. \A x \in AncestryIn(e, {g}) : e[x] = f[x]
    BY <1>0, <1>2, <1>3
  <2>2. InCycle(f, g) /\ AncestryIn(f, {g}) = AncestryIn(e, {g})
    BY <1>0, <1>1, <2>1, CycleAgrees
  <2>3. PICK h \in AncestryIn(f, {g}) \cap marked : InCycle(f, h)
    BY <2>2 DEF CyclesMarked
  <2> QED
    BY <1>0, <1>1, <2>2, <2>3, CycleGoesRound
<1>4. CASE t \in AncestryIn(e, {g})
  <2>1. InCycle(e, t)
    BY <1>0, <1>1, <1>4, CycleGoesRound
  <2>2. p # None /\ p \in Group /\ t \in AncestryIn(e, {p})
    BY <1>0, <2>1 DEF InCycle
  <2>3. t \in marked
    <3>1. SUFFICES ASSUME t \notin marked PROVE FALSE
      OBVIOUS
    <3>2. t \notin AncestryIn(f, {p}) /\ AncestryIn(f, {p}) \subseteq Group
      BY <2>2, <3>1, AncestryOfGroups
    <3>3. AncestryIn(e, {p}) = AncestryIn(f, {p})
      BY <1>0, <2>2, <3>2, AncestryAgrees
    <3> QED
      BY <2>2, <3>2, <3>3
  <2> QED
    BY <1>4, <2>1, <2>3
<1> QED
  BY <1>3, <1>4

-----------------------------------------------------------------------------
(* What is observed.                                                       *)

LEMMA Seen ==
  ASSUME Observe, NEW r \in Request, req'[r].at # "idle"
  PROVE  since'[r] = LET f == FactsNow(r)'
                     IN [live |-> since[r].live \/ f.live,
                         enabled |-> since[r].enabled \/ f.enabled,
                         held |-> since[r].held \cup f.held]
  BY DEF Observe

LEMMA SinceTyped ==
  ASSUME since \in [Request -> Facts], Observe
  PROVE  since' \in [Request -> Facts]
<1>1. SUFFICES ASSUME NEW r \in Request
               PROVE  (IF req'[r].at = "idle" THEN Nothing
                       ELSE LET f == FactsNow(r)'
                            IN [live |-> since[r].live \/ f.live,
                                enabled |-> since[r].enabled \/ f.enabled,
                                held |-> since[r].held \cup f.held]) \in Facts
  BY DEF Observe
<1>2. FactsNow(r)'.held \subseteq Permission
  BY DEF FactsNow, Covered
<1>3. since[r].held \subseteq Permission
  BY DEF Facts
<1> HIDE DEF FactsNow
<1> QED
  BY <1>2, <1>3 DEF Facts, Nothing

(* What has been seen of a request stays, as long as it goes on, and what  *)
(* is true now is seen.                                                    *)
LEMMA SinceGrows ==
  ASSUME Observe, NEW r \in Request, req'[r].at # "idle"
  PROVE  /\ since[r].live \/ FactsNow(r)'.live => since'[r].live
         /\ since[r].enabled \/ FactsNow(r)'.enabled => since'[r].enabled
         /\ since'[r].held = since[r].held \cup FactsNow(r)'.held
<1> DEFINE f == FactsNow(r)'
<1>1. since'[r] = [live |-> since[r].live \/ f.live, enabled |-> since[r].enabled \/ f.enabled,
                   held |-> since[r].held \cup f.held]
  BY Seen
<1> HIDE DEF f
<1>2. since'[r].live = (since[r].live \/ f.live)
  BY <1>1, SMT
<1>3. since'[r].enabled = (since[r].enabled \/ f.enabled)
  BY <1>1, SMT
<1>4. since'[r].held = since[r].held \cup f.held
  BY <1>1, SMT
<1> QED
  BY <1>2, <1>3, <1>4, Zenon DEF f

-----------------------------------------------------------------------------
(* Standing.                                                               *)

TokensStay ==
  /\ DOMAIN tokens \subseteq DOMAIN tokens'
  /\ \A n \in DOMAIN tokens : tokens'[n].permissions = tokens[n].permissions

(* Most steps leave a request where it was, end it, or take it on from     *)
(* where its permissions have been read.                                   *)
GoesOn(r) ==
  \/ req'[r] = req[r]
  \/ req'[r].at = "idle"
  \/ /\ req[r].at \in Later /\ req'[r].at \in Later
     /\ req'[r].user = req[r].user /\ req'[r].token = req[r].token
     /\ req'[r].perms = req[r].perms

LEMMA StandingStays ==
  ASSUME Observe, TokensStay, NEW r \in Request, Standing(r), GoesOn(r)
  PROVE  Standing(r)'
<1>1. CASE req'[r].at = "idle"
  BY <1>1 DEF Standing
<1>2. CASE req'[r].at # "idle" /\ req[r].at # "idle"
  <2>1. (since[r].live => since'[r].live) /\ (since[r].enabled => since'[r].enabled)
    BY <1>2, SinceGrows, Zenon
  <2>2. since[r].held \subseteq since'[r].held
    <3>1. since'[r].held = since[r].held \cup FactsNow(r)'.held
      BY <1>2, SinceGrows
    <3> QED
      BY <3>1
  <2>3. /\ req'[r].user = req[r].user /\ req'[r].token = req[r].token
        /\ req'[r].perms = req[r].perms
        /\ req'[r].at = "account" <=> req[r].at = "account"
        /\ req'[r].at \in Later <=> req[r].at \in Later
    BY <1>2 DEF GoesOn, Later
  <2>4. /\ req[r].user \in User
        /\ req[r].token # 0 => req[r].token \in DOMAIN tokens
        /\ req[r].at \in Later => req[r].perms \subseteq since[r].held
        /\ req[r].at \notin Later /\ req[r].token # 0 =>
             req[r].perms = tokens[req[r].token].permissions
    BY <1>2 DEF Standing
  <2>5. since[r].live /\ (req[r].at # "account" => since[r].enabled)
    BY <1>2, Zenon DEF Standing
  <2>6. since'[r].live /\ (req'[r].at # "account" => since'[r].enabled)
    <3>1. req'[r].at # "account" => req[r].at # "account"
      BY <2>3
    <3>2. since'[r].live
      BY <2>1, <2>5, Zenon
    <3>3. req'[r].at # "account" => since'[r].enabled
      BY <2>1, <2>5, <3>1, Zenon
    <3> QED
      BY <3>2, <3>3, Zenon
  <2>7. /\ req'[r].user \in User
        /\ req'[r].token # 0 => req'[r].token \in DOMAIN tokens'
        /\ req'[r].at \in Later => req'[r].perms \subseteq since'[r].held
        /\ req'[r].at \notin Later /\ req'[r].token # 0 =>
             req'[r].perms = tokens'[req'[r].token].permissions
    BY <2>2, <2>3, <2>4 DEF TokensStay
  <2> QED
    BY <2>6, <2>7, Zenon DEF Standing
<1>3. CASE req'[r].at # "idle" /\ req[r].at = "idle"
  BY <1>3 DEF GoesOn, Later
<1> QED
  BY <1>1, <1>2, <1>3

LEMMA Quietly == UNCHANGED tokens => TokensStay
  BY DEF TokensStay

-----------------------------------------------------------------------------
(* What a step has to keep, part by part.                                  *)

AccountsTyped ==
  /\ users \in [User -> {"unused", "enabled", "disabled", "deleted"}]
  /\ sessions \subseteq {u \in User : users[u] \in {"enabled", "disabled"}}
  /\ userRoles \subseteq {u \in User : users[u] \in {"enabled", "disabled"}} \X roles
  /\ roles \subseteq Role
  /\ grants \in [Role -> SUBSET Permission]
  /\ \A o \in Role \ roles : grants[o] = {}

GroupsTyped ==
  /\ groups \in [Group -> {"unused", "present", "deleted"}]
  /\ parent \in Forest
  /\ \A g \in Group : parent[g] # None => groups[g] = "present" /\ groups[parent[g]] = "present"

HoldersTyped ==
  /\ members \subseteq {u \in User : users[u] \in {"enabled", "disabled"}} \X
                       {g \in Group : groups[g] = "present"}
  /\ groupRoles \subseteq {g \in Group : groups[g] = "present"} \X roles

RequestsTyped == req \in [Request -> Locals] /\ since \in [Request -> Facts]

LEMMA TypeParts ==
  TypeOK <=> /\ AccountsTyped /\ GroupsTyped /\ HoldersTyped /\ RequestsTyped
             /\ tokens \in Seq(Token) /\ raced \subseteq Group /\ changes \in Nat
  BY DEF TypeOK, AccountsTyped, GroupsTyped, HoldersTyped, RequestsTyped, Forest

LEMMA TypePartsNext ==
  TypeOK' <=> /\ AccountsTyped' /\ GroupsTyped' /\ HoldersTyped' /\ RequestsTyped'
              /\ tokens' \in Seq(Token) /\ raced' \subseteq Group /\ changes' \in Nat
  BY DEF TypeOK, AccountsTyped, GroupsTyped, HoldersTyped, RequestsTyped, Forest

LEMMA MarkedNow == CyclesNeedTwoMoves <=> CyclesMarked(parent, raced)
  BY AncestryNow, AboveItselfNow DEF CyclesNeedTwoMoves, CyclesMarked

LEMMA MarkedNext == CyclesNeedTwoMoves' <=> CyclesMarked(parent', raced')
  BY AncestryNext, AboveItselfNext DEF CyclesNeedTwoMoves, CyclesMarked

LEMMA StepKeeps ==
  ASSUME AccessInv, Observe,
         AccountsTyped', GroupsTyped', HoldersTyped', req' \in [Request -> Locals],
         tokens' \in Seq(Token), raced' \subseteq Group, changes' \in Nat,
         OneRealm', TokensStay,
         \A q \in Request : GoesOn(q) \/ Standing(q)', \A q \in Request : Begun(q)',
         MovesFit', CyclesNeedTwoMoves'
  PROVE  AccessInv'
<1>1. RequestsTyped'
  BY SinceTyped DEF RequestsTyped, AccessInv, TypeOK
<1>2. TypeOK'
  BY <1>1, TypePartsNext
<1>3. \A q \in Request : Standing(q)'
  BY StandingStays DEF AccessInv
<1> QED
  BY <1>2, <1>3 DEF AccessInv

(* What the groups have to do with a step that does not touch them.        *)
LEMMA GroupsStay ==
  ASSUME MovesFit, CyclesNeedTwoMoves, UNCHANGED <<groups, parent, raced>>,
         \A q \in Request : req'[q] = req[q] \/ req'[q].at # "moving"
  PROVE  MovesFit' /\ CyclesNeedTwoMoves'
<1>1. CyclesNeedTwoMoves'
  BY MarkedNow, MarkedNext
<1>2. \A gs : Ancestry(gs)' = Ancestry(gs)
  BY AncestryNow, AncestryNext
<1>3. \A q \in Moving' : q \in Moving /\ req'[q] = req[q]
  BY DEF Moving
<1>4. \A r, q \in Moving' : r # q => req'[r].target \in raced'
  BY <1>3 DEF MovesFit
<1>5. ASSUME NEW r \in Moving', req'[r].into # None, req'[r].target \notin raced'
      PROVE  req'[r].target \notin AncestryIn(parent', {req'[r].into})
  <2>1. r \in Moving /\ req'[r] = req[r]
    BY <1>3
  <2>2. req[r].target \notin Ancestry({req[r].into})
    BY <1>5, <2>1 DEF MovesFit
  <2> QED
    BY <2>1, <2>2, AncestryNow
<1>6. \A r \in Moving' : req'[r].into # None /\ req'[r].target \notin raced' =>
        req'[r].target \notin Ancestry({req[r].into})'
  BY <1>3, <1>5, AncestryNext
<1> QED
  BY <1>1, <1>4, <1>5, <1>6 DEF MovesFit

LEMMA BegunStays ==
  ASSUME NEW q \in Request, Begun(q), roles \subseteq roles', UNCHANGED groups,
         req'[q] = req[q] \/ req'[q].at \notin {"revoke", "insert", "commit", "moving"}
  PROVE  Begun(q)'
  BY DEF Begun, MyRole, Mine, Present, Covers

(* A request that ends.                                                    *)
LEMMA Ends ==
  ASSUME req \in [Request -> Locals], NEW r \in Request, req' = [req EXCEPT ![r] = Blank]
  PROVE  /\ req' \in [Request -> Locals]
         /\ \A q \in Request : GoesOn(q)
         /\ \A q \in Request : req'[q] = req[q] \/ req'[q].at = "idle"
<1>1. Blank \in Locals /\ Blank.at = "idle"
  BY DEF Blank, Locals, At
<1>2. \A q \in Request : req'[q] = IF q = r THEN Blank ELSE req[q]
  OBVIOUS
<1> QED
  BY <1>1, <1>2 DEF GoesOn

(* One that goes on with its user, token and permissions.                  *)
LEMMA GoesOnWith ==
  ASSUME req \in [Request -> Locals], NEW r \in Request, NEW l \in Locals,
         req' = [req EXCEPT ![r] = l],
         req[r].at \in Later, l.at \in Later,
         l.user = req[r].user, l.token = req[r].token, l.perms = req[r].perms
  PROVE  /\ req' \in [Request -> Locals]
         /\ \A q \in Request : GoesOn(q)
         /\ \A q \in Request : req'[q] = IF q = r THEN l ELSE req[q]
  BY DEF GoesOn

-----------------------------------------------------------------------------
(* The initial states.                                                     *)

LEMMA InitTyped == Init => TypeOK
<1>1. SUFFICES ASSUME Init PROVE TypeOK
  OBVIOUS
<1>2. AccountsTyped
  BY <1>1, RowsAssumption DEF Init, AccountsTyped
<1>3. GroupsTyped
  BY <1>1, RowsAssumption, TreeAssumption, NoneAssumption DEF Init, GroupsTyped, Forest, GroupsAtStart
<1>4. HoldersTyped
  BY <1>1, RowsAssumption DEF Init, HoldersTyped
<1>5. RequestsTyped
  BY <1>1 DEF Init, RequestsTyped, Locals, Blank, At, Facts, Nothing
<1> QED
  BY <1>1, <1>2, <1>3, <1>4, <1>5, TypeParts DEF Init

LEMMA InitKeeps == Init => AccessInv
<1>1. SUFFICES ASSUME Init PROVE AccessInv
  OBVIOUS
<1>2. TypeOK
  BY <1>1, InitTyped
<1>3. OneRealm
  <2>1. \A h \in userRoles \cup members \cup groupRoles : RealmOf[h[1]] = RealmOf[h[2]]
    BY <1>1, RowsAssumption DEF Init
  <2>2. \A g \in Group : parent[g] # None => RealmOf[parent[g]] = RealmOf[g]
    BY <1>1, TreeAssumption DEF Init
  <2> QED
    BY <2>1, <2>2 DEF OneRealm
<1>4. \A r \in Request : req[r].at = "idle"
  BY <1>1 DEF Init, Blank
<1>5. \A r \in Request : Standing(r) /\ Begun(r)
  BY <1>4 DEF Standing, Begun
<1>6. MovesFit
  BY <1>4 DEF MovesFit, Moving
<1>7. CyclesNeedTwoMoves
  <2>1. SUFFICES ASSUME NEW g \in Group, InCycle(parent, g) PROVE FALSE
    BY AboveItselfNow DEF CyclesNeedTwoMoves
  <2>2. PICK level \in [GroupsAtStart -> 0..Cardinality(Group)] :
          \A h \in GroupsAtStart : ParentsAtStart[h] # None =>
            level[ParentsAtStart[h]] < level[h]
    BY TreeAssumption
  <2>3. parent \in Forest
    BY <1>2, TypeParts DEF GroupsTyped
  <2>4. \A h \in Group : parent[h] # None => /\ h \in GroupsAtStart
                                             /\ parent[h] = ParentsAtStart[h]
                                             /\ parent[h] \in GroupsAtStart
    BY <1>1, TreeAssumption DEF Init
  <2> DEFINE S == {h \in GroupsAtStart : level[h] < level[g]}
  <2>5. g \in GroupsAtStart /\ parent[g] \in S
    BY <2>1, <2>2, <2>4 DEF InCycle
  <2>6. ClosedUp(parent, S)
    <3>1. SUFFICES ASSUME NEW h \in S, parent[h] # None PROVE parent[h] \in S
      BY DEF ClosedUp
    <3>2. parent[h] \in GroupsAtStart /\ level[parent[h]] < level[h]
      BY <2>2, <2>4, <3>1, RowsAssumption
    <3>3. level[parent[h]] \in Nat /\ level[h] \in Nat /\ level[g] \in Nat
      BY <2>2, <2>5, <3>2, Levels DEF Height
    <3> QED
      BY <3>2, <3>3
  <2>7. AncestryIn(parent, {parent[g]}) \subseteq S
    BY <2>5, <2>6, AncestryLeast
  <2>8. level[g] \in Nat
    BY <2>2, <2>5, Levels DEF Height
  <2> QED
    BY <2>1, <2>7, <2>8 DEF InCycle
<1> QED
  BY <1>2, <1>3, <1>5, <1>6, <1>7 DEF AccessInv

-----------------------------------------------------------------------------
(* The credential, the account and the permissions.                        *)

LEMMA Untouched ==
  ASSUME AccessInv, UNCHANGED <<accounts, tree>>
  PROVE  AccountsTyped' /\ GroupsTyped' /\ HoldersTyped' /\ OneRealm'
<1>1. AccountsTyped /\ GroupsTyped /\ HoldersTyped /\ OneRealm
  BY TypeParts DEF AccessInv
<1>2. UNCHANGED <<users, sessions, roles, userRoles, grants, groups, parent, members, groupRoles>>
  BY DEF accounts, tree
<1>3. AccountsTyped'
  BY <1>1, <1>2 DEF AccountsTyped
<1>4. GroupsTyped' /\ HoldersTyped' /\ OneRealm'
  BY <1>1, <1>2 DEF GroupsTyped, HoldersTyped, OneRealm
<1> QED
  BY <1>3, <1>4

LEMMA HeldStays ==
  ASSUME UNCHANGED <<accounts, tree>>, NEW u
  PROVE  Held(u)' = Held(u)
<1>1. \A gs : Ancestry(gs)' = Ancestry(gs)
  BY AncestryNow, AncestryNext DEF tree
<1>2. GroupsOf(u)' = GroupsOf(u)
  BY <1>1 DEF GroupsOf, tree
<1>3. RolesHeld(u)' = RolesHeld(u)
  BY <1>2 DEF RolesHeld, accounts, tree
<1> QED
  BY <1>3 DEF Held, accounts

LEMMA FactsAre ==
  ASSUME NEW r
  PROVE  /\ req'[r].token = 0 /\ req'[r].user \in sessions' => FactsNow(r)'.live
         /\ req'[r].token # 0 /\ Live(req[r].token)' => FactsNow(r)'.live
         /\ users'[req'[r].user] = "enabled" => FactsNow(r)'.enabled
         /\ req'[r].token = 0 => FactsNow(r)'.held = Covered(Held(req[r].user))'
         /\ req'[r].token # 0 =>
              FactsNow(r)'.held = (Covered(Held(req[r].user)) \cap tokens[req[r].token].permissions)'
<1>1. FactsNow(r)'.live = (IF req[r].token = 0 THEN req[r].user \in sessions
                           ELSE Live(req[r].token))'
  BY SMT DEF FactsNow
<1>2. FactsNow(r)'.enabled = (users'[req'[r].user] = "enabled")
  BY SMT DEF FactsNow
<1>3. FactsNow(r)'.held = (IF req[r].token = 0 THEN Covered(Held(req[r].user))
          ELSE Covered(Held(req[r].user)) \cap tokens[req[r].token].permissions)'
  BY SMT DEF FactsNow
<1>4. req'[r].token = 0 /\ req'[r].user \in sessions' => FactsNow(r)'.live
  BY <1>1, Zenon
<1>5. req'[r].token # 0 /\ Live(req[r].token)' => FactsNow(r)'.live
  BY <1>1, Zenon
<1>6. users'[req'[r].user] = "enabled" => FactsNow(r)'.enabled
  BY <1>2, Zenon
<1>7. req'[r].token = 0 => FactsNow(r)'.held = Covered(Held(req[r].user))'
  BY <1>3, Zenon
<1>8. req'[r].token # 0 =>
        FactsNow(r)'.held = (Covered(Held(req[r].user)) \cap tokens[req[r].token].permissions)'
  BY <1>3, Zenon
<1> QED
  BY <1>4, <1>5, <1>6, <1>7, <1>8, Zenon

(* One request is at another place, and nothing else has changed.          *)
LEMMA OneGoes ==
  ASSUME AccessInv, Observe, NEW r \in Request, NEW l \in Locals,
         req' = [req EXCEPT ![r] = l],
         l.at \notin {"revoke", "insert", "commit", "moving"},
         UNCHANGED <<accounts, tree, tokens, raced>>, changes' \in Nat,
         GoesOn(r) \/ Standing(r)'
  PROVE  AccessInv'
<1>1. req \in [Request -> Locals] /\ tokens \in Seq(Token) /\ raced \subseteq Group
  BY DEF AccessInv, TypeOK
<1>2. \A q \in Request : req'[q] = IF q = r THEN l ELSE req[q]
  BY <1>1
<1>3. req' \in [Request -> Locals]
  BY <1>1
<1>4. AccountsTyped' /\ GroupsTyped' /\ HoldersTyped' /\ OneRealm'
  BY Untouched
<1>5. TokensStay
  BY Quietly
<1>6. \A q \in Request : GoesOn(q) \/ Standing(q)'
  BY <1>2 DEF GoesOn
<1>7. \A q \in Request : Begun(q)'
  BY <1>2, BegunStays DEF AccessInv, accounts, tree
<1>8. MovesFit' /\ CyclesNeedTwoMoves'
  BY <1>2, GroupsStay DEF AccessInv, tree
<1> QED
  BY <1>1, <1>3, <1>4, <1>5, <1>6, <1>7, <1>8, StepKeeps

LEMMA PresentSessionKeeps ==
  ASSUME AccessInv, Observe, NEW r \in Request, NEW u \in User, PresentSession(r, u)
  PROVE  AccessInv'
<1> DEFINE l == [Blank EXCEPT !.at = "account", !.user = u, !.perms = Permission]
<1>1. /\ l \in Locals /\ l.at = "account" /\ l.user = u /\ l.token = 0
  BY DEF Locals, Blank, At
<1>2. /\ req' = [req EXCEPT ![r] = l] /\ u \in sessions
      /\ UNCHANGED <<accounts, tree, tokens, raced, changes>>
  BY DEF PresentSession
<1> HIDE DEF l
<1>3. req \in [Request -> Locals] /\ changes \in Nat
  BY DEF AccessInv, TypeOK
<1>4. req'[r] = l
  BY <1>2, <1>3
<1>5. since'[r].live
  <2>1. sessions' = sessions
    BY <1>2 DEF accounts
  <2>2. req'[r].token = 0 /\ req'[r].user \in sessions' /\ req'[r].at # "idle"
    BY <1>1, <1>2, <1>4, <2>1
  <2>3. FactsNow(r)'.live
    BY <2>2, FactsAre, Zenon
  <2> QED
    BY <2>2, <2>3, SinceGrows, Zenon
<1>6. Standing(r)'
  <2>1. /\ req'[r].at = "account" /\ req'[r].user \in User /\ req'[r].token = 0
        /\ "account" \notin Later
    BY <1>1, <1>4 DEF Later
  <2> QED
    BY <1>5, <2>1, Zenon DEF Standing
<1> QED
  BY <1>1, <1>2, <1>3, <1>6, OneGoes

LEMMA PresentTokenKeeps ==
  ASSUME AccessInv, Observe, NEW r \in Request, NEW n \in DOMAIN tokens, PresentToken(r, n)
  PROVE  AccessInv'
<1> DEFINE l == [Blank EXCEPT !.at = "account", !.user = tokens[n].user, !.token = n,
                              !.perms = tokens[n].permissions]
<1>1. tokens[n] \in Token /\ n \in Nat /\ n # 0
  BY DEF AccessInv, TypeOK
<1>2. /\ l \in Locals /\ l.at = "account" /\ l.user \in User /\ l.token = n
      /\ l.perms = tokens[n].permissions
  BY <1>1 DEF Locals, Blank, At, Token
<1>3. /\ req' = [req EXCEPT ![r] = l] /\ Live(n)
      /\ UNCHANGED <<accounts, tree, tokens, raced, changes>>
  BY DEF PresentToken
<1> HIDE DEF l
<1>4. req \in [Request -> Locals] /\ changes \in Nat
  BY DEF AccessInv, TypeOK
<1>5. req'[r] = l
  BY <1>3, <1>4
<1>6. since'[r].live
  <2>1. req'[r].token # 0 /\ req'[r].token = n /\ req'[r].at # "idle"
    BY <1>1, <1>2, <1>5
  <2>2. Live(req[r].token)'
    BY <1>3, <2>1, Zenon DEF Live
  <2>3. FactsNow(r)'.live
    BY <2>1, <2>2, FactsAre, Zenon
  <2> QED
    BY <2>1, <2>3, SinceGrows, Zenon
<1>7. Standing(r)'
  <2>1. /\ req'[r].at = "account" /\ req'[r].user \in User
        /\ req'[r].token \in DOMAIN tokens' /\ "account" \notin Later
        /\ req'[r].perms = tokens'[req'[r].token].permissions
    BY <1>2, <1>3, <1>5 DEF Later
  <2> QED
    BY <1>6, <2>1, Zenon DEF Standing
<1> QED
  BY <1>2, <1>3, <1>4, <1>7, OneGoes

LEMMA ReadAccountKeeps ==
  ASSUME AccessInv, Observe, NEW r \in Request, ReadAccount(r)
  PROVE  AccessInv'
<1>1. /\ req \in [Request -> Locals] /\ changes \in Nat /\ req[r].at = "account"
      /\ UNCHANGED <<accounts, tree, tokens, raced, changes>>
  BY DEF AccessInv, TypeOK, ReadAccount
<1>2. CASE users[req[r].user] # "enabled"
  <2>1. Blank \in Locals /\ Blank.at = "idle" /\ req' = [req EXCEPT ![r] = Blank]
    BY <1>2 DEF Blank, Locals, At, ReadAccount
  <2>2. GoesOn(r)
    BY <1>1, <2>1 DEF GoesOn
  <2> QED
    BY <1>1, <2>1, <2>2, OneGoes
<1>3. CASE users[req[r].user] = "enabled"
  <2> DEFINE l == [req[r] EXCEPT !.at = "permissions"]
  <2>1. /\ l \in Locals /\ l.at = "permissions" /\ l.user = req[r].user
        /\ l.token = req[r].token /\ l.perms = req[r].perms
    BY <1>1 DEF Locals, At
  <2>2. req' = [req EXCEPT ![r] = l]
    BY <1>3 DEF ReadAccount
  <2> HIDE DEF l
  <2>3. req'[r] = l
    BY <1>1, <2>2
  <2>4. /\ since[r].live /\ req[r].user \in User
        /\ req[r].token # 0 => /\ req[r].token \in DOMAIN tokens
                               /\ req[r].perms = tokens[req[r].token].permissions
    <3>1. req[r].at # "idle" /\ req[r].at \notin Later
      BY <1>1 DEF Later
    <3>2. Standing(r)
      BY DEF AccessInv
    <3> QED
      BY <3>1, <3>2, Zenon DEF Standing
  <2>5. since'[r].live /\ since'[r].enabled
    <3>1. req'[r].at # "idle" /\ users'[req'[r].user] = "enabled"
      BY <1>1, <1>3, <2>1, <2>3 DEF accounts
    <3>2. FactsNow(r)'.enabled
      BY <3>1, FactsAre, Zenon
    <3> QED
      BY <2>4, <3>1, <3>2, SinceGrows, Zenon
  <2>6. Standing(r)'
    <3>1. /\ req'[r].at = "permissions" /\ req'[r].user \in User /\ "permissions" \notin Later
          /\ req'[r].token # 0 => /\ req'[r].token \in DOMAIN tokens'
                                  /\ req'[r].perms = tokens'[req'[r].token].permissions
      BY <1>1, <2>1, <2>3, <2>4 DEF Later
    <3> QED
      BY <2>5, <3>1, Zenon DEF Standing
  <2> QED
    BY <1>1, <2>1, <2>2, <2>6, OneGoes
<1> QED
  BY <1>2, <1>3

LEMMA ReadPermissionsKeeps ==
  ASSUME AccessInv, Observe, NEW r \in Request, ReadPermissions(r)
  PROVE  AccessInv'
<1>1. /\ req \in [Request -> Locals] /\ changes \in Nat /\ req[r].at = "permissions"
      /\ UNCHANGED <<accounts, tree, tokens, raced, changes>>
  BY DEF AccessInv, TypeOK, ReadPermissions
<1> DEFINE held == Covered(Held(req[r].user))
           l == [req[r] EXCEPT !.at = "ready", !.perms = @ \cap held]
<1>2. /\ l \in Locals /\ l.at = "ready" /\ l.user = req[r].user
      /\ l.token = req[r].token /\ l.perms = req[r].perms \cap held
  BY <1>1 DEF Locals, At
<1>3. req' = [req EXCEPT ![r] = l]
  BY <1>1 DEF ReadPermissions
<1> HIDE DEF l
<1>4. req'[r] = l
  BY <1>1, <1>3
<1>5. /\ since[r].live /\ since[r].enabled /\ req[r].user \in User
      /\ req[r].token # 0 => /\ req[r].token \in DOMAIN tokens
                             /\ req[r].perms = tokens[req[r].token].permissions
  <2>1. req[r].at # "idle" /\ req[r].at # "account" /\ req[r].at \notin Later
    BY <1>1 DEF Later
  <2>2. Standing(r)
    BY DEF AccessInv
  <2> QED
    BY <2>1, <2>2, Zenon DEF Standing
<1>6. req'[r].at # "idle"
  BY <1>2, <1>4
<1>7. since'[r].live /\ since'[r].enabled
  BY <1>5, <1>6, SinceGrows, Zenon
<1>8. req'[r].perms \subseteq since'[r].held
  <2>1. Covered(Held(req[r].user))' = held
    <3>1. req'[r].user = req[r].user
      BY <1>2, <1>4
    <3>2. Held(req[r].user)' = Held(req[r].user)
      BY <1>1, <3>1, HeldStays
    <3> QED
      BY <3>2 DEF Covered
  <2> HIDE DEF held
  <2>2. since'[r].held = since[r].held \cup FactsNow(r)'.held
    BY <1>6, SinceGrows
  <2>3. CASE req[r].token = 0
    <3>1. FactsNow(r)'.held = held
      BY <1>2, <1>4, <2>1, <2>3, FactsAre
    <3> QED
      BY <1>2, <1>4, <2>2, <3>1
  <2>4. CASE req[r].token # 0
    <3>1. FactsNow(r)'.held = held \cap tokens'[req'[r].token].permissions
      BY <1>2, <1>4, <2>1, <2>4, FactsAre
    <3>2. tokens'[req'[r].token].permissions = req[r].perms
      BY <1>1, <1>2, <1>4, <1>5, <2>4
    <3> QED
      BY <1>2, <1>4, <2>2, <3>1, <3>2
  <2> QED
    BY <2>3, <2>4
<1>9. Standing(r)'
  <2>1. /\ req'[r].at \in Later /\ req'[r].user \in User
        /\ req'[r].token # 0 => req'[r].token \in DOMAIN tokens'
    BY <1>1, <1>2, <1>4, <1>5 DEF Later
  <2> QED
    BY <1>7, <1>8, <2>1, Zenon DEF Standing
<1> QED
  BY <1>1, <1>2, <1>3, <1>9, OneGoes

LEMMA AbortKeeps ==
  ASSUME AccessInv, Observe, NEW r \in Request, Abort(r)
  PROVE  AccessInv'
<1>1. /\ req \in [Request -> Locals] /\ changes \in Nat
      /\ req' = [req EXCEPT ![r] = Blank]
      /\ UNCHANGED <<accounts, tree, tokens, raced, changes>>
  BY DEF AccessInv, TypeOK, Abort
<1>2. Blank \in Locals /\ Blank.at = "idle"
  BY DEF Blank, Locals, At
<1>3. GoesOn(r)
  BY <1>1, <1>2 DEF GoesOn
<1> QED
  BY <1>1, <1>2, <1>3, OneGoes

-----------------------------------------------------------------------------
(* Operations on accounts and roles, and on who is in a group and what it  *)
(* holds.                                                                  *)

RowsOfOneRealm == \A h \in userRoles \cup members \cup groupRoles : RealmOf[h[1]] = RealmOf[h[2]]

LEMMA OneEnds ==
  ASSUME AccessInv, Observe, NEW r \in Request, req' = [req EXCEPT ![r] = Blank], changes' \in Nat,
         UNCHANGED <<groups, parent, raced>>, roles \subseteq roles',
         AccountsTyped', HoldersTyped', RowsOfOneRealm', TokensStay, tokens' \in Seq(Token)
  PROVE  AccessInv'
<1>1. req \in [Request -> Locals] /\ raced \subseteq Group /\ GroupsTyped
  BY TypeParts DEF AccessInv, RequestsTyped
<1>2. /\ req' \in [Request -> Locals] /\ \A q \in Request : GoesOn(q)
      /\ \A q \in Request : req'[q] = req[q] \/ req'[q].at = "idle"
  BY <1>1, Ends
<1>3. GroupsTyped'
  BY <1>1 DEF GroupsTyped
<1>4. OneRealm'
  BY DEF OneRealm, RowsOfOneRealm, AccessInv
<1>5. \A q \in Request : Begun(q)'
  BY <1>2, BegunStays DEF AccessInv
<1>6. MovesFit' /\ CyclesNeedTwoMoves'
  BY <1>2, GroupsStay DEF AccessInv
<1> QED
  BY <1>1, <1>2, <1>3, <1>4, <1>5, <1>6, StepKeeps

LEMMA Answers ==
  ASSUME AccessInv, NEW r \in Request, Answer(r)
  PROVE  req' = [req EXCEPT ![r] = Blank] /\ changes' \in Nat
  BY DEF AccessInv, TypeOK, Answer, Carry

LEMMA Parts ==
  ASSUME AccessInv
  PROVE  /\ AccountsTyped /\ GroupsTyped /\ HoldersTyped /\ RowsOfOneRealm
         /\ req \in [Request -> Locals] /\ tokens \in Seq(Token) /\ raced \subseteq Group
         /\ changes \in Nat
  BY TypeParts DEF AccessInv, OneRealm, RowsOfOneRealm, RequestsTyped

LEMMA CreateUserKeeps ==
  ASSUME AccessInv, Observe, NEW r \in Request, NEW u \in User, CreateUser(r, u)
  PROVE  AccessInv'
<1>1. AccountsTyped /\ HoldersTyped /\ RowsOfOneRealm /\ tokens \in Seq(Token)
  BY Parts
<1>2. /\ users' = [users EXCEPT ![u] = "enabled"] /\ users[u] = "unused" /\ Answer(r)
      /\ UNCHANGED <<sessions, roles, userRoles, grants, groups, parent, members, groupRoles,
                     tokens, raced>>
  BY DEF CreateUser, tree
<1>3. AccountsTyped'
  BY <1>1, <1>2 DEF AccountsTyped
<1>4. HoldersTyped'
  BY <1>1, <1>2 DEF HoldersTyped, AccountsTyped
<1>5. RowsOfOneRealm'
  BY <1>1, <1>2 DEF RowsOfOneRealm
<1> QED
  BY <1>1, <1>2, <1>3, <1>4, <1>5, Answers, OneEnds, Quietly

LEMMA SetUserEnabledKeeps ==
  ASSUME AccessInv, Observe, NEW r \in Request, NEW u \in User, NEW enabled \in BOOLEAN,
         SetUserEnabled(r, u, enabled)
  PROVE  AccessInv'
<1>1. /\ AccountsTyped /\ HoldersTyped /\ RowsOfOneRealm /\ tokens \in Seq(Token)
      /\ req \in [Request -> Locals] /\ GroupsTyped /\ raced \subseteq Group /\ changes \in Nat
  BY Parts
<1>2. /\ OnFile(u) /\ Allowed(r, "user:write")
      /\ UNCHANGED <<sessions, roles, userRoles, grants, groups, parent, members, groupRoles,
                     tokens, raced>>
      /\ users' = [users EXCEPT ![u] = "enabled"] \/ users' = [users EXCEPT ![u] = "disabled"]
  BY DEF SetUserEnabled, tree
<1>3. AccountsTyped'
  BY <1>1, <1>2 DEF AccountsTyped, OnFile
<1>4. HoldersTyped'
  BY <1>1, <1>2 DEF HoldersTyped, AccountsTyped, OnFile
<1>5. RowsOfOneRealm'
  BY <1>1, <1>2 DEF RowsOfOneRealm
<1>6. CASE enabled /\ Answer(r)
  BY <1>1, <1>2, <1>3, <1>4, <1>5, <1>6, Answers, OneEnds, Quietly
<1>7. CASE Carry(r, [req[r] EXCEPT !.at = "revoke", !.target = u])
  <2> DEFINE l == [req[r] EXCEPT !.at = "revoke", !.target = u]
  <2>1. /\ req' = [req EXCEPT ![r] = l] /\ changes' \in Nat
        /\ req[r].at \in Later /\ Covers(req[r].perms, "user:write")
    BY <1>1, <1>2, <1>7 DEF Carry, Allowed, Later
  <2>2. /\ l \in Locals /\ l.at = "revoke" /\ l.at \in Later /\ l.user = req[r].user
        /\ l.token = req[r].token /\ l.perms = req[r].perms
    BY <1>1 DEF Locals, At, Later
  <2> HIDE DEF l
  <2>3. /\ req' \in [Request -> Locals]
        /\ \A q \in Request : GoesOn(q)
        /\ \A q \in Request : req'[q] = IF q = r THEN l ELSE req[q]
    BY <1>1, <2>1, <2>2, GoesOnWith
  <2>4. ASSUME NEW q \in Request PROVE Begun(q)'
    <3>1. CASE q = r
      BY <2>1, <2>2, <2>3, <3>1 DEF Begun, Covers
    <3>2. CASE q # r
      BY <1>2, <2>3, <3>2, BegunStays DEF AccessInv
    <3> QED
      BY <3>1, <3>2
  <2>5. GroupsTyped' /\ OneRealm'
    BY <1>1, <1>2 DEF GroupsTyped, OneRealm, AccessInv
  <2>6. MovesFit' /\ CyclesNeedTwoMoves'
    BY <1>2, <2>2, <2>3, GroupsStay DEF AccessInv
  <2> QED
    BY <1>1, <1>2, <1>3, <1>4, <2>1, <2>3, <2>4, <2>5, <2>6, StepKeeps, Quietly
<1> QED
  BY <1>6, <1>7 DEF SetUserEnabled

LEMMA RevokeSessionsKeeps ==
  ASSUME AccessInv, Observe, NEW r \in Request, RevokeSessions(r)
  PROVE  AccessInv'
<1>1. /\ AccountsTyped /\ HoldersTyped /\ RowsOfOneRealm /\ tokens \in Seq(Token)
      /\ changes \in Nat
  BY Parts
<1>2. /\ sessions' = sessions \ {req[r].target} /\ req' = [req EXCEPT ![r] = Blank]
      /\ UNCHANGED <<users, roles, userRoles, grants, groups, parent, members, groupRoles,
                     tokens, raced, changes>>
  BY DEF RevokeSessions, tree
<1>3. AccountsTyped'
  BY <1>1, <1>2 DEF AccountsTyped
<1>4. HoldersTyped' /\ RowsOfOneRealm'
  BY <1>1, <1>2 DEF HoldersTyped, RowsOfOneRealm
<1> QED
  BY <1>1, <1>2, <1>3, <1>4, OneEnds, Quietly

(* Changing some marks of every token.                                     *)
LEMMA TokensMapped ==
  ASSUME tokens \in Seq(Token), NEW t, DOMAIN t = DOMAIN tokens,
         \A n \in DOMAIN tokens : t[n] \in Token,
         t = [n \in DOMAIN tokens |-> t[n]]
  PROVE  t \in Seq(Token)
<1>1. Len(tokens) \in Nat /\ DOMAIN tokens = 1..Len(tokens)
  OBVIOUS
<1>2. t \in [1..Len(tokens) -> Token]
  BY <1>1
<1> QED
  BY <1>1, <1>2

LEMMA DeleteUserKeeps ==
  ASSUME AccessInv, Observe, NEW r \in Request, NEW u \in User, DeleteUser(r, u)
  PROVE  AccessInv'
<1>1. AccountsTyped /\ HoldersTyped /\ RowsOfOneRealm /\ tokens \in Seq(Token)
  BY Parts
<1>2. /\ users' = [users EXCEPT ![u] = "deleted"] /\ sessions' = sessions \ {u}
      /\ userRoles' = {h \in userRoles : h[1] # u} /\ members' = {m \in members : m[1] # u}
      /\ tokens' = [n \in DOMAIN tokens |->
                     [tokens[n] EXCEPT !.deleted = @ \/ tokens[n].user = u]]
      /\ Answer(r)
      /\ UNCHANGED <<roles, grants, groups, parent, groupRoles, raced>>
  BY DEF DeleteUser
<1>3. AccountsTyped'
  BY <1>1, <1>2 DEF AccountsTyped
<1>4. HoldersTyped'
  BY <1>1, <1>2 DEF HoldersTyped, AccountsTyped
<1>5. RowsOfOneRealm'
  BY <1>1, <1>2 DEF RowsOfOneRealm
<1>6. tokens' \in Seq(Token) /\ TokensStay
  <2>1. \A n \in DOMAIN tokens : tokens[n] \in Token
    BY <1>1
  <2>2. \A n \in DOMAIN tokens : tokens'[n] \in Token
                                 /\ tokens'[n].permissions = tokens[n].permissions
    BY <1>2, <2>1 DEF Token
  <2>3. DOMAIN tokens' = DOMAIN tokens /\ tokens' = [n \in DOMAIN tokens |-> tokens'[n]]
    BY <1>2
  <2> QED
    BY <1>1, <2>2, <2>3, TokensMapped DEF TokensStay
<1> QED
  BY <1>2, <1>3, <1>4, <1>5, <1>6, Answers, OneEnds

LEMMA CreateRoleKeeps ==
  ASSUME AccessInv, Observe, NEW r \in Request, NEW o \in Role, CreateRole(r, o)
  PROVE  AccessInv'
<1>1. AccountsTyped /\ HoldersTyped /\ RowsOfOneRealm /\ tokens \in Seq(Token)
  BY Parts
<1>2. /\ roles' = roles \cup {o} /\ Answer(r)
      /\ UNCHANGED <<users, sessions, userRoles, grants, groups, parent, members, groupRoles,
                     tokens, raced>>
  BY DEF CreateRole, tree
<1>3. AccountsTyped'
  BY <1>1, <1>2 DEF AccountsTyped
<1>4. HoldersTyped' /\ RowsOfOneRealm'
  BY <1>1, <1>2 DEF HoldersTyped, RowsOfOneRealm
<1> QED
  BY <1>1, <1>2, <1>3, <1>4, Answers, OneEnds, Quietly

LEMMA GrantRoleKeeps ==
  ASSUME AccessInv, Observe, NEW r \in Request, NEW u \in User, NEW o \in Role, GrantRole(r, u, o)
  PROVE  AccessInv'
<1>1. AccountsTyped /\ HoldersTyped /\ RowsOfOneRealm /\ tokens \in Seq(Token)
  BY Parts
<1>2. /\ userRoles' = userRoles \cup {<<u, o>>} /\ Answer(r)
      /\ OnFile(u) /\ o \in roles /\ RealmOf[u] = RealmOf[o]
      /\ UNCHANGED <<users, sessions, roles, grants, groups, parent, members, groupRoles,
                     tokens, raced>>
  BY DEF GrantRole, MyRole, Mine, tree
<1>3. AccountsTyped'
  BY <1>1, <1>2 DEF AccountsTyped, OnFile
<1>4. HoldersTyped' /\ RowsOfOneRealm'
  BY <1>1, <1>2 DEF HoldersTyped, RowsOfOneRealm
<1> QED
  BY <1>1, <1>2, <1>3, <1>4, Answers, OneEnds, Quietly

LEMMA RevokeRoleKeeps ==
  ASSUME AccessInv, Observe, NEW r \in Request, NEW u \in User, NEW o \in Role, RevokeRole(r, u, o)
  PROVE  AccessInv'
<1>1. AccountsTyped /\ HoldersTyped /\ RowsOfOneRealm /\ tokens \in Seq(Token)
  BY Parts
<1>2. /\ userRoles' = userRoles \ {<<u, o>>} /\ Answer(r)
      /\ UNCHANGED <<users, sessions, roles, grants, groups, parent, members, groupRoles,
                     tokens, raced>>
  BY DEF RevokeRole, tree
<1>3. AccountsTyped'
  BY <1>1, <1>2 DEF AccountsTyped
<1>4. HoldersTyped' /\ RowsOfOneRealm'
  BY <1>1, <1>2 DEF HoldersTyped, RowsOfOneRealm
<1> QED
  BY <1>1, <1>2, <1>3, <1>4, Answers, OneEnds, Quietly

LEMMA AddMemberKeeps ==
  ASSUME AccessInv, Observe, NEW r \in Request, NEW g \in Group, NEW u \in User, AddMember(r, g, u)
  PROVE  AccessInv'
<1>1. AccountsTyped /\ HoldersTyped /\ RowsOfOneRealm /\ tokens \in Seq(Token)
  BY Parts
<1>2. /\ members' = members \cup {<<u, g>>} /\ Answer(r)
      /\ OnFile(u) /\ groups[g] = "present" /\ RealmOf[u] = RealmOf[g]
      /\ UNCHANGED <<users, sessions, roles, userRoles, grants, groups, parent, groupRoles,
                     tokens, raced>>
  BY DEF AddMember, Found, Mine, accounts
<1>3. AccountsTyped'
  BY <1>1, <1>2 DEF AccountsTyped
<1>4. HoldersTyped' /\ RowsOfOneRealm'
  BY <1>1, <1>2 DEF HoldersTyped, RowsOfOneRealm, OnFile
<1> QED
  BY <1>1, <1>2, <1>3, <1>4, Answers, OneEnds, Quietly

LEMMA RemoveMemberKeeps ==
  ASSUME AccessInv, Observe, NEW r \in Request, NEW g \in Group, NEW u \in User, RemoveMember(r, g, u)
  PROVE  AccessInv'
<1>1. AccountsTyped /\ HoldersTyped /\ RowsOfOneRealm /\ tokens \in Seq(Token)
  BY Parts
<1>2. /\ members' = members \ {<<u, g>>} /\ Answer(r)
      /\ UNCHANGED <<users, sessions, roles, userRoles, grants, groups, parent, groupRoles,
                     tokens, raced>>
  BY DEF RemoveMember, accounts
<1>3. AccountsTyped'
  BY <1>1, <1>2 DEF AccountsTyped
<1>4. HoldersTyped' /\ RowsOfOneRealm'
  BY <1>1, <1>2 DEF HoldersTyped, RowsOfOneRealm
<1> QED
  BY <1>1, <1>2, <1>3, <1>4, Answers, OneEnds, Quietly

LEMMA GrantGroupRoleKeeps ==
  ASSUME AccessInv, Observe, NEW r \in Request, NEW g \in Group, NEW o \in Role,
         GrantGroupRole(r, g, o)
  PROVE  AccessInv'
<1>1. AccountsTyped /\ HoldersTyped /\ RowsOfOneRealm /\ tokens \in Seq(Token)
  BY Parts
<1>2. /\ groupRoles' = groupRoles \cup {<<g, o>>} /\ Answer(r)
      /\ o \in roles /\ groups[g] = "present" /\ RealmOf[o] = RealmOf[g]
      /\ UNCHANGED <<users, sessions, roles, userRoles, grants, groups, parent, members,
                     tokens, raced>>
  BY DEF GrantGroupRole, Found, accounts
<1>3. AccountsTyped'
  BY <1>1, <1>2 DEF AccountsTyped
<1>4. HoldersTyped' /\ RowsOfOneRealm'
  BY <1>1, <1>2 DEF HoldersTyped, RowsOfOneRealm
<1> QED
  BY <1>1, <1>2, <1>3, <1>4, Answers, OneEnds, Quietly

LEMMA RevokeGroupRoleKeeps ==
  ASSUME AccessInv, Observe, NEW r \in Request, NEW g \in Group, NEW o \in Role,
         RevokeGroupRole(r, g, o)
  PROVE  AccessInv'
<1>1. AccountsTyped /\ HoldersTyped /\ RowsOfOneRealm /\ tokens \in Seq(Token)
  BY Parts
<1>2. /\ groupRoles' = groupRoles \ {<<g, o>>} /\ Answer(r)
      /\ UNCHANGED <<users, sessions, roles, userRoles, grants, groups, parent, members,
                     tokens, raced>>
  BY DEF RevokeGroupRole, accounts
<1>3. AccountsTyped'
  BY <1>1, <1>2 DEF AccountsTyped
<1>4. HoldersTyped' /\ RowsOfOneRealm'
  BY <1>1, <1>2 DEF HoldersTyped, RowsOfOneRealm
<1> QED
  BY <1>1, <1>2, <1>3, <1>4, Answers, OneEnds, Quietly

-----------------------------------------------------------------------------
(* The permissions of a role, and the tokens.                              *)

LEMMA OneStages ==
  ASSUME AccessInv, Observe, NEW r \in Request, NEW l \in Locals, req' = [req EXCEPT ![r] = l],
         req[r].at \in Later, l.at \in Later, l.at # "moving",
         l.user = req[r].user, l.token = req[r].token, l.perms = req[r].perms,
         UNCHANGED <<accounts, tree, tokens, raced>>, changes' \in Nat, Begun(r)'
  PROVE  AccessInv'
<1>1. req \in [Request -> Locals] /\ tokens \in Seq(Token) /\ raced \subseteq Group
  BY Parts
<1>2. /\ req' \in [Request -> Locals]
      /\ \A q \in Request : GoesOn(q)
      /\ \A q \in Request : req'[q] = IF q = r THEN l ELSE req[q]
  BY <1>1, GoesOnWith
<1>3. AccountsTyped' /\ GroupsTyped' /\ HoldersTyped' /\ OneRealm'
  BY Untouched
<1>4. \A q \in Request : Begun(q)'
  BY <1>2, BegunStays DEF AccessInv, accounts, tree
<1>5. MovesFit' /\ CyclesNeedTwoMoves'
  BY <1>2, GroupsStay DEF AccessInv, tree
<1> QED
  BY <1>1, <1>2, <1>3, <1>4, <1>5, StepKeeps, Quietly

LEMMA BeginSetKeeps ==
  ASSUME AccessInv, Observe, NEW r \in Request, NEW o \in Role, NEW set \in RoleGrants,
         BeginSet(r, o, set)
  PROVE  AccessInv'
<1>1. req \in [Request -> Locals] /\ changes \in Nat
  BY Parts
<1> DEFINE l == [req[r] EXCEPT !.at = "insert", !.target = o, !.set = set, !.todo = set]
<1>2. /\ req' = [req EXCEPT ![r] = l] /\ changes' \in Nat /\ req[r].at \in Later
      /\ Covers(req[r].perms, "role:write") /\ o \in roles /\ RealmOf[o] = RealmOf[req[r].user]
      /\ UNCHANGED <<accounts, tree, tokens, raced>>
  BY <1>1 DEF BeginSet, Carry, Allowed, MyRole, Mine, Later
<1>3. /\ l \in Locals /\ l.at = "insert" /\ l.user = req[r].user /\ l.target = o
      /\ l.token = req[r].token /\ l.perms = req[r].perms
  <2>1. o \in User \cup Role \cup Group \cup {None} /\ set \in SUBSET Permission
    BY GrantAssumption
  <2> QED
    BY <1>1, <2>1 DEF Locals, At
<1> HIDE DEF l
<1>4. Begun(r)'
  BY <1>1, <1>2, <1>3 DEF Begun, Covers, MyRole, Mine, accounts
<1> QED
  BY <1>2, <1>3, <1>4, OneStages DEF Later

LEMMA InsertPermissionKeeps ==
  ASSUME AccessInv, Observe, NEW r \in Request, NEW p \in Permission, InsertPermission(r, p)
  PROVE  AccessInv'
<1>1. req \in [Request -> Locals] /\ changes \in Nat /\ Begun(r)
  BY Parts DEF AccessInv
<1> DEFINE l == [req[r] EXCEPT !.todo = @ \ {p},
                    !.staged = IF p \in grants[req[r].target] THEN @ ELSE @ \cup {p}]
<1>2. /\ req' = [req EXCEPT ![r] = l] /\ req[r].at = "insert"
      /\ UNCHANGED <<accounts, tree, tokens, raced, changes>>
  BY <1>1 DEF InsertPermission
<1>3. /\ l \in Locals /\ l.at = "insert" /\ l.user = req[r].user /\ l.target = req[r].target
      /\ l.token = req[r].token /\ l.perms = req[r].perms
  BY <1>1, <1>2 DEF Locals, At
<1> HIDE DEF l
<1>4. Begun(r)'
  BY <1>1, <1>2, <1>3 DEF Begun, Covers, MyRole, Mine, accounts
<1> QED
  BY <1>1, <1>2, <1>3, <1>4, OneStages DEF Later

LEMMA WithdrawPermissionsKeeps ==
  ASSUME AccessInv, Observe, NEW r \in Request, WithdrawPermissions(r)
  PROVE  AccessInv'
<1>1. req \in [Request -> Locals] /\ changes \in Nat /\ Begun(r) /\ AccountsTyped
  BY Parts DEF AccessInv
<1> DEFINE l == [req[r] EXCEPT !.at = "commit",
                               !.withdrawn = grants[req[r].target] \ req[r].set]
<1>2. /\ req' = [req EXCEPT ![r] = l] /\ req[r].at = "insert"
      /\ UNCHANGED <<accounts, tree, tokens, raced, changes>>
  BY <1>1 DEF WithdrawPermissions
<1>3. grants[req[r].target] \subseteq Permission
  BY <1>1, <1>2 DEF Begun, MyRole, AccountsTyped
<1>4. /\ l \in Locals /\ l.at = "commit" /\ l.user = req[r].user /\ l.target = req[r].target
      /\ l.token = req[r].token /\ l.perms = req[r].perms
  BY <1>1, <1>3 DEF Locals, At
<1> HIDE DEF l
<1>5. Begun(r)'
  BY <1>1, <1>2, <1>4 DEF Begun, Covers, MyRole, Mine, accounts
<1> QED
  BY <1>1, <1>2, <1>4, <1>5, OneStages DEF Later

LEMMA CommitSetKeeps ==
  ASSUME AccessInv, Observe, NEW r \in Request, CommitSet(r)
  PROVE  AccessInv'
<1>1. /\ AccountsTyped /\ HoldersTyped /\ RowsOfOneRealm /\ tokens \in Seq(Token)
      /\ req \in [Request -> Locals] /\ changes \in Nat /\ Begun(r)
  BY Parts DEF AccessInv
<1> DEFINE o == req[r].target
<1>2. /\ grants' = [grants EXCEPT ![o] = (@ \cup req[r].staged) \ req[r].withdrawn]
      /\ req[r].at = "commit" /\ req' = [req EXCEPT ![r] = Blank]
      /\ UNCHANGED <<users, sessions, roles, userRoles, groups, parent, members, groupRoles,
                     tokens, raced, changes>>
  BY DEF CommitSet, tree
<1>3. o \in roles
  BY <1>1, <1>2 DEF Begun, MyRole
<1>4. AccountsTyped'
  <2>1. req[r].staged \subseteq Permission
    BY <1>1 DEF Locals
  <2> QED
    BY <1>1, <1>2, <1>3, <2>1 DEF AccountsTyped
<1>5. HoldersTyped' /\ RowsOfOneRealm'
  BY <1>1, <1>2 DEF HoldersTyped, RowsOfOneRealm
<1> QED
  BY <1>1, <1>2, <1>4, <1>5, OneEnds, Quietly

(* A step of the tokens alone.                                             *)
LEMMA TokensChange ==
  ASSUME AccessInv, Observe, UNCHANGED <<accounts, tree, req, raced>>, changes' \in Nat,
         tokens' \in Seq(Token), TokensStay
  PROVE  AccessInv'
<1>1. req \in [Request -> Locals] /\ raced \subseteq Group
  BY Parts
<1>2. AccountsTyped' /\ GroupsTyped' /\ HoldersTyped' /\ OneRealm'
  BY Untouched
<1>3. \A q \in Request : GoesOn(q) /\ Begun(q)'
  BY BegunStays DEF GoesOn, AccessInv, accounts, tree
<1>4. MovesFit' /\ CyclesNeedTwoMoves'
  BY GroupsStay DEF AccessInv, tree
<1> QED
  BY <1>1, <1>2, <1>3, <1>4, StepKeeps

LEMMA MintTokenKeeps ==
  ASSUME AccessInv, Observe, NEW r \in Request, NEW u \in User, NEW ps \in TokenGrants,
         MintToken(r, u, ps)
  PROVE  AccessInv'
<1>1. tokens \in Seq(Token) /\ changes' \in Nat
  BY Parts, Answers DEF MintToken
<1> DEFINE t == [user |-> u, permissions |-> ps,
                 revoked |-> FALSE, expired |-> FALSE, deleted |-> FALSE]
<1>2. /\ tokens' = Append(tokens, t) /\ Answer(r) /\ UNCHANGED <<accounts, tree, raced>>
  BY DEF MintToken
<1>3. t \in Token
  BY GrantAssumption DEF Token
<1> HIDE DEF t
<1>4. tokens' \in Seq(Token) /\ TokensStay
  BY <1>1, <1>2, <1>3 DEF TokensStay
<1>5. AccountsTyped' /\ GroupsTyped' /\ HoldersTyped' /\ OneRealm'
  BY <1>2, Untouched
<1> QED
  BY <1>1, <1>2, <1>4, <1>5, Answers, OneEnds DEF accounts, tree, OneRealm, RowsOfOneRealm

LEMMA RevokeTokenKeeps ==
  ASSUME AccessInv, Observe, NEW r \in Request, NEW n \in DOMAIN tokens, RevokeToken(r, n)
  PROVE  AccessInv'
<1>1. tokens \in Seq(Token) /\ changes' \in Nat
  BY Parts, Answers DEF RevokeToken
<1>2. /\ tokens' = [tokens EXCEPT ![n].revoked = TRUE] /\ Answer(r)
      /\ UNCHANGED <<accounts, tree, raced>>
  BY DEF RevokeToken
<1>3. tokens' \in Seq(Token) /\ TokensStay
  <2>1. \A m \in DOMAIN tokens : tokens[m] \in Token
    BY <1>1
  <2>2. \A m \in DOMAIN tokens : tokens'[m] \in Token
                                 /\ tokens'[m].permissions = tokens[m].permissions
    BY <1>2, <2>1 DEF Token
  <2>3. DOMAIN tokens' = DOMAIN tokens /\ tokens' = [m \in DOMAIN tokens |-> tokens'[m]]
    BY <1>2
  <2> QED
    BY <1>1, <2>2, <2>3, TokensMapped DEF TokensStay
<1>4. AccountsTyped' /\ GroupsTyped' /\ HoldersTyped' /\ OneRealm'
  BY <1>2, Untouched
<1> QED
  BY <1>1, <1>2, <1>3, <1>4, Answers, OneEnds DEF accounts, tree, OneRealm, RowsOfOneRealm

LEMMA ExpireKeeps ==
  ASSUME AccessInv, Observe, NEW n \in DOMAIN tokens, Expire(n)
  PROVE  AccessInv'
<1>1. tokens \in Seq(Token) /\ changes \in Nat
  BY Parts
<1>2. /\ tokens' = [tokens EXCEPT ![n].expired = TRUE]
      /\ UNCHANGED <<accounts, tree, req, raced, changes>>
  BY DEF Expire
<1>3. \A m \in DOMAIN tokens : tokens[m] \in Token
  BY <1>1
<1>4. \A m \in DOMAIN tokens : tokens'[m] \in Token
                               /\ tokens'[m].permissions = tokens[m].permissions
  BY <1>2, <1>3 DEF Token
<1>5. DOMAIN tokens' = DOMAIN tokens /\ tokens' = [m \in DOMAIN tokens |-> tokens'[m]]
  BY <1>2
<1>6. tokens' \in Seq(Token) /\ TokensStay
  BY <1>1, <1>4, <1>5, TokensMapped DEF TokensStay
<1> QED
  BY <1>1, <1>2, <1>6, TokensChange

LEMMA PurgeTokensKeeps ==
  ASSUME AccessInv, Observe, PurgeTokens
  PROVE  AccessInv'
<1>1. tokens \in Seq(Token) /\ changes \in Nat
  BY Parts
<1>2. /\ tokens' = [n \in DOMAIN tokens |-> [tokens[n] EXCEPT !.deleted = @ \/ tokens[n].expired]]
      /\ UNCHANGED <<accounts, tree, req, raced, changes>>
  BY DEF PurgeTokens
<1>3. \A m \in DOMAIN tokens : tokens[m] \in Token
  BY <1>1
<1>4. \A m \in DOMAIN tokens : tokens'[m] \in Token
                               /\ tokens'[m].permissions = tokens[m].permissions
  BY <1>2, <1>3 DEF Token
<1>5. DOMAIN tokens' = DOMAIN tokens /\ tokens' = [m \in DOMAIN tokens |-> tokens'[m]]
  BY <1>2
<1>6. tokens' \in Seq(Token) /\ TokensStay
  BY <1>1, <1>4, <1>5, TokensMapped DEF TokensStay
<1> QED
  BY <1>1, <1>2, <1>6, TokensChange

LEMMA SignedInKeeps ==
  ASSUME AccessInv, Observe, NEW u \in User, SignedIn(u)
  PROVE  AccessInv'
<1>1. /\ AccountsTyped /\ HoldersTyped /\ GroupsTyped /\ tokens \in Seq(Token)
      /\ req \in [Request -> Locals] /\ raced \subseteq Group /\ changes \in Nat
  BY Parts
<1>2. /\ sessions' = sessions \cup {u} /\ users[u] = "enabled"
      /\ UNCHANGED <<users, roles, userRoles, grants, groups, parent, members, groupRoles,
                     tokens, req, raced, changes>>
  BY DEF SignedIn, tree
<1>3. AccountsTyped'
  BY <1>1, <1>2 DEF AccountsTyped
<1>4. HoldersTyped' /\ GroupsTyped' /\ OneRealm'
  BY <1>1, <1>2 DEF HoldersTyped, GroupsTyped, OneRealm, AccessInv
<1>5. \A q \in Request : GoesOn(q) /\ Begun(q)'
  BY <1>2, BegunStays DEF GoesOn, AccessInv
<1>6. MovesFit' /\ CyclesNeedTwoMoves'
  BY <1>2, GroupsStay DEF AccessInv
<1> QED
  BY <1>1, <1>2, <1>3, <1>4, <1>5, <1>6, StepKeeps, Quietly

-----------------------------------------------------------------------------
(* The tree.                                                               *)

(* The ancestors of a group that is present are.                           *)
LEMMA AncestorsPresent ==
  ASSUME GroupsTyped, NEW g \in Group, groups[g] = "present"
  PROVE  \A h \in AncestryIn(parent, {g}) : h \in Group /\ groups[h] = "present"
<1> DEFINE S == {h \in Group : groups[h] = "present"}
<1>1. ClosedUp(parent, S)
  BY DEF ClosedUp, GroupsTyped, Forest
<1>2. AncestryIn(parent, {g}) \subseteq S
  BY <1>1, AncestryLeast
<1> QED
  BY <1>2

(* And of its realm.                                                       *)
LEMMA AncestorsOfRealm ==
  ASSUME GroupsTyped, OneRealm, NEW g \in Group
  PROVE  \A h \in AncestryIn(parent, {g}) : h \in Group /\ RealmOf[h] = RealmOf[g]
<1> DEFINE S == {h \in Group : RealmOf[h] = RealmOf[g]}
<1>1. ClosedUp(parent, S)
  BY DEF ClosedUp, GroupsTyped, Forest, OneRealm
<1>2. AncestryIn(parent, {g}) \subseteq S
  BY <1>1, AncestryLeast
<1> QED
  BY <1>2

LEMMA CreateGroupKeeps ==
  ASSUME AccessInv, Observe, NEW r \in Request, NEW g \in Group, NEW p \in Group \cup {None},
         CreateGroup(r, g, p)
  PROVE  AccessInv'
<1>1. /\ AccountsTyped /\ HoldersTyped /\ RowsOfOneRealm /\ tokens \in Seq(Token)
      /\ req \in [Request -> Locals] /\ GroupsTyped /\ raced \subseteq Group /\ OneRealm
  BY Parts DEF AccessInv
<1>2. /\ groups' = [groups EXCEPT ![g] = "present"] /\ parent' = [parent EXCEPT ![g] = p]
      /\ groups[g] = "unused" /\ Answer(r)
      /\ p # None => p \in Group /\ groups[p] = "present" /\ RealmOf[p] = RealmOf[g]
      /\ UNCHANGED <<users, sessions, roles, userRoles, grants, members, groupRoles,
                     tokens, raced>>
  BY DEF CreateGroup, Found, Mine, accounts
<1>3. /\ req' \in [Request -> Locals] /\ changes' \in Nat /\ \A q \in Request : GoesOn(q)
      /\ \A q \in Request : req'[q] = req[q] \/ req'[q].at = "idle"
  BY <1>1, <1>2, Answers, Ends
<1>4. AccountsTyped'
  BY <1>1, <1>2 DEF AccountsTyped
<1>5. HoldersTyped'
  BY <1>1, <1>2 DEF HoldersTyped, GroupsTyped
<1>6. GroupsTyped'
  BY <1>1, <1>2 DEF GroupsTyped, Forest
<1>7. OneRealm'
  BY <1>1, <1>2 DEF OneRealm, GroupsTyped, Forest
<1>8. \A q \in Request : Begun(q)'
  BY <1>1, <1>2, <1>3 DEF Begun, MyRole, Mine, Present, Covers, AccessInv, GroupsTyped
<1>9. CyclesNeedTwoMoves'
  <2>1. p # None => g \notin AncestryIn(parent, {p})
    BY <1>1, <1>2, AncestorsPresent
  <2>2. CyclesMarked(parent, raced)
    BY MarkedNow DEF AccessInv
  <2>3. CyclesMarked(parent', raced)
    BY <1>1, <1>2, <2>1, <2>2, CyclesMove DEF GroupsTyped
  <2> QED
    BY <1>2, <2>3, MarkedNext
<1>10. MovesFit'
  <2>1. \A q \in Moving' : q \in Moving /\ req'[q] = req[q]
    BY <1>3 DEF Moving
  <2>2. ASSUME NEW q \in Moving', req'[q].into # None, req'[q].target \notin raced'
        PROVE  req'[q].target \notin AncestryIn(parent', {req'[q].into})
    <3>1. /\ q \in Moving /\ req'[q] = req[q]
      BY <2>1
    <3>2. req[q].target \notin AncestryIn(parent, {req[q].into})
      BY <1>2, <2>2, <3>1, AncestryNow DEF MovesFit, AccessInv
    <3>3. req[q].into \in Group /\ groups[req[q].into] = "present"
      BY <2>2, <3>1 DEF AccessInv, Begun, Moving, Present
    <3>4. \A h \in AncestryIn(parent, {req[q].into}) : h \in Group /\ h # g
      BY <1>1, <1>2, <3>3, AncestorsPresent
    <3>5. \A h \in AncestryIn(parent, {req[q].into}) : parent'[h] = parent[h]
      BY <1>1, <1>2, <3>4 DEF GroupsTyped, Forest
    <3>6. AncestryIn(parent', {req[q].into}) = AncestryIn(parent, {req[q].into})
      <4>1. parent \in Forest /\ parent' \in Forest /\ {req[q].into} \in SUBSET Group
        BY <1>1, <1>6, <3>3 DEF GroupsTyped
      <4> QED
        BY <3>5, <4>1, AncestryAgrees
    <3> QED
      BY <3>1, <3>2, <3>6
  <2>3. \A q \in Moving' : req'[q].into # None /\ req'[q].target \notin raced' =>
          req'[q].target \notin Ancestry({req[q].into})'
    BY <2>2, AncestryNext
  <2>4. \A q, s \in Moving' : q # s => req'[q].target \in raced'
    BY <1>2, <2>1 DEF MovesFit, AccessInv
  <2> QED
    BY <2>3, <2>4 DEF MovesFit
<1> QED
  BY <1>1, <1>2, <1>3, <1>4, <1>5, <1>6, <1>7, <1>8, <1>9, <1>10, StepKeeps, Quietly

LEMMA StartMoveKeeps ==
  ASSUME AccessInv, Observe, NEW r \in Request, NEW g \in Group, NEW p \in Group \cup {None},
         StartMove(r, g, p)
  PROVE  AccessInv'
<1>1. /\ AccountsTyped /\ HoldersTyped /\ RowsOfOneRealm /\ tokens \in Seq(Token)
      /\ req \in [Request -> Locals] /\ GroupsTyped /\ raced \subseteq Group /\ OneRealm
      /\ changes \in Nat
  BY Parts DEF AccessInv
<1> DEFINE l == [req[r] EXCEPT !.at = "moving", !.target = g, !.into = p]
<1>2. /\ p # None => g \notin Ancestry({p})
      /\ req[r].at = "ready" /\ Covers(req[r].perms, "group:write")
      /\ groups[g] = "present" /\ RealmOf[g] = RealmOf[req[r].user]
      /\ p # None => groups[p] = "present" /\ RealmOf[p] = RealmOf[req[r].user]
      /\ changes' = changes + 1 /\ req' = [req EXCEPT ![r] = l]
      /\ raced' = IF Moving # {} THEN raced \cup {g} \cup {req[q].target : q \in Moving}
                  ELSE raced
      /\ UNCHANGED <<accounts, tree, tokens>>
  BY DEF StartMove, BeginMove, Carry, Allowed, Found, Mine
<1>3. /\ l \in Locals /\ l.at = "moving" /\ l.user = req[r].user /\ l.target = g /\ l.into = p
      /\ l.token = req[r].token /\ l.perms = req[r].perms
  BY <1>1 DEF Locals, At
<1> HIDE DEF l
<1>4. /\ req' \in [Request -> Locals]
      /\ \A q \in Request : GoesOn(q)
      /\ \A q \in Request : req'[q] = IF q = r THEN l ELSE req[q]
  BY <1>1, <1>2, <1>3, GoesOnWith DEF Later
<1>5. AccountsTyped' /\ GroupsTyped' /\ HoldersTyped' /\ OneRealm'
  BY <1>2, Untouched
<1>6. ASSUME NEW q \in Request PROVE Begun(q)'
  <2>1. CASE q = r
    BY <1>2, <1>3, <1>4, <2>1 DEF Begun, Covers, Present, Mine, tree
  <2>2. CASE q # r
    BY <1>2, <1>4, <2>2, BegunStays DEF AccessInv, accounts, tree
  <2> QED
    BY <2>1, <2>2
<1>7. raced \subseteq raced' /\ raced' \subseteq Group
  <2>1. \A q \in Moving : req[q].target \in Group
    BY DEF AccessInv, Begun, Moving, Present
  <2> QED
    BY <1>1, <1>2, <2>1
<1>8. CyclesNeedTwoMoves'
  <2>1. CyclesMarked(parent, raced) /\ parent' = parent
    BY <1>2, MarkedNow DEF AccessInv, tree
  <2>2. CyclesMarked(parent', raced')
    BY <1>7, <2>1 DEF CyclesMarked
  <2> QED
    BY <2>2, MarkedNext
<1>9. MovesFit'
  <2>1. \A q \in Moving' : q = r \/ (q \in Moving /\ req'[q] = req[q])
    BY <1>4 DEF Moving
  <2>2. ASSUME NEW q \in Moving', NEW s \in Moving', q # s PROVE req'[q].target \in raced'
    <3>1. Moving # {}
      BY <2>1, <2>2
    <3>2. raced' = raced \cup {g} \cup {req[x].target : x \in Moving}
      BY <1>2, <3>1
    <3>3. CASE q = r
      BY <1>3, <1>4, <3>2, <3>3
    <3>4. CASE q # r
      BY <2>1, <3>2, <3>4
    <3> QED
      BY <3>3, <3>4
  <2>3. ASSUME NEW q \in Moving', req'[q].into # None, req'[q].target \notin raced'
        PROVE  req'[q].target \notin AncestryIn(parent', {req'[q].into})
    <3>1. parent' = parent
      BY <1>2 DEF tree
    <3>2. CASE q = r
      BY <1>2, <1>3, <1>4, <2>3, <3>1, <3>2, AncestryNow
    <3>3. CASE q # r
      BY <1>7, <2>1, <2>3, <3>1, <3>3, AncestryNow DEF MovesFit, AccessInv
    <3> QED
      BY <3>2, <3>3
  <2>4. \A q \in Moving' : req'[q].into # None /\ req'[q].target \notin raced' =>
          req'[q].target \notin Ancestry({req[q].into})'
    BY <2>3, AncestryNext
  <2> QED
    BY <2>2, <2>4 DEF MovesFit
<1> QED
  BY <1>1, <1>2, <1>4, <1>5, <1>6, <1>7, <1>8, <1>9, StepKeeps, Quietly

LEMMA CommitMoveKeeps ==
  ASSUME AccessInv, Observe, NEW r \in Request, CommitMove(r)
  PROVE  AccessInv'
<1>1. /\ AccountsTyped /\ HoldersTyped /\ RowsOfOneRealm /\ tokens \in Seq(Token)
      /\ req \in [Request -> Locals] /\ GroupsTyped /\ raced \subseteq Group /\ OneRealm
      /\ changes \in Nat /\ Begun(r) /\ MovesFit
  BY Parts DEF AccessInv
<1> DEFINE t == req[r].target
           p == req[r].into
<1>2. /\ req[r].at = "moving" /\ parent' = [parent EXCEPT ![t] = p]
      /\ req' = [req EXCEPT ![r] = Blank]
      /\ UNCHANGED <<users, sessions, roles, userRoles, grants, groups, members, groupRoles,
                     tokens, raced, changes>>
  BY DEF CommitMove, accounts
<1>3. /\ t \in Group /\ groups[t] = "present" /\ RealmOf[t] = RealmOf[req[r].user]
      /\ p \in Group \cup {None}
      /\ p # None => groups[p] = "present" /\ RealmOf[p] = RealmOf[req[r].user]
  BY <1>1, <1>2 DEF Begun, Present, Mine, Locals
<1>4. r \in Moving
  BY <1>2 DEF Moving
<1> HIDE DEF t, p
<1>5. /\ req' \in [Request -> Locals] /\ \A q \in Request : GoesOn(q)
      /\ \A q \in Request : req'[q] = req[q] \/ req'[q].at = "idle"
      /\ req'[r].at = "idle"
  BY <1>1, <1>2, Ends DEF Blank
<1>6. AccountsTyped' /\ HoldersTyped'
  BY <1>1, <1>2 DEF AccountsTyped, HoldersTyped
<1>7. GroupsTyped'
  BY <1>1, <1>2, <1>3 DEF GroupsTyped, Forest
<1>8. OneRealm'
  BY <1>1, <1>2, <1>3 DEF OneRealm, GroupsTyped, Forest
<1>9. \A q \in Request : Begun(q)'
  BY <1>2, <1>5, BegunStays DEF AccessInv
<1>10. CyclesNeedTwoMoves'
  <2>1. p # None /\ t \notin raced => t \notin AncestryIn(parent, {p})
    BY <1>1, <1>4, AncestryNow DEF MovesFit, t, p
  <2>2. CyclesMarked(parent, raced)
    BY MarkedNow DEF AccessInv
  <2>3. CyclesMarked(parent', raced)
    BY <1>1, <1>2, <1>3, <2>1, <2>2, CyclesMove DEF GroupsTyped
  <2> QED
    BY <1>2, <2>3, MarkedNext
<1>11. MovesFit'
  <2>1. \A q \in Moving' : q \in Moving /\ q # r /\ req'[q] = req[q]
    BY <1>5 DEF Moving
  <2>2. \A q \in Moving' : req'[q].target \in raced'
    BY <1>1, <1>2, <1>4, <2>1 DEF MovesFit
  <2> QED
    BY <2>2 DEF MovesFit
<1> QED
  BY <1>1, <1>2, <1>5, <1>6, <1>7, <1>8, <1>9, <1>10, <1>11, StepKeeps, Quietly

LEMMA DeleteGroupKeeps ==
  ASSUME AccessInv, Observe, NEW r \in Request, NEW g \in Group, DeleteGroup(r, g)
  PROVE  AccessInv'
<1>1. /\ AccountsTyped /\ HoldersTyped /\ RowsOfOneRealm /\ tokens \in Seq(Token)
      /\ req \in [Request -> Locals] /\ GroupsTyped /\ raced \subseteq Group /\ OneRealm
      /\ MovesFit
  BY Parts DEF AccessInv
<1> DEFINE gone == Subtree(g)
<1>2. /\ \A q \in Moving : {req[q].target, req[q].into} \cap gone = {}
      /\ groups' = [h \in Group |-> IF h \in gone THEN "deleted" ELSE groups[h]]
      /\ parent' = [h \in Group |-> IF h \in gone THEN None ELSE parent[h]]
      /\ members' = {m \in members : m[2] \notin gone}
      /\ groupRoles' = {h \in groupRoles : h[1] \notin gone}
      /\ Answer(r)
      /\ UNCHANGED <<users, sessions, roles, userRoles, grants, tokens, raced>>
  BY DEF DeleteGroup, accounts
<1>3. \A h \in Group : h \in gone <=> groups[h] = "present" /\ g \in AncestryIn(parent, {h})
  BY AncestryNow DEF Subtree
<1> HIDE DEF gone
<1>4. /\ req' \in [Request -> Locals] /\ changes' \in Nat /\ \A q \in Request : GoesOn(q)
      /\ \A q \in Request : req'[q] = req[q] \/ req'[q].at = "idle"
  BY <1>1, <1>2, Answers, Ends
<1>5. \A h \in Group : parent[h] # None /\ parent[h] \in gone => h \in gone
  <2>1. SUFFICES ASSUME NEW h \in Group, parent[h] # None, parent[h] \in gone PROVE h \in gone
    OBVIOUS
  <2>2. parent[h] \in Group /\ groups[h] = "present" /\ g \in AncestryIn(parent, {parent[h]})
    BY <1>1, <1>3, <2>1 DEF GroupsTyped, Forest
  <2>3. {parent[h]} \subseteq AncestryIn(parent, {h})
    BY <1>1, <2>1, AncestryClosed, AncestryOfGroups DEF ClosedUp, GroupsTyped
  <2>4. AncestryIn(parent, {parent[h]}) \subseteq AncestryIn(parent, {h})
    BY <1>1, <2>2, <2>3, AncestryWithin DEF GroupsTyped
  <2> QED
    BY <1>3, <2>2, <2>4
<1>6. AccountsTyped'
  BY <1>1, <1>2 DEF AccountsTyped
<1>7. HoldersTyped'
  BY <1>1, <1>2 DEF HoldersTyped
<1>8. GroupsTyped'
  BY <1>1, <1>2, <1>5 DEF GroupsTyped, Forest
<1>9. OneRealm'
  BY <1>1, <1>2 DEF OneRealm
<1>10. ASSUME NEW q \in Request PROVE Begun(q)'
  <2>1. CASE req'[q].at = "idle"
    BY <2>1 DEF Begun
  <2>2. CASE req'[q] = req[q]
    <3>1. Begun(q)
      BY DEF AccessInv
    <3>2. ASSUME req[q].at = "moving"
          PROVE  req[q].target \notin gone /\ req[q].into \notin gone
      BY <1>2, <3>2 DEF Moving
    <3> QED
      BY <1>2, <2>2, <3>1, <3>2 DEF Begun, MyRole, Mine, Present, Covers
  <2> QED
    BY <1>4, <2>1, <2>2
<1>11. /\ parent \in Forest /\ parent' \in Forest
       /\ \A h \in Group : parent'[h] = parent[h] \/ parent'[h] = None
  BY <1>1, <1>2, <1>8 DEF GroupsTyped
<1>12. CyclesNeedTwoMoves'
  <2>1. CyclesMarked(parent, raced)
    BY MarkedNow DEF AccessInv
  <2>2. CyclesMarked(parent', raced)
    BY <1>11, <2>1, CyclesCut
  <2> QED
    BY <1>2, <2>2, MarkedNext
<1>13. MovesFit'
  <2>1. \A q \in Moving' : q \in Moving /\ req'[q] = req[q]
    BY <1>4 DEF Moving
  <2>2. ASSUME NEW q \in Moving', req'[q].into # None, req'[q].target \notin raced'
        PROVE  req'[q].target \notin AncestryIn(parent', {req'[q].into})
    <3>1. q \in Moving /\ req'[q] = req[q]
      BY <2>1
    <3>2. req[q].target \notin AncestryIn(parent, {req[q].into})
      BY <1>1, <1>2, <2>2, <3>1, AncestryNow DEF MovesFit
    <3>3. req[q].into \in Group
      BY <2>2, <3>1 DEF AccessInv, Begun, Moving, Present
    <3>4. AncestryIn(parent', {req[q].into}) \subseteq AncestryIn(parent, {req[q].into})
      BY <1>11, <3>3, AncestryCut
    <3> QED
      BY <3>1, <3>2, <3>4
  <2>3. \A q \in Moving' : req'[q].into # None /\ req'[q].target \notin raced' =>
          req'[q].target \notin Ancestry({req[q].into})'
    BY <2>2, AncestryNext
  <2>4. \A q, s \in Moving' : q # s => req'[q].target \in raced'
    BY <1>1, <1>2, <2>1 DEF MovesFit
  <2> QED
    BY <2>3, <2>4 DEF MovesFit
<1> QED
  BY <1>1, <1>2, <1>4, <1>6, <1>7, <1>8, <1>9, <1>10, <1>12, <1>13, StepKeeps, Quietly

-----------------------------------------------------------------------------
(* The invariant is inductive.                                             *)

LEMMA StutterKeeps ==
  ASSUME AccessInv, UNCHANGED vars
  PROVE  AccessInv'
<1>1. UNCHANGED <<users, sessions, roles, userRoles, grants, groups, parent, members, groupRoles,
                  tokens, req, since, raced, changes>>
  BY DEF vars
<1>2. TypeOK' /\ OneRealm'
  BY <1>1 DEF AccessInv, TypeOK, OneRealm
<1>3. \A r \in Request : Standing(r)' /\ Begun(r)'
  BY <1>1 DEF AccessInv, Standing, Begun, MyRole, Mine, Present
<1>4. MovesFit' /\ CyclesNeedTwoMoves'
  BY <1>1, GroupsStay DEF AccessInv
<1> QED
  BY <1>2, <1>3, <1>4 DEF AccessInv

LEMMA RequestKeeps ==
  ASSUME AccessInv, Observe, NEW r \in Request,
         \/ \E u \in User : PresentSession(r, u)
         \/ \E n \in DOMAIN tokens : PresentToken(r, n) \/ RevokeToken(r, n)
         \/ ReadAccount(r) \/ ReadPermissions(r) \/ Abort(r) \/ RevokeSessions(r)
         \/ ManageAccounts(r) \/ ManageGroups(r)
         \/ OperateOnUsers(r) \/ OperateOnRoles(r) \/ OperateOnGroups(r)
  PROVE  AccessInv'
<1>1. CASE \E u \in User : PresentSession(r, u)
  BY <1>1, PresentSessionKeeps
<1>2. CASE \E n \in DOMAIN tokens : PresentToken(r, n) \/ RevokeToken(r, n)
  BY <1>2, PresentTokenKeeps, RevokeTokenKeeps
<1>3. CASE ReadAccount(r) \/ ReadPermissions(r) \/ Abort(r) \/ RevokeSessions(r)
  BY <1>3, ReadAccountKeeps, ReadPermissionsKeeps, AbortKeeps, RevokeSessionsKeeps
<1>4. CASE ManageAccounts(r)
  BY <1>4, CreateUserKeeps, DeleteUserKeeps, SetUserEnabledKeeps DEF ManageAccounts
<1>5. CASE ManageGroups(r)
  BY <1>5, DeleteGroupKeeps, CreateGroupKeeps DEF ManageGroups
<1>6. CASE OperateOnUsers(r)
  BY <1>6, GrantRoleKeeps, RevokeRoleKeeps, MintTokenKeeps DEF OperateOnUsers
<1>7. CASE OperateOnRoles(r)
  BY <1>7, CreateRoleKeeps, BeginSetKeeps, InsertPermissionKeeps, WithdrawPermissionsKeeps,
     CommitSetKeeps DEF OperateOnRoles
<1>8. CASE OperateOnGroups(r)
  BY <1>8, StartMoveKeeps, CommitMoveKeeps, AddMemberKeeps, RemoveMemberKeeps,
     GrantGroupRoleKeeps, RevokeGroupRoleKeeps DEF OperateOnGroups
<1> QED
  BY <1>1, <1>2, <1>3, <1>4, <1>5, <1>6, <1>7, <1>8

LEMMA NextKeeps == AccessInv /\ [Next]_vars => AccessInv'
<1>1. SUFFICES ASSUME AccessInv, [Next]_vars PROVE AccessInv'
  OBVIOUS
<1>2. CASE UNCHANGED vars
  BY <1>1, <1>2, StutterKeeps
<1>3. CASE Next
  <2>1. Observe
    BY <1>3 DEF Next
  <2>2. CASE \E n \in DOMAIN tokens : Expire(n)
    BY <1>1, <2>1, <2>2, ExpireKeeps
  <2>3. CASE PurgeTokens \/ \E u \in User : SignedIn(u)
    BY <1>1, <2>1, <2>3, PurgeTokensKeeps, SignedInKeeps
  <2>4. ASSUME NEW r \in Request,
               \/ \E u \in User : PresentSession(r, u)
               \/ \E n \in DOMAIN tokens : PresentToken(r, n) \/ RevokeToken(r, n)
               \/ ReadAccount(r) \/ ReadPermissions(r) \/ Abort(r) \/ RevokeSessions(r)
               \/ ManageAccounts(r) \/ ManageGroups(r)
               \/ OperateOnUsers(r) \/ OperateOnRoles(r) \/ OperateOnGroups(r)
        PROVE  AccessInv'
    BY <1>1, <2>1, <2>4, RequestKeeps
  <2> QED
    BY <1>3, <2>2, <2>3, <2>4 DEF Next
<1> QED
  BY <1>1, <1>2, <1>3

LEMMA Invariance == Spec => []AccessInv
  BY InitKeeps, NextKeeps, PTL DEF Spec

(* The state is of its type throughout: the sessions, roles and            *)
(* memberships are of accounts on file, and a group that is deleted is     *)
(* nobody's parent (0007_groups.sql).                                      *)
THEOREM Typing == Spec => []TypeOK
<1>1. AccessInv => TypeOK
  BY DEF AccessInv
<1> QED
  BY <1>1, Invariance, PTL

(* A cycle in the groups takes two moves at once, for any number of        *)
(* groups: the trigger sees every move but one that overlaps (group.rs,    *)
(* 0007_groups.sql groups_reject_cycle).                                   *)
THEOREM CyclesNeedRaces == Spec => []CyclesNeedTwoMoves
<1>1. AccessInv => CyclesNeedTwoMoves
  BY DEF AccessInv
<1> QED
  BY <1>1, Invariance, PTL

-----------------------------------------------------------------------------
(* The authority for a step.                                               *)

Lawful ==
  Needed \cup Touched # {} =>
    \E r \in Request : /\ Authorised(r, Needed)
                       /\ \A x \in Touched : RealmOf[x] = RealmOf[req[r].user]

Gone == {x \in User : users'[x] = "deleted"} \cup {g \in Group : groups'[g] = "deleted"}

Others(rows) == {h \in rows : {h[1], h[2]} \cap Gone = {}}

LEMMA NeededIs ==
  Needed = (IF Changed(users) # {} \/ sessions \ sessions' # {} THEN {"user:write"} ELSE {})
    \cup (IF roles # roles' \/ Changed(grants) # {} \/ Others(SymDiff(userRoles, userRoles')) # {}
            \/ Others(SymDiff(groupRoles, groupRoles')) # {} THEN {"role:write"} ELSE {})
    \cup (IF Changed(groups) \cup Changed(parent) # {} \/ Others(SymDiff(members, members')) # {}
            \/ Others(SymDiff(groupRoles, groupRoles')) # {} THEN {"group:write"} ELSE {})
    \cup UNION {tokens'[n].permissions : n \in DOMAIN tokens' \ DOMAIN tokens}
  BY DEF Needed, Others, Gone

LEMMA Same ==
  /\ users' = users => Changed(users) = {}
  /\ grants' = grants => Changed(grants) = {}
  /\ groups' = groups => Changed(groups) = {}
  /\ parent' = parent => Changed(parent) = {}
  /\ userRoles' = userRoles => SymDiff(userRoles, userRoles') = {}
  /\ groupRoles' = groupRoles => SymDiff(groupRoles, groupRoles') = {}
  /\ members' = members => SymDiff(members, members') = {}
  BY DEF Changed, SymDiff

(* A step that changes neither accounts nor the tree needs no authority.   *)
LEMMA FromIdle ==
  ASSUME UNCHANGED <<users, roles, userRoles, grants, groups, parent, members, groupRoles>>,
         sessions \subseteq sessions', DOMAIN tokens' \subseteq DOMAIN tokens
  PROVE  Lawful
<1>1. Needed = {}
  BY Same, NeededIs DEF Others
<1>2. Touched = {}
  BY Same DEF Touched
<1> QED
  BY <1>1, <1>2 DEF Lawful

(* What a request has the permissions for it is authorised to.             *)
LEMMA Entitled ==
  ASSUME AccessInv, NEW r \in Request, req[r].at \in Later, req'[r] # req[r],
         NEW ps \in SUBSET Permission, \A p \in ps : Covers(req[r].perms, p)
  PROVE  Authorised(r, ps)
<1>1. req[r].at # "idle" /\ req[r].at # "account"
  BY DEF Later
<1>2. Standing(r)
  BY DEF AccessInv
<1>3. since[r].live /\ since[r].enabled
  BY <1>1, <1>2, Zenon DEF Standing
<1>4. req[r].perms \subseteq since[r].held
  BY <1>1, <1>2 DEF Standing
<1>5. ps \subseteq Covered(since[r].held)
  BY <1>4 DEF Covered, Covers
<1> QED
  BY <1>3, <1>5, Zenon DEF Authorised

LEMMA Judged ==
  ASSUME AccessInv, NEW r \in Request, req[r].at \in Later, req'[r] # req[r],
         NEW realm, realm = RealmOf[req[r].user],
         (users' = users /\ sessions \subseteq sessions') \/ Covers(req[r].perms, "user:write"),
         \/ /\ roles' = roles /\ grants' = grants
            /\ Others(SymDiff(userRoles, userRoles')) = {}
            /\ Others(SymDiff(groupRoles, groupRoles')) = {}
         \/ Covers(req[r].perms, "role:write"),
         \/ /\ groups' = groups /\ parent' = parent
            /\ Others(SymDiff(members, members')) = {}
            /\ Others(SymDiff(groupRoles, groupRoles')) = {}
         \/ Covers(req[r].perms, "group:write"),
         \A n \in DOMAIN tokens' \ DOMAIN tokens :
            /\ tokens'[n].permissions \subseteq Permission
            /\ \A p \in tokens'[n].permissions : Covers(req[r].perms, p)
            /\ RealmOf[tokens'[n].user] = realm,
         \A x \in Changed(users) \cup (roles' \ roles) \cup Changed(grants)
                    \cup Changed(groups) \cup Changed(parent) : RealmOf[x] = realm,
         \A h \in SymDiff(userRoles, userRoles') \cup SymDiff(members, members')
                    \cup SymDiff(groupRoles, groupRoles') :
            RealmOf[h[1]] = realm /\ RealmOf[h[2]] = realm
  PROVE  Lawful
<1>1. \A p \in Needed : p \in Permission /\ Covers(req[r].perms, p)
  <2>1. SUFFICES ASSUME NEW p \in Needed PROVE p \in Permission /\ Covers(req[r].perms, p)
    OBVIOUS
  <2>2. \/ p = "user:write" /\ (Changed(users) # {} \/ sessions \ sessions' # {})
        \/ p = "role:write" /\ \/ roles # roles' \/ Changed(grants) # {}
                               \/ Others(SymDiff(userRoles, userRoles')) # {}
                               \/ Others(SymDiff(groupRoles, groupRoles')) # {}
        \/ p = "group:write" /\ \/ Changed(groups) \cup Changed(parent) # {}
                                \/ Others(SymDiff(members, members')) # {}
                                \/ Others(SymDiff(groupRoles, groupRoles')) # {}
        \/ \E n \in DOMAIN tokens' \ DOMAIN tokens : p \in tokens'[n].permissions
    BY <2>1, NeededIs
  <2>3. {"user:write", "role:write", "group:write"} \subseteq Permission
    BY DEF Permission
  <2> QED
    BY <2>2, <2>3, Same
<1>2. Authorised(r, Needed)
  <2>1. PICK ps : ps = Needed
    OBVIOUS
  <2>2. Authorised(r, ps)
    BY <1>1, <2>1, Entitled
  <2> QED
    BY <2>1, <2>2 DEF Authorised
<1>3. \A x \in Touched : RealmOf[x] = RealmOf[req[r].user]
  <2>1. SUFFICES ASSUME NEW x, x \in Touched PROVE RealmOf[x] = realm
    OBVIOUS
  <2> DEFINE X == Changed(users) \cup (roles' \ roles) \cup Changed(grants)
                    \cup Changed(groups) \cup Changed(parent)
             H == SymDiff(userRoles, userRoles') \cup SymDiff(members, members')
                    \cup SymDiff(groupRoles, groupRoles')
             N == DOMAIN tokens' \ DOMAIN tokens
  <2>2. Touched = X \cup {tokens'[n].user : n \in N} \cup UNION {{h[1], h[2]} : h \in H}
    BY DEF Touched
  <2>3. /\ \A y \in X : RealmOf[y] = realm
        /\ \A h \in H : RealmOf[h[1]] = realm /\ RealmOf[h[2]] = realm
        /\ \A n \in N : RealmOf[tokens'[n].user] = realm
    OBVIOUS
  <2> HIDE DEF X, H, N
  <2>4. x \in X \/ (\E h \in H : x \in {h[1], h[2]}) \/ \E n \in N : x = tokens'[n].user
    <3>1. CASE x \in UNION {{h[1], h[2]} : h \in H}
      <4>1. PICK both \in {{h[1], h[2]} : h \in H} : x \in both
        BY <3>1
      <4>2. PICK h \in H : both = {h[1], h[2]}
        BY <4>1
      <4> QED
        BY <4>1, <4>2
    <3>2. CASE x \in {tokens'[n].user : n \in N}
      BY <3>2
    <3>3. CASE x \in X
      BY <3>3
    <3>4. x \in X \/ x \in UNION {{h[1], h[2]} : h \in H} \/ x \in {tokens'[n].user : n \in N}
      <4>1. x \in X \cup {tokens'[n].user : n \in N} \cup UNION {{h[1], h[2]} : h \in H}
        BY <2>1, <2>2, Zenon
      <4> QED
        BY <4>1, Zenon
    <3> QED
      BY <3>1, <3>2, <3>3, <3>4, Zenon
  <2> QED
    BY <2>3, <2>4
<1> QED
  BY <1>2, <1>3 DEF Lawful

(* Each operation is within the authority of the request that asks for it. *)

(* A request that is answered was asking.                                  *)
LEMMA AnswersLater ==
  ASSUME AccessInv, NEW r \in Request, req[r].at \in Later, req' = [req EXCEPT ![r] = Blank]
  PROVE  req'[r] # req[r]
<1>1. req'[r] = Blank
  BY DEF AccessInv, TypeOK
<1>2. Blank.at \notin Later
  BY DEF Blank, Later
<1> QED
  BY <1>1, <1>2

LEMMA AllowedIs ==
  ASSUME AccessInv, NEW r \in Request, NEW p, Allowed(r, p), Answer(r)
  PROVE  req[r].at \in Later /\ Covers(req[r].perms, p) /\ req'[r] # req[r]
<1>1. req[r].at \in Later
  BY DEF Allowed, Later
<1> QED
  BY <1>1, Answers, AnswersLater DEF Allowed

LEMMA CreateUserLawful ==
  ASSUME AccessInv, NEW r \in Request, NEW u \in User, CreateUser(r, u)
  PROVE  Lawful
<1>1. /\ users' = [users EXCEPT ![u] = "enabled"] /\ RealmOf[u] = RealmOf[req[r].user]
      /\ UNCHANGED <<sessions, roles, userRoles, grants, groups, parent, members, groupRoles,
                     tokens>>
  BY DEF CreateUser, Mine, tree
<1>2. req[r].at \in Later /\ Covers(req[r].perms, "user:write") /\ req'[r] # req[r]
  BY AllowedIs DEF CreateUser
<1>3. Changed(users) \subseteq {u}
  BY <1>1 DEF Changed, AccessInv, TypeOK
<1> QED
  BY <1>1, <1>2, <1>3, Same, Judged DEF Others

LEMMA SetUserEnabledLawful ==
  ASSUME AccessInv, NEW r \in Request, NEW u \in User, NEW enabled \in BOOLEAN,
         SetUserEnabled(r, u, enabled)
  PROVE  Lawful
<1>1. /\ users' = [users EXCEPT ![u] = "enabled"] \/ users' = [users EXCEPT ![u] = "disabled"]
      /\ RealmOf[u] = RealmOf[req[r].user]
      /\ req[r].at \in Later /\ Covers(req[r].perms, "user:write")
      /\ UNCHANGED <<sessions, roles, userRoles, grants, groups, parent, members, groupRoles,
                     tokens>>
  BY DEF SetUserEnabled, Allowed, Mine, Later, tree
<1>2. req'[r] # req[r]
  <2>1. CASE Answer(r)
    BY <1>1, <2>1, Answers, AnswersLater
  <2>2. CASE Carry(r, [req[r] EXCEPT !.at = "revoke", !.target = u])
    <3>1. req[r].at = "ready" /\ req[r] \in Locals
      BY DEF SetUserEnabled, Allowed, AccessInv, TypeOK
    <3>2. [req[r] EXCEPT !.at = "revoke", !.target = u].at = "revoke"
      BY <3>1 DEF Locals
    <3>3. req'[r] = [req[r] EXCEPT !.at = "revoke", !.target = u]
      BY <2>2 DEF Carry, AccessInv, TypeOK
    <3> QED
      BY <3>1, <3>2, <3>3
  <2> QED
    BY <2>1, <2>2 DEF SetUserEnabled
<1>3. Changed(users) \subseteq {u}
  BY <1>1 DEF Changed, AccessInv, TypeOK
<1> QED
  BY <1>1, <1>2, <1>3, Same, Judged DEF Others

LEMMA RevokeSessionsLawful ==
  ASSUME AccessInv, NEW r \in Request, RevokeSessions(r)
  PROVE  Lawful
<1>1. /\ req' = [req EXCEPT ![r] = Blank]
      /\ req[r].at \in Later
      /\ UNCHANGED <<users, roles, userRoles, grants, groups, parent, members, groupRoles,
                     tokens>>
  BY DEF RevokeSessions, Later, tree
<1>2. Covers(req[r].perms, "user:write")
  BY DEF AccessInv, Begun, RevokeSessions
<1>3. req'[r] # req[r]
  BY <1>1, AnswersLater
<1> QED
  BY <1>1, <1>2, <1>3, Same, Judged DEF Others

LEMMA DeleteUserLawful ==
  ASSUME AccessInv, NEW r \in Request, NEW u \in User, DeleteUser(r, u)
  PROVE  Lawful
<1>1. /\ users' = [users EXCEPT ![u] = "deleted"] /\ RealmOf[u] = RealmOf[req[r].user]
      /\ userRoles' = {h \in userRoles : h[1] # u} /\ members' = {m \in members : m[1] # u}
      /\ DOMAIN tokens' = DOMAIN tokens
      /\ UNCHANGED <<roles, grants, groups, parent, groupRoles>>
  BY DEF DeleteUser, Mine
<1>2. req[r].at \in Later /\ Covers(req[r].perms, "user:write") /\ req'[r] # req[r]
  BY AllowedIs DEF DeleteUser
<1>3. Changed(users) \subseteq {u} /\ u \in Gone
  BY <1>1 DEF Changed, AccessInv, TypeOK, Gone
<1>4. \A h \in SymDiff(userRoles, userRoles') \cup SymDiff(members, members') :
        h \in userRoles \cup members /\ h[1] = u
  BY <1>1 DEF SymDiff
<1>5. Others(SymDiff(userRoles, userRoles')) = {} /\ Others(SymDiff(members, members')) = {}
  BY <1>3, <1>4 DEF Others
<1>6. \A h \in SymDiff(userRoles, userRoles') \cup SymDiff(members, members') :
        RealmOf[h[1]] = RealmOf[req[r].user] /\ RealmOf[h[2]] = RealmOf[req[r].user]
  BY <1>1, <1>4 DEF AccessInv, OneRealm
<1> QED
  BY <1>1, <1>2, <1>3, <1>5, <1>6, Same, Judged DEF Others

LEMMA CreateRoleLawful ==
  ASSUME AccessInv, NEW r \in Request, NEW o \in Role, CreateRole(r, o)
  PROVE  Lawful
<1>1. /\ roles' \ roles \subseteq {o} /\ RealmOf[o] = RealmOf[req[r].user]
      /\ UNCHANGED <<users, sessions, userRoles, grants, groups, parent, members, groupRoles,
                     tokens>>
  BY DEF CreateRole, Mine, tree
<1>2. req[r].at \in Later /\ Covers(req[r].perms, "role:write") /\ req'[r] # req[r]
  BY AllowedIs DEF CreateRole
<1> QED
  BY <1>1, <1>2, Same, Judged DEF Others

LEMMA GrantRoleLawful ==
  ASSUME AccessInv, NEW r \in Request, NEW u \in User, NEW o \in Role,
         GrantRole(r, u, o) \/ RevokeRole(r, u, o)
  PROVE  Lawful
<1>1. /\ userRoles' = userRoles \cup {<<u, o>>} \/ userRoles' = userRoles \ {<<u, o>>}
      /\ RealmOf[u] = RealmOf[req[r].user] /\ RealmOf[o] = RealmOf[req[r].user]
      /\ UNCHANGED <<users, sessions, roles, grants, groups, parent, members, groupRoles,
                     tokens>>
  BY DEF GrantRole, RevokeRole, Mine, MyRole, tree
<1>2. req[r].at \in Later /\ Covers(req[r].perms, "role:write") /\ req'[r] # req[r]
  BY AllowedIs DEF GrantRole, RevokeRole
<1>3. SymDiff(userRoles, userRoles') \subseteq {<<u, o>>}
  BY <1>1 DEF SymDiff
<1> QED
  BY <1>1, <1>2, <1>3, Same, Judged DEF Others

LEMMA CommitSetLawful ==
  ASSUME AccessInv, NEW r \in Request, CommitSet(r)
  PROVE  Lawful
<1>1. /\ req' = [req EXCEPT ![r] = Blank] /\ req[r].at \in Later
      /\ grants' = [grants EXCEPT ![req[r].target] =
                      (@ \cup req[r].staged) \ req[r].withdrawn]
      /\ UNCHANGED <<users, sessions, roles, userRoles, groups, parent, members, groupRoles,
                     tokens>>
  BY DEF CommitSet, Later, tree
<1>2. /\ Covers(req[r].perms, "role:write")
      /\ RealmOf[req[r].target] = RealmOf[req[r].user]
  BY DEF AccessInv, Begun, CommitSet, MyRole, Mine
<1>3. req'[r] # req[r]
  BY <1>1, AnswersLater
<1>4. Changed(grants) \subseteq {req[r].target}
  BY <1>1 DEF Changed, AccessInv, TypeOK
<1> QED
  BY <1>1, <1>2, <1>3, <1>4, Same, Judged DEF Others

LEMMA CreateGroupLawful ==
  ASSUME AccessInv, NEW r \in Request, NEW g \in Group, NEW p \in Group \cup {None},
         CreateGroup(r, g, p)
  PROVE  Lawful
<1>1. /\ groups' = [groups EXCEPT ![g] = "present"] /\ parent' = [parent EXCEPT ![g] = p]
      /\ RealmOf[g] = RealmOf[req[r].user]
      /\ UNCHANGED <<users, sessions, roles, userRoles, grants, members, groupRoles, tokens>>
  BY DEF CreateGroup, Mine, accounts
<1>2. req[r].at \in Later /\ Covers(req[r].perms, "group:write") /\ req'[r] # req[r]
  BY AllowedIs DEF CreateGroup
<1>3. Changed(groups) \cup Changed(parent) \subseteq {g}
  BY <1>1 DEF Changed, AccessInv, TypeOK
<1> QED
  BY <1>1, <1>2, <1>3, Same, Judged DEF Others

LEMMA CommitMoveLawful ==
  ASSUME AccessInv, NEW r \in Request, CommitMove(r)
  PROVE  Lawful
<1>1. /\ req' = [req EXCEPT ![r] = Blank] /\ req[r].at \in Later
      /\ parent' = [parent EXCEPT ![req[r].target] = req[r].into]
      /\ UNCHANGED <<users, sessions, roles, userRoles, grants, groups, members, groupRoles,
                     tokens>>
  BY DEF CommitMove, Later, accounts
<1>2. /\ Covers(req[r].perms, "group:write")
      /\ RealmOf[req[r].target] = RealmOf[req[r].user]
  BY DEF AccessInv, Begun, CommitMove, Mine
<1>3. req'[r] # req[r]
  BY <1>1, AnswersLater
<1>4. Changed(parent) \subseteq {req[r].target}
  BY <1>1 DEF Changed, AccessInv, TypeOK
<1> QED
  BY <1>1, <1>2, <1>3, <1>4, Same, Judged DEF Others

LEMMA DeleteGroupLawful ==
  ASSUME AccessInv, NEW r \in Request, NEW g \in Group, DeleteGroup(r, g)
  PROVE  Lawful
<1> DEFINE gone == Subtree(g)
<1>1. /\ groups' = [h \in Group |-> IF h \in gone THEN "deleted" ELSE groups[h]]
      /\ parent' = [h \in Group |-> IF h \in gone THEN None ELSE parent[h]]
      /\ members' = {m \in members : m[2] \notin gone}
      /\ groupRoles' = {h \in groupRoles : h[1] \notin gone}
      /\ RealmOf[g] = RealmOf[req[r].user]
      /\ UNCHANGED <<users, sessions, roles, userRoles, grants, tokens>>
  BY DEF DeleteGroup, Mine, accounts
<1>2. req[r].at \in Later /\ Covers(req[r].perms, "group:write") /\ req'[r] # req[r]
  BY AllowedIs DEF DeleteGroup
<1>3. \A h \in gone : h \in Group /\ RealmOf[h] = RealmOf[req[r].user]
  <2>1. GroupsTyped /\ OneRealm
    BY Parts DEF AccessInv
  <2>2. ASSUME NEW h \in gone PROVE h \in Group /\ g \in AncestryIn(parent, {h})
    BY AncestryNow DEF Subtree
  <2> QED
    BY <1>1, <2>1, <2>2, AncestorsOfRealm
<1> HIDE DEF gone
<1>4. Changed(groups) \cup Changed(parent) \subseteq gone /\ gone \subseteq Gone
  BY <1>1, <1>3 DEF Changed, AccessInv, TypeOK, Gone
<1>5. /\ \A h \in SymDiff(members, members') : h \in members /\ h[2] \in gone
      /\ \A h \in SymDiff(groupRoles, groupRoles') : h \in groupRoles /\ h[1] \in gone
  BY <1>1 DEF SymDiff
<1>6. Others(SymDiff(members, members')) = {} /\ Others(SymDiff(groupRoles, groupRoles')) = {}
  BY <1>4, <1>5 DEF Others
<1>7. \A h \in SymDiff(members, members') \cup SymDiff(groupRoles, groupRoles') :
        RealmOf[h[1]] = RealmOf[req[r].user] /\ RealmOf[h[2]] = RealmOf[req[r].user]
  BY <1>3, <1>5 DEF AccessInv, OneRealm
<1> QED
  BY <1>1, <1>2, <1>3, <1>4, <1>6, <1>7, Same, Judged DEF Others

LEMMA MembersLawful ==
  ASSUME AccessInv, NEW r \in Request, NEW g \in Group, NEW u \in User,
         AddMember(r, g, u) \/ RemoveMember(r, g, u)
  PROVE  Lawful
<1>1. /\ members' = members \cup {<<u, g>>} \/ members' = members \ {<<u, g>>}
      /\ RealmOf[u] = RealmOf[req[r].user] /\ RealmOf[g] = RealmOf[req[r].user]
      /\ UNCHANGED <<users, sessions, roles, userRoles, grants, groups, parent, groupRoles,
                     tokens>>
  BY DEF AddMember, RemoveMember, Mine, accounts
<1>2. req[r].at \in Later /\ Covers(req[r].perms, "group:write") /\ req'[r] # req[r]
  BY AllowedIs DEF AddMember, RemoveMember
<1>3. SymDiff(members, members') \subseteq {<<u, g>>}
  BY <1>1 DEF SymDiff
<1> QED
  BY <1>1, <1>2, <1>3, Same, Judged DEF Others

LEMMA GrantGroupRoleLawful ==
  ASSUME AccessInv, NEW r \in Request, NEW g \in Group, NEW o \in Role, GrantGroupRole(r, g, o)
  PROVE  Lawful
<1>1. /\ groupRoles' = groupRoles \cup {<<g, o>>}
      /\ RealmOf[g] = RealmOf[req[r].user] /\ RealmOf[o] = RealmOf[req[r].user]
      /\ UNCHANGED <<users, sessions, roles, userRoles, grants, groups, parent, members, tokens>>
  BY DEF GrantGroupRole, Mine, accounts
<1>2. /\ req[r].at \in Later /\ req'[r] # req[r]
      /\ Covers(req[r].perms, "group:write") /\ Covers(req[r].perms, "role:write")
  BY AllowedIs DEF GrantGroupRole
<1>3. SymDiff(groupRoles, groupRoles') \subseteq {<<g, o>>}
  BY <1>1 DEF SymDiff
<1>4. \A h \in SymDiff(groupRoles, groupRoles') :
        RealmOf[h[1]] = RealmOf[req[r].user] /\ RealmOf[h[2]] = RealmOf[req[r].user]
  BY <1>1, <1>3
<1> QED
  BY <1>1, <1>2, <1>4, Same, Judged

LEMMA RevokeGroupRoleLawful ==
  ASSUME AccessInv, NEW r \in Request, NEW g \in Group, NEW o \in Role, RevokeGroupRole(r, g, o)
  PROVE  Lawful
<1>1. /\ groupRoles' = groupRoles \ {<<g, o>>}
      /\ RealmOf[g] = RealmOf[req[r].user]
      /\ UNCHANGED <<users, sessions, roles, userRoles, grants, groups, parent, members, tokens>>
  BY DEF RevokeGroupRole, Mine, accounts
<1>2. /\ req[r].at \in Later /\ req'[r] # req[r]
      /\ Covers(req[r].perms, "group:write") /\ Covers(req[r].perms, "role:write")
  BY AllowedIs DEF RevokeGroupRole
<1>3. \A h \in SymDiff(groupRoles, groupRoles') : h \in groupRoles /\ h[1] = g
  BY <1>1 DEF SymDiff
<1>4. \A h \in SymDiff(groupRoles, groupRoles') :
        RealmOf[h[1]] = RealmOf[req[r].user] /\ RealmOf[h[2]] = RealmOf[req[r].user]
  BY <1>1, <1>3 DEF AccessInv, OneRealm
<1> QED
  BY <1>1, <1>2, <1>4, Same, Judged

LEMMA MintTokenLawful ==
  ASSUME AccessInv, NEW r \in Request, NEW u \in User, NEW ps \in TokenGrants, MintToken(r, u, ps)
  PROVE  Lawful
<1> DEFINE t == [user |-> u, permissions |-> ps,
                 revoked |-> FALSE, expired |-> FALSE, deleted |-> FALSE]
<1>1. /\ tokens' = Append(tokens, t)
      /\ RealmOf[u] = RealmOf[req[r].user]
      /\ UNCHANGED <<users, sessions, roles, userRoles, grants, groups, parent, members,
                     groupRoles>>
  BY DEF MintToken, Mine, accounts, tree
<1>0. t.user = u /\ t.permissions = ps
  OBVIOUS
<1> HIDE DEF t
<1>2. /\ req[r].at \in Later /\ req'[r] # req[r]
      /\ \A p \in ps : p \in Permission /\ Covers(req[r].perms, p)
  BY AllowedIs, GrantAssumption DEF MintToken
<1>3. \A n \in DOMAIN tokens' \ DOMAIN tokens : tokens'[n] = t
  <2>1. tokens \in Seq(Token)
    BY Parts
  <2> QED
    BY <1>1, <2>1
<1> QED
  BY <1>0, <1>1, <1>2, <1>3, Same, Judged DEF Others

LEMMA RequestLawful ==
  ASSUME AccessInv, NEW r \in Request,
         \/ \E u \in User : PresentSession(r, u)
         \/ \E n \in DOMAIN tokens : PresentToken(r, n) \/ RevokeToken(r, n)
         \/ ReadAccount(r) \/ ReadPermissions(r) \/ Abort(r) \/ RevokeSessions(r)
         \/ ManageAccounts(r) \/ ManageGroups(r)
         \/ OperateOnUsers(r) \/ OperateOnRoles(r) \/ OperateOnGroups(r)
  PROVE  Lawful
<1>1. CASE \E u \in User : PresentSession(r, u)
  BY <1>1, FromIdle DEF PresentSession, accounts, tree
<1>2. CASE \E n \in DOMAIN tokens : PresentToken(r, n) \/ RevokeToken(r, n)
  BY <1>2, FromIdle DEF PresentToken, RevokeToken, accounts, tree
<1>3. CASE ReadAccount(r) \/ ReadPermissions(r) \/ Abort(r)
  BY <1>3, FromIdle DEF ReadAccount, ReadPermissions, Abort, accounts, tree
<1>4. CASE RevokeSessions(r)
  BY <1>4, RevokeSessionsLawful
<1>5. CASE ManageAccounts(r)
  BY <1>5, CreateUserLawful, DeleteUserLawful, SetUserEnabledLawful DEF ManageAccounts
<1>6. CASE ManageGroups(r)
  BY <1>6, DeleteGroupLawful, CreateGroupLawful DEF ManageGroups
<1>7. CASE OperateOnUsers(r)
  BY <1>7, GrantRoleLawful, MintTokenLawful DEF OperateOnUsers
<1>8. CASE OperateOnRoles(r)
  <2>1. CASE \E o \in Role : CreateRole(r, o)
    BY <2>1, CreateRoleLawful
  <2>2. CASE \E o \in Role, set \in RoleGrants : BeginSet(r, o, set)
    BY <2>2, FromIdle DEF BeginSet, accounts, tree
  <2>3. CASE (\E p \in Permission : InsertPermission(r, p)) \/ WithdrawPermissions(r)
    BY <2>3, FromIdle DEF InsertPermission, WithdrawPermissions, accounts, tree
  <2>4. CASE CommitSet(r)
    BY <2>4, CommitSetLawful
  <2> QED
    BY <1>8, <2>1, <2>2, <2>3, <2>4 DEF OperateOnRoles
<1>9. CASE OperateOnGroups(r)
  <2>1. CASE \E g \in Group, p \in Group \cup {None} : StartMove(r, g, p)
    BY <2>1, FromIdle DEF StartMove, BeginMove, accounts, tree
  <2>2. CASE CommitMove(r)
    BY <2>2, CommitMoveLawful
  <2>3. CASE \E g \in Group, u \in User : AddMember(r, g, u) \/ RemoveMember(r, g, u)
    BY <2>3, MembersLawful
  <2>4. CASE \E g \in Group, o \in Role : GrantGroupRole(r, g, o) \/ RevokeGroupRole(r, g, o)
    BY <2>4, GrantGroupRoleLawful, RevokeGroupRoleLawful
  <2> QED
    BY <1>9, <2>1, <2>2, <2>3, <2>4 DEF OperateOnGroups
<1> QED
  BY <1>1, <1>2, <1>3, <1>4, <1>5, <1>6, <1>7, <1>8, <1>9

LEMMA NextLawful == AccessInv /\ [Next]_vars => Lawful
<1>1. SUFFICES ASSUME AccessInv, [Next]_vars PROVE Lawful
  OBVIOUS
<1>2. CASE UNCHANGED vars
  BY <1>2, FromIdle DEF vars
<1>3. CASE Next
  <2>1. CASE \E n \in DOMAIN tokens : Expire(n)
    BY <2>1, FromIdle DEF Expire, accounts, tree
  <2>2. CASE PurgeTokens
    BY <2>2, FromIdle DEF PurgeTokens, accounts, tree
  <2>3. CASE \E u \in User : SignedIn(u)
    BY <2>3, FromIdle DEF SignedIn, tree
  <2>4. ASSUME NEW r \in Request,
               \/ \E u \in User : PresentSession(r, u)
               \/ \E n \in DOMAIN tokens : PresentToken(r, n) \/ RevokeToken(r, n)
               \/ ReadAccount(r) \/ ReadPermissions(r) \/ Abort(r) \/ RevokeSessions(r)
               \/ ManageAccounts(r) \/ ManageGroups(r)
               \/ OperateOnUsers(r) \/ OperateOnRoles(r) \/ OperateOnGroups(r)
        PROVE  Lawful
    BY <1>1, <2>4, RequestLawful
  <2> QED
    BY <1>3, <2>1, <2>2, <2>3, <2>4 DEF Next
<1> QED
  BY <1>1, <1>2, <1>3

(* Nothing is changed without the authority for it: for any accounts,      *)
(* roles, groups, tokens and requests, whatever is withdrawn while they    *)
(* run (auth.rs, actor_for; api_token.rs, authenticate; admin.rs).         *)
THEOREM ChangesAreAuthorised == Spec => ChangesNeedAuthority
<1>1. AccessInv /\ [Next]_vars => [Lawful]_vars
  BY NextLawful
<1> QED
  BY <1>1, Invariance, PTL DEF Spec, ChangesNeedAuthority, Lawful

-----------------------------------------------------------------------------
(***************************************************************************)
(* Keyring.                                                                *)
(***************************************************************************)

(* The inductive invariant, in parts.                                      *)

(* The types of the rows and of what the processes remember, without the   *)
(* bound on the number of rows.                                            *)
Shape ==
  /\ now \in 0 .. MaxNow
  /\ keys \in Seq(SigningKey)
  /\ requests \in [Request -> [at : {"idle", "load", "create", "use", "id"},
                               realm : Realm \cup {NoRealm}, key : Nat, since : Nat]]
  /\ rotations \in [Operator -> [at : {"idle", "begun", "retired"},
                                 realm : Realm \cup {NoRealm}, key : Nat, since : Nat]]
  /\ signed \subseteq [key : Nat, exp : Nat]

(* A realm never has two keys that sign, and never loses its last one.     *)
UniqueSigner ==
  /\ \A j, k \in DOMAIN keys :
       /\ keys[j].status = "active" /\ keys[k].status = "active"
       /\ keys[j].realm = keys[k].realm
       => j = k
  /\ \A k \in DOMAIN keys : \E j \in DOMAIN keys :
       keys[j].realm = keys[k].realm /\ keys[j].status = "active"

(* A rotation that has retired a key, uncommitted, holds the active key of *)
(* its realm, and no other rotation holds that one.                        *)
HoldsKey(o) == rotations[o].at = "retired" /\ rotations[o].key # NoKey

Exclusive ==
  /\ \A o \in Operator : HoldsKey(o) =>
       rotations[o].key \in DOMAIN keys
       /\ keys[rotations[o].key].status = "active"
       /\ keys[rotations[o].key].realm = rotations[o].realm
  /\ \A o, p \in Operator :
       HoldsKey(o) /\ HoldsKey(p) /\ rotations[o].key = rotations[p].key => o = p

(* A process in progress works for a realm, and not for longer than its    *)
(* timeout.                                                                *)
InTime ==
  /\ \A r \in Request : requests[r].at # "idle" =>
       requests[r].since <= now /\ now <= requests[r].since + Timeout
  /\ \A r \in Request : requests[r].at \in {"load", "create"} => requests[r].realm \in Realm
  /\ \A o \in Operator : rotations[o].at # "idle" =>
       /\ rotations[o].since <= now /\ now <= rotations[o].since + Patience
       /\ rotations[o].realm \in Realm

(* The key verifies what is accepted until the given moment.               *)
VerifiesUntil(k, until) ==
  /\ k \in DOMAIN keys
  /\ \/ keys[k].status = "active"
     \/ keys[k].status = "retired" /\ until <= keys[k].notAfter

(* A key outlives the tokens it has signed and those a request that has it *)
(* in hand may still sign.                                                 *)
Outlives ==
  /\ \A t \in signed :
       now < t.exp /\ t.exp <= now + Lifetime /\ VerifiesUntil(t.key, t.exp)
  /\ \A r \in Request : requests[r].at \in {"use", "id"} =>
       VerifiesUntil(requests[r].key, requests[r].since + Timeout + Lifetime)

(* What is begun and what is still to be created fits the bound.           *)
Busy == {o \in Operator : rotations[o].at # "idle"}
Keyless == {x \in Realm : Active(x) = {}}
Fits ==
  /\ Len(keys) <= MaxKeys
  /\ Busy # {} => Len(keys) + Cardinality(Busy) + Cardinality(Keyless) <= MaxKeys
  /\ \A o \in Operator : rotations[o].key <= Len(keys)
  /\ \A r \in Request : requests[r].key <= Len(keys)

SafeInv == Shape /\ UniqueSigner /\ Exclusive /\ InTime /\ Outlives
KeyringInv == SafeInv /\ Fits

-----------------------------------------------------------------------------
(* What a request remembers.                                               *)
Local == [at : {"idle", "load", "create", "use", "id"},
          realm : Realm \cup {NoRealm}, key : Nat, since : Nat]
LocalOfRotation == [at : {"idle", "begun", "retired"},
                    realm : Realm \cup {NoRealm}, key : Nat, since : Nat]

(* The table of keys as a function on 1 .. Len(keys).                      *)
LEMMA Rows ==
  ASSUME Shape
  PROVE  /\ Len(keys) \in Nat /\ DOMAIN keys = 1 .. Len(keys)
         /\ keys \in [DOMAIN keys -> SigningKey]
         /\ \A k \in DOMAIN keys : keys[k] \in SigningKey
  BY LenProperties, ElementOfSeq DEF Shape

(* What a request may come to remember.                                    *)
Sound(e) ==
  /\ e \in Local /\ e.key <= Len(keys)
  /\ e.at # "idle" => e.since <= now /\ now <= e.since + Timeout
  /\ e.at \in {"load", "create"} => e.realm \in Realm
  /\ e.at \in {"use", "id"} => VerifiesUntil(e.key, e.since + Timeout + Lifetime)

SoundToken(t) ==
  /\ t \in [key : Nat, exp : Nat]
  /\ now < t.exp /\ t.exp <= now + Lifetime /\ VerifiesUntil(t.key, t.exp)

(* A step of one request that writes neither the table of keys nor a       *)
(* rotation.                                                               *)
LEMMA RequestStep ==
  ASSUME KeyringInv, NEW r \in Request, NEW e, Sound(e),
         requests' = [requests EXCEPT ![r] = e],
         \A t \in signed' : t \in signed \/ SoundToken(t),
         UNCHANGED <<now, keys, rotations>>
  PROVE  KeyringInv'
<1>1. /\ e \in Local /\ requests' \in [Request -> Local] /\ requests'[r] = e
      /\ \A q \in Request : q # r => requests'[q] = requests[q]
  BY DEF KeyringInv, SafeInv, Shape, Sound, Local
<1>2. Shape'
  BY <1>1 DEF KeyringInv, SafeInv, Shape, SoundToken, Local
<1>3. UniqueSigner' /\ Exclusive'
  BY DEF KeyringInv, SafeInv, UniqueSigner, Exclusive, HoldsKey
<1>4. InTime'
  BY <1>1 DEF KeyringInv, SafeInv, InTime, Sound
<1>5. Outlives'
  BY <1>1 DEF KeyringInv, SafeInv, Outlives, Sound, SoundToken, VerifiesUntil
<1>6. Fits'
  <2>1. Busy' = Busy /\ Keyless' = Keyless
    BY DEF Busy, Keyless, Active
  <2> QED
    BY <1>1, <2>1 DEF KeyringInv, Fits, Sound
<1> QED
  BY <1>2, <1>3, <1>4, <1>5, <1>6 DEF KeyringInv, SafeInv

LEMMA BeginInv ==
  ASSUME KeyringInv, NEW r \in Request, NEW realm \in Realm, Begin(r, realm)
  PROVE  KeyringInv'
<1> DEFINE e == [at |-> "load", realm |-> realm, key |-> NoKey, since |-> now]
<1>1. Sound(e)
  BY KeyringAssumption, Rows DEF KeyringInv, SafeInv, Shape, Sound, Local, NoKey
<1>2. requests' = [requests EXCEPT ![r] = e]
  BY DEF Begin
<1> QED
  BY <1>1, <1>2, RequestStep DEF Begin

LEMMA FinishInv ==
  ASSUME KeyringInv, NEW r \in Request, Finish(r),
         \A t \in signed' : t \in signed \/ SoundToken(t),
         UNCHANGED <<now, keys, rotations>>
  PROVE  KeyringInv'
<1>1. Sound(Idle)
  BY Rows DEF KeyringInv, SafeInv, Shape, Sound, Idle, Local, NoKey
<1> QED
  BY <1>1, RequestStep DEF Finish

LEMMA LoadActiveInv ==
  ASSUME KeyringInv, NEW r \in Request, LoadActive(r)
  PROVE  KeyringInv'
<1>1. requests[r] \in Local /\ requests[r].at = "load"
  BY DEF KeyringInv, SafeInv, Shape, Local, LoadActive, Doing
<1>2. CASE \E k \in Active(requests[r].realm) : InHand(r, k)
  <2>1. PICK k \in Active(requests[r].realm) : InHand(r, k)
    BY <1>2
  <2> DEFINE e == [requests[r] EXCEPT !.key = k, !.realm = NoRealm, !.at = "use"]
  <2>2. requests' = [requests EXCEPT ![r] = e]
    BY <2>1 DEF InHand, KeyringInv, SafeInv, Shape
  <2>3. k \in DOMAIN keys /\ keys[k].status = "active" /\ k \in Nat /\ k <= Len(keys)
    BY <2>1, Rows DEF Active, KeyringInv, SafeInv
  <2>4. e \in Local /\ e.key = k /\ e.at = "use" /\ e.since = requests[r].since
    BY <1>1, <2>3 DEF Local
  <2>5. Sound(e)
    BY <1>1, <2>3, <2>4 DEF Sound, KeyringInv, SafeInv, InTime, VerifiesUntil
  <2> QED
    BY <2>2, <2>5, RequestStep DEF LoadActive
<1>3. CASE Goto(r, "create")
  <2> DEFINE e == [requests[r] EXCEPT !.at = "create"]
  <2>1. requests' = [requests EXCEPT ![r] = e]
    BY <1>3 DEF Goto, KeyringInv, SafeInv, Shape
  <2>2. Sound(e)
    BY <1>1 DEF Sound, Local, KeyringInv, SafeInv, InTime, Fits
  <2> QED
    BY <2>1, <2>2, RequestStep DEF LoadActive
<1> QED
  BY <1>2, <1>3 DEF LoadActive

(* What a request signs with the key in its hand.                          *)
LEMMA SignedToken ==
  ASSUME KeyringInv, NEW r \in Request, requests[r].at \in {"use", "id"}
  PROVE  SoundToken([key |-> requests[r].key, exp |-> now + Lifetime])
<1>1. requests[r] \in Local /\ now \in Nat /\ Lifetime \in Nat \ {0} /\ Timeout \in Nat
  BY KeyringAssumption DEF KeyringInv, SafeInv, Shape, Local
<1>2. /\ VerifiesUntil(requests[r].key, requests[r].since + Timeout + Lifetime)
      /\ now <= requests[r].since + Timeout
  BY DEF KeyringInv, SafeInv, Outlives, InTime
<1>3. VerifiesUntil(requests[r].key, now + Lifetime)
  <2>1. requests[r].key \in DOMAIN keys /\ keys[requests[r].key] \in SigningKey
    BY <1>2, Rows DEF VerifiesUntil, KeyringInv, SafeInv
  <2> QED
    BY <1>1, <1>2, <2>1 DEF VerifiesUntil, SigningKey, Local
<1> QED
  BY <1>1, <1>3 DEF SoundToken, Local

LEMMA SignAccessInv ==
  ASSUME KeyringInv, NEW r \in Request, SignAccess(r)
  PROVE  KeyringInv'
<1>1. \A t \in signed' : t \in signed \/ SoundToken(t)
  BY SignedToken DEF SignAccess, SignedBy, Doing
<1>2. CASE Goto(r, "id")
  <2> DEFINE e == [requests[r] EXCEPT !.at = "id"]
  <2>1. requests' = [requests EXCEPT ![r] = e]
    BY <1>2 DEF Goto, KeyringInv, SafeInv, Shape
  <2>2. requests[r] \in Local /\ requests[r].at = "use"
    BY DEF KeyringInv, SafeInv, Shape, Local, SignAccess, Doing
  <2>3. Sound(e)
    BY <2>2 DEF Sound, Local, KeyringInv, SafeInv, InTime, Fits, Outlives
  <2> QED
    BY <1>1, <2>1, <2>3, RequestStep DEF SignAccess
<1>3. CASE Finish(r)
  BY <1>1, <1>3, FinishInv DEF SignAccess
<1> QED
  BY <1>2, <1>3 DEF SignAccess

LEMMA SignIdInv ==
  ASSUME KeyringInv, NEW r \in Request, SignId(r)
  PROVE  KeyringInv'
<1>1. \A t \in signed' : t \in signed \/ SoundToken(t)
  BY SignedToken DEF SignId, SignedBy, Doing
<1> QED
  BY <1>1, FinishInv DEF SignId

(* The counts of the bound are numbers, and smaller sets have smaller ones.*)
LEMMA Counts ==
  /\ IsFiniteSet(Busy) /\ Cardinality(Busy) \in Nat
  /\ IsFiniteSet(Keyless) /\ Cardinality(Keyless) \in Nat
  /\ \A S \in SUBSET Busy : Cardinality(S) \in Nat /\ Cardinality(S) <= Cardinality(Busy)
  /\ \A S \in SUBSET Keyless :
       Cardinality(S) \in Nat /\ Cardinality(S) <= Cardinality(Keyless)
<1>1. /\ IsFiniteSet(Realm) /\ IsFiniteSet(Operator)
      /\ Busy \in SUBSET Operator /\ Keyless \in SUBSET Realm
  BY KeyringAssumption DEF Busy, Keyless
<1>2. IsFiniteSet(Busy) /\ IsFiniteSet(Keyless)
  BY <1>1, FS_Subset
<1> QED
  BY <1>2, FS_Subset, FS_CardinalityType

(* The insertion of the first key of a realm.                              *)
LEMMA CreateInv ==
  ASSUME KeyringInv, NEW r \in Request, Create(r)
  PROVE  KeyringInv'
<1> DEFINE realm == requests[r].realm
           n == Len(keys) + 1
<1>1. CASE Finish(r) /\ UNCHANGED keys
  BY <1>1, FinishInv DEF Create
<1>2. CASE /\ Insertable(realm) /\ Len(keys) < MaxKeys
           /\ keys' = Append(keys, Row(realm)) /\ InHand(r, n)
  <2> DEFINE e == [requests[r] EXCEPT !.key = n, !.realm = NoRealm, !.at = "use"]
  <2>1. /\ requests[r] \in Local /\ requests[r].at = "create" /\ realm \in Realm
        /\ ~HeldOpen(realm) /\ Active(realm) = {}
        /\ UNCHANGED <<now, rotations, signed>>
    BY <1>2 DEF KeyringInv, SafeInv, Shape, Local, InTime, Create, Doing, Insertable
  <2>2. Row(realm) \in SigningKey
    BY <2>1 DEF Row, SigningKey
  <2>3. /\ keys' \in Seq(SigningKey) /\ Len(keys') = n /\ n \in Nat
        /\ DOMAIN keys' = 1 .. n /\ DOMAIN keys = 1 .. Len(keys) /\ Len(keys) \in Nat
        /\ keys'[n] = Row(realm)
        /\ \A k \in DOMAIN keys : keys'[k] = keys[k]
    BY <1>2, <2>2, AppendProperties, Rows DEF KeyringInv, SafeInv, Shape
  <2>4. /\ keys'[n].realm = realm /\ keys'[n].status = "active"
        /\ \A k \in DOMAIN keys : keys[k].realm = realm => keys[k].status # "active"
    BY <2>1, <2>3 DEF Row, Active
  <2>5. requests' = [requests EXCEPT ![r] = e]
    BY <1>2 DEF InHand, KeyringInv, SafeInv, Shape
  <2>6. e \in Local /\ e.at = "use" /\ e.key = n /\ e.since = requests[r].since
    BY <2>1, <2>3 DEF Local
  <2>7. /\ requests' \in [Request -> Local] /\ requests'[r] = e
        /\ \A q \in Request : q # r => requests'[q] = requests[q]
    BY <2>5, <2>6 DEF KeyringInv, SafeInv, Shape, Local
  <2> HIDE DEF e
  <2>8. Shape'
    BY <2>1, <2>3, <2>7 DEF KeyringInv, SafeInv, Shape, Local
  <2>9. UniqueSigner'
    BY <2>3, <2>4 DEF KeyringInv, SafeInv, UniqueSigner
  <2>10. Exclusive'
    BY <2>1, <2>3 DEF KeyringInv, SafeInv, Exclusive, HoldsKey
  <2>11. InTime'
    BY <2>1, <2>6, <2>7 DEF KeyringInv, SafeInv, InTime
  <2>12. Outlives'
    <3>1. \A k, u : VerifiesUntil(k, u) => VerifiesUntil(k, u)'
      BY <2>3 DEF VerifiesUntil
    <3>2. \A k, u : k = n => VerifiesUntil(k, u)'
      BY <2>3, <2>4 DEF VerifiesUntil
    <3> QED
      BY <2>1, <2>6, <2>7, <3>1, <3>2 DEF KeyringInv, SafeInv, Outlives
  <2>13. Fits'
    <3>1. /\ Busy' = Busy
          /\ Keyless' = Keyless \ {realm} /\ realm \in Keyless
      BY <2>1, <2>3, <2>4 DEF Busy, Keyless, Active, Row
    <3>2. Cardinality(Keyless \ {realm}) = Cardinality(Keyless) - 1
      BY <3>1, Counts, FS_RemoveElement
    <3>3. rotations' = rotations /\ MaxKeys \in Nat
      BY <2>1, KeyringAssumption
    <3>4. Len(keys') <= MaxKeys
      BY <1>2, <2>3, <3>3
    <3>5. Busy' # {} => Len(keys') + Cardinality(Busy') + Cardinality(Keyless') <= MaxKeys
      BY <2>3, <3>1, <3>2, <3>3, Counts DEF KeyringInv, Fits
    <3>6. \A o \in Operator : rotations[o].key \in Nat /\ rotations[o].key <= Len(keys)
      BY DEF KeyringInv, SafeInv, Shape, Fits
    <3>7. \A o \in Operator : rotations'[o].key <= Len(keys')
      BY <2>3, <3>3, <3>6
    <3>8. \A q \in Request : requests[q].key \in Nat /\ requests[q].key <= Len(keys)
      BY DEF KeyringInv, SafeInv, Shape, Fits
    <3>9. \A q \in Request : requests'[q].key <= Len(keys')
      BY <2>3, <2>6, <2>7, <3>8
    <3> QED
      BY <3>4, <3>5, <3>7, <3>9 DEF Fits
  <2> QED
    BY <2>8, <2>9, <2>10, <2>11, <2>12, <2>13 DEF KeyringInv, SafeInv
<1> QED
  BY <1>1, <1>2 DEF Create

-----------------------------------------------------------------------------
(* A step of one rotation that writes no key.                              *)
LEMMA RotationStep ==
  ASSUME KeyringInv, NEW o \in Operator, NEW e \in LocalOfRotation,
         rotations' = [rotations EXCEPT ![o] = e],
         UNCHANGED <<now, keys, requests, signed>>,
         e.at # "idle" =>
           e.since <= now /\ now <= e.since + Patience /\ e.realm \in Realm,
         e.key # NoKey => e.key \in DOMAIN keys,
         e.at = "retired" /\ e.key # NoKey =>
           /\ keys[e.key].status = "active" /\ keys[e.key].realm = e.realm
           /\ \A p \in Operator \ {o} : HoldsKey(p) => rotations[p].key # e.key,
         e.at # "idle" => o \in Busy \/ Room
  PROVE  KeyringInv'
<1>1. /\ rotations' \in [Operator -> LocalOfRotation] /\ rotations'[o] = e
      /\ \A p \in Operator : p # o => rotations'[p] = rotations[p]
  BY DEF KeyringInv, SafeInv, Shape, LocalOfRotation
<1>2. Shape'
  BY <1>1 DEF KeyringInv, SafeInv, Shape, LocalOfRotation
<1>3. UniqueSigner' /\ Outlives'
  BY DEF KeyringInv, SafeInv, UniqueSigner, Outlives, VerifiesUntil
<1>4. Exclusive'
  BY <1>1 DEF KeyringInv, SafeInv, Exclusive, HoldsKey
<1>5. InTime'
  BY <1>1 DEF KeyringInv, SafeInv, InTime
<1>6. Fits'
  <2>1. Keyless' = Keyless /\ Active(NoRealm)' = Active(NoRealm)
    BY DEF Keyless, Active
  <2>2. CASE e.at = "idle" \/ o \in Busy
    <3>1. Busy' \subseteq Busy
      BY <1>1, <2>2 DEF Busy
    <3>2. Cardinality(Busy') \in Nat /\ Cardinality(Busy') <= Cardinality(Busy)
      BY <3>1, Counts
    <3>3. Busy' # {} => Len(keys') + Cardinality(Busy') + Cardinality(Keyless') <= MaxKeys
      BY <2>1, <3>1, <3>2, Counts, KeyringAssumption, Rows DEF KeyringInv, SafeInv, Fits
    <3> QED
      BY <1>1, <3>3, Rows DEF KeyringInv, SafeInv, Fits, LocalOfRotation, NoKey
  <2>3. CASE Room /\ o \notin Busy /\ e.at # "idle"
    <3>1. Busy' = Busy \cup {o}
      BY <1>1, <2>3 DEF Busy
    <3>2. Cardinality(Busy') = Cardinality(Busy) + 1
      BY <2>3, <3>1, Counts, FS_AddElement
    <3>3. Len(keys) + Cardinality(Busy) + Cardinality(Keyless) < MaxKeys
      BY <2>3 DEF Room, Busy, Keyless
    <3>4. Len(keys') + Cardinality(Busy') + Cardinality(Keyless') <= MaxKeys
      BY <2>1, <3>2, <3>3, Counts, KeyringAssumption, Rows DEF KeyringInv, SafeInv
    <3> QED
      BY <1>1, <3>4, Rows DEF KeyringInv, SafeInv, Fits, LocalOfRotation, NoKey
  <2> QED
    BY <2>2, <2>3
<1> QED
  BY <1>2, <1>3, <1>4, <1>5, <1>6 DEF KeyringInv, SafeInv

LEMMA BeginRotationInv ==
  ASSUME KeyringInv, NEW o \in Operator, NEW realm \in Realm, BeginRotation(o, realm)
  PROVE  KeyringInv'
<1> DEFINE e == [at |-> "begun", realm |-> realm, key |-> NoKey, since |-> now]
<1>1. e \in LocalOfRotation
  BY DEF LocalOfRotation, NoKey, KeyringInv, SafeInv, Shape
<1>2. e.since <= now /\ now <= e.since + Patience /\ e.realm \in Realm
  BY KeyringAssumption DEF KeyringInv, SafeInv, Shape
<1>3. e.at = "begun" /\ e.key = NoKey
  OBVIOUS
<1>4. /\ rotations' = [rotations EXCEPT ![o] = e] /\ Room
      /\ UNCHANGED <<now, keys, requests, signed>>
  BY DEF BeginRotation
<1> HIDE DEF e
<1> QED
  BY <1>1, <1>2, <1>3, <1>4, RotationStep

LEMMA RetireInv ==
  ASSUME KeyringInv, NEW o \in Operator, Retire(o)
  PROVE  KeyringInv'
<1> DEFINE realm == rotations[o].realm
           k == IF Active(realm) = {} THEN NoKey ELSE CHOOSE j \in Active(realm) : TRUE
           e == [rotations[o] EXCEPT !.at = "retired", !.key = k]
<1>1. rotations[o] \in LocalOfRotation /\ rotations[o].at = "begun"
  BY DEF KeyringInv, SafeInv, Shape, LocalOfRotation, Retire
<1>2. rotations' = [rotations EXCEPT ![o] = e]
  BY DEF Retire, KeyringInv, SafeInv, Shape
<1>3. k = NoKey \/ k \in Active(realm)
  OBVIOUS
<1>4. k \in Nat /\ (k # NoKey => k \in Active(realm) /\ k \in DOMAIN keys)
  BY <1>3, Rows DEF Active, NoKey, KeyringInv, SafeInv
<1> HIDE DEF k
<1>5. /\ e \in LocalOfRotation /\ e.at = "retired" /\ e.key = k
      /\ e.since = rotations[o].since /\ e.realm = realm
  BY <1>1, <1>4 DEF LocalOfRotation
<1>6. e.since <= now /\ now <= e.since + Patience /\ e.realm \in Realm
  BY <1>1, <1>5 DEF KeyringInv, SafeInv, InTime
<1>7. k # NoKey =>
        /\ keys[k].status = "active" /\ keys[k].realm = realm
        /\ \A p \in Operator \ {o} : HoldsKey(p) => rotations[p].key # k
  BY <1>4 DEF Active, HoldsKey, HeldByAnother, Retire
<1>8. o \in Busy /\ UNCHANGED <<now, keys, requests, signed>>
  BY <1>1 DEF Busy, Retire
<1> HIDE DEF e, realm
<1> QED
  BY <1>2, <1>4, <1>5, <1>6, <1>7, <1>8, RotationStep

LEMMA DropRotationInv ==
  ASSUME KeyringInv, NEW o \in Operator, rotations' = [rotations EXCEPT ![o] = NoRotation],
         UNCHANGED <<now, keys, requests, signed>>
  PROVE  KeyringInv'
<1>1. /\ NoRotation \in LocalOfRotation
      /\ NoRotation.at = "idle" /\ NoRotation.key = NoKey
  BY DEF NoRotation, LocalOfRotation, NoKey
<1> QED
  BY <1>1, RotationStep

(* Rewriting the rows of a table in place keeps it a table.                *)
LEMMA RewrittenKeys ==
  ASSUME Shape, NEW g \in [DOMAIN keys -> SigningKey]
  PROVE  g \in Seq(SigningKey) /\ Len(g) = Len(keys) /\ DOMAIN g = DOMAIN keys
<1>1. DOMAIN keys = 1 .. Len(keys) /\ Len(keys) \in Nat
  BY Rows
<1>2. g \in [1 .. Len(keys) -> SigningKey]
  BY <1>1
<1>3. g \in Seq(SigningKey)
  BY <1>1, <1>2, SeqDef
<1>4. DOMAIN g = 1 .. Len(g) /\ Len(g) \in Nat
  BY <1>3, LenProperties
<1> QED
  BY <1>1, <1>2, <1>3, <1>4

(* A rotation that commits: the deadline of the old key lies beyond what   *)
(* has been signed with it and what a request in progress can still sign.  *)
LEMMA CommitRotationInv ==
  ASSUME KeyringInv, NEW o \in Operator, CommitRotation(o)
  PROVE  KeyringInv'
<1> DEFINE realm == rotations[o].realm
           key == rotations[o].key
           deadline == rotations[o].since + RetireAfter
           n == Len(keys) + 1
<1>1. CASE UNCHANGED keys
  BY <1>1, DropRotationInv DEF CommitRotation
<1>2. CASE Active(realm) \subseteq {key} /\ keys' = Append(Retired(o), Row(realm))
  <2>1. /\ rotations[o] \in LocalOfRotation /\ rotations[o].at = "retired"
        /\ realm \in Realm /\ key \in Nat /\ deadline \in Nat
        /\ now <= rotations[o].since + Patience
        /\ rotations' = [rotations EXCEPT ![o] = NoRotation]
        /\ UNCHANGED <<now, requests, signed>>
    BY KeyringAssumption DEF KeyringInv, SafeInv, Shape, LocalOfRotation, InTime, CommitRotation
  <2>2. /\ {Lifetime, Timeout, Patience, MaxKeys} \subseteq Nat /\ now \in Nat
        /\ now + Timeout + Lifetime <= deadline
    BY <2>1, KeyringAssumption DEF KeyringInv, SafeInv, Shape, LocalOfRotation
  <2>3. /\ Len(keys) \in Nat /\ DOMAIN keys = 1 .. Len(keys)
        /\ \A k \in DOMAIN keys : keys[k] \in SigningKey
    BY Rows DEF KeyringInv, SafeInv
  <2>4. \A k \in DOMAIN keys :
          /\ k # key => Retired(o)[k] = keys[k]
          /\ k = key => /\ Retired(o)[k] \in SigningKey
                        /\ Retired(o)[k].realm = keys[k].realm
                        /\ Retired(o)[k].status = "retired"
                        /\ Retired(o)[k].notAfter = deadline
    BY <2>1, <2>3 DEF Retired, Deadline, SigningKey
  <2>5. /\ Retired(o) \in [DOMAIN keys -> SigningKey]
        /\ Retired(o) \in Seq(SigningKey)
        /\ Len(Retired(o)) = Len(keys) /\ DOMAIN Retired(o) = DOMAIN keys
    <3>1. Retired(o) \in [DOMAIN keys -> SigningKey]
      BY <2>3, <2>4 DEF Retired
    <3> QED
      BY <3>1, RewrittenKeys DEF KeyringInv, SafeInv
  <2>6. Row(realm) \in SigningKey
        /\ Row(realm).realm = realm /\ Row(realm).status = "active"
    BY <2>1 DEF Row, SigningKey
  <2>7. /\ keys' \in Seq(SigningKey) /\ Len(keys') = n /\ DOMAIN keys' = 1 .. n
        /\ keys'[n] = Row(realm)
        /\ \A k \in DOMAIN keys : keys'[k] = Retired(o)[k]
    BY <1>2, <2>3, <2>5, <2>6, AppendProperties
  <2>8. key \in DOMAIN keys =>
          HoldsKey(o) /\ keys[key].realm = realm /\ keys[key].status = "active"
    BY <2>1, <2>3 DEF KeyringInv, SafeInv, Exclusive, HoldsKey, NoKey
  <2>9. \A k \in DOMAIN keys :
          keys[k].realm = realm /\ keys[k].status = "active" => k = key
    BY <1>2 DEF Active
  <2>10. /\ NoRotation \in LocalOfRotation
         /\ NoRotation.at = "idle" /\ NoRotation.key = NoKey
    BY DEF NoRotation, LocalOfRotation, NoKey
  <2>11. /\ rotations' \in [Operator -> LocalOfRotation] /\ rotations'[o] = NoRotation
         /\ \A p \in Operator : p # o => rotations'[p] = rotations[p]
    BY <2>1, <2>10 DEF KeyringInv, SafeInv, Shape, LocalOfRotation
  <2>12. Shape'
    BY <2>1, <2>7, <2>11 DEF KeyringInv, SafeInv, Shape, LocalOfRotation
  <2>13. UniqueSigner'
    <3>1. ASSUME NEW j \in DOMAIN keys', NEW k \in DOMAIN keys',
                 keys'[j].status = "active", keys'[k].status = "active",
                 keys'[j].realm = keys'[k].realm
          PROVE  j = k
      <4>1. \A i \in DOMAIN keys' : i = n \/ i \in DOMAIN keys
        BY <2>3, <2>7
      <4>2. \A i \in DOMAIN keys : keys'[i].status = "active" =>
              keys'[i] = keys[i] /\ i # key
        BY <2>4, <2>7
      <4>3. \A i \in DOMAIN keys : keys'[i].status = "active" => keys'[i].realm # realm
        BY <2>9, <4>2
      <4> QED
        BY <2>6, <2>7, <3>1, <4>1, <4>2, <4>3 DEF KeyringInv, SafeInv, UniqueSigner
    <3>2. ASSUME NEW k \in DOMAIN keys'
          PROVE  \E j \in DOMAIN keys' :
                   keys'[j].realm = keys'[k].realm /\ keys'[j].status = "active"
      <4>1. CASE keys'[k].realm = realm
        <5>1. n \in DOMAIN keys'
          BY <2>3, <2>7
        <5> QED
          BY <2>6, <2>7, <4>1, <5>1
      <4>2. CASE keys'[k].realm # realm
        <5>1. k \in DOMAIN keys /\ keys'[k].realm = keys[k].realm
          BY <2>3, <2>4, <2>6, <2>7, <4>2
        <5>2. PICK j \in DOMAIN keys :
                keys[j].realm = keys[k].realm /\ keys[j].status = "active"
          BY <5>1 DEF KeyringInv, SafeInv, UniqueSigner
        <5>3. j # key /\ j \in DOMAIN keys'
          BY <2>3, <2>7, <2>8, <4>2, <5>1, <5>2
        <5> QED
          BY <2>4, <2>7, <5>1, <5>2, <5>3
      <4> QED
        BY <4>1, <4>2
    <3> QED
      BY <3>1, <3>2 DEF UniqueSigner
  <2>14. Exclusive'
    <3>1. \A p \in Operator : HoldsKey(p)' =>
            /\ HoldsKey(p) /\ rotations'[p] = rotations[p]
            /\ rotations[p].key # key
      BY <2>1, <2>10, <2>11 DEF HoldsKey, KeyringInv, SafeInv, Exclusive
    <3>2. \A k \in DOMAIN keys : k \in DOMAIN keys'
      BY <2>3, <2>7
    <3> QED
      BY <2>4, <2>7, <3>1, <3>2 DEF KeyringInv, SafeInv, Exclusive
  <2>15. InTime'
    BY <2>1, <2>10, <2>11 DEF KeyringInv, SafeInv, InTime
  <2>16. Outlives'
    <3>1. ASSUME NEW k, NEW u \in Nat, VerifiesUntil(k, u), u <= now + Timeout + Lifetime
          PROVE  VerifiesUntil(k, u)'
      <4>1. k \in DOMAIN keys /\ k \in DOMAIN keys'
        BY <2>3, <2>7, <3>1 DEF VerifiesUntil
      <4>2. k = key => keys'[k].status = "retired" /\ keys'[k].notAfter = deadline
        BY <2>4, <2>7, <4>1
      <4>3. k # key => keys'[k] = keys[k]
        BY <2>4, <2>7, <4>1
      <4> QED
        BY <2>1, <2>2, <3>1, <4>1, <4>2, <4>3 DEF VerifiesUntil
    <3>2. ASSUME NEW t \in signed
          PROVE  now < t.exp /\ t.exp <= now + Lifetime /\ VerifiesUntil(t.key, t.exp)'
      <4>1. /\ now < t.exp /\ t.exp <= now + Lifetime /\ VerifiesUntil(t.key, t.exp)
            /\ t.exp \in Nat
        BY DEF KeyringInv, SafeInv, Shape, Outlives
      <4> QED
        BY <2>2, <3>1, <4>1
    <3>3. ASSUME NEW r \in Request, requests[r].at \in {"use", "id"}
          PROVE  VerifiesUntil(requests[r].key, requests[r].since + Timeout + Lifetime)'
      <4> DEFINE u == requests[r].since + Timeout + Lifetime
      <4>1. /\ VerifiesUntil(requests[r].key, u) /\ requests[r].since <= now
            /\ requests[r].since \in Nat
        BY <3>3 DEF KeyringInv, SafeInv, Shape, Outlives, InTime
      <4>2. u \in Nat /\ u <= now + Timeout + Lifetime
        BY <2>2, <4>1
      <4>3. ASSUME NEW k, NEW v, k = requests[r].key, v = u
            PROVE  VerifiesUntil(k, v)'
        BY <3>1, <4>1, <4>2, <4>3
      <4> QED
        BY <2>1, <4>3
    <3> QED
      BY <2>1, <3>2, <3>3 DEF Outlives
  <2>17. Fits'
    <3>1. Busy' = Busy \ {o} /\ o \in Busy
      BY <2>1, <2>10, <2>11 DEF Busy
    <3>2. Cardinality(Busy') = Cardinality(Busy) - 1
      BY <3>1, Counts, FS_RemoveElement
    <3>3. Keyless' \subseteq Keyless
      <4>1. ASSUME NEW x \in Realm, Active(x)' = {}, NEW k \in Active(x)
            PROVE  FALSE
        <5>1. k \in DOMAIN keys /\ keys[k].realm = x /\ keys[k].status = "active"
          BY DEF Active
        <5>2. CASE k = key
          <6>1. n \in DOMAIN keys' /\ keys'[n].realm = x /\ keys'[n].status = "active"
            BY <2>3, <2>6, <2>7, <2>8, <5>1, <5>2
          <6> QED
            BY <4>1, <6>1 DEF Active
        <5>3. CASE k # key
          <6>1. k \in DOMAIN keys' /\ keys'[k] = keys[k]
            BY <2>3, <2>4, <2>7, <5>1, <5>3
          <6> QED
            BY <4>1, <5>1, <6>1 DEF Active
        <5> QED
          BY <5>2, <5>3
      <4> QED
        BY <4>1 DEF Keyless
    <3>4. Cardinality(Keyless') \in Nat /\ Cardinality(Keyless') <= Cardinality(Keyless)
      BY <3>3, Counts
    <3>5. Len(keys) + Cardinality(Busy) + Cardinality(Keyless) <= MaxKeys
      BY <3>1 DEF KeyringInv, Fits
    <3>6. Cardinality(Busy) >= 1
      BY <3>1, <3>2, Counts
    <3>7. /\ Len(keys') <= MaxKeys
          /\ Len(keys') + Cardinality(Busy') + Cardinality(Keyless') <= MaxKeys
      BY <2>2, <2>3, <2>7, <3>2, <3>4, <3>5, <3>6, Counts
    <3>8. \A p \in Operator : rotations[p].key \in Nat /\ rotations[p].key <= Len(keys)
      BY DEF KeyringInv, SafeInv, Shape, Fits
    <3>9. \A p \in Operator : rotations'[p].key <= Len(keys')
      BY <2>3, <2>7, <2>10, <2>11, <3>8 DEF NoKey
    <3>10. \A r \in Request : requests[r].key \in Nat /\ requests[r].key <= Len(keys)
      BY DEF KeyringInv, SafeInv, Shape, Fits
    <3>11. \A r \in Request : requests'[r].key <= Len(keys')
      BY <2>1, <2>3, <2>7, <3>10
    <3> QED
      BY <3>7, <3>9, <3>11 DEF Fits
  <2> QED
    BY <2>12, <2>13, <2>14, <2>15, <2>16, <2>17 DEF KeyringInv, SafeInv
<1> QED
  BY <1>1, <1>2 DEF CommitRotation

(* A purge takes only keys whose deadline has passed.                      *)
LEMMA PurgeRetiredInv ==
  ASSUME KeyringInv, PurgeRetired
  PROVE  KeyringInv'
<1>1. /\ Len(keys) \in Nat /\ DOMAIN keys = 1 .. Len(keys)
      /\ \A k \in DOMAIN keys : keys[k] \in SigningKey
  BY Rows DEF KeyringInv, SafeInv
<1>2. /\ DOMAIN keys' = DOMAIN keys
      /\ keys' \in [DOMAIN keys -> SigningKey]
      /\ \A k \in DOMAIN keys :
           /\ keys'[k].realm = keys[k].realm
           /\ keys'[k].status = "active" <=> keys[k].status = "active"
           /\ ~Purgeable(k) => keys'[k] = keys[k]
  BY <1>1 DEF PurgeRetired, Purgeable, SigningKey
<1>3. keys' \in Seq(SigningKey) /\ Len(keys') = Len(keys)
  BY <1>2, RewrittenKeys DEF KeyringInv, SafeInv
<1>4. UNCHANGED <<now, requests, rotations, signed>>
  BY DEF PurgeRetired
<1>5. Shape'
  BY <1>3, <1>4 DEF KeyringInv, SafeInv, Shape
<1>6. UniqueSigner'
  BY <1>2 DEF KeyringInv, SafeInv, UniqueSigner
<1>7. Exclusive'
  BY <1>2, <1>4 DEF KeyringInv, SafeInv, Exclusive, HoldsKey
<1>8. InTime'
  BY <1>4 DEF KeyringInv, SafeInv, InTime
<1>9. Outlives'
  <2>1. ASSUME NEW k, NEW u \in Nat, VerifiesUntil(k, u), now < u
        PROVE  VerifiesUntil(k, u)'
    <3>1. k \in DOMAIN keys /\ keys[k] \in SigningKey /\ now \in Nat
      BY <1>1, <2>1 DEF VerifiesUntil, KeyringInv, SafeInv, Shape
    <3>2. ~Purgeable(k)
      BY <2>1, <3>1 DEF VerifiesUntil, Purgeable, SigningKey
    <3> QED
      BY <1>2, <2>1, <3>1, <3>2 DEF VerifiesUntil
  <2>2. ASSUME NEW t \in signed
        PROVE  now < t.exp /\ t.exp <= now + Lifetime /\ VerifiesUntil(t.key, t.exp)'
    BY <2>1 DEF KeyringInv, SafeInv, Shape, Outlives
  <2>3. ASSUME NEW r \in Request, requests[r].at \in {"use", "id"}
        PROVE  VerifiesUntil(requests[r].key, requests[r].since + Timeout + Lifetime)'
    <3>1. /\ requests[r].since \in Nat /\ now \in Nat /\ now <= requests[r].since + Timeout
          /\ VerifiesUntil(requests[r].key, requests[r].since + Timeout + Lifetime)
      BY <2>3 DEF KeyringInv, SafeInv, Shape, Outlives, InTime
    <3>2. PICK k, u : k = requests[r].key /\ u = requests[r].since + Timeout + Lifetime
      OBVIOUS
    <3>3. u \in Nat /\ now < u
      BY <3>1, <3>2, KeyringAssumption
    <3>4. VerifiesUntil(k, u)'
      BY <2>1, <3>1, <3>2, <3>3
    <3> QED
      BY <1>4, <3>2, <3>4
  <2> QED
    BY <1>4, <2>2, <2>3 DEF Outlives
<1>10. Fits'
  <2>1. Busy' = Busy /\ Keyless' = Keyless
    BY <1>2, <1>4 DEF Busy, Keyless, Active
  <2> QED
    BY <1>3, <1>4, <2>1 DEF KeyringInv, Fits
<1> QED
  BY <1>5, <1>6, <1>7, <1>8, <1>9, <1>10 DEF KeyringInv, SafeInv

LEMMA TickInv ==
  ASSUME KeyringInv, Tick
  PROVE  KeyringInv'
<1>1. /\ now \in Nat /\ MaxNow \in Nat /\ now < MaxNow /\ now' = now + 1
      /\ Timeout \in Nat /\ Patience \in Nat /\ Lifetime \in Nat
      /\ signed' \subseteq signed /\ \A t \in signed' : t.exp > now'
      /\ UNCHANGED <<keys, requests, rotations>>
  BY KeyringAssumption DEF Tick, KeyringInv, SafeInv, Shape
<1>2. Shape'
  BY <1>1 DEF KeyringInv, SafeInv, Shape
<1>3. UniqueSigner' /\ Exclusive'
  BY <1>1 DEF KeyringInv, SafeInv, UniqueSigner, Exclusive, HoldsKey
<1>4. InTime'
  <2>1. \A r \in Request : requests[r].at # "idle" =>
          /\ requests[r].since \in Nat /\ requests[r].since <= now
          /\ now - requests[r].since < Timeout
    BY DEF Tick, Doing, KeyringInv, SafeInv, Shape, InTime
  <2>2. \A o \in Operator : rotations[o].at # "idle" =>
          /\ rotations[o].since \in Nat /\ rotations[o].since <= now
          /\ now - rotations[o].since < Patience
    BY DEF Tick, KeyringInv, SafeInv, Shape, InTime
  <2> QED
    BY <1>1, <2>1, <2>2 DEF KeyringInv, SafeInv, InTime
<1>5. Outlives'
  BY <1>1 DEF KeyringInv, SafeInv, Shape, Outlives, VerifiesUntil
<1>6. Fits'
  <2>1. Busy' = Busy /\ Keyless' = Keyless
    BY <1>1 DEF Busy, Keyless, Active
  <2> QED
    BY <1>1, <2>1 DEF KeyringInv, Fits
<1> QED
  BY <1>2, <1>3, <1>4, <1>5, <1>6 DEF KeyringInv, SafeInv

-----------------------------------------------------------------------------
LEMMA KeyringInitInv == KeyringInit => KeyringInv
<1> SUFFICES ASSUME KeyringInit PROVE KeyringInv
  OBVIOUS
<1>1. /\ Len(keys) = 0 /\ DOMAIN keys = {} /\ keys \in Seq(SigningKey)
      /\ now \in 0 .. MaxNow
  BY KeyringAssumption DEF KeyringInit
<1>2. /\ \A r \in Request : requests[r].at = "idle" /\ requests[r].key = 0
      /\ \A o \in Operator : rotations[o].at = "idle" /\ rotations[o].key = 0
  BY DEF KeyringInit, Idle, NoRotation, NoKey
<1>3. Shape
  BY <1>1 DEF KeyringInit, Shape, Idle, NoRotation, NoKey
<1>4. UniqueSigner /\ Exclusive /\ InTime /\ Outlives
  BY <1>1, <1>2 DEF KeyringInit, UniqueSigner, Exclusive, HoldsKey, InTime, Outlives
<1>5. Busy = {}
  BY <1>2 DEF Busy
<1>6. Fits
  BY <1>1, <1>2, <1>5, KeyringAssumption DEF Fits
<1> QED
  BY <1>3, <1>4, <1>6 DEF KeyringInv, SafeInv

LEMMA KeyringNextInv == KeyringInv /\ [KeyringNext]_keyringVars => KeyringInv'
<1> SUFFICES ASSUME KeyringInv, [KeyringNext]_keyringVars PROVE KeyringInv'
  OBVIOUS
<1>1. ASSUME NEW r \in Request, NEW realm \in Realm, Begin(r, realm) PROVE KeyringInv'
  BY <1>1, BeginInv
<1>2. ASSUME NEW r \in Request, Serve(r) PROVE KeyringInv'
  <2>1. CASE LoadActive(r)
    BY <2>1, LoadActiveInv
  <2>2. CASE Create(r)
    BY <2>2, CreateInv
  <2>3. CASE SignAccess(r)
    BY <2>3, SignAccessInv
  <2>4. CASE SignId(r)
    BY <2>4, SignIdInv
  <2>5. CASE Publish(r) \/ AbortRequest(r)
    BY <2>5, FinishInv DEF Publish, AbortRequest
  <2> QED
    BY <1>2, <2>1, <2>2, <2>3, <2>4, <2>5 DEF Serve
<1>3. ASSUME NEW o \in Operator, NEW realm \in Realm, BeginRotation(o, realm) PROVE KeyringInv'
  BY <1>3, BeginRotationInv
<1>4. ASSUME NEW o \in Operator, Rotate(o) PROVE KeyringInv'
  <2>1. CASE Retire(o)
    BY <2>1, RetireInv
  <2>2. CASE CommitRotation(o)
    BY <2>2, CommitRotationInv
  <2>3. CASE RollBack(o)
    BY <2>3, DropRotationInv DEF RollBack
  <2> QED
    BY <1>4, <2>1, <2>2, <2>3 DEF Rotate
<1>5. CASE PurgeRetired
  BY <1>5, PurgeRetiredInv
<1>6. CASE Tick
  BY <1>6, TickInv
<1>7. CASE UNCHANGED keyringVars
  <2>1. Busy' = Busy /\ Keyless' = Keyless
    BY <1>7 DEF keyringVars, Busy, Keyless, Active
  <2> QED
    BY <1>7, <2>1 DEF keyringVars, KeyringInv, SafeInv, Shape, UniqueSigner, Exclusive, HoldsKey, InTime,
                      Outlives, VerifiesUntil, Fits
<1> QED
  BY <1>1, <1>2, <1>3, <1>4, <1>5, <1>6, <1>7 DEF KeyringNext

LEMMA KeyringInvariant == KeyringSpec => []KeyringInv
  BY KeyringInitInv, KeyringNextInv, PTL DEF KeyringSpec

(* The variables keep their types, and no rotation runs into the bound on  *)
(* the rows: what is begun can be committed.                               *)
THEOREM KeyringTyping == KeyringSpec => []KeyringTypeOK
<1>1. KeyringInv => KeyringTypeOK
  <2> SUFFICES ASSUME KeyringInv PROVE KeyringTypeOK
    OBVIOUS
  <2>1. /\ Len(keys) \in Nat /\ DOMAIN keys = 1 .. Len(keys)
        /\ Len(keys) <= MaxKeys /\ MaxKeys \in Nat
    BY Rows, KeyringAssumption DEF KeyringInv, SafeInv, Fits
  <2>2. \A r \in Request : requests[r] \in Handling
    <3>1. \A r \in Request :
            requests[r].key \in Nat /\ requests[r].key <= Len(keys) /\ requests[r] \in Local
      BY DEF KeyringInv, SafeInv, Shape, Fits, Local
    <3>2. \A r \in Request : requests[r].key \in KeyId \cup {NoKey}
      BY <2>1, <3>1 DEF KeyId, NoKey
    <3> QED
      BY <3>1, <3>2 DEF Local, Handling
  <2>3. \A o \in Operator : rotations[o] \in Rotation
    <3>1. \A o \in Operator : rotations[o].key \in Nat /\ rotations[o].key <= Len(keys)
                              /\ rotations[o] \in LocalOfRotation
      BY DEF KeyringInv, SafeInv, Shape, Fits, LocalOfRotation
    <3>2. \A o \in Operator : rotations[o].key \in KeyId \cup {NoKey}
      BY <2>1, <3>1 DEF KeyId, NoKey
    <3> QED
      BY <3>1, <3>2 DEF LocalOfRotation, Rotation
  <2>4. \A t \in signed : t \in [key : KeyId, exp : Nat]
    <3>1. \A t \in signed : t.key \in KeyId /\ t \in [key : Nat, exp : Nat]
      BY <2>1 DEF KeyringInv, SafeInv, Shape, Outlives, VerifiesUntil, KeyId
    <3> QED
      BY <3>1
  <2> QED
    BY <2>1, <2>2, <2>3, <2>4 DEF KeyringInv, SafeInv, Shape, KeyringTypeOK
<1> QED
  BY <1>1, KeyringInvariant, PTL

(* Through simultaneous first requests, rotations and rolled-back          *)
(* rotations, a realm that has a key has exactly one that signs.           *)
THEOREM RealmHasOneSigner == KeyringSpec => []OneSigner
<1>1. KeyringInv => OneSigner
  <2> SUFFICES ASSUME KeyringInv, NEW realm \in Realm,
                      NEW k \in DOMAIN keys, keys[k].realm = realm
               PROVE  Cardinality(Active(realm)) = 1
    BY DEF OneSigner
  <2>1. PICK j \in DOMAIN keys : keys[j].realm = realm /\ keys[j].status = "active"
    BY DEF KeyringInv, SafeInv, UniqueSigner
  <2>2. Active(realm) = {j}
    BY <2>1 DEF Active, KeyringInv, SafeInv, UniqueSigner
  <2> QED
    BY <2>2, FS_Singleton
<1> QED
  BY <1>1, KeyringInvariant, PTL

(* Whatever is rotated, purged or rolled back while requests hold a key,   *)
(* a token is accepted until it expires.                                   *)
THEOREM TokensStayValid == KeyringSpec => []TokensVerify
<1>1. KeyringInv => TokensVerify
  <2> SUFFICES ASSUME KeyringInv, NEW t \in signed PROVE Accepted(t)
    BY DEF TokensVerify
  <2>1. /\ now \in Nat /\ t.exp \in Nat /\ now < t.exp /\ VerifiesUntil(t.key, t.exp)
    BY DEF KeyringInv, SafeInv, Shape, Outlives
  <2>2. keys[t.key] \in SigningKey
    BY <2>1, Rows DEF KeyringInv, SafeInv, VerifiesUntil
  <2> QED
    BY <2>1, <2>2 DEF Accepted, Verifies, Unexpired, VerifiesUntil, SigningKey
<1> QED
  BY <1>1, KeyringInvariant, PTL

-----------------------------------------------------------------------------
(* Administration.                                                         *)

(* The inductive invariant, in parts.                                      *)

(* What has ever been there.                                               *)
Ever == present \cup deleted

(* The rows, the calls and the trail are well typed; what hangs on a row   *)
(* goes with it.                                                           *)
Rowed ==
  /\ present \subseteq Thing /\ deleted \subseteq Thing
  /\ \A t \in present : HangsOn(t) \subseteq present
  /\ \A t \in Ever : HangsOn(t) \subseteq Ever
  /\ calls \in [Request -> Call]
  /\ events \in Nat /\ purged \in 0..events

(* A call waits, is at a statement of its operation, or is answered; what  *)
(* it creates has an identifier of this realm.                             *)
Typed(r) ==
  LET c == calls[r]
  IN /\ c \in Call
     /\ c.op = Absent => /\ c.at = 0 /\ ~c.changed /\ ~c.recorded
                         /\ c.answer \in {Absent, "unauthenticated", "forbidden", "malformed"}
     /\ c.op # Absent =>
          /\ c.at \in 0..Len(Handler[c.op].steps)
          /\ c.at > 0 <=> c.answer = Absent
          /\ DOMAIN c.targets = DOMAIN Handler[c.op].names
          /\ \A i \in DOMAIN c.targets : <<Handler[c.op].names[i], i>> \in Inserted(c.op) =>
               c.targets[i] \in Ids(Handler[c.op].names[i]) \ {Elsewhere}

(* What the statements before have established has been there since.       *)
Known(r) ==
  calls[r].at > 0 => \A row \in Settled(calls[r].op, calls[r].at) : Of(r, row) \in Ever

(* If all that the call looks for was there, only a deletion takes it away.*)
Whole(r) ==
  calls[r].op # Absent /\ calls[r].whole =>
    \A row \in Sought(calls[r].op) :
      Of(r, row) \in Ever /\ Reaches(calls[r], Of(r, row)) /\ SameRealm(Of(r, row))

(* Who lacks a permission has not come past the statement that asks for it.*)
Asked(r) ==
  LET c == calls[r]
  IN c.op # Absent /\ c.lacks =>
       /\ Handler[c.op].needs # {}
       /\ c.at > 0 => \A m \in 1..(c.at - 1) :
            /\ ~Does(c.op, m, {"require"})
            /\ Does(c.op, m, {"requireUnlessOwn"}) => m + Handler[c.op].steps[m].own < c.at
       /\ c.answer = "notFound" => c.op \in DOMAIN Open \/ c.op = "revoke_api_token"

(* What was not meant reads, and what reads changes nothing.               *)
Meant(r) ==
  LET c == calls[r]
  IN c.op # Absent => /\ ~c.meant => c.op \in RestReads
                      /\ c.op \in RestReads => ~c.changed /\ ~c.recorded

(* A row of another realm keeps the call before the statement that asks.   *)
Foreign(r, i) ==
  LET c == calls[r]
  IN /\ c.op # Absent /\ c.op \notin DOMAIN Open /\ c.op # "accept_invitation"
     /\ c.targets[i] = Elsewhere
     /\ ~(c.op = "revoke_group_role" /\ i = 2)

Ward(op, i, n) == Wards(op, i, n) \/ WardsInvitation(op, i, n)

(* It has changed nothing and answers with a refusal.                      *)
KeptOut(r) ==
  LET c == calls[r]
  IN \A i \in DOMAIN c.targets : Foreign(r, i) =>
       /\ ~c.changed /\ ~c.recorded
       /\ c.answer \in {Absent, "notFound", "forbidden", "refused", "aborted"}
       /\ c.at > 0 => \A n \in Numbers(c.op) : Ward(c.op, i, n) => c.at <= n

(* What is listed has been there.                                          *)
Listed(r) ==
  \A k \in DOMAIN calls[r].agenda : calls[r].agenda[k][1] = "row" =>
    calls[r].agenda[k][2] \in Ever /\ calls[r].agenda[k][2].kind \in {"user", "organization"}

(* A call fails by a race.                                                 *)
Failed(r) ==
  LET c == calls[r]
  IN c.op # Absent =>
       /\ c.answer = "internal" => Raced(r)
       /\ c.answer = "notFound" /\ c.whole => Raced(r) \/ c.op = "peek_invitation"

(* What has changed something has its record ahead.                        *)
RecordAhead(r) ==
  calls[r].at > 0 /\ \E m \in Numbers(calls[r].op) : calls[r].at <= m /\ Does(calls[r].op, m, {"record"})

(* A change is recorded, unless the call was cut short or raced.           *)
Followed(r) ==
  LET c == calls[r]
  IN c.op # Absent /\ c.changed =>
       /\ c.at > 0 => \E m \in 1..(c.at - 1) : Does(c.op, m, Changing)
       /\ c.op \notin Unrecorded =>
            c.recorded \/ c.answer = "aborted" \/ Burnt(c) \/ Raced(r) \/ RecordAhead(r)

(* A statement that should have changed something has, or its row was      *)
(* deleted; a group does not come back.                                    *)
RowGone(r, m) ==
  LET op == calls[r].op  row == Handler[op].steps[m].row
  IN /\ Misses(op, m, "unnoticed") /\ Of(r, row) \in deleted
     /\ row[1] = "group" =>
          /\ Of(r, row) \notin present
          /\ \A k \in (m + 1)..(calls[r].at - 1) :
               ~(Does(op, k, {"look"}) /\ Handler[op].steps[k].row = row)

Earned(r) ==
  LET c == calls[r]
  IN /\ c.at > 0 => \A m \in 1..(c.at - 1) : Does(c.op, m, Changing) => c.changed \/ RowGone(r, m)
     /\ c.recorded => c.changed \/ (c.op = "delete_user" /\ Raced(r))

(* The groups that calls are about to create are new, and each its own.    *)
Creates(op, n) == Does(op, n, {"insert"}) /\ Handler[op].steps[n].row[1] = "group"

ToCreate(r) ==
  LET op == calls[r].op
  IN IF calls[r].at = 0 THEN {}
     ELSE {Of(r, Handler[op].steps[n].row) : n \in {m \in Numbers(op) : calls[r].at <= m /\ Creates(op, m)}}

Fresh ==
  /\ \A r \in Request : ToCreate(r) \cap Ever = {}
  /\ \A r, q \in Request : r # q => ToCreate(r) \cap ToCreate(q) = {}

Stands(r) ==
  /\ Typed(r) /\ Known(r) /\ Whole(r) /\ Asked(r) /\ Meant(r) /\ KeptOut(r) /\ Listed(r)
  /\ Failed(r) /\ Followed(r) /\ Earned(r)

AdministrationInv == Rowed /\ Fresh /\ \A r \in Request : Stands(r)

-----------------------------------------------------------------------------
(* The table of handlers.                                                  *)

LEMMA Table ==
  ASSUME NEW op \in DOMAIN Handler
  PROVE  /\ Formed(op) /\ InsertsFit(op) /\ Bounded(op) /\ Asks(op) /\ KeepsOut(op)
         /\ RefersToSettled(op) /\ ChangesAreRecorded(op) /\ RecordsFollowChanges(op)
  BY HandlerAssumption

LEMMA Lengths ==
  ASSUME NEW op \in DOMAIN Handler
  PROVE  /\ Len(Handler[op].steps) \in Nat /\ Numbers(op) = 1..Len(Handler[op].steps)
         /\ Len(Handler[op].names) \in Nat
         /\ DOMAIN Handler[op].names = 1..Len(Handler[op].names)
  BY Table DEF Formed

(* What is settled one statement on.                                       *)
LEMMA SettledNext ==
  ASSUME NEW op, NEW n \in Nat \ {0}, NEW k \in Nat, NEW row, row \in Settled(op, k),
         \/ k = n + 1
         \/ /\ Does(op, n, {"requireUnlessOwn"}) /\ Handler[op].steps[n].own \in Nat
            /\ k = n + Handler[op].steps[n].own + 1
  PROVE  \/ row \in Settled(op, n)
         \/ Settles(op, n) /\ row = Handler[op].steps[n].row
         \/ /\ Settles(op, n) /\ row = <<"organization", Handler[op].steps[n].row[2]>>
            /\ Handler[op].steps[n].row[1] = "invitation"
<1>1. ASSUME NEW m \in 1..(k - 1), Settles(op, m)
      PROVE  m \in 1..(n - 1) \/ m = n
  <2>1. CASE k = n + 1
    BY <2>1
  <2>2. CASE /\ Does(op, n, {"requireUnlessOwn"}) /\ Handler[op].steps[n].own \in Nat
             /\ k = n + Handler[op].steps[n].own + 1
    <3>1. SUFFICES ASSUME m > n PROVE FALSE
      OBVIOUS
    <3>2. n \in 1..(m - 1) /\ m <= n + Handler[op].steps[n].own
      BY <2>2, <3>1
    <3>3. Skipped(op, m)
      BY <2>2, <3>2 DEF Skipped
    <3> QED
      BY <1>1, <3>3 DEF Settles
  <2> QED
    BY <2>1, <2>2
<1>2. ASSUME NEW v \in Passed(op, k)
      PROVE  v \in Passed(op, n) \/ (Settles(op, n) /\ v = Handler[op].steps[n].row)
  BY <1>1 DEF Passed
<1> QED
  BY <1>2 DEF Settled

LEMMA NothingSettled ==
  ASSUME NEW op, NEW row \in Settled(op, 1)
  PROVE  op \notin Unsigned /\ row = <<"user", 0>>
<1>1. Passed(op, 1) = {}
  BY DEF Passed
<1>2. {<<"organization", w[2]>> : w \in {v \in Passed(op, 1) : v[1] = "invitation"}} = {}
  BY <1>1
<1>3. CASE op \in Unsigned
  BY <1>1, <1>2, <1>3 DEF Settled
<1>4. CASE op \notin Unsigned
  <2>1. row \in {<<"user", 0>>}
    BY <1>1, <1>2, <1>4 DEF Settled
  <2> QED
    BY <1>4, <2>1
<1> QED
  BY <1>3, <1>4

-----------------------------------------------------------------------------
(* A call and its answer.                                                  *)

Replies == AppError \cup {"done", "aborted"}

LEMMA ReplyIs ==
  ASSUME NEW c \in Call, NEW a \in Replies
  PROVE  /\ Reply(c, a) \in Call
         /\ Reply(c, a).at = 0 /\ Reply(c, a).answer = a /\ Reply(c, a).agenda = <<>>
         /\ Reply(c, a).op = c.op /\ Reply(c, a).targets = c.targets
         /\ Reply(c, a).lacks = c.lacks /\ Reply(c, a).meant = c.meant
         /\ Reply(c, a).whole = c.whole /\ Reply(c, a).changed = c.changed
         /\ Reply(c, a).recorded = c.recorded /\ Reply(c, a).offset = c.offset
         /\ Reply(c, a).total = c.total /\ Reply(c, a).shown = c.shown
         /\ Reply(c, a).seen = c.seen /\ Reply(c, a).due = c.due
         /\ Reply(c, a).landed = c.landed
<1>1. <<>> \in Seq({"row", "members"} \X Thing)
  BY EmptySeq
<1> QED
  BY <1>1 DEF Reply, Call, Replies

LEMMA OnwardIs ==
  ASSUME NEW c \in Call, c.op # Absent, c.at \in 1..Len(Steps(c))
  PROVE  /\ Onward(c) \in Call
         /\ c.at = Len(Steps(c)) =>
              Onward(c).at = 0 /\ Onward(c).answer = "done" /\ Onward(c).agenda = <<>>
         /\ c.at # Len(Steps(c)) =>
              Onward(c).at = c.at + 1 /\ Onward(c).answer = c.answer /\ Onward(c).agenda = c.agenda
         /\ Onward(c).op = c.op /\ Onward(c).targets = c.targets
         /\ Onward(c).lacks = c.lacks /\ Onward(c).meant = c.meant
         /\ Onward(c).whole = c.whole /\ Onward(c).changed = c.changed
         /\ Onward(c).recorded = c.recorded /\ Onward(c).offset = c.offset
         /\ Onward(c).total = c.total /\ Onward(c).shown = c.shown
         /\ Onward(c).seen = c.seen /\ Onward(c).due = c.due
         /\ Onward(c).landed = c.landed
<1>1. CASE c.at = Len(Steps(c))
  BY <1>1, ReplyIs DEF Onward, Replies
<1>2. CASE c.at # Len(Steps(c))
  <2>1. c.at \in Nat /\ c.at + 1 \in Nat
    BY DEF Call
  <2>2. Onward(c) = [c EXCEPT !.at = c.at + 1]
    BY <1>2 DEF Onward
  <2> QED
    BY <1>2, <2>1, <2>2 DEF Call
<1> QED
  BY <1>1, <1>2

-----------------------------------------------------------------------------
(* What a step leaves as it is.                                            *)

(* The call is the same, though it may have come further.                  *)
SameCall(r) ==
  /\ calls'[r] \in Call
  /\ calls'[r].op = calls[r].op /\ calls'[r].targets = calls[r].targets
  /\ calls'[r].lacks = calls[r].lacks /\ calls'[r].meant = calls[r].meant
  /\ calls'[r].whole = calls[r].whole

(* It has not.                                                             *)
Unmoved(r) ==
  /\ SameCall(r)
  /\ calls'[r].at = calls[r].at /\ calls'[r].answer = calls[r].answer
  /\ calls'[r].changed = calls[r].changed /\ calls'[r].recorded = calls[r].recorded

(* Nothing happened to it, though an event may have landed between its two *)
(* queries.                                                                *)
Alike(r) == Unmoved(r) /\ calls'[r].agenda = calls[r].agenda

(* Nothing that was ever there is forgotten, and no group comes back.      *)
Evolves ==
  /\ deleted \subseteq deleted' /\ Ever \subseteq Ever'
  /\ \A t \in deleted : t.kind = "group" /\ t \notin present => t \notin present'

LEMMA OfKept ==
  ASSUME NEW r, SameCall(r)
  PROVE  /\ \A row : Of(r, row)' = Of(r, row)
         /\ \A t : Reaches(calls[r], t)' <=> Reaches(calls[r], t)
         /\ RowsTouched(r)' = RowsTouched(r)
         /\ Burnt(calls[r])' <=> Burnt(calls[r])
<1>1. \A row : Of(r, row)' = Of(r, row)
  BY DEF Of, RowOf, SameCall
<1>2. Named(calls[r])' = Named(calls[r])
  BY DEF Named, SameCall
<1>3. \A t : Reaches(calls[r], t)' <=> Reaches(calls[r], t)
  BY <1>2 DEF Reaches, SameCall
<1>4. Steps(calls[r])' = Steps(calls[r])
  BY DEF Steps, SameCall
<1>5. RowsTouched(r)' = RowsTouched(r)
  BY <1>1, <1>2, <1>4 DEF RowsTouched
<1>6. Burnt(calls[r])' <=> Burnt(calls[r])
  BY DEF Burnt, SameCall
<1> QED
  BY <1>1, <1>3, <1>5, <1>6

LEMMA RacedKept ==
  ASSUME NEW r, SameCall(r), deleted \subseteq deleted', Raced(r)
  PROVE  Raced(r)'
<1>1. RowsTouched(r)' = RowsTouched(r)
  BY OfKept
<1> QED
  BY <1>1 DEF Raced

LEMMA GoneKept ==
  ASSUME NEW r, SameCall(r), Evolves, NEW m, RowGone(r, m),
         calls'[r].at = calls[r].at
  PROVE  RowGone(r, m)'
<1> DEFINE op == calls[r].op
           row == Handler[op].steps[m].row
<1>1. calls'[r].op = op /\ \A w : Of(r, w)' = Of(r, w)
  BY OfKept DEF SameCall
<1>2. Of(r, row).kind = row[1]
  BY DEF Of, RowOf
<1>3. Misses(op, m, "unnoticed") /\ Of(r, row) \in deleted /\ Of(r, row) \in deleted'
  BY DEF RowGone, Evolves
<1>4. row[1] = "group" => Of(r, row) \notin present'
  BY <1>2, <1>3 DEF RowGone, Evolves
<1> QED
  BY <1>1, <1>3, <1>4 DEF RowGone

(* A step of another call, or one that does not bring the call further.    *)
LEMMA Beside ==
  ASSUME NEW r, Stands(r), Unmoved(r), Listed(r)', Evolves
  PROVE  Stands(r)'
<1> USE OfKept, RacedKept
<1>0. SameCall(r) /\ deleted \subseteq deleted' /\ Ever \subseteq Ever'
  BY DEF Unmoved, Evolves
<1>1. Typed(r)'
  BY <1>0 DEF Stands, Typed, Unmoved, SameCall
<1>2. Known(r)'
  BY <1>0 DEF Stands, Known, Unmoved, SameCall
<1>3. Whole(r)'
  BY <1>0 DEF Stands, Whole, Unmoved, SameCall
<1>4. Asked(r)' /\ Meant(r)'
  BY <1>0 DEF Stands, Asked, Meant, Unmoved, SameCall
<1>5. KeptOut(r)'
  BY <1>0 DEF Stands, KeptOut, Foreign, Unmoved, SameCall
<1>7. Failed(r)'
  BY <1>0 DEF Stands, Failed, Unmoved, SameCall
<1>8. Followed(r)'
  BY <1>0 DEF Stands, Followed, RecordAhead, Unmoved, SameCall
<1>9. Earned(r)'
  <2>1. ASSUME NEW m, RowGone(r, m) PROVE RowGone(r, m)'
    BY <1>0, <2>1, GoneKept DEF Unmoved, SameCall
  <2> QED
    BY <1>0, <2>1 DEF Stands, Earned, Unmoved, SameCall
<1> QED
  BY <1>1, <1>2, <1>3, <1>4, <1>5, <1>7, <1>8, <1>9 DEF Stands

-----------------------------------------------------------------------------
(* A call that ends.                                                       *)

(* What must be so for a call to end with an answer.                       *)
Reason(r, a) ==
  LET c == calls[r]
  IN /\ a = "internal" => Raced(r)
     /\ a = "notFound" =>
          /\ c.whole => Raced(r) \/ c.op = "peek_invitation"
          /\ c.lacks => c.op \in DOMAIN Open \/ c.op = "revoke_api_token"
     /\ \A i \in DOMAIN c.targets : Foreign(r, i) => a \in {"notFound", "forbidden", "refused", "aborted"}
     /\ c.changed /\ c.op \notin Unrecorded =>
          c.recorded \/ a = "aborted" \/ Burnt(c) \/ Raced(r)

LEMMA Started ==
  ASSUME NEW r, Typed(r), calls[r].at > 0
  PROVE  /\ calls[r] \in Call /\ calls[r].op \in DOMAIN Handler /\ calls[r].op # Absent
         /\ calls[r].answer = Absent
         /\ Len(Handler[calls[r].op].steps) \in Nat
         /\ Numbers(calls[r].op) = 1..Len(Handler[calls[r].op].steps)
         /\ calls[r].at \in Numbers(calls[r].op)
         /\ calls[r].at \in Nat \ {0} /\ calls[r].at <= Len(Handler[calls[r].op].steps)
<1>1. calls[r] \in Call /\ calls[r].op # Absent
  BY DEF Typed
<1>2. calls[r].op \in DOMAIN Handler
  BY <1>1 DEF Call
<1>3. calls[r].at \in 0..Len(Handler[calls[r].op].steps) /\ calls[r].answer = Absent
  BY <1>1 DEF Typed
<1> QED
  BY <1>1, <1>2, <1>3, Lengths

LEMMA Ended ==
  ASSUME NEW r, Stands(r), SameCall(r), Evolves, calls[r].op # Absent,
         NEW a \in Replies, Reason(r, a),
         calls'[r].at = 0, calls'[r].answer = a, calls'[r].agenda = <<>>,
         calls'[r].changed = calls[r].changed, calls'[r].recorded = calls[r].recorded
  PROVE  Stands(r)'
<1> USE OfKept, RacedKept
<1>0. deleted \subseteq deleted' /\ Ever \subseteq Ever' /\ Reason(r, a)
  BY DEF Evolves
<1>1. Typed(r)'
  <2>1. a # Absent
    BY NamesAssumption DEF Replies
  <2>2. Len(Handler[calls[r].op].steps) \in Nat
    BY Lengths DEF Stands, Typed, Call
  <2> QED
    BY <2>1, <2>2 DEF Stands, Typed, SameCall
<1>2. Known(r)'
  BY DEF Known
<1>3. Whole(r)'
  BY <1>0 DEF Stands, Whole, SameCall
<1>4. Asked(r)' /\ Meant(r)'
  BY <1>0 DEF Stands, Asked, Meant, SameCall, Reason
<1>5. KeptOut(r)'
  BY <1>0 DEF Stands, KeptOut, Foreign, SameCall, Reason
<1>6. Listed(r)'
  BY DEF Listed
<1>7. Failed(r)'
  BY <1>0 DEF Failed, SameCall, Reason
<1>8. Followed(r)'
  BY <1>0 DEF Stands, Followed, SameCall, Reason
<1>9. Earned(r)'
  BY <1>0 DEF Stands, Earned, SameCall
<1> QED
  BY <1>1, <1>2, <1>3, <1>4, <1>5, <1>6, <1>7, <1>8, <1>9 DEF Stands

LEMMA OthersStand ==
  ASSUME AdministrationInv, NEW r \in Request, Evolves, Stands(r)',
         \A q \in Request \ {r} : Alike(q), Rowed', Fresh'
  PROVE  AdministrationInv'
<1>1. \A q \in Request \ {r} : Stands(q)'
  <2>1. ASSUME NEW q \in Request \ {r} PROVE Listed(q)'
    BY DEF AdministrationInv, Stands, Listed, Alike, Evolves
  <2> QED
    BY <2>1, Beside DEF AdministrationInv, Alike
<1> QED
  BY <1>1 DEF AdministrationInv

LEMMA CallsAre ==
  ASSUME AdministrationInv, NEW r \in Request, NEW d \in Call, Becomes(r, d)
  PROVE  /\ calls'[r] = d
         /\ \A q \in Request \ {r} : calls'[q] = calls[q] /\ Alike(q)
<1>1. calls \in [Request -> Call]
  BY DEF AdministrationInv, Rowed
<1>2. calls'[r] = d /\ \A q \in Request \ {r} : calls'[q] = calls[q] /\ calls[q] \in Call
  BY <1>1 DEF Becomes
<1> QED
  BY <1>2 DEF Alike, Unmoved, SameCall

-----------------------------------------------------------------------------
(* A call that stays or goes on.                                           *)

(* What it creates is not there yet.                                       *)
LEMMA StaysFresh ==
  ASSUME AdministrationInv, NEW r \in Request, SameCall(r),
         \A q \in Request \ {r} : Alike(q),
         calls'[r].at = 0 \/ (calls[r].at > 0 /\ calls'[r].at >= calls[r].at),
         \A t \in Ever' \ Ever : /\ calls[r].at > 0 /\ Does(calls[r].op, calls[r].at, {"insert"})
                                 /\ t = Of(r, Handler[calls[r].op].steps[calls[r].at].row)
                                 /\ calls'[r].at = 0 \/ calls'[r].at > calls[r].at
  PROVE  Fresh'
<1>0. \A q \in Request : SameCall(q)
  BY DEF Alike, Unmoved
<1>1. \A q \in Request : Typed(q)
  BY DEF AdministrationInv, Stands
<1>2. ASSUME NEW q \in Request PROVE ToCreate(q)' \subseteq ToCreate(q)
  <2>1. CASE calls'[q].at = 0
    BY <2>1 DEF ToCreate
  <2>2. CASE calls'[q].at # 0
    <3>1. calls[q].at > 0 /\ calls'[q].at >= calls[q].at
      <4>1. CASE q = r
        BY <2>2, <4>1
      <4>2. CASE q # r
        <5>1. calls'[q].at = calls[q].at /\ calls[q].at \in Nat
          BY <4>2, <1>1 DEF Alike, Unmoved, Typed, Call
        <5> QED
          BY <2>2, <5>1
      <4> QED
        BY <4>1, <4>2
    <3>2. calls[q].at \in Nat /\ calls'[q].at \in Nat /\ Numbers(calls[q].op) \subseteq Nat
      <4>1. calls'[q] \in Call
        BY <1>0 DEF SameCall
      <4>2. /\ calls[q].at \in Nat /\ Len(Handler[calls[q].op].steps) \in Nat
            /\ Numbers(calls[q].op) = 1..Len(Handler[calls[q].op].steps)
        BY <3>1, <1>1, Started
      <4> QED
        BY <4>1, <4>2 DEF Call
    <3>3. \A row : Of(q, row)' = Of(q, row)
      BY <1>0, OfKept
    <3>4. calls'[q].op = calls[q].op
      BY <1>0 DEF SameCall
    <3>5. \A m \in Numbers(calls[q].op) : calls'[q].at <= m => calls[q].at <= m
      BY <3>1, <3>2
    <3> QED
      BY <2>2, <3>1, <3>3, <3>4, <3>5 DEF ToCreate
  <2> QED
    BY <2>1, <2>2
<1>3. ASSUME NEW q \in Request, NEW t \in ToCreate(q)', t \in Ever'
      PROVE  FALSE
  <2>1. t \in ToCreate(q) /\ t \notin Ever
    BY <1>2, <1>3 DEF AdministrationInv, Fresh
  <2> DEFINE op == calls[r].op
             n == calls[r].at
  <2>2. /\ n > 0 /\ Does(op, n, {"insert"}) /\ t = Of(r, Handler[op].steps[n].row)
        /\ calls'[r].at = 0 \/ calls'[r].at > n
    BY <1>3, <2>1
  <2>3. t.kind = "group"
    <3>1. PICK m \in Numbers(calls[q].op) :
            t = Of(q, Handler[calls[q].op].steps[m].row) /\ Creates(calls[q].op, m)
      BY <2>1 DEF ToCreate
    <3> QED
      BY <3>1 DEF Of, RowOf, Creates
  <2>4. n \in Numbers(op) /\ n \in Nat /\ op \in DOMAIN Handler /\ Numbers(op) \subseteq Nat
    <3>1. calls[r].at > 0 /\ Typed(r)
      BY <2>2, <1>1
    <3>2. n \in Numbers(op) /\ n \in Nat /\ op \in DOMAIN Handler /\ Numbers(op) = 1..Len(Handler[op].steps)
      BY <3>1, Started
    <3> QED
      BY <3>2
  <2>5. Creates(op, n)
    BY <2>2, <2>3 DEF Creates, Of, RowOf
  <2>6. t \in ToCreate(r)
    BY <2>2, <2>4, <2>5 DEF ToCreate
  <2>7. q = r
    BY <2>1, <2>6 DEF AdministrationInv, Fresh
  <2>8. calls'[r].at > n /\ calls'[r].op = op
    BY <1>3, <2>2, <2>7, <1>0 DEF ToCreate, SameCall
  <2>9. PICK m \in Numbers(op) : calls'[r].at <= m /\ Creates(op, m)
    BY <1>3, <2>7, <2>8 DEF ToCreate, SameCall
  <2>10. m = n
    BY <2>4, <2>5, <2>9, Table DEF InsertsFit, Creates
  <2>11. calls'[r].at \in Nat
    BY <1>0 DEF SameCall, Call
  <2> QED
    BY <2>4, <2>8, <2>9, <2>10, <2>11
<1> QED
  BY <1>2, <1>3 DEF AdministrationInv, Fresh

(* What must be so for a call to get from a statement to number `k'.       *)
Goes(r, k) ==
  LET c == calls[r]  op == c.op  n == c.at  s == Handler[op].steps[n]  d == calls'[r]
  IN /\ \/ k = n + 1
        \/ Does(op, n, {"requireUnlessOwn"}) /\ ActsOnItself(r) /\ k = n + s.own + 1
     /\ k > Len(Handler[op].steps) => d.at = 0 /\ d.answer = "done"
     /\ k <= Len(Handler[op].steps) => d.at = k /\ d.answer = Absent
     /\ c.lacks => /\ ~Does(op, n, {"require"})
                   /\ Does(op, n, {"requireUnlessOwn"}) => k = n + s.own + 1
     /\ Settles(op, n) => Of(r, s.row) \in Ever'
     /\ \A i \in DOMAIN c.targets : Foreign(r, i) => ~Ward(op, i, n)
     /\ Does(op, n, {"look"}) => Of(r, s.row) \in present
     /\ d.changed = c.changed \/ (Does(op, n, Changing) /\ d.changed)
     /\ Does(op, n, Changing) =>
          d.changed \/ (Misses(op, n, "unnoticed") /\ Of(r, s.row) \notin present')
     /\ d.recorded = c.recorded \/ (Does(op, n, {"record"}) /\ d.recorded)
     /\ Does(op, n, {"record"}) => d.recorded \/ AccountRow(ActorOf[r]) \notin present'

(* Statement and next statement are there; nothing but reads is passed     *)
(* over.                                                                   *)
LEMMA CallGoesOn ==
  ASSUME NEW r, Typed(r), calls[r].at > 0, NEW k \in Nat, Goes(r, k)
  PROVE  /\ calls[r].at \in Nat \ {0} /\ calls[r].at < k
         /\ k <= Len(Handler[calls[r].op].steps) + 1
         /\ \A m \in 1..(k - 1) : m < calls[r].at \/ m = calls[r].at \/
              ~Does(calls[r].op, m, Changing \cup {"record", "require", "requireUnlessOwn"})
         /\ k # calls[r].at + 1 => \A m \in 1..(k - 1) : m = calls[r].at \/
              ~Does(calls[r].op, m, Changing \cup {"record", "require", "requireUnlessOwn"})
<1> DEFINE op == calls[r].op
           n == calls[r].at
           own == Handler[op].steps[n].own
<1>1. op \in DOMAIN Handler /\ n \in Nat \ {0} /\ n <= Len(Handler[op].steps) /\ n \in Numbers(op)
      /\ Len(Handler[op].steps) \in Nat
  BY Started
<1>2. CASE k = n + 1
  BY <1>1, <1>2
<1>3. CASE Does(op, n, {"requireUnlessOwn"}) /\ k = n + own + 1
  <2>1. Handler[op].steps[n].do = "requireUnlessOwn"
    BY <1>3 DEF Does
  <2>2. /\ own \in Nat /\ n + own <= Len(Handler[op].steps)
        /\ \A m \in 1..(n + own) : m = n \/
             ~Does(op, m, Changing \cup {"record", "require", "requireUnlessOwn"})
    BY <1>1, <2>1, Table DEF Formed
  <2>3. 1..(k - 1) = 1..(n + own)
    BY <1>1, <1>3, <2>2
  <2> HIDE DEF op, own, n
  <2>4. n < k /\ k <= Len(Handler[op].steps) + 1
    BY <1>1, <1>3, <2>2
  <2> QED
    BY <1>1, <2>2, <2>3, <2>4 DEF op, n
<1> QED
  BY <1>2, <1>3 DEF Goes

LEMMA GoesKnown ==
  ASSUME NEW r, Typed(r), Known(r), SameCall(r), Evolves, Rowed', calls[r].at > 0, NEW k \in Nat, Goes(r, k)
  PROVE  \A row \in Settled(calls[r].op, k) : Of(r, row) \in Ever'
<1> DEFINE op == calls[r].op
           n == calls[r].at
           new == Handler[op].steps[n].row
<1> SUFFICES ASSUME NEW row \in Settled(op, k) PROVE Of(r, row) \in Ever'
  OBVIOUS
<1>1. n \in Nat \ {0} /\ n \in Numbers(op) /\ op \in DOMAIN Handler
  BY Started
<1>2. \/ k = n + 1
      \/ /\ Does(op, n, {"requireUnlessOwn"}) /\ Handler[op].steps[n].own \in Nat
         /\ k = n + Handler[op].steps[n].own + 1
  <2>1. Does(op, n, {"requireUnlessOwn"}) => Handler[op].steps[n].own \in Nat
    BY <1>1, Table DEF Formed, Does
  <2> QED
    BY <2>1 DEF Goes
<1>3. \/ row \in Settled(op, n)
      \/ Settles(op, n) /\ row = new
      \/ Settles(op, n) /\ row = <<"organization", new[2]>> /\ new[1] = "invitation"
  BY <1>1, <1>2, SettledNext
<1>4. CASE row \in Settled(op, n)
  BY <1>4 DEF Known, Evolves
<1>5. CASE Settles(op, n) /\ row = new
  BY <1>5 DEF Goes
<1>6. CASE Settles(op, n) /\ row = <<"organization", new[2]>> /\ new[1] = "invitation"
  <2>1. Of(r, new) \in Ever'
    BY <1>6 DEF Goes
  <2>2. Of(r, new).kind = "invitation" /\ Of(r, row) = [kind |-> "organization", id |-> Of(r, new).id]
    BY <1>6 DEF Of, RowOf
  <2>3. HangsOn(Of(r, new)) = {Of(r, row)}
    BY <2>2 DEF HangsOn
  <2> QED
    BY <2>1, <2>3 DEF Rowed
<1> QED
  BY <1>3, <1>4, <1>5, <1>6

LEMMA GoesAsked ==
  ASSUME NEW r, Typed(r), Asked(r), SameCall(r), calls[r].at > 0, NEW k \in Nat, Goes(r, k)
  PROVE  Asked(r)'
<1> DEFINE op == calls[r].op
           n == calls[r].at
<1> SUFFICES ASSUME calls[r].lacks
             PROVE  Asked(r)'
  BY DEF Asked, SameCall
<1>1. n \in Nat \ {0} /\ op # Absent /\ calls[r].answer = Absent /\ Len(Handler[op].steps) \in Nat
      /\ n \in Numbers(op) /\ op \in DOMAIN Handler
  BY Started
<1>2. /\ Handler[op].needs # {}
      /\ \A m \in 1..(n - 1) :
            /\ ~Does(op, m, {"require"})
            /\ Does(op, m, {"requireUnlessOwn"}) => m + Handler[op].steps[m].own < n
  BY <1>1 DEF Asked
<1>3. ASSUME NEW m \in 1..(k - 1), Does(op, m, {"requireUnlessOwn"})
      PROVE  m + Handler[op].steps[m].own < k
  <2>1. CASE m < n
    <3>1. m \in Numbers(op)
      BY <1>1, <2>1, Lengths
    <3>2. Handler[op].steps[m].own \in Nat
      BY <1>1, <1>3, <3>1, Table DEF Formed, Does
    <3>3. m \in 1..(n - 1) /\ m \in Nat /\ n \in Nat
      BY <1>1, <2>1
    <3>4. m + Handler[op].steps[m].own < n
      BY ONLY <1>2, <1>3, <3>3
    <3>5. n < k
      BY CallGoesOn
    <3> QED
      BY <3>2, <3>3, <3>4, <3>5
  <2>2. CASE m = n
    <3>1. PICK far \in Nat : far = Handler[op].steps[m].own
      BY <1>1, <1>3, <2>2, Table DEF Formed, Does
    <3>2. k = m + far + 1
      BY <1>3, <2>2, <3>1 DEF Goes
    <3>3. m + far < k
      BY <3>2
    <3> QED
      BY <3>1, <3>3
  <2>3. CASE ~(m < n) /\ m # n
    BY <1>3, <2>3, CallGoesOn DEF Does
  <2> QED
    BY <2>1, <2>2, <2>3
<1>4. ASSUME NEW m \in 1..(k - 1), Does(op, m, {"require"})
      PROVE  FALSE
  <2>1. CASE m < n
    BY <1>1, <1>2, <1>4, <2>1
  <2>2. CASE m = n
    BY <1>4, <2>2 DEF Goes
  <2>3. CASE ~(m < n) /\ m # n
    BY <1>4, <2>3, CallGoesOn DEF Does
  <2> QED
    BY <2>1, <2>2, <2>3
<1>5. calls'[r].answer # "notFound"
  BY <1>1, NamesAssumption DEF Goes, AppError
<1>6. calls'[r].at = 0 \/ calls'[r].at = k
  BY <1>1 DEF Goes
<1> QED
  BY <1>1, <1>2, <1>3, <1>4, <1>5, <1>6 DEF Asked, SameCall

LEMMA GoesKeptOut ==
  ASSUME NEW r \in Request, Typed(r), KeptOut(r), SameCall(r), calls[r].at > 0, NEW k \in Nat, Goes(r, k)
  PROVE  KeptOut(r)'
<1> DEFINE op == calls[r].op
           n == calls[r].at
           c == calls[r]
<1> SUFFICES ASSUME NEW i \in DOMAIN c.targets, Foreign(r, i)
             PROVE  /\ ~calls'[r].changed /\ ~calls'[r].recorded
                    /\ calls'[r].answer \in {Absent, "notFound", "forbidden", "refused", "aborted"}
                    /\ calls'[r].at > 0 => \A w \in Numbers(op) : Ward(op, i, w) => calls'[r].at <= w
  BY DEF KeptOut, Foreign, SameCall
<1>1. n \in Nat \ {0} /\ op # Absent /\ c.answer = Absent /\ Len(Handler[op].steps) \in Nat
      /\ n \in Numbers(op) /\ op \in DOMAIN Handler /\ Numbers(op) = 1..Len(Handler[op].steps)
  BY Started
<1>2. i \in DOMAIN Handler[op].names
  BY <1>1 DEF Typed
<1>3. <<Handler[op].names[i], i>> \notin Inserted(op)
  BY <1>1, <1>2 DEF Typed, Foreign
<1>4. PICK w \in Numbers(op) : Ward(op, i, w)
  BY <1>1, <1>2, <1>3, Table DEF KeepsOut, Foreign, Ward
<1>5. \A v \in Numbers(op) : Ward(op, i, v) => n < v
  <2>1. \A v \in Numbers(op) : Ward(op, i, v) => n <= v /\ v # n
    BY <1>1 DEF KeptOut, Goes
  <2> QED
    BY <1>1, <2>1
<1>6. k = n + 1
  <2>1. SUFFICES ASSUME k # n + 1 PROVE FALSE
    OBVIOUS
  <2>2. Does(op, n, {"requireUnlessOwn"}) /\ ActsOnItself(r) /\ k = n + Handler[op].steps[n].own + 1
    BY <2>1 DEF Goes
  <2>3. Handler[op].steps[n].own \in Nat /\ (Handler[op].steps[n].own > 0 => Len(Handler[op].names) = 1)
        /\ DOMAIN Handler[op].names = 1..Len(Handler[op].names)
    BY <1>1, <2>2, Table DEF Formed, Does
  <2>4. i = 1
    <3>1. PICK far \in Nat : far = Handler[op].steps[n].own
      BY <2>3
    <3>2. PICK at \in Nat : at = n
      BY <1>1
    <3>3. k = at + far + 1 /\ k # at + 1
      BY <2>1, <2>2, <3>1, <3>2
    <3>4. far > 0
      BY <3>3
    <3>5. DOMAIN Handler[op].names = 1..1
      BY <2>3, <3>1, <3>4
    <3> QED
      BY <1>2, <3>5
  <2>5. c.targets[1] = ActorOf[r] /\ c.targets[1] = Elsewhere
    BY <2>2, <2>4 DEF ActsOnItself, Foreign
  <2> QED
    <3>1. ActorOf[r] \in Account
      BY ActorAssumption
    <3> QED
      BY <2>5, <3>1, NamesAssumption
<1>7. Does(op, n, {"require", "requireUnlessOwn", "validate", "query", "otherThanActor", "look"})
  <2>1. n \in 1..(w - 1)
    BY <1>1, <1>4, <1>5
  <2> QED
    BY <1>4, <2>1 DEF Ward, Wards, WardsInvitation, Does
<1>8. ~calls'[r].changed /\ ~calls'[r].recorded
  BY <1>7 DEF KeptOut, Goes, Does, Changing
<1>9. calls'[r].at = k /\ calls'[r].answer = Absent
  BY <1>1, <1>4, <1>5, <1>6 DEF Goes
<1> QED
  BY <1>1, <1>5, <1>6, <1>8, <1>9

LEMMA GoesGone ==
  ASSUME NEW r, Typed(r), SameCall(r), Evolves, calls[r].at > 0, NEW k \in Nat, Goes(r, k),
         NEW m \in 1..(calls[r].at - 1), RowGone(r, m), calls'[r].at = k
  PROVE  RowGone(r, m)'
<1> DEFINE op == calls[r].op
           n == calls[r].at
           row == Handler[op].steps[m].row
<1>1. n \in Nat \ {0} /\ n < k
  BY CallGoesOn
<1>2. Misses(op, m, "unnoticed") /\ Of(r, row) \in deleted /\ Of(r, row) \in deleted'
  BY DEF RowGone, Evolves
<1>3. Of(r, row)' = Of(r, row) /\ calls'[r].op = op /\ Of(r, row).kind = row[1]
  BY OfKept DEF SameCall, Of, RowOf
<1>4. k = n + 1
  <2>1. Does(op, m, Changing \cup {"record", "require", "requireUnlessOwn"})
    BY <1>2 DEF Misses, Does, Changing
  <2>2. m \in 1..(k - 1) /\ m # n
    BY <1>1
  <2> QED
    BY <2>1, <2>2, CallGoesOn
<1>5. ASSUME row[1] = "group"
      PROVE  /\ Of(r, row) \notin present'
             /\ \A j \in (m + 1)..(k - 1) : ~(Does(op, j, {"look"}) /\ Handler[op].steps[j].row = row)
  <2>1. Of(r, row) \notin present
    BY <1>5 DEF RowGone
  <2>2. Of(r, row) \notin present'
    BY <1>2, <1>3, <1>5, <2>1 DEF Evolves
  <2>3. ~(Does(op, n, {"look"}) /\ Handler[op].steps[n].row = row)
    BY <2>1 DEF Goes
  <2>4. \A j \in (m + 1)..(k - 1) : j \in (m + 1)..(n - 1) \/ j = n
    BY <1>1, <1>4
  <2> QED
    BY <1>5, <2>2, <2>3, <2>4 DEF RowGone
<1> QED
  BY <1>2, <1>3, <1>5 DEF RowGone

LEMMA GoesEarned ==
  ASSUME NEW r \in Request, Typed(r), Known(r), Earned(r), SameCall(r), Evolves, calls[r].at > 0,
         NEW k \in Nat, Goes(r, k)
  PROVE  Earned(r)'
<1> DEFINE op == calls[r].op
           n == calls[r].at
<1>1. n \in Nat \ {0} /\ n \in Numbers(op) /\ op \in DOMAIN Handler /\ n < k /\ calls[r] \in Call
      /\ calls'[r] \in Call /\ Len(Handler[op].steps) \in Nat
  BY Started, CallGoesOn DEF SameCall
<1>2. calls[r].changed => calls'[r].changed
  BY DEF Goes
<1>3. calls'[r].at > 0 => calls'[r].at = k
  BY <1>1 DEF Goes
<1>4. ASSUME calls'[r].at > 0, NEW m \in 1..(k - 1), Does(op, m, Changing)
      PROVE  calls'[r].changed \/ RowGone(r, m)'
  <2>1. CASE m < n
    <3>1. calls[r].changed \/ RowGone(r, m)
      BY <1>1, <1>4, <2>1 DEF Earned
    <3>2. CASE RowGone(r, m)
      BY <1>1, <1>3, <1>4, <2>1, <3>2, GoesGone
    <3> QED
      BY <1>2, <3>1, <3>2
  <2>2. CASE m = n
    <3> DEFINE row == Handler[op].steps[n].row
    <3>1. SUFFICES ASSUME ~calls'[r].changed PROVE RowGone(r, m)'
      BY <2>2
    <3>2. Misses(op, n, "unnoticed") /\ Of(r, row) \notin present'
      BY <1>4, <2>2, <3>1 DEF Goes
    <3>3. Of(r, row) \in Ever
      BY <1>1, <3>2, Table DEF RefersToSettled, Known
    <3>4. Of(r, row) \in deleted'
      BY <3>2, <3>3 DEF Evolves, Ever
    <3>5. k = n + 1
      <4>1. ~Does(op, n, {"requireUnlessOwn"})
        BY <3>2 DEF Misses, Does
      <4> QED
        BY <4>1 DEF Goes
    <3>6. (n + 1)..(k - 1) = {}
      BY <1>1, <3>5
    <3>7. /\ \A w : Of(r, w)' = Of(r, w)
          /\ calls'[r].op = op /\ calls'[r].at = k
      BY <1>3, <1>4, OfKept DEF SameCall
    <3> QED
      BY <2>2, <3>2, <3>4, <3>6, <3>7 DEF RowGone
  <2>3. CASE ~(m < n) /\ m # n
    BY <1>1, <1>4, <2>3, CallGoesOn DEF Does
  <2> QED
    BY <2>1, <2>2, <2>3
<1>5. ASSUME calls'[r].recorded
      PROVE  calls'[r].changed \/ (op = "delete_user" /\ Raced(r)')
  <2>1. CASE calls[r].recorded
    BY <1>2, <2>1, RacedKept DEF Earned, Evolves
  <2>2. CASE ~calls[r].recorded
    <3>1. Does(op, n, {"record"})
      BY <1>5, <2>2 DEF Goes
    <3>2. PICK m \in 1..(n - 1) : Leaves(op, m, n)
      BY <1>1, <3>1, Table DEF RecordsFollowChanges
    <3>3. CASE calls[r].changed
      BY <1>2, <3>3
    <3>4. CASE ~calls[r].changed
      <4>1. RowGone(r, m)
        BY <3>2, <3>4 DEF Earned, Leaves
      <4>2. op = "delete_user"
        BY <3>2, <4>1 DEF Leaves, RowGone
      <4>3. Of(r, Handler[op].steps[m].row) \in RowsTouched(r)
        <5>1. m \in DOMAIN Steps(calls[r]) /\ Steps(calls[r]) = Handler[op].steps
          BY <1>1, Lengths DEF Steps
        <5>2. Handler[op].steps[m].do \in {"change", "remove"}
          BY <4>1 DEF RowGone, Misses, Does
        <5> QED
          BY <5>1, <5>2 DEF RowsTouched
      <4>4. Raced(r)
        BY <4>1, <4>3 DEF Raced, RowGone
      <4> QED
        BY <4>2, <4>4, RacedKept DEF Evolves
    <3> QED
      BY <3>3, <3>4
  <2> QED
    BY <2>1, <2>2
<1>6. calls'[r].op = op
  BY DEF SameCall
<1> QED
  BY <1>3, <1>4, <1>5, <1>6 DEF Earned

LEMMA GoesFollowed ==
  ASSUME NEW r \in Request, Typed(r), Known(r), Followed(r), SameCall(r), Evolves, calls[r].at > 0,
         NEW k \in Nat, Goes(r, k)
  PROVE  Followed(r)'
<1> DEFINE op == calls[r].op
           n == calls[r].at
           c == calls[r]
<1> SUFFICES ASSUME calls'[r].changed
             PROVE  /\ calls'[r].at > 0 => \E m \in 1..(k - 1) : Does(op, m, Changing)
                    /\ calls'[r].at > 0 => calls'[r].at = k
                    /\ op \notin Unrecorded =>
                         calls'[r].recorded \/ Burnt(c)' \/ Raced(r)' \/ RecordAhead(r)'
  BY DEF Followed, SameCall
<1>1. /\ n \in Nat \ {0} /\ n \in Numbers(op) /\ op \in DOMAIN Handler /\ n < k /\ c.answer = Absent
      /\ Len(Handler[op].steps) \in Nat /\ op # Absent /\ Numbers(op) = 1..Len(Handler[op].steps)
  BY Started, CallGoesOn
<1>2. calls'[r].at > 0 => calls'[r].at = k
  BY <1>1 DEF Goes
<1>3. ~c.changed => Does(op, n, Changing)
  BY DEF Goes
<1>4. \E m \in 1..(k - 1) : Does(op, m, Changing)
  BY <1>1, <1>3 DEF Followed
<1>5. ASSUME op \notin Unrecorded
      PROVE  calls'[r].recorded \/ Burnt(c)' \/ Raced(r)' \/ RecordAhead(r)'
  <2>1. ASSUME NEW m \in Numbers(op), n < m, Does(op, m, {"record"}), k = n + 1
        PROVE  RecordAhead(r)'
    <3>1. k <= m /\ m <= Len(Handler[op].steps)
      BY <1>1, <2>1
    <3>2. k <= Len(Handler[op].steps)
      BY <1>1, <3>1, <2>1
    <3>3. calls'[r].at = k
      BY <3>2 DEF Goes
    <3> QED
      BY <1>1, <2>1, <3>1, <3>3 DEF RecordAhead, SameCall
  <2>2. CASE Does(op, n, Changing)
    <3>1. PICK m \in Numbers(op) : n < m /\ Does(op, m, {"record"})
      BY <1>1, <1>5, <2>2, Table DEF ChangesAreRecorded
    <3>2. k = n + 1
      BY <2>2 DEF Goes, Does, Changing
    <3> QED
      BY <2>1, <3>1, <3>2
  <2>3. CASE ~Does(op, n, Changing)
    <3>1. c.changed
      BY <1>3, <2>3
    <3>2. c.recorded \/ Burnt(c) \/ Raced(r) \/ RecordAhead(r)
      BY <1>1, <1>5, <3>1, NamesAssumption DEF Followed
    <3>3. c.recorded => calls'[r].recorded
      BY DEF Goes
    <3>4. CASE RecordAhead(r)
      <4>1. PICK m \in Numbers(op) : n <= m /\ Does(op, m, {"record"})
        BY <3>4 DEF RecordAhead
      <4>2. CASE m = n
        <5>1. calls'[r].recorded \/ AccountRow(ActorOf[r]) \notin present'
          BY <4>1, <4>2 DEF Goes
        <5>2. CASE AccountRow(ActorOf[r]) \notin present'
          <6>1. <<"user", 0>> \in Settled(op, n)
            BY <1>5 DEF Settled, Unrecorded
          <6>2. Of(r, <<"user", 0>>) \in Ever
            BY <6>1 DEF Known
          <6>3. Of(r, <<"user", 0>>) = AccountRow(ActorOf[r])
            BY DEF Of, RowOf, AccountRow
          <6>4. AccountRow(ActorOf[r]) \in deleted'
            BY <5>2, <6>2, <6>3 DEF Evolves, Ever
          <6>5. AccountRow(ActorOf[r]) \in RowsTouched(r)
            BY DEF RowsTouched
          <6>6. RowsTouched(r)' = RowsTouched(r)
            BY OfKept
          <6> QED
            BY <6>4, <6>5, <6>6 DEF Raced
        <5> QED
          BY <5>1, <5>2
      <4>3. CASE m # n
        <5>1. n < m
          BY <1>1, <4>1, <4>3
        <5>2. \E j \in 1..(n - 1) : Does(op, j, Changing)
          BY <1>1, <3>1 DEF Followed
        <5>3. Does(op, n, {"query", "join", "look"})
          BY <1>1, <1>5, <4>1, <5>1, <5>2, Table DEF ChangesAreRecorded
        <5>4. k = n + 1
          BY <5>3 DEF Goes, Does
        <5> QED
          BY <2>1, <4>1, <5>1, <5>4
      <4> QED
        BY <4>2, <4>3
    <3>5. Burnt(c) => Burnt(c)'
      BY OfKept
    <3>6. Raced(r) => Raced(r)'
      BY RacedKept DEF Evolves
    <3> QED
      BY <3>2, <3>3, <3>4, <3>5, <3>6
  <2> QED
    BY <2>2, <2>3
<1> QED
  BY <1>2, <1>4, <1>5

LEMMA Proceeds ==
  ASSUME NEW r \in Request, Stands(r), SameCall(r), Evolves, Rowed', calls[r].at > 0, Listed(r)',
         NEW k \in Nat, Goes(r, k)
  PROVE  Stands(r)'
<1> DEFINE op == calls[r].op
           n == calls[r].at
<1>1. /\ n \in Nat \ {0} /\ n \in Numbers(op) /\ op \in DOMAIN Handler /\ op # Absent
      /\ Len(Handler[op].steps) \in Nat /\ n < k /\ calls[r].answer = Absent
  BY Started, CallGoesOn DEF Stands
<1>2. (calls'[r].at = k /\ k <= Len(Handler[op].steps) /\ calls'[r].answer = Absent)
      \/ (calls'[r].at = 0 /\ calls'[r].answer = "done")
  BY <1>1 DEF Goes
<1>3. Typed(r)'
  <2>1. calls'[r].at \in 0..Len(Handler[op].steps)
    BY <1>1, <1>2
  <2>2. calls'[r].at > 0 <=> calls'[r].answer = Absent
    BY <1>1, <1>2, NamesAssumption
  <2> QED
    BY <1>1, <2>1, <2>2 DEF Stands, Typed, SameCall
<1>4. Known(r)'
  <2>1. \A row \in Settled(op, k) : Of(r, row) \in Ever'
    BY GoesKnown DEF Stands
  <2>2. \A row : Of(r, row)' = Of(r, row)
    BY OfKept
  <2> QED
    BY <1>2, <2>1, <2>2 DEF Known, SameCall
<1>5. Whole(r)'
  BY OfKept DEF Stands, Whole, SameCall, Evolves
<1>6. Asked(r)'
  BY GoesAsked DEF Stands
<1>7. Meant(r)'
  <2>1. ASSUME op \in RestReads PROVE ~calls'[r].changed /\ ~calls'[r].recorded
    <3>1. ~Does(op, n, Changing) /\ ~Does(op, n, {"record"})
      BY <1>1, <2>1, Table DEF Bounded, Does
    <3> QED
      BY <1>1, <2>1, <3>1 DEF Goes, Stands, Meant
  <2> QED
    BY <1>1, <2>1 DEF Stands, Meant, SameCall
<1>8. KeptOut(r)'
  BY GoesKeptOut DEF Stands
<1>9. Failed(r)'
  BY <1>2, NamesAssumption DEF Failed, AppError
<1>10. Followed(r)'
  BY GoesFollowed DEF Stands
<1>11. Earned(r)'
  BY GoesEarned DEF Stands
<1> QED
  BY <1>3, <1>4, <1>5, <1>6, <1>7, <1>8, <1>9, <1>10, <1>11 DEF Stands

-----------------------------------------------------------------------------
(* What is known where a call is.                                          *)

(* A row that was there and is not has been deleted under the call.        *)
LEMMA Lost ==
  ASSUME NEW r, Typed(r), calls[r].at > 0, NEW row, Of(r, row) \in Ever, Of(r, row) \notin present,
         \/ /\ Does(calls[r].op, calls[r].at, {"look", "insert", "change", "remove"})
            /\ row = Now(r).row
         \/ row \in Refs(calls[r].op, calls[r].at)
  PROVE  Raced(r)
<1>1. calls[r].at \in DOMAIN Steps(calls[r]) /\ Steps(calls[r]) = Handler[calls[r].op].steps
  BY Started DEF Steps
<1>2. Of(r, row) \in RowsTouched(r)
  <2> DEFINE step == Handler[calls[r].op].steps[calls[r].at]
             rows(s) == (IF s.do \in {"look", "insert", "change", "remove"} THEN {s.row} ELSE {})
                        \cup (IF s.do \in {"insert", "join", "change"} THEN s.refs ELSE {})
             all == UNION {rows(Steps(calls[r])[n]) : n \in DOMAIN Steps(calls[r])}
  <2>1. row \in rows(step)
    BY <1>1 DEF Does, Now, Refs
  <2>2. step = Steps(calls[r])[calls[r].at]
    BY <1>1
  <2>3. row \in all
    BY <1>1, <2>1, <2>2
  <2>4. {Of(r, w) : w \in all} \subseteq RowsTouched(r)
    BY Zenon DEF RowsTouched
  <2> QED
    BY <2>3, <2>4
<1>3. Of(r, row) \in deleted
  BY DEF Ever
<1> QED
  BY <1>2, <1>3 DEF Raced

(* What a statement refers to is lost only in a race.                      *)
LEMMA RefsLost ==
  ASSUME NEW r, Typed(r), Known(r), calls[r].at > 0,
         NEW refs, refs = Refs(calls[r].op, calls[r].at), ~RefsStand(r, refs)
  PROVE  Raced(r)
<1>1. PICK row \in refs : Of(r, row) \notin present
  BY DEF RefsStand
<1>2. row \in Settled(calls[r].op, calls[r].at)
  BY <1>1, Started, Table DEF RefersToSettled
<1> QED
  BY <1>1, <1>2, Lost DEF Known

(* Past its record, or before anything has been changed.                   *)
LEMMA Late ==
  ASSUME NEW r, Stands(r), calls[r].at > 0, calls[r].changed, calls[r].op \notin Unrecorded,
         ~Does(calls[r].op, calls[r].at, {"query", "join", "look", "record"})
  PROVE  calls[r].recorded \/ Burnt(calls[r]) \/ Raced(r)
<1> DEFINE op == calls[r].op
           n == calls[r].at
<1>1. /\ n \in Nat \ {0} /\ n \in Numbers(op) /\ op \in DOMAIN Handler /\ op # Absent
      /\ calls[r].answer = Absent /\ Numbers(op) \subseteq Nat
  BY Started DEF Stands
<1>2. (\E m \in 1..(n - 1) : Does(op, m, Changing)) /\
      (calls[r].recorded \/ Burnt(calls[r]) \/ Raced(r) \/ RecordAhead(r))
  BY <1>1, NamesAssumption DEF Stands, Followed
<1>3. SUFFICES ASSUME NEW m \in Numbers(op), n <= m, Does(op, m, {"record"})
               PROVE  FALSE
  BY <1>2 DEF RecordAhead
<1>4. m # n
  BY <1>3 DEF Does
<1>5. n < m
  BY <1>1, <1>3, <1>4
<1>6. Does(op, n, {"query", "join", "look"})
  BY <1>1, <1>2, <1>3, <1>5, Table DEF ChangesAreRecorded
<1> QED
  BY <1>6 DEF Does

(* A call that names a row of another realm is still to find out.          *)
LEMMA Abroad ==
  ASSUME NEW r, Stands(r), calls[r].at > 0, NEW i \in DOMAIN calls[r].targets, Foreign(r, i)
  PROVE  /\ ~calls[r].changed /\ ~calls[r].recorded
         /\ \/ Does(calls[r].op, calls[r].at,
                    {"require", "requireUnlessOwn", "validate", "query", "otherThanActor", "look"})
            \/ Wards(calls[r].op, i, calls[r].at) /\ Does(calls[r].op, calls[r].at, {"change", "remove"})
<1> DEFINE op == calls[r].op
           n == calls[r].at
<1>1. n \in Nat \ {0} /\ op # Absent /\ n \in Numbers(op) /\ op \in DOMAIN Handler /\ Numbers(op) \subseteq Nat
  BY Started DEF Stands
<1>2. i \in DOMAIN Handler[op].names
  BY <1>1 DEF Stands, Typed
<1>3. <<Handler[op].names[i], i>> \notin Inserted(op)
  BY <1>1, <1>2 DEF Stands, Typed, Foreign
<1>4. PICK w \in Numbers(op) : Ward(op, i, w)
  BY <1>1, <1>2, <1>3, Table DEF KeepsOut, Foreign, Ward
<1>5. n <= w /\ ~calls[r].changed /\ ~calls[r].recorded
  BY <1>1, <1>4 DEF Stands, KeptOut
<1>6. CASE n < w
  <2>1. n \in 1..(w - 1)
    BY <1>1, <1>4, <1>6
  <2> QED
    BY <1>4, <1>5, <2>1 DEF Ward, Wards, WardsInvitation, Does
<1>7. CASE n = w
  BY <1>4, <1>5, <1>7 DEF Ward, Wards, WardsInvitation, Does
<1> QED
  BY <1>1, <1>5, <1>6, <1>7

(* Nothing is found missing by who lacks a permission.                     *)
LEMMA NotLacking ==
  ASSUME NEW r, Stands(r), calls[r].at > 0, calls[r].lacks,
         Does(calls[r].op, calls[r].at, {"look", "each"}) \/ Misses(calls[r].op, calls[r].at, "notFound")
  PROVE  calls[r].op \in DOMAIN Open \/ calls[r].op = "revoke_api_token"
<1> DEFINE op == calls[r].op
           n == calls[r].at
<1>1. n \in Nat \ {0} /\ op # Absent /\ n \in Numbers(op) /\ op \in DOMAIN Handler /\ Numbers(op) \subseteq Nat
  BY Started DEF Stands
<1>2. SUFFICES ASSUME op \notin DOMAIN Open, op # "revoke_api_token" PROVE FALSE
  OBVIOUS
<1>3. Handler[op].needs # {}
  BY <1>1 DEF Stands, Asked
<1>4. PICK m \in 1..(n - 1) : \/ Does(op, m, {"require"})
                              \/ Does(op, m, {"requireUnlessOwn"}) /\ n <= m + Handler[op].steps[m].own
  BY <1>1, <1>2, <1>3, Table DEF Asks
<1>5. /\ ~Does(op, m, {"require"})
      /\ Does(op, m, {"requireUnlessOwn"}) => m + Handler[op].steps[m].own < n
  BY <1>1 DEF Stands, Asked
<1>6. m \in Numbers(op)
  BY <1>1, Lengths
<1>7. Does(op, m, {"requireUnlessOwn"}) => Handler[op].steps[m].own \in Nat
  BY <1>1, <1>6, Table DEF Formed, Does
<1> QED
  BY <1>1, <1>4, <1>5, <1>7

-----------------------------------------------------------------------------
(* One step.                                                               *)

LEMMA CallsTyped ==
  ASSUME AdministrationInv, NEW r \in Request, NEW d \in Call, Becomes(r, d)
  PROVE  calls' \in [Request -> Call]
  BY DEF AdministrationInv, Rowed, Becomes

LEMMA Quiet ==
  ASSUME AdministrationInv, UNCHANGED <<present, events, purged, deleted>>, calls' \in [Request -> Call]
  PROVE  Rowed' /\ Evolves /\ Ever' = Ever
  BY DEF AdministrationInv, Rowed, Evolves, Ever

(* A call is answered.                                                     *)
LEMMA Replied ==
  ASSUME AdministrationInv, NEW r \in Request, NEW a \in Replies, calls[r].op # Absent, Reason(r, a),
         Becomes(r, Reply(calls[r], a)), UNCHANGED <<present, events, purged, deleted>>
  PROVE  AdministrationInv'
<1>1. calls[r] \in Call /\ Stands(r)
  BY DEF AdministrationInv, Rowed
<1> DEFINE d == Reply(calls[r], a)
<1>2. /\ d \in Call /\ d.at = 0 /\ d.answer = a /\ d.agenda = <<>>
      /\ d.op = calls[r].op /\ d.targets = calls[r].targets /\ d.lacks = calls[r].lacks
      /\ d.meant = calls[r].meant /\ d.whole = calls[r].whole
      /\ d.changed = calls[r].changed /\ d.recorded = calls[r].recorded
  BY <1>1, ReplyIs
<1> HIDE DEF d
<1>3. Becomes(r, d)
  BY DEF d
<1>4. calls'[r] = d /\ \A q \in Request \ {r} : Alike(q)
  BY <1>2, <1>3, CallsAre
<1>5. Rowed' /\ Evolves /\ Ever' = Ever
  BY <1>2, <1>3, CallsTyped, Quiet
<1>6. SameCall(r)
  BY <1>2, <1>4 DEF SameCall
<1>7. Stands(r)'
  BY <1>1, <1>2, <1>4, <1>5, <1>6, Ended
<1>8. Fresh'
  BY <1>2, <1>4, <1>5, <1>6, StaysFresh
<1> QED
  BY <1>4, <1>5, <1>7, <1>8, OthersStand

(* It comes to another statement.                                          *)
LEMMA Advances ==
  ASSUME AdministrationInv, NEW r \in Request, calls[r].at > 0, SameCall(r), Evolves, Rowed',
         \A q \in Request \ {r} : Alike(q), Listed(r)', NEW k \in Nat, Goes(r, k),
         \A t \in Ever' \ Ever : /\ Does(calls[r].op, calls[r].at, {"insert"})
                                 /\ t = Of(r, Handler[calls[r].op].steps[calls[r].at].row)
  PROVE  AdministrationInv'
<1>1. Stands(r)
  BY DEF AdministrationInv
<1>2. Stands(r)'
  BY <1>1, Proceeds
<1>3. /\ calls[r].at \in Nat /\ calls[r].at < k /\ Len(Handler[calls[r].op].steps) \in Nat
      /\ calls'[r].at = 0 \/ calls'[r].at = k
  <2>1. Typed(r)
    BY <1>1 DEF Stands
  <2>2. calls[r].at \in Nat /\ calls[r].at < k /\ Len(Handler[calls[r].op].steps) \in Nat
    BY <2>1, CallGoesOn, Started
  <2> QED
    BY <2>2 DEF Goes
<1>4. Fresh'
  BY <1>3, StaysFresh
<1> QED
  BY <1>2, <1>4, OthersStand

(* Where a call comes to by Onward.                                        *)
LEMMA Onwards ==
  ASSUME NEW r, Typed(r), calls[r].at > 0
  PROVE  LET c == calls[r]  k == c.at + 1
         IN /\ k \in Nat /\ c \in Call /\ c.op # Absent /\ c.at \in 1..Len(Steps(c))
            /\ k > Len(Handler[c.op].steps) =>
                 Onward(c).at = 0 /\ Onward(c).answer = "done" /\ Onward(c).agenda = <<>>
            /\ k <= Len(Handler[c.op].steps) =>
                 Onward(c).at = k /\ Onward(c).answer = Absent /\ Onward(c).agenda = c.agenda
<1> DEFINE c == calls[r]
           len == Len(Handler[c.op].steps)
<1>1. /\ c \in Call /\ c.op # Absent /\ c.answer = Absent /\ c.at \in Nat \ {0} /\ c.at <= len /\ len \in Nat
  BY Started
<1>2. c.at \in 1..Len(Steps(c)) /\ Len(Steps(c)) = len
  BY <1>1 DEF Steps
<1>3. /\ c.at = len => Onward(c).at = 0 /\ Onward(c).answer = "done" /\ Onward(c).agenda = <<>>
      /\ c.at # len => Onward(c).at = c.at + 1 /\ Onward(c).answer = c.answer /\ Onward(c).agenda = c.agenda
  BY <1>1, <1>2, OnwardIs
<1> HIDE DEF len, c
<1>4. /\ c.at + 1 > len => c.at = len
      /\ c.at + 1 <= len => c.at # len
  BY <1>1
<1> QED
  BY <1>1, <1>2, <1>3, <1>4 DEF len, c

(* A statement that writes nothing is passed.                              *)
LEMMA Passes ==
  ASSUME AdministrationInv, NEW r \in Request, calls[r].at > 0,
         UNCHANGED <<present, events, purged, deleted>>,
         ~Does(calls[r].op, calls[r].at, Changing \cup {"record"}),
         NEW d \in Call, Becomes(r, d), LET o == Onward(calls[r]) IN
           /\ d.at = o.at /\ d.answer = o.answer /\ d.op = o.op /\ d.targets = o.targets
           /\ d.lacks = o.lacks /\ d.meant = o.meant /\ d.whole = o.whole
           /\ d.changed = o.changed /\ d.recorded = o.recorded,
         \A j \in DOMAIN d.agenda : d.agenda[j][1] = "row" =>
           d.agenda[j][2] \in Ever /\ d.agenda[j][2].kind \in {"user", "organization"},
         calls[r].lacks => ~Does(calls[r].op, calls[r].at, {"require", "requireUnlessOwn"}),
         Does(calls[r].op, calls[r].at, {"look"}) =>
           /\ Of(r, Now(r).row) \in present
           /\ \A i \in DOMAIN calls[r].targets : Foreign(r, i) => ~Ward(calls[r].op, i, calls[r].at)
  PROVE  AdministrationInv'
<1> DEFINE c == calls[r]
           n == c.at
           o == Onward(c)
<1>1. Stands(r) /\ Typed(r)
  BY DEF AdministrationInv, Stands
<1>2. /\ n + 1 \in Nat /\ c \in Call /\ c.op # Absent /\ n \in 1..Len(Steps(c))
      /\ n + 1 > Len(Handler[c.op].steps) => o.at = 0 /\ o.answer = "done"
      /\ n + 1 <= Len(Handler[c.op].steps) => o.at = n + 1 /\ o.answer = Absent
  BY <1>1, Onwards
<1>3. /\ o.op = c.op /\ o.targets = c.targets /\ o.lacks = c.lacks /\ o.meant = c.meant
      /\ o.whole = c.whole /\ o.changed = c.changed /\ o.recorded = c.recorded
  BY <1>2, OnwardIs
<1>4. calls'[r] = d /\ \A q \in Request \ {r} : Alike(q)
  BY CallsAre
<1>5. Rowed' /\ Evolves /\ Ever' = Ever
  BY CallsTyped, Quiet
<1>6. SameCall(r)
  BY <1>3, <1>4 DEF SameCall
<1>7. Listed(r)'
  BY <1>4, <1>5 DEF Listed
<1>8. Goes(r, n + 1)
  <2>1. ~Does(c.op, n, Changing) /\ ~Does(c.op, n, {"record"}) /\
        ~Does(c.op, n, {"insert", "change", "remove"})
    BY DEF Does, Changing
  <2>2. Settles(c.op, n) => Of(r, Now(r).row) \in Ever' /\ Now(r).row = Handler[c.op].steps[n].row
    BY <1>5, <2>1 DEF Settles, Does, Now, Steps, Ever
  <2>3. \A i \in DOMAIN c.targets : Foreign(r, i) => ~Ward(c.op, i, n)
    BY <2>1 DEF Ward, Wards, WardsInvitation, Does
  <2>4. c.lacks => ~Does(c.op, n, {"require"}) /\ ~Does(c.op, n, {"requireUnlessOwn"})
    BY DEF Does
  <2>5. Does(c.op, n, {"look"}) => Of(r, Handler[c.op].steps[n].row) \in present
    BY DEF Now, Steps
  <2>6. /\ n + 1 > Len(Handler[c.op].steps) => calls'[r].at = 0 /\ calls'[r].answer = "done"
        /\ n + 1 <= Len(Handler[c.op].steps) => calls'[r].at = n + 1 /\ calls'[r].answer = Absent
        /\ calls'[r].changed = c.changed /\ calls'[r].recorded = c.recorded
    BY <1>2, <1>3, <1>4
  <2> QED
    BY <2>1, <2>2, <2>3, <2>4, <2>5, <2>6 DEF Goes
<1> QED
  BY <1>2, <1>4, <1>5, <1>6, <1>7, <1>8, Advances

LEMMA PassesOn ==
  ASSUME AdministrationInv, NEW r \in Request, calls[r].at > 0,
         UNCHANGED <<present, events, purged, deleted>>,
         ~Does(calls[r].op, calls[r].at, Changing \cup {"record"}),
         Becomes(r, Onward(calls[r])),
         calls[r].lacks => ~Does(calls[r].op, calls[r].at, {"require", "requireUnlessOwn"}),
         Does(calls[r].op, calls[r].at, {"look"}) =>
           /\ Of(r, Now(r).row) \in present
           /\ \A i \in DOMAIN calls[r].targets : Foreign(r, i) => ~Ward(calls[r].op, i, calls[r].at)
  PROVE  AdministrationInv'
<1> DEFINE o == Onward(calls[r])
<1>1. Typed(r) /\ Listed(r)
  BY DEF AdministrationInv, Stands
<1>2. calls[r] \in Call /\ calls[r].op # Absent /\ calls[r].at \in 1..Len(Steps(calls[r]))
  BY <1>1, Onwards
<1>3. o \in Call /\ o.agenda \in {<<>>, calls[r].agenda}
  BY <1>2, OnwardIs
<1>4. \A j \in DOMAIN o.agenda : o.agenda[j][1] = "row" =>
        o.agenda[j][2] \in Ever /\ o.agenda[j][2].kind \in {"user", "organization"}
  BY <1>1, <1>3 DEF Listed
<1> QED
  BY <1>3, <1>4, Passes

LEMMA Halts ==
  ASSUME NEW r, Stands(r), calls[r].at > 0, NEW a \in {"forbidden", "refused"},
         ~Does(calls[r].op, calls[r].at, {"query", "join", "look", "record"})
  PROVE  Reason(r, a)
  BY Late DEF Reason

LEMMA Tested ==
  ASSUME NEW r,
         \/ AtStatement(r, "require") \/ AtStatement(r, "requireUnlessOwn")
         \/ AtStatement(r, "validate") \/ AtStatement(r, "otherThanActor")
         \/ AtStatement(r, "query") \/ AtStatement(r, "each") \/ AtStatement(r, "gather")
         \/ AtStatement(r, "count") \/ AtStatement(r, "page")
  PROVE  /\ calls[r].at > 0 /\ ~Does(calls[r].op, calls[r].at, Changing \cup {"record"})
         /\ ~Does(calls[r].op, calls[r].at, {"look"})
  BY DEF AtStatement, Does, Now, Steps, Changing

LEMMA Refuses ==
  ASSUME AdministrationInv, NEW r \in Request, NEW a \in {"forbidden", "refused"},
         Becomes(r, Reply(calls[r], a)),
         \/ AtStatement(r, "require") \/ AtStatement(r, "requireUnlessOwn") \/ AtStatement(r, "validate")
         \/ AtStatement(r, "otherThanActor") \/ AtStatement(r, "change") \/ AtStatement(r, "remove"),
         UNCHANGED <<present, events, purged, deleted>>
  PROVE  AdministrationInv'
<1>1. Stands(r) /\ Typed(r)
  BY DEF AdministrationInv, Stands
<1>2. calls[r].at > 0 /\ ~Does(calls[r].op, calls[r].at, {"query", "join", "look", "record"})
  BY DEF AtStatement, Does, Now, Steps
<1>3. Reason(r, a)
  BY <1>1, <1>2, Halts
<1>4. a \in Replies /\ calls[r].op # Absent
  BY <1>1, <1>2, Started DEF Replies, AppError
<1> QED
  BY <1>3, <1>4, Replied

LEMMA OnDemand == ASSUME AdministrationInv, NEW r \in Request, Demand(r) PROVE AdministrationInv'
<1>1. Stands(r) /\ Typed(r)
  BY DEF AdministrationInv, Stands
<1>2. calls[r].op # Absent /\ AtStatement(r, "require")
  BY <1>1, Started, Tested DEF Demand
<1>3. CASE calls[r].lacks
  BY <1>2, <1>3, Refuses DEF Demand
<1>4. CASE ~calls[r].lacks
  BY <1>2, <1>4, Tested, PassesOn DEF Demand
<1> QED
  BY <1>3, <1>4

LEMMA OnDemandUnlessOwn ==
  ASSUME AdministrationInv, NEW r \in Request, DemandUnlessOwn(r)
  PROVE  AdministrationInv'
<1> DEFINE c == calls[r]
           n == c.at
           own == Now(r).own
           c2 == [c EXCEPT !.at = n + own]
           o == Onward(c2)
<1>1. Stands(r) /\ Typed(r) /\ Listed(r)
  BY DEF AdministrationInv, Stands
<1>2. AtStatement(r, "requireUnlessOwn") /\ c.at > 0
  BY DEF DemandUnlessOwn, AtStatement
<1>3. /\ c \in Call /\ c.op \in DOMAIN Handler /\ c.op # Absent /\ c.answer = Absent
      /\ n \in Nat \ {0} /\ n <= Len(Handler[c.op].steps) /\ Len(Handler[c.op].steps) \in Nat
      /\ n \in Numbers(c.op)
  BY <1>1, <1>2, Started
<1>4. CASE ~ActsOnItself(r) /\ c.lacks
  BY <1>2, <1>4, Refuses DEF DemandUnlessOwn
<1>5. CASE ~ActsOnItself(r) /\ ~c.lacks
  BY <1>2, <1>5, Tested, PassesOn DEF DemandUnlessOwn
<1>6. CASE ActsOnItself(r)
  <2>1. Does(c.op, n, {"requireUnlessOwn"}) /\ own = Handler[c.op].steps[n].own
    BY <1>2 DEF AtStatement, Does, Now, Steps
  <2>2. own \in Nat /\ n + own <= Len(Handler[c.op].steps)
    BY <1>3, <2>1, Table DEF Formed, Does
  <2> HIDE DEF own
  <2>3. c2 \in Call
    <3>1. n + own \in Nat
      BY <1>3, <2>2
    <3>2. \A k \in Nat : [c EXCEPT !.at = k] \in Call
      BY <1>3 DEF Call
    <3> QED
      BY <3>1, <3>2
  <2>4. /\ c2.at = n + own /\ c2.op = c.op /\ c2.targets = c.targets /\ c2.lacks = c.lacks
        /\ c2.meant = c.meant /\ c2.whole = c.whole /\ c2.changed = c.changed
        /\ c2.recorded = c.recorded /\ c2.answer = Absent /\ c2.agenda = c.agenda
    BY <1>3 DEF Call
  <2> HIDE DEF c2
  <2>5. c2.at \in 1..Len(Steps(c2)) /\ Len(Steps(c2)) = Len(Handler[c.op].steps) /\ c2.op # Absent
    BY <1>3, <2>2, <2>4 DEF Steps
  <2>6. /\ o \in Call
        /\ c2.at = Len(Steps(c2)) => o.at = 0 /\ o.answer = "done" /\ o.agenda = <<>>
        /\ c2.at # Len(Steps(c2)) => o.at = c2.at + 1 /\ o.answer = c2.answer /\ o.agenda = c2.agenda
        /\ o.op = c2.op /\ o.targets = c2.targets /\ o.lacks = c2.lacks /\ o.meant = c2.meant
        /\ o.whole = c2.whole /\ o.changed = c2.changed /\ o.recorded = c2.recorded
    BY <2>3, <2>5, OnwardIs
  <2> HIDE DEF o
  <2>7. Becomes(r, o) /\ UNCHANGED <<present, events, purged, deleted>>
    BY <1>6 DEF DemandUnlessOwn, o, c2, own
  <2>8. calls'[r] = o /\ \A q \in Request \ {r} : Alike(q)
    BY <2>6, <2>7, CallsAre
  <2>9. Rowed' /\ Evolves /\ Ever' = Ever
    BY <2>6, <2>7, CallsTyped, Quiet
  <2>10. SameCall(r)
    BY <2>4, <2>6, <2>8 DEF SameCall
  <2>11. Listed(r)'
    BY <1>1, <2>4, <2>6, <2>8, <2>9 DEF Listed
  <2>12. /\ n + own + 1 > Len(Handler[c.op].steps) => o.at = 0 /\ o.answer = "done"
         /\ n + own + 1 <= Len(Handler[c.op].steps) => o.at = n + own + 1 /\ o.answer = Absent
    <3>1. /\ n + own + 1 > Len(Handler[c.op].steps) => n + own = Len(Handler[c.op].steps)
          /\ n + own + 1 <= Len(Handler[c.op].steps) => n + own # Len(Handler[c.op].steps)
      BY <1>3, <2>2
    <3> QED
      BY <2>4, <2>5, <2>6, <3>1
  <2>13. Goes(r, n + own + 1)
    <3>1. ~Does(c.op, n, Changing) /\ ~Does(c.op, n, {"record"}) /\ ~Does(c.op, n, {"require"})
          /\ ~Settles(c.op, n) /\ ~Does(c.op, n, {"look"})
          /\ \A i : ~Ward(c.op, i, n)
      BY <2>1 DEF Does, Changing, Settles, Ward, Wards, WardsInvitation
    <3> QED
      BY <1>6, <2>1, <2>4, <2>6, <2>8, <2>12, <3>1 DEF Goes
  <2>14. n + own + 1 \in Nat
    BY <1>3, <2>2
  <2> QED
    BY <1>2, <2>8, <2>9, <2>10, <2>11, <2>13, <2>14, Advances
<1> QED
  BY <1>4, <1>5, <1>6

LEMMA OnCheck == ASSUME AdministrationInv, NEW r \in Request, Check(r) PROVE AdministrationInv'
<1>1. Stands(r) /\ Typed(r) /\ AtStatement(r, "validate")
  BY DEF AdministrationInv, Stands, Check
<1>2. /\ calls[r].op # Absent /\ calls[r].op \in DOMAIN Handler /\ calls[r].at > 0
      /\ calls[r].at \in Numbers(calls[r].op)
  BY <1>1, Started, Tested
<1>3. CASE Becomes(r, Onward(calls[r]))
  <2>1. ~Does(calls[r].op, calls[r].at, {"require", "requireUnlessOwn"})
    BY <1>1 DEF AtStatement, Does, Now, Steps
  <2> QED
    BY <1>1, <1>2, <1>3, <2>1, Tested, PassesOn DEF Check
<1>4. CASE Becomes(r, Reply(calls[r], Now(r).otherwise))
  <2>1. Now(r).do = "validate" /\ Now(r) = Handler[calls[r].op].steps[calls[r].at]
    BY <1>1 DEF AtStatement, Now, Steps
  <2>2. /\ Now(r).otherwise \in {"refused", "notFound"}
        /\ Now(r).otherwise = "notFound" => calls[r].op = "peek_invitation" /\ calls[r].op \in DOMAIN Open
    BY <1>2, <2>1, Table DEF Formed
  <2>3. CASE Now(r).otherwise = "refused"
    BY <1>1, <1>4, <2>3, Refuses DEF Check
  <2>4. CASE Now(r).otherwise = "notFound"
    <3>1. ~Does(calls[r].op, calls[r].at, {"query", "join", "look", "record"})
      BY <2>1 DEF Does
    <3>2. Reason(r, "notFound")
      BY <1>1, <1>2, <2>2, <2>4, <3>1, Late DEF Reason
    <3> QED
      BY <1>1, <1>2, <1>4, <2>4, <3>2, Replied DEF Check, Replies, AppError
  <2> QED
    BY <2>2, <2>3, <2>4
<1> QED
  BY <1>3, <1>4 DEF Check

LEMMA OnSpareActor == ASSUME AdministrationInv, NEW r \in Request, SpareActor(r) PROVE AdministrationInv'
<1>1. Stands(r) /\ Typed(r) /\ AtStatement(r, "otherThanActor")
  BY DEF AdministrationInv, Stands, SpareActor
<1>2. calls[r].op # Absent /\ calls[r].at > 0
  BY <1>1, Started, Tested
<1>3. CASE ActsOnItself(r)
  BY <1>1, <1>3, Refuses DEF SpareActor
<1>4. CASE ~ActsOnItself(r)
  <2>1. ~Does(calls[r].op, calls[r].at, {"require", "requireUnlessOwn"})
    BY <1>1 DEF AtStatement, Does, Now, Steps
  <2> QED
    BY <1>1, <1>2, <1>4, <2>1, Tested, PassesOn DEF SpareActor
<1> QED
  BY <1>3, <1>4

LEMMA OnRead == ASSUME AdministrationInv, NEW r \in Request, Read(r) PROVE AdministrationInv'
<1>1. AtStatement(r, "query")
  BY DEF Read
<1>2. ~Does(calls[r].op, calls[r].at, {"require", "requireUnlessOwn"})
  BY <1>1 DEF AtStatement, Does, Now, Steps
<1> QED
  BY <1>1, <1>2, Tested, PassesOn DEF Read

LEMMA OnAbort == ASSUME AdministrationInv, NEW r \in Request, AbortCall(r) PROVE AdministrationInv'
<1>1. Typed(r) /\ calls[r].at > 0
  BY DEF AdministrationInv, Stands, AbortCall
<1>2. Reason(r, "aborted")
  BY DEF Reason
<1> QED
  BY <1>1, <1>2, Started, Replied DEF AbortCall, Replies

-----------------------------------------------------------------------------
(* Lists.                                                                  *)

LEMMA InOrder ==
  ASSUME NEW S, IsFiniteSet(S)
  PROVE  /\ SetToSeq(S) \in Seq(S) /\ Len(SetToSeq(S)) \in Nat
         /\ DOMAIN SetToSeq(S) = 1..Len(SetToSeq(S))
         /\ \A n \in 1..Len(SetToSeq(S)) : SetToSeq(S)[n] \in S
<1>1. Cardinality(S) \in Nat /\ ExistsBijection(1..Cardinality(S), S)
  BY FS_CardinalityType
<1>2. PICK f \in [1..Cardinality(S) -> S] : IsInjective(f)
  BY <1>1 DEF ExistsBijection, Bijection, Injection
<1>3. SetToSeq(S) \in [1..Cardinality(S) -> S]
  BY <1>2 DEF SetToSeq
<1> QED
  BY <1>1, <1>3

LEMMA OfAKind ==
  ASSUME NEW k, NEW S \in SUBSET Thing, \A t \in S : t.kind = k
  PROVE  IsFiniteSet(S)
<1> DEFINE ids == Account \cup RowId \cup {Elsewhere}
           f == [t \in S |-> t.id]
<1>1. \A t \in S : t = [kind |-> k, id |-> t.id] /\ t.id \in ids
  BY DEF Thing, Ids
<1>2. f \in Injection(S, ids)
  BY <1>1 DEF Injection, IsInjective
<1>3. IsFiniteSet(Account \cup RowId)
  BY TableAssumption, FS_Union
<1>4. IsFiniteSet(ids)
  BY <1>3, FS_AddElement
<1> QED
  BY <1>2, <1>4, FS_Injection

LEMMA OnList == ASSUME AdministrationInv, NEW r \in Request, List(r) PROVE AdministrationInv'
<1> DEFINE c == calls[r]
           o == Onward(c)
           found == {t \in present : t.kind = "organization" /\ SameRealm(t)}
           organizations == SetToSeq(found)
           listed(n) == <<IF n % 3 = 2 THEN "members" ELSE "row", organizations[(n + 2) \div 3]>>
           all == [n \in 1..(3 * Len(organizations)) |-> listed(n)]
           one == <<<<"members", Of(r, <<Handler[c.op].names[1], 1>>)>>>>
           Item == {"row", "members"} \X Thing
<1>1. Typed(r) /\ AtStatement(r, "gather") /\ present \subseteq Thing
  BY DEF AdministrationInv, Rowed, Stands, List
<1>2. c.at > 0 /\ ~Does(c.op, c.at, Changing \cup {"record"}) /\ ~Does(c.op, c.at, {"look"})
  BY <1>1, Tested
<1>3. ~Does(c.op, c.at, {"require", "requireUnlessOwn"})
  BY <1>1 DEF AtStatement, Does, Now, Steps
<1>4. /\ c \in Call /\ c.op # Absent /\ c.at \in 1..Len(Steps(c)) /\ c.op \in DOMAIN Handler
      /\ c.at \in Numbers(c.op)
  BY <1>1, <1>2, Onwards, Started
<1>5. o \in Call
  BY <1>4, OnwardIs
<1>6. ASSUME NEW agenda \in Seq(Item),
             \A j \in DOMAIN agenda : agenda[j][1] = "row" =>
               agenda[j][2] \in Ever /\ agenda[j][2].kind \in {"user", "organization"},
             Becomes(r, [o EXCEPT !.agenda = agenda])
      PROVE  AdministrationInv'
  <2> DEFINE d == [o EXCEPT !.agenda = agenda]
  <2>1. /\ d \in Call /\ d.agenda = agenda
        /\ d.at = o.at /\ d.answer = o.answer /\ d.op = o.op /\ d.targets = o.targets
        /\ d.lacks = o.lacks /\ d.meant = o.meant /\ d.whole = o.whole
        /\ d.changed = o.changed /\ d.recorded = o.recorded
    BY <1>5 DEF Call
  <2>2. Becomes(r, d) /\ UNCHANGED <<present, events, purged, deleted>>
    BY <1>6 DEF List
  <2> HIDE DEF d, o
  <2>3. \A j \in DOMAIN d.agenda : d.agenda[j][1] = "row" =>
          d.agenda[j][2] \in Ever /\ d.agenda[j][2].kind \in {"user", "organization"}
    BY <1>6, <2>1
  <2> QED
    BY <1>2, <1>3, <2>1, <2>2, <2>3, Passes DEF o
<1>7. CASE Now(r).what = "members"
  <2> DEFINE row == <<Handler[c.op].names[1], 1>>
  <2>1. row \in Settled(c.op, c.at)
    BY <1>1, <1>4, <1>7, Table DEF RefersToSettled, AtStatement, Does, Now, Steps
  <2>2. Of(r, row) \in Ever
    BY <1>1, <1>2, <2>1 DEF AdministrationInv, Stands, Known
  <2>3. Of(r, row) \in Thing
    BY <2>2 DEF AdministrationInv, Rowed, Ever
  <2>4. one \in Seq(Item) /\ DOMAIN one = {1} /\ one[1][1] = "members"
    BY <2>3
  <2>5. Becomes(r, [o EXCEPT !.agenda = one])
    BY <1>7 DEF List
  <2> HIDE DEF one, row
  <2> QED
    BY <1>6, <2>4, <2>5
<1>8. CASE Now(r).what # "members"
  <2>1. IsFiniteSet(found) /\ found \subseteq Thing
    BY <1>1, OfAKind
  <2>2. /\ Len(organizations) \in Nat /\ \A n \in 1..Len(organizations) : organizations[n] \in found
    BY <2>1, InOrder
  <2> HIDE DEF organizations
  <2>3. ASSUME NEW n \in 1..(3 * Len(organizations))
        PROVE  listed(n) \in Item /\ listed(n)[2] \in found
    <3>1. (n + 2) \div 3 \in 1..Len(organizations)
      BY <2>2
    <3> QED
      BY <2>1, <2>2, <3>1
  <2>4. all \in Seq(Item) /\ DOMAIN all = 1..(3 * Len(organizations))
    BY <2>2, <2>3
  <2>5. \A j \in DOMAIN all : all[j][2] \in found
    BY <2>3
  <2>6. Becomes(r, [o EXCEPT !.agenda = all])
    BY <1>8 DEF List, organizations
  <2> HIDE DEF all, o
  <2> QED
    BY <1>6, <2>4, <2>5, <2>6 DEF Ever
<1> QED
  BY <1>7, <1>8

(* A row that is not found where all were to begin with.                   *)
LEMMA Unfound ==
  ASSUME NEW r, Stands(r), calls[r].at > 0, calls[r].whole,
         Does(calls[r].op, calls[r].at, {"look", "change", "remove"}),
         LET t == Of(r, Now(r).row) IN ~IsFound(calls[r], t) \/ ~SameRealm(t)
  PROVE  Raced(r)
<1> DEFINE op == calls[r].op
           row == Now(r).row
<1>1. /\ op # Absent /\ calls[r].at \in Numbers(op) /\ Typed(r)
      /\ Now(r) = Handler[op].steps[calls[r].at]
  BY Started DEF Stands, Now, Steps
<1>2. row \in Sought(op)
  BY <1>1 DEF Sought, RowsOf
<1>3. Of(r, row) \in Ever /\ Reaches(calls[r], Of(r, row)) /\ SameRealm(Of(r, row))
  BY <1>1, <1>2 DEF Stands, Whole
<1>4. Of(r, row) \notin present
  BY <1>3 DEF IsFound
<1>5. Does(op, calls[r].at, {"look", "insert", "change", "remove"})
  BY DEF Does
<1> QED
  BY <1>1, <1>3, <1>4, <1>5, Lost

LEMMA OnFind == ASSUME AdministrationInv, NEW r \in Request, Find(r) PROVE AdministrationInv'
<1> DEFINE c == calls[r]
           op == c.op
           n == c.at
           s == Now(r)
           t == Of(r, s.row)
<1>1. Stands(r) /\ Typed(r) /\ AtStatement(r, "look") /\ n > 0
  BY DEF AdministrationInv, Stands, Find, AtStatement
<1>2. /\ c \in Call /\ op # Absent /\ op \in DOMAIN Handler /\ n \in Numbers(op) /\ n \in Nat \ {0}
      /\ Numbers(op) = 1..Len(Handler[op].steps) /\ c.answer = Absent
      /\ Len(Handler[op].steps) \in Nat
  BY <1>1, Started
<1>3. s = Handler[op].steps[n] /\ s.do = "look" /\ Does(op, n, {"look"})
  BY <1>1 DEF AtStatement, Does, Now, Steps
<1>4. t = [kind |-> s.row[1], id |-> IF s.row[2] = 0 THEN ActorOf[r] ELSE c.targets[s.row[2]]]
  BY DEF Of, RowOf
<1>5. CASE IsFound(c, t) /\ (s.mine => SameRealm(t))
  <2>1. ~Does(op, n, Changing \cup {"record"}) /\ ~Does(op, n, {"require", "requireUnlessOwn"})
    BY <1>3 DEF Does, Changing
  <2>2. t \in present
    BY <1>5 DEF IsFound
  <2>3. ASSUME NEW i \in DOMAIN c.targets, Foreign(r, i), Wards(op, i, n)
        PROVE  FALSE
    <3>1. i \in 1..Len(Handler[op].names) /\ Len(Handler[op].names) \in Nat
      BY <1>1, <1>2, Lengths DEF Typed
    <3>2. s.row[2] = i /\ (s.mine \/ s.row[1] = "client")
      BY <1>3, <2>3 DEF Wards
    <3>3. t.id = c.targets[i]
      BY <1>4, <3>1, <3>2
    <3>4. t.id = Elsewhere
      BY <2>3, <3>3 DEF Foreign
    <3> QED
      BY <1>4, <1>5, <3>2, <3>4 DEF SameRealm, IsFound, Reaches
  <2>4. ASSUME NEW i \in DOMAIN c.targets, Foreign(r, i), WardsInvitation(op, i, n)
        PROVE  FALSE
    <3>1. i \in 1..Len(Handler[op].names) /\ Len(Handler[op].names) \in Nat
      BY <1>1, <1>2, Lengths DEF Typed
    <3>2. t.id = Elsewhere /\ t.kind = "invitation"
      <4>1. s.row = <<"invitation", i>> /\ c.targets[i] = Elsewhere
        BY <1>3, <2>4 DEF WardsInvitation, Foreign
      <4>2. s.row[1] = "invitation" /\ s.row[2] = i /\ i # 0
        BY <4>1, <3>1
      <4> QED
        BY <1>4, <4>1, <4>2
    <3>3. "organization" \in Range(Handler[op].names)
      BY <2>4 DEF WardsInvitation, Range
    <3>4. HangsOn(t) \subseteq Named(c)
      BY <1>5, <3>2, <3>3 DEF IsFound, Reaches
    <3>5. [kind |-> "organization", id |-> Elsewhere] \in Named(c)
      BY <3>2, <3>4 DEF HangsOn
    <3>6. PICK j \in DOMAIN Handler[op].names :
            Handler[op].names[j] = "organization" /\ c.targets[j] = Elsewhere
      BY <3>5 DEF Named
    <3>7. PICK m \in 1..(n - 1) : Wards(op, j, m)
      BY <2>4, <3>6 DEF WardsInvitation
    <3>8. j \in DOMAIN c.targets /\ Foreign(r, j)
      BY <1>1, <1>2, <2>4, <3>6 DEF Typed, Foreign, WardsInvitation
    <3>9. m \in Numbers(op)
      BY <1>2
    <3>10. n <= m
      BY <1>1, <1>2, <3>7, <3>8, <3>9 DEF Stands, KeptOut, Ward
    <3> QED
      BY <1>2, <3>10
  <2>5. Becomes(r, Onward(c)) /\ UNCHANGED <<present, events, purged, deleted>>
    BY <1>5 DEF Find
  <2> QED
    BY <1>1, <2>1, <2>2, <2>3, <2>4, <2>5, PassesOn DEF Ward
<1>6. CASE ~(IsFound(c, t) /\ (s.mine => SameRealm(t)))
  <2>1. c.whole => Raced(r)
    BY <1>1, <1>3, <1>6, Unfound DEF Does
  <2>2. c.lacks => op \in DOMAIN Open \/ op = "revoke_api_token"
    BY <1>1, <1>3, NotLacking DEF Does
  <2>3. ASSUME c.changed, op \notin Unrecorded
        PROVE  c.recorded \/ Burnt(c) \/ Raced(r)
    <3>1. /\ \E m \in 1..(n - 1) : Does(op, m, Changing)
          /\ c.recorded \/ Burnt(c) \/ Raced(r) \/ RecordAhead(r)
      BY <1>1, <1>2, <2>3, NamesAssumption DEF Stands, Followed
    <3>2. SUFFICES ASSUME NEW m \in Numbers(op), n <= m, Does(op, m, {"record"})
                   PROVE  Burnt(c) \/ Raced(r)
      BY <3>1 DEF RecordAhead
    <3>3. m # n
      BY <1>3, <3>2 DEF Does
    <3>4. n < m
      BY <1>2, <3>2, <3>3
    <3>5. /\ s.row \in Settled(op, n)
          /\ s.row[1] \in {"user", "group", "organization", "identity_provider"}
          /\ s.mine => op = "accept_invitation" /\ s.row = <<"organization", 1>>
      <4>1. ChangesAreRecorded(op)
        BY <1>2, Table
      <4>2. /\ n \in Numbers(op) /\ Does(op, n, {"look"}) /\ op \notin Unrecorded
            /\ \E i \in 1..(n - 1) : Does(op, i, Changing)
            /\ \E i \in Numbers(op) : n < i /\ Does(op, i, {"record"})
        BY <1>2, <1>3, <2>3, <3>1, <3>2, <3>4
      <4> QED
        BY <4>1, <4>2, <1>3 DEF ChangesAreRecorded
    <3>6. t \in Ever /\ Reaches(c, t)
      BY <1>1, <1>4, <3>5 DEF Stands, Known, Reaches
    <3>7. CASE t \notin present
      <4>1. Does(op, n, {"look", "insert", "change", "remove"})
        BY <1>3 DEF Does
      <4> QED
        BY <1>1, <3>6, <3>7, <4>1, Lost
    <3>8. CASE t \in present
      BY <1>4, <1>6, <3>5, <3>6, <3>8 DEF IsFound, SameRealm, Burnt
    <3> QED
      BY <3>7, <3>8
  <2>4. Reason(r, "notFound")
    BY <2>1, <2>2, <2>3 DEF Reason
  <2>5. Becomes(r, Reply(c, "notFound")) /\ UNCHANGED <<present, events, purged, deleted>>
    BY <1>6 DEF Find
  <2> QED
    BY <1>2, <2>4, <2>5, Replied DEF Replies, AppError
<1> QED
  BY <1>5, <1>6

Item == {"row", "members"} \X Thing

(* All the rows of an agenda have been there.                              *)
SeenListed(agenda) ==
  \A j \in DOMAIN agenda : agenda[j][1] = "row" =>
    agenda[j][2] \in Ever /\ agenda[j][2].kind \in {"user", "organization"}

(* A call that stays where it is.                                          *)
LEMMA Stays ==
  ASSUME AdministrationInv, NEW r \in Request, calls[r].at > 0, NEW agenda \in Seq(Item), SeenListed(agenda),
         Becomes(r, [calls[r] EXCEPT !.agenda = agenda]),
         UNCHANGED <<present, events, purged, deleted>>
  PROVE  AdministrationInv'
<1> DEFINE d == [calls[r] EXCEPT !.agenda = agenda]
<1>1. Stands(r) /\ calls[r] \in Call
  BY DEF AdministrationInv, Rowed
<1>2. /\ d \in Call /\ d.at = calls[r].at /\ d.answer = calls[r].answer /\ d.agenda = agenda
      /\ d.op = calls[r].op /\ d.targets = calls[r].targets /\ d.lacks = calls[r].lacks
      /\ d.meant = calls[r].meant /\ d.whole = calls[r].whole
      /\ d.changed = calls[r].changed /\ d.recorded = calls[r].recorded
  BY <1>1 DEF Call, Item
<1> HIDE DEF d
<1>3. Becomes(r, d)
  BY DEF d
<1>4. calls'[r] = d /\ \A q \in Request \ {r} : Alike(q)
  BY <1>2, <1>3, CallsAre
<1>5. Rowed' /\ Evolves /\ Ever' = Ever
  BY <1>2, <1>3, CallsTyped, Quiet
<1>6. SameCall(r) /\ Unmoved(r)
  BY <1>2, <1>4 DEF Unmoved, SameCall
<1>7. Listed(r)'
  BY <1>2, <1>4, <1>5 DEF Listed, SeenListed
<1>8. Stands(r)'
  BY <1>1, <1>5, <1>6, <1>7, Beside
<1>9. calls[r].at \in Nat
  BY <1>1 DEF Call
<1>10. Fresh'
  BY <1>4, <1>5, <1>6, <1>9, StaysFresh DEF Unmoved
<1> QED
  BY <1>4, <1>5, <1>8, <1>10, OthersStand

LEMMA OnFindListed == ASSUME AdministrationInv, NEW r \in Request, FindListed(r) PROVE AdministrationInv'
<1> DEFINE c == calls[r]
           people == {t \in present : t.kind = "user" /\ SameRealm(t)}
<1>1. Stands(r) /\ Typed(r) /\ AtStatement(r, "each") /\ present \subseteq Thing
  BY DEF AdministrationInv, Rowed, Stands, FindListed
<1>2. /\ c.at > 0 /\ ~Does(c.op, c.at, Changing \cup {"record"}) /\ ~Does(c.op, c.at, {"look"})
      /\ ~Does(c.op, c.at, {"require", "requireUnlessOwn"}) /\ Does(c.op, c.at, {"each"})
      /\ ~Does(c.op, c.at, {"query", "join", "look", "record"})
  BY <1>1, Tested DEF AtStatement, Does, Now, Steps
<1>3. /\ c \in Call /\ c.op # Absent /\ c.op \in DOMAIN Handler /\ c.at \in Numbers(c.op)
  BY <1>1, <1>2, Started
<1>4. c.agenda \in Seq(Item) /\ SeenListed(c.agenda)
  BY <1>1, <1>3 DEF Stands, Listed, SeenListed, Call, Item
<1>5. UNCHANGED <<present, events, purged, deleted>>
  BY DEF FindListed
<1>6. CASE c.agenda = <<>> /\ Becomes(r, Onward(c))
  BY <1>2, <1>5, <1>6, PassesOn
<1>7. ASSUME c.agenda # <<>>
      PROVE  /\ Tail(c.agenda) \in Seq(Item) /\ SeenListed(Tail(c.agenda))
             /\ Head(c.agenda) = c.agenda[1] /\ 1 \in DOMAIN c.agenda /\ c.agenda[1] \in Item
  <2>1. /\ Tail(c.agenda) \in Seq(Item) /\ Len(Tail(c.agenda)) = Len(c.agenda) - 1
        /\ \A i \in 1..Len(Tail(c.agenda)) : Tail(c.agenda)[i] = c.agenda[i + 1]
    BY <1>4, <1>7, HeadTailProperties
  <2>2. Len(c.agenda) \in Nat /\ DOMAIN c.agenda = 1..Len(c.agenda)
        /\ DOMAIN Tail(c.agenda) = 1..Len(Tail(c.agenda)) /\ Len(Tail(c.agenda)) \in Nat
    BY <1>4, <2>1, LenProperties
  <2>3. SeenListed(Tail(c.agenda))
    BY <1>4, <2>1, <2>2 DEF SeenListed
  <2>4. 1 \in DOMAIN c.agenda
    BY <2>1, <2>2
  <2>5. Head(c.agenda) = c.agenda[1] /\ c.agenda[1] \in Item
    BY <1>4, <1>7, <2>2, <2>4, ElementOfSeq
  <2> QED
    BY <2>1, <2>3, <2>4, <2>5
<1>8. CASE /\ c.agenda # <<>> /\ Head(c.agenda)[1] = "row" /\ Head(c.agenda)[2] \in present
           /\ Becomes(r, [c EXCEPT !.agenda = Tail(@)])
  <2>1. [c EXCEPT !.agenda = Tail(@)] = [c EXCEPT !.agenda = Tail(c.agenda)]
    BY <1>3 DEF Call
  <2> QED
    BY <1>2, <1>5, <1>7, <1>8, <2>1, Stays
<1>9. CASE /\ c.agenda # <<>> /\ Head(c.agenda)[1] = "row" /\ Head(c.agenda)[2] \notin present
           /\ Becomes(r, Reply(c, "notFound"))
  <2> DEFINE t == Head(c.agenda)[2]
  <2>1. t \in Ever /\ t.kind \in {"user", "organization"} /\ t \in Thing
    BY <1>4, <1>7, <1>9 DEF SeenListed, Item
  <2>2. t \in deleted
    BY <1>9, <2>1 DEF Ever
  <2>3. PICK m \in Numbers(c.op) : Does(c.op, m, {"gather"})
    BY <1>2, <1>3, Table DEF RefersToSettled
  <2>4. \E n \in DOMAIN Steps(c) : Steps(c)[n].do = "gather"
    BY <2>3 DEF Numbers, Does, Steps
  <2>5. {v \in Thing : v.kind \in {"user", "organization"}} \subseteq RowsTouched(r)
    BY <2>4 DEF RowsTouched
  <2>6. Raced(r)
    BY <2>1, <2>2, <2>5 DEF Raced
  <2>7. Reason(r, "notFound")
    <3>1. c.lacks => c.op \in DOMAIN Open \/ c.op = "revoke_api_token"
      BY <1>1, <1>2, NotLacking DEF Does
    <3> QED
      BY <2>6, <3>1 DEF Reason
  <2> QED
    BY <1>3, <1>5, <1>9, <2>7, Replied DEF Replies, AppError
<1>10. ASSUME c.agenda # <<>>, NEW those \in SUBSET people,
              Becomes(r, [c EXCEPT !.agenda = SetToSeq({"row"} \X those) \o Tail(@)])
       PROVE  AdministrationInv'
  <2> DEFINE new == SetToSeq({"row"} \X those)
             rest == Tail(c.agenda)
  <2>1. IsFiniteSet(those)
    BY <1>1, OfAKind
  <2>2. IsFiniteSet({"row"} \X those)
    BY <2>1, FS_Product, FS_Singleton
  <2>3. /\ new \in Seq({"row"} \X those) /\ Len(new) \in Nat
        /\ \A i \in 1..Len(new) : new[i] \in {"row"} \X those
    BY <2>2, InOrder
  <2>4. new \in Seq(Item)
    BY <1>1, <2>3, SeqMonotonic DEF Item
  <2>5. rest \in Seq(Item) /\ SeenListed(rest)
    BY <1>7, <1>10
  <2> HIDE DEF new, rest
  <2>6. /\ new \o rest \in Seq(Item) /\ Len(new \o rest) = Len(new) + Len(rest)
        /\ \A i \in 1..(Len(new) + Len(rest)) :
             (new \o rest)[i] = IF i <= Len(new) THEN new[i] ELSE rest[i - Len(new)]
    BY <2>4, <2>5, ConcatProperties
  <2>7. DOMAIN (new \o rest) = 1..(Len(new) + Len(rest)) /\ DOMAIN rest = 1..Len(rest) /\ Len(rest) \in Nat
    BY <2>5, <2>6, LenProperties
  <2>8. ASSUME NEW i \in DOMAIN (new \o rest), (new \o rest)[i][1] = "row"
        PROVE  (new \o rest)[i][2] \in Ever /\ (new \o rest)[i][2].kind \in {"user", "organization"}
    <3>1. CASE i <= Len(new)
      <4>1. i \in 1..Len(new)
        BY <2>3, <2>7, <3>1
      <4>2. new[i][2] \in those
        BY <2>3, <4>1
      <4>3. (new \o rest)[i] = new[i]
        BY <2>6, <2>7, <3>1
      <4> QED
        BY <4>2, <4>3 DEF Ever
    <3>2. CASE ~(i <= Len(new))
      <4>1. i - Len(new) \in DOMAIN rest
        BY <2>3, <2>7, <3>2
      <4>2. (new \o rest)[i] = rest[i - Len(new)]
        BY <2>6, <2>7, <3>2
      <4> QED
        BY <2>5, <2>8, <4>1, <4>2 DEF SeenListed
    <3> QED
      BY <3>1, <3>2
  <2>9. SeenListed(new \o rest)
    BY <2>8 DEF SeenListed
  <2>10. Becomes(r, [c EXCEPT !.agenda = new \o rest])
    BY <1>3, <1>10 DEF Call, new, rest
  <2> QED
    BY <1>2, <1>5, <2>6, <2>9, <2>10, Stays
<1> QED
  BY <1>6, <1>8, <1>9, <1>10 DEF FindListed

-----------------------------------------------------------------------------
(* Writes.                                                                 *)

(* A statement that may write is passed.                                   *)
LEMMA Written ==
  ASSUME AdministrationInv, NEW r \in Request, calls[r].at > 0,
         Does(calls[r].op, calls[r].at, Changing \cup {"record"}),
         NEW d \in Call, calls'[r] = d, \A q \in Request \ {r} : Alike(q), Rowed', Evolves,
         LET o == Onward(calls[r]) IN
           /\ d.at = o.at /\ d.answer = o.answer /\ d.op = o.op /\ d.targets = o.targets
           /\ d.lacks = o.lacks /\ d.meant = o.meant /\ d.whole = o.whole /\ d.agenda = o.agenda,
         d.changed = calls[r].changed \/ (Does(calls[r].op, calls[r].at, Changing) /\ d.changed),
         Does(calls[r].op, calls[r].at, Changing) =>
           \/ d.changed
           \/ Misses(calls[r].op, calls[r].at, "unnoticed") /\ Of(r, Now(r).row) \notin present',
         d.recorded = calls[r].recorded \/ (Does(calls[r].op, calls[r].at, {"record"}) /\ d.recorded),
         Does(calls[r].op, calls[r].at, {"record"}) => d.recorded \/ AccountRow(ActorOf[r]) \notin present',
         Settles(calls[r].op, calls[r].at) => Of(r, Now(r).row) \in Ever',
         \A i \in DOMAIN calls[r].targets : Foreign(r, i) => ~Ward(calls[r].op, i, calls[r].at),
         \A t \in Ever' \ Ever : Does(calls[r].op, calls[r].at, {"insert"}) /\ t = Of(r, Now(r).row)
  PROVE  AdministrationInv'
<1> DEFINE c == calls[r]
           n == c.at
           o == Onward(c)
<1>1. Stands(r) /\ Typed(r) /\ Listed(r)
  BY DEF AdministrationInv, Stands
<1>2. /\ n + 1 \in Nat /\ c \in Call /\ c.op # Absent /\ n \in 1..Len(Steps(c))
      /\ n + 1 > Len(Handler[c.op].steps) => o.at = 0 /\ o.answer = "done"
      /\ n + 1 <= Len(Handler[c.op].steps) => o.at = n + 1 /\ o.answer = Absent
  BY <1>1, Onwards
<1>3. /\ o.op = c.op /\ o.targets = c.targets /\ o.lacks = c.lacks /\ o.meant = c.meant
      /\ o.whole = c.whole /\ o.agenda \in {<<>>, c.agenda}
  BY <1>2, OnwardIs
<1>4. SameCall(r)
  BY <1>3 DEF SameCall
<1>5. Listed(r)'
  BY <1>1, <1>3 DEF Listed, Evolves
<1>6. Now(r) = Handler[c.op].steps[n]
  BY DEF Now, Steps
<1>7. Goes(r, n + 1)
  <2>1. /\ ~Does(c.op, n, {"require"}) /\ ~Does(c.op, n, {"requireUnlessOwn"})
        /\ ~Does(c.op, n, {"look"})
    BY DEF Does, Changing
  <2>2. /\ n + 1 > Len(Handler[c.op].steps) => calls'[r].at = 0 /\ calls'[r].answer = "done"
        /\ n + 1 <= Len(Handler[c.op].steps) => calls'[r].at = n + 1 /\ calls'[r].answer = Absent
    BY <1>2
  <2> QED
    BY <1>6, <2>1, <2>2 DEF Goes
<1> QED
  BY <1>2, <1>4, <1>5, <1>6, <1>7, Advances

LEMMA NoWard ==
  ASSUME NEW r, Stands(r), calls[r].at > 0, NEW i \in DOMAIN calls[r].targets, Foreign(r, i),
         Does(calls[r].op, calls[r].at, {"insert", "join", "record"})
  PROVE  FALSE
<1>1. ~Does(calls[r].op, calls[r].at,
            {"require", "requireUnlessOwn", "validate", "query", "otherThanActor", "look"})
      /\ ~Does(calls[r].op, calls[r].at, {"change", "remove"})
  BY DEF Does
<1> QED
  BY <1>1, Abroad

LEMMA ChangedIs ==
  ASSUME NEW c \in Call, c.op # Absent, c.at \in 1..Len(Steps(c))
  PROVE  LET d == OnwardChanged(c)  o == Onward(c)
         IN /\ d \in Call /\ d.changed /\ d.recorded = c.recorded
            /\ d.at = o.at /\ d.answer = o.answer /\ d.op = o.op /\ d.targets = o.targets
            /\ d.lacks = o.lacks /\ d.meant = o.meant /\ d.whole = o.whole /\ d.agenda = o.agenda
<1>1. Onward(c) \in Call /\ Onward(c).recorded = c.recorded
  BY OnwardIs
<1> QED
  BY <1>1 DEF OnwardChanged, Call

(* A row or what joins two of them is written.                             *)
LEMMA Alters ==
  ASSUME AdministrationInv, NEW r \in Request, calls[r].at > 0, Does(calls[r].op, calls[r].at, Changing),
         Becomes(r, OnwardChanged(calls[r])), Rowed', Evolves,
         Settles(calls[r].op, calls[r].at) => Of(r, Now(r).row) \in Ever',
         \A i \in DOMAIN calls[r].targets : Foreign(r, i) => ~Ward(calls[r].op, i, calls[r].at),
         \A t \in Ever' \ Ever : Does(calls[r].op, calls[r].at, {"insert"}) /\ t = Of(r, Now(r).row)
  PROVE  AdministrationInv'
<1> DEFINE c == calls[r]
           d == OnwardChanged(c)
<1>1. Typed(r)
  BY DEF AdministrationInv, Stands
<1>2. /\ c \in Call /\ c.op # Absent /\ c.at \in 1..Len(Steps(c))
  BY <1>1, Onwards
<1>3. /\ d \in Call /\ d.changed /\ d.recorded = c.recorded
      /\ LET o == Onward(c)
         IN /\ d.at = o.at /\ d.answer = o.answer /\ d.op = o.op /\ d.targets = o.targets
            /\ d.lacks = o.lacks /\ d.meant = o.meant /\ d.whole = o.whole /\ d.agenda = o.agenda
  BY <1>2, ChangedIs
<1>4. ~Does(c.op, c.at, {"record"}) /\ Does(c.op, c.at, Changing \cup {"record"})
  BY DEF Does, Changing
<1> HIDE DEF d
<1>5. Becomes(r, d)
  BY DEF d
<1>6. calls'[r] = d /\ \A q \in Request \ {r} : Alike(q)
  BY <1>3, <1>5, CallsAre
<1> QED
  BY <1>3, <1>4, <1>6, Written

(* A reference that does not stand.                                        *)
LEMMA Dangles ==
  ASSUME AdministrationInv, NEW r \in Request, calls[r].at > 0,
         Does(calls[r].op, calls[r].at, {"insert", "join", "change"}),
         ~RefsStand(r, Now(r).refs), Becomes(r, Reply(calls[r], "internal")),
         \A i \in DOMAIN calls[r].targets : ~Foreign(r, i),
         UNCHANGED <<present, events, purged, deleted>>
  PROVE  AdministrationInv'
<1>1. Stands(r) /\ Typed(r) /\ Known(r)
  BY DEF AdministrationInv, Stands
<1>2. Now(r).refs = Refs(calls[r].op, calls[r].at)
  BY DEF Now, Steps, Refs
<1>3. Raced(r)
  BY <1>1, <1>2, RefsLost
<1>4. Reason(r, "internal")
  BY <1>3 DEF Reason
<1> QED
  BY <1>1, <1>4, Started, Replied DEF Replies, AppError

(* What is inserted is a row, and what it hangs on is there.               *)
LEMMA NewRow ==
  ASSUME AdministrationInv, NEW r \in Request, AtStatement(r, "insert"), RefsStand(r, Now(r).refs)
  PROVE  LET t == Of(r, Now(r).row)
         IN /\ t \in Thing /\ HangsOn(t) \subseteq present
            /\ t.kind = "group" => t \notin Ever
<1> DEFINE c == calls[r]
           op == c.op
           n == c.at
           kind == Now(r).row[1]
           i == Now(r).row[2]
           t == Of(r, Now(r).row)
<1>1. Typed(r) /\ n > 0 /\ present \subseteq Thing
  BY DEF AdministrationInv, Rowed, Stands, AtStatement
<1>2. /\ op \in DOMAIN Handler /\ n \in Numbers(op) /\ op # Absent /\ n \in Nat
  BY <1>1, Started
<1>3. Now(r) = Handler[op].steps[n] /\ Does(op, n, {"insert"})
  BY DEF AtStatement, Does, Now, Steps
<1>4. /\ Now(r).row = <<kind, i>> /\ i \in DOMAIN Handler[op].names
      /\ \/ kind = Handler[op].names[i] /\ kind \in {"user", "role", "group", "organization",
                                                     "identity_provider", "client"}
         \/ /\ <<kind, Handler[op].names[i]>> \in {<<"api_token", "user">>, <<"invitation", "organization">>}
            /\ <<Handler[op].names[i], i>> \in Refs(op, n)
  <2> DEFINE row == Handler[op].steps[n].row
             name == Handler[op].names[row[2]]
  <2>1. InsertsFit(op)
    BY <1>2, Table
  <2>2. /\ row = <<row[1], row[2]>> /\ row[2] \in DOMAIN Handler[op].names
        /\ \/ row[1] = name /\ row[1] \in {"user", "role", "group", "organization",
                                             "identity_provider", "client"}
           \/ /\ <<row[1], name>> \in {<<"api_token", "user">>, <<"invitation", "organization">>}
              /\ <<name, row[2]>> \in Refs(op, n)
    BY <1>2, <1>3, <2>1, Zenon DEF InsertsFit
  <2>3. Now(r).row = row
    BY <1>3
  <2> HIDE DEF row
  <2> QED
    BY <2>2, <2>3
<1>5. i \in 1..Len(Handler[op].names) /\ Len(Handler[op].names) \in Nat
  BY <1>2, <1>4, Lengths
<1>6. t = [kind |-> kind, id |-> c.targets[i]]
  BY <1>5 DEF Of, RowOf
<1> HIDE DEF t, kind, i
<1>7. CASE kind = Handler[op].names[i] /\ kind \in {"user", "role", "group", "organization",
                                                  "identity_provider", "client"}
  <2>1. <<Handler[op].names[i], i>> \in Inserted(op)
    BY <1>2, <1>3, <1>4, <1>7 DEF Inserted, RowsOf
  <2>2. c.targets[i] \in Ids(kind)
    BY <1>1, <1>2, <1>4, <1>7, <2>1 DEF Typed
  <2>3. t \in Thing
    BY <1>6, <1>7, <2>2 DEF Thing, OfAccounts, OfRows
  <2>4. HangsOn(t) = {}
    BY <1>6, <1>7 DEF HangsOn
  <2>5. ASSUME t.kind = "group" PROVE t \in ToCreate(r)
    <3>1. Creates(op, n)
      BY <1>3, <1>6, <2>5 DEF Creates, kind
    <3> QED
      BY <1>1, <1>2, <1>3, <3>1 DEF ToCreate, t
  <2> QED
    BY <2>3, <2>4, <2>5 DEF AdministrationInv, Fresh, t
<1>8. CASE /\ <<kind, Handler[op].names[i]>> \in {<<"api_token", "user">>, <<"invitation", "organization">>}
           /\ <<Handler[op].names[i], i>> \in Refs(op, n)
  <2>1. Of(r, <<Handler[op].names[i], i>>) \in present
    BY <1>3, <1>8 DEF RefsStand, Refs, Does
  <2>2. Of(r, <<Handler[op].names[i], i>>) = [kind |-> Handler[op].names[i], id |-> c.targets[i]]
    BY <1>5 DEF Of, RowOf
  <2>3. CASE kind = "api_token" /\ Handler[op].names[i] = "user"
    <3>1. AccountRow(c.targets[i]) \in present /\ c.targets[i] \in Ids("user")
      BY <1>1, <2>1, <2>2, <2>3 DEF AccountRow, Thing
    <3>2. t \in Thing
      BY <1>6, <2>3, <3>1 DEF Thing, OfAccounts, Ids
    <3>3. HangsOn(t) = {AccountRow(c.targets[i])}
      BY <1>6, <2>3 DEF HangsOn
    <3> QED
      BY <1>6, <2>3, <3>1, <3>2, <3>3 DEF t
  <2>4. CASE kind = "invitation" /\ Handler[op].names[i] = "organization"
    <3>1. /\ [kind |-> "organization", id |-> c.targets[i]] \in present
          /\ c.targets[i] \in Ids("organization")
      BY <1>1, <2>1, <2>2, <2>4 DEF Thing
    <3>2. t \in Thing
      BY <1>6, <2>4, <3>1 DEF Thing, OfRows, OfAccounts, Ids
    <3>3. HangsOn(t) = {[kind |-> "organization", id |-> c.targets[i]]}
      BY <1>6, <2>4 DEF HangsOn
    <3> QED
      BY <1>6, <2>4, <3>1, <3>2, <3>3 DEF t
  <2> QED
    BY <1>8, <2>3, <2>4
<1> QED
  BY <1>4, <1>7, <1>8 DEF t

LEMMA OnInsertRow == ASSUME AdministrationInv, NEW r \in Request, InsertRow(r) PROVE AdministrationInv'
<1> DEFINE c == calls[r]
           s == Now(r)
           t == Of(r, s.row)
<1>1. /\ Stands(r) /\ Typed(r) /\ AtStatement(r, "insert") /\ c.at > 0
      /\ UNCHANGED <<events, purged, deleted>>
  BY DEF AdministrationInv, Stands, InsertRow, AtStatement
<1>2. /\ c \in Call /\ c.op # Absent /\ c.op \in DOMAIN Handler /\ c.at \in Numbers(c.op)
      /\ c.at \in 1..Len(Steps(c))
  BY <1>1, Started, Onwards
<1>3. s = Handler[c.op].steps[c.at] /\ s.do = "insert" /\ Does(c.op, c.at, {"insert"})
      /\ Does(c.op, c.at, Changing)
  BY <1>1 DEF AtStatement, Does, Now, Steps, Changing
<1>4. \A i \in DOMAIN c.targets : ~Foreign(r, i)
  BY <1>1, <1>3, NoWard DEF Does
<1>5. CASE s.duplicate # "updated" /\ Becomes(r, Reply(c, s.duplicate)) /\ UNCHANGED present
  <2>1. s.duplicate \in {"conflict", "refused"}
    BY <1>2, <1>3, <1>5, Table DEF Formed
  <2>2. ~Does(c.op, c.at, {"query", "join", "look", "record"})
    BY <1>3 DEF Does
  <2>3. Reason(r, s.duplicate)
    BY <1>1, <1>4, <2>1, <2>2, Late DEF Reason
  <2>4. s.duplicate \in Replies
    BY <2>1 DEF Replies, AppError
  <2> QED
    BY <1>1, <1>2, <1>5, <2>3, <2>4, Replied
<1>6. CASE ~RefsStand(r, s.refs) /\ Becomes(r, Reply(c, "internal")) /\ UNCHANGED present
  BY <1>1, <1>3, <1>4, <1>6, Dangles DEF Does
<1>7. CASE RefsStand(r, s.refs) /\ Becomes(r, OnwardChanged(c)) /\ present' = present \cup {t}
  <2>1. t \in Thing /\ HangsOn(t) \subseteq present /\ (t.kind = "group" => t \notin Ever)
    BY <1>1, <1>7, NewRow
  <2>2. Ever' = Ever \cup {t}
    BY <1>1, <1>7 DEF Ever
  <2>3. calls' \in [Request -> Call]
    BY <1>2, <1>7, ChangedIs, CallsTyped
  <2> HIDE DEF t
  <2>4. Rowed'
    <3>1. present' \subseteq Thing /\ deleted' \subseteq Thing
      BY <1>1, <1>7, <2>1 DEF AdministrationInv, Rowed
    <3>2. \A v \in present' : HangsOn(v) \subseteq present'
      BY <1>7, <2>1 DEF AdministrationInv, Rowed
    <3>3. \A v \in Ever' : HangsOn(v) \subseteq Ever'
      <4>1. HangsOn(t) \subseteq Ever
        BY <2>1 DEF Ever
      <4> QED
        BY <2>2, <4>1 DEF AdministrationInv, Rowed
    <3>4. events' \in Nat /\ purged' \in 0..events'
      BY <1>1 DEF AdministrationInv, Rowed
    <3> QED
      BY <2>3, <3>1, <3>2, <3>3, <3>4 DEF Rowed
  <2>5. Evolves
    BY <1>1, <1>7, <2>1, <2>2 DEF Evolves, Ever
  <2>6. t \in Ever'
    BY <2>2
  <2> QED
    BY <1>1, <1>3, <1>4, <1>7, <2>2, <2>4, <2>5, <2>6, Alters DEF t
<1> QED
  BY <1>5, <1>6, <1>7 DEF InsertRow

LEMMA OnJoinRows == ASSUME AdministrationInv, NEW r \in Request, JoinRows(r) PROVE AdministrationInv'
<1> DEFINE c == calls[r]
<1>1. /\ Stands(r) /\ Typed(r) /\ AtStatement(r, "join") /\ c.at > 0
      /\ UNCHANGED <<present, events, purged, deleted>>
  BY DEF AdministrationInv, Stands, JoinRows, AtStatement
<1>2. c \in Call /\ c.op # Absent /\ c.at \in 1..Len(Steps(c))
  BY <1>1, Started, Onwards
<1>3. /\ Does(c.op, c.at, {"join"}) /\ Does(c.op, c.at, Changing)
      /\ ~Does(c.op, c.at, {"look", "insert", "change", "remove"})
  BY <1>1 DEF AtStatement, Does, Now, Steps, Changing
<1>4. \A i \in DOMAIN c.targets : ~Foreign(r, i)
  BY <1>1, <1>3, NoWard DEF Does
<1>5. CASE RefsStand(r, Now(r).refs)
  <2>1. Becomes(r, OnwardChanged(c))
    BY <1>5 DEF JoinRows
  <2>2. calls' \in [Request -> Call]
    BY <1>2, <2>1, ChangedIs, CallsTyped
  <2>3. Rowed' /\ Evolves /\ Ever' = Ever
    BY <1>1, <2>2, Quiet
  <2> QED
    BY <1>1, <1>3, <1>4, <2>1, <2>3, Alters DEF Settles
<1>6. CASE ~RefsStand(r, Now(r).refs)
  <2>1. Does(c.op, c.at, {"insert", "join", "change"}) /\ Becomes(r, Reply(c, "internal"))
    BY <1>3, <1>6 DEF Does, JoinRows
  <2> QED
    BY <1>1, <1>4, <1>6, <2>1, Dangles
<1> QED
  BY <1>5, <1>6

(* The last of its kind is kept, or something else speaks against it.      *)
LEMMA OnRefused ==
  ASSUME AdministrationInv, NEW r \in Request, AtStatement(r, "change") \/ AtStatement(r, "remove"), Refused(r),
         UNCHANGED <<present, events, purged, deleted>>
  PROVE  AdministrationInv'
<1> DEFINE c == calls[r]
<1>1. Stands(r) /\ Typed(r) /\ c.at > 0
  BY DEF AdministrationInv, Stands, AtStatement
<1>2. /\ c.op # Absent /\ c.op \in DOMAIN Handler /\ c.at \in Numbers(c.op)
      /\ Now(r) = Handler[c.op].steps[c.at]
  BY <1>1, Started DEF Now, Steps
<1>3. Now(r).do \in {"change", "remove"} /\ Does(c.op, c.at, {"change", "remove"})
  BY <1>2 DEF AtStatement, Does
<1>4. PICK answer \in Now(r).may : Becomes(r, Reply(c, answer))
  BY DEF Refused
<1>5. answer \in {"refused", "conflict", "unauthenticated"}
  BY <1>2, <1>3, <1>4, Table DEF Formed
<1>6. ASSUME NEW i \in DOMAIN c.targets, Foreign(r, i) PROVE FALSE
  <2>1. Wards(c.op, i, c.at)
    BY <1>1, <1>3, <1>6, Abroad DEF Does
  <2> QED
    BY <1>2, <1>3, <1>4, <2>1 DEF Wards
<1>7. ~Does(c.op, c.at, {"query", "join", "look", "record"})
  BY <1>3 DEF Does
<1>8. Reason(r, answer)
  BY <1>1, <1>5, <1>6, <1>7, Late DEF Reason
<1>9. answer \in Replies
  BY <1>5 DEF Replies, AppError
<1> QED
  BY <1>2, <1>4, <1>8, <1>9, Replied

(* A row that is not there to be changed or removed.                       *)
LEMMA OnMissing ==
  ASSUME AdministrationInv, NEW r \in Request, AtStatement(r, "change") \/ AtStatement(r, "remove"),
         ~IsFound(calls[r], Of(r, Now(r).row)), Becomes(r, Missing(r)),
         UNCHANGED <<present, events, purged, deleted>>
  PROVE  AdministrationInv'
<1> DEFINE c == calls[r]
           s == Now(r)
           t == Of(r, s.row)
<1>1. Stands(r) /\ Typed(r) /\ c.at > 0
  BY DEF AdministrationInv, Stands, AtStatement
<1>2. /\ c \in Call /\ c.op # Absent /\ c.op \in DOMAIN Handler /\ c.at \in Numbers(c.op)
      /\ c.at \in 1..Len(Steps(c)) /\ s = Handler[c.op].steps[c.at]
  BY <1>1, Started, Onwards DEF Now, Steps
<1>3. /\ s.do \in {"change", "remove"} /\ Does(c.op, c.at, {"change", "remove"})
      /\ Does(c.op, c.at, Changing) /\ ~Does(c.op, c.at, {"record"})
      /\ Does(c.op, c.at, {"look", "change", "remove"})
      /\ ~Does(c.op, c.at, {"query", "join", "look", "record"})
      /\ ~Does(c.op, c.at, {"insert"})
      /\ Does(c.op, c.at, Changing \cup {"record"})
  BY <1>2 DEF AtStatement, Does, Changing
<1>4. /\ s.missing \in {"unnoticed", "notFound", "refused", "unauthenticated"}
      /\ s.missing = "unnoticed" => s.row[1] \notin {"client", "federated_identity", "invitation"}
  BY <1>2, <1>3, Table DEF Formed
<1>5. ASSUME NEW i \in DOMAIN c.targets, Foreign(r, i)
      PROVE  s.missing \in {"notFound", "refused"}
  <2>1. Wards(c.op, i, c.at)
    BY <1>1, <1>3, <1>5, Abroad DEF Does
  <2> QED
    BY <1>2, <1>3, <2>1 DEF Wards
<1>6. CASE s.missing = "unnoticed"
  <2> DEFINE o == Onward(c)
  <2>1. o \in Call /\ o.changed = c.changed /\ o.recorded = c.recorded /\ Becomes(r, o)
    BY <1>2, <1>6, OnwardIs DEF Missing
  <2> HIDE DEF o
  <2>2. calls'[r] = o /\ \A q \in Request \ {r} : Alike(q)
    BY <2>1, CallsAre
  <2>3. calls' \in [Request -> Call]
    BY <2>1, CallsTyped
  <2>4. Rowed' /\ Evolves /\ Ever' = Ever
    BY <2>3, Quiet
  <2>5. Misses(c.op, c.at, "unnoticed")
    BY <1>2, <1>3, <1>6 DEF Misses
  <2>6. ~Settles(c.op, c.at)
    BY <2>5 DEF Settles
  <2>7. t \notin present'
    <3>1. t.kind = s.row[1]
      BY DEF Of, RowOf
    <3>2. Reaches(c, t)
      BY <1>4, <1>6, <3>1 DEF Reaches
    <3> QED
      BY <3>2 DEF IsFound
  <2>8. \A i \in DOMAIN c.targets : ~Foreign(r, i)
    BY <1>5, <1>6
  <2> QED
    BY <1>1, <1>3, <2>1, <2>2, <2>4, <2>5, <2>6, <2>7, <2>8, Written DEF o
<1>7. CASE s.missing # "unnoticed"
  <2>1. Becomes(r, Reply(c, s.missing)) /\ s.missing \in {"notFound", "refused", "unauthenticated"}
    BY <1>4, <1>7 DEF Missing
  <2>2. c.whole => Raced(r)
    BY <1>1, <1>3, Unfound
  <2>3. c.lacks /\ s.missing = "notFound" => c.op \in DOMAIN Open \/ c.op = "revoke_api_token"
    BY <1>1, <1>2, <1>3, NotLacking DEF Misses
  <2>4. c.changed /\ c.op \notin Unrecorded => c.recorded \/ Burnt(c) \/ Raced(r)
    BY <1>1, <1>3, Late
  <2>5. Reason(r, s.missing)
    BY <1>5, <2>1, <2>2, <2>3, <2>4 DEF Reason
  <2>6. s.missing \in Replies
    BY <2>1 DEF Replies, AppError
  <2> QED
    BY <1>2, <2>1, <2>5, <2>6, Replied
<1> QED
  BY <1>6, <1>7

(* A row that is found is none of another realm's.                         *)
LEMMA FoundWithin ==
  ASSUME NEW r, Stands(r), AtStatement(r, "change") \/ AtStatement(r, "remove"),
         IsFound(calls[r], Of(r, Now(r).row)),
         NEW i \in DOMAIN calls[r].targets
  PROVE  ~Foreign(r, i)
<1> DEFINE c == calls[r]
           s == Now(r)
<1> SUFFICES ASSUME Foreign(r, i) PROVE FALSE
  OBVIOUS
<1>1. c.at > 0 /\ Typed(r) /\ s = Handler[c.op].steps[c.at]
  BY DEF Stands, AtStatement, Now, Steps
<1>2. s.do \in {"change", "remove"}
  BY DEF AtStatement
<1>3. Wards(c.op, i, c.at)
  BY <1>1, <1>2, Abroad DEF Does
<1>4. s.row = <<"client", i>>
  BY <1>1, <1>2, <1>3 DEF Wards
<1>5. i \in 1..Len(Handler[c.op].names) /\ Len(Handler[c.op].names) \in Nat
  BY <1>1, Started, Lengths DEF Typed
<1>6. Of(r, s.row) = [kind |-> "client", id |-> c.targets[i]]
  BY <1>4, <1>5 DEF Of, RowOf
<1> QED
  BY <1>6 DEF IsFound, Reaches, Foreign

LEMMA OnChangeRow == ASSUME AdministrationInv, NEW r \in Request, ChangeRow(r) PROVE AdministrationInv'
<1> DEFINE c == calls[r]
           s == Now(r)
           t == Of(r, s.row)
<1>1. /\ Stands(r) /\ Typed(r) /\ AtStatement(r, "change") /\ c.at > 0
      /\ UNCHANGED <<present, events, purged, deleted>>
  BY DEF AdministrationInv, Stands, ChangeRow, AtStatement
<1>2. c \in Call /\ c.op # Absent /\ c.at \in 1..Len(Steps(c))
  BY <1>1, Onwards
<1>3. Does(c.op, c.at, {"insert", "join", "change"}) /\ Does(c.op, c.at, Changing)
  BY <1>1 DEF AtStatement, Does, Now, Steps, Changing
<1>4. CASE Refused(r)
  BY <1>1, <1>4, OnRefused
<1>5. CASE ~IsFound(c, t) /\ Becomes(r, Missing(r))
  BY <1>1, <1>5, OnMissing
<1>6. CASE IsFound(c, t) /\ ~RefsStand(r, s.refs) /\ Becomes(r, Reply(c, "internal"))
  BY <1>1, <1>3, <1>6, FoundWithin, Dangles
<1>7. CASE IsFound(c, t) /\ RefsStand(r, s.refs) /\ Becomes(r, OnwardChanged(c))
  <2>1. calls' \in [Request -> Call]
    BY <1>2, <1>7, ChangedIs, CallsTyped
  <2>2. Rowed' /\ Evolves /\ Ever' = Ever
    BY <1>1, <2>1, Quiet
  <2>3. t \in Ever'
    BY <1>7, <2>2 DEF IsFound, Ever
  <2>4. \A i \in DOMAIN c.targets : ~Foreign(r, i)
    BY <1>1, <1>7, FoundWithin
  <2> QED
    BY <1>1, <1>3, <1>7, <2>2, <2>3, <2>4, Alters
<1> QED
  BY <1>4, <1>5, <1>6, <1>7 DEF ChangeRow

LEMMA OnRemoveRow == ASSUME AdministrationInv, NEW r \in Request, RemoveRow(r) PROVE AdministrationInv'
<1> DEFINE c == calls[r]
           t == Of(r, Now(r).row)
           below == IF t.kind = "group" THEN {g \in present : g.kind = "group" /\ SameRealm(g)} ELSE {}
<1>1. /\ Stands(r) /\ Typed(r) /\ AtStatement(r, "remove") /\ c.at > 0 /\ UNCHANGED <<events, purged>>
  BY DEF AdministrationInv, Stands, RemoveRow, AtStatement
<1>2. c \in Call /\ c.op # Absent /\ c.at \in 1..Len(Steps(c))
  BY <1>1, Onwards
<1>3. Does(c.op, c.at, Changing)
  BY <1>1 DEF AtStatement, Does, Now, Steps, Changing
<1>4. CASE Refused(r) /\ UNCHANGED <<present, deleted>>
  BY <1>1, <1>4, OnRefused
<1>5. CASE ~IsFound(c, t) /\ Becomes(r, Missing(r)) /\ UNCHANGED <<present, deleted>>
  BY <1>1, <1>5, OnMissing
<1>6. ASSUME IsFound(c, t), Becomes(r, OnwardChanged(c)), NEW also \in SUBSET below,
             present' = present \ (TakenAlong(t) \cup also),
             deleted' = deleted \cup TakenAlong(t) \cup also
      PROVE  AdministrationInv'
  <2>1. calls' \in [Request -> Call]
    BY <1>2, <1>6, ChangedIs, CallsTyped
  <2>2. t \in present /\ \A g \in also : g \in present /\ g.kind = "group"
    BY <1>6 DEF IsFound
  <2> HIDE DEF t, below
  <2>3. TakenAlong(t) \subseteq present
    BY <2>2 DEF TakenAlong
  <2>4. Ever' = Ever
    BY <1>6, <2>2, <2>3 DEF Ever
  <2>5. \A v \in present' : HangsOn(v) \subseteq present'
    <3> SUFFICES ASSUME NEW v \in present', NEW h \in HangsOn(v) PROVE h \in present'
      OBVIOUS
    <3>1. v \in present /\ v \notin TakenAlong(t) /\ h \in present
      BY <1>6 DEF AdministrationInv, Rowed
    <3>2. h # t
      BY <3>1 DEF TakenAlong
    <3>3. h.kind \in {"user", "identity_provider", "organization"}
      BY DEF HangsOn, AccountRow
    <3>4. HangsOn(h) = {}
      BY <3>3 DEF HangsOn
    <3> QED
      BY <1>6, <2>2, <3>1, <3>2, <3>3, <3>4 DEF TakenAlong
  <2>6. Rowed'
    <3>1. present' \subseteq Thing /\ deleted' \subseteq Thing
      BY <1>6, <2>2, <2>3 DEF AdministrationInv, Rowed
    <3> QED
      BY <1>1, <2>1, <2>4, <2>5, <3>1 DEF AdministrationInv, Rowed
  <2>7. Evolves
    BY <1>6, <2>4 DEF Evolves
  <2>8. t \in Ever'
    BY <2>2, <2>4 DEF Ever
  <2>9. \A i \in DOMAIN c.targets : ~Foreign(r, i)
    BY <1>1, <1>6, FoundWithin DEF t
  <2> QED
    BY <1>1, <1>3, <1>6, <2>4, <2>6, <2>7, <2>8, <2>9, Alters DEF t
<1> QED
  BY <1>4, <1>5, <1>6 DEF RemoveRow

-----------------------------------------------------------------------------
(* The trail.                                                              *)

LEMMA OnRecordEvent == ASSUME AdministrationInv, NEW r \in Request, RecordEvent(r) PROVE AdministrationInv'
<1> DEFINE c == calls[r]
           o == Onward(c)
           d == [o EXCEPT !.recorded = TRUE]
<1>1. /\ Stands(r) /\ Typed(r) /\ AtStatement(r, "record") /\ c.at > 0 /\ UNCHANGED <<present, purged, deleted>>
  BY DEF AdministrationInv, Stands, RecordEvent, AtStatement
<1>2. c \in Call /\ c.op # Absent /\ c.at \in 1..Len(Steps(c)) /\ calls \in [Request -> Call]
  BY <1>1, Onwards DEF AdministrationInv, Rowed
<1>3. o \in Call /\ o.changed = c.changed /\ o.recorded = c.recorded
  BY <1>2, OnwardIs
<1>4. /\ Does(c.op, c.at, {"record"}) /\ ~Does(c.op, c.at, Changing)
      /\ Does(c.op, c.at, Changing \cup {"record"}) /\ ~Settles(c.op, c.at)
  BY <1>1 DEF AtStatement, Does, Now, Steps, Changing, Settles
<1>5. \A i \in DOMAIN c.targets : ~Foreign(r, i)
  BY <1>1, <1>4, NoWard DEF Does
<1>6. CASE /\ AccountRow(ActorOf[r]) \in present /\ events' = events + 1
           /\ calls' = [q \in Request |->
                          IF q = r THEN d ELSE [calls[q] EXCEPT !.landed = @ \/ AtStatement(q, "page")]]
  <2>1. /\ d \in Call /\ d.recorded /\ d.changed = c.changed
        /\ d.at = o.at /\ d.answer = o.answer /\ d.op = o.op /\ d.targets = o.targets
        /\ d.lacks = o.lacks /\ d.meant = o.meant /\ d.whole = o.whole /\ d.agenda = o.agenda
    BY <1>3 DEF Call
  <2> HIDE DEF d, o
  <2>2. calls'[r] = d
    BY <1>6
  <2>3. ASSUME NEW q \in Request \ {r}
        PROVE  Alike(q) /\ calls'[q] \in Call
    <3> DEFINE b == calls[q].landed \/ AtStatement(q, "page")
               e == [calls[q] EXCEPT !.landed = b]
    <3>1. calls[q] \in Call /\ calls'[q] = e
      BY <1>2, <1>6 DEF Call
    <3>2. b \in BOOLEAN
      OBVIOUS
    <3> HIDE DEF b
    <3>3. e \in Call /\ e.op = calls[q].op /\ e.targets = calls[q].targets /\ e.lacks = calls[q].lacks
          /\ e.meant = calls[q].meant /\ e.whole = calls[q].whole /\ e.at = calls[q].at
          /\ e.answer = calls[q].answer /\ e.agenda = calls[q].agenda
          /\ e.changed = calls[q].changed /\ e.recorded = calls[q].recorded
      BY <3>1, <3>2 DEF Call
    <3> HIDE DEF e
    <3> QED
      BY <3>1, <3>3 DEF Alike, Unmoved, SameCall
  <2>4. calls' \in [Request -> Call]
    <3>1. \A q \in Request : calls'[q] \in Call
      BY <2>1, <2>2, <2>3
    <3>2. calls' = [q \in Request |-> calls'[q]]
      BY <1>6
    <3> QED
      BY <3>1, <3>2
  <2>5. events' \in Nat /\ purged' \in 0..events'
    BY <1>1, <1>6 DEF AdministrationInv, Rowed
  <2>6. Rowed' /\ Evolves /\ Ever' = Ever
    BY <1>1, <2>4, <2>5 DEF AdministrationInv, Rowed, Evolves, Ever
  <2>7. \A q \in Request \ {r} : Alike(q)
    BY <2>3
  <2> QED
    BY <1>1, <1>4, <1>5, <2>1, <2>2, <2>6, <2>7, Written DEF o
<1>7. CASE AccountRow(ActorOf[r]) \notin present /\ Becomes(r, o) /\ UNCHANGED events
  <2> HIDE DEF o
  <2>1. calls'[r] = o /\ \A q \in Request \ {r} : Alike(q)
    BY <1>3, <1>7, CallsAre
  <2>2. calls' \in [Request -> Call]
    BY <1>3, <1>7, CallsTyped
  <2>3. Rowed' /\ Evolves /\ Ever' = Ever
    BY <1>1, <1>7, <2>2, Quiet
  <2>4. AccountRow(ActorOf[r]) \notin present'
    BY <1>1, <1>7
  <2> QED
    BY <1>1, <1>3, <1>4, <1>5, <2>1, <2>3, <2>4, Written DEF o
<1> QED
  BY <1>6, <1>7 DEF RecordEvent

LEMMA TrailIs ==
  ASSUME AdministrationInv, NEW S \in SUBSET Trail
  PROVE  /\ Trail \subseteq Nat /\ S \subseteq Nat
         /\ Cardinality(S) \in Nat
<1>1. events \in Nat /\ purged \in Nat
  BY DEF AdministrationInv, Rowed
<1>2. IsFiniteSet(Trail) /\ Trail \subseteq Nat
  BY <1>1, FS_Interval DEF Trail
<1>3. IsFiniteSet(S)
  BY <1>2, FS_Subset
<1> QED
  BY <1>2, <1>3, FS_CardinalityType

(* A query of the page of the trail.                                       *)
LEMMA OnTrail ==
  ASSUME AdministrationInv, NEW r \in Request, AtStatement(r, "count") \/ AtStatement(r, "page"),
         NEW d \in Call, Becomes(r, d), LET o == Onward(calls[r]) IN
           /\ d.at = o.at /\ d.answer = o.answer /\ d.op = o.op /\ d.targets = o.targets
           /\ d.lacks = o.lacks /\ d.meant = o.meant /\ d.whole = o.whole
           /\ d.changed = o.changed /\ d.recorded = o.recorded /\ d.agenda = o.agenda,
         UNCHANGED <<present, events, purged, deleted>>
  PROVE  AdministrationInv'
<1>1. Typed(r) /\ Listed(r) /\ calls[r].at > 0
  BY DEF AdministrationInv, Stands, AtStatement
<1>2. /\ ~Does(calls[r].op, calls[r].at, Changing \cup {"record"})
      /\ ~Does(calls[r].op, calls[r].at, {"require", "requireUnlessOwn"})
      /\ ~Does(calls[r].op, calls[r].at, {"look"})
  BY DEF AtStatement, Does, Now, Steps, Changing
<1>3. calls[r] \in Call /\ calls[r].op # Absent /\ calls[r].at \in 1..Len(Steps(calls[r]))
  BY <1>1, Onwards
<1>4. d.agenda \in {<<>>, calls[r].agenda}
  BY <1>3, OnwardIs
<1>5. \A j \in DOMAIN d.agenda : d.agenda[j][1] = "row" =>
        d.agenda[j][2] \in Ever /\ d.agenda[j][2].kind \in {"user", "organization"}
  BY <1>1, <1>4 DEF Listed
<1> QED
  BY <1>1, <1>2, <1>5, Passes

LEMMA OnCountEvents == ASSUME AdministrationInv, NEW r \in Request, CountEvents(r) PROVE AdministrationInv'
<1> DEFINE o == Onward(calls[r])
           d == [o EXCEPT !.total = Cardinality(Trail)]
<1>1. Typed(r) /\ calls[r].at > 0 /\ AtStatement(r, "count")
  BY DEF AdministrationInv, Stands, CountEvents, AtStatement
<1>2. o \in Call
  BY <1>1, Onwards, OnwardIs
<1>3. Cardinality(Trail) \in Nat
  BY TrailIs
<1>4. /\ d \in Call /\ d.at = o.at /\ d.answer = o.answer /\ d.op = o.op /\ d.targets = o.targets
      /\ d.lacks = o.lacks /\ d.meant = o.meant /\ d.whole = o.whole
      /\ d.changed = o.changed /\ d.recorded = o.recorded /\ d.agenda = o.agenda
  BY <1>2, <1>3 DEF Call
<1>5. Becomes(r, d) /\ UNCHANGED <<present, events, purged, deleted>>
  BY DEF CountEvents
<1> HIDE DEF d
<1> QED
  BY <1>1, <1>4, <1>5, OnTrail

LEMMA OnReadPage == ASSUME AdministrationInv, NEW r \in Request, ReadPage(r) PROVE AdministrationInv'
<1> DEFINE o == Onward(calls[r])
           rows == PageRows(calls[r].offset)
           d == [o EXCEPT !.shown = Cardinality(rows), !.seen = o.seen \cup rows]
<1>1. Typed(r) /\ calls[r].at > 0 /\ AtStatement(r, "page")
  BY DEF AdministrationInv, Stands, ReadPage, AtStatement
<1>2. o \in Call
  BY <1>1, Onwards, OnwardIs
<1>3. rows \subseteq Trail
  BY DEF PageRows
<1>4. Cardinality(rows) \in Nat /\ rows \subseteq Nat
  BY <1>3, TrailIs
<1> HIDE DEF rows, o
<1>5. /\ d \in Call /\ d.at = o.at /\ d.answer = o.answer /\ d.op = o.op /\ d.targets = o.targets
      /\ d.lacks = o.lacks /\ d.meant = o.meant /\ d.whole = o.whole
      /\ d.changed = o.changed /\ d.recorded = o.recorded /\ d.agenda = o.agenda
  BY <1>2, <1>4 DEF Call
<1>6. Becomes(r, d) /\ UNCHANGED <<present, events, purged, deleted>>
  BY <1>2 DEF ReadPage, o, rows, Call
<1> HIDE DEF d
<1> QED
  BY <1>1, <1>5, <1>6, OnTrail DEF o

LEMMA OnPurgeTrail == ASSUME AdministrationInv, PurgeTrail PROVE AdministrationInv'
<1>1. events \in Nat /\ purged \in 0..events
  BY DEF AdministrationInv, Rowed
<1>2. purged' \in 0..events' /\ UNCHANGED <<present, calls, events, deleted>>
  BY <1>1 DEF PurgeTrail, Trail
<1>3. Rowed' /\ Evolves /\ Ever' = Ever
  BY <1>2 DEF AdministrationInv, Rowed, Evolves, Ever
<1>4. \A q \in Request : Alike(q) /\ calls'[q] = calls[q]
  BY <1>2 DEF AdministrationInv, Rowed, Alike, Unmoved, SameCall
<1>5. \A q \in Request : Listed(q)'
  BY <1>2 DEF AdministrationInv, Stands, Listed, Ever
<1>6. \A q \in Request : Stands(q)'
  BY <1>3, <1>4, <1>5, Beside DEF AdministrationInv, Alike
<1>7. Fresh'
  <2>1. \A q \in Request : ToCreate(q)' = ToCreate(q)
    BY <1>2 DEF ToCreate, Of, RowOf
  <2> QED
    BY <1>3, <2>1 DEF AdministrationInv, Fresh
<1> QED
  BY <1>3, <1>6, <1>7 DEF AdministrationInv

LEMMA TheTrail ==
  /\ "list_audit" \in DOMAIN Handler /\ Handler["list_audit"].names = <<>>
  /\ Handler["list_audit"].steps = <<Require, Count, Page>>
  /\ "list_audit" \in RestReads
  BY HandlerAssumption DEF list_audit, Operation, RestReads

LEMMA OnOlder == ASSUME AdministrationInv, NEW r \in Request, Older(r) PROVE AdministrationInv'
<1> DEFINE c == calls[r]
           d == [c EXCEPT !.offset = c.offset + PageSize, !.at = 1, !.answer = Absent]
<1>1. /\ Stands(r) /\ Typed(r) /\ Listed(r) /\ c.op = "list_audit" /\ c.answer = "done"
      /\ UNCHANGED <<present, events, purged, deleted>>
  BY DEF AdministrationInv, Stands, Older
<1>2. c \in Call /\ c.op # Absent /\ c.op \in DOMAIN Handler
  <2>1. "done" # Absent
    BY NamesAssumption
  <2>2. c \in Call /\ c.op # Absent
    BY <1>1, <2>1 DEF Typed
  <2> QED
    BY <2>2 DEF Call
<1>3. /\ Handler[c.op].names = <<>> /\ Handler[c.op].steps = <<Require, Count, Page>>
      /\ c.op \in RestReads
  BY <1>1, <1>2, TheTrail
<1>4. DOMAIN Handler[c.op].names = {} /\ Len(Handler[c.op].steps) = 3 /\ Numbers(c.op) = 1..3
  BY <1>3 DEF Numbers
<1>5. DOMAIN c.targets = {} /\ ~c.changed /\ ~c.recorded
  BY <1>1, <1>2, <1>3, <1>4 DEF Stands, Typed, Meant
<1>6. CASE Becomes(r, Reply(c, "unauthenticated"))
  <2>1. Reason(r, "unauthenticated")
    BY <1>5 DEF Reason
  <2> QED
    BY <1>1, <1>2, <1>6, <2>1, Replied DEF Replies, AppError
<1>7. CASE Becomes(r, d) /\ AccountRow(ActorOf[r]) \in present
  <2>1. /\ d \in Call /\ d.at = 1 /\ d.answer = Absent /\ d.op = c.op /\ d.targets = c.targets
        /\ d.lacks = c.lacks /\ d.meant = c.meant /\ d.whole = c.whole
        /\ d.changed = c.changed /\ d.recorded = c.recorded /\ d.agenda = c.agenda
    <3>1. c.offset + PageSize \in Nat
      BY <1>2, PageAssumption DEF Call
    <3> QED
      BY <1>2, <3>1 DEF Call
  <2> HIDE DEF d
  <2>2. calls'[r] = d /\ \A q \in Request \ {r} : Alike(q)
    BY <1>7, <2>1, CallsAre
  <2>3. Rowed' /\ Evolves /\ Ever' = Ever
    BY <1>1, <1>7, <2>1, CallsTyped, Quiet
  <2>4. SameCall(r) /\ calls'[r].op = c.op
    BY <2>1, <2>2 DEF SameCall
  <2>5. Typed(r)'
    <3>1. 1 \in 0..Len(Handler[c.op].steps) /\ DOMAIN c.targets = DOMAIN Handler[c.op].names
      BY <1>4, <1>5
    <3>2. calls'[r] \in Call /\ calls'[r].op = c.op /\ calls'[r].targets = c.targets
          /\ calls'[r].at = 1 /\ calls'[r].answer = Absent
      BY <2>1, <2>2
    <3> QED
      BY <1>2, <1>5, <3>1, <3>2 DEF Typed
  <2>6. Known(r)'
    <3>1. \A row \in Settled(c.op, 1) : row = <<"user", 0>>
      BY NothingSettled
    <3>2. Of(r, <<"user", 0>>)' = AccountRow(ActorOf[r])
      BY DEF Of, RowOf, AccountRow
    <3> QED
      BY <1>7, <2>1, <2>2, <2>3, <3>1, <3>2 DEF Known, Ever
  <2>7. Whole(r)'
    BY <1>1, <2>3, <2>4, OfKept DEF Stands, Whole, SameCall
  <2>8. Asked(r)'
    BY <1>1, <1>2, <2>1, <2>2, NamesAssumption DEF Stands, Asked, AppError
  <2>9. Meant(r)' /\ KeptOut(r)' /\ Listed(r)'
    BY <1>1, <1>5, <2>1, <2>2, <2>3 DEF Stands, Meant, KeptOut, Listed
  <2>10. Failed(r)'
    BY <2>1, <2>2, NamesAssumption DEF Failed, AppError
  <2>11. Followed(r)' /\ Earned(r)'
    BY <1>5, <2>1, <2>2 DEF Followed, Earned
  <2>12. Stands(r)'
    BY <2>5, <2>6, <2>7, <2>8, <2>9, <2>10, <2>11 DEF Stands
  <2>13. Fresh'
    <3>1. ToCreate(r)' = {}
      <4>1. \A n \in Numbers(c.op) : ~Creates(c.op, n)
        BY <1>3, <1>4 DEF Creates, Does, Require, Count, Page
      <4> QED
        BY <2>1, <2>2, <4>1 DEF ToCreate
    <3>2. ASSUME NEW q \in Request \ {r} PROVE ToCreate(q)' = ToCreate(q)
      <4>1. calls'[q].op = calls[q].op /\ calls'[q].at = calls[q].at
        BY <2>2 DEF Alike, Unmoved, SameCall
      <4>2. \A row : Of(q, row)' = Of(q, row)
        BY <2>2, OfKept DEF Alike, Unmoved
      <4> QED
        BY <4>1, <4>2 DEF ToCreate
    <3> QED
      BY <2>3, <3>1, <3>2 DEF AdministrationInv, Fresh
  <2> QED
    BY <2>2, <2>3, <2>12, <2>13, OthersStand
<1>8. [c EXCEPT !.offset = @ + PageSize, !.at = 1, !.answer = Absent] = d
  BY <1>2 DEF Call
<1> QED
  BY <1>6, <1>7, <1>8 DEF Older

-----------------------------------------------------------------------------
(* Arrival.                                                                *)

LEMMA BlankIs == BlankCall \in Call
<1>1. <<>> \in Seq(Account \cup RowId \cup {Elsewhere, Nowhere})
      /\ <<>> \in Seq({"row", "members"} \X Thing)
  BY EmptySeq
<1> QED
  BY <1>1 DEF BlankCall, Call

LEMMA BegunIs ==
  ASSUME AdministrationInv, NEW r, NEW op \in DOMAIN Handler, NEW targets \in Targets(r, op), NEW held,
         NEW meant \in BOOLEAN
  PROVE  LET d == BegunCall(r, op, targets, held, meant)
         IN /\ d \in Call /\ d.op = op /\ op # Absent /\ d.targets = targets /\ d.meant = meant
            /\ d.lacks => Handler[op].needs # {}
            /\ ~d.changed /\ ~d.recorded /\ d.agenda = <<>>
            /\ d.whole => \A row \in Sought(op) :
                 LET t == RowOf(r, d, row)
                 IN t \in present /\ Reaches(d, t) /\ SameRealm(t)
            /\ IF Handler[op].steps = <<>> THEN d.at = 0 /\ d.answer = "done"
               ELSE d.at = 1 /\ d.answer = Absent
<1> DEFINE call == [BlankCall EXCEPT !.op = op, !.targets = targets, !.meant = meant,
                      !.lacks = \E p \in Handler[op].needs : ~Can(held, p),
                      !.due = IF op = "list_audit" THEN Trail ELSE {}]
           whole == \A row \in Sought(op) : LET t == RowOf(r, call, row)
                                            IN IsFound(call, t) /\ SameRealm(t)
           d == BegunCall(r, op, targets, held, meant)
           names == Handler[op].names
<1>1. Len(names) \in Nat /\ DOMAIN names = 1..Len(names)
  BY Lengths
<1>2. targets \in Seq(Account \cup RowId \cup {Elsewhere, Nowhere})
  <2>1. targets \in [1..Len(names) -> Aims[r]] /\ \A i \in DOMAIN targets : TargetFits(op, i, targets[i])
    BY DEF Targets
  <2>2. \A i \in 1..Len(names) : targets[i] \in Account \cup RowId \cup {Elsewhere, Nowhere}
    BY <2>1 DEF TargetFits, Ids
  <2> QED
    BY <1>1, <2>1, <2>2
<1>3. (IF op = "list_audit" THEN Trail ELSE {}) \in SUBSET Nat
  BY TrailIs
<1>4. (\E p \in Handler[op].needs : ~Can(held, p)) \in BOOLEAN
  OBVIOUS
<1>5. /\ call \in Call /\ call.op = op /\ call.targets = targets /\ call.meant = meant
      /\ call.lacks = (\E p \in Handler[op].needs : ~Can(held, p))
      /\ call.changed = FALSE /\ call.recorded = FALSE /\ call.agenda = <<>> /\ call.at = 0
      /\ call.answer = Absent /\ call.whole = FALSE
  <2> DEFINE lacks == \E p \in Handler[op].needs : ~Can(held, p)
             due == IF op = "list_audit" THEN Trail ELSE {}
             v == [BlankCall EXCEPT !.op = op, !.targets = targets, !.meant = meant, !.lacks = lacks, !.due = due]
  <2>1. lacks \in BOOLEAN /\ due \in SUBSET Nat
    BY <1>3, <1>4
  <2>2. v = call
    OBVIOUS
  <2> HIDE DEF lacks, due, call
  <2>3. v \in Call /\ v.op = op /\ v.targets = targets /\ v.meant = meant /\ v.lacks = lacks
    BY <1>2, <2>1, BlankIs DEF Call
  <2>4. /\ v.changed = BlankCall.changed /\ v.recorded = BlankCall.recorded /\ v.agenda = BlankCall.agenda
        /\ v.at = BlankCall.at /\ v.answer = BlankCall.answer /\ v.whole = BlankCall.whole
    BY BlankIs DEF Call
  <2> HIDE DEF v
  <2> QED
    BY <2>2, <2>3, <2>4 DEF BlankCall, lacks
<1>6. op # Absent
  BY NamesAssumption
<1>7. whole \in BOOLEAN
  OBVIOUS
<1>8. d = IF Steps(call) = <<>> THEN Reply([call EXCEPT !.whole = whole], "done")
          ELSE [call EXCEPT !.whole = whole, !.at = 1]
  BY DEF BegunCall
<1> DEFINE w == [call EXCEPT !.whole = whole]
           w1 == [call EXCEPT !.whole = whole, !.at = 1]
<1>9. \A b \in BOOLEAN : LET v == [call EXCEPT !.whole = b]  v1 == [call EXCEPT !.whole = b, !.at = 1]
      IN /\ v \in Call /\ v.op = call.op /\ v.targets = call.targets /\ v.meant = call.meant
         /\ v.lacks = call.lacks /\ v.changed = call.changed /\ v.recorded = call.recorded
         /\ v.agenda = call.agenda /\ v.at = call.at /\ v.answer = call.answer /\ v.whole = b
         /\ v1 \in Call /\ v1.op = call.op /\ v1.targets = call.targets /\ v1.meant = call.meant
         /\ v1.lacks = call.lacks /\ v1.changed = call.changed /\ v1.recorded = call.recorded
         /\ v1.agenda = call.agenda /\ v1.at = 1 /\ v1.answer = call.answer /\ v1.whole = b
  <2> TAKE b \in BOOLEAN
  <2> DEFINE v == [call EXCEPT !.whole = b]
             v1 == [call EXCEPT !.whole = b, !.at = 1]
  <2>1. call \in Call
    BY <1>5
  <2> HIDE DEF call
  <2>2. v \in Call /\ v1 \in Call
    BY <2>1 DEF Call
  <2>3. /\ v.op = call.op /\ v.targets = call.targets /\ v.meant = call.meant
        /\ v.lacks = call.lacks /\ v.changed = call.changed /\ v.recorded = call.recorded
        /\ v.agenda = call.agenda /\ v.at = call.at /\ v.answer = call.answer /\ v.whole = b
    BY <2>1 DEF Call
  <2>4. /\ v1.op = call.op /\ v1.targets = call.targets /\ v1.meant = call.meant
        /\ v1.lacks = call.lacks /\ v1.changed = call.changed /\ v1.recorded = call.recorded
        /\ v1.agenda = call.agenda /\ v1.at = 1 /\ v1.answer = call.answer /\ v1.whole = b
    BY <2>1 DEF Call
  <2> QED
    BY <2>2, <2>3, <2>4
<1>10. Steps(call) = Handler[op].steps
  BY <1>5 DEF Steps
<1>11. ASSUME NEW e, e.op = call.op, e.targets = call.targets, whole
       PROVE  \A row \in Sought(op) : LET t == RowOf(r, e, row)
                                      IN t \in present /\ Reaches(e, t) /\ SameRealm(t)
  <2> SUFFICES ASSUME NEW row \in Sought(op)
               PROVE  LET t == RowOf(r, e, row) IN t \in present /\ Reaches(e, t) /\ SameRealm(t)
    OBVIOUS
  <2> DEFINE t == RowOf(r, call, row)
  <2>1. IsFound(call, t) /\ SameRealm(t)
    BY <1>11
  <2> HIDE DEF call
  <2>2. RowOf(r, e, row) = t
    BY <1>11 DEF RowOf
  <2>3. Named(e) = Named(call)
    BY <1>11 DEF Named
  <2>4. Reaches(e, t)
    BY <1>11, <2>1, <2>3 DEF IsFound, Reaches
  <2> QED
    BY <2>1, <2>2, <2>4 DEF IsFound
<1> HIDE DEF call, whole
<1>12. CASE Steps(call) = <<>>
  <2>1. d = Reply(w, "done")
    BY <1>8, <1>12
  <2>2. w \in Call /\ w.op = call.op /\ w.targets = call.targets /\ w.meant = call.meant
        /\ w.lacks = call.lacks /\ w.changed = call.changed /\ w.recorded = call.recorded
        /\ w.whole = whole
    BY <1>7, <1>9
  <2> HIDE DEF w, d
  <2>3. /\ d \in Call /\ d.at = 0 /\ d.answer = "done" /\ d.agenda = <<>>
        /\ d.op = call.op /\ d.targets = call.targets /\ d.meant = call.meant /\ d.lacks = call.lacks
        /\ d.changed = call.changed /\ d.recorded = call.recorded /\ d.whole = whole
    BY <2>1, <2>2, ReplyIs DEF Replies
  <2>4. d.lacks => Handler[op].needs # {}
    BY <1>5, <2>3
  <2>5. d.whole => \A row \in Sought(op) : LET t == RowOf(r, d, row)
                                           IN t \in present /\ Reaches(d, t) /\ SameRealm(t)
    BY <1>11, <2>3
  <2> QED
    BY <1>5, <1>6, <1>10, <1>12, <2>3, <2>4, <2>5 DEF d
<1>13. CASE Steps(call) # <<>>
  <2>1. d = w1
    BY <1>8, <1>13
  <2>2. w1 \in Call /\ w1.op = call.op /\ w1.targets = call.targets /\ w1.meant = call.meant
        /\ w1.lacks = call.lacks /\ w1.changed = call.changed /\ w1.recorded = call.recorded
        /\ w1.agenda = call.agenda /\ w1.at = 1 /\ w1.answer = call.answer /\ w1.whole = whole
    BY <1>7, <1>9
  <2> HIDE DEF w1, d
  <2>4. d.lacks => Handler[op].needs # {}
    BY <1>5, <2>1, <2>2
  <2>5. d.whole => \A row \in Sought(op) : LET t == RowOf(r, d, row)
                                           IN t \in present /\ Reaches(d, t) /\ SameRealm(t)
    BY <1>11, <2>1, <2>2
  <2> QED
    BY <1>5, <1>6, <1>10, <1>13, <2>1, <2>2, <2>4, <2>5 DEF d
<1> QED
  BY <1>12, <1>13

LEMMA Arrives ==
  ASSUME AdministrationInv, NEW r \in Request, Waiting(r), NEW op \in DOMAIN Handler,
         NEW targets \in Targets(r, op),
         NEW held, NEW meant \in BOOLEAN, Becomes(r, BegunCall(r, op, targets, held, meant)),
         op \notin RestReads => meant,
         op \in Unsigned \/ AccountRow(ActorOf[r]) \in present,
         UNCHANGED <<present, events, purged, deleted>>
  PROVE  AdministrationInv'
<1> DEFINE d == BegunCall(r, op, targets, held, meant)
           names == Handler[op].names
<1>1. /\ d \in Call /\ d.op = op /\ op # Absent /\ d.targets = targets /\ d.meant = meant
      /\ d.lacks => Handler[op].needs # {}
      /\ ~d.changed /\ ~d.recorded /\ d.agenda = <<>>
      /\ d.whole => \A row \in Sought(op) :
           LET t == RowOf(r, d, row)
           IN t \in present /\ Reaches(d, t) /\ SameRealm(t)
      /\ IF Handler[op].steps = <<>> THEN d.at = 0 /\ d.answer = "done"
         ELSE d.at = 1 /\ d.answer = Absent
  BY BegunIs
<1> HIDE DEF d
<1>2. Becomes(r, d)
  BY DEF d
<1>3. /\ calls'[r] = d
      /\ \A q \in Request \ {r} : calls'[q] = calls[q] /\ Alike(q)
  BY <1>1, <1>2, CallsAre
<1>4. Rowed' /\ Evolves /\ Ever' = Ever
  BY <1>1, <1>2, CallsTyped, Quiet
<1>5. /\ Len(names) \in Nat /\ DOMAIN names = 1..Len(names)
      /\ Len(Handler[op].steps) \in Nat /\ Numbers(op) = 1..Len(Handler[op].steps)
  BY Lengths
<1>6. DOMAIN targets = DOMAIN names /\ \A i \in DOMAIN targets : TargetFits(op, i, targets[i])
  BY <1>5 DEF Targets
<1>7. \/ d.at = 1 /\ d.answer = Absent /\ 1 \in Numbers(op)
      \/ d.at = 0 /\ d.answer = "done" /\ Numbers(op) = {}
  <2>1. CASE Handler[op].steps = <<>>
    BY <1>1, <2>1 DEF Numbers
  <2>2. CASE Handler[op].steps # <<>>
    <3>1. 1 \in Numbers(op)
      BY <2>2, Table DEF Formed
    <3> QED
      BY <1>1, <2>2, <3>1
  <2> QED
    BY <2>1, <2>2
<1>8. Typed(r)'
  <2>1. d.at \in 0..Len(Handler[op].steps) /\ (d.at > 0 <=> d.answer = Absent)
    BY <1>5, <1>7, NamesAssumption
  <2>2. \A i \in DOMAIN targets : <<names[i], i>> \in Inserted(op) =>
          targets[i] \in Ids(names[i]) \ {Elsewhere}
    BY <1>6 DEF TargetFits
  <2> QED
    BY <1>1, <1>3, <1>6, <2>1, <2>2 DEF Typed
<1>9. Known(r)'
  <2>1. ASSUME d.at > 0, NEW row \in Settled(op, 1) PROVE Of(r, row)' \in Ever'
    <3>1. op \notin Unsigned /\ row = <<"user", 0>>
      BY NothingSettled
    <3>2. Of(r, row)' = AccountRow(ActorOf[r])
      BY <3>1 DEF Of, RowOf, AccountRow
    <3> QED
      BY <1>4, <3>1, <3>2 DEF Ever
  <2> QED
    BY <1>1, <1>3, <1>7, <2>1 DEF Known
<1>10. Whole(r)'
  <2>1. \A row : Of(r, row)' = RowOf(r, d, row)
    BY <1>3 DEF Of
  <2> QED
    BY <1>1, <1>3, <1>4, <2>1 DEF Whole, Ever
<1>11. Asked(r)'
  BY <1>1, <1>3, <1>7, NamesAssumption DEF Asked, AppError
<1>12. Meant(r)' /\ Listed(r)'
  BY <1>1, <1>3 DEF Meant, Listed
<1>13. KeptOut(r)'
  <2> SUFFICES ASSUME NEW i \in DOMAIN targets, Foreign(r, i)'
               PROVE  d.answer = Absent /\ d.at = 1 /\ \A n \in Numbers(op) : 1 <= n
    BY <1>1, <1>3 DEF KeptOut
  <2>1. op \notin DOMAIN Open /\ op # "accept_invitation" /\ targets[i] = Elsewhere
        /\ ~(op = "revoke_group_role" /\ i = 2)
    BY <1>1, <1>3 DEF Foreign
  <2>2. <<names[i], i>> \notin Inserted(op)
    BY <1>6, <2>1 DEF TargetFits
  <2>3. Numbers(op) # {}
    BY <1>6, <2>1, <2>2, Table DEF KeepsOut
  <2> QED
    BY <1>5, <1>7, <2>3
<1>14. Failed(r)' /\ Followed(r)'
  BY <1>1, <1>3, <1>7, NamesAssumption DEF Failed, Followed, AppError
<1>15. Earned(r)'
  BY <1>1, <1>3, <1>7 DEF Earned
<1>16. Stands(r)'
  BY <1>8, <1>9, <1>10, <1>11, <1>12, <1>13, <1>14, <1>15 DEF Stands
<1>17. Fresh'
  <2>1. ASSUME NEW t \in ToCreate(r)'
        PROVE  /\ t \notin Ever
               /\ \A q \in Request \ {r} : t \notin ToCreate(q)
    <3>1. PICK n \in Numbers(op) : t = RowOf(r, d, Handler[op].steps[n].row) /\ Creates(op, n)
      BY <1>1, <1>3 DEF ToCreate, Of
    <3> DEFINE i == Handler[op].steps[n].row[2]
    <3>2. /\ Handler[op].steps[n].row = <<"group", i>> /\ i \in DOMAIN names /\ names[i] = "group"
          /\ <<"group", i>> \in Inserted(op)
      <4>1. InsertsFit(op) /\ Does(op, n, {"insert"}) /\ Handler[op].steps[n].row[1] = "group"
        BY <3>1, Table DEF Creates
      <4>2. /\ Handler[op].steps[n].row = <<Handler[op].steps[n].row[1], i>> /\ i \in DOMAIN names
            /\ \/ Handler[op].steps[n].row[1] = names[i]
               \/ <<Handler[op].steps[n].row[1], names[i]>>
                    \in {<<"api_token", "user">>, <<"invitation", "organization">>}
        BY <4>1, Zenon DEF InsertsFit
      <4>3. Handler[op].steps[n].row \in Inserted(op)
        BY <4>1 DEF Inserted, RowsOf
      <4> QED
        BY <4>1, <4>2, <4>3
    <3>3. t = [kind |-> "group", id |-> targets[i]]
      BY <1>1, <1>5, <3>1, <3>2 DEF RowOf
    <3>4. t \notin present \cup deleted \cup Coming
      BY <1>6, <3>2, <3>3 DEF TargetFits
    <3>5. ASSUME NEW q \in Request \ {r}, t \in ToCreate(q) PROVE t \in Coming
      <4>1. calls[q].at # 0
        BY <3>5 DEF ToCreate
      <4>2. PICK m \in Numbers(calls[q].op) :
              t = Of(q, Handler[calls[q].op].steps[m].row) /\ Creates(calls[q].op, m)
        BY <3>5 DEF ToCreate
      <4>3. Handler[calls[q].op].steps[m].row \in Inserted(calls[q].op)
        BY <4>2 DEF Creates, Inserted, RowsOf
      <4>4. calls[q].at > 0
        BY <4>1 DEF AdministrationInv, Rowed, Call
      <4> QED
        BY <4>2, <4>3, <4>4 DEF Coming, Of
    <3> QED
      BY <3>4, <3>5 DEF Ever
  <2>2. ASSUME NEW q \in Request \ {r} PROVE ToCreate(q)' = ToCreate(q)
    <3>1. calls'[q] = calls[q]
      BY <1>3
    <3> QED
      BY <3>1 DEF ToCreate, Of, RowOf
  <2> QED
    BY <1>4, <2>1, <2>2 DEF AdministrationInv, Fresh
<1> QED
  BY <1>3, <1>4, <1>16, <1>17, OthersStand

LEMMA OnArrival ==
  ASSUME AdministrationInv, NEW r \in Request, ArriveRest(r) \/ ArriveConsole(r) \/ ArriveUnsigned(r)
  PROVE  AdministrationInv'
<1>1. \A op \in Offers[r] : op \in DOMAIN Handler
  BY OfferAssumption
<1>2. CASE ArriveRest(r)
  <2>1. /\ Waiting(r) /\ AccountRow(ActorOf[r]) \in present /\ UNCHANGED <<present, events, purged, deleted>>
        /\ \E op \in Offers[r], held \in Holdings, meant \in BOOLEAN :
             /\ PassesCsrf(op, meant)
             /\ \E targets \in Targets(r, op) : Becomes(r, BegunCall(r, op, targets, held, meant))
    BY <1>2 DEF ArriveRest
  <2>2. PICK op \in Offers[r], held \in Holdings, meant \in BOOLEAN :
          /\ PassesCsrf(op, meant)
          /\ \E targets \in Targets(r, op) : Becomes(r, BegunCall(r, op, targets, held, meant))
    BY <2>1
  <2> QED
    BY <1>1, <2>1, <2>2, Arrives DEF PassesCsrf
<1>3. CASE ArriveConsole(r)
  <2>1. /\ Waiting(r) /\ AccountRow(ActorOf[r]) \in present /\ UNCHANGED <<present, events, purged, deleted>>
        /\ \E op \in Offers[r], held \in Holdings :
             \E targets \in Targets(r, op) : Becomes(r, BegunCall(r, op, targets, held, TRUE))
    BY <1>3 DEF ArriveConsole
  <2> QED
    BY <1>1, <2>1, Arrives
<1>4. CASE ArriveUnsigned(r)
  <2>1. /\ Waiting(r) /\ UNCHANGED <<present, events, purged, deleted>>
        /\ \E op \in Offers[r] \cap Unsigned :
             \E targets \in Targets(r, op) : Becomes(r, BegunCall(r, op, targets, {}, TRUE))
    BY <1>4 DEF ArriveUnsigned
  <2> QED
    BY <1>1, <2>1, Arrives
<1> QED
  BY <1>2, <1>3, <1>4

LEMMA OnTurnAway == ASSUME AdministrationInv, NEW r \in Request, TurnAway(r) PROVE AdministrationInv'
<1>1. PICK answer \in {"unauthenticated", "forbidden", "malformed"} : Becomes(r, Reply(BlankCall, answer))
  BY DEF TurnAway
<1> DEFINE d == Reply(BlankCall, answer)
<1>2. answer \in Replies
  BY DEF Replies, AppError
<1>3. BlankCall.op = Absent /\ BlankCall.changed = FALSE /\ BlankCall.recorded = FALSE /\ BlankCall.targets = <<>>
  BY DEF BlankCall
<1>4. /\ d \in Call /\ d.at = 0 /\ d.answer = answer /\ d.agenda = <<>> /\ d.op = Absent
      /\ ~d.changed /\ ~d.recorded
  BY <1>2, <1>3, BlankIs, ReplyIs
<1> HIDE DEF d
<1>5. Becomes(r, d)
  BY <1>1 DEF d
<1>6. calls'[r] = d /\ \A q \in Request \ {r} : calls'[q] = calls[q] /\ Alike(q)
  BY <1>4, <1>5, CallsAre
<1>7. Rowed' /\ Evolves /\ Ever' = Ever
  BY <1>4, <1>5, CallsTyped, Quiet DEF TurnAway
<1>8. Typed(r)'
  BY <1>4, <1>6 DEF Typed
<1>9. Known(r)' /\ Whole(r)' /\ Asked(r)' /\ Meant(r)' /\ Listed(r)'
  BY <1>4, <1>6 DEF Known, Whole, Asked, Meant, Listed
<1>10. KeptOut(r)' /\ Failed(r)' /\ Followed(r)' /\ Earned(r)'
  BY <1>4, <1>6 DEF KeptOut, Foreign, Failed, Followed, Earned
<1>11. Stands(r)'
  BY <1>8, <1>9, <1>10 DEF Stands
<1>12. Fresh'
  <2>1. ToCreate(r)' = {}
    BY <1>4, <1>6 DEF ToCreate
  <2>2. ASSUME NEW q \in Request \ {r} PROVE ToCreate(q)' = ToCreate(q)
    <3>1. calls'[q] = calls[q]
      BY <1>6
    <3> QED
      BY <3>1 DEF ToCreate, Of, RowOf
  <2> QED
    BY <1>7, <2>1, <2>2 DEF AdministrationInv, Fresh
<1> QED
  BY <1>6, <1>7, <1>11, <1>12, OthersStand

-----------------------------------------------------------------------------

LEMMA AtFirst == AdministrationInit => AdministrationInv
<1> SUFFICES ASSUME AdministrationInit PROVE AdministrationInv
  OBVIOUS
<1>1. \A t \in present : HangsOn(t) \subseteq present
  <2> SUFFICES ASSUME NEW t \in present, NEW h \in HangsOn(t) PROVE h \in present
    OBVIOUS
  <2>1. t \in Thing /\ (IF t.kind \in OfAccounts THEN t.id \in AccountsAtStart \cup {Elsewhere}
                        ELSE t.id \in RowsAtStart \cup {Elsewhere})
    BY DEF AdministrationInit
  <2>2. CASE h = AccountRow(t.id) /\ t.kind \in {"api_token", "federated_identity"}
    <3>1. t.id \in AccountsAtStart \cup {Elsewhere}
      BY <2>1, <2>2 DEF OfAccounts
    <3>2. "user" \in OfAccounts /\ t.id \in Ids("user")
      BY <3>1, ActorAssumption DEF Ids, OfAccounts
    <3>3. h = [kind |-> "user", id |-> t.id]
      BY <2>2 DEF AccountRow
    <3>4. h \in Thing
      BY <3>2, <3>3 DEF Thing
    <3> QED
      BY <3>1, <3>3, <3>4 DEF AdministrationInit, OfAccounts
  <2>3. CASE h = [kind |-> "identity_provider", id |-> IF t.id = Elsewhere THEN Elsewhere ELSE Upstream]
    <3>1. h.id \in RowsAtStart \cup {Elsewhere}
      BY <2>3, RowAssumption
    <3>2. "identity_provider" \in OfRows /\ h.id \in Ids("identity_provider")
      BY <3>1, RowAssumption DEF Ids, OfAccounts, OfRows
    <3>3. h = [kind |-> "identity_provider", id |-> h.id]
      BY <2>3
    <3>4. h \in Thing
      BY <3>2, <3>3 DEF Thing
    <3> QED
      BY <3>1, <3>3, <3>4 DEF AdministrationInit, OfAccounts
  <2>4. CASE h = [kind |-> "organization", id |-> t.id] /\ t.kind = "invitation"
    <3>1. h.id \in RowsAtStart \cup {Elsewhere}
      BY <2>1, <2>4 DEF OfAccounts
    <3>2. h \in Thing /\ h.kind = "organization"
      BY <2>4, <3>1, RowAssumption DEF Thing, Ids, OfAccounts, OfRows
    <3> QED
      BY <3>1, <3>2 DEF AdministrationInit, OfAccounts
  <2> QED
    BY <2>2, <2>3, <2>4 DEF HangsOn
<1>2. calls = [q \in Request |-> BlankCall] /\ \A r \in Request : calls[r] = BlankCall
  BY DEF AdministrationInit
<1>3. BlankCall.op = Absent /\ BlankCall.at = 0 /\ BlankCall.answer = Absent /\ BlankCall.changed = FALSE
      /\ BlankCall.recorded = FALSE /\ BlankCall.agenda = <<>>
  BY DEF BlankCall
<1>4. Rowed
  <2>1. present \subseteq Thing /\ deleted = {} /\ Ever = present
    BY DEF AdministrationInit, Ever
  <2>2. events \in Nat /\ purged \in 0..events
    BY PageAssumption DEF AdministrationInit
  <2>3. calls \in [Request -> Call]
    BY <1>2, BlankIs
  <2> QED
    BY <1>1, <2>1, <2>2, <2>3 DEF Rowed
<1>5. Fresh
  BY <1>2, <1>3 DEF Fresh, ToCreate
<1>6. ASSUME NEW r \in Request PROVE Stands(r)
  <2>1. Typed(r) /\ Known(r) /\ Whole(r) /\ Asked(r) /\ Meant(r) /\ Listed(r)
    BY <1>2, <1>3, BlankIs DEF Typed, Known, Whole, Asked, Meant, Listed
  <2>2. KeptOut(r) /\ Failed(r) /\ Followed(r) /\ Earned(r)
    BY <1>2, <1>3 DEF KeptOut, Foreign, Failed, Followed, Earned
  <2> QED
    BY <2>1, <2>2 DEF Stands
<1> QED
  BY <1>4, <1>5, <1>6 DEF AdministrationInv

LEMMA StepByStep == AdministrationInv /\ [AdministrationNext]_administrationVars => AdministrationInv'
<1> SUFFICES ASSUME AdministrationInv, [AdministrationNext]_administrationVars PROVE AdministrationInv'
  OBVIOUS
<1>1. CASE UNCHANGED administrationVars
  <2>1. UNCHANGED <<present, calls, events, purged, deleted>>
    BY <1>1 DEF administrationVars
  <2>2. Rowed' /\ Evolves /\ Ever' = Ever
    BY <2>1 DEF AdministrationInv, Rowed, Evolves, Ever
  <2>3. \A q \in Request : Alike(q) /\ calls'[q] = calls[q]
    BY <2>1 DEF AdministrationInv, Rowed, Alike, Unmoved, SameCall
  <2>4. \A q \in Request : Listed(q)'
    BY <2>1 DEF AdministrationInv, Stands, Listed, Ever
  <2>5. \A q \in Request : Stands(q)'
    BY <2>2, <2>3, <2>4, Beside DEF AdministrationInv, Alike
  <2>6. Fresh'
    <3>1. \A q \in Request : ToCreate(q)' = ToCreate(q)
      BY <2>1 DEF ToCreate, Of, RowOf
    <3> QED
      BY <2>2, <3>1 DEF AdministrationInv, Fresh
  <2> QED
    BY <2>2, <2>5, <2>6 DEF AdministrationInv
<1>2. ASSUME NEW r \in Request, Statement(r) PROVE AdministrationInv'
  <2>1. CASE Demand(r) \/ DemandUnlessOwn(r) \/ Check(r) \/ SpareActor(r) \/ Read(r)
    BY <2>1, OnDemand, OnDemandUnlessOwn, OnCheck, OnSpareActor, OnRead
  <2>2. CASE Find(r) \/ List(r) \/ FindListed(r)
    BY <2>2, OnFind, OnList, OnFindListed
  <2>3. CASE InsertRow(r) \/ JoinRows(r) \/ ChangeRow(r) \/ RemoveRow(r)
    BY <2>3, OnInsertRow, OnJoinRows, OnChangeRow, OnRemoveRow
  <2>4. CASE RecordEvent(r) \/ CountEvents(r) \/ ReadPage(r)
    BY <2>4, OnRecordEvent, OnCountEvents, OnReadPage
  <2> QED
    BY <1>2, <2>1, <2>2, <2>3, <2>4 DEF Statement
<1> QED
  BY <1>1, <1>2, OnArrival, OnTurnAway, OnAbort, OnOlder, OnPurgeTrail DEF AdministrationNext

(* What a call has established, changed and recorded, and what others have *)
(* deleted, always fit each other: the invariant that the properties below *)
(* follow from.                                                            *)
THEOREM AdministrationInvariant == AdministrationSpec => []AdministrationInv
<1> QED
  BY AtFirst, StepByStep, PTL DEF AdministrationSpec

-----------------------------------------------------------------------------

(* Every call is at a statement of its operation; what a row hangs on is   *)
(* there (the foreign keys of the migrations).                             *)
THEOREM AdministrationTyping == AdministrationSpec => []AdministrationTypeOK
<1>1. ASSUME AdministrationInv PROVE AdministrationTypeOK
  <2>1. ASSUME NEW r \in Request, calls[r].op # Absent
        PROVE  calls[r].at <= Len(Handler[calls[r].op].steps)
    <3>1. calls[r] \in Call /\ calls[r].at \in 0..Len(Handler[calls[r].op].steps)
      BY <1>1, <2>1 DEF AdministrationInv, Stands, Typed
    <3>2. Len(Handler[calls[r].op].steps) \in Nat
      BY <2>1, <3>1, Lengths DEF Call
    <3> QED
      BY <3>1, <3>2
  <2> QED
    BY <1>1, <2>1 DEF AdministrationInv, Rowed, AdministrationTypeOK
<1> QED
  BY <1>1, AdministrationInvariant, PTL

LEMMA TellsNothing == AdministrationInv => RefusalsTellNothing
<1> SUFFICES ASSUME AdministrationInv, NEW r \in Request,
                    calls[r].op \notin {Absent} \cup DOMAIN Open, ~Burnt(calls[r]),
                    Elsewhere \in IF calls[r].op = "revoke_group_role" THEN {calls[r].targets[1]}
                                  ELSE Range(calls[r].targets)
             PROVE  /\ ~calls[r].changed /\ ~calls[r].recorded
                    /\ Answered(calls[r]) =>
                         calls[r].answer \in {"notFound", "forbidden", "refused", "aborted"}
                    /\ calls[r].answer = "notFound" => ~calls[r].lacks \/ calls[r].op = "revoke_api_token"
  BY DEF RefusalsTellNothing
<1> DEFINE c == calls[r]
           names == Handler[c.op].names
<1>1. Stands(r) /\ Typed(r) /\ c \in Call /\ c.op \in DOMAIN Handler /\ c.op # Absent
  BY DEF AdministrationInv, Rowed, Stands, Call
<1>2. DOMAIN c.targets = DOMAIN names /\ DOMAIN names = 1..Len(names) /\ Len(names) \in Nat
  BY <1>1, Lengths DEF Typed
<1>3. PICK i \in DOMAIN c.targets : c.targets[i] = Elsewhere /\ (c.op = "revoke_group_role" => i = 1)
  <2>1. CASE c.op = "revoke_group_role"
    <3>1. Len(names) = 2
      BY <1>1, <2>1, Table DEF KeepsOut
    <3>2. 1 \in DOMAIN c.targets
      BY <1>2, <3>1
    <3> QED
      BY <2>1, <3>2
  <2>2. CASE c.op # "revoke_group_role"
    BY <2>2 DEF Range
  <2> QED
    BY <2>1, <2>2
<1>4. c.op # "accept_invitation"
  <2>1. SUFFICES ASSUME c.op = "accept_invitation" PROVE FALSE
    OBVIOUS
  <2>2. Len(names) = 1
    BY <1>1, <2>1, Table DEF KeepsOut
  <2>3. i = 1
    BY <1>2, <1>3, <2>2
  <2> QED
    BY <1>3, <2>1, <2>3 DEF Burnt
<1>5. Foreign(r, i)
  BY <1>1, <1>3, <1>4 DEF Foreign
<1>6. /\ ~c.changed /\ ~c.recorded
      /\ c.answer \in {Absent, "notFound", "forbidden", "refused", "aborted"}
  BY <1>1, <1>5 DEF Stands, KeptOut
<1>7. c.answer = "notFound" => ~c.lacks \/ c.op = "revoke_api_token"
  BY <1>1 DEF Stands, Asked
<1> QED
  BY <1>6, <1>7 DEF Answered

(* What a call answers tells a caller nothing of another realm and nothing *)
(* that a missing permission should keep from him; it fails for want of a  *)
(* row only when that row was deleted meanwhile; and what another site's   *)
(* page has a browser ask for changes nothing (identity/src/admin.rs,      *)
(* server/src/auth.rs).                                                    *)
THEOREM AnswersAreFit == AdministrationSpec => []AnswersFit
<1>1. ASSUME AdministrationInv PROVE FailuresNeedRaces
  <2> SUFFICES ASSUME NEW r \in Request
               PROVE  /\ calls[r].answer = "internal" => Raced(r)
                      /\ calls[r].answer = "notFound" /\ calls[r].whole =>
                           Raced(r) \/ calls[r].op = "peek_invitation"
    BY DEF FailuresNeedRaces
  <2>1. Typed(r) /\ Failed(r)
    BY <1>1 DEF AdministrationInv, Stands
  <2>2. CASE calls[r].op = Absent
    BY <2>1, <2>2, NamesAssumption DEF Typed, AppError
  <2>3. CASE calls[r].op # Absent
    BY <2>1, <2>3 DEF Failed
  <2> QED
    BY <2>2, <2>3
<1>2. ASSUME AdministrationInv PROVE UnmeantCallsOnlyRead
  BY <1>2 DEF AdministrationInv, Stands, Meant, UnmeantCallsOnlyRead
<1>3. AdministrationInv => AnswersFit
  BY <1>1, <1>2, TellsNothing DEF AnswersFit
<1> QED
  BY <1>3, AdministrationInvariant, PTL

(* Every change that was not cut short is in the trail, and the trail says *)
(* nothing that was not done, but for races with a deletion                *)
(* (identity/src/audit.rs, and the handlers of server/src/api.rs).         *)
THEOREM TrailIsFit == AdministrationSpec => []TrailFits
<1>1. ASSUME AdministrationInv, NEW r \in Request
      PROVE  /\ calls[r].changed /\ Answered(calls[r]) /\ calls[r].answer # "aborted" =>
                  \/ calls[r].recorded \/ calls[r].op \in Unrecorded \/ Burnt(calls[r]) \/ Raced(r)
             /\ calls[r].recorded => calls[r].changed \/ (calls[r].op = "delete_user" /\ Raced(r))
  <2>1. Typed(r) /\ Followed(r) /\ Earned(r)
    BY <1>1 DEF AdministrationInv, Stands
  <2>2. calls[r].changed => calls[r].op # Absent
    BY <2>1 DEF Typed
  <2>3. Answered(calls[r]) /\ calls[r].op # Absent => ~RecordAhead(r)
    BY <2>1 DEF Answered, Typed, RecordAhead
  <2> QED
    BY <2>1, <2>2, <2>3 DEF Followed, Earned
<1>2. AdministrationInv => TrailFits
  BY <1>1 DEF TrailFits
<1> QED
  BY <1>2, AdministrationInvariant, PTL

-----------------------------------------------------------------------------
(* The walk through the trail.                                             *)

(* All that is to be seen and is among the `k' newest events has been.     *)
Behind(c, k) == \A n \in c.due \cap Trail : n + k > events => n \in c.seen

Walk(r) ==
  LET c == calls[r]
  IN c.op = "list_audit" =>
       /\ c.due \subseteq 1..events
       /\ c.at > 0 => Behind(c, c.offset)
       /\ c.at = 3 /\ ~c.landed => c.total >= events - purged
       /\ c.answer = "done" =>
            /\ Behind(c, c.offset + PageSize)
            /\ AtTheEnd(c) /\ ~c.landed => c.due \cap Trail \subseteq c.seen

WalkInv == \A r \in Request : Walk(r)

(* The call may have been cut short, or come to its first or second        *)
(* statement; events may have been recorded or purged.                     *)
Strolls(r) ==
  LET c == calls[r]  d == calls'[r]
  IN /\ d.op = c.op /\ d.due = c.due /\ d.offset = c.offset /\ d.total = c.total
     /\ d.shown = c.shown /\ d.seen = c.seen
     /\ \/ d.at = c.at /\ d.answer = c.answer
        \/ d.answer # "done" /\ d.at # 3 /\ (d.at > 0 => c.at > 0)
     /\ c.landed => d.landed
     /\ c.at = 3 /\ events' # events => d.landed

Times == events' \in {events, events + 1} /\ purged' \in purged..events'

LEMMA WalkKept ==
  ASSUME AdministrationInv, NEW r \in Request, Walk(r), Strolls(r), Times
  PROVE  Walk(r)'
<1> DEFINE c == calls[r]
<1> SUFFICES ASSUME c.op = "list_audit" PROVE Walk(r)'
  BY DEF Strolls, Walk
<1>1. events \in Nat /\ purged \in 0..events /\ c \in Call /\ events' \in Nat /\ purged' \in Nat
      /\ purged <= purged' /\ events <= events'
  BY DEF AdministrationInv, Rowed, Times
<1>2. c.due \subseteq 1..events /\ c.due \subseteq 1..events'
  BY <1>1 DEF Walk
<1>3. c.due \cap Trail' \subseteq c.due \cap Trail
  BY <1>1, <1>2 DEF Trail
<1>4. ASSUME NEW k \in Nat, Behind(c, k)
      PROVE  \A n \in c.due \cap Trail' : n + k > events' => n \in c.seen
  BY <1>1, <1>2, <1>3, <1>4 DEF Behind
<1>5. c.offset \in Nat /\ c.offset + PageSize \in Nat /\ c.total \in Nat
  BY <1>1, PageAssumption DEF Call
<1>6. calls'[r].at > 0 => \A n \in c.due \cap Trail' : n + c.offset > events' => n \in c.seen
  BY <1>4, <1>5 DEF Walk, Strolls
<1>7. calls'[r].answer = "done" =>
        /\ \A n \in c.due \cap Trail' : n + (c.offset + PageSize) > events' => n \in c.seen
        /\ AtTheEnd(c) /\ ~c.landed => c.due \cap Trail' \subseteq c.seen
  BY <1>3, <1>4, <1>5 DEF Walk, Strolls
<1>8. calls'[r].at = 3 /\ ~calls'[r].landed => c.total >= events' - purged'
  BY <1>1, <1>5 DEF Walk, Strolls
<1>9. AtTheEnd(c)' => AtTheEnd(c)
  BY DEF AtTheEnd, Strolls
<1> QED
  BY <1>2, <1>6, <1>7, <1>8, <1>9 DEF Walk, Strolls, Behind

LEMMA WalkOthers ==
  ASSUME AdministrationInv, WalkInv, NEW r \in Request, NEW d, Becomes(r, d), Times, events' = events
  PROVE  \A q \in Request \ {r} : Walk(q)'
<1>1. \A q \in Request \ {r} : calls'[q] = calls[q]
  BY DEF AdministrationInv, Rowed, Becomes
<1>2. \A q \in Request \ {r} : Strolls(q)
  BY <1>1 DEF Strolls
<1> QED
  BY <1>2, WalkKept DEF WalkInv

LEMMA WalkSteps ==
  ASSUME AdministrationInv, NEW r \in Request, calls[r].op = "list_audit", calls[r].at > 0
  PROVE  /\ Len(Steps(calls[r])) = 3
         /\ \/ calls[r].at = 1 /\ Now(r).do = "require"
            \/ calls[r].at = 2 /\ Now(r).do = "count"
            \/ calls[r].at = 3 /\ Now(r).do = "page"
<1>1. /\ calls[r].op \in DOMAIN Handler /\ calls[r].at \in Nat \ {0}
      /\ calls[r].at <= Len(Handler[calls[r].op].steps)
  BY Started DEF AdministrationInv, Stands
<1>2. Handler[calls[r].op].steps = <<Require, Count, Page>>
  BY TheTrail
<1> QED
  BY <1>1, <1>2 DEF Steps, Now, Require, Count, Page

LEMMA OpIs ==
  ASSUME NEW c \in Call
  PROVE  /\ \A a : Reply(c, a).op = c.op
         /\ Onward(c).op = c.op /\ OnwardChanged(c).op = c.op
         /\ \A n : Onward([c EXCEPT !.at = n]).op = c.op
<1>1. ASSUME NEW a PROVE Reply(c, a).op = c.op
  BY DEF Reply, Call
<1>2. ASSUME NEW n PROVE Onward([c EXCEPT !.at = n]).op = c.op
  <2>1. [c EXCEPT !.at = n].op = c.op /\ DOMAIN [c EXCEPT !.at = n] = DOMAIN c
    BY DEF Call
  <2> QED
    BY <2>1 DEF Onward, Reply, Call
<1>3. Onward(c).op = c.op /\ DOMAIN Onward(c) = DOMAIN c
  BY DEF Onward, Reply, Call
<1>4. OnwardChanged(c).op = c.op
  BY <1>3 DEF OnwardChanged, Call
<1> QED
  BY <1>1, <1>2, <1>3, <1>4

LEMMA OpStays ==
  ASSUME AdministrationInv, NEW r \in Request, NEW d, Becomes(r, d), d.op = calls[r].op
  PROVE  calls'[r].op = calls[r].op
<1>1. calls'[r] = d
  BY DEF AdministrationInv, Rowed, Becomes
<1> QED
  BY <1>1

LEMMA OpKept ==
  ASSUME AdministrationInv, NEW r \in Request, Statement(r)
  PROVE  calls'[r].op = calls[r].op
<1> DEFINE c == calls[r]
<1>1. calls \in [Request -> Call] /\ c \in Call
  BY DEF AdministrationInv, Rowed
<1>2. /\ \A a : Reply(c, a).op = c.op
      /\ Onward(c).op = c.op /\ OnwardChanged(c).op = c.op
      /\ \A n : Onward([c EXCEPT !.at = n]).op = c.op
  BY <1>1, OpIs
<1>3. Missing(r).op = c.op
  BY <1>2 DEF Missing
<1>4. DOMAIN Onward(c) = DOMAIN c /\ DOMAIN c = DOMAIN BlankCall
  BY <1>1 DEF Onward, Reply, Call, BlankCall
<1>5. \A x, y : /\ [Onward(c) EXCEPT !.agenda = x].op = c.op
                /\ [Onward(c) EXCEPT !.recorded = x].op = c.op
                /\ [Onward(c) EXCEPT !.total = x].op = c.op
                /\ [Onward(c) EXCEPT !.shown = x, !.seen = y].op = c.op
                /\ [c EXCEPT !.agenda = x].op = c.op
  BY <1>2, <1>4 DEF BlankCall
<1>6. CASE Demand(r)
  BY <1>2, <1>6, OpStays DEF Demand
<1>7. CASE DemandUnlessOwn(r)
  BY <1>2, <1>7, OpStays DEF DemandUnlessOwn
<1>8. CASE Check(r) \/ SpareActor(r) \/ Read(r) \/ Find(r)
  BY <1>2, <1>8, OpStays DEF Check, SpareActor, Read, Find
<1>9. CASE List(r)
  BY <1>5, <1>9, OpStays DEF List
<1>10. CASE FindListed(r)
  BY <1>2, <1>5, <1>10, OpStays DEF FindListed
<1>11. CASE InsertRow(r) \/ JoinRows(r)
  BY <1>2, <1>11, OpStays DEF InsertRow, JoinRows
<1>12. CASE ChangeRow(r) \/ RemoveRow(r)
  BY <1>2, <1>3, <1>12, OpStays DEF ChangeRow, RemoveRow, Refused
<1>13. CASE RecordEvent(r)
  <2>1. CASE AccountRow(ActorOf[r]) \in present
    BY <1>5, <1>13, <2>1 DEF RecordEvent
  <2>2. CASE AccountRow(ActorOf[r]) \notin present
    BY <1>2, <1>13, <2>2, OpStays DEF RecordEvent
  <2> QED
    BY <2>1, <2>2
<1>14. CASE CountEvents(r)
  BY <1>5, <1>14, OpStays DEF CountEvents
<1>15. CASE ReadPage(r)
  <2>1. [Onward(c) EXCEPT !.shown = Cardinality(PageRows(c.offset)), !.seen = @ \cup PageRows(c.offset)].op = c.op
    BY <1>5
  <2> QED
    BY <1>15, <2>1, OpStays DEF ReadPage
<1> QED
  BY <1>6, <1>7, <1>8, <1>9, <1>10, <1>11, <1>12, <1>13, <1>14, <1>15 DEF Statement

LEMMA CountIs ==
  ASSUME AdministrationInv
  PROVE  Cardinality(Trail) = events - purged
<1>1. events \in Nat /\ purged \in 0..events
  BY DEF AdministrationInv, Rowed
<1>2. Cardinality(Trail) = IF purged + 1 > events THEN 0 ELSE events - (purged + 1) + 1
  BY <1>1, FS_Interval DEF Trail
<1> QED
  BY <1>1, <1>2

LEMMA PageIs ==
  ASSUME AdministrationInv, NEW k \in Nat
  PROVE  Cardinality(PageRows(k)) \in Nat /\ Cardinality(PageRows(k)) <= PageSize
<1> DEFINE a == events - k - PageSize + 1
           b == events - k
<1>1. events \in Nat /\ purged \in 0..events /\ PageSize \in Nat \ {0}
  BY PageAssumption DEF AdministrationInv, Rowed
<1>2. a \in Int /\ b \in Int /\ ~(a > b) /\ b - a + 1 = PageSize
  BY <1>1
<1>3. PageRows(k) \subseteq a..b
  BY <1>1 DEF PageRows, Trail
<1> HIDE DEF a, b
<1>4. IsFiniteSet(a..b) /\ Cardinality(a..b) = PageSize
  BY <1>2, FS_Interval
<1>5. Cardinality(PageRows(k)) <= PageSize /\ IsFiniteSet(PageRows(k))
  BY <1>3, <1>4, FS_Subset
<1> QED
  BY <1>5, FS_CardinalityType

(* What the walk has from the page it reads.                               *)
LEMMA PageShows ==
  ASSUME AdministrationInv, NEW c, c.due \subseteq 1..events, c.offset \in Nat, Behind(c, c.offset),
         NEW n \in c.due \cap Trail, n + (c.offset + PageSize) > events
  PROVE  n \in c.seen \cup PageRows(c.offset)
<1> DEFINE k == c.offset
<1>1. events \in Nat /\ n \in Nat /\ k \in Nat /\ PageSize \in Nat \ {0} /\ n <= events
  BY PageAssumption DEF AdministrationInv, Rowed
<1>2. CASE n + k > events
  BY <1>2 DEF Behind
<1>3. CASE ~(n + k > events)
  <2>1. n + (k + PageSize) > events
    OBVIOUS
  <2> HIDE DEF k
  <2>2. events - n \in k..(k + PageSize - 1)
    BY <1>1, <1>3, <2>1
  <2> QED
    BY <2>2 DEF PageRows, k
<1> QED
  BY <1>2, <1>3

LEMMA WalkOnward ==
  ASSUME AdministrationInv, NEW r \in Request, calls[r].op = "list_audit", calls[r].at > 0
  PROVE  LET c == calls[r]  o == Onward(c)
         IN /\ o \in Call /\ o.op = c.op /\ o.due = c.due /\ o.offset = c.offset
            /\ o.total = c.total /\ o.shown = c.shown /\ o.seen = c.seen /\ o.landed = c.landed
            /\ c.at = 1 => o.at = 2 /\ o.answer = Absent
            /\ c.at = 2 => o.at = 3 /\ o.answer = Absent
            /\ c.at = 3 => o.at = 0 /\ o.answer = "done"
<1> DEFINE c == calls[r]
           o == Onward(c)
           k == c.at + 1
<1>1. Typed(r)
  BY DEF AdministrationInv, Stands
<1>2. Len(Handler[c.op].steps) = 3
  BY WalkSteps DEF Steps
<1>3. /\ c \in Call /\ c.op # Absent /\ c.at \in 1..Len(Steps(c))
      /\ k > 3 => o.at = 0 /\ o.answer = "done"
      /\ k <= 3 => o.at = k /\ o.answer = Absent
  BY <1>1, <1>2, Onwards
<1>4. /\ o \in Call /\ o.op = c.op /\ o.due = c.due /\ o.offset = c.offset
      /\ o.total = c.total /\ o.shown = c.shown /\ o.seen = c.seen /\ o.landed = c.landed
  BY <1>3, OnwardIs
<1> QED
  BY <1>3, <1>4

LEMMA WalkDemands ==
  ASSUME AdministrationInv, WalkInv, NEW r \in Request, calls[r].op = "list_audit", Demand(r)
  PROVE  Walk(r)'
<1> DEFINE c == calls[r]
           o == Onward(c)
<1>1. Typed(r) /\ c.at > 0 /\ calls \in [Request -> Call] /\ c \in Call /\ Walk(r)
  BY DEF AdministrationInv, Rowed, Stands, Demand, AtStatement, WalkInv
<1>3. c.at = 1
  BY <1>1, WalkSteps DEF Demand, AtStatement
<1>4. Times
  BY DEF Demand, AdministrationInv, Rowed, Times
<1>5. CASE Becomes(r, Reply(c, "forbidden"))
  <2>1. "forbidden" \in Replies /\ calls'[r] = Reply(c, "forbidden")
    BY <1>1, <1>5 DEF Replies, AppError, Becomes
  <2>2. Strolls(r)
    BY <1>1, <1>3, <2>1, ReplyIs DEF Strolls
  <2> QED
    BY <1>1, <1>4, <2>2, WalkKept
<1>6. CASE Becomes(r, o)
  <2>1. calls'[r] = o
    BY <1>1, <1>6 DEF Becomes
  <2>2. o.at = 2 /\ o.answer = Absent
    BY <1>1, <1>3, WalkOnward
  <2>3. Strolls(r)
    BY <1>1, <1>3, <2>1, <2>2, WalkOnward, NamesAssumption DEF Strolls
  <2> QED
    BY <1>1, <1>4, <2>3, WalkKept
<1> QED
  BY <1>5, <1>6 DEF Demand

LEMMA WalkCounts ==
  ASSUME AdministrationInv, WalkInv, NEW r \in Request, calls[r].op = "list_audit", CountEvents(r)
  PROVE  Walk(r)'
<1> DEFINE c == calls[r]
           o == Onward(c)
           d == [o EXCEPT !.total = Cardinality(Trail)]
<1>1. Typed(r) /\ c.at > 0 /\ calls \in [Request -> Call] /\ c \in Call /\ Walk(r)
  BY DEF AdministrationInv, Rowed, Stands, CountEvents, AtStatement, WalkInv
<1>3. c.at = 2
  BY <1>1, WalkSteps DEF CountEvents, AtStatement
<1>4. calls'[r] = d /\ UNCHANGED <<events, purged>>
  BY <1>1 DEF CountEvents, Becomes
<1>5. /\ o \in Call /\ o.op = c.op /\ o.offset = c.offset /\ o.seen = c.seen /\ o.due = c.due
      /\ o.at = 3 /\ o.answer = Absent
  BY <1>1, <1>3, WalkOnward
<1>6. /\ d.op = c.op /\ d.offset = c.offset /\ d.seen = c.seen /\ d.due = c.due
      /\ d.at = 3 /\ d.answer = Absent /\ d.total = events - purged
  BY <1>5, CountIs DEF Call
<1> HIDE DEF d, o
<1>7. c.due \subseteq 1..events /\ Behind(c, c.offset)
  BY <1>1 DEF Walk
<1>8. \A n \in c.due \cap Trail' : n + c.offset > events' => n \in c.seen
  BY <1>4, <1>7 DEF Behind, Trail
<1>9. events - purged \in Int
  BY DEF AdministrationInv, Rowed
<1>10. Absent # "done" /\ events' - purged' = events - purged /\ events' = events
  BY <1>4, NamesAssumption
<1> QED
  BY <1>4, <1>6, <1>7, <1>8, <1>9, <1>10 DEF Walk, Behind

LEMMA WalkReads ==
  ASSUME AdministrationInv, WalkInv, NEW r \in Request, calls[r].op = "list_audit", ReadPage(r)
  PROVE  Walk(r)'
<1> DEFINE c == calls[r]
           o == Onward(c)
           rows == PageRows(c.offset)
           d == [o EXCEPT !.shown = Cardinality(rows), !.seen = o.seen \cup rows]
<1>1. Typed(r) /\ c.at > 0 /\ calls \in [Request -> Call] /\ c \in Call /\ Walk(r)
  BY DEF AdministrationInv, Rowed, Stands, ReadPage, AtStatement, WalkInv
<1>3. c.at = 3
  BY <1>1, WalkSteps DEF ReadPage, AtStatement
<1>4. c.offset \in Nat /\ c.total \in Nat
  BY <1>1 DEF Call
<1> HIDE DEF rows
<1>5. /\ o \in Call /\ o.op = c.op /\ o.offset = c.offset /\ o.seen = c.seen /\ o.due = c.due
      /\ o.total = c.total /\ o.landed = c.landed /\ o.at = 0 /\ o.answer = "done"
  BY <1>1, <1>3, WalkOnward
<1>6. calls'[r] = d /\ UNCHANGED <<events, purged>>
  <2>1. Becomes(r, [o EXCEPT !.shown = Cardinality(rows), !.seen = @ \cup rows])
    BY DEF ReadPage, rows
  <2>2. [o EXCEPT !.shown = Cardinality(rows), !.seen = @ \cup rows] = d
    BY <1>5 DEF Call
  <2> HIDE DEF d, o
  <2>3. Becomes(r, d)
    BY <2>1, <2>2
  <2> QED
    BY <1>1, <2>3 DEF ReadPage, Becomes
<1> HIDE DEF o
<1>7. /\ d.op = c.op /\ d.offset = c.offset /\ d.seen = c.seen \cup rows /\ d.due = c.due
      /\ d.total = c.total /\ d.landed = c.landed /\ d.at = 0 /\ d.answer = "done"
      /\ d.shown = Cardinality(rows)
  BY <1>5 DEF Call
<1> HIDE DEF d
<1>8. c.due \subseteq 1..events /\ Behind(c, c.offset) /\ (~c.landed => c.total >= events - purged)
  BY <1>1, <1>3 DEF Walk
<1>9. \A n \in c.due \cap Trail : n + (c.offset + PageSize) > events => n \in c.seen \cup rows
  BY <1>4, <1>8, PageShows DEF rows
<1>10. ASSUME c.offset + Cardinality(rows) >= c.total, ~c.landed, NEW n \in c.due \cap Trail
       PROVE  n \in c.seen \cup rows
  <2>1. Cardinality(rows) \in Nat /\ Cardinality(rows) <= PageSize
    BY <1>4, PageIs DEF rows
  <2>2. events \in Nat /\ purged \in Nat /\ n \in Nat /\ n >= purged + 1 /\ PageSize \in Nat
    BY PageAssumption DEF AdministrationInv, Rowed, Trail
  <2>3. n + (c.offset + PageSize) > events
    BY <1>4, <1>8, <1>10, <2>1, <2>2
  <2> QED
    BY <1>9, <2>3
<1>11. Trail' = Trail /\ events' = events
  BY <1>6 DEF Trail
<1>12. calls'[r].offset = c.offset /\ calls'[r].due = c.due /\ calls'[r].seen = c.seen \cup rows
       /\ calls'[r].at = 0 /\ calls'[r].landed = c.landed /\ calls'[r].total = c.total
       /\ calls'[r].shown = Cardinality(rows)
  BY <1>6, <1>7
<1>13. Behind(c, c.offset + PageSize)'
  BY <1>9, <1>11, <1>12 DEF Behind
<1>14. AtTheEnd(c)' => c.offset + Cardinality(rows) >= c.total
  BY <1>12 DEF AtTheEnd
<1> QED
  BY <1>8, <1>10, <1>11, <1>12, <1>13, <1>14 DEF Walk

LEMMA WalkOlder ==
  ASSUME AdministrationInv, WalkInv, NEW r \in Request, Older(r)
  PROVE  Walk(r)'
<1> DEFINE c == calls[r]
           d == [c EXCEPT !.offset = c.offset + PageSize, !.at = 1, !.answer = Absent]
<1>1. calls \in [Request -> Call] /\ c \in Call /\ Walk(r) /\ c.op = "list_audit" /\ c.answer = "done"
      /\ UNCHANGED <<events, purged>>
  BY DEF AdministrationInv, Rowed, WalkInv, Older
<1>2. Times
  BY <1>1 DEF AdministrationInv, Rowed, Times
<1>3. CASE Becomes(r, Reply(c, "unauthenticated"))
  <2>1. "unauthenticated" \in Replies /\ calls'[r] = Reply(c, "unauthenticated")
    BY <1>1, <1>3 DEF Replies, AppError, Becomes
  <2>2. Typed(r) /\ c.at = 0
    <3>1. Typed(r)
      BY DEF AdministrationInv, Stands
    <3>2. "done" # Absent
      BY NamesAssumption
    <3>3. ~(c.at > 0)
      BY <1>1, <3>1, <3>2, Started
    <3> QED
      BY <1>1, <3>1, <3>3 DEF Call
  <2>3. Strolls(r)
    BY <1>1, <2>1, <2>2, ReplyIs DEF Strolls
  <2> QED
    BY <1>1, <1>2, <2>3, WalkKept
<1>4. CASE Becomes(r, d)
  <2>1. calls'[r] = d
    BY <1>1, <1>4 DEF Becomes
  <2>2. /\ d.op = c.op /\ d.due = c.due /\ d.seen = c.seen /\ d.offset = c.offset + PageSize
        /\ d.at = 1 /\ d.answer = Absent
    BY <1>1 DEF Call
  <2> HIDE DEF d
  <2>3. c.due \subseteq 1..events /\ Behind(c, c.offset + PageSize)
    BY <1>1 DEF Walk
  <2>4. Trail' = Trail /\ events' = events
    BY <1>1 DEF Trail
  <2>5. Behind(c, c.offset)'
    BY <2>1, <2>2, <2>3, <2>4 DEF Behind
  <2>6. Absent # "done"
    BY NamesAssumption
  <2> QED
    BY <2>1, <2>2, <2>3, <2>4, <2>5, <2>6 DEF Walk
<1>5. [c EXCEPT !.offset = @ + PageSize, !.at = 1, !.answer = Absent] = d
  BY <1>1 DEF Call
<1> QED
  BY <1>3, <1>4, <1>5 DEF Older

LEMMA WalkStops ==
  ASSUME AdministrationInv, WalkInv, NEW r \in Request, AbortCall(r) \/ TurnAway(r)
  PROVE  Walk(r)'
<1>1. calls \in [Request -> Call] /\ calls[r] \in Call /\ Walk(r) /\ Times
  BY DEF AdministrationInv, Rowed, WalkInv, Times, AbortCall, TurnAway
<1>2. CASE AbortCall(r)
  <2>1. "aborted" \in Replies /\ calls'[r] = Reply(calls[r], "aborted") /\ calls[r].at > 0
    BY <1>1, <1>2 DEF Replies, Becomes, AbortCall
  <2>2. Strolls(r)
    BY <1>1, <1>2, <2>1, ReplyIs DEF Strolls, AbortCall
  <2> QED
    BY <1>1, <2>2, WalkKept
<1>3. CASE TurnAway(r)
  <2>1. PICK answer : calls'[r] = Reply(BlankCall, answer)
    BY <1>1, <1>3 DEF TurnAway, Becomes
  <2>2. calls'[r].op = Absent
    BY <2>1, BlankIs, OpIs DEF BlankCall
  <2>3. Absent # "list_audit"
    BY TheTrail, NamesAssumption
  <2> QED
    BY <2>2, <2>3 DEF Walk
<1> QED
  BY <1>2, <1>3

LEMMA BegunWalk ==
  ASSUME NEW r, NEW op \in DOMAIN Handler, NEW targets, NEW held, NEW meant
  PROVE  LET d == BegunCall(r, op, targets, held, meant)
         IN /\ d.op = op
            /\ op = "list_audit" => d.due = Trail /\ d.offset = 0 /\ d.at = 1 /\ d.answer = Absent
<1> DEFINE call == [BlankCall EXCEPT !.op = op, !.targets = targets, !.meant = meant,
                      !.lacks = \E p \in Handler[op].needs : ~Can(held, p),
                      !.due = IF op = "list_audit" THEN Trail ELSE {}]
           whole == \A row \in Sought(op) : LET t == RowOf(r, call, row)
                                            IN IsFound(call, t) /\ SameRealm(t)
           d == BegunCall(r, op, targets, held, meant)
<1>1. d = IF Steps(call) = <<>> THEN Reply([call EXCEPT !.whole = whole], "done")
          ELSE [call EXCEPT !.whole = whole, !.at = 1]
  BY DEF BegunCall
<1>2. /\ call.op = op /\ call.offset = 0 /\ call.answer = Absent
      /\ call.due = IF op = "list_audit" THEN Trail ELSE {}
      /\ DOMAIN call = DOMAIN BlankCall
  BY DEF BlankCall
<1> HIDE DEF call, whole
<1>3. d.op = op
  BY <1>1, <1>2 DEF Reply, BlankCall
<1>4. CASE op = "list_audit"
  <2>1. Steps(call) # <<>>
    BY <1>2, <1>4, TheTrail DEF Steps
  <2>2. d = [call EXCEPT !.whole = whole, !.at = 1]
    BY <1>1, <2>1
  <2> QED
    BY <1>2, <1>3, <1>4, <2>2 DEF BlankCall
<1> QED
  BY <1>3, <1>4

LEMMA WalkBegins ==
  ASSUME AdministrationInv, WalkInv, NEW r \in Request, ArriveRest(r) \/ ArriveConsole(r) \/ ArriveUnsigned(r)
  PROVE  WalkInv'
<1>1. \E op \in DOMAIN Handler : \E targets, held, meant :
        Becomes(r, BegunCall(r, op, targets, held, meant))
  <2>1. \A op \in Offers[r] : op \in DOMAIN Handler
    BY OfferAssumption
  <2>2. \E op \in Offers[r] : \E targets, held, meant :
          Becomes(r, BegunCall(r, op, targets, held, meant))
    BY DEF ArriveRest, ArriveConsole, ArriveUnsigned
  <2> QED
    BY <2>1, <2>2
<1>2. PICK op \in DOMAIN Handler : \E targets, held, meant :
        Becomes(r, BegunCall(r, op, targets, held, meant))
  BY <1>1
<1>3. PICK targets, held, meant : Becomes(r, BegunCall(r, op, targets, held, meant))
  BY <1>2
<1>4. UNCHANGED <<events, purged>>
  BY DEF ArriveRest, ArriveConsole, ArriveUnsigned
<1>5. Times
  BY <1>4 DEF AdministrationInv, Rowed, Times
<1> DEFINE d == BegunCall(r, op, targets, held, meant)
<1>6. d.op = op /\ (op = "list_audit" => d.due = Trail /\ d.offset = 0 /\ d.at = 1 /\ d.answer = Absent)
  BY BegunWalk
<1> HIDE DEF d
<1>7. calls'[r] = d /\ Becomes(r, d)
  BY <1>3 DEF AdministrationInv, Rowed, Becomes, d
<1>8. events \in Nat /\ purged \in 0..events /\ Trail' = Trail /\ events' = events
  BY <1>4 DEF AdministrationInv, Rowed, Trail
<1>9. Trail \subseteq 1..events /\ \A n \in Trail : ~(n + 0 > events)
  BY <1>8 DEF Trail
<1>10. Absent # "done"
  BY NamesAssumption
<1>11. Walk(r)'
  <2>1. CASE op = "list_audit"
    <3>1. calls'[r].due = Trail /\ calls'[r].offset = 0 /\ calls'[r].at = 1 /\ calls'[r].answer = Absent
      BY <1>6, <1>7, <2>1
    <3>2. Behind(calls[r], calls[r].offset)'
      BY <1>8, <1>9, <3>1 DEF Behind
    <3> QED
      BY <1>8, <1>9, <1>10, <3>1, <3>2 DEF Walk
  <2>2. CASE op # "list_audit"
    BY <1>6, <1>7, <2>2 DEF Walk
  <2> QED
    BY <2>1, <2>2
<1>12. \A q \in Request \ {r} : Walk(q)'
  BY <1>4, <1>5, <1>7, WalkOthers
<1> QED
  BY <1>11, <1>12 DEF WalkInv

LEMMA WalkBeside ==
  ASSUME AdministrationInv, WalkInv, NEW r \in Request, Statement(r)
  PROVE  \A q \in Request \ {r} : Walk(q)'
<1> DEFINE c == calls[r]
<1>1. calls \in [Request -> Call] /\ events \in Nat /\ purged \in 0..events
  BY DEF AdministrationInv, Rowed
<1>2. CASE events' = events /\ purged' = purged /\ \E d : Becomes(r, d)
  <2>1. Times
    BY <1>1, <1>2 DEF Times
  <2> QED
    BY <1>2, <2>1, WalkOthers
<1>3. CASE RecordEvent(r) /\ AccountRow(ActorOf[r]) \in present
  <2>1. Times
    BY <1>1, <1>3 DEF RecordEvent, Times
  <2>2. ASSUME NEW q \in Request \ {r} PROVE Walk(q)'
    <3>1. calls'[q] = [calls[q] EXCEPT !.landed = calls[q].landed \/ AtStatement(q, "page")]
      BY <1>1, <1>3 DEF RecordEvent, Call
    <3>2. calls[q] \in Call
      BY <1>1
    <3>3. calls'[q].landed = (calls[q].landed \/ AtStatement(q, "page"))
      BY <3>1, <3>2 DEF Call
    <3>4. calls[q].landed => calls'[q].landed
      BY <3>3, Zenon
    <3>5. AtStatement(q, "page") => calls'[q].landed
      BY <3>3, Zenon
    <3>6. CASE calls[q].op = "list_audit"
      <4>1. calls[q].at = 3 => AtStatement(q, "page")
        BY <3>6, WalkSteps DEF AtStatement
      <4>2. Strolls(q)
        BY <3>1, <3>2, <3>4, <3>5, <4>1 DEF Strolls, Call
      <4> QED
        BY <2>1, <4>2, WalkKept DEF WalkInv
    <3>7. CASE calls[q].op # "list_audit"
      <4>1. calls'[q].op = calls[q].op
        BY <3>1, <3>2 DEF Call
      <4> QED
        BY <3>7, <4>1 DEF Walk
    <3> QED
      BY <3>6, <3>7
  <2> QED
    BY <2>2
<1>4. CASE RecordEvent(r) /\ AccountRow(ActorOf[r]) \notin present
  BY <1>2, <1>4 DEF RecordEvent
<1>5. CASE Demand(r) \/ DemandUnlessOwn(r) \/ Check(r) \/ SpareActor(r) \/ Read(r) \/ Find(r)
  BY <1>2, <1>5 DEF Demand, DemandUnlessOwn, Check, SpareActor, Read, Find
<1>6. CASE List(r) \/ FindListed(r)
  BY <1>2, <1>6 DEF List, FindListed
<1>7. CASE InsertRow(r) \/ JoinRows(r)
  BY <1>2, <1>7 DEF InsertRow, JoinRows
<1>8. CASE ChangeRow(r) \/ RemoveRow(r)
  BY <1>2, <1>8 DEF ChangeRow, RemoveRow, Refused
<1>9. CASE CountEvents(r) \/ ReadPage(r)
  BY <1>2, <1>9 DEF CountEvents, ReadPage
<1> QED
  BY <1>3, <1>4, <1>5, <1>6, <1>7, <1>8, <1>9 DEF Statement

LEMMA WalkStates ==
  ASSUME AdministrationInv, WalkInv, NEW r \in Request, Statement(r)
  PROVE  WalkInv'
<1>1. CASE calls[r].op = "list_audit"
  <2>1. calls[r].at > 0
    BY DEF Statement, Demand, DemandUnlessOwn, Check, SpareActor, Read, Find, List, FindListed,
           InsertRow, JoinRows, ChangeRow, RemoveRow, RecordEvent, CountEvents, ReadPage, AtStatement
  <2>2. Now(r).do \in {"require", "count", "page"}
    BY <1>1, <2>1, WalkSteps
  <2>3. Demand(r) \/ CountEvents(r) \/ ReadPage(r)
    BY <2>2 DEF Statement, Demand, DemandUnlessOwn, Check, SpareActor, Read, Find, List, FindListed,
                InsertRow, JoinRows, ChangeRow, RemoveRow, RecordEvent, CountEvents, ReadPage, AtStatement
  <2>4. Walk(r)'
    BY <1>1, <2>3, WalkDemands, WalkCounts, WalkReads
  <2> QED
    BY <2>4, WalkBeside DEF WalkInv
<1>2. CASE calls[r].op # "list_audit"
  <2>1. Walk(r)'
    BY <1>2, OpKept DEF Walk
  <2> QED
    BY <2>1, WalkBeside DEF WalkInv
<1> QED
  BY <1>1, <1>2

LEMMA WalkGoesOn == AdministrationInv /\ WalkInv /\ [AdministrationNext]_administrationVars => WalkInv'
<1> SUFFICES ASSUME AdministrationInv, WalkInv, [AdministrationNext]_administrationVars PROVE WalkInv'
  OBVIOUS
<1>1. events \in Nat /\ purged \in 0..events
  BY DEF AdministrationInv, Rowed
<1>2. CASE UNCHANGED administrationVars
  <2>1. UNCHANGED <<calls, events, purged>>
    BY <1>2 DEF administrationVars
  <2>2. Times /\ \A q \in Request : Strolls(q)
    BY <1>1, <2>1 DEF Times, Strolls
  <2> QED
    BY <2>2, WalkKept DEF WalkInv
<1>3. CASE PurgeTrail
  <2>1. Times /\ \A q \in Request : Strolls(q)
    BY <1>1, <1>3 DEF PurgeTrail, Trail, Times, Strolls
  <2> QED
    BY <2>1, WalkKept DEF WalkInv
<1>4. ASSUME NEW r \in Request, AbortCall(r) \/ TurnAway(r) \/ Older(r) PROVE WalkInv'
  <2>1. Walk(r)'
    BY <1>4, WalkStops, WalkOlder
  <2>2. events' = events /\ Times /\ \E d : Becomes(r, d)
    BY <1>1, <1>4 DEF AbortCall, TurnAway, Older, Times
  <2>3. \A q \in Request \ {r} : Walk(q)'
    BY <2>2, WalkOthers
  <2> QED
    BY <2>1, <2>3 DEF WalkInv
<1> QED
  BY <1>2, <1>3, <1>4, WalkBegins, WalkStates DEF AdministrationNext

(* Whoever pages through the trail to its end has seen every event that    *)
(* was there at the start and is not purged, unless one landed between the *)
(* two queries of a page (web/src/pages/audit.rs, identity/src/audit.rs).  *)
THEOREM WalkIsComplete == AdministrationSpec => []WalkSkipsNothing
<1>1. AdministrationInit => WalkInv
  <2>1. Absent # "list_audit"
    BY TheTrail, NamesAssumption
  <2> QED
    BY <2>1 DEF AdministrationInit, WalkInv, Walk, BlankCall
<1>2. WalkInv => WalkSkipsNothing
  BY DEF WalkInv, Walk, WalkSkipsNothing
<1> QED
  BY <1>1, <1>2, WalkGoesOn, AdministrationInvariant, PTL DEF AdministrationSpec
================================================================================
