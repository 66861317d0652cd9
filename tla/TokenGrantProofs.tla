--------------------------- MODULE TokenGrantProofs ---------------------------
(***************************************************************************)
(* Proofs about TokenGrant for every set of users, clients and requests,   *)
(* every lifetime and every bound.                                         *)
(***************************************************************************)
EXTENDS TokenGrant, SequenceTheorems, TLAPS

(* Appending a row and rewriting rows in place keep a table a table.       *)
LEMMA AppendRow ==
  ASSUME NEW S, NEW s \in Seq(S), NEW e \in S
  PROVE  /\ Append(s, e) \in Seq(S)
         /\ DOMAIN Append(s, e) = 1..(Len(s) + 1)
         /\ DOMAIN s = 1..Len(s)
         /\ Len(s) \in Nat
         /\ \A i \in DOMAIN s : Append(s, e)[i] = s[i]
         /\ Append(s, e)[Len(s) + 1] = e
  OBVIOUS

LEMMA RewriteRows ==
  ASSUME NEW S, NEW s \in Seq(S), NEW g \in [DOMAIN s -> S]
  PROVE  g \in Seq(S)
<1>1. DOMAIN s = 1..Len(s) /\ Len(s) \in Nat
  BY LenProperties
<1>2. g \in [1..Len(s) -> S]
  BY <1>1
<1> QED
  BY <1>1, <1>2, SeqDef

LEMMA UpdateRow ==
  ASSUME NEW S, NEW s \in Seq(S), NEW i \in DOMAIN s, NEW e \in S
  PROVE  [s EXCEPT ![i] = e] \in Seq(S)
<1>1. DOMAIN s = 1..Len(s)
  BY LenProperties
<1> QED
  BY <1>1, ExceptSeq

(* Where a request refers to a code row that exists.                       *)
Working == {"sign", "mint", "rotate", "link", "check_account", "reply"}

(* The columns the invariant reads.                                        *)
SameTokens ==
  /\ DOMAIN tokens' = DOMAIN tokens
  /\ \A t \in DOMAIN tokens :
       /\ tokens'[t].client = tokens[t].client
       /\ tokens'[t].user = tokens[t].user
       /\ tokens'[t].scopes = tokens[t].scopes
       /\ tokens'[t].family = tokens[t].family
       /\ tokens'[t].used = tokens[t].used

SameCodes ==
  /\ DOMAIN codes \subseteq DOMAIN codes'
  /\ \A c \in DOMAIN codes :
       /\ codes'[c].client = codes[c].client
       /\ codes'[c].user = codes[c].user
       /\ codes'[c].scopes = codes[c].scopes
       /\ codes[c].used => codes'[c].used

(* A request that stops, or moves on without a credential it did not have. *)
Advances(r) ==
  \/ req'[r].at \notin Working
  \/ /\ req[r].at \in Working
     /\ req'[r].client = req[r].client
     /\ req'[r].family = req[r].family
     /\ req'[r].token = req[r].token
     /\ req'[r].successor = req[r].successor
     /\ req'[r].scopes \subseteq req[r].scopes
     /\ Pending(r)' => Pending(r)
     /\ req'[r].at \in {"rotate", "link", "check_account"} =>
          req[r].at \in {"rotate", "link", "check_account"}
     /\ req'[r].at \in {"link", "check_account"} =>
          req[r].at \in {"link", "check_account"}

(* Most steps leave alone everything the invariant is about.               *)
LEMMA FrameStep ==
  ASSUME IInv, SameTokens, SameCodes, \A r \in Request : Advances(r)
  PROVE  RequestsWellFormed' /\ Lineage' /\ OneCredential'
<1>1. Lineage'
  BY DEF IInv, Lineage, SameTokens, SameCodes
<1>2. RequestsWellFormed'
  <2> SUFFICES ASSUME NEW r \in Request, req'[r].at \in Working
               PROVE  /\ /\ req'[r].family \in DOMAIN codes'
                         /\ codes'[req'[r].family].used
                         /\ req'[r].client = codes'[req'[r].family].client
                         /\ req'[r].scopes \subseteq codes'[req'[r].family].scopes
                      /\ req'[r].at \in {"rotate", "link", "check_account"} =>
                         /\ req'[r].token \in DOMAIN tokens'
                         /\ tokens'[req'[r].token].family = req'[r].family
                      /\ req'[r].at \in {"link", "check_account"} =>
                         req'[r].successor \in DOMAIN tokens'
    BY DEF RequestsWellFormed, FamilyOf, Working
  <2>1. Advances(r) /\ req[r].at \in Working
    BY DEF Advances
  <2> QED
    BY <2>1 DEF IInv, RequestsWellFormed, FamilyOf, Working, Advances,
                SameTokens, SameCodes
<1>3. OneCredential'
  <2>1. \A r \in Request : Pending(r)' =>
          Pending(r) /\ req'[r].family = req[r].family
    BY DEF Advances, Pending, Working
  <2> QED
    BY <2>1 DEF IInv, OneCredential, SameTokens, FamilyOf
<1> QED
  BY <1>1, <1>2, <1>3

-----------------------------------------------------------------------------
(* Typing, one lemma per table a step writes.                              *)
LEMMA RowTypes ==
  ASSUME TypeOK
  PROVE  /\ codes \in Seq(CodeRow) /\ DOMAIN codes = 1..Len(codes) /\ Len(codes) \in Nat
         /\ \A c \in DOMAIN codes : codes[c] \in CodeRow
         /\ tokens \in Seq(TokenRow) /\ DOMAIN tokens = 1..Len(tokens) /\ Len(tokens) \in Nat
         /\ \A t \in DOMAIN tokens : tokens[t] \in TokenRow
         /\ \A r \in Request : req[r] \in RequestState
  BY LenProperties, ElementOfSeq DEF TypeOK

LEMMA InitInv == Init => IInv
<1> SUFFICES ASSUME Init PROVE IInv
  OBVIOUS
<1>1. /\ codes = <<>> /\ tokens = <<>> /\ codes \in Seq(CodeRow)
      /\ tokens \in Seq(TokenRow)
      /\ DOMAIN codes = {} /\ DOMAIN tokens = {}
  BY DEF Init
<1>2. \A r \in Request : req[r] = Idle /\ req[r].at = "idle"
  BY DEF Init, Idle
<1>3. Idle \in RequestState
  BY DEF Idle, RequestState, At
<1>4. TypeOK
  BY <1>1, <1>3 DEF Init, TypeOK
<1>5. RequestsWellFormed
  BY <1>2 DEF RequestsWellFormed
<1>6. Lineage
  BY <1>1 DEF Lineage
<1>7. OneCredential
  BY <1>1, <1>2 DEF OneCredential, Pending
<1> QED
  BY <1>4, <1>5, <1>6, <1>7 DEF IInv

(* Steps that write only flags of the tables and move requests on.         *)
LEMMA IssueCodeInv ==
  ASSUME IInv, NEW u \in User, NEW cl \in Client, NEW s \in ScopeSets,
         NEW uri \in Uri, NEW v \in Presented, IssueCode(u, cl, s, uri, v)
  PROVE  IInv'
<1> DEFINE row == [client |-> cl, user |-> u, scopes |-> s, redirect_uri |-> uri,
                   code_challenge |-> v, expires_at |-> now + CodeLifetime,
                   used |-> FALSE, deleted |-> FALSE]
<1>1. row \in CodeRow
  BY LifetimeAssumption DEF IInv, TypeOK, CodeRow, Scope, Presented
<1>2. codes' = Append(codes, row)
  BY DEF IssueCode
<1>3. TypeOK'
  BY <1>1, <1>2, AppendRow DEF IInv, TypeOK, IssueCode
<1>4. SameCodes /\ SameTokens
  BY <1>1, <1>2, AppendRow DEF IInv, TypeOK, IssueCode, SameCodes, SameTokens
<1>5. \A r \in Request : Advances(r)
  BY DEF IssueCode, Advances, Working, Pending
<1> QED
  BY <1>3, <1>4, <1>5, FrameStep DEF IInv

LEMMA RedeemRefusedInv ==
  ASSUME IInv, NEW r \in Request, NEW cl \in Client, NEW c \in DOMAIN codes,
         NEW uri \in Uri, NEW v \in Presented, RedeemRefused(r, cl, c, uri, v)
  PROVE  IInv'
<1>1. [codes[c] EXCEPT !.used = TRUE] \in CodeRow
  BY RowTypes DEF IInv, CodeRow
<1>2. codes' = [codes EXCEPT ![c] = [codes[c] EXCEPT !.used = TRUE]]
  BY DEF RedeemRefused
<1>3. TypeOK'
  BY <1>1, <1>2, UpdateRow DEF IInv, TypeOK, RedeemRefused
<1>4. SameCodes /\ SameTokens
  BY <1>2, RowTypes DEF IInv, CodeRow, RedeemRefused, SameCodes, SameTokens
<1>5. \A q \in Request : Advances(q)
  BY DEF RedeemRefused, Advances, Working, Pending
<1> QED
  BY <1>3, <1>4, <1>5, FrameStep DEF IInv

(* Only requests move.                                                     *)
LEMMA RequestOnlyInv ==
  ASSUME IInv, UNCHANGED <<codes, tokens>>, TypeOK',
         \A r \in Request : Advances(r)
  PROVE  IInv'
<1>1. SameCodes /\ SameTokens
  BY DEF SameCodes, SameTokens
<1> QED
  BY <1>1, FrameStep DEF IInv

LEMMA AskingInv ==
  ASSUME IInv, NEW r \in Request, NEW cl \in Client, NEW f \in Nat,
         NEW t \in Nat, NEW at \in {"check_replay", "check_reuse"},
         req' = [req EXCEPT ![r] = Asking(at, cl, f, t)],
         UNCHANGED <<codes, tokens, account, clients, purging, now>>
  PROVE  IInv'
<1>1. Asking(at, cl, f, t) \in RequestState
  BY DEF Asking, RequestState, At
<1>2. /\ req' \in [Request -> RequestState]
      /\ req'[r].at = at
      /\ \A q \in Request : q # r => req'[q] = req[q]
  BY <1>1 DEF IInv, TypeOK, Asking
<1>3. TypeOK'
  BY <1>2 DEF IInv, TypeOK
<1>4. \A q \in Request : Advances(q)
  BY <1>2 DEF Advances, Working, Pending
<1> QED
  BY <1>3, <1>4, RequestOnlyInv

LEMMA RedeemMissedInv ==
  ASSUME IInv, NEW r \in Request, NEW cl \in Client, NEW c \in DOMAIN codes,
         RedeemMissed(r, cl, c)
  PROVE  IInv'
<1>1. c \in Nat
  BY RowTypes DEF IInv
<1> QED
  BY <1>1, AskingInv DEF RedeemMissed

LEMMA RotateMissedInv ==
  ASSUME IInv, NEW r \in Request, NEW cl \in Client, NEW t \in DOMAIN tokens,
         RotateMissed(r, cl, t)
  PROVE  IInv'
<1>1. tokens[t].family \in Nat /\ t \in Nat
  BY RowTypes DEF IInv, TokenRow
<1> QED
  BY <1>1, AskingInv DEF RotateMissed

(* A request that moves to its next statement, or ends.                    *)
LEMMA GotoOrFinish ==
  ASSUME IInv, NEW r \in Request, NEW at \in At,
         \/ Finish(r)
         \/ /\ Goto(r, at)
            /\ \/ at \notin Working
               \/ req[r].at = "sign" /\ at = "reply"
               \/ req[r].at = "sign" /\ at = "mint" /\ req[r].token = 0
               \/ req[r].at = "link" /\ at = "check_account"
  PROVE  /\ req' \in [Request -> RequestState]
         /\ \A q \in Request : Advances(q)
<1>1. /\ req \in [Request -> RequestState] /\ req[r] \in RequestState
      /\ Idle \in RequestState /\ Idle.at \notin Working
  BY DEF IInv, TypeOK, Idle, RequestState, At, Working
<1>2. ASSUME NEW q \in Request, q # r
      PROVE  req'[q] = req[q] /\ Advances(q)
  <2>1. req'[q] = req[q]
    BY <1>1, <1>2 DEF Finish, Goto
  <2> QED
    BY <2>1 DEF Advances, Working, Pending
<1>3. CASE Finish(r)
  <2>1. req'[r] = Idle
    BY <1>1, <1>3 DEF Finish
  <2> QED
    BY <1>1, <1>2, <1>3, <2>1 DEF Finish, Advances
<1>4. CASE Goto(r, at) /\ ~Finish(r)
  <2>1. req' = [req EXCEPT ![r] = [req[r] EXCEPT !.at = at]]
    BY <1>4 DEF Goto
  <2>2. [req[r] EXCEPT !.at = at] \in RequestState
    BY <1>1 DEF RequestState
  <2>3. /\ req' \in [Request -> RequestState]
        /\ req'[r] = [req[r] EXCEPT !.at = at]
    BY <1>1, <2>1, <2>2
  <2>4. /\ req'[r].at = at /\ req'[r].client = req[r].client
        /\ req'[r].family = req[r].family /\ req'[r].token = req[r].token
        /\ req'[r].successor = req[r].successor
        /\ req'[r].scopes = req[r].scopes
    BY <1>1, <2>3 DEF RequestState
  <2>5. Advances(r)
    BY <1>4, <2>4 DEF Advances, Working, Pending
  <2> QED
    BY <1>2, <2>3, <2>5
<1> QED
  BY <1>3, <1>4

(* Rows are rewritten in place, in columns the invariant does not read.    *)
LEMMA RewriteInv ==
  ASSUME IInv,
         codes' \in [DOMAIN codes -> CodeRow], SameCodes,
         tokens' \in [DOMAIN tokens -> TokenRow], SameTokens,
         req' \in [Request -> RequestState], \A r \in Request : Advances(r),
         account' \in [User -> {"enabled", "disabled", "deleted"}],
         clients' \subseteq Client,
         purging' \in {"idle", "codes_done"},
         now' \in Nat
  PROVE  IInv'
<1>1. codes' \in Seq(CodeRow) /\ tokens' \in Seq(TokenRow)
  BY RewriteRows DEF IInv, TypeOK
<1>2. TypeOK'
  BY <1>1 DEF TypeOK
<1> QED
  BY <1>2, FrameStep DEF IInv

LEMMA SameRows ==
  ASSUME IInv
  PROVE  /\ codes \in [DOMAIN codes -> CodeRow]
         /\ tokens \in [DOMAIN tokens -> TokenRow]
         /\ req \in [Request -> RequestState]
         /\ UNCHANGED codes => SameCodes
         /\ UNCHANGED tokens => SameTokens
         /\ UNCHANGED req => \A r \in Request : Advances(r)
<1>1. codes \in [DOMAIN codes -> CodeRow] /\ tokens \in [DOMAIN tokens -> TokenRow]
  BY RowTypes, LenProperties DEF IInv, TypeOK
<1> QED
  BY <1>1 DEF SameCodes, SameTokens, Advances, Working, Pending, IInv, TypeOK

LEMMA RevokeFamilyInv ==
  ASSUME IInv, NEW r \in Request, RevokeFamily(r)
  PROVE  IInv'
<1>1. tokens' \in [DOMAIN tokens -> TokenRow] /\ SameTokens
  BY RowTypes DEF IInv, RevokeFamily, TokenRow, SameTokens
<1>2. req' \in [Request -> RequestState] /\ \A q \in Request : Advances(q)
  <2>1. Finish(r) /\ "idle" \in At
    BY DEF RevokeFamily, At
  <2> QED
    BY <2>1, GotoOrFinish
<1> QED
  BY <1>1, <1>2, SameRows, RewriteInv DEF IInv, TypeOK, RevokeFamily

LEMMA ReplyInv ==
  ASSUME IInv, NEW r \in Request, Reply(r)
  PROVE  IInv'
<1>1. tokens' \in [DOMAIN tokens -> TokenRow] /\ SameTokens
  BY RowTypes DEF IInv, Reply, TokenRow, SameTokens
<1>2. req' \in [Request -> RequestState] /\ \A q \in Request : Advances(q)
  <2>1. Finish(r) /\ "idle" \in At
    BY DEF Reply, At
  <2> QED
    BY <2>1, GotoOrFinish
<1> QED
  BY <1>1, <1>2, SameRows, RewriteInv DEF IInv, TypeOK, Reply

LEMMA LinkInv ==
  ASSUME IInv, NEW r \in Request, Link(r)
  PROVE  IInv'
<1>1. /\ req[r].token \in DOMAIN tokens /\ req[r].at = "link"
      /\ req[r].successor \in Nat
  BY RowTypes DEF IInv, RequestsWellFormed, Link, RequestState
<1> DEFINE t == req[r].token
           row == [tokens[t] EXCEPT !.replaced_by =
                     IF Token(t) /\ Token(req[r].successor)
                     THEN req[r].successor ELSE @]
<1>2. tokens' = [tokens EXCEPT ![t] = row] /\ row \in TokenRow
  BY <1>1, RowTypes DEF IInv, Link, TokenRow
<1>3. tokens' \in [DOMAIN tokens -> TokenRow]
  BY <1>1, <1>2, SameRows
<1>4. SameTokens
  BY <1>1, <1>2, RowTypes DEF IInv, SameTokens, TokenRow
<1>5. req' \in [Request -> RequestState] /\ \A q \in Request : Advances(q)
  <2>1. Goto(r, "check_account") /\ "check_account" \in At
    BY DEF Link, At
  <2> QED
    BY <1>1, <2>1, GotoOrFinish
<1> QED
  BY <1>3, <1>4, <1>5, SameRows, RewriteInv DEF IInv, TypeOK, Link

LEMMA RevokeTokenInv ==
  ASSUME IInv, NEW cl \in Client, NEW t \in DOMAIN tokens, RevokeToken(cl, t)
  PROVE  IInv'
<1> DEFINE row == [tokens[t] EXCEPT !.revoked = TRUE]
<1>1. tokens' = [tokens EXCEPT ![t] = row] /\ row \in TokenRow
  BY RowTypes DEF IInv, RevokeToken, TokenRow
<1>2. tokens' \in [DOMAIN tokens -> TokenRow]
  BY <1>1, SameRows
<1>3. SameTokens
  BY <1>1, RowTypes DEF IInv, SameTokens, TokenRow
<1> QED
  BY <1>2, <1>3, SameRows, RewriteInv DEF IInv, TypeOK, RevokeToken

LEMMA PurgeInv ==
  ASSUME IInv, PurgeCodes \/ PurgeTokens
  PROVE  IInv'
<1>1. CASE PurgeCodes
  <2>1. codes' \in [DOMAIN codes -> CodeRow] /\ SameCodes
    BY <1>1, RowTypes DEF IInv, PurgeCodes, CodeRow, SameCodes
  <2> QED
    BY <1>1, <2>1, SameRows, RewriteInv DEF IInv, TypeOK, PurgeCodes
<1>2. CASE PurgeTokens
  <2>1. tokens' \in [DOMAIN tokens -> TokenRow] /\ SameTokens
    BY <1>2, RowTypes DEF IInv, PurgeTokens, TokenRow, SameTokens
  <2> QED
    BY <1>2, <2>1, SameRows, RewriteInv DEF IInv, TypeOK, PurgeTokens
<1> QED
  BY <1>1, <1>2

LEMMA DeleteUserInv ==
  ASSUME IInv, NEW u \in User, DeleteUser(u)
  PROVE  IInv'
<1>1. codes' \in [DOMAIN codes -> CodeRow] /\ SameCodes
  BY RowTypes DEF IInv, DeleteUser, Cascade, CodeRow, SameCodes
<1>2. tokens' \in [DOMAIN tokens -> TokenRow] /\ SameTokens
  BY RowTypes DEF IInv, DeleteUser, Cascade, TokenRow, SameTokens
<1> QED
  BY <1>1, <1>2, SameRows, RewriteInv DEF IInv, TypeOK, DeleteUser

LEMMA DeleteClientInv ==
  ASSUME IInv, NEW cl \in Client, DeleteClient(cl)
  PROVE  IInv'
<1>1. codes' \in [DOMAIN codes -> CodeRow] /\ SameCodes
  BY RowTypes DEF IInv, DeleteClient, Cascade, CodeRow, SameCodes
<1>2. tokens' \in [DOMAIN tokens -> TokenRow] /\ SameTokens
  BY RowTypes DEF IInv, DeleteClient, Cascade, TokenRow, SameTokens
<1> QED
  BY <1>1, <1>2, SameRows, RewriteInv DEF IInv, TypeOK, DeleteClient

LEMMA AccountInv ==
  ASSUME IInv, NEW u \in User, DisableUser(u) \/ EnableUser(u)
  PROVE  IInv'
<1>1. CASE DisableUser(u)
  BY <1>1, SameRows, RewriteInv DEF IInv, TypeOK, DisableUser
<1>2. CASE EnableUser(u)
  <2>1. req' \in [Request -> RequestState]
    BY <1>2, RowTypes DEF IInv, EnableUser, RequestState
  <2>2. \A r \in Request : Advances(r)
    BY <1>2, RowTypes DEF IInv, EnableUser, RequestState, Advances, Working, Pending
  <2> QED
    BY <1>2, <2>1, <2>2, SameRows, RewriteInv DEF IInv, TypeOK, EnableUser
<1> QED
  BY <1>1, <1>2

LEMMA TickInv == ASSUME IInv, Tick PROVE IInv'
  BY SameRows, RewriteInv DEF IInv, TypeOK, Tick

LEMMA StatementInv ==
  ASSUME IInv, NEW r \in Request,
         CheckReplay(r) \/ DetectReuse(r) \/ Sign(r) \/ Abort(r)
  PROVE  IInv'
<1>1. /\ UNCHANGED <<codes, tokens, account, clients, purging, now>>
      /\ \E at \in At :
           \/ Finish(r)
           \/ /\ Goto(r, at)
              /\ \/ at \notin Working
                 \/ req[r].at = "sign" /\ at = "reply"
                 \/ req[r].at = "sign" /\ at = "mint" /\ req[r].token = 0
  BY DEF CheckReplay, DetectReuse, Sign, Abort, At, Working
<1>2. req' \in [Request -> RequestState] /\ \A q \in Request : Advances(q)
  BY <1>1, GotoOrFinish
<1>3. TypeOK'
  BY <1>1, <1>2 DEF IInv, TypeOK
<1> QED
  BY <1>1, <1>2, <1>3, RequestOnlyInv

LEMMA CheckAccountInv ==
  ASSUME IInv, NEW r \in Request, NEW requested \in ScopeSets \cup {{}},
         CheckAccount(r, requested)
  PROVE  IInv'
<1>1. UNCHANGED <<codes, tokens, account, clients, purging, now>>
      /\ req[r].at = "check_account" /\ req[r] \in RequestState
      /\ req \in [Request -> RequestState]
  BY RowTypes DEF CheckAccount, IInv, TypeOK
<1>2. CASE Finish(r) \/ Goto(r, "revoke_family")
  <2>1. req' \in [Request -> RequestState] /\ \A q \in Request : Advances(q)
    BY <1>2, GotoOrFinish DEF At, Working
  <2> QED
    BY <1>1, <2>1, RequestOnlyInv DEF IInv, TypeOK
<1>3. CASE ~Finish(r) /\ ~Goto(r, "revoke_family")
  <2> DEFINE kept == Resolved(requested, req[r].scopes)
  <2>1. /\ kept \subseteq req[r].scopes
        /\ req' = [req EXCEPT ![r] = [req[r] EXCEPT !.at = "sign", !.scopes = kept]]
    BY <1>1, <1>3 DEF CheckAccount
  <2>2. [req[r] EXCEPT !.at = "sign", !.scopes = kept] \in RequestState
    BY <1>1, <2>1 DEF RequestState, At
  <2>3. /\ req' \in [Request -> RequestState]
        /\ req'[r] = [req[r] EXCEPT !.at = "sign", !.scopes = kept]
        /\ \A q \in Request : q # r => req'[q] = req[q]
    BY <1>1, <2>1, <2>2
  <2>4. /\ req'[r].at = "sign" /\ req'[r].client = req[r].client
        /\ req'[r].family = req[r].family /\ req'[r].token = req[r].token
        /\ req'[r].successor = req[r].successor
        /\ req'[r].scopes \subseteq req[r].scopes
    BY <1>1, <2>1, <2>3 DEF RequestState
  <2>5. req[r].token # 0
    BY <1>1, RowTypes DEF IInv, RequestsWellFormed
  <2>6. Advances(r)
    BY <1>1, <2>4, <2>5 DEF Advances, Working, Pending
  <2>7. \A q \in Request : Advances(q)
    BY <2>3, <2>6 DEF Advances, Working, Pending
  <2> QED
    BY <1>1, <2>3, <2>7, RequestOnlyInv DEF IInv, TypeOK
<1> QED
  BY <1>2, <1>3

-----------------------------------------------------------------------------
(* The four steps that hand the credential of a family on.                 *)

(* The claiming UPDATE of a code: nothing else can hold its family,        *)
(* because the code was unspent.                                           *)
LEMMA RedeemGrantedInv ==
  ASSUME IInv, NEW r \in Request, NEW cl \in Client, NEW c \in DOMAIN codes,
         NEW uri \in Uri, NEW v \in Presented, RedeemGranted(r, cl, c, uri, v)
  PROVE  IInv'
<1> DEFINE row == [codes[c] EXCEPT !.used = TRUE]
           new == [at |-> "sign", client |-> cl, family |-> c, token |-> 0,
                   successor |-> 0, scopes |-> codes[c].scopes,
                   admitted |-> account[codes[c].user] = "enabled"]
<1>1. /\ codes[c] \in CodeRow /\ ~codes[c].used /\ codes[c].client = cl
      /\ c \in Nat
      /\ UNCHANGED <<tokens, account, clients, purging, now>>
      /\ codes' = [codes EXCEPT ![c] = row]
      /\ req' = [req EXCEPT ![r] = new]
  BY RowTypes DEF RedeemGranted, UnspentCode, IInv
<1>2. row \in CodeRow /\ new \in RequestState
  BY <1>1 DEF CodeRow, RequestState, At
<1>3. codes' \in Seq(CodeRow)
  BY <1>1, <1>2, UpdateRow DEF IInv, TypeOK
<1>4. /\ req' \in [Request -> RequestState] /\ req'[r] = new
      /\ \A q \in Request : q # r => req'[q] = req[q]
  BY <1>1, <1>2 DEF IInv, TypeOK
<1>5. TypeOK'
  BY <1>1, <1>3, <1>4 DEF IInv, TypeOK
<1>6. /\ DOMAIN codes' = DOMAIN codes
      /\ codes'[c].used
      /\ \A d \in DOMAIN codes :
           /\ codes'[d].client = codes[d].client /\ codes'[d].user = codes[d].user
           /\ codes'[d].scopes = codes[d].scopes
           /\ codes[d].used => codes'[d].used
  BY <1>1, RowTypes DEF IInv, CodeRow
<1>7. Lineage'
  BY <1>1, <1>6 DEF IInv, Lineage
<1>8. RequestsWellFormed'
  BY <1>1, <1>4, <1>6 DEF IInv, RequestsWellFormed, FamilyOf
<1>9. OneCredential'
  <2>1. \A t \in DOMAIN tokens : tokens[t].family # c
    BY <1>1 DEF IInv, Lineage
  <2>2. \A q \in Request : Pending(q) => req[q].family # c
    BY <1>1 DEF IInv, RequestsWellFormed, Pending, FamilyOf
  <2>3. \A q \in Request : q # r => Pending(q)' = Pending(q)
    BY <1>4 DEF Pending
  <2> QED
    BY <1>1, <1>4, <2>1, <2>2, <2>3 DEF IInv, OneCredential, FamilyOf
<1> QED
  BY <1>5, <1>7, <1>8, <1>9 DEF IInv

(* The claiming UPDATE of a refresh token takes the unspent token of the   *)
(* family away and leaves its holder as the only one.                      *)
LEMMA RotateClaimInv ==
  ASSUME IInv, NEW r \in Request, NEW cl \in Client, NEW t \in DOMAIN tokens,
         RotateClaim(r, cl, t)
  PROVE  IInv'
<1> DEFINE row == [tokens[t] EXCEPT !.used = TRUE]
           new == [at |-> "rotate", client |-> cl, family |-> tokens[t].family,
                   token |-> t, successor |-> 0, scopes |-> tokens[t].scopes,
                   admitted |-> account[tokens[t].user] = "enabled"]
<1>1. /\ tokens[t] \in TokenRow /\ ~tokens[t].used /\ tokens[t].client = cl
      /\ t \in Nat
      /\ UNCHANGED <<codes, account, clients, purging, now>>
      /\ tokens' = [tokens EXCEPT ![t] = row]
      /\ req' = [req EXCEPT ![r] = new]
  BY RowTypes DEF RotateClaim, Usable, IInv
<1>2. row \in TokenRow /\ new \in RequestState
  BY <1>1 DEF TokenRow, RequestState, At
<1>3. tokens' \in Seq(TokenRow)
  BY <1>1, <1>2, UpdateRow DEF IInv, TypeOK
<1>4. /\ req' \in [Request -> RequestState] /\ req'[r] = new
      /\ \A q \in Request : q # r => req'[q] = req[q]
  BY <1>1, <1>2 DEF IInv, TypeOK
<1>5. TypeOK'
  BY <1>1, <1>3, <1>4 DEF IInv, TypeOK
<1>6. /\ DOMAIN tokens' = DOMAIN tokens
      /\ \A s \in DOMAIN tokens :
           /\ tokens'[s].client = tokens[s].client
           /\ tokens'[s].user = tokens[s].user
           /\ tokens'[s].scopes = tokens[s].scopes
           /\ tokens'[s].family = tokens[s].family
           /\ tokens'[s].used = (tokens[s].used \/ s = t)
  BY <1>1, RowTypes DEF IInv, TokenRow
<1>7. Lineage'
  BY <1>1, <1>6 DEF IInv, Lineage
<1>8. RequestsWellFormed'
  BY <1>1, <1>4, <1>6 DEF IInv, RequestsWellFormed, Lineage, FamilyOf
<1>9. OneCredential'
  <2>1. \A q \in Request : Pending(q) => req[q].family # tokens[t].family
    BY <1>1 DEF IInv, OneCredential, FamilyOf
  <2>2. \A q \in Request : q # r => Pending(q)' = Pending(q)
    BY <1>4 DEF Pending
  <2> QED
    BY <1>1, <1>4, <1>6, <2>1, <2>2 DEF IInv, OneCredential, FamilyOf
<1> QED
  BY <1>5, <1>7, <1>8, <1>9 DEF IInv

(* Minting turns the request that holds the family into its unspent token. *)
LEMMA MintInv ==
  ASSUME IInv, NEW r \in Request, NEW scopes \in SUBSET Scope,
         NEW at \in {"link", "reply"}, Pending(r),
         at = "link" => req[r].at = "rotate",
         scopes \subseteq codes[FamilyOf(r)].scopes,
         tokens' = Append(tokens, MintedRow(codes[FamilyOf(r)].user,
                                            req[r].client, scopes, FamilyOf(r))),
         req' = [req EXCEPT ![r] = Minted(r, at, Len(tokens) + 1)],
         UNCHANGED <<codes, account, clients, purging, now>>
  PROVE  IInv'
<1> DEFINE f == req[r].family
           row == MintedRow(codes[f].user, req[r].client, scopes, f)
           new == Minted(r, at, Len(tokens) + 1)
<1>1. /\ f \in DOMAIN codes /\ codes[f] \in CodeRow /\ codes[f].used
      /\ req[r].client = codes[f].client
      /\ req[r] \in RequestState /\ req \in [Request -> RequestState]
  BY RowTypes DEF IInv, TypeOK, RequestsWellFormed, Pending, FamilyOf
<1>2. row \in TokenRow
  BY <1>1, LifetimeAssumption DEF IInv, TypeOK, MintedRow, TokenRow, CodeRow, RequestState
<1>3. tokens' = Append(tokens, row)
  BY DEF FamilyOf
<1>4. /\ tokens' \in Seq(TokenRow) /\ Len(tokens) \in Nat
      /\ DOMAIN tokens = 1..Len(tokens)
      /\ DOMAIN tokens' = 1..(Len(tokens) + 1)
      /\ \A t \in DOMAIN tokens : tokens'[t] = tokens[t]
      /\ tokens'[Len(tokens) + 1] = row
  BY <1>2, <1>3, AppendRow DEF IInv, TypeOK
<1>5. new \in RequestState
  <2>1. at \in At /\ Len(tokens) + 1 \in Nat
    BY <1>4 DEF At
  <2> QED
    BY <1>1, <2>1 DEF Minted, RequestState
<1>6. /\ req' \in [Request -> RequestState] /\ req'[r] = new
      /\ \A q \in Request : q # r => req'[q] = req[q]
  BY <1>1, <1>5
<1>7. /\ new.at = at /\ new.client = req[r].client /\ new.family = f
      /\ new.token = req[r].token /\ new.scopes = req[r].scopes
      /\ new.successor = Len(tokens) + 1
  BY DEF Minted
<1>8. TypeOK'
  BY <1>4, <1>6 DEF IInv, TypeOK
<1>9. /\ row.client = codes[f].client /\ row.user = codes[f].user
      /\ row.scopes = scopes /\ row.family = f /\ ~row.used
  BY <1>1 DEF MintedRow
<1>10. Lineage'
  <2>1. \A t \in DOMAIN tokens' : t \in DOMAIN tokens \/ t = Len(tokens) + 1
    BY <1>4
  <2> DEFINE Descends(t) ==
               /\ tokens'[t].family \in DOMAIN codes
               /\ codes[tokens'[t].family].used
               /\ tokens'[t].client = codes[tokens'[t].family].client
               /\ tokens'[t].user = codes[tokens'[t].family].user
               /\ tokens'[t].scopes \subseteq codes[tokens'[t].family].scopes
  <2>2. \A t \in DOMAIN tokens : Descends(t)
    BY <1>4 DEF IInv, Lineage
  <2>3. Descends(Len(tokens) + 1)
    BY <1>1, <1>4, <1>9 DEF FamilyOf
  <2> QED
    BY <2>1, <2>2, <2>3 DEF Lineage
<1>11. RequestsWellFormed'
  <2>1. DOMAIN tokens \subseteq DOMAIN tokens' /\ Len(tokens) + 1 \in DOMAIN tokens'
    BY <1>4
  <2>2. at = "link" => /\ req[r].token \in DOMAIN tokens
                       /\ tokens[req[r].token].family = f
    BY DEF IInv, RequestsWellFormed, FamilyOf
  <2>3. req[r].scopes \subseteq codes[f].scopes
    BY DEF IInv, RequestsWellFormed, FamilyOf, Pending
  <2>4. ASSUME NEW q \in Request, q # r
        PROVE  (/\ req[q].at \in Working =>
                   /\ req[q].family \in DOMAIN codes /\ codes[req[q].family].used
                   /\ req[q].client = codes[req[q].family].client
                   /\ req[q].scopes \subseteq codes[req[q].family].scopes
                /\ req[q].at \in {"rotate", "link", "check_account"} =>
                   /\ req[q].token \in DOMAIN tokens'
                   /\ tokens'[req[q].token].family = req[q].family
                /\ req[q].at \in {"link", "check_account"} =>
                   req[q].successor \in DOMAIN tokens')
    BY <1>4, <2>1 DEF IInv, RequestsWellFormed, FamilyOf, Working
  <2> QED
    BY <1>1, <1>4, <1>6, <1>7, <2>1, <2>2, <2>3, <2>4
       DEF RequestsWellFormed, FamilyOf, Working
<1>12. OneCredential'
  <2>1. \A t \in DOMAIN tokens : tokens[t].family = f => tokens[t].used
    BY DEF IInv, OneCredential, FamilyOf
  <2>2. ~Pending(r)' /\ \A q \in Request : Pending(q)' =>
          Pending(q) /\ q # r /\ req'[q] = req[q]
    BY <1>6, <1>7 DEF Pending
  <2>3. \A q \in Request : Pending(q)' => req[q].family # f
    BY <2>2 DEF IInv, OneCredential, FamilyOf
  <2>4. \A t \in DOMAIN tokens' : t \in DOMAIN tokens \/ t = Len(tokens) + 1
    BY <1>4
  <2> DEFINE last == Len(tokens) + 1
  <2>5. tokens'[last].family = f /\ \A t \in DOMAIN tokens : t # last
    BY <1>4, <1>9
  <2>6. \A s, t \in DOMAIN tokens' :
          /\ tokens'[s].family = tokens'[t].family
          /\ ~tokens'[s].used /\ ~tokens'[t].used
          => s = t
    BY <1>4, <2>1, <2>4, <2>5 DEF IInv, OneCredential
  <2>7. \A q \in Request, t \in DOMAIN tokens' :
          Pending(q)' /\ tokens'[t].family = req'[q].family => tokens'[t].used
    BY <1>4, <2>2, <2>3, <2>4, <2>5 DEF IInv, OneCredential, FamilyOf
  <2>8. \A p, q \in Request :
          Pending(p)' /\ Pending(q)' /\ req'[p].family = req'[q].family => p = q
    BY <2>2 DEF IInv, OneCredential, FamilyOf
  <2> QED
    BY <2>6, <2>7, <2>8 DEF OneCredential, FamilyOf
<1> QED
  BY <1>8, <1>10, <1>11, <1>12 DEF IInv

LEMMA MintFirstInv ==
  ASSUME IInv, NEW r \in Request, MintFirst(r)
  PROVE  IInv'
<1>1. CASE Finish(r) /\ UNCHANGED tokens
  <2>1. req' \in [Request -> RequestState] /\ \A q \in Request : Advances(q)
    BY <1>1, GotoOrFinish DEF At
  <2> QED
    BY <1>1, <2>1, RequestOnlyInv DEF IInv, TypeOK, MintFirst
<1>2. CASE ~(Finish(r) /\ UNCHANGED tokens)
  <2>1. /\ req[r].at = "mint" /\ req[r] \in RequestState
        /\ tokens' = Append(tokens, MintedRow(codes[FamilyOf(r)].user,
                               req[r].client, req[r].scopes, FamilyOf(r)))
        /\ req' = [req EXCEPT ![r] = Minted(r, "reply", Len(tokens) + 1)]
        /\ UNCHANGED <<codes, account, clients, purging, now>>
    BY <1>2, RowTypes DEF MintFirst, IInv
  <2>2. /\ req[r].scopes \subseteq codes[FamilyOf(r)].scopes
        /\ req[r].scopes \in SUBSET Scope /\ Pending(r)
    BY <2>1 DEF IInv, RequestsWellFormed, RequestState, Pending
  <2>3. "reply" \in {"link", "reply"} /\ "reply" # "link"
    OBVIOUS
  <2> QED
    BY <2>1, <2>2, <2>3, MintInv
<1> QED
  BY <1>1, <1>2

LEMMA MintSuccessorInv ==
  ASSUME IInv, NEW r \in Request, MintSuccessor(r)
  PROVE  IInv'
<1>1. CASE Finish(r) /\ UNCHANGED tokens
  <2>1. req' \in [Request -> RequestState] /\ \A q \in Request : Advances(q)
    BY <1>1, GotoOrFinish DEF At
  <2> QED
    BY <1>1, <2>1, RequestOnlyInv DEF IInv, TypeOK, MintSuccessor
<1>2. CASE ~(Finish(r) /\ UNCHANGED tokens)
  <2> DEFINE spent == tokens[req[r].token]
  <2>1. /\ req[r].at = "rotate"
        /\ tokens' = Append(tokens, MintedRow(spent.user, req[r].client,
                                              spent.scopes, spent.family))
        /\ req' = [req EXCEPT ![r] = Minted(r, "link", Len(tokens) + 1)]
        /\ UNCHANGED <<codes, account, clients, purging, now>>
    BY <1>2 DEF MintSuccessor
  <2>2. req[r].token \in DOMAIN tokens /\ spent.family = FamilyOf(r)
    BY <2>1 DEF IInv, RequestsWellFormed
  <2>3. /\ spent \in TokenRow /\ spent.user = codes[FamilyOf(r)].user
        /\ spent.scopes \subseteq codes[FamilyOf(r)].scopes
    BY <2>2, RowTypes DEF IInv, Lineage
  <2> QED
    BY <2>1, <2>2, <2>3, MintInv DEF Pending, TokenRow
<1> QED
  BY <1>1, <1>2

-----------------------------------------------------------------------------
LEMMA NextInv == IInv /\ [Next]_vars => IInv'
<1> SUFFICES ASSUME IInv, [Next]_vars PROVE IInv'
  OBVIOUS
<1>1. ASSUME NEW u \in User, NEW cl \in Client, NEW s \in ScopeSets,
             NEW uri \in Uri, NEW v \in Presented, IssueCode(u, cl, s, uri, v)
      PROVE  IInv'
  BY <1>1, IssueCodeInv
<1>2. ASSUME NEW r \in Request, CodeGrant(r)
      PROVE  IInv'
  BY <1>2, RedeemGrantedInv, RedeemRefusedInv, RedeemMissedInv, StatementInv,
     MintFirstInv DEF CodeGrant
<1>3. ASSUME NEW r \in Request, RefreshGrant(r)
      PROVE  IInv'
  BY <1>3, RotateClaimInv, RotateMissedInv, StatementInv, MintSuccessorInv,
     LinkInv, CheckAccountInv DEF RefreshGrant
<1>4. ASSUME NEW r \in Request, RequestStep(r)
      PROVE  IInv'
  BY <1>2, <1>3, <1>4, RevokeFamilyInv, StatementInv, ReplyInv DEF RequestStep
<1>5. CASE Administration
  BY <1>5, AccountInv, DeleteUserInv, DeleteClientInv, RevokeTokenInv, PurgeInv
     DEF Administration
<1>6. CASE Tick
  BY <1>6, TickInv
<1>7. CASE UNCHANGED vars
  BY <1>7, SameRows, RewriteInv DEF vars, IInv, TypeOK
<1> QED
  BY <1>1, <1>4, <1>5, <1>6, <1>7 DEF Next

LEMMA Invariant == Spec => []IInv
  BY InitInv, NextInv, PTL DEF Spec

(* Every table, request and account has the shape the code gives it.       *)
THEOREM Typing == Spec => []TypeOK
<1>1. IInv => TypeOK
  BY DEF IInv
<1> QED
  BY <1>1, Invariant, PTL

(* At no moment are two refresh tokens of one authorization accepted,      *)
(* however many requests exchange them at once and wherever they stop.     *)
THEOREM AtMostOneUsable == Spec => []OneUsableToken
<1>1. IInv => OneUsableToken
  BY DEF IInv, OneCredential, OneUsableToken, Usable
<1> QED
  BY <1>1, Invariant, PTL

(* No chain of exchanges moves a grant to another client or user, nor      *)
(* widens what the authorization code granted.                             *)
THEOREM Descent == Spec => []Lineage
<1>1. IInv => Lineage
  BY DEF IInv
<1> QED
  BY <1>1, Invariant, PTL

-----------------------------------------------------------------------------
(* What no step ever does to the tables: rows keep the columns that name   *)
(* them, and flags that are up stay up.                                    *)
CodesKept ==
  /\ DOMAIN codes \subseteq DOMAIN codes'
  /\ \A c \in DOMAIN codes :
       /\ codes'[c].client = codes[c].client /\ codes'[c].user = codes[c].user
       /\ codes'[c].expires_at = codes[c].expires_at
       /\ codes[c].used => codes'[c].used
       /\ codes[c].deleted => codes'[c].deleted

TokensKept ==
  /\ DOMAIN tokens \subseteq DOMAIN tokens'
  /\ \A t \in DOMAIN tokens :
       /\ tokens'[t].client = tokens[t].client /\ tokens'[t].user = tokens[t].user
       /\ tokens'[t].family = tokens[t].family
       /\ tokens'[t].expires_at = tokens[t].expires_at
       /\ tokens[t].used => tokens'[t].used
       /\ tokens[t].revoked => tokens'[t].revoked
       /\ tokens[t].deleted => tokens'[t].deleted

(* Where new rows come from: a code can be redeemed at first, and a token  *)
(* is minted by a request that holds its family.                           *)
CodesCome ==
  \A c \in DOMAIN codes' \ DOMAIN codes :
    /\ ~codes'[c].used /\ ~codes'[c].deleted
    /\ now' = now /\ now < codes'[c].expires_at

TokensCome ==
  \A t \in DOMAIN tokens' \ DOMAIN tokens :
    /\ tokens'[t].replaced_by = 0 /\ ~tokens'[t].deleted /\ ~tokens'[t].used
    /\ \E r \in Request : Pending(r) /\ tokens'[t].family = FamilyOf(r)

TablesKept == CodesKept /\ TokensKept /\ CodesCome /\ TokensCome /\ now <= now'

(* Statements that update rows or none, but insert none.                   *)
LEMMA UpdateKeeps ==
  ASSUME IInv, DOMAIN codes' = DOMAIN codes, DOMAIN tokens' = DOMAIN tokens,
         CodesKept, TokensKept, now <= now'
  PROVE  TablesKept
  BY DEF TablesKept, CodesCome, TokensCome

LEMMA InsertKeeps ==
  ASSUME IInv, NEW r \in Request, Pending(r), NEW u, NEW cl, NEW s,
         tokens' = Append(tokens, MintedRow(u, cl, s, FamilyOf(r))),
         MintedRow(u, cl, s, FamilyOf(r)) \in TokenRow,
         UNCHANGED <<codes, now>>
  PROVE  TablesKept
<1> DEFINE row == MintedRow(u, cl, s, FamilyOf(r))
<1>1. /\ DOMAIN tokens' = 1..(Len(tokens) + 1) /\ DOMAIN tokens = 1..Len(tokens)
      /\ Len(tokens) \in Nat
      /\ \A t \in DOMAIN tokens : tokens'[t] = tokens[t]
      /\ tokens'[Len(tokens) + 1] = row
  BY AppendRow DEF IInv, TypeOK
<1>2. \A t \in DOMAIN tokens' \ DOMAIN tokens : t = Len(tokens) + 1
  BY <1>1
<1>3. row.replaced_by = 0 /\ ~row.deleted /\ ~row.used /\ row.family = FamilyOf(r)
  BY DEF MintedRow
<1>4. now \in Nat
  BY DEF IInv, TypeOK
<1>5. DOMAIN tokens \subseteq DOMAIN tokens'
  BY <1>1
<1> HIDE DEF row
<1> QED
  BY <1>1, <1>2, <1>3, <1>4, <1>5
     DEF TablesKept, CodesKept, TokensKept, CodesCome, TokensCome

LEMMA MintKeeps ==
  ASSUME IInv, NEW r \in Request, MintFirst(r) \/ MintSuccessor(r)
  PROVE  TablesKept
<1>1. /\ now \in Nat /\ UNCHANGED <<codes, now>> /\ Pending(r)
      /\ req[r] \in RequestState /\ req[r].client # None
      /\ FamilyOf(r) \in DOMAIN codes /\ codes[FamilyOf(r)] \in CodeRow
  <2>1. codes[FamilyOf(r)] \in CodeRow /\ req[r].client = codes[FamilyOf(r)].client
        /\ FamilyOf(r) \in DOMAIN codes
    BY RowTypes DEF IInv, TypeOK, MintFirst, MintSuccessor, RequestsWellFormed
  <2> QED
    BY <2>1, RowTypes, NoneAssumption
       DEF IInv, TypeOK, CodeRow, MintFirst, MintSuccessor, Pending
<1>2. CASE UNCHANGED tokens
  BY <1>1, <1>2, UpdateKeeps DEF CodesKept, TokensKept
<1>3. CASE MintFirst(r) /\ ~UNCHANGED tokens
  <2> DEFINE row == MintedRow(codes[FamilyOf(r)].user, req[r].client,
                              req[r].scopes, FamilyOf(r))
  <2>1. tokens' = Append(tokens, row)
    BY <1>3 DEF MintFirst
  <2>2. row \in TokenRow
    BY <1>1, LifetimeAssumption DEF MintedRow, TokenRow, CodeRow, RequestState, FamilyOf
  <2> QED
    BY <1>1, <2>1, <2>2, InsertKeeps
<1>4. CASE MintSuccessor(r) /\ ~UNCHANGED tokens
  <2> DEFINE spent == tokens[req[r].token]
             row == MintedRow(spent.user, req[r].client, spent.scopes, FamilyOf(r))
  <2>1. /\ req[r].token \in DOMAIN tokens /\ spent.family = FamilyOf(r)
        /\ spent \in TokenRow
    BY <1>4, RowTypes DEF MintSuccessor, IInv, RequestsWellFormed
  <2>2. tokens' = Append(tokens, row)
    BY <1>4, <2>1 DEF MintSuccessor
  <2>3. row \in TokenRow
    BY <1>1, <2>1, LifetimeAssumption DEF MintedRow, TokenRow, RequestState, FamilyOf
  <2> QED
    BY <1>1, <2>2, <2>3, InsertKeeps
<1> QED
  BY <1>2, <1>3, <1>4

LEMMA StepKeeps ==
  ASSUME IInv, [Next]_vars
  PROVE  TablesKept
<1>1. now \in Nat /\ now <= now
  BY DEF IInv, TypeOK
<1>2. ASSUME NEW u \in User, NEW cl \in Client, NEW s \in ScopeSets,
             NEW uri \in Uri, NEW v \in Presented, IssueCode(u, cl, s, uri, v)
      PROVE  TablesKept
  <2> DEFINE row == [client |-> cl, user |-> u, scopes |-> s, redirect_uri |-> uri,
                     code_challenge |-> v, expires_at |-> now + CodeLifetime,
                     used |-> FALSE, deleted |-> FALSE]
  <2>1. row \in CodeRow
    BY <1>1, LifetimeAssumption DEF CodeRow, Scope, Presented
  <2>2. /\ codes' = Append(codes, row) /\ UNCHANGED <<tokens, now>>
    BY <1>2 DEF IssueCode
  <2>3. /\ DOMAIN codes' = 1..(Len(codes) + 1) /\ DOMAIN codes = 1..Len(codes)
        /\ Len(codes) \in Nat
        /\ \A c \in DOMAIN codes : codes'[c] = codes[c]
        /\ codes'[Len(codes) + 1] = row
    BY <2>1, <2>2, AppendRow DEF IInv, TypeOK
  <2>4. \A c \in DOMAIN codes' \ DOMAIN codes : c = Len(codes) + 1
    BY <2>3
  <2>5. DOMAIN codes \subseteq DOMAIN codes'
    BY <2>3
  <2>6. ~row.used /\ ~row.deleted /\ now < row.expires_at
    BY <1>1, LifetimeAssumption
  <2> HIDE DEF row
  <2> QED
    BY <1>1, <2>2, <2>3, <2>4, <2>5, <2>6
       DEF TablesKept, CodesKept, TokensKept, CodesCome, TokensCome
<1>3. ASSUME NEW r \in Request, CodeGrant(r)
      PROVE  TablesKept
  <2>1. ASSUME NEW cl \in Client, NEW c \in DOMAIN codes, NEW uri \in Uri, NEW v \in Presented,
               RedeemGranted(r, cl, c, uri, v) \/ RedeemRefused(r, cl, c, uri, v)
        PROVE  TablesKept
    <3>1. /\ codes' = [codes EXCEPT ![c] = [codes[c] EXCEPT !.used = TRUE]]
          /\ UNCHANGED <<tokens, now>>
      BY <2>1 DEF RedeemGranted, RedeemRefused
    <3>2. DOMAIN codes' = DOMAIN codes /\ CodesKept
      BY <3>1, RowTypes DEF IInv, CodeRow, CodesKept
    <3> QED
      BY <1>1, <3>1, <3>2, UpdateKeeps DEF TokensKept
  <2>2. ASSUME UNCHANGED <<codes, tokens, now>>
        PROVE  TablesKept
    BY <1>1, <2>2, UpdateKeeps DEF CodesKept, TokensKept
  <2> QED
    BY <1>3, <2>1, <2>2, MintKeeps DEF CodeGrant, RedeemMissed, CheckReplay
<1>4. ASSUME NEW r \in Request, RefreshGrant(r)
      PROVE  TablesKept
  <2>1. ASSUME NEW cl \in Client, NEW t \in DOMAIN tokens, RotateClaim(r, cl, t)
        PROVE  TablesKept
    <3>1. /\ tokens' = [tokens EXCEPT ![t] = [tokens[t] EXCEPT !.used = TRUE]]
          /\ UNCHANGED <<codes, now>>
      BY <2>1 DEF RotateClaim
    <3>2. DOMAIN tokens' = DOMAIN tokens /\ TokensKept
      BY <3>1, RowTypes DEF IInv, TokenRow, TokensKept
    <3> QED
      BY <1>1, <3>1, <3>2, UpdateKeeps DEF CodesKept
  <2>2. CASE Link(r)
    <3>1. /\ DOMAIN tokens' = DOMAIN tokens /\ UNCHANGED <<codes, now>>
          /\ req[r].token \in DOMAIN tokens
          /\ tokens' = [tokens EXCEPT ![req[r].token].replaced_by =
                          IF Token(req[r].token) /\ Token(req[r].successor)
                          THEN req[r].successor ELSE @]
      BY <2>2 DEF Link, IInv, RequestsWellFormed
    <3>2. TokensKept
      BY <3>1, RowTypes DEF IInv, TokenRow, TokensKept
    <3> QED
      BY <1>1, <3>1, <3>2, UpdateKeeps DEF CodesKept
  <2>3. ASSUME UNCHANGED <<codes, tokens, now>>
        PROVE  TablesKept
    BY <1>1, <2>3, UpdateKeeps DEF CodesKept, TokensKept
  <2> QED
    BY <1>4, <2>1, <2>2, <2>3, MintKeeps DEF RefreshGrant, RotateMissed, DetectReuse, CheckAccount
<1>5. ASSUME NEW r \in Request, RevokeFamily(r) \/ Sign(r) \/ Reply(r) \/ Abort(r)
      PROVE  TablesKept
  <2>1. DOMAIN tokens' = DOMAIN tokens /\ TokensKept
    <3>1. CASE RevokeFamily(r)
      BY <3>1, RowTypes DEF IInv, RevokeFamily, TokenRow, TokensKept
    <3>2. CASE Reply(r)
      BY <3>2, RowTypes DEF IInv, Reply, TokenRow, TokensKept
    <3> QED
      BY <1>5, <3>1, <3>2 DEF Sign, Abort, TokensKept
  <2>2. UNCHANGED <<codes, now>>
    BY <1>5 DEF RevokeFamily, Sign, Reply, Abort
  <2> QED
    BY <1>1, <2>1, <2>2, UpdateKeeps DEF CodesKept
<1>6. CASE Administration
  <2>1. now' = now
    BY <1>6 DEF Administration, DisableUser, EnableUser, DeleteUser, DeleteClient, RevokeToken,
                PurgeCodes, PurgeTokens
  <2>2. DOMAIN codes' = DOMAIN codes /\ CodesKept
    <3>1. CASE PurgeCodes
      BY <3>1, RowTypes DEF IInv, PurgeCodes, CodeRow, CodesKept
    <3>2. ASSUME NEW u \in User, DeleteUser(u) PROVE DOMAIN codes' = DOMAIN codes /\ CodesKept
      BY <3>2, RowTypes DEF IInv, DeleteUser, Cascade, CodeRow, CodesKept
    <3>3. ASSUME NEW cl \in Client, DeleteClient(cl) PROVE DOMAIN codes' = DOMAIN codes /\ CodesKept
      BY <3>3, RowTypes DEF IInv, DeleteClient, Cascade, CodeRow, CodesKept
    <3> QED
      BY <1>6, <3>1, <3>2, <3>3
         DEF Administration, DisableUser, EnableUser, RevokeToken, PurgeTokens, CodesKept
  <2>3. DOMAIN tokens' = DOMAIN tokens /\ TokensKept
    <3>1. CASE PurgeTokens
      BY <3>1, RowTypes DEF IInv, PurgeTokens, TokenRow, TokensKept
    <3>2. ASSUME NEW u \in User, DeleteUser(u) PROVE DOMAIN tokens' = DOMAIN tokens /\ TokensKept
      BY <3>2, RowTypes DEF IInv, DeleteUser, Cascade, TokenRow, TokensKept
    <3>3. ASSUME NEW cl \in Client, DeleteClient(cl) PROVE DOMAIN tokens' = DOMAIN tokens /\ TokensKept
      BY <3>3, RowTypes DEF IInv, DeleteClient, Cascade, TokenRow, TokensKept
    <3>4. ASSUME NEW cl \in Client, NEW t \in DOMAIN tokens, RevokeToken(cl, t)
          PROVE  DOMAIN tokens' = DOMAIN tokens /\ TokensKept
      BY <3>4, RowTypes DEF IInv, RevokeToken, TokenRow, TokensKept
    <3> QED
      BY <1>6, <3>1, <3>2, <3>3, <3>4
         DEF Administration, DisableUser, EnableUser, PurgeCodes, TokensKept
  <2> QED
    BY <1>1, <2>1, <2>2, <2>3, UpdateKeeps
<1>7. CASE Tick \/ UNCHANGED vars
  <2>1. UNCHANGED <<codes, tokens>> /\ now <= now'
    BY <1>1, <1>7 DEF Tick, vars
  <2> QED
    BY <2>1, UpdateKeeps DEF CodesKept, TokensKept
<1> QED
  BY <1>2, <1>3, <1>4, <1>5, <1>6, <1>7 DEF Next, RequestStep

-----------------------------------------------------------------------------
(* A family is only taken by a request that finds its live credential.     *)
LiveCode(f) == Code(f) /\ ~codes[f].used /\ now < codes[f].expires_at
LiveToken(f) == \E t \in DOMAIN tokens : tokens[t].family = f /\ Usable(t)

Holds(r) ==
  Pending(r)' =>
    \/ Pending(r) /\ req'[r].family = req[r].family
    \/ LiveCode(req'[r].family) \/ LiveToken(req'[r].family)

LEMMA HoldersCome ==
  ASSUME IInv, [Next]_vars, NEW r \in Request
  PROVE  Holds(r)
<1>1. /\ req \in [Request -> RequestState] /\ req[r] \in RequestState
      /\ Idle.at = "idle"
  BY DEF IInv, TypeOK, Idle
<1>2. ASSUME NEW u \in User, NEW cl \in Client, NEW s \in ScopeSets,
             NEW uri \in Uri, NEW v \in Presented, IssueCode(u, cl, s, uri, v)
      PROVE  Holds(r)
  BY <1>2 DEF IssueCode, Holds, Pending
<1>3. ASSUME NEW q \in Request, CodeGrant(q)
      PROVE  Holds(r)
  <2>1. ASSUME NEW cl \in Client, NEW c \in DOMAIN codes, NEW uri \in Uri, NEW v \in Presented,
               RedeemGranted(q, cl, c, uri, v)
        PROVE  Holds(r)
    <3>1. LiveCode(c)
      BY <2>1 DEF RedeemGranted, UnspentCode, ProvesCode, LiveCode
    <3> QED
      BY <1>1, <2>1, <3>1 DEF RedeemGranted, Holds, Pending
  <2>2. ASSUME NEW cl \in Client, NEW c \in DOMAIN codes, NEW uri \in Uri, NEW v \in Presented,
               RedeemRefused(q, cl, c, uri, v)
        PROVE  Holds(r)
    BY <2>2 DEF RedeemRefused, Holds, Pending
  <2>3. ASSUME NEW cl \in Client, NEW c \in DOMAIN codes, RedeemMissed(q, cl, c)
        PROVE  Holds(r)
    BY <1>1, <2>3 DEF RedeemMissed, Asking, Holds, Pending
  <2>4. CASE CheckReplay(q) \/ MintFirst(q)
    BY <1>1, <2>4 DEF CheckReplay, MintFirst, Minted, Goto, Finish, Holds, Pending, RequestState
  <2> QED
    BY <1>3, <2>1, <2>2, <2>3, <2>4 DEF CodeGrant
<1>4. ASSUME NEW q \in Request, RefreshGrant(q)
      PROVE  Holds(r)
  <2>1. ASSUME NEW cl \in Client, NEW t \in DOMAIN tokens, RotateClaim(q, cl, t)
        PROVE  Holds(r)
    <3>1. LiveToken(tokens[t].family)
      BY <2>1 DEF RotateClaim, LiveToken
    <3> QED
      BY <1>1, <2>1, <3>1 DEF RotateClaim, Holds, Pending
  <2>2. ASSUME NEW cl \in Client, NEW t \in DOMAIN tokens, RotateMissed(q, cl, t)
        PROVE  Holds(r)
    BY <1>1, <2>2 DEF RotateMissed, Asking, Holds, Pending
  <2>3. CASE DetectReuse(q) \/ MintSuccessor(q) \/ Link(q)
    <3>1. \/ Finish(q)
          \/ \E at \in {"revoke_family", "check_account"} : Goto(q, at)
          \/ req' = [req EXCEPT ![q] = Minted(q, "link", Len(tokens) + 1)]
      BY <2>3 DEF DetectReuse, MintSuccessor, Link
    <3>2. CASE Finish(q) \/ \E at \in {"revoke_family", "check_account"} : Goto(q, at)
      BY <1>1, <3>2 DEF Goto, Finish, Holds, Pending, RequestState
    <3>3. CASE req' = [req EXCEPT ![q] = Minted(q, "link", Len(tokens) + 1)]
      BY <1>1, <3>3 DEF Minted, Holds, Pending
    <3> QED
      BY <3>1, <3>2, <3>3
  <2>4. ASSUME NEW requested \in ScopeSets \cup {{}}, CheckAccount(q, requested)
        PROVE  Holds(r)
    <3>1. \A p \in Request : Advances(p)
      <4>1. /\ req[q].at = "check_account" /\ req[q].token # 0 /\ req[q] \in RequestState
        BY <2>4, RowTypes DEF CheckAccount, IInv, RequestsWellFormed
      <4>2. CASE Finish(q) \/ Goto(q, "revoke_family")
        BY <4>2, GotoOrFinish DEF At, Working
      <4>3. CASE /\ Resolved(requested, req[q].scopes) \subseteq req[q].scopes
                 /\ req' = [req EXCEPT ![q].at = "sign",
                              ![q].scopes = Resolved(requested, req[q].scopes)]
        BY <1>1, <4>1, <4>3 DEF Advances, Pending, Working, RequestState
      <4> QED
        BY <2>4, <4>2, <4>3 DEF CheckAccount, UserBelongs
    <3> QED
      BY <3>1 DEF Advances, Holds, Pending, Working
  <2> QED
    BY <1>4, <2>1, <2>2, <2>3, <2>4 DEF RefreshGrant
<1>5. ASSUME NEW q \in Request, RevokeFamily(q) \/ Sign(q) \/ Reply(q) \/ Abort(q)
      PROVE  Holds(r)
  BY <1>1, <1>5 DEF RevokeFamily, Sign, Reply, Abort, Goto, Finish, Holds, Pending, RequestState
<1>6. CASE Administration
  <2>1. ASSUME NEW u \in User, EnableUser(u) PROVE Holds(r)
    BY <1>1, <2>1 DEF EnableUser, Holds, Pending, RequestState
  <2> QED
    BY <1>6, <2>1 DEF Administration, DisableUser, DeleteUser, DeleteClient, RevokeToken,
                      PurgeCodes, PurgeTokens, Holds, Pending
<1>7. CASE Tick \/ UNCHANGED vars
  BY <1>7 DEF Tick, vars, Holds, Pending
<1> QED
  BY <1>2, <1>3, <1>4, <1>5, <1>6, <1>7 DEF Next, RequestStep

-----------------------------------------------------------------------------
(* The refinement of GrantFamily.                                          *)
PhaseMap == [f \in 1..MaxCodes |-> PhaseOf(f)]

(* What the phase of a family says of its rows and requests.               *)
PhaseFact(f) ==
  /\ PhaseOf(f) \in {"unissued", "code", "exchange", "token", "ended"}
  /\ PhaseOf(f) = "unissued" <=> f \notin DOMAIN codes
  /\ PhaseOf(f) = "code" <=> f \in DOMAIN codes /\ LiveCode(f)
  /\ PhaseOf(f) = "exchange" => HoldersOf(f) # {}
  /\ PhaseOf(f) = "token" => LiveToken(f)
  /\ PhaseOf(f) = "ended" => HoldersOf(f) = {} /\ ~LiveToken(f)
  /\ HoldersOf(f) # {} \/ LiveToken(f) => f \in DOMAIN codes /\ codes[f].used

LEMMA Phases == ASSUME NEW f PROVE IInv => PhaseFact(f)
<1> SUFFICES ASSUME IInv PROVE PhaseFact(f)
  OBVIOUS
<1>1. HoldersOf(f) # {} => f \in DOMAIN codes /\ codes[f].used
  BY DEF HoldersOf, Pending, IInv, RequestsWellFormed
<1>2. LiveToken(f) => f \in DOMAIN codes /\ codes[f].used
  BY DEF LiveToken, IInv, Lineage
<1> QED
  BY <1>1, <1>2 DEF PhaseOf, LiveCode, LiveToken, PhaseFact

LEMMA PhasesNext == ASSUME NEW f PROVE IInv' => PhaseFact(f)'
<1>1. IInv => PhaseFact(f)
  BY Phases
<1> QED
  BY <1>1, PTL

(* A step moves the family along the phases, whatever else it does.        *)
LEMMA PhaseStep ==
  ASSUME IInv, [Next]_vars, NEW f
  PROVE  PhaseOf(f)' = PhaseOf(f) \/ PhaseOf(f)' \in Abstract!Successors(PhaseOf(f))
<1>1. /\ PhaseFact(f) /\ PhaseFact(f)'
      /\ TablesKept /\ now \in Nat /\ now' \in Nat
  <2>1. IInv'
    BY NextInv
  <2> QED
    BY <2>1, Phases, PhasesNext, StepKeeps DEF IInv, TypeOK
<1>2. HoldersOf(f)' # {} => HoldersOf(f) # {} \/ LiveCode(f) \/ LiveToken(f)
  <2> SUFFICES ASSUME NEW r \in Request, Pending(r)', req'[r].family = f
               PROVE  HoldersOf(f) # {} \/ LiveCode(f) \/ LiveToken(f)
    BY DEF HoldersOf, FamilyOf
  <2> QED
    BY HoldersCome DEF Holds, HoldersOf, FamilyOf
<1>3. LiveToken(f)' => HoldersOf(f) # {} \/ LiveToken(f)
  <2> SUFFICES ASSUME NEW t \in DOMAIN tokens', tokens'[t].family = f, Usable(t)'
               PROVE  HoldersOf(f) # {} \/ LiveToken(f)
    BY DEF LiveToken
  <2>1. CASE t \in DOMAIN tokens
    <3>1. tokens[t].expires_at \in Nat
      BY <2>1, RowTypes DEF IInv, TokenRow
    <3>2. tokens[t].family = f /\ Usable(t)
      BY <1>1, <2>1, <3>1 DEF TablesKept, TokensKept, Usable, Token
    <3> QED
      BY <2>1, <3>2 DEF LiveToken
  <2>2. CASE t \notin DOMAIN tokens
    BY <1>1, <2>2 DEF TablesKept, TokensCome, HoldersOf, FamilyOf
  <2> QED
    BY <2>1, <2>2
<1>4. LiveCode(f)' /\ f \in DOMAIN codes => LiveCode(f)
  <2> SUFFICES ASSUME LiveCode(f)', f \in DOMAIN codes PROVE LiveCode(f)
    OBVIOUS
  <2>1. codes[f].expires_at \in Nat
    BY RowTypes DEF IInv, CodeRow
  <2> QED
    BY <1>1, <2>1 DEF TablesKept, CodesKept, LiveCode, Code
<1>5. CASE PhaseOf(f) = "unissued"
  <2>1. HoldersOf(f)' = {} /\ ~LiveToken(f)'
    BY <1>1, <1>2, <1>3, <1>5 DEF PhaseFact, LiveCode, Code
  <2>2. f \in DOMAIN codes' => LiveCode(f)'
    BY <1>1, <1>5 DEF PhaseFact, TablesKept, CodesCome, LiveCode, Code
  <2> QED
    BY <1>1, <1>5, <2>1, <2>2 DEF PhaseFact, Abstract!Successors
<1>6. CASE PhaseOf(f) = "code"
  <2>1. f \in DOMAIN codes' /\ ~LiveToken(f)'
    BY <1>1, <1>3, <1>6 DEF PhaseFact, LiveCode, TablesKept, CodesKept
  <2> QED
    BY <1>1, <1>6, <2>1 DEF PhaseFact, Abstract!Successors
<1>7. CASE PhaseOf(f) \in {"exchange", "token"}
  <2>1. f \in DOMAIN codes /\ codes[f].used
    BY <1>1, <1>7 DEF PhaseFact
  <2>2. f \in DOMAIN codes' /\ ~LiveCode(f)'
    BY <1>1, <2>1 DEF TablesKept, CodesKept, LiveCode
  <2> QED
    BY <1>1, <1>7, <2>2 DEF PhaseFact, Abstract!Successors
<1>8. CASE PhaseOf(f) = "ended"
  <2>1. f \in DOMAIN codes /\ f \in DOMAIN codes' /\ ~LiveCode(f)
    BY <1>1, <1>8 DEF PhaseFact, TablesKept, CodesKept
  <2> QED
    BY <1>1, <1>2, <1>3, <1>4, <1>8, <2>1 DEF PhaseFact
<1> QED
  BY <1>1, <1>5, <1>6, <1>7, <1>8 DEF PhaseFact

(* The tables implement the abstract family: however requests, purges and  *)
(* administration interleave, an authorization is carried by one           *)
(* credential at a time, and one that has ended never revives.             *)
THEOREM FamiliesImplemented == Spec => ImplementsFamily
<1>1. Init => Abstract!Init
  BY DEF Init, Abstract!Init, PhaseOf
<1>2. IInv /\ [Next]_vars => [Abstract!Next]_PhaseMap
  <2> SUFFICES ASSUME IInv, [Next]_vars
               PROVE  Abstract!Next
    BY DEF PhaseMap
  <2>1. \A f : PhaseOf(f)' \in {"unissued", "code", "exchange", "token", "ended"}
    <3>1. IInv'
      BY NextInv
    <3> QED
      BY <3>1, PhasesNext DEF PhaseFact
  <2>2. \A f : PhaseOf(f)' = PhaseOf(f) \/ PhaseOf(f)' \in Abstract!Successors(PhaseOf(f))
    BY PhaseStep
  <2> QED
    BY <2>1, <2>2 DEF Abstract!Next, Abstract!Phase
<1> QED
  BY <1>1, <1>2, Invariant, PTL DEF Spec, ImplementsFamily, Abstract!Spec, PhaseMap

-----------------------------------------------------------------------------
(* Rows leave the tables because they are past their time or because their *)
(* account or client is gone, never because they are spent.                *)
Gone(u, cl) == ~ForeignKeysHold(u, cl)

Retention ==
  /\ \A t \in DOMAIN tokens : tokens[t].deleted =>
       tokens[t].expires_at < now \/ Gone(tokens[t].user, tokens[t].client)
  /\ \A c \in DOMAIN codes : codes[c].deleted =>
       codes[c].expires_at + CodeRetention < now \/ Gone(codes[c].user, codes[c].client)

(* A deleted account and a deregistered client never come back.            *)
LEMMA GoneForGood ==
  ASSUME IInv, [Next]_vars, NEW u \in User, NEW cl \in Client, Gone(u, cl)
  PROVE  Gone(u, cl)'
<1>1. account \in [User -> {"enabled", "disabled", "deleted"}]
  BY DEF IInv, TypeOK
<1>2. CASE UNCHANGED <<account, clients>>
  BY <1>2 DEF Gone, ForeignKeysHold
<1>3. CASE Administration
  BY <1>1, <1>3 DEF Gone, ForeignKeysHold, Administration, DisableUser, EnableUser, DeleteUser,
                    DeleteClient, RevokeToken, PurgeCodes, PurgeTokens
<1>4. ASSUME NEW r \in Request, RequestStep(r) PROVE UNCHANGED <<account, clients>>
  BY <1>4 DEF RequestStep, CodeGrant, RefreshGrant, RedeemGranted, RedeemRefused, RedeemMissed,
              CheckReplay, MintFirst, RotateClaim, RotateMissed, DetectReuse, MintSuccessor, Link,
              CheckAccount, RevokeFamily, Sign, Reply, Abort
<1> QED
  BY <1>2, <1>3, <1>4 DEF Next, IssueCode, Tick, vars

(* A row that a step deletes is past its time or has just lost its owner.  *)
DeletesOnlyTheOld ==
  /\ \A t \in DOMAIN tokens : tokens'[t].deleted =>
       \/ tokens[t].deleted \/ tokens[t].expires_at < now
       \/ Gone(tokens[t].user, tokens[t].client)'
  /\ \A c \in DOMAIN codes : codes'[c].deleted =>
       \/ codes[c].deleted \/ codes[c].expires_at + CodeRetention < now
       \/ Gone(codes[c].user, codes[c].client)'

LEMMA Deletions ==
  ASSUME IInv, [Next]_vars
  PROVE  DeletesOnlyTheOld
<1>1. /\ account \in [User -> {"enabled", "disabled", "deleted"}]
      /\ \A t \in DOMAIN tokens : tokens[t] \in TokenRow
      /\ \A c \in DOMAIN codes : codes[c] \in CodeRow
      /\ codes \in Seq(CodeRow) /\ tokens \in Seq(TokenRow)
      /\ DOMAIN codes = 1..Len(codes) /\ DOMAIN tokens = 1..Len(tokens)
  BY RowTypes DEF IInv, TypeOK
<1>2. CASE /\ \A t \in DOMAIN tokens : tokens'[t].deleted = tokens[t].deleted
           /\ \A c \in DOMAIN codes : codes'[c].deleted = codes[c].deleted
  BY <1>2 DEF DeletesOnlyTheOld
<1>3. ASSUME NEW u \in User, DeleteUser(u) PROVE DeletesOnlyTheOld
  BY <1>1, <1>3 DEF DeleteUser, Cascade, Gone, ForeignKeysHold, TokenRow, CodeRow,
                    DeletesOnlyTheOld
<1>4. ASSUME NEW cl \in Client, DeleteClient(cl) PROVE DeletesOnlyTheOld
  BY <1>1, <1>4 DEF DeleteClient, Cascade, Gone, ForeignKeysHold, TokenRow, CodeRow,
                    DeletesOnlyTheOld
<1>5. CASE PurgeCodes \/ PurgeTokens
  BY <1>1, <1>5 DEF PurgeCodes, PurgeTokens, TokenRow, CodeRow, DeletesOnlyTheOld
<1>6. ASSUME NEW u \in User, NEW cl \in Client, NEW s \in ScopeSets,
             NEW uri \in Uri, NEW v \in Presented, IssueCode(u, cl, s, uri, v)
      PROVE  DeletesOnlyTheOld
  <2>1. \A c \in DOMAIN codes : codes'[c] = codes[c]
    <3> DEFINE row == [client |-> cl, user |-> u, scopes |-> s, redirect_uri |-> uri,
                       code_challenge |-> v, expires_at |-> now + CodeLifetime,
                       used |-> FALSE, deleted |-> FALSE]
    <3>1. row \in CodeRow
      BY LifetimeAssumption DEF IInv, TypeOK, CodeRow, Scope, Presented
    <3> QED
      BY <1>6, <3>1, AppendRow DEF IssueCode, IInv, TypeOK
  <2> QED
    BY <1>2, <1>6, <2>1 DEF IssueCode
<1>7. ASSUME NEW r \in Request, MintFirst(r) \/ MintSuccessor(r) PROVE DeletesOnlyTheOld
  <2>1. CASE UNCHANGED tokens
    BY <1>2, <1>7, <2>1 DEF MintFirst, MintSuccessor
  <2>2. ASSUME NEW row, tokens' = Append(tokens, row) PROVE \A t \in DOMAIN tokens : tokens'[t] = tokens[t]
    BY <1>1, <2>2
  <2> QED
    BY <1>2, <1>7, <2>1, <2>2 DEF MintFirst, MintSuccessor
<1>8. ASSUME NEW r \in Request, RequestStep(r) PROVE DeletesOnlyTheOld
  <2>1. ASSUME NEW c \in DOMAIN codes,
               codes' = [codes EXCEPT ![c].used = TRUE], UNCHANGED tokens
        PROVE  DeletesOnlyTheOld
    BY <1>1, <1>2, <2>1 DEF CodeRow
  <2>2. ASSUME NEW t \in DOMAIN tokens,
               tokens' = [tokens EXCEPT ![t].used = TRUE], UNCHANGED codes
        PROVE  DeletesOnlyTheOld
    BY <1>1, <1>2, <2>2 DEF TokenRow
  <2>3. CASE Link(r)
    <3>1. req[r].token \in DOMAIN tokens
      BY <2>3 DEF Link, IInv, RequestsWellFormed
    <3> QED
      BY <1>1, <1>2, <2>3, <3>1 DEF Link, TokenRow
  <2>4. CASE RevokeFamily(r) \/ Reply(r)
    <3>1. CASE RevokeFamily(r)
      <4>1. \A t \in DOMAIN tokens : tokens'[t].deleted = tokens[t].deleted
        BY <1>1, <3>1 DEF RevokeFamily, TokenRow
      <4> QED
        BY <1>2, <3>1, <4>1 DEF RevokeFamily
    <3>2. CASE Reply(r)
      BY <1>2, <3>2 DEF Reply
    <3> QED
      BY <2>4, <3>1, <3>2
  <2>5. CASE UNCHANGED <<codes, tokens>>
    BY <1>2, <2>5
  <2>6. CASE CodeGrant(r)
    BY <1>7, <2>1, <2>5, <2>6 DEF CodeGrant, RedeemGranted, RedeemRefused, RedeemMissed, CheckReplay
  <2>7. CASE RefreshGrant(r)
    BY <1>7, <2>2, <2>3, <2>5, <2>7 DEF RefreshGrant, RotateClaim, RotateMissed, DetectReuse,
                                        CheckAccount
  <2> QED
    BY <1>8, <2>4, <2>5, <2>6, <2>7 DEF RequestStep, Sign, Abort
<1>9. CASE Administration
  <2>1. ASSUME NEW cl \in Client, NEW t \in DOMAIN tokens, RevokeToken(cl, t)
        PROVE  DeletesOnlyTheOld
    BY <1>1, <1>2, <2>1 DEF RevokeToken, TokenRow
  <2> QED
    BY <1>2, <1>3, <1>4, <1>5, <1>9, <2>1 DEF Administration, DisableUser, EnableUser
<1> QED
  BY <1>2, <1>6, <1>8, <1>9 DEF Next, Tick, vars

(* However purges and deletions interleave with requests, a spent token    *)
(* stays on file until it expires and a spent code until its retention is  *)
(* over, so that presenting it again is recognised.                        *)
THEOREM SpentRowsStay == Spec => []SpentStaysDetectable
<1>1. Init => Retention
  BY DEF Init, Retention
<1>2. IInv /\ Retention /\ [Next]_vars => Retention'
  <2> SUFFICES ASSUME IInv, Retention, [Next]_vars PROVE Retention'
    OBVIOUS
  <2>1. /\ TablesKept /\ DeletesOnlyTheOld /\ now \in Nat /\ now' \in Nat
        /\ CodeRetention \in Nat
    <3>1. IInv'
      BY NextInv
    <3> QED
      BY <3>1, StepKeeps, Deletions, LifetimeAssumption DEF IInv, TypeOK
  <2>2. ASSUME NEW t \in DOMAIN tokens', tokens'[t].deleted
        PROVE  tokens'[t].expires_at < now' \/ Gone(tokens[t].user, tokens[t].client)'
    <3>1. t \in DOMAIN tokens
      BY <2>1, <2>2 DEF TablesKept, TokensCome
    <3>2. /\ tokens[t] \in TokenRow /\ tokens'[t].expires_at = tokens[t].expires_at
          /\ tokens'[t].user = tokens[t].user /\ tokens'[t].client = tokens[t].client
      BY <2>1, <3>1, RowTypes DEF IInv, TablesKept, TokensKept
    <3>3. CASE tokens[t].expires_at < now
      BY <2>1, <3>2, <3>3 DEF TablesKept, TokenRow
    <3>4. CASE Gone(tokens[t].user, tokens[t].client)
      BY <3>2, <3>4, GoneForGood DEF TokenRow, Gone, ForeignKeysHold
    <3>5. CASE Gone(tokens[t].user, tokens[t].client)'
      BY <3>2, <3>5 DEF Gone, ForeignKeysHold
    <3> QED
      BY <2>1, <2>2, <3>1, <3>3, <3>4, <3>5 DEF DeletesOnlyTheOld, Retention
  <2>3. ASSUME NEW c \in DOMAIN codes', codes'[c].deleted
        PROVE  codes'[c].expires_at + CodeRetention < now'
               \/ Gone(codes[c].user, codes[c].client)'
    <3>1. c \in DOMAIN codes
      BY <2>1, <2>3 DEF TablesKept, CodesCome
    <3>2. /\ codes[c] \in CodeRow /\ codes'[c].expires_at = codes[c].expires_at
          /\ codes'[c].user = codes[c].user /\ codes'[c].client = codes[c].client
      BY <2>1, <3>1, RowTypes DEF IInv, TablesKept, CodesKept
    <3>3. CASE codes[c].expires_at + CodeRetention < now
      BY <2>1, <3>2, <3>3 DEF TablesKept, CodeRow
    <3>4. CASE Gone(codes[c].user, codes[c].client)
      BY <3>2, <3>4, GoneForGood DEF CodeRow, Gone, ForeignKeysHold
    <3>5. CASE Gone(codes[c].user, codes[c].client)'
      BY <3>2, <3>5 DEF Gone, ForeignKeysHold
    <3> QED
      BY <2>1, <2>3, <3>1, <3>3, <3>4, <3>5 DEF DeletesOnlyTheOld, Retention
  <2> QED
    BY <2>2, <2>3 DEF Retention, Gone, ForeignKeysHold
<1>3. IInv /\ Retention => SpentStaysDetectable
  <2> SUFFICES ASSUME IInv, Retention PROVE SpentStaysDetectable
    OBVIOUS
  <2>1. /\ now \in Nat /\ CodeRetention \in Nat
        /\ \A t \in DOMAIN tokens : tokens[t].expires_at \in Nat
        /\ \A c \in DOMAIN codes : codes[c].expires_at \in Nat
    BY RowTypes, LifetimeAssumption DEF IInv, TypeOK, TokenRow, CodeRow
  <2> QED
    BY <2>1 DEF Retention, SpentStaysDetectable, Gone, Token, Code
<1> QED
  BY <1>1, <1>2, <1>3, Invariant, PTL DEF Spec

-----------------------------------------------------------------------------
(* A statement of one request leaves the locals of the others alone.       *)
LEMMA OthersStay ==
  ASSUME IInv, NEW q \in Request, NEW r \in Request, RequestStep(q), q # r
  PROVE  req'[r] = req[r]
<1>1. \/ UNCHANGED req
      \/ \E e : req' = [req EXCEPT ![q] = e]
  BY DEF RequestStep, CodeGrant, RefreshGrant, RedeemGranted, RedeemRefused, RedeemMissed,
         CheckReplay, MintFirst, RotateClaim, RotateMissed, DetectReuse, MintSuccessor, Link,
         CheckAccount, RevokeFamily, Sign, Reply, Abort, Goto, Finish
<1> QED
  BY <1>1 DEF IInv, TypeOK

(* Steps of others leave a request alone, but for the history of whether   *)
(* its account was enabled.                                                *)
LEMMA Bystander ==
  ASSUME IInv, [Next]_vars, NEW r \in Request
  PROVE  \/ req'[r] = req[r]
         \/ \E u \in User : EnableUser(u) /\ Serves(r, u)
                            /\ req'[r] = [req[r] EXCEPT !.admitted = TRUE]
         \/ RequestStep(r)
<1>1. req \in [Request -> RequestState]
  BY DEF IInv, TypeOK
<1>2. ASSUME NEW q \in Request, RequestStep(q), q # r
      PROVE  req'[r] = req[r]
  BY <1>2, OthersStay
<1>3. CASE Administration
  BY <1>3 DEF Administration, DisableUser, EnableUser, DeleteUser, DeleteClient, RevokeToken,
              PurgeCodes, PurgeTokens
<1> QED
  BY <1>2, <1>3 DEF Next, IssueCode, Tick, vars

(* The statements of a request, by where they leave it.                    *)
Moves(r, at) == req'[r] = [req[r] EXCEPT !.at = at]

LEMMA OwnStep ==
  ASSUME IInv, NEW r \in Request, RequestStep(r), req'[r] # req[r]
  PROVE  \/ req'[r].at \in {"idle", "check_replay"}
         \/ req'[r].at \in {"sign", "reply"} /\ req'[r].token = 0
            /\ UNCHANGED account
         \/ req[r].at = "check_replay" /\ SpentCode(FamilyOf(r), req[r].client)
            /\ Moves(r, "revoke_family")
         \/ req[r].at = "check_reuse" /\ SpentToken(req[r].token, req[r].client)
            /\ Moves(r, "revoke_family")
         \/ req[r].at = "check_account" /\ Moves(r, "revoke_family")
         \/ /\ req[r].at = "check_account" /\ UserBelongs(tokens[req[r].token].user)
            /\ req'[r].at = "sign" /\ req'[r].token = req[r].token
            /\ req'[r].admitted = req[r].admitted
         \/ req[r].at = "sign" /\ req[r].token = 0 /\ Moves(r, "mint")
         \/ req[r].at = "sign" /\ Moves(r, "reply")
         \/ req[r].at = "mint" /\ req'[r] = Minted(r, "reply", Len(tokens) + 1)
         \/ req[r].at = "rotate" /\ MintSuccessor(r)
            /\ req'[r] = Minted(r, "link", Len(tokens) + 1)
         \/ Link(r) /\ Moves(r, "check_account")
         \/ \E cl \in Client, t \in DOMAIN tokens :
              RotateClaim(r, cl, t) \/ RotateMissed(r, cl, t)
<1>1. /\ req \in [Request -> RequestState] /\ req[r] \in RequestState
      /\ Idle.at = "idle"
  BY DEF IInv, TypeOK, Idle
<1>2. CASE CodeGrant(r)
  <2>1. ASSUME NEW cl \in Client, NEW c \in DOMAIN codes, NEW uri \in Uri, NEW v \in Presented,
               RedeemGranted(r, cl, c, uri, v)
        PROVE  req'[r].at = "sign" /\ req'[r].token = 0 /\ UNCHANGED account
    BY <1>1, <2>1 DEF RedeemGranted
  <2>2. ASSUME NEW cl \in Client, NEW c \in DOMAIN codes, RedeemMissed(r, cl, c)
        PROVE  req'[r].at = "check_replay"
    BY <1>1, <2>2 DEF RedeemMissed, Asking
  <2>3. CASE CheckReplay(r)
    BY <1>1, <2>3 DEF CheckReplay, Goto, Finish, Moves
  <2>4. CASE MintFirst(r)
    BY <1>1, <2>4 DEF MintFirst, Finish
  <2> QED
    BY <1>2, <2>1, <2>2, <2>3, <2>4 DEF CodeGrant, RedeemRefused
<1>3. CASE RefreshGrant(r)
  <2>1. CASE DetectReuse(r)
    BY <1>1, <2>1 DEF DetectReuse, Goto, Finish, Moves
  <2>2. CASE MintSuccessor(r)
    BY <1>1, <2>2 DEF MintSuccessor, Finish
  <2>3. CASE Link(r)
    BY <1>1, <2>3 DEF Link, Goto, Moves
  <2>4. ASSUME NEW requested \in ScopeSets \cup {{}}, CheckAccount(r, requested)
        PROVE  \/ req'[r].at = "idle"
               \/ req[r].at = "check_account" /\ Moves(r, "revoke_family")
               \/ /\ req[r].at = "check_account" /\ UserBelongs(tokens[req[r].token].user)
                  /\ req'[r].at = "sign" /\ req'[r].token = req[r].token
                  /\ req'[r].admitted = req[r].admitted
    <3>1. CASE Finish(r)
      BY <1>1, <3>1 DEF Finish
    <3>2. CASE Goto(r, "revoke_family")
      BY <1>1, <2>4, <3>2 DEF CheckAccount, Goto, Moves
    <3>3. CASE req' = [req EXCEPT ![r].at = "sign",
                         ![r].scopes = Resolved(requested, req[r].scopes)]
               /\ UserBelongs(tokens[req[r].token].user)
      BY <1>1, <2>4, <3>3 DEF CheckAccount, RequestState
    <3> QED
      BY <2>4, <3>1, <3>2, <3>3 DEF CheckAccount
  <2> QED
    BY <1>3, <2>1, <2>2, <2>3, <2>4 DEF RefreshGrant
<1>4. CASE Sign(r)
  BY <1>1, <1>4 DEF Sign, Goto, Finish, Moves
<1>5. CASE RevokeFamily(r) \/ Reply(r) \/ Abort(r)
  BY <1>1, <1>5 DEF RevokeFamily, Reply, Abort, Finish
<1> QED
  BY <1>2, <1>3, <1>4, <1>5 DEF RequestStep

-----------------------------------------------------------------------------
(* A refresh goes past the look at the account only if the account was     *)
(* enabled at that moment, and until then the history follows the account. *)
AdmittedRequest(r) ==
  /\ /\ req[r].at \in {"rotate", "link", "check_account"}
        /\ account[codes[FamilyOf(r)].user] = "enabled"
     => req[r].admitted
  /\ req[r].at \in {"sign", "reply"} /\ req[r].token # 0 => req[r].admitted
  /\ req[r].at = "mint" => req[r].token = 0

Admission == \A r \in Request : AdmittedRequest(r)

LEMMA AdmissionStep ==
  ASSUME IInv, Admission, [Next]_vars, NEW r \in Request
  PROVE  AdmittedRequest(r)'
<1>1. /\ TablesKept /\ AdmittedRequest(r)
      /\ req \in [Request -> RequestState] /\ req[r] \in RequestState
      /\ account \in [User -> {"enabled", "disabled", "deleted"}]
  BY StepKeeps DEF IInv, TypeOK, Admission
<1>2. req[r].at \in {"rotate", "link", "check_account"} =>
        /\ FamilyOf(r) \in DOMAIN codes /\ codes'[FamilyOf(r)].user = codes[FamilyOf(r)].user
        /\ codes[FamilyOf(r)].user \in User
        /\ req[r].token \in DOMAIN tokens
        /\ tokens[req[r].token].user = codes[FamilyOf(r)].user
  <2> SUFFICES ASSUME req[r].at \in {"rotate", "link", "check_account"}
               PROVE  /\ FamilyOf(r) \in DOMAIN codes
                      /\ codes'[FamilyOf(r)].user = codes[FamilyOf(r)].user
                      /\ codes[FamilyOf(r)].user \in User
                      /\ req[r].token \in DOMAIN tokens
                      /\ tokens[req[r].token].user = codes[FamilyOf(r)].user
    OBVIOUS
  <2>1. /\ FamilyOf(r) \in DOMAIN codes /\ req[r].token \in DOMAIN tokens
        /\ tokens[req[r].token].family = FamilyOf(r)
    BY DEF IInv, RequestsWellFormed
  <2>2. codes[FamilyOf(r)] \in CodeRow
    BY <2>1, RowTypes DEF IInv
  <2> QED
    BY <1>1, <2>1, <2>2 DEF IInv, Lineage, TablesKept, CodesKept, CodeRow
<1>3. \A u \in User : account'[u] = "enabled" => account[u] = "enabled" \/ EnableUser(u)
  <2>1. CASE Administration
    BY <1>1, <2>1 DEF Administration, DisableUser, EnableUser, DeleteUser, DeleteClient,
                      RevokeToken, PurgeCodes, PurgeTokens
  <2>2. ASSUME NEW q \in Request, RequestStep(q) PROVE UNCHANGED account
    BY <2>2 DEF RequestStep, CodeGrant, RefreshGrant, RedeemGranted, RedeemRefused, RedeemMissed,
                CheckReplay, MintFirst, RotateClaim, RotateMissed, DetectReuse, MintSuccessor, Link,
                CheckAccount, RevokeFamily, Sign, Reply, Abort
  <2> QED
    BY <2>1, <2>2 DEF Next, IssueCode, Tick, vars
<1>4. CASE \E u \in User : EnableUser(u) /\ Serves(r, u)
                           /\ req'[r] = [req[r] EXCEPT !.admitted = TRUE]
  <2>1. /\ req'[r].at = req[r].at /\ req'[r].token = req[r].token /\ req'[r].admitted
        /\ req'[r].family = req[r].family
    BY <1>1, <1>4 DEF RequestState
  <2> QED
    BY <1>1, <2>1 DEF AdmittedRequest
<1>5. CASE req'[r] = req[r]
  <2>1. ASSUME NEW u \in User, EnableUser(u), req[r].at \in {"rotate", "link", "check_account"},
               codes[FamilyOf(r)].user = u
        PROVE  req[r].admitted
    <3>1. Serves(r, u)
      BY <1>2, <2>1 DEF Serves
    <3>2. req'[r] = [req[r] EXCEPT !.admitted = TRUE]
      BY <2>1, <3>1 DEF EnableUser
    <3> QED
      BY <1>1, <1>5, <3>2 DEF RequestState
  <2> QED
    BY <1>1, <1>2, <1>3, <1>5, <2>1 DEF AdmittedRequest, FamilyOf
<1>6. CASE RequestStep(r) /\ req'[r] # req[r]
  <2>1. UNCHANGED account
    BY <1>6 DEF RequestStep, CodeGrant, RefreshGrant, RedeemGranted, RedeemRefused, RedeemMissed,
                CheckReplay, MintFirst, RotateClaim, RotateMissed, DetectReuse, MintSuccessor, Link,
                CheckAccount, RevokeFamily, Sign, Reply, Abort
  <2>2. ASSUME NEW cl \in Client, NEW t \in DOMAIN tokens, RotateClaim(r, cl, t)
        PROVE  AdmittedRequest(r)'
    <3>1. /\ req'[r].at = "rotate" /\ req'[r].family = tokens[t].family
          /\ req'[r].admitted = (account[tokens[t].user] = "enabled")
      BY <1>1, <2>2 DEF RotateClaim
    <3>2. /\ tokens[t].family \in DOMAIN codes
          /\ codes'[tokens[t].family].user = tokens[t].user
      BY <1>1 DEF IInv, Lineage, TablesKept, CodesKept
    <3> QED
      BY <2>1, <3>1, <3>2 DEF AdmittedRequest, FamilyOf
  <2>3. ASSUME NEW cl \in Client, NEW t \in DOMAIN tokens, RotateMissed(r, cl, t)
        PROVE  AdmittedRequest(r)'
    BY <1>1, <2>3 DEF RotateMissed, Asking, AdmittedRequest
  <2>4. ASSUME NEW at \in At, Moves(r, at)
        PROVE  /\ req'[r].at = at /\ req'[r].token = req[r].token
               /\ req'[r].family = req[r].family /\ req'[r].admitted = req[r].admitted
    BY <1>1, <2>4 DEF Moves, RequestState
  <2>5. "revoke_family" \in At /\ "mint" \in At /\ "reply" \in At /\ "check_account" \in At
    BY DEF At
  <2>6. CASE UserBelongs(tokens[req[r].token].user) /\ req[r].at = "check_account"
             /\ req'[r].at = "sign" /\ req'[r].token = req[r].token
             /\ req'[r].admitted = req[r].admitted
    BY <1>1, <1>2, <2>6 DEF AdmittedRequest, UserBelongs
  <2>7. CASE \/ req[r].at = "mint" /\ req'[r] = Minted(r, "reply", Len(tokens) + 1)
             \/ req[r].at = "rotate" /\ req'[r] = Minted(r, "link", Len(tokens) + 1)
    BY <1>1, <1>2, <2>1, <2>7 DEF Minted, AdmittedRequest, FamilyOf
  <2>8. CASE req[r].at \in {"check_replay", "check_reuse", "check_account"}
             /\ Moves(r, "revoke_family")
    BY <2>4, <2>5, <2>8 DEF AdmittedRequest
  <2>9. CASE req[r].at = "sign" /\ (Moves(r, "reply") \/ (Moves(r, "mint") /\ req[r].token = 0))
    BY <1>1, <2>4, <2>5, <2>9 DEF AdmittedRequest
  <2>10. CASE Link(r) /\ Moves(r, "check_account")
    BY <1>1, <1>2, <2>1, <2>4, <2>5, <2>10 DEF AdmittedRequest, FamilyOf, Link
  <2>11. CASE req'[r].at \in {"idle", "check_replay"}
    BY <2>11 DEF AdmittedRequest
  <2>12. CASE req'[r].at \in {"sign", "reply"} /\ req'[r].token = 0
    BY <2>12 DEF AdmittedRequest
  <2> QED
    BY <1>6, <2>2, <2>3, <2>6, <2>7, <2>8, <2>9, <2>10, <2>11, <2>12, OwnStep
<1> QED
  BY <1>4, <1>5, <1>6, Bystander

(* A refresh is answered only for an account that was enabled at some      *)
(* moment of the request, however accounts are disabled, enabled and       *)
(* deleted meanwhile.                                                      *)
THEOREM RefreshesAdmitted == Spec => RefreshNeedsEnabledAccount
<1>1. Init => Admission
  BY DEF Init, Admission, AdmittedRequest, Idle
<1>2. IInv /\ Admission /\ [Next]_vars => Admission'
  BY AdmissionStep DEF Admission
<1>3. Admission /\ [Next]_vars =>
        [\A r \in Request : Reply(r) /\ req[r].token # 0 => req[r].admitted]_vars
  BY DEF Admission, AdmittedRequest, Reply
<1> QED
  BY <1>1, <1>2, <1>3, Invariant, PTL DEF Spec, RefreshNeedsEnabledAccount

-----------------------------------------------------------------------------
(* A request that is about to take a family down has seen it spent: its    *)
(* code was redeemed, so the revocation leaves nothing that could carry    *)
(* the family further.                                                     *)
Revoker(r) ==
  /\ req[r].at = "check_reuse" =>
       /\ req[r].token \in DOMAIN tokens
       /\ tokens[req[r].token].family = FamilyOf(r)
  /\ req[r].at = "revoke_family" =>
       FamilyOf(r) \in DOMAIN codes /\ codes[FamilyOf(r)].used

Revokers == \A r \in Request : Revoker(r)

LEMMA RevokerStep ==
  ASSUME IInv, Revokers, [Next]_vars, NEW r \in Request
  PROVE  Revoker(r)'
<1>1. /\ TablesKept /\ Revoker(r)
      /\ req \in [Request -> RequestState] /\ req[r] \in RequestState
  BY StepKeeps DEF IInv, TypeOK, Revokers
<1>2. \A t \in DOMAIN tokens : /\ tokens[t].family \in DOMAIN codes
                               /\ codes[tokens[t].family].used
  BY DEF IInv, Lineage
<1>3. CASE req'[r] = req[r]
  BY <1>1, <1>3 DEF Revoker, FamilyOf, TablesKept, CodesKept, TokensKept
<1>4. CASE \E u \in User : EnableUser(u) /\ Serves(r, u)
                           /\ req'[r] = [req[r] EXCEPT !.admitted = TRUE]
  <2>1. /\ req'[r].at = req[r].at /\ req'[r].token = req[r].token
        /\ req'[r].family = req[r].family
    BY <1>1, <1>4 DEF RequestState
  <2> QED
    BY <1>1, <2>1 DEF Revoker, FamilyOf, TablesKept, CodesKept, TokensKept
<1>5. CASE RequestStep(r) /\ req'[r] # req[r]
  <2>1. ASSUME NEW cl \in Client, NEW t \in DOMAIN tokens, RotateClaim(r, cl, t)
        PROVE  Revoker(r)'
    BY <1>1, <2>1 DEF RotateClaim, Revoker
  <2>2. ASSUME NEW cl \in Client, NEW t \in DOMAIN tokens, RotateMissed(r, cl, t)
        PROVE  Revoker(r)'
    <3>1. /\ req'[r].at = "check_reuse" /\ req'[r].token = t
          /\ req'[r].family = tokens[t].family
      BY <1>1, <2>2 DEF RotateMissed, Asking
    <3> QED
      BY <1>1, <3>1 DEF Revoker, FamilyOf, TablesKept, TokensKept
  <2>3. ASSUME NEW at \in At, Moves(r, at)
        PROVE  /\ req'[r].at = at /\ req'[r].token = req[r].token
               /\ req'[r].family = req[r].family
    BY <1>1, <2>3 DEF Moves, RequestState
  <2>4. "revoke_family" \in At /\ "mint" \in At /\ "reply" \in At /\ "check_account" \in At
    BY DEF At
  <2>5. CASE req[r].at \in {"check_replay", "check_reuse", "check_account"}
             /\ (req[r].at = "check_replay" => SpentCode(FamilyOf(r), req[r].client))
             /\ Moves(r, "revoke_family")
    <3>1. FamilyOf(r) \in DOMAIN codes /\ codes[FamilyOf(r)].used
      BY <1>1, <1>2, <2>5 DEF Revoker, SpentCode, Code, IInv, RequestsWellFormed
    <3> QED
      BY <1>1, <2>3, <2>4, <2>5, <3>1 DEF Revoker, FamilyOf, TablesKept, CodesKept
  <2>6. CASE req'[r].at \in {"idle", "check_replay", "sign", "reply"}
    BY <2>6 DEF Revoker
  <2>7. CASE Moves(r, "mint") \/ Moves(r, "reply") \/ Moves(r, "check_account")
    BY <2>3, <2>4, <2>7 DEF Revoker
  <2>8. CASE \/ req'[r] = Minted(r, "reply", Len(tokens) + 1)
             \/ req'[r] = Minted(r, "link", Len(tokens) + 1)
    BY <2>8 DEF Minted, Revoker
  <2> QED
    BY <1>5, <2>1, <2>2, <2>5, <2>6, <2>7, <2>8, OwnStep
<1> QED
  BY <1>3, <1>4, <1>5, Bystander

(* A revocation that meets no exchange in flight ends its family.          *)
LEMMA RevocationEnds ==
  ASSUME IInv, Revokers, NEW r \in Request, NEW f,
         RevokeFamily(r), FamilyOf(r) = f, HoldersOf(f) = {}
  PROVE  PhaseOf(f)' = "ended"
<1>1. /\ req \in [Request -> RequestState] /\ req[r].at = "revoke_family"
      /\ codes' = codes /\ f \in DOMAIN codes /\ codes[f].used
      /\ DOMAIN tokens' = DOMAIN tokens
      /\ req' = [req EXCEPT ![r] = Idle]
  BY DEF IInv, TypeOK, Revokers, Revoker, RevokeFamily, Finish, FamilyOf
<1>2. ASSUME NEW t \in DOMAIN tokens, tokens'[t].family = f, Usable(t)'
      PROVE  FALSE
  <2>1. tokens'[t] = IF Token(t) /\ tokens[t].family = f
                     THEN [tokens[t] EXCEPT !.revoked = TRUE] ELSE tokens[t]
    BY <1>1 DEF RevokeFamily, FamilyOf
  <2>2. tokens[t] \in TokenRow
    BY RowTypes DEF IInv
  <2>3. CASE Token(t) /\ tokens[t].family = f
    BY <1>2, <2>1, <2>2, <2>3 DEF Usable, TokenRow
  <2>4. CASE ~(Token(t) /\ tokens[t].family = f)
    BY <1>1, <1>2, <2>1, <2>2, <2>4 DEF Usable, Token
  <2> QED
    BY <2>3, <2>4
<1>3. ASSUME NEW q \in Request, Pending(q)', req'[q].family = f
      PROVE  FALSE
  BY <1>1, <1>3 DEF Pending, HoldersOf, FamilyOf, Idle
<1>4. HoldersOf(f)' = {}
  BY <1>3 DEF HoldersOf, FamilyOf
<1>5. ~\E t \in DOMAIN tokens' : tokens'[t].family = f /\ Usable(t)'
  BY <1>1, <1>2
<1> QED
  BY <1>1, <1>4, <1>5 DEF PhaseOf

(* Taking a family down while none of its credentials is being exchanged   *)
(* ends it, whichever token was presented and whatever happened before.    *)
THEOREM QuietRevocations == Spec => QuietRevocationEnds
<1>1. Init => Revokers
  BY DEF Init, Revokers, Revoker, Idle
<1>2. IInv /\ Revokers /\ [Next]_vars => Revokers'
  BY RevokerStep DEF Revokers
<1>3. IInv /\ Revokers =>
        [\A r \in Request, f \in DOMAIN codes :
           RevokeFamily(r) /\ FamilyOf(r) = f /\ HoldersOf(f) = {}
             => PhaseOf(f)' = "ended"]_vars
  BY RevocationEnds
<1> QED
  BY <1>1, <1>2, <1>3, Invariant, PTL DEF Spec, QuietRevocationEnds

-----------------------------------------------------------------------------
(* A rotation between its two writes: the row it spent is spent, and the   *)
(* row it minted is a later one of the family that nothing points to yet   *)
(* and no other rotation minted.                                           *)
LinkOf(r) ==
  /\ req[r].at \in {"rotate", "link"} => tokens[req[r].token].used
  /\ req[r].at = "link" =>
       /\ req[r].successor > req[r].token
       /\ tokens[req[r].successor].family = FamilyOf(r)
       /\ \A q \in DOMAIN tokens : tokens[q].replaced_by # req[r].successor

Links ==
  /\ \A r \in Request : LinkOf(r)
  /\ \A q, r \in Request :
       req[q].at = "link" /\ req[r].at = "link" /\ req[q].successor = req[r].successor
       => q = r

Chain == Links /\ SuccessorChain

(* Only the linking UPDATE writes replaced_by.                             *)
LEMMA PointersKept ==
  ASSUME IInv, [Next]_vars, NEW t \in DOMAIN tokens
  PROVE  \/ tokens'[t].replaced_by = tokens[t].replaced_by
         \/ \E r \in Request : Link(r) /\ req[r].token = t
                               /\ tokens'[t].replaced_by = req[r].successor
<1>1. tokens \in Seq(TokenRow) /\ tokens[t] \in TokenRow
  BY RowTypes DEF IInv, TypeOK
<1>2. CASE tokens' = tokens
  BY <1>2
<1>3. ASSUME NEW r \in Request, Link(r)
      PROVE  \/ tokens'[t].replaced_by = tokens[t].replaced_by
             \/ req[r].token = t /\ tokens'[t].replaced_by = req[r].successor
  <2>1. req[r].token \in DOMAIN tokens
    BY <1>3 DEF Link, IInv, RequestsWellFormed
  <2> QED
    BY <1>1, <1>3, <2>1 DEF Link, TokenRow
<1>4. ASSUME NEW r \in Request, MintFirst(r) \/ MintSuccessor(r)
      PROVE  tokens'[t] = tokens[t]
  BY <1>1, <1>4, AppendRow DEF MintFirst, MintSuccessor
<1>5. ASSUME NEW r \in Request, RevokeFamily(r) \/ Reply(r)
      PROVE  tokens'[t].replaced_by = tokens[t].replaced_by
  BY <1>1, <1>5 DEF RevokeFamily, Reply, TokenRow
<1>6. ASSUME NEW r \in Request, NEW cl \in Client, NEW s \in DOMAIN tokens, RotateClaim(r, cl, s)
      PROVE  tokens'[t].replaced_by = tokens[t].replaced_by
  BY <1>1, <1>6 DEF RotateClaim, TokenRow
<1>7. CASE Administration
  <2>1. ASSUME NEW cl \in Client, NEW s \in DOMAIN tokens, RevokeToken(cl, s)
        PROVE  tokens'[t].replaced_by = tokens[t].replaced_by
    BY <1>1, <2>1 DEF RevokeToken, TokenRow
  <2>2. CASE PurgeTokens \/ \E u \in User : DeleteUser(u)
    BY <1>1, <2>2 DEF PurgeTokens, DeleteUser, Cascade, TokenRow
  <2>3. CASE \E cl \in Client : DeleteClient(cl)
    BY <1>1, <2>3 DEF DeleteClient, Cascade, TokenRow
  <2> QED
    BY <1>2, <1>7, <2>1, <2>2, <2>3 DEF Administration, DisableUser, EnableUser, PurgeCodes
<1>8. ASSUME NEW r \in Request, RequestStep(r), tokens' # tokens
      PROVE  \/ Link(r) \/ MintFirst(r) \/ MintSuccessor(r) \/ RevokeFamily(r) \/ Reply(r)
             \/ \E cl \in Client, s \in DOMAIN tokens : RotateClaim(r, cl, s)
  BY <1>8 DEF RequestStep, CodeGrant, RefreshGrant, RedeemGranted, RedeemRefused, RedeemMissed,
              CheckReplay, RotateMissed, DetectReuse, CheckAccount, Sign, Abort
<1> QED
  BY <1>2, <1>3, <1>4, <1>5, <1>6, <1>7, <1>8 DEF Next, IssueCode, Tick, vars

(* How a request comes to stand between its two writes.                    *)
LEMMA RotationMoves ==
  ASSUME IInv, [Next]_vars, NEW r \in Request
  PROVE  \/ req'[r].at \notin {"rotate", "link"}
         \/ /\ req'[r].at = req[r].at /\ req'[r].token = req[r].token
            /\ req'[r].family = req[r].family /\ req'[r].successor = req[r].successor
         \/ req'[r].at = "rotate" /\ tokens'[req'[r].token].used
         \/ MintSuccessor(r) /\ req'[r] = Minted(r, "link", Len(tokens) + 1)
<1>1. /\ req \in [Request -> RequestState] /\ req[r] \in RequestState
  BY DEF IInv, TypeOK
<1>2. CASE \E u \in User : EnableUser(u) /\ Serves(r, u)
                           /\ req'[r] = [req[r] EXCEPT !.admitted = TRUE]
  BY <1>1, <1>2 DEF RequestState
<1>3. ASSUME NEW cl \in Client, NEW t \in DOMAIN tokens, RotateClaim(r, cl, t)
      PROVE  req'[r].at = "rotate" /\ tokens'[req'[r].token].used
  <2>1. req'[r].at = "rotate" /\ req'[r].token = t
    BY <1>1, <1>3 DEF RotateClaim
  <2>2. tokens'[t].used
    BY <1>3, RowTypes DEF RotateClaim, IInv, TokenRow
  <2> QED
    BY <2>1, <2>2
<1>4. ASSUME NEW cl \in Client, NEW t \in DOMAIN tokens, RotateMissed(r, cl, t)
      PROVE  req'[r].at = "check_reuse"
  BY <1>1, <1>4 DEF RotateMissed, Asking
<1>5. ASSUME NEW at \in At, Moves(r, at) PROVE req'[r].at = at
  BY <1>1, <1>5 DEF Moves, RequestState
<1>6. "revoke_family" \in At /\ "mint" \in At /\ "reply" \in At /\ "check_account" \in At
  BY DEF At
<1>7. Minted(r, "reply", Len(tokens) + 1).at = "reply"
  BY DEF Minted
<1>8. CASE RequestStep(r) /\ req'[r] # req[r]
  BY <1>3, <1>4, <1>5, <1>6, <1>7, <1>8, OwnStep
<1> QED
  BY <1>2, <1>8, Bystander

LEMMA LinksStep ==
  ASSUME IInv, Chain, [Next]_vars
  PROVE  Links'
<1>1. /\ TablesKept /\ \A r \in Request : LinkOf(r)
      /\ DOMAIN tokens = 1..Len(tokens) /\ Len(tokens) \in Nat
  BY StepKeeps DEF IInv, TypeOK, Chain, Links
<1>2. \A r \in Request : req[r].at \in {"rotate", "link"} =>
        /\ req[r].token \in DOMAIN tokens /\ tokens[req[r].token].family = FamilyOf(r)
        /\ req[r].at = "link" => req[r].successor \in DOMAIN tokens
  BY DEF IInv, RequestsWellFormed
<1>3. \A q \in Request : req'[q].at = "link" =>
        \/ /\ req[q].at = "link" /\ req'[q].successor = req[q].successor
           /\ req'[q].token = req[q].token /\ req'[q].family = req[q].family
        \/ MintSuccessor(q) /\ req'[q] = Minted(q, "link", Len(tokens) + 1)
  BY RotationMoves
<1>4. ASSUME NEW q \in Request, MintSuccessor(q), req'[q] = Minted(q, "link", Len(tokens) + 1)
      PROVE  /\ req'[q].successor = Len(tokens) + 1 /\ req'[q].token = req[q].token
             /\ req'[q].family = req[q].family /\ req[q].at = "rotate"
  BY <1>4 DEF Minted, MintSuccessor
<1>5. ASSUME NEW q \in Request, NEW r \in Request, req'[q].at = "link", req'[r].at = "link",
             req'[q].successor = req'[r].successor
      PROVE  q = r
  <2>1. CASE req[q].at = "link" /\ req'[q].successor = req[q].successor
             /\ req[r].at = "link" /\ req'[r].successor = req[r].successor
    BY <1>5, <2>1 DEF Chain, Links
  <2>2. CASE MintSuccessor(q) /\ MintSuccessor(r) /\ req'[q] = Minted(q, "link", Len(tokens) + 1)
    <3>1. RequestStep(r)
      BY <2>2 DEF RequestStep, RefreshGrant
    <3>2. req[q].at = "rotate"
      BY <2>2 DEF MintSuccessor
    <3> QED
      BY <1>5, <3>1, <3>2, OthersStay
  <2> QED
    BY <1>1, <1>2, <1>3, <1>4, <1>5, <2>1, <2>2
<1>6. ASSUME NEW r \in Request PROVE LinkOf(r)'
  <2>1. CASE req'[r].at \notin {"rotate", "link"}
    BY <2>1 DEF LinkOf
  <2>2. CASE req'[r].at = "rotate"
    <3>1. CASE req[r].at = "rotate" /\ req'[r].token = req[r].token
      BY <1>1, <1>2, <2>2, <3>1 DEF LinkOf, TablesKept, TokensKept
    <3>2. CASE tokens'[req'[r].token].used
      BY <2>2, <3>2 DEF LinkOf
    <3>3. Minted(r, "link", Len(tokens) + 1).at = "link"
      BY DEF Minted
    <3> QED
      BY <2>2, <3>1, <3>2, <3>3, RotationMoves
  <2>3. CASE /\ req'[r].at = "link" /\ req[r].at = "link"
             /\ req'[r].successor = req[r].successor
             /\ req'[r].token = req[r].token /\ req'[r].family = req[r].family
    <3>1. /\ tokens'[req[r].token].used
          /\ req[r].successor > req[r].token
          /\ tokens'[req[r].successor].family = req[r].family
      BY <1>1, <1>2, <2>3 DEF LinkOf, FamilyOf, TablesKept, TokensKept
    <3>2. ASSUME NEW q \in DOMAIN tokens, tokens'[q].replaced_by = req[r].successor
          PROVE  FALSE
      <4>1. PICK p \in Request : Link(p) /\ req[p].successor = req[r].successor
        BY <1>1, <2>3, <3>2, PointersKept DEF LinkOf
      <4>2. p = r /\ req \in [Request -> RequestState]
        BY <2>3, <4>1 DEF Link, Chain, Links, IInv, TypeOK
      <4> QED
        BY <2>3, <4>1, <4>2 DEF Link, Goto
    <3>3. \A q \in DOMAIN tokens' \ DOMAIN tokens : tokens'[q].replaced_by # req[r].successor
      BY <1>1, <1>2, <2>3 DEF TablesKept, TokensCome
    <3> QED
      BY <2>3, <3>1, <3>2, <3>3 DEF LinkOf, FamilyOf
  <2>4. CASE req'[r].at = "link" /\ MintSuccessor(r)
             /\ req'[r] = Minted(r, "link", Len(tokens) + 1)
    <3> DEFINE spent == tokens[req[r].token]
               row == MintedRow(spent.user, req[r].client, spent.scopes, spent.family)
    <3>1. /\ req'[r].successor = Len(tokens) + 1 /\ req'[r].token = req[r].token
          /\ req'[r].family = req[r].family /\ req[r].at = "rotate"
          /\ req[r].token \in DOMAIN tokens /\ spent.family = req[r].family
      BY <1>2, <1>4, <2>4 DEF FamilyOf
    <3>2. tokens' = Append(tokens, row)
      BY <2>4, <3>1 DEF MintSuccessor, Finish, Minted, Idle, IInv, TypeOK
    <3>3. row.family = req[r].family
      BY <3>1 DEF MintedRow
    <3> HIDE DEF row
    <3>4. tokens'[Len(tokens) + 1].family = req[r].family
      BY <3>2, <3>3, AppendRow DEF IInv, TypeOK
    <3>5. ASSUME NEW q \in DOMAIN tokens PROVE tokens'[q].replaced_by # Len(tokens) + 1
      <4>1. tokens'[q] = tokens[q]
        BY <3>2, AppendRow DEF IInv, TypeOK
      <4>2. tokens[q].replaced_by = 0 \/ tokens[q].replaced_by \in DOMAIN tokens
        BY DEF Chain, SuccessorChain
      <4> QED
        BY <1>1, <4>1, <4>2
    <3>6. \A q \in DOMAIN tokens' \ DOMAIN tokens : tokens'[q].replaced_by # Len(tokens) + 1
      BY <1>1 DEF TablesKept, TokensCome
    <3>7. tokens'[req[r].token].used
      BY <1>1, <3>1 DEF LinkOf, TablesKept, TokensKept
    <3> QED
      BY <1>1, <3>1, <3>4, <3>5, <3>6, <3>7 DEF LinkOf, FamilyOf
  <2> QED
    BY <1>3, <2>1, <2>2, <2>3, <2>4
<1> QED
  BY <1>5, <1>6 DEF Links

LEMMA SuccessorStep ==
  ASSUME IInv, Chain, [Next]_vars
  PROVE  SuccessorChain'
<1>1. /\ TablesKept /\ \A r \in Request : LinkOf(r)
      /\ DOMAIN tokens = 1..Len(tokens) /\ Len(tokens) \in Nat
  BY StepKeeps DEF IInv, TypeOK, Chain, Links
<1>2. SUFFICES ASSUME NEW t \in DOMAIN tokens', tokens'[t].replaced_by # 0
               PROVE  LET s == tokens'[t].replaced_by
                      IN /\ s \in DOMAIN tokens' /\ s > t
                         /\ tokens'[t].used /\ tokens'[s].family = tokens'[t].family
                         /\ \A q \in DOMAIN tokens' : tokens'[q].replaced_by = s => q = t
  BY DEF SuccessorChain
<1> DEFINE s == tokens'[t].replaced_by
<1>3. t \in DOMAIN tokens
  BY <1>1, <1>2 DEF TablesKept, TokensCome
<1>4. CASE tokens'[t].replaced_by = tokens[t].replaced_by
  <2>1. /\ s \in DOMAIN tokens /\ s > t /\ tokens[t].used
        /\ tokens[s].family = tokens[t].family
        /\ \A q \in DOMAIN tokens : tokens[q].replaced_by = s => q = t
    BY <1>2, <1>3, <1>4 DEF Chain, SuccessorChain
  <2>2. ASSUME NEW q \in DOMAIN tokens', tokens'[q].replaced_by = s PROVE q = t
    <3>1. q \in DOMAIN tokens
      BY <1>1, <1>2, <2>2 DEF TablesKept, TokensCome
    <3>2. ASSUME NEW r \in Request, Link(r) PROVE req[r].successor # s
      BY <1>1, <1>3, <1>4, <3>2 DEF LinkOf, Link
    <3> QED
      BY <2>1, <2>2, <3>1, <3>2, PointersKept
  <2> QED
    BY <1>1, <1>3, <2>1, <2>2 DEF TablesKept, TokensKept
<1>5. CASE \E r \in Request : Link(r) /\ req[r].token = t /\ req[r].successor = s
  <2>1. PICK r \in Request : Link(r) /\ req[r].token = t /\ req[r].successor = s
    BY <1>5
  <2>2. /\ req[r].at = "link" /\ s \in DOMAIN tokens /\ s > t /\ tokens[t].used
        /\ tokens[s].family = tokens[t].family
        /\ \A q \in DOMAIN tokens : tokens[q].replaced_by # s
    BY <1>1, <2>1 DEF Link, LinkOf, IInv, RequestsWellFormed
  <2>3. ASSUME NEW q \in DOMAIN tokens', tokens'[q].replaced_by = s PROVE q = t
    <3>1. q \in DOMAIN tokens
      BY <1>1, <1>2, <2>3 DEF TablesKept, TokensCome
    <3>2. PICK p \in Request : Link(p) /\ req[p].token = q /\ req[p].successor = s
      BY <2>2, <2>3, <3>1, PointersKept
    <3>3. p = r
      BY <2>1, <2>2, <3>2 DEF Link, Chain, Links
    <3> QED
      BY <2>1, <3>2, <3>3
  <2> QED
    BY <1>1, <1>3, <2>2, <2>3 DEF TablesKept, TokensKept
<1> QED
  BY <1>3, <1>4, <1>5, PointersKept

(* The spent tokens of a family form one chain, whatever rotations,        *)
(* revocations and deletions interleave and wherever a rotation dies.      *)
THEOREM SpentTokensChained == Spec => []SuccessorChain
<1>1. Init => Chain
  BY DEF Init, Chain, Links, LinkOf, SuccessorChain, Idle
<1>2. IInv /\ Chain /\ [Next]_vars => Chain'
  BY LinksStep, SuccessorStep DEF Chain
<1>3. Chain => SuccessorChain
  BY DEF Chain
<1> QED
  BY <1>1, <1>2, <1>3, Invariant, PTL DEF Spec
=============================================================================
