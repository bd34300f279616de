-------------------------- MODULE FamilyRequestsProofs --------------------------
(***************************************************************************)
(* The safety of the family, session and pairing-code transactions, for    *)
(* any number of parents, children, sessions, codes and connections.  IInv *)
(* is the inductive invariant: who is judged on the family's row holds it  *)
(* and the row stays as it was judged (FamilyOK), the rows an UPDATE has   *)
(* changed are locked and still match it (RowsOK), ids that are to be      *)
(* inserted are nobody else's (FreshOK, Apart), and a revocation has every *)
(* open session of its parent in hand (CutOK).                             *)
(***************************************************************************)
EXTENDS FamilyRequests, TLAPS

-----------------------------------------------------------------------------
(* The invariant. *)

(* The statements a call may be at. *)
Path(op) ==
  CASE op = "createFamily" -> {"update", "commit"}
    [] op \in {"addChild", "inviteParent", "acceptInvitation"} -> {"lockFamily", "commit"}
    [] op = "revokeParent" -> {"lockFamily", "scan", "update", "commit"}
    [] op = "signIn" -> {"member", "insert", "commit"}
    [] op = "signOut" -> {"update", "commit"}
    [] op = "provisionChildSession" -> {"member", "child", "insert", "commit"}
    [] op = "issuePairingCode" -> {"member", "child", "scan", "update", "insert", "commit"}
    [] op = "redeemPairingCode" -> {"update", "member", "child", "insert", "commit"}
    [] OTHER -> {"idle"}

(* What a call names. *)
Asked(request) ==
  /\ request.op \in FamilyOps => request.actor \in Parents
  /\ request.op = "addChild" => request.child \in Children
  /\ request.op \in {"inviteParent", "revokeParent"} => request.target \in Parents
  /\ request.op \in {"inviteParent", "acceptInvitation"} => request.token \in Tokens
  /\ request.op = "signIn" => request.actor \in Parents
  /\ request.op \in {"signIn", "provisionChildSession", "redeemPairingCode"} =>
       request.session \in Sessions
  /\ request.op = "issuePairingCode" =>
       request.code \in Codes /\ request.actor \in Parents /\ request.child \in Children
  /\ request.op = "redeemPairingCode" => request.code \in Codes

(* The rows a call's UPDATE may change. *)
RowsOf(op) ==
  IF op \in {"issuePairingCode", "redeemPairingCode"} THEN Codes
  ELSE IF op \in {"createFamily", "signOut", "revokeParent"} THEN Sessions
  ELSE {}

(* A connection's own state. *)
CallOK(c) ==
  /\ pc[c] \in Path(req[c].op)
  /\ pc[c] = "idle" => req[c] = NoRequest
  /\ Asked(req[c])
  /\ tx[c].todo \subseteq RowsOf(req[c].op)
  /\ tx[c].hit \subseteq RowsOf(req[c].op)
  /\ pc[c] \in {"idle", "lockFamily", "scan", "update"} => tx[c].hit = {}
  /\ pc[c] \in {"member", "child"} /\ req[c].op # "redeemPairingCode" => tx[c].hit = {}

(* Rows that a call has changed are its own until it ends. *)
RowsOK(c) ==
  /\ \A x \in Rows : rowLock[x] = c <=> x \in tx[c].hit
  /\ \A x \in tx[c].hit : StillMatches(c, x)

HoldsFamily(c) == req[c].op \in FamilyOps /\ pc[c] \in {"scan", "update", "commit"}

SharesFamily(c) ==
  /\ req[c].op \in {"signIn", "provisionChildSession", "issuePairingCode", "redeemPairingCode"}
  /\ pc[c] = "commit" /\ IsScoped(c)

(* What a command was judged on is what is committed. *)
FamilyOK(c) ==
  /\ familyLock = c <=> HoldsFamily(c)
  /\ c \in familyShare <=> SharesFamily(c)
  /\ HoldsFamily(c) => CommandAllowed(c) /\ tx[c].family = NextFamily(c)

(* A revocation has in hand every open session of its parent. *)
CutOK(c) ==
  req[c].op = "revokeParent" =>
    \A s \in Sessions : session[s] = ParentSession(req[c].target, TRUE) =>
      /\ pc[c] = "update" => s \in tx[c].todo
      /\ pc[c] = "commit" => s \in tx[c].hit

(* An id that is to be inserted is not there yet. *)
FreshOK(c) ==
  /\ InsertsSession(c) => session[req[c].session] = NoSession
  /\ req[c].op = "issuePairingCode" => code[req[c].code] = NoCode
  /\ req[c].op = "inviteParent" => token[req[c].token] = NoToken
  /\ req[c].op = "createFamily" => family.version = 0

(* Nor has another call got it. *)
Apart(c, d) ==
  /\ InsertsSession(c) => req[d].session # req[c].session
  /\ req[c].op = "issuePairingCode" => req[d].code # req[c].code
  /\ req[c].op = "inviteParent" => req[d].token # req[c].token
  /\ req[c].op = "createFamily" => req[d].op # "createFamily"

ConnInv(c) == CallOK(c) /\ RowsOK(c) /\ FamilyOK(c) /\ CutOK(c) /\ FreshOK(c)

(* Before there is a family nobody is a member or invited. *)
NobodyYet ==
  family.version = 0 =>
    /\ \A p \in Parents : family.parents[p] = "NONE"
    /\ \A t \in Tokens : token[t] = NoToken

IInv ==
  /\ FamilyTypeOK /\ NobodyYet
  /\ \A c \in Conns : ConnInv(c)
  /\ \A c, d \in Conns : c # d => Apart(c, d)

-----------------------------------------------------------------------------
(* The statements of a call. *)

Ops == FamilyOps \cup AccessOps \cup {"createFamily", "none"}

LEMMA PathIs ==
  /\ Path("none") = {"idle"}
  /\ Path("createFamily") = {"update", "commit"}
  /\ Path("addChild") = {"lockFamily", "commit"}
  /\ Path("inviteParent") = {"lockFamily", "commit"}
  /\ Path("acceptInvitation") = {"lockFamily", "commit"}
  /\ Path("revokeParent") = {"lockFamily", "scan", "update", "commit"}
  /\ Path("signIn") = {"member", "insert", "commit"}
  /\ Path("signOut") = {"update", "commit"}
  /\ Path("provisionChildSession") = {"member", "child", "insert", "commit"}
  /\ Path("issuePairingCode") = {"member", "child", "scan", "update", "insert", "commit"}
  /\ Path("redeemPairingCode") = {"update", "member", "child", "insert", "commit"}
BY DEF Path

LEMMA OpsAre ==
  Ops = {"none", "createFamily", "addChild", "inviteParent", "acceptInvitation", "revokeParent",
         "signIn", "signOut", "provisionChildSession", "issuePairingCode", "redeemPairingCode"}
BY DEF Ops, FamilyOps, AccessOps

(* Where a call is after the statements that lead on.                        *)
LEMMA AfterIs ==
  ASSUME NEW op \in Ops, NEW statement \in Path(op), statement \notin {"idle", "commit"}
  PROVE  /\ After(op, statement) \in Path(op)
         /\ After(op, statement) \notin {"idle", "lockFamily"}
         /\ statement = "lockFamily" =>
              /\ op \in FamilyOps
              /\ After(op, statement) = IF op = "revokeParent" THEN "scan" ELSE "commit"
         /\ statement \in {"member", "child"} =>
              /\ op \in AccessOps \ {"signOut"}
              /\ After(op, statement) \in {"child", "scan", "insert"}
              /\ After(op, statement) = "scan" => op = "issuePairingCode"
              /\ After(op, statement) = "child" => op # "signIn"
         /\ statement = "scan" =>
              op \in {"revokeParent", "issuePairingCode"} /\ After(op, statement) = "update"
         /\ statement = "update" =>
              /\ After(op, statement) = "member" <=> op = "redeemPairingCode"
              /\ After(op, statement) = "insert" <=> op = "issuePairingCode"
              /\ After(op, statement) = "commit" <=>
                   op \in {"createFamily", "signOut", "revokeParent"}
              /\ After(op, statement) \in {"member", "insert", "commit"}
         /\ statement = "insert" =>
              /\ op \in {"signIn", "provisionChildSession", "issuePairingCode",
                         "redeemPairingCode"}
              /\ After(op, statement) = "commit"
<1>1. statement \in {"lockFamily", "member", "child", "scan", "update", "insert"}
  BY PathIs, OpsAre
<1>2. CASE statement = "lockFamily"
  BY <1>2, PathIs, OpsAre DEF After, FamilyOps
<1>3. CASE statement = "member"
  BY <1>3, PathIs, OpsAre DEF After, AccessOps
<1>4. CASE statement = "child"
  BY <1>4, PathIs, OpsAre DEF After, AccessOps
<1>5. CASE statement = "scan"
  BY <1>5, PathIs, OpsAre DEF After
<1>6. CASE statement = "update"
  BY <1>6, PathIs, OpsAre DEF After
<1>7. CASE statement = "insert"
  BY <1>7, PathIs, OpsAre DEF After
<1> QED
  BY <1>1, <1>2, <1>3, <1>4, <1>5, <1>6, <1>7

LEMMA PathInStatements ==
  ASSUME NEW op \in Ops
  PROVE  Path(op) \subseteq Statements
BY PathIs, OpsAre DEF Statements

LEMMA RowsOfIs ==
  ASSUME NEW op
  PROVE  /\ RowsOf(op) \subseteq Rows
         /\ RowsOf(op) \cap Codes # {} => op \in {"issuePairingCode", "redeemPairingCode"}
         /\ RowsOf(op) \cap Sessions # {} => op \in {"createFamily", "signOut", "revokeParent"}
BY FamilyRequestsAssumption DEF RowsOf, Rows

-----------------------------------------------------------------------------
(* What a step on one connection leaves alone. *)

Keeps(d) ==
  /\ pc'[d] = pc[d] /\ req'[d] = req[d] /\ tx'[d] = tx[d]
  /\ familyLock' = d <=> familyLock = d
  /\ d \in familyShare' <=> d \in familyShare
  /\ \A x \in Rows : rowLock'[x] = d <=> rowLock[x] = d

LEMMA KeepsCallOK ==
  ASSUME NEW d \in Conns, CallOK(d), Keeps(d)
  PROVE  CallOK(d)'
BY DEF CallOK, Keeps

LEMMA KeepsConnInv ==
  ASSUME NEW d \in Conns, ConnInv(d), Keeps(d), UNCHANGED <<family, token, session, code>>
  PROVE  ConnInv(d)'
<1>1. CallOK(d)'
  BY KeepsCallOK DEF ConnInv
<1>2. RowsOK(d)'
  BY DEF ConnInv, RowsOK, Keeps, StillMatches
<1>3. HoldsFamily(d)' <=> HoldsFamily(d)
  BY DEF HoldsFamily, Keeps
<1>4. SharesFamily(d)' <=> SharesFamily(d)
  BY DEF SharesFamily, Keeps, IsScoped
<1>5. CommandAllowed(d)' <=> CommandAllowed(d)
  BY DEF CommandAllowed, Keeps
<1>6. NextFamily(d)' = NextFamily(d)
  BY DEF NextFamily, Keeps
<1>7. FamilyOK(d)'
  BY <1>3, <1>4, <1>5, <1>6 DEF ConnInv, FamilyOK, Keeps
<1>8. CutOK(d)' /\ FreshOK(d)'
  BY DEF ConnInv, CutOK, FreshOK, Keeps, InsertsSession
<1> QED
  BY <1>1, <1>2, <1>7, <1>8 DEF ConnInv

LEMMA QuietStep ==
  ASSUME IInv, NEW c \in Conns, UNCHANGED <<family, token, session, code>>,
         FamilyTypeOK', ConnInv(c)', \A d \in Conns : d # c => Keeps(d),
         \A d \in Conns : d # c => Apart(c, d)' /\ Apart(d, c)'
  PROVE  IInv'
<1>1. \A d \in Conns : ConnInv(d)'
  BY KeepsConnInv DEF IInv
<1>2. NobodyYet'
  BY DEF IInv, NobodyYet
<1>3. ASSUME NEW d \in Conns, NEW e \in Conns, d # e
      PROVE  Apart(d, e)'
  <2>1. CASE d # c /\ e # c
    BY <1>3, <2>1 DEF IInv, Apart, Keeps, InsertsSession
  <2> QED
    BY <1>3, <2>1
<1> QED
  BY <1>1, <1>2, <1>3 DEF IInv

LEMMA SameApart ==
  ASSUME IInv, UNCHANGED req, NEW c \in Conns
  PROVE  \A d \in Conns : d # c => Apart(c, d)' /\ Apart(d, c)'
BY DEF IInv, Apart, InsertsSession

-----------------------------------------------------------------------------
(* A call begins. *)

(* The ids of a call are fresh, or are rows'.                                *)
Named(request) ==
  /\ \/ request.session = None \/ session[request.session] # NoSession
     \/ FreshSession(request.session)
  /\ request.code = None \/ code[request.code] # NoCode \/ FreshCode(request.code)
  /\ request.token = None \/ token[request.token] # NoToken \/ FreshToken(request.token)
  /\ request.op \in {"signIn", "provisionChildSession", "redeemPairingCode"} =>
       FreshSession(request.session)
  /\ request.op = "issuePairingCode" => FreshCode(request.code)
  /\ request.op = "inviteParent" => FreshToken(request.token)
  /\ request.op = "createFamily" => FreshFamily

Arrives(c, request, statement) ==
  /\ Receive(c, request, statement)
  /\ request \in Requests /\ request.op # "none" /\ Asked(request) /\ Named(request)
  /\ statement \in Path(request.op) \ {"idle", "scan", "child", "commit"}
  /\ statement = "update" => request.op # "revokeParent"
  /\ \/ tx' = tx
     \/ \E x \in RowsOf(request.op) : tx' = [tx EXCEPT ![c].todo = {x}]

LEMMA NoRequestIs ==
  /\ NoRequest \in Requests /\ NoRequest.op = "none" /\ NoRequest.actor = None
  /\ NoRequest.target = None /\ NoRequest.child = None /\ NoRequest.token = None
  /\ NoRequest.session = None /\ NoRequest.code = None /\ NoRequest.scoped = FALSE
BY DEF NoRequest, Requests

LEMMA CreateArrives ==
  ASSUME NEW c \in Conns, NEW s \in Sessions, ReceiveCreate(c, s)
  PROVE  \E request, statement : Arrives(c, request, statement)
<1> DEFINE request == [NoRequest EXCEPT !.op = "createFamily", !.actor = Owner, !.session = s]
<1>1. /\ request \in Requests /\ request.op = "createFamily"
      /\ request.actor = Owner /\ request.session = s /\ request.code = None
      /\ request.token = None
  BY NoRequestIs, FamilyMembershipAssumption DEF Requests
<1>2. Receive(c, request, "update") /\ session[s] # NoSession /\ FreshFamily
      /\ tx' = [tx EXCEPT ![c].todo = {s}]
  BY DEF ReceiveCreate, NoSession, Begin
<1>3. s \in RowsOf("createFamily")
  BY DEF RowsOf
<1> HIDE DEF request
<1>4. Asked(request) /\ Named(request)
  BY <1>1, <1>2 DEF Asked, Named, FamilyOps
<1> QED
  BY <1>1, <1>2, <1>3, <1>4, PathIs DEF Arrives

LEMMA SignOutArrives ==
  ASSUME NEW c \in Conns, NEW s \in Sessions, ReceiveSignOut(c, s)
  PROVE  \E request, statement : Arrives(c, request, statement)
<1> DEFINE request == [NoRequest EXCEPT !.op = "signOut", !.session = s]
<1>1. /\ request \in Requests /\ request.op = "signOut"
      /\ request.session = s /\ request.code = None /\ request.token = None
  BY NoRequestIs DEF Requests, AccessOps
<1>2. Receive(c, request, "update") /\ session[s] # NoSession
      /\ tx' = [tx EXCEPT ![c].todo = {s}]
  BY DEF ReceiveSignOut, NoSession, Begin
<1>3. s \in RowsOf("signOut")
  BY DEF RowsOf
<1> HIDE DEF request
<1>4. Asked(request) /\ Named(request)
  BY <1>1, <1>2 DEF Asked, Named, FamilyOps
<1> QED
  BY <1>1, <1>2, <1>3, <1>4, PathIs DEF Arrives

LEMMA CommandArrives ==
  ASSUME NEW c \in Conns, NEW request \in Requests,
         request.op \in FamilyOps, request.actor \in Parents,
         request.op = "addChild" => request.child \in Children,
         request.op \in {"inviteParent", "revokeParent"} => request.target \in Parents,
         request.op \in {"inviteParent", "acceptInvitation"} => request.token \in Tokens,
         request.session = None, request.code = None,
         \/ request.token = None \/ token[request.token] # NoToken
         \/ FreshToken(request.token),
         request.op = "inviteParent" => FreshToken(request.token),
         Receive(c, request, "lockFamily"), tx' = tx
  PROVE  Arrives(c, request, "lockFamily")
<1>1. Asked(request) /\ Named(request)
  BY DEF Asked, Named, FamilyOps
<1>2. "lockFamily" \in Path(request.op) /\ request.op # "none"
  BY PathIs DEF FamilyOps
<1> QED
  BY <1>1, <1>2 DEF Arrives

LEMMA AddChildArrives ==
  ASSUME NEW c \in Conns, NEW p \in Parents, NEW child \in Children, ReceiveAddChild(c, p, child)
  PROVE  \E request, statement : Arrives(c, request, statement)
<1> DEFINE request == [NoRequest EXCEPT !.op = "addChild", !.actor = p, !.child = child]
<1>1. /\ request \in Requests /\ request.op = "addChild" /\ request.actor = p
      /\ request.child = child /\ request.session = None /\ request.code = None
      /\ request.token = None
  BY NoRequestIs DEF Requests, FamilyOps
<1>2. Receive(c, request, "lockFamily") /\ tx' = tx
  BY DEF ReceiveAddChild
<1> HIDE DEF request
<1> QED
  BY <1>1, <1>2, CommandArrives DEF FamilyOps

LEMMA InviteArrives ==
  ASSUME NEW c \in Conns, NEW p \in Parents, NEW invitee \in Parents, NEW t \in Tokens,
         ReceiveInvite(c, p, invitee, t)
  PROVE  \E request, statement : Arrives(c, request, statement)
<1> DEFINE request == [NoRequest EXCEPT !.op = "inviteParent", !.actor = p,
                                        !.target = invitee, !.token = t]
<1>1. /\ request \in Requests /\ request.op = "inviteParent" /\ request.actor = p
      /\ request.target = invitee /\ request.session = None /\ request.code = None
      /\ request.token = t
  BY NoRequestIs DEF Requests, FamilyOps
<1>2. Receive(c, request, "lockFamily") /\ tx' = tx /\ FreshToken(t)
  BY DEF ReceiveInvite
<1> HIDE DEF request
<1> QED
  BY <1>1, <1>2, CommandArrives DEF FamilyOps

LEMMA AcceptArrives ==
  ASSUME NEW c \in Conns, NEW p \in Parents, NEW t \in Tokens, ReceiveAccept(c, p, t)
  PROVE  \E request, statement : Arrives(c, request, statement)
<1> DEFINE request == [NoRequest EXCEPT !.op = "acceptInvitation", !.actor = p, !.token = t]
<1>1. /\ request \in Requests /\ request.op = "acceptInvitation" /\ request.actor = p
      /\ request.session = None /\ request.code = None /\ request.token = t
  BY NoRequestIs DEF Requests, FamilyOps
<1>2. Receive(c, request, "lockFamily") /\ tx' = tx /\ token[t] # NoToken
  BY DEF ReceiveAccept
<1> HIDE DEF request
<1> QED
  BY <1>1, <1>2, CommandArrives DEF FamilyOps

LEMMA RevokeArrives ==
  ASSUME NEW c \in Conns, NEW p \in Parents, NEW target \in Parents, ReceiveRevoke(c, p, target)
  PROVE  \E request, statement : Arrives(c, request, statement)
<1> DEFINE request == [NoRequest EXCEPT !.op = "revokeParent", !.actor = p, !.target = target]
<1>1. /\ request \in Requests /\ request.op = "revokeParent" /\ request.actor = p
      /\ request.target = target /\ request.session = None /\ request.code = None
      /\ request.token = None
  BY NoRequestIs DEF Requests, FamilyOps
<1>2. Receive(c, request, "lockFamily") /\ tx' = tx
  BY DEF ReceiveRevoke
<1> HIDE DEF request
<1> QED
  BY <1>1, <1>2, CommandArrives DEF FamilyOps

LEMMA SignInArrives ==
  ASSUME NEW c \in Conns, NEW p \in Parents, NEW scoped \in BOOLEAN, NEW s \in Sessions,
         ReceiveSignIn(c, p, scoped, s)
  PROVE  \E request, statement : Arrives(c, request, statement)
<1> DEFINE request == [NoRequest EXCEPT !.op = "signIn", !.actor = p, !.session = s,
                                        !.scoped = scoped]
           statement == IF scoped THEN "member" ELSE "insert"
<1>1. /\ request \in Requests /\ request.op = "signIn" /\ request.actor = p
      /\ request.session = s /\ request.code = None /\ request.token = None
  BY NoRequestIs DEF Requests, AccessOps
<1>2. Receive(c, request, statement) /\ tx' = tx /\ FreshSession(s)
  BY DEF ReceiveSignIn
<1> HIDE DEF request
<1>3. Asked(request) /\ Named(request)
  BY <1>1, <1>2 DEF Asked, Named, FamilyOps
<1> QED
  BY <1>1, <1>2, <1>3, PathIs DEF Arrives

LEMMA ProvisionArrives ==
  ASSUME NEW c \in Conns, NEW p \in Parents, NEW child \in Children, NEW s \in Sessions,
         ReceiveProvision(c, p, child, s)
  PROVE  \E request, statement : Arrives(c, request, statement)
<1> DEFINE request == [NoRequest EXCEPT !.op = "provisionChildSession", !.actor = p,
                                        !.child = child, !.session = s]
<1>1. /\ request \in Requests /\ request.op = "provisionChildSession"
      /\ request.session = s /\ request.code = None /\ request.token = None
  BY NoRequestIs DEF Requests, AccessOps
<1>2. Receive(c, request, "member") /\ tx' = tx /\ FreshSession(s)
  BY DEF ReceiveProvision
<1> HIDE DEF request
<1>3. Asked(request) /\ Named(request)
  BY <1>1, <1>2 DEF Asked, Named, FamilyOps
<1> QED
  BY <1>1, <1>2, <1>3, PathIs DEF Arrives

LEMMA IssueArrives ==
  ASSUME NEW c \in Conns, NEW p \in Parents, NEW child \in Children, NEW k \in Codes,
         ReceiveIssue(c, p, child, k)
  PROVE  \E request, statement : Arrives(c, request, statement)
<1> DEFINE request == [NoRequest EXCEPT !.op = "issuePairingCode", !.actor = p,
                                        !.child = child, !.code = k]
<1>1. /\ request \in Requests /\ request.op = "issuePairingCode" /\ request.actor = p
      /\ request.child = child
      /\ request.session = None /\ request.code = k /\ request.token = None
  BY NoRequestIs DEF Requests, AccessOps
<1>2. Receive(c, request, "member") /\ tx' = tx /\ FreshCode(k)
  BY DEF ReceiveIssue
<1> HIDE DEF request
<1>3. Asked(request) /\ Named(request)
  BY <1>1, <1>2 DEF Asked, Named, FamilyOps
<1> QED
  BY <1>1, <1>2, <1>3, PathIs DEF Arrives

LEMMA RedeemArrives ==
  ASSUME NEW c \in Conns, NEW k \in Codes, NEW s \in Sessions, ReceiveRedeem(c, k, s)
  PROVE  \E request, statement : Arrives(c, request, statement)
<1> DEFINE request == [NoRequest EXCEPT !.op = "redeemPairingCode", !.code = k, !.session = s]
<1>1. /\ request \in Requests /\ request.op = "redeemPairingCode"
      /\ request.session = s /\ request.code = k /\ request.token = None
  BY NoRequestIs DEF Requests, AccessOps
<1>2. Receive(c, request, "update") /\ FreshSession(s) /\ code[k] # NoCode
      /\ tx' = [tx EXCEPT ![c].todo = {k}]
  BY DEF ReceiveRedeem, Begin
<1>3. k \in RowsOf("redeemPairingCode")
  BY DEF RowsOf
<1> HIDE DEF request
<1>4. Asked(request) /\ Named(request)
  BY <1>1, <1>2 DEF Asked, Named, FamilyOps
<1> QED
  BY <1>1, <1>2, <1>3, <1>4, PathIs DEF Arrives

LEMMA ArriveIs ==
  ASSUME NEW c \in Conns, Arrive(c)
  PROVE  \E request, statement : Arrives(c, request, statement)
BY CreateArrives, SignOutArrives, AddChildArrives, InviteArrives, AcceptArrives, RevokeArrives,
   SignInArrives, ProvisionArrives, IssueArrives, RedeemArrives DEF Arrive

LEMMA ArriveOK ==
  ASSUME IInv, NEW c \in Conns, Arrive(c)
  PROVE  IInv'
<1>1. PICK request, statement : Arrives(c, request, statement)
  BY ArriveIs
<1>2. /\ pc[c] = "idle"
      /\ req' = [req EXCEPT ![c] = request] /\ pc' = [pc EXCEPT ![c] = statement]
      /\ UNCHANGED <<family, token, session, code, familyLock, familyShare, rowLock>>
      /\ request \in Requests /\ Asked(request) /\ Named(request) /\ request.op # "none"
      /\ statement \in Path(request.op) \ {"idle", "scan", "child", "commit"}
      /\ statement = "update" => request.op # "revokeParent"
  BY <1>1 DEF Arrives, Receive, Goto, membershipVars, accessVars, lockVars
<1>3. CallOK(c) /\ RowsOK(c) /\ FamilyOK(c) /\ req[c].op = "none"
  BY <1>2, NoRequestIs DEF IInv, ConnInv, CallOK
<1>4. FamilyTypeOK
  BY DEF IInv
<1>5. request.op \in Ops /\ statement \in Statements
  BY <1>2, PathInStatements DEF Requests, Ops
<1>6. /\ pc'[c] = statement /\ req'[c] = request
      /\ \A d \in Conns : d # c => pc'[d] = pc[d] /\ req'[d] = req[d]
  BY <1>2, <1>4 DEF FamilyTypeOK
<1>7. tx[c] \in Transactions /\ tx[c].todo = {} /\ tx[c].hit = {}
  BY <1>3, <1>4 DEF FamilyTypeOK, CallOK, RowsOf
<1>8. /\ tx'[c] \in Transactions /\ tx'[c].hit = {} /\ tx'[c].todo \subseteq RowsOf(request.op)
      /\ \A d \in Conns : d # c => tx'[d] = tx[d]
      /\ tx' \in [Conns -> Transactions]
  <2>1. CASE tx' = tx
    BY <1>4, <1>7, <2>1 DEF FamilyTypeOK
  <2>2. CASE \E x \in RowsOf(request.op) : tx' = [tx EXCEPT ![c].todo = {x}]
    <3>1. PICK x \in RowsOf(request.op) : tx' = [tx EXCEPT ![c].todo = {x}]
      BY <2>2
    <3>2. {x} \in SUBSET Rows
      BY RowsOfIs
    <3>3. tx'[c] = [tx[c] EXCEPT !.todo = {x}] /\ \A d \in Conns : d # c => tx'[d] = tx[d]
      BY <1>4, <3>1 DEF FamilyTypeOK
    <3>4. tx'[c] \in Transactions /\ tx'[c].hit = {} /\ tx'[c].todo = {x}
      BY <1>7, <3>2, <3>3 DEF Transactions
    <3> QED
      BY <1>4, <3>1, <3>3, <3>4 DEF FamilyTypeOK
  <2> QED
    BY <1>1, <2>1, <2>2 DEF Arrives
<1>9. FamilyTypeOK'
  BY <1>2, <1>4, <1>5, <1>8 DEF FamilyTypeOK
<1>10. CallOK(c)'
  BY <1>2, <1>6, <1>8 DEF CallOK
<1>11. RowsOK(c)'
  BY <1>2, <1>3, <1>7, <1>8 DEF RowsOK
<1>12. ~HoldsFamily(c)' /\ ~SharesFamily(c)' /\ ~HoldsFamily(c) /\ ~SharesFamily(c)
  <2>1. request.op \in FamilyOps => statement \notin {"scan", "update", "commit"}
    BY <1>2, PathIs DEF FamilyOps
  <2> QED
    BY <1>2, <1>6, <2>1 DEF HoldsFamily, SharesFamily
<1>13. FamilyOK(c)'
  BY <1>2, <1>3, <1>12 DEF FamilyOK
<1>14. CutOK(c)'
  BY <1>2, <1>6 DEF CutOK
<1>15. FreshOK(c)'
  BY <1>2, <1>6 DEF FreshOK, InsertsSession, Named, FreshSession, FreshCode, FreshToken, FreshFamily
<1>16. ASSUME NEW d \in Conns, d # c
       PROVE  Apart(c, d)' /\ Apart(d, c)'
  <2>1. Apart(c, d)'
    BY <1>2, <1>6, <1>16
       DEF Apart, InsertsSession, Named, FreshSession, FreshCode, FreshToken, FreshFamily
  <2>2. FreshOK(d) /\ Asked(req[d])
    BY DEF IInv, ConnInv, CallOK
  <2>3. /\ InsertsSession(d) => req[d].session \in Sessions /\ session[req[d].session] = NoSession
        /\ req[d].op = "issuePairingCode" =>
             req[d].code \in Codes /\ code[req[d].code] = NoCode
        /\ req[d].op = "inviteParent" => req[d].token \in Tokens /\ token[req[d].token] = NoToken
    BY <2>2 DEF FreshOK, Asked, InsertsSession
  <2>4. None \notin Sessions /\ None \notin Codes /\ None \notin Tokens
    BY FamilyMembershipAssumption, FamilyRequestsAssumption
  <2>5. Apart(d, c)'
    BY <1>2, <1>6, <1>16, <2>3, <2>4
       DEF Apart, InsertsSession, Named, FreshSession, FreshCode, FreshToken, FreshFamily
  <2> QED
    BY <2>1, <2>5
<1>17. \A d \in Conns : d # c => Keeps(d)
  BY <1>2, <1>6, <1>8 DEF Keeps
<1> QED
  BY <1>2, <1>9, <1>10, <1>11, <1>13, <1>14, <1>15, <1>16, <1>17, QuietStep DEF ConnInv

-----------------------------------------------------------------------------
(* The statements of a call. *)

(* Where Advance goes. *)
LEMMA AdvanceIs ==
  ASSUME IInv, NEW c \in Conns, pc[c] \notin {"idle", "commit"}, Advance(c)
  PROVE  /\ pc' = [pc EXCEPT ![c] = After(req[c].op, pc[c])]
         /\ pc' \in [Conns -> Statements]
         /\ pc'[c] = After(req[c].op, pc[c])
         /\ \A d \in Conns : d # c => pc'[d] = pc[d]
         /\ req[c].op \in Ops /\ pc[c] \in Path(req[c].op)
         /\ pc'[c] \in Path(req[c].op) /\ pc'[c] \notin {"idle", "lockFamily"}
<1>1. pc' = [pc EXCEPT ![c] = After(req[c].op, pc[c])]
  BY DEF Advance, Goto
<1>2. pc[c] \in Path(req[c].op) /\ req[c].op \in Ops
  BY DEF IInv, ConnInv, CallOK, FamilyTypeOK, Requests, Ops
<1>3. After(req[c].op, pc[c]) \in Path(req[c].op) \ {"idle", "lockFamily"}
  BY <1>2, AfterIs
<1>4. After(req[c].op, pc[c]) \in Statements
  BY <1>2, <1>3, PathInStatements
<1> QED
  BY <1>1, <1>2, <1>3, <1>4 DEF IInv, FamilyTypeOK

LEMMA NextFamilyType ==
  ASSUME FamilyTypeOK, NEW c \in Conns, Asked(req[c]), req[c].op \in FamilyOps
  PROVE  NextFamily(c) \in Families
<1>1. family \in Families /\ family.version + 1 \in Nat
  BY DEF FamilyTypeOK, Families
<1>2. \A p \in Parents, status \in MembershipStatuses : WithParent(family, p, status) \in Families
  BY <1>1 DEF WithParent, Families
<1>3. \A child \in Children : WithChild(family, child) \in Families
  BY <1>1 DEF WithChild, Families
<1>4. Invited(family) \in Families
  BY <1>1 DEF Invited, Families
<1>5. req[c].op \in {"addChild", "inviteParent", "acceptInvitation", "revokeParent"}
  BY DEF FamilyOps
<1>6. "ACTIVE" \in MembershipStatuses /\ "REVOKED" \in MembershipStatuses
  BY DEF MembershipStatuses
<1>7. CASE req[c].op \in {"addChild", "inviteParent"}
  BY <1>3, <1>4, <1>7 DEF NextFamily, Asked
<1>8. CASE req[c].op \in {"acceptInvitation", "revokeParent"}
  BY <1>2, <1>6, <1>8 DEF NextFamily, Asked, FamilyOps
<1> QED
  BY <1>5, <1>7, <1>8

LEMMA LoadFamilyOK ==
  ASSUME IInv, NEW c \in Conns, LoadFamily(c)
  PROVE  IInv'
<1>1. /\ pc[c] = "lockFamily" /\ familyLock = None /\ familyShare \subseteq {c}
      /\ CommandAllowed(c) /\ familyLock' = c
      /\ tx' = [tx EXCEPT ![c].family = NextFamily(c)]
      /\ UNCHANGED <<family, token, session, code, familyShare, rowLock, req>>
      /\ Advance(c)
  BY DEF LoadFamily, FamilyLockFree, membershipVars, accessVars
<1>2. FamilyTypeOK /\ CallOK(c) /\ RowsOK(c) /\ FamilyOK(c) /\ FreshOK(c)
  BY DEF IInv, ConnInv
<1>3. /\ pc' \in [Conns -> Statements]
      /\ pc'[c] = After(req[c].op, "lockFamily")
      /\ pc'[c] \in Path(req[c].op)
      /\ pc'[c] \in {"scan", "commit"} /\ req[c].op \in FamilyOps
      /\ pc'[c] = "commit" => req[c].op # "revokeParent"
      /\ \A d \in Conns : d # c => pc'[d] = pc[d]
  BY <1>1, AdvanceIs, AfterIs
<1>4. NextFamily(c) \in Families
  BY <1>2, <1>3, NextFamilyType DEF CallOK
<1>5. tx[c] \in Transactions
  BY <1>2 DEF FamilyTypeOK
<1>6. tx'[c] = [tx[c] EXCEPT !.family = NextFamily(c)] /\ \A d \in Conns : d # c => tx'[d] = tx[d]
  BY <1>1, <1>2 DEF FamilyTypeOK
<1>7. /\ tx'[c] \in Transactions /\ tx'[c].family = NextFamily(c)
      /\ tx'[c].todo = tx[c].todo /\ tx'[c].hit = tx[c].hit
  BY <1>4, <1>5, <1>6 DEF Transactions
<1>8. tx' \in [Conns -> Transactions]
  BY <1>1, <1>2, <1>6, <1>7 DEF FamilyTypeOK
<1>9. ~SharesFamily(c) /\ ~SharesFamily(c)' /\ HoldsFamily(c)'
  BY <1>1, <1>3 DEF SharesFamily, HoldsFamily, FamilyOps
<1>10. familyShare = {}
  BY <1>1, <1>2, <1>9 DEF FamilyOK
<1>11. FamilyTypeOK'
  BY <1>1, <1>2, <1>3, <1>8, <1>10 DEF FamilyTypeOK
<1>12. req'[c] = req[c]
  BY <1>1
<1>13. CallOK(c)'
  BY <1>1, <1>2, <1>3, <1>7, <1>12 DEF CallOK
<1>14. RowsOK(c)'
  BY <1>1, <1>2, <1>7 DEF RowsOK, StillMatches
<1>15. CommandAllowed(c)' /\ NextFamily(c)' = NextFamily(c)
  BY <1>1 DEF CommandAllowed, NextFamily
<1>16. FamilyOK(c)'
  BY <1>1, <1>7, <1>9, <1>10, <1>15 DEF FamilyOK
<1>17. CutOK(c)' /\ FreshOK(c)'
  BY <1>1, <1>2, <1>3, <1>12 DEF CutOK, FreshOK, InsertsSession
<1>18. \A d \in Conns : d # c => Keeps(d)
  BY <1>1, <1>3, <1>6, FamilyRequestsAssumption DEF Keeps
<1> QED
  BY <1>1, <1>11, <1>13, <1>14, <1>16, <1>17, <1>18, SameApart, QuietStep DEF ConnInv

LEMMA CheckOK ==
  ASSUME IInv, NEW c \in Conns, Check(c)
  PROVE  IInv'
<1>1. /\ pc[c] \in {"member", "child"}
      /\ UNCHANGED <<family, token, session, code, familyLock, familyShare, rowLock, req, tx>>
      /\ Advance(c)
  BY DEF Check, CheckPasses, membershipVars, accessVars, lockVars
<1>2. FamilyTypeOK /\ CallOK(c) /\ RowsOK(c) /\ FamilyOK(c) /\ FreshOK(c)
  BY DEF IInv, ConnInv
<1>3. /\ pc' \in [Conns -> Statements]
      /\ pc'[c] \in Path(req[c].op) /\ req[c].op \in AccessOps
      /\ pc'[c] \in {"child", "scan", "insert"}
      /\ \A d \in Conns : d # c => pc'[d] = pc[d]
      /\ pc'[c] = "scan" => req[c].op = "issuePairingCode"
  BY <1>1, AdvanceIs, AfterIs
<1>4. FamilyTypeOK'
  BY <1>1, <1>2, <1>3 DEF FamilyTypeOK
<1>5. CallOK(c)'
  BY <1>1, <1>2, <1>3 DEF CallOK
<1>6. RowsOK(c)'
  BY <1>1, <1>2 DEF RowsOK, StillMatches
<1>7. ~HoldsFamily(c) /\ ~HoldsFamily(c)' /\ ~SharesFamily(c) /\ ~SharesFamily(c)'
  BY <1>1, <1>3 DEF HoldsFamily, SharesFamily, FamilyOps, AccessOps
<1>8. FamilyOK(c)'
  BY <1>1, <1>2, <1>7 DEF FamilyOK
<1>9. CutOK(c)' /\ FreshOK(c)'
  BY <1>1, <1>2, <1>3 DEF CutOK, FreshOK, InsertsSession
<1>10. \A d \in Conns : d # c => Keeps(d)
  BY <1>1, <1>3 DEF Keeps
<1> QED
  BY <1>1, <1>4, <1>5, <1>6, <1>8, <1>9, <1>10, SameApart, QuietStep DEF ConnInv

(* What an UPDATE picks are rows it may change. *)
LEMMA ScannedRows ==
  ASSUME NEW c \in Conns, req[c].op \in {"revokeParent", "issuePairingCode"}
  PROVE  Scanned(c) \subseteq RowsOf(req[c].op)
BY DEF Scanned, RowsOf, OpenSessions, OutstandingCodes

LEMMA ScanOK ==
  ASSUME IInv, NEW c \in Conns, Scan(c)
  PROVE  IInv'
<1>1. /\ pc[c] = "scan" /\ tx' = [tx EXCEPT ![c].todo = Scanned(c)]
      /\ UNCHANGED <<family, token, session, code, familyLock, familyShare, rowLock, req>>
      /\ Advance(c)
  BY DEF Scan, membershipVars, accessVars, lockVars
<1>2. FamilyTypeOK /\ CallOK(c) /\ RowsOK(c) /\ FamilyOK(c) /\ FreshOK(c)
  BY DEF IInv, ConnInv
<1>3. /\ pc' \in [Conns -> Statements]
      /\ pc'[c] = "update" /\ pc'[c] \in Path(req[c].op)
      /\ req[c].op \in {"revokeParent", "issuePairingCode"}
      /\ \A d \in Conns : d # c => pc'[d] = pc[d]
  BY <1>1, AdvanceIs, AfterIs
<1>4. Scanned(c) \subseteq RowsOf(req[c].op) /\ Scanned(c) \in SUBSET Rows
  BY <1>3, ScannedRows, RowsOfIs
<1>5. tx[c] \in Transactions
  BY <1>2 DEF FamilyTypeOK
<1>6. tx'[c] = [tx[c] EXCEPT !.todo = Scanned(c)] /\ \A d \in Conns : d # c => tx'[d] = tx[d]
  BY <1>1, <1>2 DEF FamilyTypeOK
<1>7. /\ tx'[c] \in Transactions /\ tx'[c].family = tx[c].family
      /\ tx'[c].todo = Scanned(c) /\ tx'[c].hit = tx[c].hit
  BY <1>4, <1>5, <1>6 DEF Transactions
<1>8. tx' \in [Conns -> Transactions]
  BY <1>1, <1>2, <1>6, <1>7 DEF FamilyTypeOK
<1>9. FamilyTypeOK'
  BY <1>1, <1>2, <1>3, <1>8 DEF FamilyTypeOK
<1>10. req'[c] = req[c] /\ tx[c].hit = {}
  BY <1>1, <1>2 DEF CallOK
<1>11. CallOK(c)'
  BY <1>2, <1>3, <1>4, <1>7, <1>10 DEF CallOK
<1>12. RowsOK(c)'
  BY <1>1, <1>2, <1>7, <1>10 DEF RowsOK
<1>13. (HoldsFamily(c)' <=> HoldsFamily(c)) /\ ~SharesFamily(c) /\ ~SharesFamily(c)'
  BY <1>1, <1>3 DEF HoldsFamily, SharesFamily
<1>14. (CommandAllowed(c)' <=> CommandAllowed(c)) /\ NextFamily(c)' = NextFamily(c)
  BY <1>1 DEF CommandAllowed, NextFamily
<1>15. FamilyOK(c)'
  BY <1>1, <1>2, <1>7, <1>13, <1>14 DEF FamilyOK
<1>16. CutOK(c)'
  <2>1. ASSUME req[c].op = "revokeParent", NEW s \in Sessions,
               session[s] = ParentSession(req[c].target, TRUE)
        PROVE  s \in Scanned(c)
    BY <2>1 DEF Scanned, OpenSessions, ParentSession
  <2> QED
    BY <1>1, <1>3, <1>7, <1>10, <2>1 DEF CutOK
<1>17. FreshOK(c)'
  BY <1>1, <1>2 DEF FreshOK, InsertsSession
<1>18. \A d \in Conns : d # c => Keeps(d)
  BY <1>1, <1>3, <1>6 DEF Keeps
<1> QED
  BY <1>1, <1>9, <1>11, <1>12, <1>15, <1>16, <1>17, <1>18, SameApart, QuietStep DEF ConnInv

LEMMA UpdateOK ==
  ASSUME IInv, NEW c \in Conns, UpdateRows(c)
  PROVE  IInv'
<1> DEFINE hits == Hits(c)
<1>1. /\ pc[c] = "update" /\ \A x \in tx[c].todo : rowLock[x] = None
      /\ rowLock' = [x \in Rows |-> IF x \in hits THEN c ELSE rowLock[x]]
      /\ tx' = [tx EXCEPT ![c].todo = {}, ![c].hit = hits]
      /\ UNCHANGED <<family, token, session, code, familyLock, familyShare, req>>
      /\ Advance(c)
  BY DEF UpdateRows, membershipVars, accessVars
<1>2. FamilyTypeOK /\ CallOK(c) /\ RowsOK(c) /\ FamilyOK(c) /\ CutOK(c) /\ FreshOK(c)
  BY DEF IInv, ConnInv
<1>3. hits \subseteq tx[c].todo /\ \A x \in hits : StillMatches(c, x)
  BY DEF Hits
<1>4. \A x \in tx[c].todo : StillMatches(c, x) => x \in hits
  BY DEF Hits
<1> HIDE DEF hits
<1>5. /\ pc' \in [Conns -> Statements] /\ pc'[c] \in Path(req[c].op)
      /\ pc'[c] \in {"member", "insert", "commit"}
      /\ pc'[c] = "member" => req[c].op = "redeemPairingCode"
      /\ pc'[c] = "commit" <=> req[c].op \in {"createFamily", "signOut", "revokeParent"}
      /\ \A d \in Conns : d # c => pc'[d] = pc[d]
  BY <1>1, AdvanceIs, AfterIs
<1>6. tx[c] \in Transactions
  BY <1>2 DEF FamilyTypeOK
<1>7. hits \in SUBSET Rows /\ hits \subseteq RowsOf(req[c].op)
  BY <1>2, <1>3, RowsOfIs DEF CallOK
<1>8. /\ tx'[c] = [tx[c] EXCEPT !.todo = {}, !.hit = hits]
      /\ \A d \in Conns : d # c => tx'[d] = tx[d]
  BY <1>1, <1>2 DEF FamilyTypeOK
<1>9. /\ tx'[c] \in Transactions /\ tx'[c].family = tx[c].family
      /\ tx'[c].todo = {} /\ tx'[c].hit = hits
  BY <1>6, <1>7, <1>8 DEF Transactions
<1>10. tx' \in [Conns -> Transactions] /\ rowLock' \in [Rows -> Conns \cup {None}]
  BY <1>1, <1>2, <1>8, <1>9 DEF FamilyTypeOK
<1>11. FamilyTypeOK'
  BY <1>1, <1>2, <1>5, <1>10 DEF FamilyTypeOK
<1>12. req'[c] = req[c] /\ tx[c].hit = {}
  BY <1>1, <1>2 DEF CallOK
<1>13. CallOK(c)'
  BY <1>2, <1>5, <1>7, <1>9, <1>12 DEF CallOK
<1>14. RowsOK(c)'
  <2>1. \A x \in Rows : rowLock'[x] = c <=> x \in hits
    BY <1>1, <1>2, <1>12 DEF RowsOK
  <2>2. \A x \in hits : StillMatches(c, x)'
    BY <1>1, <1>3 DEF StillMatches
  <2> QED
    BY <1>9, <2>1, <2>2 DEF RowsOK
<1>15. (HoldsFamily(c)' <=> HoldsFamily(c)) /\ ~SharesFamily(c) /\ ~SharesFamily(c)'
  <2>1. req[c].op \in FamilyOps => req[c].op = "revokeParent"
    BY <1>1, <1>2, PathIs DEF CallOK, FamilyOps
  <2> QED
    BY <1>1, <1>5, <2>1 DEF HoldsFamily, SharesFamily, FamilyOps
<1>16. (CommandAllowed(c)' <=> CommandAllowed(c)) /\ NextFamily(c)' = NextFamily(c)
  BY <1>1 DEF CommandAllowed, NextFamily
<1>17. FamilyOK(c)'
  BY <1>1, <1>2, <1>9, <1>15, <1>16 DEF FamilyOK
<1>18. CutOK(c)'
  <2>1. ASSUME req[c].op = "revokeParent", NEW s \in Sessions,
               session[s] = ParentSession(req[c].target, TRUE)
        PROVE  s \in hits
    <3>1. s \in tx[c].todo
      BY <1>1, <1>2, <2>1 DEF CutOK
    <3>2. session[s].status = "LIVE" /\ s \notin Codes
      BY <2>1, FamilyRequestsAssumption DEF ParentSession
    <3>3. StillMatches(c, s)
      BY <2>1, <3>2 DEF StillMatches
    <3> QED
      BY <1>4, <3>1, <3>3
  <2> QED
    BY <1>1, <1>5, <1>9, <1>12, <2>1 DEF CutOK
<1>19. FreshOK(c)'
  BY <1>1, <1>2 DEF FreshOK, InsertsSession
<1>20. \A d \in Conns : d # c => Keeps(d)
  <2>1. ASSUME NEW d \in Conns, d # c, NEW x \in Rows
        PROVE  rowLock'[x] = d <=> rowLock[x] = d
    BY <1>1, <1>3, <2>1, FamilyRequestsAssumption
  <2> QED
    BY <1>1, <1>5, <1>8, <2>1 DEF Keeps
<1> QED
  BY <1>1, <1>11, <1>13, <1>14, <1>17, <1>18, <1>19, <1>20, SameApart, QuietStep DEF ConnInv

LEMMA InsertOK ==
  ASSUME IInv, NEW c \in Conns, Insert(c)
  PROVE  IInv'
<1>1. /\ pc[c] = "insert"
      /\ IsScoped(c) => familyLock = None
      /\ familyShare' = IF IsScoped(c) THEN familyShare \cup {c} ELSE familyShare
      /\ UNCHANGED <<family, token, session, code, familyLock, rowLock, req, tx>>
      /\ Advance(c)
  BY DEF Insert, membershipVars, accessVars
<1>2. FamilyTypeOK /\ CallOK(c) /\ RowsOK(c) /\ FamilyOK(c) /\ FreshOK(c)
  BY DEF IInv, ConnInv
<1>3. /\ pc' \in [Conns -> Statements] /\ pc'[c] \in Path(req[c].op)
      /\ pc'[c] = "commit"
      /\ req[c].op \in {"signIn", "provisionChildSession", "issuePairingCode", "redeemPairingCode"}
      /\ \A d \in Conns : d # c => pc'[d] = pc[d]
  BY <1>1, AdvanceIs, AfterIs
<1>4. FamilyTypeOK'
  BY <1>1, <1>2, <1>3 DEF FamilyTypeOK
<1>5. CallOK(c)'
  BY <1>1, <1>2, <1>3 DEF CallOK
<1>6. RowsOK(c)'
  BY <1>1, <1>2 DEF RowsOK, StillMatches
<1>7. ~HoldsFamily(c) /\ ~HoldsFamily(c)' /\ ~SharesFamily(c) /\ (SharesFamily(c)' <=> IsScoped(c))
  BY <1>1, <1>3 DEF HoldsFamily, SharesFamily, FamilyOps, IsScoped
<1>8. FamilyOK(c)'
  BY <1>1, <1>2, <1>7 DEF FamilyOK
<1>9. CutOK(c)' /\ FreshOK(c)'
  BY <1>1, <1>2, <1>3 DEF CutOK, FreshOK, InsertsSession
<1>10. \A d \in Conns : d # c => Keeps(d)
  BY <1>1, <1>3 DEF Keeps
<1> QED
  BY <1>1, <1>4, <1>5, <1>6, <1>8, <1>9, <1>10, SameApart, QuietStep DEF ConnInv

-----------------------------------------------------------------------------
(* COMMIT and ROLLBACK. *)

LEMMA NoTransactionIs ==
  NoTransaction \in Transactions /\ NoTransaction.todo = {} /\ NoTransaction.hit = {}
BY DEF NoTransaction, Transactions, NoFamily, Families, MembershipStatuses

LEMMA EndIs ==
  ASSUME IInv, NEW c \in Conns, End(c)
  PROVE  /\ pc' \in [Conns -> Statements] /\ req' \in [Conns -> Requests]
         /\ tx' \in [Conns -> Transactions]
         /\ familyLock' \in Conns \cup {None} /\ familyShare' \subseteq Conns
         /\ familyLock' # None => familyShare' = {}
         /\ rowLock' \in [Rows -> Conns \cup {None}]
         /\ pc'[c] = "idle" /\ req'[c] = NoRequest /\ tx'[c] = NoTransaction
         /\ familyLock' # c /\ c \notin familyShare' /\ \A x \in Rows : rowLock'[x] # c
         /\ \A d \in Conns : d # c => Keeps(d)
         /\ \A d \in Conns : d # c => Apart(c, d)' /\ Apart(d, c)'
<1>1. /\ pc' = [pc EXCEPT ![c] = "idle"]
      /\ familyLock' = IF familyLock = c THEN None ELSE familyLock
      /\ familyShare' = familyShare \ {c}
      /\ rowLock' = [x \in Rows |-> IF rowLock[x] = c THEN None ELSE rowLock[x]]
      /\ req' = [req EXCEPT ![c] = NoRequest]
      /\ tx' = [tx EXCEPT ![c] = NoTransaction]
  BY DEF End, Goto
<1>2. FamilyTypeOK
  BY DEF IInv
<1>3. None \notin Conns
  BY FamilyRequestsAssumption
<1>4. /\ pc' \in [Conns -> Statements] /\ req' \in [Conns -> Requests]
      /\ tx' \in [Conns -> Transactions]
      /\ rowLock' \in [Rows -> Conns \cup {None}]
  BY <1>1, <1>2, NoTransactionIs, NoRequestIs DEF FamilyTypeOK, Statements
<1>5. /\ pc'[c] = "idle" /\ req'[c] = NoRequest /\ tx'[c] = NoTransaction
      /\ \A d \in Conns : d # c => pc'[d] = pc[d] /\ req'[d] = req[d] /\ tx'[d] = tx[d]
  BY <1>1, <1>2 DEF FamilyTypeOK
<1>6. \A d \in Conns : d # c => Keeps(d)
  BY <1>1, <1>3, <1>5 DEF Keeps
<1>7. ASSUME NEW d \in Conns, d # c
      PROVE  Apart(c, d)' /\ Apart(d, c)'
  <2>1. Apart(c, d)'
    BY <1>5, NoRequestIs DEF Apart, InsertsSession
  <2>2. Asked(req[d]) /\ req'[d] = req[d]
    BY <1>5, <1>7 DEF IInv, ConnInv, CallOK
  <2>3. None \notin Sessions /\ None \notin Codes /\ None \notin Tokens
    BY FamilyMembershipAssumption, FamilyRequestsAssumption
  <2>4. Apart(d, c)'
    BY <1>5, <2>2, <2>3, NoRequestIs DEF Apart, InsertsSession, Asked
  <2> QED
    BY <2>1, <2>4
<1> QED
  BY <1>1, <1>2, <1>3, <1>4, <1>5, <1>6, <1>7 DEF FamilyTypeOK

LEMMA EndedOK ==
  ASSUME IInv, NEW c \in Conns, End(c)
  PROVE  ConnInv(c)'
<1>1. CallOK(c)'
  BY EndIs, NoRequestIs, NoTransactionIs, PathIs DEF CallOK, Asked, FamilyOps
<1>2. RowsOK(c)'
  BY EndIs, NoTransactionIs DEF RowsOK
<1>3. FamilyOK(c)'
  BY EndIs, NoRequestIs DEF FamilyOK, HoldsFamily, SharesFamily
<1>4. CutOK(c)' /\ FreshOK(c)'
  BY EndIs, NoRequestIs DEF CutOK, FreshOK, InsertsSession
<1> QED
  BY <1>1, <1>2, <1>3, <1>4 DEF ConnInv

LEMMA RollbackOK ==
  ASSUME IInv, NEW c \in Conns, Rollback(c)
  PROVE  IInv'
<1>1. End(c) /\ UNCHANGED <<family, token, session, code>>
  BY DEF Rollback, membershipVars, accessVars
<1>2. FamilyTypeOK'
  BY <1>1, EndIs DEF IInv, FamilyTypeOK
<1> QED
  BY <1>1, <1>2, EndIs, EndedOK, QuietStep

(* Nobody commands a family that is not there. *)
LEMMA CommandNeedsFamily ==
  ASSUME IInv, NEW c \in Conns, req[c].op \in FamilyOps, CommandAllowed(c)
  PROVE  family.version # 0
<1>1. SUFFICES ASSUME family.version = 0 PROVE FALSE
  OBVIOUS
<1>2. Asked(req[c]) /\ NobodyYet
  BY DEF IInv, ConnInv, CallOK
<1>3. /\ \A p \in Parents : family.parents[p] = "NONE"
      /\ \A t \in Tokens : token[t].status = "ABSENT"
  BY <1>1, <1>2 DEF NobodyYet, NoToken
<1>4. CASE req[c].op = "acceptInvitation"
  BY <1>2, <1>3, <1>4 DEF CommandAllowed, AcceptInvitationAllowed, Asked
<1>5. CASE req[c].op \in {"addChild", "inviteParent", "revokeParent"}
  BY <1>2, <1>3, <1>5
     DEF CommandAllowed, AddChildAllowed, InviteParentAllowed, RevokeParentAllowed, Asked,
         FamilyOps
<1> QED
  BY <1>4, <1>5 DEF FamilyOps

(* What a commit does to the membership. *)
LEMMA CommitMembership ==
  ASSUME IInv, NEW c \in Conns, Commit(c)
  PROVE  \/ /\ req[c].op = "createFamily" /\ family.version = 0
            /\ family' = NewFamily /\ token' = token
         \/ /\ req[c].op \in FamilyOps /\ familyLock = c /\ CommandAllowed(c)
            /\ family.version # 0
            /\ family' = NextFamily(c)
            /\ req[c].op = "inviteParent" =>
                 /\ token[req[c].token] = NoToken
                 /\ token' = [token EXCEPT ![req[c].token] = Pending(req[c].target)]
            /\ req[c].op = "acceptInvitation" =>
                 token' = [token EXCEPT ![req[c].token] = Accepted(@)]
            /\ req[c].op \in {"addChild", "revokeParent"} => token' = token
         \/ req[c].op \in AccessOps /\ family' = family /\ token' = token
<1>1. pc[c] = "commit" /\ FreshOK(c) /\ FamilyOK(c) /\ CallOK(c)
  BY DEF Commit, IInv, ConnInv
<1>2. req[c].op \in FamilyOps \cup AccessOps \cup {"createFamily"}
  BY <1>1, PathIs DEF CallOK, IInv, FamilyTypeOK, Requests
<1>3. CASE req[c].op = "createFamily"
  BY <1>1, <1>3 DEF Commit, FreshOK, FamilyOps
<1>4. CASE req[c].op \in FamilyOps
  <2>1. familyLock = c /\ CommandAllowed(c) /\ tx[c].family = NextFamily(c)
    BY <1>1, <1>4 DEF FamilyOK, HoldsFamily
  <2>2. family.version # 0
    BY <1>4, <2>1, CommandNeedsFamily
  <2>3. family' = NextFamily(c)
    BY <1>4, <2>1 DEF Commit, FamilyOps
  <2> QED
    BY <1>1, <1>4, <2>1, <2>2, <2>3 DEF Commit, FreshOK, FamilyOps
<1>5. CASE req[c].op \in AccessOps
  BY <1>5 DEF Commit, FamilyOps, AccessOps
<1> QED
  BY <1>2, <1>3, <1>4, <1>5

(* What a commit does to the sessions and codes. *)
LEMMA CommitAccess ==
  ASSUME IInv, NEW c \in Conns, Commit(c)
  PROVE  /\ \A s \in Sessions :
              \/ s \in tx[c].hit /\ session'[s] = UpdatedSession(c, session[s])
              \/ /\ InsertsSession(c) /\ s = req[c].session
                 /\ session'[s] = InsertedSession(c)
              \/ session'[s] = session[s]
         /\ \A k \in Codes :
              \/ /\ k \in tx[c].hit
                 /\ \E s \in Sessions \cup {None} :
                      code'[k] = [code[k] EXCEPT !.status = "REDEEMED", !.session = s]
              \/ /\ req[c].op = "issuePairingCode" /\ k = req[c].code
                 /\ code'[k] = NewCode(req[c].child, req[c].actor)
              \/ code'[k] = code[k]
         /\ session' = [s \in Sessions |-> session'[s]]
         /\ code' = [k \in Codes |-> code'[k]]
<1>1. req[c].session \in Sessions \cup {None}
  BY DEF IInv, FamilyTypeOK, Requests
<1>2. session' = [s \in Sessions |->
                    IF s \in tx[c].hit THEN UpdatedSession(c, session[s])
                    ELSE IF InsertsSession(c) /\ s = req[c].session THEN InsertedSession(c)
                    ELSE session[s]]
  BY DEF Commit
<1>3. code' = [k \in Codes |->
                 IF k \in tx[c].hit
                   THEN [code[k] EXCEPT !.status = "REDEEMED",
                                        !.session = IF req[c].op = "redeemPairingCode"
                                                      THEN req[c].session ELSE None]
                 ELSE IF req[c].op = "issuePairingCode" /\ k = req[c].code
                   THEN NewCode(req[c].child, req[c].actor)
                 ELSE code[k]]
  BY DEF Commit
<1>4. ASSUME NEW k \in Codes, k \in tx[c].hit
      PROVE  \E s \in Sessions \cup {None} :
               code'[k] = [code[k] EXCEPT !.status = "REDEEMED", !.session = s]
  BY <1>1, <1>3, <1>4
<1>5. ASSUME NEW k \in Codes, k \notin tx[c].hit
      PROVE  \/ /\ req[c].op = "issuePairingCode" /\ k = req[c].code
                /\ code'[k] = NewCode(req[c].child, req[c].actor)
             \/ code'[k] = code[k]
  BY <1>3, <1>5
<1> QED
  BY <1>2, <1>3, <1>4, <1>5

LEMMA CommitKeepsTypes ==
  ASSUME IInv, NEW c \in Conns, Commit(c)
  PROVE  FamilyTypeOK' /\ NobodyYet'
<1>1. FamilyTypeOK /\ Asked(req[c]) /\ req[c] \in Requests /\ End(c) /\ tx[c] \in Transactions
  BY DEF IInv, ConnInv, CallOK, FamilyTypeOK, Commit
<1>2. NewFamily \in Families /\ NewFamily.version = 1
  <2>1. NoFamily \in Families
    BY DEF NoFamily, Families, MembershipStatuses
  <2> QED
    BY <2>1, FamilyMembershipAssumption DEF NewFamily, NoFamily, Families, MembershipStatuses
<1>3. family' \in Families /\ (family' = family \/ family'.version # 0)
  <2>1. req[c].op \in FamilyOps => NextFamily(c) \in Families
    BY <1>1, NextFamilyType
  <2>2. req[c].op \in FamilyOps => NextFamily(c).version = family.version + 1
    <3>1. family \in Families
      BY <1>1 DEF FamilyTypeOK
    <3>2. /\ \A child : WithChild(family, child).version = family.version + 1
          /\ \A p, status : WithParent(family, p, status).version = family.version + 1
          /\ Invited(family).version = family.version + 1
      BY <3>1 DEF WithChild, WithParent, Invited, Families
    <3> QED
      BY <3>2 DEF NextFamily, FamilyOps
  <2>3. family.version \in Nat /\ family \in Families
    BY <1>1 DEF FamilyTypeOK, Families
  <2> QED
    BY <1>2, <2>1, <2>2, <2>3, CommitMembership
<1>4. token' \in [Tokens -> InvitationTokens]
  <2>1. \A p \in Parents : Pending(p) \in InvitationTokens
    BY DEF Pending, InvitationTokens
  <2>2. \A row \in InvitationTokens : Accepted(row) \in InvitationTokens
    BY DEF Accepted, InvitationTokens
  <2>3. token \in [Tokens -> InvitationTokens]
    BY <1>1 DEF FamilyTypeOK
  <2>4. CASE req[c].op = "inviteParent"
    BY <1>1, <2>1, <2>3, <2>4, CommitMembership DEF AccessOps, Asked
  <2>5. CASE req[c].op = "acceptInvitation"
    BY <1>1, <2>2, <2>3, <2>5, CommitMembership DEF AccessOps, Asked
  <2>6. CASE req[c].op \notin {"inviteParent", "acceptInvitation"}
    BY <2>3, <2>6, CommitMembership DEF FamilyOps
  <2> QED
    BY <2>4, <2>5, <2>6
<1>5. session' \in [Sessions -> SessionRows]
  <2>1. ASSUME NEW row \in SessionRows
        PROVE  UpdatedSession(c, row) \in SessionRows
    BY DEF UpdatedSession, SessionRows
  <2>2. InsertsSession(c) => InsertedSession(c) \in SessionRows
    <3>1. InsertsSession(c) => Child(c) \in Children \cup {None}
      BY <1>1 DEF InsertsSession, Child, Asked, FamilyTypeOK, CodeRows, Requests
    <3>2. req[c].op = "signIn" => req[c].actor \in Parents /\ req[c].scoped \in BOOLEAN
      BY <1>1 DEF Asked, Requests
    <3> QED
      BY <3>1, <3>2 DEF InsertedSession, ParentSession, ChildSession, SessionRows
  <2>3. \A s \in Sessions : session[s] \in SessionRows
    BY <1>1 DEF FamilyTypeOK
  <2>4. \A s \in Sessions : session'[s] \in SessionRows
    BY <2>1, <2>2, <2>3, CommitAccess
  <2> QED
    BY <2>4, CommitAccess
<1>6. code' \in [Codes -> CodeRows]
  <2>1. \A row \in CodeRows, s \in Sessions \cup {None} :
          [row EXCEPT !.status = "REDEEMED", !.session = s] \in CodeRows
    BY DEF CodeRows
  <2>2. req[c].op = "issuePairingCode" => NewCode(req[c].child, req[c].actor) \in CodeRows
    BY <1>1 DEF Asked, NewCode, CodeRows
  <2>3. \A k \in Codes : code[k] \in CodeRows
    BY <1>1 DEF FamilyTypeOK
  <2>4. \A k \in Codes : code'[k] \in CodeRows
    BY <2>1, <2>2, <2>3, CommitAccess
  <2> QED
    BY <2>4, CommitAccess
<1>7. FamilyTypeOK'
  BY <1>1, <1>3, <1>4, <1>5, <1>6, EndIs DEF FamilyTypeOK
<1>8. NobodyYet'
  <2>1. CASE req[c].op \in AccessOps
    BY <2>1, CommitMembership DEF IInv, NobodyYet, FamilyOps, AccessOps
  <2>2. CASE req[c].op \notin AccessOps
    <3>1. family'.version # 0
      BY <1>3, <2>2, CommitMembership, <1>2
    <3> QED
      BY <3>1 DEF NobodyYet
  <2> QED
    BY <2>1, <2>2
<1> QED
  BY <1>7, <1>8

(* A row that another call has changed, or an id that it is to insert, is    *)
(* not touched by a commit.                                                  *)
LEMMA CommitKeepsRows ==
  ASSUME IInv, NEW c \in Conns, Commit(c), NEW d \in Conns, d # c
  PROVE  /\ \A s \in Sessions : s \in tx[d].hit => session'[s] = session[s]
         /\ \A k \in Codes : k \in tx[d].hit => code'[k] = code[k]
         /\ \A s \in Sessions : session[s] = NoSession /\ (InsertsSession(c) => s # req[c].session)
              => session'[s] = session[s]
         /\ \A k \in Codes :
              code[k] = NoCode /\ (req[c].op = "issuePairingCode" => k # req[c].code)
              => code'[k] = code[k]
<1>1. RowsOK(c) /\ RowsOK(d) /\ FreshOK(c)
  BY DEF IInv, ConnInv
<1>2. \A x \in Rows : x \in tx[d].hit => x \notin tx[c].hit
  BY <1>1 DEF RowsOK
<1>3. \A s \in Sessions : s \in tx[c].hit \cup tx[d].hit => session[s] # NoSession
  <2>1. \A s \in Sessions : s \notin Codes
    BY FamilyRequestsAssumption
  <2> QED
    BY <1>1, <2>1 DEF RowsOK, StillMatches, NoSession
<1>4. \A k \in Codes : k \in tx[c].hit \cup tx[d].hit => code[k] # NoCode
  BY <1>1 DEF RowsOK, StillMatches, NoCode
<1>5. /\ InsertsSession(c) => session[req[c].session] = NoSession
      /\ req[c].op = "issuePairingCode" => code[req[c].code] = NoCode
  BY <1>1 DEF FreshOK
<1>6. \A s \in Sessions : s \in Rows
  BY DEF Rows
<1>7. \A k \in Codes : k \in Rows
  BY DEF Rows
<1> QED
  BY <1>2, <1>3, <1>4, <1>5, <1>6, <1>7, CommitAccess

(* While a revocation holds the family nobody else's commit opens a session  *)
(* of it.                                                                    *)
LEMMA CommitOpensNone ==
  ASSUME IInv, NEW c \in Conns, Commit(c), NEW d \in Conns, d # c, HoldsFamily(d),
         NEW p \in Parents, NEW s \in Sessions, session'[s] = ParentSession(p, TRUE)
  PROVE  session[s] = session'[s]
<1>1. FamilyOK(c) /\ FamilyOK(d) /\ FamilyTypeOK /\ pc[c] = "commit"
  BY DEF IInv, ConnInv, Commit
<1>2. familyShare = {} /\ CommandAllowed(d)
  BY <1>1, FamilyRequestsAssumption DEF FamilyOK, FamilyTypeOK
<1>3. family.version # 0
  BY <1>2, CommandNeedsFamily DEF HoldsFamily
<1>4. CASE session'[s] = UpdatedSession(c, session[s])
  <2>1. req[c].op # "createFamily"
    BY <1>3 DEF IInv, ConnInv, FreshOK
  <2>2. session[s] \in SessionRows
    BY <1>1 DEF FamilyTypeOK
  <2>3. session'[s].status = "REVOKED"
    BY <1>4, <2>1, <2>2 DEF UpdatedSession, SessionRows
  <2> QED
    BY <2>3 DEF ParentSession
<1>5. CASE InsertsSession(c) /\ session'[s] = InsertedSession(c)
  <2>1. CASE req[c].op = "signIn"
    <3>1. ParentSession(req[c].actor, req[c].scoped) = ParentSession(p, TRUE)
      BY <1>5, <2>1 DEF InsertedSession
    <3>2. IsScoped(c)
      BY <3>1 DEF ParentSession, IsScoped
    <3>3. c \in familyShare
      BY <1>1, <2>1, <3>2 DEF FamilyOK, SharesFamily
    <3> QED
      BY <1>2, <3>3
  <2>2. CASE req[c].op # "signIn"
    BY <1>5, <2>2 DEF InsertedSession, ChildSession, ParentSession
  <2> QED
    BY <2>1, <2>2
<1> QED
  BY <1>4, <1>5, CommitAccess

LEMMA CommitKeepsOthers ==
  ASSUME IInv, NEW c \in Conns, Commit(c), NEW d \in Conns, d # c
  PROVE  ConnInv(d)'
<1>1. Keeps(d) /\ ConnInv(d) /\ FamilyTypeOK
  BY EndIs DEF Commit, IInv
<1>2. CallOK(d)'
  BY <1>1, KeepsCallOK DEF ConnInv
<1>3. RowsOK(d)'
  <2>1. ASSUME NEW x \in tx[d].hit
        PROVE  StillMatches(d, x)'
    <3>1. StillMatches(d, x) /\ x \in Rows
      BY <1>1 DEF ConnInv, RowsOK, FamilyTypeOK, Transactions
    <3>2. CASE x \in Codes
      BY <1>1, <3>1, <3>2, CommitKeepsRows DEF StillMatches
    <3>3. CASE x \in Sessions /\ x \notin Codes
      BY <1>1, <3>1, <3>3, CommitKeepsRows DEF StillMatches, Keeps
    <3> QED
      BY <3>1, <3>2, <3>3 DEF Rows
  <2> QED
    BY <1>1, <2>1 DEF ConnInv, RowsOK, Keeps
<1>4. HoldsFamily(d) => family.version # 0 /\ familyLock = d /\ family' = family /\ token' = token
  <2>1. SUFFICES ASSUME HoldsFamily(d)
                 PROVE  family.version # 0 /\ familyLock = d /\ family' = family /\ token' = token
    OBVIOUS
  <2>2. familyLock = d /\ CommandAllowed(d)
    BY <1>1, <2>1 DEF ConnInv, FamilyOK
  <2>3. family.version # 0
    BY <2>1, <2>2, CommandNeedsFamily DEF HoldsFamily
  <2> QED
    BY <2>2, <2>3, CommitMembership
<1>5. FamilyOK(d)'
  <2>1. (HoldsFamily(d)' <=> HoldsFamily(d)) /\ (SharesFamily(d)' <=> SharesFamily(d))
    BY <1>1 DEF HoldsFamily, SharesFamily, Keeps, IsScoped
  <2>2. HoldsFamily(d) =>
          (CommandAllowed(d)' <=> CommandAllowed(d)) /\ NextFamily(d)' = NextFamily(d)
    BY <1>1, <1>4 DEF CommandAllowed, NextFamily, Keeps
  <2> QED
    BY <1>1, <2>1, <2>2 DEF ConnInv, FamilyOK, Keeps
<1>6. CutOK(d)'
  <2>1. ASSUME req[d].op = "revokeParent", pc[d] \in {"update", "commit"}, NEW s \in Sessions,
               session'[s] = ParentSession(req[d].target, TRUE)
        PROVE  session[s] = ParentSession(req[d].target, TRUE)
    <3>1. HoldsFamily(d) /\ req[d].target \in Parents
      BY <1>1, <2>1 DEF HoldsFamily, FamilyOps, ConnInv, CallOK, Asked
    <3> QED
      BY <2>1, <3>1, CommitOpensNone
  <2> QED
    BY <1>1, <2>1 DEF ConnInv, CutOK, Keeps
<1>7. FreshOK(d)'
  <2>1. Apart(c, d) /\ Apart(d, c) /\ FreshOK(d) /\ Asked(req[d]) /\ FreshOK(c)
    BY DEF IInv, ConnInv, CallOK
  <2>2. InsertsSession(d) => session'[req[d].session] = NoSession
    <3>1. InsertsSession(d) => /\ req[d].session \in Sessions
                               /\ session[req[d].session] = NoSession
                               /\ InsertsSession(c) => req[d].session # req[c].session
      BY <2>1 DEF Asked, FreshOK, Apart, InsertsSession
    <3> QED
      BY <3>1, CommitKeepsRows
  <2>3. req[d].op = "issuePairingCode" => code'[req[d].code] = NoCode
    <3>1. req[d].op = "issuePairingCode" =>
            /\ req[d].code \in Codes /\ code[req[d].code] = NoCode
            /\ req[c].op = "issuePairingCode" => req[d].code # req[c].code
      BY <2>1 DEF Asked, FreshOK, Apart
    <3> QED
      BY <3>1, CommitKeepsRows
  <2>4. req[d].op = "inviteParent" => token'[req[d].token] = NoToken
    <3>1. req[d].op = "inviteParent" =>
            /\ req[d].token \in Tokens /\ token[req[d].token] = NoToken
            /\ req[c].token # req[d].token
      BY <2>1 DEF Asked, FreshOK, Apart
    <3>2. req[d].op = "inviteParent" => token'[req[d].token] = token[req[d].token]
      <4>1. token \in [Tokens -> InvitationTokens]
        BY <1>1 DEF FamilyTypeOK
      <4>2. \/ token' = token
            \/ \E row : token' = [token EXCEPT ![req[c].token] = row]
        BY CommitMembership DEF FamilyOps
      <4> QED
        BY <3>1, <4>1, <4>2
    <3> QED
      BY <3>1, <3>2
  <2>5. req[d].op = "createFamily" => family'.version = 0
    BY <2>1, CommitMembership DEF Apart, FreshOK
  <2> QED
    BY <1>1, <2>2, <2>3, <2>4, <2>5 DEF FreshOK, Keeps, InsertsSession
<1> QED
  BY <1>2, <1>3, <1>5, <1>6, <1>7 DEF ConnInv

LEMMA CommitOK ==
  ASSUME IInv, NEW c \in Conns, Commit(c)
  PROVE  IInv'
<1>1. End(c)
  BY DEF Commit
<1>2. \A d \in Conns : ConnInv(d)'
  BY <1>1, EndedOK, CommitKeepsOthers
<1>3. ASSUME NEW d \in Conns, NEW e \in Conns, d # e
      PROVE  Apart(d, e)'
  <2>1. CASE d # c /\ e # c
    <3>1. req'[d] = req[d] /\ req'[e] = req[e]
      BY <1>1, <2>1, EndIs DEF Keeps
    <3> QED
      BY <1>3, <3>1 DEF IInv, Apart, InsertsSession
  <2> QED
    BY <1>1, <1>3, <2>1, EndIs
<1> QED
  BY <1>2, <1>3, CommitKeepsTypes DEF IInv

-----------------------------------------------------------------------------
(* The invariant holds. *)

LEMMA InitOK ==
  ASSUME RequestsInit
  PROVE  IInv
<1>1. /\ family = NoFamily /\ token = [t \in Tokens |-> NoToken]
      /\ session = [s \in Sessions |-> NoSession] /\ code = [k \in Codes |-> NoCode]
      /\ familyLock = None /\ familyShare = {} /\ rowLock = [x \in Rows |-> None]
      /\ pc = [c \in Conns |-> "idle"] /\ req = [c \in Conns |-> NoRequest]
      /\ tx = [c \in Conns |-> NoTransaction]
  BY DEF RequestsInit, Init
<1>2. /\ NoFamily \in Families /\ \A p \in Parents : NoFamily.parents[p] = "NONE"
      /\ NoToken \in InvitationTokens /\ NoSession \in SessionRows /\ NoCode \in CodeRows
  BY DEF NoFamily, Families, MembershipStatuses, NoToken, InvitationTokens, NoSession,
         SessionRows, NoCode, CodeRows
<1>3. FamilyTypeOK
  BY <1>1, <1>2, NoTransactionIs, NoRequestIs DEF FamilyTypeOK, Statements
<1>4. NobodyYet
  BY <1>1, <1>2 DEF NobodyYet
<1>5. ASSUME NEW c \in Conns
      PROVE  ConnInv(c)
  <2>1. pc[c] = "idle" /\ req[c] = NoRequest /\ tx[c] = NoTransaction
    BY <1>1
  <2>2. CallOK(c)
    BY <2>1, NoRequestIs, NoTransactionIs, PathIs DEF CallOK, Asked, FamilyOps
  <2>3. RowsOK(c)
    BY <1>1, <2>1, NoTransactionIs, FamilyRequestsAssumption DEF RowsOK
  <2>4. FamilyOK(c) /\ CutOK(c) /\ FreshOK(c)
    BY <1>1, <2>1, NoRequestIs, FamilyRequestsAssumption
       DEF FamilyOK, HoldsFamily, SharesFamily, CutOK, FreshOK, InsertsSession
  <2> QED
    BY <2>2, <2>3, <2>4 DEF ConnInv
<1>6. \A c, d \in Conns : c # d => Apart(c, d)
  BY <1>1, NoRequestIs DEF Apart, InsertsSession
<1> QED
  BY <1>3, <1>4, <1>5, <1>6 DEF IInv

LEMMA StutterOK ==
  ASSUME IInv, UNCHANGED vars
  PROVE  IInv'
<1>1. UNCHANGED <<family, token, session, code, familyLock, familyShare, rowLock, pc, req, tx>>
  BY DEF vars
<1>2. FamilyTypeOK' /\ NobodyYet'
  BY <1>1 DEF IInv, FamilyTypeOK, NobodyYet
<1>3. \A d \in Conns : ConnInv(d)'
  BY <1>1, KeepsConnInv DEF IInv, Keeps
<1>4. \A c \in Conns, d \in Conns : c # d => Apart(c, d)'
  BY <1>1 DEF IInv, Apart, InsertsSession
<1> QED
  BY <1>2, <1>3, <1>4 DEF IInv

LEMMA StepOK ==
  ASSUME IInv, [RequestsNext]_vars
  PROVE  IInv'
<1>1. ASSUME NEW c \in Conns, Arrive(c) \/ Handle(c) \/ Crash(c)
      PROVE  IInv'
  <2>1. CASE Arrive(c)
    BY <2>1, ArriveOK
  <2>2. CASE LoadFamily(c)
    BY <2>2, LoadFamilyOK
  <2>3. CASE Check(c)
    BY <2>3, CheckOK
  <2>4. CASE Scan(c)
    BY <2>4, ScanOK
  <2>5. CASE UpdateRows(c)
    BY <2>5, UpdateOK
  <2>6. CASE Insert(c)
    BY <2>6, InsertOK
  <2>7. CASE Commit(c)
    BY <2>7, CommitOK
  <2>8. CASE RefuseCommand(c) \/ RefuseCheck(c) \/ RefuseRedeem(c) \/ Crash(c)
    BY <2>8, RollbackOK DEF RefuseCommand, RefuseCheck, RefuseRedeem, Crash
  <2> QED
    BY <1>1, <2>1, <2>2, <2>3, <2>4, <2>5, <2>6, <2>7, <2>8 DEF Handle
<1> QED
  BY <1>1, StutterOK DEF RequestsNext

(* The inductive invariant holds in every reachable state.                   *)
THEOREM Invariance == RequestsSpec => []IInv
BY InitOK, StepOK, PTL DEF RequestsSpec

(* Every variable keeps its type, and nobody shares a family's row that is   *)
(* locked.                                                                   *)
THEOREM TypeCorrect == RequestsSpec => []FamilyTypeOK
<1>1. IInv => FamilyTypeOK
  BY DEF IInv
<1> QED
  BY <1>1, Invariance, PTL

-----------------------------------------------------------------------------
(* Steps. *)

(* Only a commit changes what is committed.                                  *)
LEMMA OnlyCommitsWrite ==
  ASSUME [RequestsNext]_vars, ~ \E c \in Conns : Commit(c)
  PROVE  UNCHANGED <<family, token, session, code>>
<1>1. ASSUME NEW c \in Conns, Arrive(c)
      PROVE  UNCHANGED <<family, token, session, code>>
  BY <1>1, ArriveIs DEF Arrives, Receive, membershipVars, accessVars
<1>2. ASSUME NEW c \in Conns, Handle(c) \/ Crash(c)
      PROVE  UNCHANGED <<family, token, session, code>>
  BY <1>2 DEF Handle, Crash, LoadFamily, RefuseCommand, Check, RefuseCheck, Scan, UpdateRows,
     RefuseRedeem, Insert, Rollback, membershipVars, accessVars
<1>3. CASE UNCHANGED vars
  BY <1>3 DEF vars
<1> QED
  BY <1>1, <1>2, <1>3 DEF RequestsNext

(* What revokes a membership is the commit of a revocation of that parent.   *)
LEMMA WhoRevokes ==
  ASSUME IInv, NEW c \in Conns, Commit(c), NEW p \in Parents,
         family.parents[p] = "ACTIVE", family'.parents[p] = "REVOKED"
  PROVE  req[c].op = "revokeParent" /\ req[c].target = p
<1>1. family \in Families /\ Asked(req[c])
  BY DEF IInv, FamilyTypeOK, ConnInv, CallOK
<1>2. NewFamily.parents[p] # "REVOKED"
  BY FamilyMembershipAssumption DEF NewFamily, NoFamily
<1>3. req[c].op \in FamilyOps /\ family' = NextFamily(c)
  BY <1>2, CommitMembership
<1>4. CASE req[c].op = "addChild"
  BY <1>1, <1>3, <1>4 DEF NextFamily, WithChild, Families
<1>5. CASE req[c].op = "inviteParent"
  BY <1>1, <1>3, <1>5 DEF NextFamily, Invited, Families
<1>6. CASE req[c].op = "acceptInvitation"
  BY <1>1, <1>3, <1>6 DEF NextFamily, WithParent, Families, Asked
<1>7. CASE req[c].op = "revokeParent"
  BY <1>1, <1>3, <1>7 DEF NextFamily, WithParent, Families, Asked
<1> QED
  BY <1>3, <1>4, <1>5, <1>6, <1>7 DEF FamilyOps

LEMMA RevokeCuts ==
  ASSUME IInv, [RequestsNext]_vars, NEW p \in Parents,
         family.parents[p] = "ACTIVE", family'.parents[p] = "REVOKED",
         NEW s \in Sessions
  PROVE  session'[s] # ParentSession(p, TRUE)
<1>1. PICK c \in Conns : Commit(c)
  BY OnlyCommitsWrite
<1>2. req[c].op = "revokeParent" /\ req[c].target = p /\ pc[c] = "commit"
  BY <1>1, WhoRevokes DEF Commit
<1>3. CutOK(c) /\ session[s] \in SessionRows
  BY DEF IInv, ConnInv, FamilyTypeOK
<1>4. ~InsertsSession(c)
  BY <1>2 DEF InsertsSession
<1>5. CASE s \in tx[c].hit
  <2>1. session'[s] = [session[s] EXCEPT !.status = "REVOKED"]
    BY <1>1, <1>2, <1>5 DEF Commit, UpdatedSession
  <2>2. session'[s].status = "REVOKED"
    BY <1>3, <2>1 DEF SessionRows
  <2> QED
    BY <2>2 DEF ParentSession
<1>6. CASE s \notin tx[c].hit
  <2>1. session'[s] = session[s]
    BY <1>1, <1>4, <1>6, CommitAccess
  <2> QED
    BY <1>2, <1>3, <1>6, <2>1 DEF CutOK
<1> QED
  BY <1>5, <1>6

(* When a revocation commits, every session of that parent for the family is *)
(* cut, those an earlier transaction still had uncommitted included.         *)
THEOREM RevocationIsComplete == RequestsSpec => RevocationCutsEverySession
<1>1. IInv /\ [RequestsNext]_vars =>
        [\A p \in Parents :
           family.parents[p] = "ACTIVE" /\ family'.parents[p] = "REVOKED"
             => \A s \in Sessions : session'[s] # ParentSession(p, TRUE)]_vars
  BY RevokeCuts
<1> QED
  BY <1>1, Invariance, PTL DEF RequestsSpec, RevocationCutsEverySession

LEMMA SpentStays ==
  ASSUME IInv, [RequestsNext]_vars, NEW k \in Codes, code'[k] # code[k]
  PROVE  code[k].status # "REDEEMED"
<1>1. PICK c \in Conns : Commit(c)
  BY OnlyCommitsWrite
<1>2. RowsOK(c) /\ FreshOK(c)
  BY DEF IInv, ConnInv
<1>3. CASE k \in tx[c].hit
  BY <1>2, <1>3 DEF RowsOK, StillMatches
<1>4. CASE req[c].op = "issuePairingCode" /\ k = req[c].code
  BY <1>2, <1>4 DEF FreshOK, NoCode
<1> QED
  BY <1>1, <1>3, <1>4, CommitAccess

(* A pairing code is spent once, whichever devices race for it.              *)
THEOREM CodesAreSpentOnce == RequestsSpec => CodeIsSpentOnce
<1>1. IInv /\ [RequestsNext]_vars =>
        [\A k \in Codes : code'[k] # code[k] => code[k].status # "REDEEMED"]_vars
  BY SpentStays
<1> QED
  BY <1>1, Invariance, PTL DEF RequestsSpec, CodeIsSpentOnce

-----------------------------------------------------------------------------
(* The calls implement the atomic membership. *)

LEMMA SameCommands ==
  /\ Atomic!NewFamily = NewFamily /\ Atomic!NoToken = NoToken
  /\ \A p : Atomic!Pending(p) = Pending(p)
  /\ \A row : Atomic!Accepted(row) = Accepted(row)
  /\ \A f, child : Atomic!WithChild(f, child) = WithChild(f, child)
  /\ \A f : Atomic!Invited(f) = Invited(f)
  /\ \A f, p, status : Atomic!WithParent(f, p, status) = WithParent(f, p, status)
  /\ \A f, p, child : Atomic!AddChildAllowed(f, p, child) <=> AddChildAllowed(f, p, child)
  /\ \A f, p, q : Atomic!InviteParentAllowed(f, p, q) <=> InviteParentAllowed(f, p, q)
  /\ \A row, p : Atomic!AcceptInvitationAllowed(row, p) <=> AcceptInvitationAllowed(row, p)
  /\ \A f, p, q : Atomic!RevokeParentAllowed(f, p, q) <=> RevokeParentAllowed(f, p, q)
BY DEF Atomic!NewFamily, NewFamily, Atomic!NoFamily, NoFamily, Atomic!NoToken, NoToken,
       Atomic!Pending, Pending, Atomic!Accepted, Accepted, Atomic!WithChild, WithChild,
       Atomic!Invited, Invited, Atomic!WithParent, WithParent,
       Atomic!AddChildAllowed, AddChildAllowed,
       Atomic!InviteParentAllowed, InviteParentAllowed,
       Atomic!AcceptInvitationAllowed, AcceptInvitationAllowed,
       Atomic!RevokeParentAllowed, RevokeParentAllowed

LEMMA CommitIsAtomic ==
  ASSUME IInv, NEW c \in Conns, Commit(c)
  PROVE  Atomic!Next \/ UNCHANGED <<family, token>>
<1>1. Asked(req[c])
  BY DEF IInv, ConnInv, CallOK
<1>2. CASE req[c].op = "createFamily"
  <2>1. Atomic!CreateFamily
    BY <1>2, CommitMembership, SameCommands DEF Atomic!CreateFamily, FamilyOps, AccessOps
  <2> QED
    BY <2>1 DEF Atomic!Next
<1>3. CASE req[c].op = "addChild"
  <2>1. Atomic!AddChild(req[c].actor, req[c].child)
    BY <1>3, CommitMembership, SameCommands
       DEF Atomic!AddChild, AccessOps, CommandAllowed, NextFamily
  <2> QED
    BY <1>1, <1>3, <2>1 DEF Atomic!Next, Asked, FamilyOps
<1>4. CASE req[c].op = "inviteParent"
  <2>1. Atomic!InviteParent(req[c].actor, req[c].target, req[c].token)
    BY <1>4, CommitMembership, SameCommands
       DEF Atomic!InviteParent, AccessOps, CommandAllowed, NextFamily
  <2> QED
    BY <1>1, <1>4, <2>1 DEF Atomic!Next, Asked, FamilyOps
<1>5. CASE req[c].op = "acceptInvitation"
  <2>1. Atomic!AcceptInvitation(req[c].actor, req[c].token)
    BY <1>5, CommitMembership, SameCommands
       DEF Atomic!AcceptInvitation, AccessOps, CommandAllowed, NextFamily
  <2> QED
    BY <1>1, <1>5, <2>1 DEF Atomic!Next, Asked, FamilyOps
<1>6. CASE req[c].op = "revokeParent"
  <2>1. Atomic!RevokeParent(req[c].actor, req[c].target)
    BY <1>6, CommitMembership, SameCommands
       DEF Atomic!RevokeParent, AccessOps, CommandAllowed, NextFamily
  <2> QED
    BY <1>1, <1>6, <2>1 DEF Atomic!Next, Asked, FamilyOps
<1>7. CASE req[c].op \in AccessOps
  BY <1>7, CommitMembership DEF FamilyOps, AccessOps
<1> QED
  BY <1>2, <1>3, <1>4, <1>5, <1>6, <1>7, CommitMembership DEF FamilyOps

(* The family changes as if one command ran at a time: no member, child or   *)
(* invitation is lost to a concurrent save of the whole aggregate.           *)
THEOREM MembershipIsAtomic == RequestsSpec => AtomicMembership
<1>1. RequestsInit => Atomic!Init
  BY SameCommands DEF RequestsInit, Init, Atomic!Init, NoFamily, Atomic!NoFamily
<1>2. IInv /\ [RequestsNext]_vars => [Atomic!Next]_(Atomic!membershipVars)
  <2> SUFFICES ASSUME IInv, [RequestsNext]_vars
               PROVE  Atomic!Next \/ UNCHANGED <<family, token>>
    BY DEF Atomic!membershipVars
  <2> QED
    BY OnlyCommitsWrite, CommitIsAtomic
<1> QED
  BY <1>1, <1>2, Invariance, PTL DEF RequestsSpec, AtomicMembership, Atomic!Spec

-----------------------------------------------------------------------------
(* Waiting. *)

(* Who is waited for and waits as well is a revocation that updates          *)
(* sessions, or a call with a code of its own that inserts.                  *)
LEMMA WaitedFor ==
  ASSUME IInv, NEW c \in Conns, NEW d \in Conns, NEW e \in Conns, WaitsFor(c, d), WaitsFor(d, e)
  PROVE  /\ \/ pc[d] = "update" /\ req[d].op = "revokeParent"
            \/ pc[d] = "insert"
         /\ pc[c] = "update" => tx[c].todo \cap tx[d].hit # {} /\ pc[d] = "insert"
         /\ pc[c] # "update" => pc[d] = "update"
<1>1. CallOK(d) /\ FamilyOK(d) /\ RowsOK(d) /\ CallOK(c) /\ FamilyOK(c) /\ FamilyTypeOK
  BY DEF IInv, ConnInv
<1>2. pc[d] \in {"lockFamily", "insert", "update"}
  BY DEF WaitsFor
<1>3. CASE pc[c] # "update"
  <2>1. familyLock = d \/ d \in familyShare
    BY <1>3 DEF WaitsFor
  <2>2. HoldsFamily(d) \/ SharesFamily(d)
    BY <1>1, <2>1 DEF FamilyOK
  <2>3. HoldsFamily(d) /\ pc[d] = "update"
    BY <1>2, <2>2 DEF HoldsFamily, SharesFamily
  <2>4. req[d].op = "revokeParent"
    BY <1>1, <2>3, PathIs DEF HoldsFamily, FamilyOps, CallOK
  <2> QED
    BY <1>3, <2>3, <2>4
<1>4. CASE pc[c] = "update"
  <2>1. PICK x \in tx[c].todo : rowLock[x] = d
    BY <1>4 DEF WaitsFor
  <2>2. x \in Rows
    BY <1>1 DEF FamilyTypeOK, Transactions
  <2>3. x \in tx[d].hit
    BY <1>1, <2>1, <2>2 DEF RowsOK
  <2>4. pc[d] = "insert"
    BY <1>1, <1>2, <2>3 DEF CallOK
  <2> QED
    BY <1>4, <2>3, <2>4
<1> QED
  BY <1>3, <1>4

LEMMA NoCircle ==
  ASSUME IInv
  PROVE  NoDeadlock
<1>1. SUFFICES ASSUME NEW S \in SUBSET Conns, \A c \in S : \E d \in S : WaitsFor(c, d), S # {}
               PROVE  FALSE
  BY DEF NoDeadlock
<1>2. ASSUME NEW d \in S, pc[d] = "update", req[d].op = "revokeParent"
      PROVE  FALSE
  <2>1. PICK e \in S, f \in S : WaitsFor(d, e) /\ WaitsFor(e, f)
    BY <1>1
  <2>2. pc[e] = "insert" /\ tx[d].todo \cap tx[e].hit # {}
    BY <1>2, <2>1, WaitedFor
  <2>3. CallOK(d) /\ CallOK(e) /\ req[e].op \in Ops
    BY DEF IInv, ConnInv, FamilyTypeOK, Requests, Ops
  <2>4. tx[d].todo \subseteq Sessions
    BY <1>2, <2>3 DEF CallOK, RowsOf
  <2>5. RowsOf(req[e].op) \cap Sessions # {}
    BY <2>2, <2>3, <2>4 DEF CallOK
  <2>6. req[e].op \in {"createFamily", "signOut", "revokeParent"}
    BY <2>5, RowsOfIs
  <2> QED
    BY <2>2, <2>3, <2>6, PathIs DEF CallOK
<1>3. PICK c \in S, d \in S, e \in S, f \in S :
        WaitsFor(c, d) /\ WaitsFor(d, e) /\ WaitsFor(e, f)
  BY <1>1
<1>4. pc[d] = "insert"
  BY <1>2, <1>3, WaitedFor
<1>5. pc[e] = "update" /\ req[e].op = "revokeParent"
  BY <1>3, <1>4, WaitedFor
<1> QED
  BY <1>2, <1>5

(* The order family, sessions and codes, family never closes a circle.       *)
THEOREM NeverStuck == RequestsSpec => []NoDeadlock
BY NoCircle, Invariance, PTL

=============================================================================
