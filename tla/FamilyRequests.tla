------------------------------ MODULE FamilyRequests ------------------------------
(***************************************************************************)
(* The family, session and pairing-code calls as they run, each in a       *)
(* transaction of its own at READ COMMITTED.  Three things wait:           *)
(*   - loadFamily takes the family's row lock (SELECT ... FOR UPDATE), for *)
(*     which there may be no other holder and no pending insert below;     *)
(*   - the INSERT of a session or a code scoped to the family: the check   *)
(*     of its foreign key takes FOR KEY SHARE on the family's row, which   *)
(*     many may hold at once, but nobody beside loadFamily;                *)
(*   - an UPDATE of sessions or codes, for the rows other transactions     *)
(*     have updated.  It picks its rows from what is committed when it     *)
(*     starts and looks at each again once it has the row.                 *)
(* requireActiveParentMember and requireChildInFamily wait for nothing and *)
(* lock nothing.                                                           *)
(*                                                                         *)
(* A session, a code or a token that is past its expiry makes a call fail  *)
(* like a crash: it is rolled back.  The operators named ...Mutant are     *)
(* deliberate faults: the README says which property each of them breaks.  *)
(***************************************************************************)
EXTENDS FamilyMembership

CONSTANTS
  Sessions,  \* ids of sessions
  Codes,     \* ids of pairing codes
  Conns      \* connections of the pool

ASSUME FamilyRequestsAssumption ==
  /\ Sessions \cap Codes = {}
  /\ None \notin Sessions \cup Codes \cup Conns

VARIABLES
  session,      \* the rows of sessions
  code,         \* the rows of child_pairing_codes
  familyLock,   \* who holds the family's row FOR UPDATE, or None
  familyShare,  \* who holds it FOR KEY SHARE
  rowLock,      \* who has an uncommitted update of a session or a code, or None
  pc,           \* the statement a connection is at
  req,          \* the call a connection is executing
  tx            \* what its transaction has read and written

accessVars == <<session, code>>
lockVars == <<familyLock, familyShare, rowLock>>
vars == <<family, token, session, code, familyLock, familyShare, rowLock, pc, req, tx>>

Rows == Sessions \cup Codes

SessionRows ==
  [status : {"ABSENT", "LIVE", "REVOKED"}, role : {"none", "parent", "child"},
   holder : Parents \cup Children \cup {None}, scoped : BOOLEAN]

NoSession == [status |-> "ABSENT", role |-> "none", holder |-> None, scoped |-> FALSE]

(* A session that is not scoped is a bootstrap session, of no family. *)
ParentSession(p, scoped) ==
  [status |-> "LIVE", role |-> "parent", holder |-> p, scoped |-> scoped]

ChildSession(child) ==
  [status |-> "LIVE", role |-> "child", holder |-> child, scoped |-> TRUE]

(* session is redeemed_session_id. *)
CodeRows ==
  [status : {"ABSENT", "OUTSTANDING", "REDEEMED"}, child : Children \cup {None},
   issuer : Parents \cup {None}, session : Sessions \cup {None}]

NoCode == [status |-> "ABSENT", child |-> None, issuer |-> None, session |-> None]

NewCode(child, p) ==
  [status |-> "OUTSTANDING", child |-> child, issuer |-> p, session |-> None]

FamilyOps == {"addChild", "inviteParent", "acceptInvitation", "revokeParent"}
AccessOps == {"signIn", "signOut", "provisionChildSession", "issuePairingCode", "redeemPairingCode"}

Requests ==
  [op : FamilyOps \cup AccessOps \cup {"createFamily", "none"}, actor : Parents \cup {None},
   target : Parents \cup {None}, child : Children \cup {None}, token : Tokens \cup {None},
   session : Sessions \cup {None}, code : Codes \cup {None}, scoped : BOOLEAN]

NoRequest ==
  [op |-> "none", actor |-> None, target |-> None, child |-> None, token |-> None,
   session |-> None, code |-> None, scoped |-> FALSE]

(* family is the aggregate loadFamily read and, once judged, the one saved;  *)
(* todo the rows an UPDATE has picked, hit those it has changed.             *)
Transactions == [family : Families, todo : SUBSET Rows, hit : SUBSET Rows]

NoTransaction == [family |-> NoFamily, todo |-> {}, hit |-> {}]

Statements == {"idle", "lockFamily", "member", "child", "scan", "update", "insert", "commit"}

RequestsInit ==
  /\ Init
  /\ session = [s \in Sessions |-> NoSession]
  /\ code = [k \in Codes |-> NoCode]
  /\ familyLock = None /\ familyShare = {}
  /\ rowLock = [x \in Rows |-> None]
  /\ pc = [c \in Conns |-> "idle"]
  /\ req = [c \in Conns |-> NoRequest]
  /\ tx = [c \in Conns |-> NoTransaction]

-----------------------------------------------------------------------------
(* The statements of each call, in their order. *)
After(op, statement) ==
  CASE statement = "lockFamily" -> IF op = "revokeParent" THEN "scan" ELSE "commit"
    [] statement = "member"     -> IF op = "signIn" THEN "insert" ELSE "child"
    [] statement = "child"      -> IF op = "issuePairingCode" THEN "scan" ELSE "insert"
    [] statement = "scan"       -> "update"
    [] statement = "update"     -> IF op = "redeemPairingCode" THEN "member"
                                   ELSE IF op = "issuePairingCode" THEN "insert"
                                   ELSE "commit"
    [] statement = "insert"     -> "commit"

Goto(c, statement) == pc' = [pc EXCEPT ![c] = statement]

Advance(c) == Goto(c, After(req[c].op, pc[c]))

(* COMMIT and ROLLBACK. *)
End(c) ==
  /\ Goto(c, "idle")
  /\ familyLock' = IF familyLock = c THEN None ELSE familyLock
  /\ familyShare' = familyShare \ {c}
  /\ rowLock' = [x \in Rows |-> IF rowLock[x] = c THEN None ELSE rowLock[x]]
  /\ req' = [req EXCEPT ![c] = NoRequest]
  /\ tx' = [tx EXCEPT ![c] = NoTransaction]

Rollback(c) == End(c) /\ UNCHANGED <<membershipVars, accessVars>>

-----------------------------------------------------------------------------
(* A call begins.  SessionGuard has looked the caller's session up in a      *)
(* transaction of its own; the handler relies on its claims.  Accepting,     *)
(* inviting and revoking have no route yet.                                  *)

Receive(c, request, statement) ==
  /\ pc[c] = "idle"
  /\ req' = [req EXCEPT ![c] = request]
  /\ Goto(c, statement)
  /\ UNCHANGED <<membershipVars, accessVars, lockVars>>

(* Ids are fresh UUIDs. *)
FreshSession(s) == session[s] = NoSession /\ \A d \in Conns : req[d].session # s
FreshCode(k) == code[k] = NoCode /\ \A d \in Conns : req[d].code # k
FreshToken(t) == token[t] = NoToken /\ \A d \in Conns : req[d].token # t
FreshFamily == family.version = 0 /\ \A d \in Conns : req[d].op # "createFamily"

HasSession(p) == \E s \in Sessions : session[s] = ParentSession(p, TRUE)

(* UPDATE of one row that is known to exist. *)
Begin(c, row) == tx' = [tx EXCEPT ![c].todo = {row}]

ReceiveCreate(c, s) ==
  /\ FreshFamily
  /\ session[s].status = "LIVE" /\ session[s].role = "parent" /\ session[s].holder = Owner
  /\ Receive(c, [NoRequest EXCEPT !.op = "createFamily", !.actor = Owner, !.session = s], "update")
  /\ Begin(c, s)

ReceiveAddChild(c, p, child) ==
  /\ HasSession(p)
  /\ Receive(c, [NoRequest EXCEPT !.op = "addChild", !.actor = p, !.child = child], "lockFamily")
  /\ UNCHANGED tx

ReceiveInvite(c, p, invitee, t) ==
  /\ FreshToken(t)
  /\ Receive(c, [NoRequest EXCEPT !.op = "inviteParent", !.actor = p, !.target = invitee,
                                  !.token = t], "lockFamily")
  /\ UNCHANGED tx

ReceiveAccept(c, p, t) ==
  /\ token[t] # NoToken
  /\ Receive(c, [NoRequest EXCEPT !.op = "acceptInvitation", !.actor = p, !.token = t],
             "lockFamily")
  /\ UNCHANGED tx

ReceiveRevoke(c, p, target) ==
  /\ Receive(c, [NoRequest EXCEPT !.op = "revokeParent", !.actor = p, !.target = target],
             "lockFamily")
  /\ UNCHANGED tx

ReceiveSignIn(c, p, scoped, s) ==
  /\ FreshSession(s)
  /\ Receive(c, [NoRequest EXCEPT !.op = "signIn", !.actor = p, !.session = s,
                                  !.scoped = scoped],
             IF scoped THEN "member" ELSE "insert")
  /\ UNCHANGED tx

ReceiveSignOut(c, s) ==
  /\ session[s].status = "LIVE"
  /\ Receive(c, [NoRequest EXCEPT !.op = "signOut", !.session = s], "update")
  /\ Begin(c, s)

ReceiveProvision(c, p, child, s) ==
  /\ HasSession(p) /\ FreshSession(s)
  /\ Receive(c, [NoRequest EXCEPT !.op = "provisionChildSession", !.actor = p,
                                  !.child = child, !.session = s], "member")
  /\ UNCHANGED tx

ReceiveIssue(c, p, child, k) ==
  /\ HasSession(p) /\ FreshCode(k)
  /\ Receive(c, [NoRequest EXCEPT !.op = "issuePairingCode", !.actor = p,
                                  !.child = child, !.code = k], "member")
  /\ UNCHANGED tx

(* The device has no session; it has been told the code, spent or not.       *)
ReceiveRedeem(c, k, s) ==
  /\ code[k] # NoCode /\ FreshSession(s)
  /\ Receive(c, [NoRequest EXCEPT !.op = "redeemPairingCode", !.code = k, !.session = s],
             "update")
  /\ Begin(c, k)

-----------------------------------------------------------------------------
(* loadFamily, and the command on what it read. *)

FamilyLockFree(c) == familyLock = None /\ familyShare \subseteq {c}

CommandAllowed(c) ==
  CASE req[c].op = "addChild"         -> AddChildAllowed(family, req[c].actor, req[c].child)
    [] req[c].op = "inviteParent"     -> InviteParentAllowed(family, req[c].actor, req[c].target)
    [] req[c].op = "acceptInvitation" -> AcceptInvitationAllowed(token[req[c].token], req[c].actor)
    [] req[c].op = "revokeParent"     -> RevokeParentAllowed(family, req[c].actor, req[c].target)

NextFamily(c) ==
  CASE req[c].op = "addChild"         -> WithChild(family, req[c].child)
    [] req[c].op = "inviteParent"     -> Invited(family)
    [] req[c].op = "acceptInvitation" -> WithParent(family, req[c].actor, "ACTIVE")
    [] req[c].op = "revokeParent"     -> WithParent(family, req[c].target, "REVOKED")

(* readFamily's plain SELECT in the place of loadFamily's FOR UPDATE. *)
LoadFamilyMutant(c) ==
  /\ pc[c] = "lockFamily" /\ CommandAllowed(c)
  /\ tx' = [tx EXCEPT ![c].family = NextFamily(c)]
  /\ Advance(c)
  /\ UNCHANGED <<membershipVars, accessVars, lockVars, req>>

(* SELECT ... FOR UPDATE, the members and children, the command and, on the  *)
(* locked row, the UPDATE with its version check and the upserts.            *)
LoadFamily(c) ==
  /\ pc[c] = "lockFamily" /\ FamilyLockFree(c) /\ CommandAllowed(c)
  /\ familyLock' = c
  /\ tx' = [tx EXCEPT ![c].family = NextFamily(c)]
  /\ Advance(c)
  /\ UNCHANGED <<membershipVars, accessVars, familyShare, rowLock, req>>

RefuseCommand(c) ==
  /\ pc[c] = "lockFamily" /\ FamilyLockFree(c) /\ ~CommandAllowed(c)
  /\ Rollback(c)

-----------------------------------------------------------------------------
(* The checks of auth.ts: plain SELECTs of what is committed. *)

(* A redemption acts for the code's issuer, on the code's child. *)
Actor(c) == IF req[c].op = "redeemPairingCode" THEN code[req[c].code].issuer ELSE req[c].actor
Child(c) == IF req[c].op = "redeemPairingCode" THEN code[req[c].code].child ELSE req[c].child

CheckPasses(c) ==
  \/ pc[c] = "member" /\ family.parents[Actor(c)] = "ACTIVE"
  \/ pc[c] = "child" /\ Child(c) \in family.children

Check(c) ==
  /\ CheckPasses(c)
  /\ Advance(c)
  /\ UNCHANGED <<membershipVars, accessVars, lockVars, req, tx>>

RefuseCheck(c) ==
  /\ pc[c] \in {"member", "child"} /\ ~CheckPasses(c)
  /\ Rollback(c)

-----------------------------------------------------------------------------
(* UPDATEs of sessions and of codes. *)

OpenSessions(p) ==
  {s \in Sessions : session[s].status = "LIVE" /\ session[s].role = "parent"
                                               /\ session[s].holder = p}

OutstandingCodes(child) ==
  {k \in Codes : code[k].status = "OUTSTANDING" /\ code[k].child = child}

(* A revocation that withdraws the parent's pairing codes as well. *)
ScannedMutant(c) ==
  IF req[c].op = "revokeParent"
    THEN OpenSessions(req[c].target)
           \cup {k \in Codes : code[k].status = "OUTSTANDING" /\ code[k].issuer = req[c].target}
    ELSE OutstandingCodes(req[c].child)

(* The rows that an UPDATE's WHERE picks. *)
Scanned(c) ==
  IF req[c].op = "revokeParent" THEN OpenSessions(req[c].target)
  ELSE OutstandingCodes(req[c].child)

Scan(c) ==
  /\ pc[c] = "scan"
  /\ tx' = [tx EXCEPT ![c].todo = Scanned(c)]
  /\ Advance(c)
  /\ UNCHANGED <<membershipVars, accessVars, lockVars, req>>

(* The WHERE of the UPDATE, evaluated again on the latest committed row. *)
StillMatchesMutant(c, x) == TRUE

StillMatches(c, x) ==
  IF x \in Codes THEN code[x].status = "OUTSTANDING"
  ELSE /\ session[x].status = "LIVE"
       /\ req[c].op = "createFamily" => ~session[x].scoped

Hits(c) == {x \in tx[c].todo : StillMatches(c, x)}

(* The UPDATE waits for each of its rows in turn; it is a step when it has   *)
(* them all.                                                                 *)
UpdateRows(c) ==
  /\ pc[c] = "update"
  /\ \A x \in tx[c].todo : rowLock[x] = None
  /\ req[c].op = "redeemPairingCode" => Hits(c) # {}
  /\ rowLock' = [x \in Rows |-> IF x \in Hits(c) THEN c ELSE rowLock[x]]
  /\ tx' = [tx EXCEPT ![c].todo = {}, ![c].hit = Hits(c)]
  /\ Advance(c)
  /\ UNCHANGED <<membershipVars, accessVars, familyLock, familyShare, req>>

(* PAIRING_CODE_INVALID: the code has been used. *)
RefuseRedeem(c) ==
  /\ pc[c] = "update" /\ req[c].op = "redeemPairingCode"
  /\ \A x \in tx[c].todo : rowLock[x] = None
  /\ Hits(c) = {}
  /\ Rollback(c)

-----------------------------------------------------------------------------
(* INSERT INTO sessions or child_pairing_codes. *)

IsScoped(c) == req[c].op = "signIn" => req[c].scoped

InsertMutant(c) ==
  /\ pc[c] = "insert"
  /\ familyShare' = IF IsScoped(c) THEN familyShare \cup {c} ELSE familyShare
  /\ Advance(c)
  /\ UNCHANGED <<membershipVars, accessVars, familyLock, rowLock, req, tx>>

Insert(c) ==
  /\ pc[c] = "insert"
  /\ IsScoped(c) => familyLock = None
  /\ familyShare' = IF IsScoped(c) THEN familyShare \cup {c} ELSE familyShare
  /\ Advance(c)
  /\ UNCHANGED <<membershipVars, accessVars, familyLock, rowLock, req, tx>>

-----------------------------------------------------------------------------
(* The row a call inserts into sessions. *)
InsertedSession(c) ==
  IF req[c].op = "signIn" THEN ParentSession(req[c].actor, req[c].scoped)
  ELSE ChildSession(Child(c))

UpdatedSession(c, row) ==
  IF req[c].op = "createFamily" THEN [row EXCEPT !.scoped = TRUE]
  ELSE [row EXCEPT !.status = "REVOKED"]

InsertsSession(c) == req[c].op \in {"signIn", "provisionChildSession", "redeemPairingCode"}

Commit(c) ==
  /\ pc[c] = "commit"
  /\ family' = CASE req[c].op = "createFamily" -> NewFamily
                 [] req[c].op \in FamilyOps    -> tx[c].family
                 [] OTHER                      -> family
  /\ token' = CASE req[c].op = "inviteParent" ->
                     [token EXCEPT ![req[c].token] = Pending(req[c].target)]
                [] req[c].op = "acceptInvitation" ->
                     [token EXCEPT ![req[c].token] = Accepted(@)]
                [] OTHER -> token
  /\ session' = [s \in Sessions |->
                   IF s \in tx[c].hit THEN UpdatedSession(c, session[s])
                   ELSE IF InsertsSession(c) /\ s = req[c].session THEN InsertedSession(c)
                   ELSE session[s]]
  /\ code' = [k \in Codes |->
                IF k \in tx[c].hit
                  THEN [code[k] EXCEPT !.status = "REDEEMED",
                                       !.session = IF req[c].op = "redeemPairingCode"
                                                     THEN req[c].session ELSE None]
                ELSE IF req[c].op = "issuePairingCode" /\ k = req[c].code
                  THEN NewCode(req[c].child, req[c].actor)
                ELSE code[k]]
  /\ End(c)

(* The server dies, the connection drops, or something is found expired.     *)
Crash(c) == pc[c] # "idle" /\ Rollback(c)

-----------------------------------------------------------------------------
Arrive(c) ==
  \/ \E s \in Sessions : ReceiveCreate(c, s) \/ ReceiveSignOut(c, s)
  \/ \E p \in Parents :
       \/ \E s \in Sessions, scoped \in BOOLEAN : ReceiveSignIn(c, p, scoped, s)
       \/ \E target \in Parents : ReceiveRevoke(c, p, target)
       \/ \E t \in Tokens :
            ReceiveAccept(c, p, t) \/ \E invitee \in Parents : ReceiveInvite(c, p, invitee, t)
       \/ \E child \in Children :
            \/ ReceiveAddChild(c, p, child)
            \/ \E s \in Sessions : ReceiveProvision(c, p, child, s)
            \/ \E k \in Codes : ReceiveIssue(c, p, child, k)
  \/ \E k \in Codes, s \in Sessions : ReceiveRedeem(c, k, s)

Handle(c) ==
  \/ LoadFamily(c) \/ RefuseCommand(c)
  \/ Check(c) \/ RefuseCheck(c)
  \/ Scan(c) \/ UpdateRows(c) \/ RefuseRedeem(c)
  \/ Insert(c) \/ Commit(c)

RequestsNext == \E c \in Conns : Arrive(c) \/ Handle(c) \/ Crash(c)

RequestsSpec == RequestsInit /\ [][RequestsNext]_vars

-----------------------------------------------------------------------------
(* Properties. *)

(* Every variable has its type, and nobody shares a row that is locked.      *)
FamilyTypeOK ==
  /\ family \in Families
  /\ token \in [Tokens -> InvitationTokens]
  /\ session \in [Sessions -> SessionRows]
  /\ code \in [Codes -> CodeRows]
  /\ familyLock \in Conns \cup {None}
  /\ familyShare \subseteq Conns
  /\ familyLock # None => familyShare = {}
  /\ rowLock \in [Rows -> Conns \cup {None}]
  /\ pc \in [Conns -> Statements]
  /\ req \in [Conns -> Requests]
  /\ tx \in [Conns -> Transactions]

(* The calls change the family as if one command ran at a time: no member,   *)
(* child or invitation is lost to a concurrent save of the whole aggregate,  *)
(* and no invitation lets a parent in twice.                                 *)
Atomic == INSTANCE FamilyMembership
AtomicMembership == Atomic!Spec

(* When a revocation commits, no session of that parent is left open that    *)
(* was issued for the family before: the sessions an earlier transaction     *)
(* still had uncommitted included.                                           *)
RevocationCutsEverySession ==
  [][\A p \in Parents :
       family.parents[p] = "ACTIVE" /\ family'.parents[p] = "REVOKED"
         => \A s \in Sessions : session'[s] # ParentSession(p, TRUE)]_vars

(* A pairing code becomes a session once: the redemption that commits finds  *)
(* it outstanding, whichever devices race for it and whoever has asked for   *)
(* another code meanwhile.                                                   *)
CodeIsSpentOnce ==
  [][\A k \in Codes : code'[k] # code[k] => code[k].status # "REDEEMED"]_vars

(* Whose COMMIT or ROLLBACK a statement waits for. *)
WaitsFor(c, d) ==
  \/ pc[c] = "lockFamily" /\ (familyLock = d \/ d \in familyShare \ {c})
  \/ pc[c] = "insert" /\ IsScoped(c) /\ familyLock = d
  \/ pc[c] = "update" /\ \E x \in tx[c].todo : rowLock[x] = d

(* No calls wait for each other in a circle: the order family, sessions and  *)
(* codes, family never closes one.                                           *)
NoDeadlock ==
  \A S \in SUBSET Conns : (\A c \in S : \E d \in S : WaitsFor(c, d)) => S = {}

(* A parent whose membership is REVOKED has no live session of the family.   *)
RevokedParentHasNoLiveSession ==
  \A p \in Parents :
    family.parents[p] = "REVOKED" => \A s \in Sessions : session[s] # ParentSession(p, TRUE)

=============================================================================
