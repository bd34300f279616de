-------------------------------- MODULE FamilyApi --------------------------------
(***************************************************************************)
(* What a parent's browser and a child's device ask of the API before      *)
(* there is a task: a session, a family, a child, a pairing code and the   *)
(* session it becomes.  One parent, whose credentials are right, and every *)
(* family of theirs.  Each request is served in one step: FamilyRequests   *)
(* has the transactions and the other members, SignIn the throttle.        *)
(*                                                                         *)
(* A request reaches the server at most once and its answer at most once,  *)
(* as in TaskApi, and no request carries anything by which a repetition    *)
(* could be recognised.  The operators named ...Mutant are deliberate      *)
(* faults: the README says which property each of them breaks.             *)
(***************************************************************************)
EXTENDS Integers, FiniteSets

CONSTANTS
  Families,  \* ids of families
  Children,  \* ids of children
  Sessions,  \* ids of sessions
  Codes,     \* pairing codes
  None,      \* no id
  MaxFaults  \* bound: how many calls fail, pages are left and rows expire

ASSUME FamilyApiAssumption ==
  /\ None \notin Families \cup Children \cup Sessions \cup Codes
  /\ Families \cap (Children \cup Sessions \cup Codes) = {}
  /\ Children \cap (Sessions \cup Codes) = {} /\ Sessions \cap Codes = {}
  /\ MaxFaults \in Nat

VARIABLES
  family,   \* the rows of families and child_profiles
  session,  \* the rows of sessions
  code,     \* the rows of child_pairing_codes
  faults,   \* how many faults there were
  stray,    \* a request given up on that may still arrive, or None
  orphans   \* ids whose client was never told of them, or is gone

rowVars == <<family, session, code>>
faultVars == <<faults, stray, orphans>>
apiVars == <<rowVars, faultVars>>

FamilyRows == [status : {"ABSENT", "ACTIVE"}, children : SUBSET Children]

(* child is None in a parent's session, family in a bootstrap session.       *)
SessionRows ==
  [status : {"ABSENT", "LIVE", "EXPIRED"}, family : Families \cup {None},
   child : Children \cup {None}]

(* session is redeemed_session_id.                                           *)
CodeRows ==
  [status : {"ABSENT", "OUTSTANDING", "REDEEMED", "EXPIRED"}, family : Families \cup {None},
   child : Children \cup {None}, session : Sessions \cup {None}]

NoRow == [status |-> "ABSENT", family |-> None, child |-> None]

ParentSession == [NoRow EXCEPT !.status = "LIVE"]

ChildSession(f, child) == [status |-> "LIVE", family |-> f, child |-> child]

NoCode == [status |-> "ABSENT", family |-> None, child |-> None, session |-> None]

NewCode(f, child) ==
  [status |-> "OUTSTANDING", family |-> f, child |-> child, session |-> None]

ApiInit ==
  /\ family = [f \in Families |-> [status |-> "ABSENT", children |-> {}]]
  /\ session = [s \in Sessions |-> NoRow]
  /\ code = [k \in Codes |-> NoCode]
  /\ faults = 0 /\ stray = None /\ orphans = {}

-----------------------------------------------------------------------------
(* Requests.  session is the one of the cookie that goes with it, or None.   *)

SignIn == [op |-> "signIn"]
CreateFamily(s) == [op |-> "createFamily", session |-> s]
AddChild(s, f) == [op |-> "addChild", session |-> s, family |-> f]
IssueCode(s, child) == [op |-> "issuePairingCode", session |-> s, child |-> child]
Redeem(k) == [op |-> "redeemPairingCode", code |-> k]

Requests ==
  {SignIn} \cup {Redeem(k) : k \in Codes}
  \cup UNION {{CreateFamily(s)} \cup {AddChild(s, f) : f \in Families}
                \cup {IssueCode(s, child) : child \in Children} : s \in Sessions \cup {None}}

(* Ids are random; that one is left is a bound of whoever sends requests.    *)
Unused(op) ==
  CASE op = "createFamily" -> {f \in Families : family[f].status = "ABSENT"}
    [] op = "addChild" -> {c \in Children : \A f \in Families : c \notin family[f].children}
    [] op = "issuePairingCode" -> {k \in Codes : code[k].status = "ABSENT"}
    [] op \in {"signIn", "redeemPairingCode"} -> {s \in Sessions : session[s].status = "ABSENT"}

Fresh(op) == CHOOSE id \in Unused(op) : TRUE

(* SessionGuard: the session of the request is live. *)
IsParent(s) == s # None /\ session[s].status = "LIVE"

AcceptedMutant(req) ==
  CASE req.op = "signIn" -> TRUE
    [] req.op = "createFamily" -> IsParent(req.session)
    [] req.op = "addChild" -> IsParent(req.session) /\ session[req.session].family = req.family
    [] req.op = "issuePairingCode" ->
         IsParent(req.session) /\ session[req.session].family # None
    [] req.op = "redeemPairingCode" -> code[req.code].status = "OUTSTANDING"

(* assertFamily, requireChildInFamily and the claim of the code.  The parent *)
(* is the owner of each family, so requireActiveParentMember always holds.   *)
Accepted(req) ==
  CASE req.op = "signIn" -> TRUE
    [] req.op = "createFamily" -> IsParent(req.session)
    [] req.op = "addChild" -> IsParent(req.session) /\ session[req.session].family = req.family
    [] req.op = "issuePairingCode" ->
         /\ IsParent(req.session) /\ session[req.session].family # None
         /\ req.child \in family[session[req.session].family].children
    [] req.op = "redeemPairingCode" -> code[req.code].status = "OUTSTANDING"

-----------------------------------------------------------------------------
(* The rows after an accepted request that is given id. *)

(* scopeSessionToFamily without its "family_id IS NULL".                     *)
ScopedMutant(row, f) == [row EXCEPT !.family = f]

(* scopeSessionToFamily: a session that has a family keeps it. *)
Scoped(row, f) == [row EXCEPT !.family = IF row.family = None THEN f ELSE row.family]

SupersededMutant(row, child) == row.status = "OUTSTANDING"

(* issuePairingCode spends the child's outstanding codes.                    *)
Superseded(row, child) == row.child = child /\ row.status = "OUTSTANDING"

Effect(req, id) ==
  \/ /\ req.op = "signIn"
     /\ session' = [session EXCEPT ![id] = ParentSession]
     /\ UNCHANGED <<family, code>>
  \/ /\ req.op = "createFamily"
     /\ family' = [family EXCEPT ![id].status = "ACTIVE"]
     /\ session' = [session EXCEPT ![req.session] = Scoped(@, id)]
     /\ UNCHANGED code
  \/ /\ req.op = "addChild"
     /\ family' = [family EXCEPT ![req.family].children = @ \cup {id}]
     /\ UNCHANGED <<session, code>>
  \/ /\ req.op = "issuePairingCode"
     /\ code' = [k \in Codes |->
                   IF k = id THEN NewCode(session[req.session].family, req.child)
                   ELSE IF Superseded(code[k], req.child)
                          THEN [code[k] EXCEPT !.status = "REDEEMED"]
                   ELSE code[k]]
     /\ UNCHANGED <<family, session>>
  \/ /\ req.op = "redeemPairingCode"
     /\ code' = [code EXCEPT ![req.code].status = "REDEEMED", ![req.code].session = id]
     /\ session' = [session EXCEPT ![id] = ChildSession(code[req.code].family,
                                                        code[req.code].child)]
     /\ UNCHANGED family

(* The server's step for a request. *)
Handle(req) ==
  \/ ~Accepted(req) /\ UNCHANGED rowVars
  \/ Accepted(req) /\ Unused(req.op) # {} /\ Effect(req, Fresh(req.op))

(* The id a client is told, or None for a refusal.                           *)
Reply(req) == IF Accepted(req) THEN Fresh(req.op) ELSE None

-----------------------------------------------------------------------------
(* Faults. *)

Fault == faults < MaxFaults /\ faults' = faults + 1

(* Bound: one stray at a time; the other requests given up on are lost.      *)
MayStray(req) == stray' = IF stray = None THEN req ELSE stray

StrayArrives ==
  /\ stray # None
  /\ Handle(stray)
  /\ stray' = None
  /\ orphans' = orphans \cup ({Reply(stray)} \ {None})
  /\ UNCHANGED faults

(* Five minutes after it was issued. *)
CodeExpires(k) ==
  /\ Fault
  /\ code[k].status = "OUTSTANDING"
  /\ code' = [code EXCEPT ![k].status = "EXPIRED"]
  /\ UNCHANGED <<family, session, stray, orphans>>

=============================================================================
