---------------------------- MODULE FamilyPagesProofs ----------------------------
(***************************************************************************)
(* The safety of the way to a child's first session, for any number of     *)
(* tabs, devices, ids and faults.  IInv is the inductive invariant: an id  *)
(* has one keeper, which is a page, an answer on its way or nobody         *)
(* (OneKeeper), and the page that sent a request waits for its answer      *)
(* where it was (Awaits).  So a request for a code spends no code that     *)
(* another page shows, unless the request's client is gone.                *)
(***************************************************************************)
EXTENDS FamilyPages, TLAPS

-----------------------------------------------------------------------------
(* The invariant. *)

(* The ids that a request may be answered with.                              *)
IdsOf(op) ==
  CASE op = "createFamily" -> Families
    [] op = "addChild" -> Children
    [] op = "issuePairingCode" -> Codes
    [] OTHER -> Sessions

(* An id that a row has.                                                     *)
Taken(id) ==
  /\ id \in Families => family[id].status # "ABSENT"
  /\ id \in Children => \E f \in Families : id \in family[f].children
  /\ id \in Codes => code[id].status # "ABSENT"
  /\ id \in Sessions => session[id].status # "ABSENT"

(* The page that sent a request waits for it where it was.                   *)
Awaits(page, req) ==
  \/ req.op = "signIn" /\ page.screen = "SIGN_IN"
  \/ req.op = "createFamily" /\ page.screen = "SETUP" /\ page.step = "NO_FAMILY"
  \/ req.op = "addChild" /\ page.step = "FAMILY_READY_NO_CHILDREN" /\ req.family = page.familyId
  \/ req.op = "issuePairingCode" /\ page.step = "CHILD_ADDED" /\ req.child = page.childId

(* A client has one call, and it waits for it.                               *)
CallsOK ==
  \A c \in calls :
    /\ c.answer # None => c.served /\ c.answer \in IdsOf(c.req.op)
    /\ c.client \in Tabs => tab[c.client].busy /\ Awaits(tab[c.client], c.req)
    /\ c.client \in Devices => device[c.client].busy /\ c.req.op = "redeemPairingCode"
    /\ \A d \in calls : d.client = c.client => d = c

(* A row that is absent is empty, a child has one family, and what names a   *)
(* family names one that exists.                                             *)
RowsOK ==
  /\ \A s \in Sessions : session[s].status = "ABSENT" => session[s] = NoRow
  /\ \A k \in Codes : code[k].status = "ABSENT" => code[k] = NoCode
  /\ \A f \in Families : family[f].status = "ABSENT" => family[f].children = {}
  /\ \A s \in Sessions : session[s].family # None => family[session[s].family].status = "ACTIVE"
  /\ \A k \in Codes : code[k].status # "ABSENT" => code[k].family # None
  /\ \A s \in Sessions : session[s].child # None => session[s].family # None
  /\ \A f, g \in Families : family[f].children \cap family[g].children # {} => f = g

(* The ids a page knows.                                                     *)
Held(t) == {tab[t].familyId, tab[t].childId, tab[t].pairingCode} \ {None}

(* Every id a client was given is a row's, and one client's.                 *)
OneKeeper ==
  /\ \A id \in orphans : Taken(id)
  /\ \A c \in calls : c.answer # None => Taken(c.answer) /\ c.answer \notin orphans
  /\ \A c, d \in calls : c.answer = d.answer => c = d \/ c.answer = None
  /\ \A t \in Tabs : \A id \in Held(t) :
       /\ Taken(id) /\ id \notin orphans
       /\ \A c \in calls : c.answer # id
       /\ \A u \in Tabs : id \in Held(u) => u = t

(* What pages and answers know of children and codes is what rows say.       *)
PagesKnow ==
  /\ \A t \in Tabs :
       /\ tab[t].childId # None => tab[t].childId \in family[tab[t].familyId].children
       /\ tab[t].pairingCode # None => code[tab[t].pairingCode].child = tab[t].childId
  /\ \A c \in calls : c.answer # None =>
       /\ c.req.op = "addChild" => c.answer \in family[c.req.family].children
       /\ c.req.op = "issuePairingCode" => code[c.answer].child = c.req.child

(* A code that can be redeemed, expired by itself or was redeemed.           *)
Works(row) == row.status \in {"OUTSTANDING", "EXPIRED"} \/ row.session # None

(* Only an answer that got lost, for the same child, has put another in its  *)
(* place.                                                                    *)
Good(k) == Works(code[k]) \/ \E o \in orphans \cap Codes : code[o].child = code[k].child

CodesOK ==
  /\ \A t \in Tabs : tab[t].pairingCode # None => Good(tab[t].pairingCode)
  /\ \A c \in calls : c.answer # None /\ c.req.op = "issuePairingCode" => Good(c.answer)

RowTypes ==
  /\ family \in [Families -> FamilyRows]
  /\ session \in [Sessions -> SessionRows]
  /\ code \in [Codes -> CodeRows]

RowsInv == RowTypes /\ RowsOK /\ PairingStaysInTheFamily

FaultTypes ==
  /\ faults \in 0 .. MaxFaults
  /\ stray \in Requests \cup {None}
  /\ orphans \subseteq Families \cup Children \cup Codes \cup Sessions

(* Only a setup page gets past its first step.                               *)
PagesOK ==
  /\ tab \in [Tabs -> Pages]
  /\ \A t \in Tabs :
       /\ tab[t].familyId = None <=> tab[t].step = "NO_FAMILY"
       /\ tab[t].childId = None <=> tab[t].step \in {"NO_FAMILY", "FAMILY_READY_NO_CHILDREN"}
       /\ tab[t].pairingCode # None <=> tab[t].step = "CHILD_ACCESS_READY"
       /\ tab[t].screen # "SETUP" => tab[t].step = "NO_FAMILY"
       /\ tab[t].screen \in {"NONE", "DASHBOARD"} => ~tab[t].busy

ClientTypes ==
  /\ cookie \in Sessions \cup {None}
  /\ device \in [Devices -> [busy : BOOLEAN, session : Sessions \cup {None}]]
  /\ calls \subseteq Calls

IInv ==
  /\ RowsInv /\ FaultTypes /\ PagesOK /\ ClientTypes
  /\ CallsOK /\ OneKeeper /\ PagesKnow /\ CodesOK /\ FamiliesAccountedFor

-----------------------------------------------------------------------------
(* What requests do to the rows. *)

LEMMA UnusedIds ==
  /\ Unused("createFamily") = {f \in Families : family[f].status = "ABSENT"}
  /\ Unused("addChild") = {c \in Children : \A f \in Families : c \notin family[f].children}
  /\ Unused("issuePairingCode") = {k \in Codes : code[k].status = "ABSENT"}
  /\ Unused("signIn") = {s \in Sessions : session[s].status = "ABSENT"}
  /\ Unused("redeemPairingCode") = {s \in Sessions : session[s].status = "ABSENT"}
BY DEF Unused

LEMMA FreshIsUnused ==
  ASSUME NEW op, Unused(op) # {}
  PROVE  Fresh(op) \in Unused(op)
BY DEF Fresh

LEMMA RequestShapes ==
  ASSUME NEW req \in Requests
  PROVE  \/ req.op = "signIn"
         \/ req.op = "createFamily" /\ req.session \in Sessions \cup {None}
         \/ req.op = "addChild" /\ req.session \in Sessions \cup {None} /\ req.family \in Families
         \/ req.op = "issuePairingCode" /\ req.session \in Sessions \cup {None}
                                       /\ req.child \in Children
         \/ req.op = "redeemPairingCode" /\ req.code \in Codes
BY DEF Requests, SignIn, CreateFamily, AddChild, IssueCode, Redeem

LEMMA IdsOfIs ==
  /\ IdsOf("createFamily") = Families
  /\ IdsOf("addChild") = Children
  /\ IdsOf("issuePairingCode") = Codes
  /\ IdsOf("signIn") = Sessions
  /\ IdsOf("redeemPairingCode") = Sessions
BY DEF IdsOf

LEMMA UnusedIsNotTaken ==
  ASSUME NEW req \in Requests, NEW id \in Unused(req.op)
  PROVE  id \in IdsOf(req.op) /\ id # None /\ ~Taken(id)
<1>1. CASE req.op = "signIn" \/ req.op = "redeemPairingCode"
  BY <1>1, UnusedIds, IdsOfIs, FamilyApiAssumption DEF Taken
<1>2. CASE req.op = "createFamily"
  BY <1>2, UnusedIds, IdsOfIs, FamilyApiAssumption DEF Taken
<1>3. CASE req.op = "addChild"
  BY <1>3, UnusedIds, IdsOfIs, FamilyApiAssumption DEF Taken
<1>4. CASE req.op = "issuePairingCode"
  BY <1>4, UnusedIds, IdsOfIs, FamilyApiAssumption DEF Taken
<1>5. QED
  BY <1>1, <1>2, <1>3, <1>4, RequestShapes

(* Rows are only added to. *)
Grown ==
  /\ \A f \in Families :
       /\ family[f].status = "ACTIVE" => family'[f].status = "ACTIVE"
       /\ family[f].children \subseteq family'[f].children
  /\ \A s \in Sessions :
       /\ session[s].status # "ABSENT" => session'[s].status # "ABSENT"
       /\ session[s].family # None => session'[s].family = session[s].family
  /\ \A k \in Codes :
       code[k].status # "ABSENT" =>
         /\ code'[k].status # "ABSENT"
         /\ code'[k].family = code[k].family
         /\ code'[k].child = code[k].child

LEMMA SignInEffect ==
  ASSUME RowsInv, NEW req \in Requests, req.op = "signIn", NEW id \in Unused(req.op),
         Effect(req, id)
  PROVE  RowsInv' /\ Grown
<1>1. id \in Sessions /\ session[id].status = "ABSENT" /\ session[id] = NoRow
  BY UnusedIds DEF RowsInv, RowsOK
<1>2. session' = [session EXCEPT ![id] = ParentSession] /\ UNCHANGED <<family, code>>
  BY DEF Effect
<1>3. ParentSession = [status |-> "LIVE", family |-> None, child |-> None]
  BY DEF ParentSession, NoRow
<1>4. session' \in [Sessions -> SessionRows] /\ session'[id] = ParentSession
      /\ \A s \in Sessions : s # id => session'[s] = session[s]
  BY <1>1, <1>2, <1>3 DEF RowsInv, RowTypes, SessionRows
<1>5. RowTypes'
  BY <1>2, <1>4 DEF RowsInv, RowTypes
<1>6. RowsOK' /\ PairingStaysInTheFamily'
  BY <1>1, <1>2, <1>3, <1>4 DEF RowsInv, RowTypes, RowsOK, PairingStaysInTheFamily
<1>7. Grown
  BY <1>1, <1>2, <1>3, <1>4 DEF RowsInv, RowTypes, Grown, NoRow
<1>8. QED
  BY <1>5, <1>6, <1>7 DEF RowsInv

LEMMA CreateFamilyEffect ==
  ASSUME RowsInv, NEW req \in Requests, req.op = "createFamily", Accepted(req),
         NEW id \in Unused(req.op), Effect(req, id)
  PROVE  RowsInv' /\ Grown
<1>1. id \in Families /\ family[id].status = "ABSENT" /\ family[id].children = {}
  BY UnusedIds DEF RowsInv, RowsOK
<1>2. req.session \in Sessions /\ session[req.session].status = "LIVE"
  BY RequestShapes DEF Accepted, IsParent
<1>3. DEFINE s == req.session
             row == Scoped(session[s], id)
<1>4. /\ family' = [family EXCEPT ![id].status = "ACTIVE"]
      /\ session' = [session EXCEPT ![s] = row]
      /\ code' = code
  BY DEF Effect
<1>5. /\ row.status = "LIVE" /\ row.child = session[s].child
      /\ session[s].family # None => row.family = session[s].family
      /\ session[s].family = None => row.family = id
      /\ row \in SessionRows
  BY <1>1, <1>2 DEF Scoped, RowsInv, RowTypes, SessionRows
<1>6. /\ family' \in [Families -> FamilyRows]
      /\ family'[id].status = "ACTIVE" /\ family'[id].children = {}
      /\ \A f \in Families : f # id => family'[f] = family[f]
  BY <1>1, <1>4 DEF RowsInv, RowTypes, FamilyRows
<1> HIDE DEF row
<1>7. /\ session' \in [Sessions -> SessionRows]
      /\ session'[s] = row
      /\ \A t \in Sessions : t # s => session'[t] = session[t]
  BY <1>2, <1>4, <1>5 DEF RowsInv, RowTypes
<1>8. RowTypes'
  BY <1>4, <1>6, <1>7 DEF RowsInv, RowTypes
<1>9. RowsOK'
  BY <1>1, <1>2, <1>4, <1>5, <1>6, <1>7 DEF RowsInv, RowTypes, RowsOK
<1>10. PairingStaysInTheFamily'
  BY <1>1, <1>2, <1>4, <1>5, <1>6, <1>7 DEF RowsInv, RowTypes, RowsOK, PairingStaysInTheFamily
<1>11. Grown
  BY <1>1, <1>2, <1>4, <1>5, <1>6, <1>7 DEF RowsInv, RowTypes, Grown
<1>12. QED
  BY <1>8, <1>9, <1>10, <1>11 DEF RowsInv

LEMMA AddChildEffect ==
  ASSUME RowsInv, NEW req \in Requests, req.op = "addChild", Accepted(req),
         NEW id \in Unused(req.op), Effect(req, id)
  PROVE  RowsInv' /\ Grown /\ id \in family'[req.family].children
<1>1. id \in Children /\ \A f \in Families : id \notin family[f].children
  BY UnusedIds
<1>2. req.family \in Families /\ req.session \in Sessions
      /\ session[req.session].family = req.family
  BY RequestShapes DEF Accepted, IsParent
<1>3. DEFINE f == req.family
<1>4. family[f].status = "ACTIVE"
  BY <1>2, FamilyApiAssumption DEF RowsInv, RowsOK
<1>5. /\ family' = [family EXCEPT ![f].children = @ \cup {id}]
      /\ session' = session
      /\ code' = code
  BY DEF Effect
<1>6. /\ family' \in [Families -> FamilyRows]
      /\ family'[f].status = family[f].status
      /\ family'[f].children = family[f].children \cup {id}
      /\ \A g \in Families : g # f => family'[g] = family[g]
  BY <1>1, <1>2, <1>5 DEF RowsInv, RowTypes, FamilyRows
<1>7. RowTypes'
  BY <1>5, <1>6 DEF RowsInv, RowTypes
<1>8. RowsOK'
  BY <1>1, <1>2, <1>4, <1>5, <1>6 DEF RowsInv, RowTypes, RowsOK
<1>9. PairingStaysInTheFamily'
  BY <1>1, <1>2, <1>5, <1>6 DEF RowsInv, RowTypes, RowsOK, PairingStaysInTheFamily
<1>10. Grown
  BY <1>1, <1>2, <1>5, <1>6 DEF RowsInv, RowTypes, Grown
<1>11. QED
  BY <1>2, <1>6, <1>7, <1>8, <1>9, <1>10 DEF RowsInv

LEMMA IssueEffect ==
  ASSUME RowsInv, NEW req \in Requests, req.op = "issuePairingCode", Accepted(req),
         NEW id \in Unused(req.op), Effect(req, id)
  PROVE  /\ RowsInv' /\ Grown
         /\ code'[id].status = "OUTSTANDING" /\ code'[id].child = req.child
         /\ \A k \in Codes : code[k].status # "ABSENT" /\ code[k].child # req.child
                              => code'[k] = code[k]
         /\ \A k \in Codes : code[k].session # None => code'[k].session # None
<1>1. id \in Codes /\ code[id].status = "ABSENT" /\ code[id] = NoCode
  BY UnusedIds DEF RowsInv, RowsOK
<1>2. DEFINE f == session[req.session].family
             new == NewCode(f, req.child)
<1>3. req.child \in Children /\ req.session \in Sessions
      /\ f \in Families /\ req.child \in family[f].children
  BY RequestShapes DEF Accepted, IsParent, RowsInv, RowTypes, SessionRows
<1>4. /\ new.status = "OUTSTANDING" /\ new.family = f /\ new.child = req.child
      /\ new.session = None /\ new \in CodeRows
  BY <1>3 DEF NewCode, CodeRows
<1>5. /\ code'[id] = new
      /\ \A k \in Codes : k # id /\ Superseded(code[k], req.child)
                           => code'[k] = [code[k] EXCEPT !.status = "REDEEMED"]
      /\ \A k \in Codes : k # id /\ ~Superseded(code[k], req.child) => code'[k] = code[k]
      /\ code' = [k \in Codes |-> code'[k]]
      /\ session' = session /\ family' = family
  BY <1>1 DEF Effect
<1> HIDE DEF new
<1>6. \A k \in Codes : k # id =>
        /\ code'[k] \in CodeRows
        /\ code'[k].family = code[k].family /\ code'[k].child = code[k].child
        /\ code'[k].session = code[k].session
        /\ code[k].status = "ABSENT" => code'[k] = code[k]
        /\ code[k].status # "ABSENT" => code'[k].status # "ABSENT"
  <2> SUFFICES ASSUME NEW k \in Codes, k # id
               PROVE  /\ code'[k] \in CodeRows
                      /\ code'[k].family = code[k].family /\ code'[k].child = code[k].child
                      /\ code'[k].session = code[k].session
                      /\ code[k].status = "ABSENT" => code'[k] = code[k]
                      /\ code[k].status # "ABSENT" => code'[k].status # "ABSENT"
    OBVIOUS
  <2>1. code[k] \in CodeRows
    BY DEF RowsInv, RowTypes
  <2>2. CASE Superseded(code[k], req.child)
    <3>1. code'[k] = [code[k] EXCEPT !.status = "REDEEMED"] /\ code[k].status = "OUTSTANDING"
      BY <1>5, <2>2 DEF Superseded
    <3>2. QED
      BY <2>1, <3>1 DEF CodeRows
  <2>3. CASE ~Superseded(code[k], req.child)
    BY <1>5, <2>1, <2>3
  <2>4. QED
    BY <2>2, <2>3
<1>7. RowTypes'
  BY <1>4, <1>5, <1>6 DEF RowsInv, RowTypes
<1>8. RowsOK'
  BY <1>1, <1>3, <1>4, <1>5, <1>6, FamilyApiAssumption DEF RowsInv, RowTypes, RowsOK
<1>9. PairingStaysInTheFamily'
  BY <1>1, <1>3, <1>4, <1>5, <1>6 DEF RowsInv, RowTypes, RowsOK, PairingStaysInTheFamily
<1>10. Grown
  BY <1>1, <1>5, <1>6 DEF RowsInv, RowTypes, Grown
<1>11. \A k \in Codes : code[k].status # "ABSENT" /\ code[k].child # req.child
                       => code'[k] = code[k]
  BY <1>1, <1>5 DEF Superseded
<1>12. \A k \in Codes : code[k].session # None => code'[k].session # None
  BY <1>1, <1>6 DEF NoCode
<1>13. QED
  BY <1>4, <1>5, <1>7, <1>8, <1>9, <1>10, <1>11, <1>12 DEF RowsInv

LEMMA RedeemEffect ==
  ASSUME RowsInv, NEW req \in Requests, req.op = "redeemPairingCode", Accepted(req),
         NEW id \in Unused(req.op), Effect(req, id)
  PROVE  /\ RowsInv' /\ Grown
         /\ \A k \in Codes : code'[k] = code[k] \/ code'[k].session # None
<1>1. id \in Sessions /\ session[id].status = "ABSENT" /\ session[id] = NoRow
  BY UnusedIds DEF RowsInv, RowsOK
<1>2. DEFINE q == req.code
             new == ChildSession(code[q].family, code[q].child)
<1>3. q \in Codes /\ code[q].status = "OUTSTANDING"
  BY RequestShapes DEF Accepted
<1>4. code[q].family \in Families /\ code[q].child \in family[code[q].family].children
      /\ code[q].child \in Children
  BY <1>3 DEF RowsInv, RowTypes, RowsOK, CodeRows, FamilyRows, PairingStaysInTheFamily
<1>5. /\ code' = [code EXCEPT ![q].status = "REDEEMED", ![q].session = id]
      /\ session' = [session EXCEPT ![id] = new]
      /\ family' = family
  BY DEF Effect
<1>6. /\ new.status = "LIVE" /\ new.family = code[q].family /\ new.child = code[q].child
      /\ new \in SessionRows
  BY <1>4 DEF ChildSession, SessionRows
<1> HIDE DEF new
<1>7. /\ session' \in [Sessions -> SessionRows]
      /\ session'[id] = new
      /\ \A s \in Sessions : s # id => session'[s] = session[s]
  BY <1>1, <1>5, <1>6 DEF RowsInv, RowTypes
<1>8. /\ code' \in [Codes -> CodeRows]
      /\ code'[q].status = "REDEEMED" /\ code'[q].session = id
      /\ code'[q].family = code[q].family /\ code'[q].child = code[q].child
      /\ \A k \in Codes : k # q => code'[k] = code[k]
  BY <1>1, <1>3, <1>5 DEF RowsInv, RowTypes, CodeRows
<1>9. RowTypes'
  BY <1>5, <1>7, <1>8 DEF RowsInv, RowTypes
<1>10. family[code[q].family].status = "ACTIVE"
  BY <1>4 DEF RowsInv, RowTypes, RowsOK, FamilyRows
<1>11. RowsOK'
  BY <1>1, <1>3, <1>4, <1>5, <1>6, <1>7, <1>8, <1>10, FamilyApiAssumption
     DEF RowsInv, RowTypes, RowsOK
<1>12. PairingStaysInTheFamily'
  BY <1>1, <1>3, <1>4, <1>5, <1>6, <1>7, <1>8
     DEF RowsInv, RowTypes, RowsOK, PairingStaysInTheFamily
<1>13. Grown
  BY <1>1, <1>3, <1>5, <1>7, <1>8 DEF RowsInv, RowTypes, Grown, NoRow
<1>14. id # None
  BY <1>1, FamilyApiAssumption
<1>15. QED
  BY <1>8, <1>9, <1>11, <1>12, <1>13, <1>14 DEF RowsInv

(* What a served request does for the pages: an accepted one takes one id.   *)
Takes(req, id) ==
  /\ id \in IdsOf(req.op) /\ ~Taken(id) /\ Taken(id)'
  /\ req.op = "addChild" => id \in family'[req.family].children
  /\ req.op = "issuePairingCode" => code'[id].child = req.child /\ Works(code'[id])

LEMMA HandleEffect ==
  ASSUME RowsInv, NEW req \in Requests, Handle(req), NEW id, id = Reply(req)
  PROVE  /\ RowsInv' /\ Grown
         /\ id # None => Takes(req, id)
         /\ \A f \in Families :
              family'[f].status = "ACTIVE" => family[f].status = "ACTIVE" \/ f = id
         /\ \A k \in Codes :
              code[k].status # "ABSENT" /\ Works(code[k]) =>
                \/ Works(code'[k])
                \/ req.op = "issuePairingCode" /\ code[k].child = req.child /\ id # None
<1>1. CASE ~Accepted(req)
  <2>1. UNCHANGED rowVars /\ id = None
    BY <1>1 DEF Handle, Reply
  <2>2. RowsInv'
    BY <2>1 DEF rowVars, RowsInv, RowTypes, RowsOK, PairingStaysInTheFamily
  <2>3. QED
    BY <2>1, <2>2 DEF rowVars, Grown
<1>2. CASE Accepted(req)
  <2>1. id = Fresh(req.op) /\ Unused(req.op) # {} /\ Effect(req, Fresh(req.op))
    BY <1>2 DEF Handle, Reply
  <2>2. id \in Unused(req.op) /\ Effect(req, id)
    BY <2>1, FreshIsUnused DEF Effect
  <2>3. id \in IdsOf(req.op) /\ id # None /\ ~Taken(id)
    BY <2>2, UnusedIsNotTaken
  <2>4. CASE req.op = "signIn"
    <3>1. RowsInv' /\ Grown
      BY <2>2, <2>4, SignInEffect
    <3>2. id \in Sessions /\ UNCHANGED <<family, code>> /\ session'[id].status = "LIVE"
      BY <2>2, <2>4, UnusedIds DEF Effect, RowsInv, RowTypes, ParentSession, NoRow
    <3>3. Taken(id)'
      BY <3>2, FamilyApiAssumption DEF Taken
    <3>4. Takes(req, id)
      BY <2>3, <2>4, <3>3 DEF Takes
    <3>5. QED
      BY <2>2, <2>4, <3>1, <3>2, <3>4
  <2>5. CASE req.op = "createFamily"
    <3>1. RowsInv' /\ Grown
      BY <1>2, <2>2, <2>5, CreateFamilyEffect
    <3>2. id \in Families /\ UNCHANGED code /\ family'[id].status = "ACTIVE"
          /\ \A f \in Families : f # id => family'[f] = family[f]
      <4>1. id \in Families /\ UNCHANGED code
            /\ family' = [family EXCEPT ![id].status = "ACTIVE"]
        BY <2>2, <2>5, UnusedIds DEF Effect
      <4>2. QED
        BY <4>1 DEF RowsInv, RowTypes, FamilyRows
    <3>3. Taken(id)'
      <4>1. id \notin Children \cup Codes \cup Sessions
        BY <3>2, FamilyApiAssumption
      <4>2. QED
        BY <3>2, <4>1 DEF Taken
    <3>4. Takes(req, id)
      BY <2>3, <2>5, <3>3 DEF Takes
    <3>5. QED
      BY <2>2, <2>5, <3>1, <3>2, <3>4
  <2>6. CASE req.op = "addChild"
    <3>1. RowsInv' /\ Grown /\ id \in family'[req.family].children
      BY <1>2, <2>2, <2>6, AddChildEffect
    <3>2. req.family \in Families
      BY <2>6, RequestShapes
    <3>3. id \in Children /\ UNCHANGED code
          /\ \A f \in Families : family'[f].status = family[f].status
      BY <2>2, <2>6, UnusedIds DEF Effect, RowsInv, RowTypes, FamilyRows
    <3>4. Taken(id)'
      BY <3>1, <3>2, <3>3, FamilyApiAssumption DEF Taken
    <3>5. Takes(req, id)
      BY <2>3, <2>6, <3>1, <3>4 DEF Takes
    <3>6. QED
      BY <2>2, <2>6, <3>1, <3>3, <3>5
  <2>7. CASE req.op = "issuePairingCode"
    <3>1. /\ RowsInv' /\ Grown
          /\ code'[id].status = "OUTSTANDING" /\ code'[id].child = req.child
          /\ \A k \in Codes : code[k].status # "ABSENT" /\ code[k].child # req.child
                               => code'[k] = code[k]
      BY <1>2, <2>2, <2>7, IssueEffect
    <3>2. id \in Codes /\ UNCHANGED family
      BY <2>2, <2>7, UnusedIds DEF Effect
    <3>3. Taken(id)'
      BY <3>1, <3>2, FamilyApiAssumption DEF Taken
    <3>4. Takes(req, id)
      BY <2>3, <2>7, <3>1, <3>3 DEF Takes, Works
    <3>5. \A f \in Families : family'[f].status = "ACTIVE" => family[f].status = "ACTIVE"
      BY <3>2
    <3>6. \A k \in Codes :
            code[k].status # "ABSENT" /\ Works(code[k]) =>
              Works(code'[k]) \/ code[k].child = req.child
      BY <3>1
    <3>7. QED
      BY <2>2, <2>3, <2>7, <3>1, <3>4, <3>5, <3>6
  <2>8. CASE req.op = "redeemPairingCode"
    <3>1. /\ RowsInv' /\ Grown
          /\ \A k \in Codes : code'[k] = code[k] \/ code'[k].session # None
      BY <1>2, <2>2, <2>8, RedeemEffect
    <3>2. id \in Sessions /\ UNCHANGED family /\ session'[id].status = "LIVE"
      BY <2>2, <2>8, UnusedIds DEF Effect, RowsInv, RowTypes, ChildSession
    <3>3. Taken(id)'
      BY <3>2, FamilyApiAssumption DEF Taken
    <3>4. Takes(req, id)
      BY <2>3, <2>8, <3>3 DEF Takes
    <3>5. \A k \in Codes : Works(code[k]) => Works(code'[k])
      BY <3>1 DEF Works
    <3>6. QED
      BY <2>2, <2>8, <3>1, <3>2, <3>4, <3>5
  <2>9. QED
    BY <2>4, <2>5, <2>6, <2>7, <2>8, RequestShapes
<1>3. QED
  BY <1>1, <1>2

LEMMA TakenGrows ==
  ASSUME RowsInv, Grown, NEW id, Taken(id)
  PROVE  Taken(id)'
<1>1. \A f \in Families : family[f].status # "ABSENT" => family'[f].status # "ABSENT"
  BY DEF Grown, RowsInv, RowTypes, FamilyRows
<1>2. QED
  BY <1>1 DEF Taken, Grown

LEMMA SameRows ==
  ASSUME RowsInv, UNCHANGED rowVars
  PROVE  RowsInv' /\ Grown
BY DEF rowVars, RowsInv, RowTypes, RowsOK, PairingStaysInTheFamily, Grown

-----------------------------------------------------------------------------
(* What the actions do to the pages. *)

LEMMA OpenedPage ==
  ASSUME NEW screen \in {"SIGN_IN", "SETUP", "DASHBOARD"}
  PROVE  /\ Opened(screen) \in Pages
         /\ Opened(screen).screen = screen /\ Opened(screen).step = "NO_FAMILY"
         /\ ~Opened(screen).busy
         /\ Opened(screen).familyId = None /\ Opened(screen).childId = None
         /\ Opened(screen).pairingCode = None
BY DEF Opened, Pages, Steps

(* A page is opened, and what the one before it knew is gone. *)
LEMMA PageOpens ==
  ASSUME IInv, UNCHANGED <<rowVars, device>>,
         NEW t \in Tabs, NEW screen \in {"SIGN_IN", "SETUP", "DASHBOARD"},
         tab' = [tab EXCEPT ![t] = Opened(screen)],
         calls' \subseteq calls, \A c \in calls' : c.client # t,
         orphans \subseteq orphans',
         \A id \in orphans' \ orphans :
           id \in Held(t) \/ \E c \in calls \ calls' : c.answer # None /\ c.answer = id
  PROVE  PagesOK' /\ CallsOK' /\ OneKeeper' /\ PagesKnow' /\ CodesOK'
<1>1. /\ tab' \in [Tabs -> Pages] /\ tab'[t] = Opened(screen)
      /\ \A u \in Tabs : u # t => tab'[u] = tab[u]
  BY OpenedPage DEF IInv, PagesOK
<1>2. /\ tab'[t].screen = screen /\ tab'[t].step = "NO_FAMILY" /\ ~tab'[t].busy
      /\ tab'[t].familyId = None /\ tab'[t].childId = None /\ tab'[t].pairingCode = None
  BY <1>1, OpenedPage
<1>3. family' = family /\ session' = session /\ code' = code /\ device' = device
  BY DEF rowVars
<1>4. \A id : Taken(id) => Taken(id)'
  BY <1>3 DEF Taken
<1>5. PagesOK'
  BY <1>1, <1>2 DEF IInv, PagesOK
<1>6. CallsOK'
  BY <1>1, <1>3 DEF IInv, CallsOK
<1>7. OneKeeper'
  <2>1. /\ Held(t)' = {}
        /\ \A u \in Tabs : u # t => Held(u)' = Held(u)
    BY <1>1, <1>2 DEF Held
  <2>2. \A id \in orphans' : Taken(id)'
    BY <1>4 DEF IInv, OneKeeper
  <2>3. \A c \in calls' : c.answer # None => Taken(c.answer)' /\ c.answer \notin orphans'
    BY <1>4 DEF IInv, OneKeeper
  <2>4. \A c, d \in calls' : c.answer = d.answer => c = d \/ c.answer = None
    BY DEF IInv, OneKeeper
  <2>5. ASSUME NEW u \in Tabs, NEW id \in Held(u)'
        PROVE  /\ Taken(id)' /\ id \notin orphans'
               /\ \A c \in calls' : c.answer # id
               /\ \A v \in Tabs : id \in Held(v)' => v = u
    <3>1. u # t /\ id \in Held(u)
      BY <2>1, <2>5
    <3>2. /\ Taken(id) /\ id \notin orphans
          /\ \A c \in calls : c.answer # id
          /\ \A v \in Tabs : id \in Held(v) => v = u
      BY <3>1 DEF IInv, OneKeeper
    <3>3. QED
      BY <1>4, <2>1, <3>1, <3>2
  <2>6. QED
    BY <2>2, <2>3, <2>4, <2>5 DEF OneKeeper
<1>8. PagesKnow'
  BY <1>1, <1>2, <1>3 DEF IInv, PagesKnow
<1>9. CodesOK'
  BY <1>1, <1>2, <1>3 DEF IInv, CodesOK, Good
<1>10. QED
  BY <1>5, <1>6, <1>7, <1>8, <1>9

(* A call ends, and its client can be used again. *)
LEMMA CallEnds ==
  ASSUME IInv, UNCHANGED rowVars,
         NEW c \in calls, calls' = calls \ {c},
         PagesOK',
         \A u \in Tabs :
           /\ tab'[u].screen = tab[u].screen /\ tab'[u].step = tab[u].step
           /\ tab'[u].familyId = tab[u].familyId /\ tab'[u].childId = tab[u].childId
           /\ tab'[u].pairingCode = tab[u].pairingCode
           /\ u # c.client => tab'[u].busy = tab[u].busy,
         \A d \in Devices : d # c.client => device'[d] = device[d],
         orphans \subseteq orphans', orphans' \subseteq orphans \cup ({c.answer} \ {None})
  PROVE  CallsOK' /\ OneKeeper' /\ PagesKnow' /\ CodesOK'
<1>1. family' = family /\ session' = session /\ code' = code
  BY DEF rowVars
<1>2. \A id : Taken(id) => Taken(id)'
  BY <1>1 DEF Taken
<1>3. \A u \in Tabs : Held(u)' = Held(u)
  BY DEF Held
<1>4. \A d \in calls' : d \in calls /\ d.client # c.client
  BY DEF IInv, CallsOK
<1>5. \A u \in Tabs : \A req : Awaits(tab[u], req) => Awaits(tab'[u], req)
  BY DEF Awaits
<1>6. CallsOK'
  BY <1>4, <1>5 DEF IInv, CallsOK
<1>7. OneKeeper'
  <2>1. \A id \in orphans' : Taken(id)'
    BY <1>2 DEF IInv, OneKeeper
  <2>2. \A d \in calls' : d.answer # None => Taken(d.answer)' /\ d.answer \notin orphans'
    BY <1>2, <1>4 DEF IInv, OneKeeper
  <2>3. \A d, e \in calls' : d.answer = e.answer => d = e \/ d.answer = None
    BY <1>4 DEF IInv, OneKeeper
  <2>4. \A u \in Tabs : \A id \in Held(u) :
          /\ Taken(id)' /\ id \notin orphans'
          /\ \A d \in calls' : d.answer # id
          /\ \A v \in Tabs : id \in Held(v) => v = u
    BY <1>2, <1>4 DEF IInv, OneKeeper
  <2>5. QED
    BY <1>3, <2>1, <2>2, <2>3, <2>4 DEF OneKeeper
<1>8. PagesKnow'
  BY <1>1, <1>4 DEF IInv, PagesKnow
<1>9. CodesOK'
  BY <1>1, <1>4 DEF IInv, CodesOK, Good
<1>10. QED
  BY <1>6, <1>7, <1>8, <1>9

(* A client that has no call sends a request. *)
LEMMA CallStarts ==
  ASSUME IInv, UNCHANGED <<rowVars, orphans>>,
         NEW client \in Tabs \cup Devices, NEW req \in Requests,
         calls' = calls \cup {Call(client, req)},
         \A c \in calls : c.client # client,
         client \in Tabs => tab'[client].busy /\ Awaits(tab'[client], req),
         client \in Devices => device'[client].busy /\ req.op = "redeemPairingCode",
         \A u \in Tabs :
           /\ tab'[u].familyId = tab[u].familyId /\ tab'[u].childId = tab[u].childId
           /\ tab'[u].pairingCode = tab[u].pairingCode
           /\ u # client => tab'[u] = tab[u],
         \A d \in Devices : d # client => device'[d] = device[d]
  PROVE  CallsOK' /\ OneKeeper' /\ PagesKnow' /\ CodesOK' /\ FamiliesAccountedFor'
         /\ calls' \subseteq Calls
<1>1. family' = family /\ session' = session /\ code' = code
  BY DEF rowVars
<1>2. DEFINE new == Call(client, req)
<1>3. new.client = client /\ new.req = req /\ ~new.served /\ new.answer = None /\ new \in Calls
  BY DEF Call, Calls
<1>4. calls' = calls \cup {new}
  OBVIOUS
<1> HIDE DEF new
<1>5. CallsOK'
  BY <1>3, <1>4 DEF IInv, CallsOK
<1>6. OneKeeper'
  <2>1. \A u \in Tabs : Held(u)' = Held(u) /\ None \notin Held(u)
    BY DEF Held
  <2>2. \A id : Taken(id) => Taken(id)'
    BY <1>1 DEF Taken
  <2>3. \A u \in Tabs : \A id \in Held(u) :
          /\ Taken(id)' /\ id \notin orphans'
          /\ \A d \in calls' : d.answer # id
          /\ \A v \in Tabs : id \in Held(v) => v = u
    BY <1>3, <1>4, <2>1, <2>2 DEF IInv, OneKeeper
  <2>4. /\ \A id \in orphans' : Taken(id)'
        /\ \A c \in calls' : c.answer # None => Taken(c.answer)' /\ c.answer \notin orphans'
        /\ \A c, d \in calls' : c.answer = d.answer => c = d \/ c.answer = None
    BY <1>3, <1>4, <2>2 DEF IInv, OneKeeper
  <2>5. QED
    BY <2>1, <2>3, <2>4 DEF OneKeeper
<1>7. PagesKnow'
  BY <1>1, <1>3, <1>4 DEF IInv, PagesKnow
<1>8. CodesOK'
  BY <1>1, <1>3, <1>4 DEF IInv, CodesOK, Good
<1>9. FamiliesAccountedFor'
  <2>1. \A k \in Codes : Told(k) => Told(k)'
    BY <1>1, <1>3, <1>4, FamilyApiAssumption DEF Told
  <2>2. QED
    BY <1>1, <1>4, <2>1 DEF IInv, FamiliesAccountedFor
<1>10. QED
  BY <1>3, <1>4, <1>5, <1>6, <1>7, <1>8, <1>9 DEF IInv, ClientTypes

-----------------------------------------------------------------------------
(* Each action keeps the invariant. *)

LEMMA OpenSignInStep ==
  ASSUME IInv, NEW t \in Tabs, OpenSignIn(t)
  PROVE  IInv'
<1>1. /\ tab[t].screen = "NONE" /\ tab' = [tab EXCEPT ![t] = Opened("SIGN_IN")]
      /\ UNCHANGED <<rowVars, faultVars, cookie, device, calls>>
  BY DEF OpenSignIn, apiVars
<1>2. ~tab[t].busy /\ tab[t].familyId = None
  BY <1>1 DEF IInv, PagesOK
<1>3. \A c \in calls : c.client # t
  BY <1>2 DEF IInv, CallsOK
<1>4. orphans' = orphans
  BY <1>1 DEF faultVars
<1>5. PagesOK' /\ CallsOK' /\ OneKeeper' /\ PagesKnow' /\ CodesOK'
  BY <1>1, <1>3, <1>4, PageOpens
<1>6. RowsInv' /\ FaultTypes' /\ ClientTypes'
  BY <1>1, SameRows DEF IInv, FaultTypes, ClientTypes, faultVars
<1>7. FamiliesAccountedFor'
  <2>1. \A u \in Tabs : u # t => tab'[u] = tab[u]
    BY <1>1 DEF IInv, PagesOK
  <2>2. \A k \in Codes : Told(k) => Told(k)'
    BY <1>1, <1>4 DEF Told, rowVars
  <2>3. QED
    BY <1>1, <1>2, <1>4, <2>1, <2>2, FamilyApiAssumption
       DEF rowVars, IInv, FamiliesAccountedFor
<1>8. QED
  BY <1>5, <1>6, <1>7 DEF IInv

LEMMA TapStep ==
  ASSUME IInv, NEW t \in Tabs, NEW req \in Requests, Tap(t, req), Awaits(tab[t], req),
         tab[t].screen \in {"SIGN_IN", "SETUP"}
  PROVE  IInv'
<1>1. /\ ~tab[t].busy /\ tab' = [tab EXCEPT ![t].busy = TRUE]
      /\ calls' = calls \cup {Call(t, req)}
      /\ UNCHANGED <<rowVars, faultVars, cookie, device>>
  BY DEF Tap, Enabled, Send, apiVars
<1>2. \A c \in calls : c.client # t
  BY <1>1 DEF IInv, CallsOK
<1>3. /\ tab' \in [Tabs -> Pages] /\ tab'[t].busy
      /\ \A u \in Tabs :
           /\ tab'[u].screen = tab[u].screen /\ tab'[u].step = tab[u].step
           /\ tab'[u].familyId = tab[u].familyId /\ tab'[u].childId = tab[u].childId
           /\ tab'[u].pairingCode = tab[u].pairingCode
           /\ u # t => tab'[u] = tab[u]
  BY <1>1 DEF IInv, PagesOK, Pages
<1>4. Awaits(tab'[t], req)
  BY <1>3 DEF Awaits
<1>5. t \notin Devices
  BY FamilyPagesAssumption
<1>6. /\ UNCHANGED <<rowVars, orphans>> /\ calls' = calls \cup {Call(t, req)}
      /\ \A d \in Devices : device'[d] = device[d]
  BY <1>1 DEF faultVars
<1>7. CallsOK' /\ OneKeeper' /\ PagesKnow' /\ CodesOK' /\ FamiliesAccountedFor'
      /\ calls' \subseteq Calls
  BY <1>2, <1>3, <1>4, <1>5, <1>6, CallStarts
<1>8. PagesOK'
  BY <1>3 DEF IInv, PagesOK
<1>9. RowsInv' /\ FaultTypes' /\ ClientTypes'
  BY <1>1, <1>7, SameRows DEF IInv, FaultTypes, ClientTypes, faultVars
<1>10. QED
  BY <1>7, <1>8, <1>9 DEF IInv

LEMMA TapSignInStep ==
  ASSUME IInv, NEW t \in Tabs, TapSignIn(t)
  PROVE  IInv'
<1>1. tab[t].screen = "SIGN_IN" /\ Tap(t, SignIn)
  BY DEF TapSignIn
<1>2. SignIn \in Requests /\ SignIn.op = "signIn"
  BY DEF Requests, SignIn
<1>3. QED
  BY <1>1, <1>2, TapStep DEF Awaits

LEMMA TapSetupStep ==
  ASSUME IInv, NEW t \in Tabs, TapSetup(t)
  PROVE  IInv'
<1>1. cookie \in Sessions \cup {None} /\ tab[t] \in Pages
  BY DEF IInv, PagesOK, ClientTypes
<1>2. CASE AtStep(t, "NO_FAMILY") /\ Tap(t, CreateFamily(cookie))
  <2>1. CreateFamily(cookie) \in Requests /\ CreateFamily(cookie).op = "createFamily"
    BY <1>1 DEF Requests, CreateFamily
  <2>2. QED
    BY <1>2, <2>1, TapStep DEF AtStep, Awaits
<1>3. CASE AtStep(t, "FAMILY_READY_NO_CHILDREN") /\ Tap(t, AddChild(cookie, tab[t].familyId))
  <2>1. tab[t].familyId \in Families
    BY <1>1, <1>3 DEF AtStep, IInv, PagesOK, Pages
  <2>2. DEFINE req == AddChild(cookie, tab[t].familyId)
  <2>3. req \in Requests /\ req.op = "addChild" /\ req.family = tab[t].familyId
    BY <1>1, <2>1 DEF Requests, AddChild
  <2>4. QED
    BY <1>3, <2>3, TapStep DEF AtStep, Awaits
<1>4. CASE AtStep(t, "CHILD_ADDED") /\ Tap(t, IssueCode(cookie, tab[t].childId))
  <2>1. tab[t].childId \in Children
    BY <1>1, <1>4 DEF AtStep, IInv, PagesOK, Pages
  <2>2. DEFINE req == IssueCode(cookie, tab[t].childId)
  <2>3. req \in Requests /\ req.op = "issuePairingCode" /\ req.child = tab[t].childId
    BY <1>1, <2>1 DEF Requests, IssueCode
  <2>4. QED
    BY <1>4, <2>3, TapStep DEF AtStep, Awaits
<1>5. QED
  BY <1>2, <1>3, <1>4 DEF TapSetup

(* The family of the page that closes is the one of the code it has shown.   *)
LEMMA DoneStep ==
  ASSUME IInv, NEW t \in Tabs, Done(t)
  PROVE  IInv'
<1>1. /\ tab[t].screen = "SETUP" /\ tab[t].step = "CHILD_ACCESS_READY"
      /\ tab' = [tab EXCEPT ![t] = Opened("DASHBOARD")]
      /\ UNCHANGED <<rowVars, faultVars, cookie, device, calls>>
  BY DEF Done, AtStep, apiVars
<1>2. \A c \in calls : c.client # t
  BY <1>1 DEF IInv, CallsOK, Awaits
<1>3. orphans' = orphans
  BY <1>1 DEF faultVars
<1>4. PagesOK' /\ CallsOK' /\ OneKeeper' /\ PagesKnow' /\ CodesOK'
  BY <1>1, <1>2, <1>3, PageOpens
<1>5. RowsInv' /\ FaultTypes' /\ ClientTypes'
  BY <1>1, SameRows DEF IInv, FaultTypes, ClientTypes, faultVars
<1>6. FamiliesAccountedFor'
  <2>1. \A u \in Tabs : u # t => tab'[u] = tab[u]
    BY <1>1 DEF IInv, PagesOK
  <2>2. \A k \in Codes : Told(k) => Told(k)'
    BY <1>1, <1>3 DEF Told, rowVars
  <2>3. /\ tab[t].familyId \in Families /\ tab[t].childId \in Children
        /\ tab[t].pairingCode \in Codes
    BY <1>1 DEF IInv, PagesOK, Pages
  <2>4. Told(tab[t].pairingCode)
    BY <2>3, FamilyApiAssumption DEF IInv, OneKeeper, Held, Taken, Told
  <2>5. code[tab[t].pairingCode].family = tab[t].familyId
    <3>1. /\ code[tab[t].pairingCode].child = tab[t].childId
          /\ tab[t].childId \in family[tab[t].familyId].children
      BY <2>3, FamilyApiAssumption DEF IInv, PagesKnow
    <3>2. /\ code[tab[t].pairingCode].family \in Families
          /\ tab[t].childId \in family[code[tab[t].pairingCode].family].children
      BY <2>3, <2>4, <3>1
         DEF Told, IInv, RowsInv, RowTypes, CodeRows, RowsOK, PairingStaysInTheFamily
    <3>3. QED
      BY <2>3, <3>1, <3>2 DEF IInv, RowsInv, RowsOK
  <2>6. QED
    BY <1>1, <1>3, <2>1, <2>2, <2>3, <2>4, <2>5 DEF rowVars, IInv, FamiliesAccountedFor
<1>7. QED
  BY <1>4, <1>5, <1>6 DEF IInv

LEMMA TypeCodeStep ==
  ASSUME IInv, NEW d \in Devices, NEW k \in Codes, TypeCode(d, k)
  PROVE  IInv'
<1>1. /\ ~device[d].busy /\ device' = [device EXCEPT ![d].busy = TRUE]
      /\ calls' = calls \cup {Call(d, Redeem(k))}
      /\ UNCHANGED <<rowVars, faultVars, cookie, tab>>
  BY DEF TypeCode, Send, apiVars
<1>2. \A c \in calls : c.client # d
  BY <1>1 DEF IInv, CallsOK
<1>3. /\ device' \in [Devices -> [busy : BOOLEAN, session : Sessions \cup {None}]]
      /\ device'[d].busy
      /\ \A e \in Devices : e # d => device'[e] = device[e]
  BY <1>1 DEF IInv, ClientTypes
<1>4. Redeem(k) \in Requests /\ Redeem(k).op = "redeemPairingCode"
  BY DEF Requests, Redeem
<1>5. d \notin Tabs
  BY FamilyPagesAssumption
<1>6. orphans' = orphans /\ tab' = tab
  BY <1>1 DEF faultVars
<1>7. CallsOK' /\ OneKeeper' /\ PagesKnow' /\ CodesOK' /\ FamiliesAccountedFor'
      /\ calls' \subseteq Calls
  BY <1>1, <1>2, <1>3, <1>4, <1>5, <1>6, CallStarts
<1>8. RowsInv' /\ FaultTypes' /\ PagesOK' /\ ClientTypes'
  BY <1>1, <1>3, <1>7, SameRows DEF IInv, FaultTypes, PagesOK, ClientTypes, faultVars
<1>9. QED
  BY <1>7, <1>8 DEF IInv

LEMMA SignedInStep ==
  ASSUME IInv, NEW c \in calls, SignedIn(c)
  PROVE  IInv'
<1>1. /\ c.answer # None /\ c.req.op = "signIn"
      /\ cookie' = c.answer /\ calls' = calls \ {c}
      /\ tab' = [tab EXCEPT ![c.client] =
                   Opened(IF session[c.answer].family = None THEN "SETUP" ELSE "DASHBOARD")]
      /\ UNCHANGED <<rowVars, faultVars, device>>
  BY DEF SignedIn, Answered, apiVars
<1>2. DEFINE t == c.client
             screen == IF session[c.answer].family = None THEN "SETUP" ELSE "DASHBOARD"
<1>3. t \in Tabs /\ c.answer \in Sessions
  BY <1>1, IdsOfIs DEF IInv, CallsOK, ClientTypes, Calls
<1>4. tab[t].familyId = None
  BY <1>1, <1>3 DEF IInv, CallsOK, Awaits, PagesOK
<1>5. screen \in {"SIGN_IN", "SETUP", "DASHBOARD"} /\ tab' = [tab EXCEPT ![t] = Opened(screen)]
  BY <1>1
<1> HIDE DEF screen
<1>6. PICK page \in {"SIGN_IN", "SETUP", "DASHBOARD"} : tab' = [tab EXCEPT ![t] = Opened(page)]
  BY <1>5
<1>7. calls' \subseteq calls /\ \A d \in calls' : d.client # t
  BY <1>1 DEF IInv, CallsOK
<1>8. orphans' = orphans
  BY <1>1 DEF faultVars
<1>9. PagesOK' /\ CallsOK' /\ OneKeeper' /\ PagesKnow' /\ CodesOK'
  BY <1>1, <1>3, <1>6, <1>7, <1>8, PageOpens
<1>10. RowsInv' /\ FaultTypes' /\ ClientTypes'
  BY <1>1, <1>3, SameRows DEF IInv, FaultTypes, ClientTypes, faultVars
<1>11. FamiliesAccountedFor'
  <2>1. \A u \in Tabs : u # t => tab'[u] = tab[u]
    BY <1>6 DEF IInv, PagesOK
  <2>2. \A k \in Codes : Told(k) => Told(k)'
    BY <1>1, <1>8 DEF Told, rowVars
  <2>3. c.answer \notin Families
    BY <1>3, FamilyApiAssumption
  <2>4. QED
    BY <1>1, <1>4, <1>8, <2>1, <2>2, <2>3, FamilyApiAssumption
       DEF rowVars, IInv, FamiliesAccountedFor
<1>12. QED
  BY <1>9, <1>10, <1>11 DEF IInv

LEMMA PairedStep ==
  ASSUME IInv, NEW c \in calls, Paired(c)
  PROVE  IInv'
<1>1. /\ c.answer # None /\ c.req.op = "redeemPairingCode" /\ calls' = calls \ {c}
      /\ device' = [device EXCEPT ![c.client] = [busy |-> FALSE, session |-> c.answer]]
      /\ UNCHANGED <<rowVars, faultVars, cookie, tab>>
  BY DEF Paired, Answered, apiVars
<1>2. c.client \in Devices /\ c.answer \in Sessions
  BY <1>1, IdsOfIs DEF IInv, CallsOK, Awaits, ClientTypes, Calls
<1>3. /\ device' \in [Devices -> [busy : BOOLEAN, session : Sessions \cup {None}]]
      /\ \A d \in Devices : d # c.client => device'[d] = device[d]
  BY <1>1, <1>2 DEF IInv, ClientTypes
<1>4. orphans' = orphans /\ tab' = tab
  BY <1>1 DEF faultVars
<1>5. PagesOK'
  BY <1>4 DEF IInv, PagesOK
<1>6. CallsOK' /\ OneKeeper' /\ PagesKnow' /\ CodesOK'
  BY <1>1, <1>3, <1>4, <1>5, CallEnds
<1>7. RowsInv' /\ FaultTypes' /\ ClientTypes'
  BY <1>1, <1>3, SameRows DEF IInv, FaultTypes, ClientTypes, faultVars
<1>8. FamiliesAccountedFor'
  <2>1. \A k \in Codes : Told(k) => Told(k)'
    BY <1>1, <1>4 DEF Told, rowVars
  <2>2. c.answer \notin Families
    BY <1>2, FamilyApiAssumption
  <2>3. QED
    BY <1>1, <1>4, <2>1, <2>2 DEF rowVars, IInv, FamiliesAccountedFor
<1>9. QED
  BY <1>5, <1>6, <1>7, <1>8 DEF IInv

(* The call fails or is refused: an id it was given has no other keeper.     *)
LEMMA IdleStep ==
  ASSUME IInv, NEW c \in calls, Idle(c.client), calls' = calls \ {c},
         UNCHANGED <<rowVars, cookie>>, FaultTypes',
         orphans' = orphans \cup ({c.answer} \ {None})
  PROVE  IInv'
<1>1. \A u \in Tabs :
        tab'[u] = IF u = c.client THEN [tab[u] EXCEPT !.busy = FALSE] ELSE tab[u]
  BY DEF Idle
<1>2. \A d \in Devices :
        device'[d] = IF d = c.client THEN [device[d] EXCEPT !.busy = FALSE] ELSE device[d]
  BY DEF Idle
<1>3. device' \in [Devices -> [busy : BOOLEAN, session : Sessions \cup {None}]]
  BY DEF Idle, IInv, ClientTypes
<1>4. /\ tab' \in [Tabs -> Pages]
      /\ \A u \in Tabs :
           /\ tab'[u].screen = tab[u].screen /\ tab'[u].step = tab[u].step
           /\ tab'[u].familyId = tab[u].familyId /\ tab'[u].childId = tab[u].childId
           /\ tab'[u].pairingCode = tab[u].pairingCode
           /\ u # c.client => tab'[u].busy = tab[u].busy
           /\ u = c.client => tab'[u].busy = FALSE
  <2>1. ASSUME NEW u \in Tabs, u = c.client
        PROVE  /\ tab'[u] \in Pages /\ tab'[u].busy = FALSE
               /\ tab'[u].screen = tab[u].screen /\ tab'[u].step = tab[u].step
               /\ tab'[u].familyId = tab[u].familyId /\ tab'[u].childId = tab[u].childId
               /\ tab'[u].pairingCode = tab[u].pairingCode
    <3>1. tab'[u] = [tab[u] EXCEPT !.busy = FALSE] /\ tab[u] \in Pages
      BY <1>1, <2>1 DEF IInv, PagesOK
    <3>2. QED
      BY <3>1 DEF Pages
  <2>2. \A u \in Tabs : u # c.client => tab'[u] = tab[u] /\ tab'[u] \in Pages
    BY <1>1 DEF IInv, PagesOK
  <2>3. tab' = [u \in Tabs |-> tab'[u]]
    BY DEF Idle
  <2>4. QED
    BY <2>1, <2>2, <2>3
<1>5. PagesOK'
  <2>1. ASSUME NEW u \in Tabs
        PROVE  /\ tab'[u].familyId = None <=> tab'[u].step = "NO_FAMILY"
               /\ tab'[u].childId = None
                    <=> tab'[u].step \in {"NO_FAMILY", "FAMILY_READY_NO_CHILDREN"}
               /\ tab'[u].pairingCode # None <=> tab'[u].step = "CHILD_ACCESS_READY"
               /\ tab'[u].screen # "SETUP" => tab'[u].step = "NO_FAMILY"
    BY <1>4 DEF IInv, PagesOK
  <2>2. \A u \in Tabs : tab'[u].screen \in {"NONE", "DASHBOARD"} => ~tab'[u].busy
    BY <1>4 DEF IInv, PagesOK
  <2>3. QED
    BY <1>4, <2>1, <2>2 DEF PagesOK
<1>6. \A d \in Devices : d # c.client => device'[d] = device[d]
  BY <1>2
<1>7. CallsOK' /\ OneKeeper' /\ PagesKnow' /\ CodesOK'
  <2>1. orphans \subseteq orphans' /\ orphans' \subseteq orphans \cup ({c.answer} \ {None})
    OBVIOUS
  <2>2. UNCHANGED rowVars /\ calls' = calls \ {c}
    OBVIOUS
  <2>3. QED
    BY ONLY IInv, c \in calls, <1>4, <1>5, <1>6, <2>1, <2>2, CallEnds
<1>8. RowsInv' /\ ClientTypes'
  BY <1>3, SameRows DEF IInv, ClientTypes
<1>9. FamiliesAccountedFor'
  <2>1. \A k \in Codes : Told(k) => Told(k)'
    BY DEF Told, rowVars
  <2>2. ASSUME NEW f \in Families, family'[f].status = "ACTIVE"
        PROVE  \/ f \in orphans'
               \/ \E t \in Tabs : tab'[t].familyId = f
               \/ \E k \in Codes : Told(k)' /\ code'[k].family = f
               \/ \E d \in calls' : d.answer = f
    BY <1>4, <2>1, <2>2, FamilyApiAssumption DEF rowVars, IInv, FamiliesAccountedFor
  <2>3. QED
    BY <2>2 DEF FamiliesAccountedFor
<1>10. QED
  BY <1>5, <1>7, <1>8, <1>9 DEF IInv

LEMMA RefusedStep ==
  ASSUME IInv, NEW c \in calls, Refused(c)
  PROVE  IInv'
<1>1. /\ c.answer = None /\ Idle(c.client) /\ calls' = calls \ {c}
      /\ UNCHANGED <<rowVars, faultVars, cookie>>
  BY DEF Refused, apiVars
<1>2. FaultTypes' /\ orphans' = orphans
  BY <1>1 DEF faultVars, IInv, FaultTypes
<1>3. QED
  BY <1>1, <1>2, IdleStep

LEMMA MayStrayTypes ==
  ASSUME IInv, NEW c \in calls, MayStray(c.req) \/ stray' = stray
  PROVE  stray' \in Requests \cup {None}
BY DEF MayStray, IInv, FaultTypes, ClientTypes, Calls

LEMMA CallFailsStep ==
  ASSUME IInv, NEW c \in calls, CallFails(c)
  PROVE  IInv'
<1>1. /\ Fault /\ (MayStray(c.req) \/ stray' = stray)
      /\ orphans' = orphans \cup ({c.answer} \ {None})
      /\ Idle(c.client) /\ calls' = calls \ {c} /\ UNCHANGED <<rowVars, cookie>>
  BY DEF CallFails
<1>2. faults' \in 0 .. MaxFaults
  BY <1>1, FamilyApiAssumption DEF Fault, IInv, FaultTypes
<1>3. c.answer \in Families \cup Children \cup Codes \cup Sessions \cup {None}
  BY DEF IInv, ClientTypes, Calls
<1>4. FaultTypes'
  BY <1>1, <1>2, <1>3, MayStrayTypes DEF IInv, FaultTypes
<1>5. QED
  BY <1>1, <1>4, IdleStep

(* The new page has a family, child or code more, that no other page has.    *)
LEMMA SetupReturnsStep ==
  ASSUME IInv, NEW c \in calls, SetupReturns(c)
  PROVE  IInv'
<1>1. PICK op \in {"createFamily", "addChild", "issuePairingCode"} :
        /\ c.answer # None /\ c.req.op = op
        /\ tab' = [tab EXCEPT ![c.client] = AfterSetup(@, op, c.answer)]
  BY DEF SetupReturns, Answered
<1>2. calls' = calls \ {c} /\ UNCHANGED <<rowVars, faultVars, cookie, device>>
  BY DEF SetupReturns, apiVars
<1>3. DEFINE t == c.client
             old == tab[t]
             new == AfterSetup(old, op, c.answer)
<1>4. t \in Tabs /\ c.answer \in IdsOf(op) /\ old.busy /\ Awaits(old, c.req) /\ old \in Pages
  BY <1>1 DEF IInv, CallsOK, ClientTypes, Calls, PagesOK
<1>5. /\ new \in Pages /\ ~new.busy /\ new.screen = old.screen
      /\ \/ /\ op = "createFamily" /\ old.step = "NO_FAMILY"
            /\ new.step = "FAMILY_READY_NO_CHILDREN" /\ c.answer \in Families
            /\ new.familyId = c.answer /\ new.childId = old.childId
            /\ new.pairingCode = old.pairingCode
         \/ /\ op = "addChild" /\ old.step = "FAMILY_READY_NO_CHILDREN"
            /\ new.step = "CHILD_ADDED" /\ c.answer \in Children
            /\ c.req.family = old.familyId
            /\ new.familyId = old.familyId /\ new.childId = c.answer
            /\ new.pairingCode = old.pairingCode
         \/ /\ op = "issuePairingCode" /\ old.step = "CHILD_ADDED"
            /\ new.step = "CHILD_ACCESS_READY" /\ c.answer \in Codes
            /\ c.req.child = old.childId
            /\ new.familyId = old.familyId /\ new.childId = old.childId
            /\ new.pairingCode = c.answer
  <2>1. CASE op = "createFamily"
    BY <1>1, <1>4, <2>1, IdsOfIs DEF Awaits, AfterSetup, Pages, Steps
  <2>2. CASE op = "addChild"
    BY <1>1, <1>4, <2>2, IdsOfIs DEF Awaits, AfterSetup, Pages, Steps
  <2>3. CASE op = "issuePairingCode"
    BY <1>1, <1>4, <2>3, IdsOfIs DEF Awaits, AfterSetup, Pages, Steps
  <2>4. QED
    BY <2>1, <2>2, <2>3
<1>6. /\ tab' \in [Tabs -> Pages] /\ tab'[t] = new
      /\ \A u \in Tabs : u # t => tab'[u] = tab[u]
  BY <1>1, <1>4, <1>5 DEF IInv, PagesOK
<1> HIDE DEF new
<1>7. old.screen = "SETUP"
  BY <1>1, <1>4 DEF Awaits, IInv, PagesOK
<1>8. family' = family /\ session' = session /\ code' = code /\ orphans' = orphans
      /\ device' = device
  BY <1>2 DEF rowVars, faultVars
<1>9. \A id : Taken(id) => Taken(id)'
  BY <1>8 DEF Taken
<1>10. \A d \in calls' : d \in calls /\ d.client # t
  BY <1>2 DEF IInv, CallsOK
<1>11. PagesOK'
  <2>1. /\ old.familyId = None <=> old.step = "NO_FAMILY"
        /\ old.childId = None <=> old.step \in {"NO_FAMILY", "FAMILY_READY_NO_CHILDREN"}
        /\ old.pairingCode # None <=> old.step = "CHILD_ACCESS_READY"
    BY <1>4 DEF IInv, PagesOK
  <2>2. /\ new.familyId = None <=> new.step = "NO_FAMILY"
        /\ new.childId = None <=> new.step \in {"NO_FAMILY", "FAMILY_READY_NO_CHILDREN"}
        /\ new.pairingCode # None <=> new.step = "CHILD_ACCESS_READY"
    BY <1>1, <1>5, <2>1
  <2>3. QED
    BY <1>5, <1>6, <1>7, <2>2 DEF IInv, PagesOK
<1>12. CallsOK'
  BY <1>6, <1>8, <1>10 DEF IInv, CallsOK
<1>13. OneKeeper'
  <2>1. /\ \A u \in Tabs : u # t => Held(u)' = Held(u)
        /\ Held(t)' \subseteq Held(t) \cup {c.answer}
    BY <1>5, <1>6 DEF Held
  <2>2. \A u \in Tabs : \A id \in Held(u) :
          /\ Taken(id)' /\ id \notin orphans' /\ id # c.answer
          /\ \A d \in calls' : d.answer # id
          /\ \A v \in Tabs : id \in Held(v) => v = u
    BY <1>8, <1>9, <1>10 DEF IInv, OneKeeper
  <2>3. /\ Taken(c.answer)' /\ c.answer \notin orphans'
        /\ \A d \in calls' : d.answer # c.answer
    BY <1>1, <1>2, <1>8, <1>9 DEF IInv, OneKeeper
  <2>4. ASSUME NEW u \in Tabs, NEW id \in Held(u)'
        PROVE  /\ Taken(id)' /\ id \notin orphans'
               /\ \A d \in calls' : d.answer # id
               /\ \A v \in Tabs : id \in Held(v)' => v = u
    <3>1. CASE id = c.answer
      <4>1. \A v \in Tabs : id \notin Held(v)
        BY <2>2, <3>1
      <4>2. \A v \in Tabs : id \in Held(v)' => v = t
        BY <2>1, <4>1
      <4>3. QED
        BY <2>3, <2>4, <3>1, <4>2
    <3>2. CASE id # c.answer
      <4>1. \A v \in Tabs : id \in Held(v)' => id \in Held(v)
        BY <2>1, <3>2
      <4>2. QED
        BY <2>2, <2>4, <4>1
    <3>3. QED
      BY <3>1, <3>2
  <2>5. /\ \A id \in orphans' : Taken(id)'
        /\ \A d \in calls' : d.answer # None => Taken(d.answer)' /\ d.answer \notin orphans'
        /\ \A d, e \in calls' : d.answer = e.answer => d = e \/ d.answer = None
    BY <1>8, <1>9, <1>10 DEF IInv, OneKeeper
  <2>6. QED
    BY <2>4, <2>5 DEF OneKeeper
<1>14. PagesKnow'
  <2>1. /\ new.childId # None => new.childId \in family[new.familyId].children
        /\ new.pairingCode # None => code[new.pairingCode].child = new.childId
    <3>1. /\ old.childId # None => old.childId \in family[old.familyId].children
          /\ old.pairingCode # None => code[old.pairingCode].child = old.childId
          /\ old.familyId = None => old.childId = None
          /\ old.childId = None => old.pairingCode = None
      BY <1>4 DEF IInv, PagesKnow, PagesOK
    <3>2. /\ op = "addChild" => c.answer \in family[c.req.family].children
          /\ op = "issuePairingCode" => code[c.answer].child = c.req.child
      BY <1>1 DEF IInv, PagesKnow
    <3>3. old.step \in {"NO_FAMILY", "FAMILY_READY_NO_CHILDREN"} => old.childId = None
      BY <1>4 DEF IInv, PagesOK
    <3>4. CASE op = "createFamily"
      BY <1>5, <3>1, <3>3, <3>4
    <3>5. CASE op = "addChild"
      <4>1. /\ old.step = "FAMILY_READY_NO_CHILDREN" /\ c.req.family = old.familyId
            /\ new.familyId = old.familyId /\ new.childId = c.answer
            /\ new.pairingCode = old.pairingCode
        BY <1>5, <3>5
      <4>2. new.pairingCode = None
        BY <3>1, <3>3, <4>1
      <4>3. new.childId \in family[new.familyId].children
        BY <3>2, <3>5, <4>1
      <4>4. QED
        BY <4>2, <4>3
    <3>6. CASE op = "issuePairingCode"
      BY <1>5, <3>1, <3>2, <3>6
    <3>7. QED
      BY <3>4, <3>5, <3>6
  <2>2. QED
    BY <1>6, <1>8, <1>10, <2>1 DEF IInv, PagesKnow
<1>15. CodesOK'
  <2>1. new.pairingCode # None => Good(new.pairingCode)
    BY <1>1, <1>4, <1>5 DEF IInv, CodesOK
  <2>2. \A k : Good(k) => Good(k)'
    BY <1>8 DEF Good
  <2>3. QED
    BY <1>6, <1>10, <2>1, <2>2 DEF IInv, CodesOK
<1>16. FamiliesAccountedFor'
  <2>1. \A k \in Codes : Told(k) => Told(k)'
    BY <1>8, <1>10 DEF Told
  <2>2. \A f \in Families : f = old.familyId \/ f = c.answer => new.familyId = f
    <3>1. old.step = "NO_FAMILY" => old.familyId = None
      BY <1>4 DEF IInv, PagesOK
    <3>2. QED
      BY <1>5, <3>1, FamilyApiAssumption
  <2>3. QED
    BY <1>2, <1>4, <1>6, <1>8, <2>1, <2>2 DEF IInv, FamiliesAccountedFor
<1>17. RowsInv' /\ FaultTypes' /\ ClientTypes'
  BY <1>2, SameRows DEF IInv, FaultTypes, ClientTypes, faultVars
<1>18. QED
  BY <1>11, <1>12, <1>13, <1>14, <1>15, <1>16, <1>17 DEF IInv

(* What the page knew, and the answers on their way to it, have no client.   *)
LEMMA ReopenStep ==
  ASSUME IInv, NEW t \in Tabs, NEW screen \in {"SIGN_IN", "SETUP"}, Reopen(t, screen)
  PROVE  IInv'
<1>1. DEFINE abandoned == {c \in calls : c.client = t}
             known == {tab[t].familyId, tab[t].childId, tab[t].pairingCode}
<1>2. /\ Fault /\ tab' = [tab EXCEPT ![t] = Opened(screen)]
      /\ calls' = calls \ abandoned
      /\ orphans' = orphans \cup ((known \cup {c.answer : c \in abandoned}) \ {None})
      /\ UNCHANGED <<rowVars, cookie, device>>
  BY DEF Reopen
<1>3. stray' \in Requests \cup {None}
  <2>1. stray' = stray \/ \E c \in calls : MayStray(c.req)
    BY DEF Reopen
  <2>2. QED
    BY <2>1, MayStrayTypes DEF IInv, FaultTypes
<1>4. calls' \subseteq calls /\ \A c \in calls' : c.client # t
  BY <1>2
<1>5. \A id \in orphans' \ orphans :
        id \in Held(t) \/ \E c \in calls \ calls' : c.answer # None /\ c.answer = id
  BY <1>2 DEF Held
<1>6. PagesOK' /\ CallsOK' /\ OneKeeper' /\ PagesKnow' /\ CodesOK'
  <2>1. screen \in {"SIGN_IN", "SETUP", "DASHBOARD"} /\ orphans \subseteq orphans'
    BY <1>2
  <2>2. QED
    BY <1>2, <1>4, <1>5, <2>1, PageOpens
<1>7. FaultTypes'
  <2>1. faults' \in 0 .. MaxFaults
    BY <1>2, FamilyApiAssumption DEF Fault, IInv, FaultTypes
  <2>2. known \ {None} \subseteq Families \cup Children \cup Codes \cup Sessions
    BY DEF IInv, PagesOK, Pages
  <2>3. \A c \in calls : c.answer \in Families \cup Children \cup Codes \cup Sessions \cup {None}
    BY DEF IInv, ClientTypes, Calls
  <2>4. QED
    BY <1>2, <1>3, <2>1, <2>2, <2>3 DEF IInv, FaultTypes
<1>8. RowsInv' /\ ClientTypes'
  BY <1>2, SameRows DEF IInv, ClientTypes
<1>9. FamiliesAccountedFor'
  <2>1. \A u \in Tabs : u # t => tab'[u] = tab[u]
    BY <1>2 DEF IInv, PagesOK
  <2>2. ASSUME NEW k \in Codes, Told(k), k # tab[t].pairingCode
        PROVE  Told(k)'
    <3>1. k # tab[t].familyId /\ k # tab[t].childId
      BY FamilyApiAssumption DEF IInv, PagesOK, Pages
    <3>2. k \notin orphans' /\ \A c \in calls' : c.answer # k
      BY <1>2, <2>2, <3>1 DEF Told
    <3>3. QED
      BY <1>2, <2>2, <3>2 DEF Told, rowVars
  <2>3. ASSUME NEW k \in Codes, k = tab[t].pairingCode
        PROVE  code[k].family \in orphans'
    <3>1. /\ tab[t].familyId \in Families /\ tab[t].childId \in Children
      BY <2>3, FamilyApiAssumption DEF IInv, PagesOK, Pages
    <3>2. code[k].child = tab[t].childId /\ tab[t].childId \in family[tab[t].familyId].children
      BY <2>3, <3>1, FamilyApiAssumption DEF IInv, PagesKnow
    <3>3. code[k].status # "ABSENT"
      BY <2>3, FamilyApiAssumption DEF IInv, OneKeeper, Held, Taken
    <3>4. code[k].family \in Families /\ code[k].child \in family[code[k].family].children
      BY <3>3 DEF IInv, RowsInv, RowTypes, CodeRows, RowsOK, PairingStaysInTheFamily
    <3>5. code[k].family = tab[t].familyId
      BY <3>1, <3>2, <3>4 DEF IInv, RowsInv, RowsOK
    <3>6. QED
      BY <1>2, <3>4, <3>5, FamilyApiAssumption
  <2>4. ASSUME NEW f \in Families, family'[f].status = "ACTIVE"
        PROVE  \/ f \in orphans'
               \/ \E u \in Tabs : tab'[u].familyId = f
               \/ \E k \in Codes : Told(k)' /\ code'[k].family = f
               \/ \E c \in calls' : c.answer = f
    <3>1. \/ f \in orphans
          \/ \E u \in Tabs : tab[u].familyId = f
          \/ \E k \in Codes : Told(k) /\ code[k].family = f
          \/ \E c \in calls : c.answer = f
      BY <1>2, <2>4 DEF rowVars, IInv, FamiliesAccountedFor
    <3>2. f # None
      BY FamilyApiAssumption
    <3>3. CASE f \in orphans
      BY <1>2, <3>3
    <3>4. CASE \E u \in Tabs : tab[u].familyId = f
      BY <1>2, <2>1, <3>2, <3>4
    <3>5. CASE \E k \in Codes : Told(k) /\ code[k].family = f
      BY <1>2, <2>2, <2>3, <3>5 DEF rowVars
    <3>6. CASE \E c \in calls : c.answer = f
      BY <1>2, <3>2, <3>6
    <3>7. QED
      BY <3>1, <3>3, <3>4, <3>5, <3>6
  <2>5. QED
    BY <2>4 DEF FamiliesAccountedFor
<1>10. QED
  BY <1>6, <1>7, <1>8, <1>9 DEF IInv

-----------------------------------------------------------------------------
(* The steps that change rows. *)

LEMMA KnownToPages ==
  ASSUME IInv, Grown, NEW t \in Tabs
  PROVE  /\ tab[t].childId # None => tab[t].childId \in family'[tab[t].familyId].children
         /\ tab[t].pairingCode # None =>
              /\ tab[t].pairingCode \in Codes /\ code[tab[t].pairingCode].status # "ABSENT"
              /\ code[tab[t].pairingCode].child = tab[t].childId
              /\ code'[tab[t].pairingCode].child = tab[t].childId
<1>1. tab[t] \in Pages
  BY DEF IInv, PagesOK
<1>2. ASSUME tab[t].childId # None
      PROVE  tab[t].childId \in family'[tab[t].familyId].children
  <2>1. tab[t].familyId \in Families
    BY <1>1, <1>2 DEF Pages, IInv, PagesOK
  <2>2. QED
    BY <1>2, <2>1 DEF IInv, PagesKnow, Grown
<1>3. ASSUME tab[t].pairingCode # None
      PROVE  /\ tab[t].pairingCode \in Codes /\ code[tab[t].pairingCode].status # "ABSENT"
             /\ code[tab[t].pairingCode].child = tab[t].childId
  BY <1>1, <1>3 DEF Pages, IInv, OneKeeper, Held, Taken, PagesKnow
<1>4. QED
  BY <1>2, <1>3 DEF Grown

LEMMA KnownToCalls ==
  ASSUME IInv, Grown, NEW c \in calls, c.answer # None
  PROVE  /\ c.req.op = "addChild" => c.answer \in family'[c.req.family].children
         /\ c.req.op = "issuePairingCode" =>
              /\ c.answer \in Codes /\ code[c.answer].status # "ABSENT"
              /\ code[c.answer].child = c.req.child /\ code'[c.answer].child = c.req.child
<1>1. c.req \in Requests /\ c.answer \in IdsOf(c.req.op) /\ Taken(c.answer)
  BY DEF IInv, ClientTypes, Calls, CallsOK, OneKeeper
<1>2. CASE c.req.op = "addChild"
  BY <1>1, <1>2, RequestShapes DEF IInv, PagesKnow, Grown
<1>3. CASE c.req.op = "issuePairingCode"
  BY <1>1, <1>3, IdsOfIs DEF IInv, PagesKnow, Grown, Taken
<1>4. QED
  BY <1>2, <1>3

(* A good code stays good while no request puts another in its place.        *)
LEMMA GoodStays ==
  ASSUME IInv, Grown, NEW k \in Codes, Good(k), Works(code[k]) => Works(code'[k]),
         code[k].status # "ABSENT", orphans \subseteq orphans'
  PROVE  Good(k)'
<1>1. CASE Works(code[k])
  BY <1>1 DEF Good
<1>2. CASE \E o \in orphans \cap Codes : code[o].child = code[k].child
  <2>1. PICK o \in orphans \cap Codes : code[o].child = code[k].child
    BY <1>2
  <2>2. code[o].status # "ABSENT"
    BY DEF IInv, OneKeeper, Taken
  <2>3. code'[o].child = code[o].child /\ code'[k].child = code[k].child
    BY <2>2 DEF Grown
  <2>4. QED
    BY <2>1, <2>3 DEF Good
<1>3. QED
  BY <1>1, <1>2 DEF Good

LEMMA ServeStep ==
  ASSUME IInv, NEW c \in calls, Serve(c)
  PROVE  IInv'
<1>1. PICK id : id = Reply(c.req)
  OBVIOUS
<1>2. DEFINE new == [c EXCEPT !.served = TRUE, !.answer = id]
<1>3. /\ ~c.served /\ Handle(c.req) /\ calls' = (calls \ {c}) \cup {new}
      /\ UNCHANGED <<faultVars, cookie, tab, device>>
  BY <1>1 DEF Serve
<1>4. c \in Calls /\ c.req \in Requests /\ c.answer = None
  BY <1>3 DEF IInv, ClientTypes, Calls, CallsOK
<1>5. /\ RowsInv' /\ Grown
      /\ id # None => Takes(c.req, id)
      /\ \A f \in Families :
           family'[f].status = "ACTIVE" => family[f].status = "ACTIVE" \/ f = id
      /\ \A k \in Codes :
           code[k].status # "ABSENT" /\ Works(code[k]) =>
             \/ Works(code'[k])
             \/ c.req.op = "issuePairingCode" /\ code[k].child = c.req.child /\ id # None
  BY <1>1, <1>3, <1>4, HandleEffect DEF IInv
<1>6. /\ new.client = c.client /\ new.req = c.req /\ new.served /\ new.answer = id
  BY <1>4 DEF Calls
<1>7. id # None => /\ id \in IdsOf(c.req.op) /\ ~Taken(id) /\ Taken(id)'
                   /\ id \in Families \cup Children \cup Codes \cup Sessions
  BY <1>5 DEF Takes, IdsOf
<1>8. new \in Calls
  BY <1>4, <1>7 DEF Calls
<1> HIDE DEF new
<1>9. \A k : Taken(k) => Taken(k)'
  BY <1>5, TakenGrows DEF IInv
<1>10. orphans' = orphans /\ tab' = tab /\ device' = device
  BY <1>3 DEF faultVars
<1>11. FaultTypes' /\ PagesOK' /\ ClientTypes'
  BY <1>3, <1>8 DEF faultVars, IInv, FaultTypes, PagesOK, ClientTypes
<1>12. CallsOK'
  BY <1>3, <1>6, <1>7, <1>10 DEF IInv, CallsOK
<1>13. OneKeeper'
  <2>1. \A u \in Tabs : Held(u)' = Held(u)
    BY <1>10 DEF Held
  <2>2. /\ id # None => id \notin orphans
        /\ id # None => \A d \in calls : d.answer # id
        /\ id # None => \A u \in Tabs : id \notin Held(u)
    BY <1>7 DEF IInv, OneKeeper
  <2>3. \A k \in orphans' : Taken(k)'
    BY <1>9, <1>10 DEF IInv, OneKeeper
  <2>4. \A d \in calls' : d.answer # None => Taken(d.answer)' /\ d.answer \notin orphans'
    BY <1>3, <1>6, <1>7, <1>9, <1>10, <2>2 DEF IInv, OneKeeper
  <2>5. \A d, e \in calls' : d.answer = e.answer => d = e \/ d.answer = None
    BY <1>3, <1>6, <2>2 DEF IInv, OneKeeper
  <2>6. \A u \in Tabs : \A k \in Held(u) :
          /\ Taken(k)' /\ k \notin orphans'
          /\ \A d \in calls' : d.answer # k
          /\ \A v \in Tabs : k \in Held(v) => v = u
    <3>1. \A u \in Tabs : None \notin Held(u)
      BY DEF Held
    <3>2. QED
      BY <1>3, <1>6, <1>9, <1>10, <2>2, <3>1 DEF IInv, OneKeeper
  <2>7. QED
    BY <2>1, <2>3, <2>4, <2>5, <2>6 DEF OneKeeper
<1>14. PagesKnow'
  <2>1. ASSUME NEW d \in calls', d.answer # None
        PROVE  /\ d.req.op = "addChild" => d.answer \in family'[d.req.family].children
               /\ d.req.op = "issuePairingCode" => code'[d.answer].child = d.req.child
    <3>1. CASE d = new
      BY <1>5, <1>6, <2>1, <3>1 DEF Takes
    <3>2. CASE d \in calls
      BY <1>5, <2>1, <3>2, KnownToCalls
    <3>3. QED
      BY <1>3, <3>1, <3>2
  <2>2. QED
    BY <1>5, <1>10, <2>1, KnownToPages DEF PagesKnow
<1>15. CodesOK'
  <2>1. ASSUME NEW k \in Codes, code[k].status # "ABSENT", Good(k),
               c.req.op = "issuePairingCode" => code[k].child # c.req.child
        PROVE  Good(k)'
    <3>1. Works(code[k]) => Works(code'[k])
      BY <1>5, <2>1
    <3>2. QED
      BY <1>5, <1>10, <2>1, <3>1, GoodStays
  <2>2. c.req.op = "issuePairingCode" =>
          /\ c.client \in Tabs /\ tab[c.client].step = "CHILD_ADDED"
          /\ c.req.child = tab[c.client].childId /\ c.req.child # None
    BY <1>4 DEF IInv, CallsOK, Awaits, Calls, PagesOK
  <2>3. ASSUME NEW t \in Tabs, NEW k, k = tab[t].pairingCode, k # None
        PROVE  Good(k)'
    <3>1. /\ k \in Codes /\ code[k].status # "ABSENT" /\ code[k].child = tab[t].childId
          /\ Good(k) /\ tab[t].step = "CHILD_ACCESS_READY"
      BY <1>5, <2>3, KnownToPages DEF IInv, CodesOK, PagesOK
    <3>2. ASSUME c.req.op = "issuePairingCode", tab[t].childId = c.req.child
          PROVE  FALSE
      <4>1. c.req.child \in Held(t) /\ c.req.child \in Held(c.client)
        BY <2>2, <3>2 DEF Held
      <4>2. c.client = t
        BY <2>2, <3>2, <4>1 DEF IInv, OneKeeper
      <4>3. QED
        BY <2>2, <3>1, <3>2, <4>2
    <3>3. QED
      BY <2>1, <3>1, <3>2
  <2>4. ASSUME NEW d \in calls', d.answer # None, d.req.op = "issuePairingCode"
        PROVE  Good(d.answer)'
    <3>1. CASE d = new
      BY <1>5, <1>6, <2>4, <3>1 DEF Takes, Good
    <3>2. CASE d \in calls \ {c}
      <4>1. /\ d.answer \in Codes /\ code[d.answer].status # "ABSENT"
            /\ code[d.answer].child = d.req.child /\ Good(d.answer)
        BY <1>5, <2>4, <3>2, KnownToCalls DEF IInv, CodesOK
      <4>2. /\ d.client \in Tabs /\ d.req.child = tab[d.client].childId
        BY <2>4, <3>2 DEF IInv, CallsOK, Awaits, ClientTypes, Calls
      <4>3. ASSUME c.req.op = "issuePairingCode", d.req.child = c.req.child
            PROVE  FALSE
        <5>1. c.req.child \in Held(d.client) /\ c.req.child \in Held(c.client)
          BY <2>2, <4>2, <4>3 DEF Held
        <5>2. c.client = d.client
          BY <2>2, <4>2, <4>3, <5>1 DEF IInv, OneKeeper
        <5>3. QED
          BY <3>2, <5>2 DEF IInv, CallsOK
      <4>4. QED
        BY <2>1, <4>1, <4>3
    <3>3. QED
      BY <1>3, <3>1, <3>2
  <2>5. QED
    BY <1>10, <2>3, <2>4 DEF CodesOK, Good
<1>16. FamiliesAccountedFor'
  <2>1. ASSUME NEW k \in Codes, Told(k)
        PROVE  Told(k)' /\ code'[k].family = code[k].family
    <3>1. k # id
      BY <1>7, <2>1, FamilyApiAssumption DEF Told, Taken
    <3>2. QED
      BY <1>3, <1>5, <1>6, <1>10, <2>1, <3>1 DEF Told, Grown
  <2>2. ASSUME NEW f \in Families, family'[f].status = "ACTIVE"
        PROVE  \/ f \in orphans'
               \/ \E t \in Tabs : tab'[t].familyId = f
               \/ \E k \in Codes : Told(k)' /\ code'[k].family = f
               \/ \E d \in calls' : d.answer = f
    <3>1. CASE f = id
      BY <1>3, <1>6, <3>1
    <3>2. CASE family[f].status = "ACTIVE"
      <4>1. \/ f \in orphans
            \/ \E t \in Tabs : tab[t].familyId = f
            \/ \E k \in Codes : Told(k) /\ code[k].family = f
            \/ \E d \in calls : d.answer = f
        BY <3>2 DEF IInv, FamiliesAccountedFor
      <4>2. QED
        BY <1>3, <1>4, <1>10, <2>1, <4>1, FamilyApiAssumption
    <3>3. QED
      BY <1>5, <2>2, <3>1, <3>2
  <2>3. QED
    BY <2>2 DEF FamiliesAccountedFor
<1>17. QED
  BY <1>5, <1>11, <1>12, <1>13, <1>14, <1>15, <1>16 DEF IInv

(* A late request may spend the code on a screen: the new code's client is   *)
(* gone.                                                                     *)
LEMMA StrayStep ==
  ASSUME IInv, StrayArrives, UNCHANGED pageVars
  PROVE  IInv'
<1>1. PICK id : id = Reply(stray)
  OBVIOUS
<1>2. PICK req \in Requests : req = stray
  BY DEF StrayArrives, IInv, FaultTypes
<1>3. /\ Handle(stray) /\ stray' = None /\ faults' = faults
      /\ orphans' = orphans \cup ({id} \ {None})
      /\ UNCHANGED <<cookie, tab, device, calls>>
  BY <1>1 DEF StrayArrives, pageVars
<1>4. Handle(req) /\ id = Reply(req)
  BY <1>1, <1>2, <1>3 DEF Handle, Effect, Reply
<1>5. /\ RowsInv' /\ Grown
      /\ id # None => Takes(req, id)
      /\ \A f \in Families :
           family'[f].status = "ACTIVE" => family[f].status = "ACTIVE" \/ f = id
      /\ \A k \in Codes :
           code[k].status # "ABSENT" /\ Works(code[k]) =>
             \/ Works(code'[k])
             \/ req.op = "issuePairingCode" /\ code[k].child = req.child /\ id # None
  BY <1>4, HandleEffect DEF IInv
<1>6. id # None => /\ ~Taken(id) /\ Taken(id)'
                   /\ id \in Families \cup Children \cup Codes \cup Sessions
  BY <1>5 DEF Takes, IdsOf
<1>7. \A k : Taken(k) => Taken(k)'
  BY <1>5, TakenGrows DEF IInv
<1>8. FaultTypes' /\ PagesOK' /\ ClientTypes' /\ CallsOK'
  BY <1>3, <1>6 DEF IInv, FaultTypes, PagesOK, ClientTypes, CallsOK
<1>9. OneKeeper'
  <2>1. \A u \in Tabs : Held(u)' = Held(u)
    BY <1>3 DEF Held
  <2>2. \A k \in orphans' : Taken(k)'
    BY <1>3, <1>6, <1>7 DEF IInv, OneKeeper
  <2>3. \A d \in calls' : d.answer # None => Taken(d.answer)' /\ d.answer \notin orphans'
    BY <1>3, <1>6, <1>7 DEF IInv, OneKeeper
  <2>4. \A d, e \in calls' : d.answer = e.answer => d = e \/ d.answer = None
    BY <1>3 DEF IInv, OneKeeper
  <2>5. \A u \in Tabs : \A k \in Held(u) :
          /\ Taken(k)' /\ k \notin orphans'
          /\ \A d \in calls' : d.answer # k
          /\ \A v \in Tabs : k \in Held(v) => v = u
    BY <1>3, <1>6, <1>7 DEF IInv, OneKeeper
  <2>6. QED
    BY <2>1, <2>2, <2>3, <2>4, <2>5 DEF OneKeeper
<1>10. PagesKnow'
  BY <1>3, <1>5, KnownToPages, KnownToCalls DEF PagesKnow
<1>11. \A k \in Codes : code[k].status # "ABSENT" /\ Good(k) => Good(k)'
  <2>1. ASSUME NEW k \in Codes, code[k].status # "ABSENT", Good(k)
        PROVE  Good(k)'
    <3>1. CASE Works(code[k]) => Works(code'[k])
      BY <1>3, <1>5, <2>1, <3>1, GoodStays
    <3>2. CASE req.op = "issuePairingCode" /\ code[k].child = req.child /\ id # None
      <4>1. id \in Codes /\ code'[id].child = req.child
        BY <1>5, <3>2, IdsOfIs DEF Takes
      <4>2. code'[k].child = code[k].child
        BY <1>5, <2>1 DEF Grown
      <4>3. QED
        BY <1>3, <3>2, <4>1, <4>2 DEF Good
    <3>3. QED
      BY <1>5, <2>1, <3>1, <3>2
  <2>2. QED
    BY <2>1
<1>12. CodesOK'
  <2>1. ASSUME NEW t \in Tabs, NEW k, k = tab[t].pairingCode, k # None
        PROVE  Good(k)'
    BY <1>5, <1>11, <2>1, KnownToPages DEF IInv, CodesOK
  <2>2. ASSUME NEW d \in calls, d.answer # None, d.req.op = "issuePairingCode"
        PROVE  Good(d.answer)'
    BY <1>5, <1>11, <2>2, KnownToCalls DEF IInv, CodesOK
  <2>3. QED
    BY <1>3, <2>1, <2>2 DEF CodesOK, Good
<1>13. FamiliesAccountedFor'
  <2>1. ASSUME NEW k \in Codes, Told(k)
        PROVE  Told(k)' /\ code'[k].family = code[k].family
    <3>1. k # id
      BY <1>6, <2>1, FamilyApiAssumption DEF Told, Taken
    <3>2. QED
      BY <1>3, <1>5, <2>1, <3>1 DEF Told, Grown
  <2>2. ASSUME NEW f \in Families, family'[f].status = "ACTIVE"
        PROVE  \/ f \in orphans'
               \/ \E t \in Tabs : tab'[t].familyId = f
               \/ \E k \in Codes : Told(k)' /\ code'[k].family = f
               \/ \E d \in calls' : d.answer = f
    <3>1. CASE f = id
      BY <1>3, <3>1, FamilyApiAssumption
    <3>2. CASE family[f].status = "ACTIVE"
      BY <1>3, <2>1, <3>2 DEF IInv, FamiliesAccountedFor
    <3>3. QED
      BY <1>5, <2>2, <3>1, <3>2
  <2>3. QED
    BY <2>2 DEF FamiliesAccountedFor
<1>14. QED
  BY <1>5, <1>8, <1>9, <1>10, <1>12, <1>13 DEF IInv

(* Rows expire: they lose nothing but their status, and codes still work.    *)
LEMMA ExpiryStep ==
  ASSUME IInv, RowsInv', Grown, family' = family, Fault,
         \A k \in Codes : Works(code[k]) => Works(code'[k]),
         UNCHANGED <<stray, orphans, tab, device, calls>>, cookie' \in {cookie, None}
  PROVE  IInv'
<1>1. FaultTypes' /\ PagesOK' /\ ClientTypes' /\ CallsOK'
  BY FamilyApiAssumption DEF Fault, IInv, FaultTypes, PagesOK, ClientTypes, CallsOK
<1>2. \A k : Taken(k) => Taken(k)'
  BY TakenGrows DEF IInv
<1>3. \A t \in Tabs : Held(t)' = Held(t)
  BY DEF Held
<1>4. OneKeeper'
  BY <1>2, <1>3 DEF IInv, OneKeeper
<1>5. PagesKnow'
  BY KnownToPages, KnownToCalls DEF PagesKnow
<1>6. CodesOK'
  <2>1. ASSUME NEW t \in Tabs, NEW k, k = tab[t].pairingCode, k # None
        PROVE  Good(k)'
    BY <2>1, KnownToPages, GoodStays DEF IInv, CodesOK
  <2>2. ASSUME NEW d \in calls, d.answer # None, d.req.op = "issuePairingCode"
        PROVE  Good(d.answer)'
    BY <2>2, KnownToCalls, GoodStays DEF IInv, CodesOK
  <2>3. QED
    BY <2>1, <2>2 DEF CodesOK, Good
<1>7. FamiliesAccountedFor'
  <2>1. \A k \in Codes : Told(k) => Told(k)' /\ code'[k].family = code[k].family
    BY DEF Told, Grown
  <2>2. QED
    BY <2>1 DEF IInv, FamiliesAccountedFor
<1>8. QED
  BY <1>1, <1>4, <1>5, <1>6, <1>7 DEF IInv

LEMMA SessionExpiresRows ==
  ASSUME IInv, SessionExpires
  PROVE  RowsInv' /\ Grown
<1>1. /\ cookie \in Sessions /\ UNCHANGED <<family, code>>
      /\ session' = [session EXCEPT ![cookie].status = "EXPIRED"]
  BY DEF SessionExpires, IInv, ClientTypes
<1>2. /\ session' \in [Sessions -> SessionRows]
      /\ \A s \in Sessions :
           /\ session'[s].family = session[s].family /\ session'[s].child = session[s].child
           /\ session'[s] = session[s] \/ session'[s].status # "ABSENT"
  BY <1>1 DEF IInv, RowsInv, RowTypes, SessionRows
<1>3. RowTypes' /\ Grown
  BY <1>1, <1>2 DEF IInv, RowsInv, RowTypes, Grown
<1>4. RowsOK' /\ PairingStaysInTheFamily'
  BY <1>1, <1>2 DEF IInv, RowsInv, RowsOK, PairingStaysInTheFamily
<1>5. QED
  BY <1>3, <1>4 DEF RowsInv

LEMMA SessionExpiresStep ==
  ASSUME IInv, SessionExpires
  PROVE  IInv'
<1>1. RowsInv' /\ Grown
  BY SessionExpiresRows
<1>2. /\ Fault /\ family' = family /\ code' = code /\ cookie' = None
      /\ UNCHANGED <<stray, orphans, tab, device, calls>>
  BY DEF SessionExpires
<1>3. QED
  BY <1>1, <1>2, ExpiryStep

LEMMA CodeExpiresRows ==
  ASSUME IInv, NEW k \in Codes, CodeExpires(k)
  PROVE  RowsInv' /\ Grown /\ \A o \in Codes : Works(code[o]) => Works(code'[o])
<1>1. /\ code[k].status = "OUTSTANDING" /\ UNCHANGED <<family, session>>
      /\ code' = [code EXCEPT ![k].status = "EXPIRED"]
  BY DEF CodeExpires
<1>2. /\ code' \in [Codes -> CodeRows] /\ code'[k].status = "EXPIRED"
      /\ \A o \in Codes : o # k => code'[o] = code[o]
      /\ \A o \in Codes :
           /\ code'[o].family = code[o].family /\ code'[o].child = code[o].child
           /\ code'[o].session = code[o].session
  BY <1>1 DEF IInv, RowsInv, RowTypes, CodeRows
<1>3. RowTypes' /\ Grown
  BY <1>1, <1>2 DEF IInv, RowsInv, RowTypes, Grown
<1>4. RowsOK' /\ PairingStaysInTheFamily'
  BY <1>1, <1>2 DEF IInv, RowsInv, RowsOK, PairingStaysInTheFamily
<1>5. \A o \in Codes : Works(code[o]) => Works(code'[o])
  BY <1>2 DEF Works
<1>6. QED
  BY <1>3, <1>4, <1>5 DEF RowsInv

LEMMA CodeExpiresStep ==
  ASSUME IInv, NEW k \in Codes, CodeExpires(k), UNCHANGED pageVars
  PROVE  IInv'
<1>1. RowsInv' /\ Grown /\ \A o \in Codes : Works(code[o]) => Works(code'[o])
  BY CodeExpiresRows
<1>2. /\ Fault /\ family' = family /\ cookie' = cookie
      /\ UNCHANGED <<stray, orphans, tab, device, calls>>
  BY DEF CodeExpires, pageVars
<1>3. QED
  BY <1>1, <1>2, ExpiryStep

-----------------------------------------------------------------------------

LEMMA InitOK == PagesInit => IInv
<1> SUFFICES ASSUME PagesInit PROVE IInv
  OBVIOUS
<1>1. /\ family = [f \in Families |-> [status |-> "ABSENT", children |-> {}]]
      /\ session = [s \in Sessions |-> NoRow] /\ code = [k \in Codes |-> NoCode]
      /\ faults = 0 /\ stray = None /\ orphans = {} /\ cookie = None /\ calls = {}
      /\ tab = [t \in Tabs |-> Opened("NONE")]
      /\ device = [d \in Devices |-> [busy |-> FALSE, session |-> None]]
  BY DEF PagesInit, ApiInit
<1>2. RowsInv
  BY <1>1 DEF RowsInv, RowTypes, RowsOK, PairingStaysInTheFamily, FamilyRows, SessionRows,
              CodeRows, NoRow, NoCode
<1>3. FaultTypes /\ ClientTypes
  BY <1>1, FamilyApiAssumption DEF FaultTypes, ClientTypes
<1>4. PagesOK
  BY <1>1 DEF PagesOK, Opened, Pages, Steps
<1>5. CallsOK /\ OneKeeper /\ PagesKnow /\ CodesOK /\ FamiliesAccountedFor
  BY <1>1 DEF CallsOK, OneKeeper, Held, PagesKnow, CodesOK, FamiliesAccountedFor, Opened
<1>6. QED
  BY <1>2, <1>3, <1>4, <1>5 DEF IInv

LEMMA StepOK == IInv /\ [PagesNext]_vars => IInv'
<1> SUFFICES ASSUME IInv, [PagesNext]_vars PROVE IInv'
  OBVIOUS
<1>1. CASE UNCHANGED vars
  BY <1>1 DEF vars, apiVars, rowVars, faultVars, pageVars, IInv, RowsInv, RowTypes, RowsOK,
              PairingStaysInTheFamily, FaultTypes, PagesOK, ClientTypes, CallsOK, OneKeeper,
              Taken, Held, PagesKnow, CodesOK, Good, FamiliesAccountedFor, Told
<1>2. CASE \E t \in Tabs : OpenSignIn(t) \/ TapSignIn(t) \/ TapSetup(t) \/ Done(t)
  BY <1>2, OpenSignInStep, TapSignInStep, TapSetupStep, DoneStep
<1>3. CASE \E d \in Devices, k \in Codes : TypeCode(d, k)
  BY <1>3, TypeCodeStep
<1>4. CASE \E c \in calls : Serve(c) \/ Returns(c) \/ CallFails(c)
  BY <1>4, ServeStep, SignedInStep, SetupReturnsStep, PairedStep, RefusedStep, CallFailsStep
     DEF Returns
<1>5. CASE \E t \in Tabs, screen \in {"SIGN_IN", "SETUP"} : Reopen(t, screen)
  BY <1>5, ReopenStep
<1>6. CASE SessionExpires
  BY <1>6, SessionExpiresStep
<1>7. CASE \E k \in Codes : CodeExpires(k) /\ UNCHANGED pageVars
  BY <1>7, CodeExpiresStep
<1>8. CASE StrayArrives /\ UNCHANGED pageVars
  BY <1>8, StrayStep
<1>9. QED
  BY <1>1, <1>2, <1>3, <1>4, <1>5, <1>6, <1>7, <1>8 DEF PagesNext

LEMMA InvariantOK == PagesSpec => []IInv
<1>1. QED
  BY InitOK, StepOK, PTL DEF PagesSpec

LEMMA IInvImplies ==
  ASSUME IInv
  PROVE  FamilyPagesTypeOK /\ PairingStaysInTheFamily /\ ShownCodeWorks
<1>1. FamilyPagesTypeOK
  BY DEF IInv, RowsInv, RowTypes, FaultTypes, PagesOK, ClientTypes, FamilyPagesTypeOK
<1>2. ShownCodeWorks
  BY DEF IInv, CodesOK, Good, Works, ShownCodeWorks
<1>3. QED
  BY <1>1, <1>2 DEF IInv, RowsInv

(* Every step only adds to the rows of families, children and codes, and to  *)
(* a session's.                                                              *)
LEMMA StepGrows == IInv /\ [PagesNext]_vars => Grown
<1> SUFFICES ASSUME IInv, [PagesNext]_vars PROVE Grown
  OBVIOUS
<1>1. ASSUME NEW req \in Requests, Handle(req)
      PROVE  Grown
  BY <1>1, HandleEffect DEF IInv
<1>2. CASE UNCHANGED rowVars
  BY <1>2, SameRows DEF IInv
<1>3. CASE \E c \in calls : Serve(c)
  BY <1>1, <1>3 DEF Serve, IInv, ClientTypes, Calls
<1>4. CASE SessionExpires
  BY <1>4, SessionExpiresRows
<1>5. CASE \E k \in Codes : CodeExpires(k)
  BY <1>5, CodeExpiresRows
<1>6. CASE StrayArrives
  <2>1. PICK req \in Requests : req = stray
    BY <1>6 DEF StrayArrives, IInv, FaultTypes
  <2>2. Handle(req)
    BY <1>6, <2>1 DEF StrayArrives, Handle, Effect
  <2>3. QED
    BY <1>1, <2>2
<1>7. QED
  BY <1>2, <1>3, <1>4, <1>5, <1>6
     DEF PagesNext, vars, apiVars, OpenSignIn, TapSignIn, TapSetup, Tap, Done, TypeCode, Returns,
         SignedIn, SetupReturns, Paired, Refused, CallFails, Reopen

(* Every variable of the setup has its type, and a page at each step knows   *)
(* the ids that its next request needs.                                      *)
THEOREM FamilyPagesTyped == PagesSpec => []FamilyPagesTypeOK
<1>1. IInv => FamilyPagesTypeOK
  BY IInvImplies
<1>2. QED
  BY <1>1, InvariantOK, PTL

(* A session that has a family keeps it, whatever tab asks and whatever is   *)
(* lost or late (scopeSessionToFamily, completePairing).                     *)
THEOREM SessionKeepsItsFamily == PagesSpec => SessionNeverMovesFamily
<1>1. IInv /\ [PagesNext]_vars =>
        [\A s \in Sessions :
           session[s].family # None => session'[s].family = session[s].family]_vars
  BY StepGrows DEF Grown
<1>2. QED
  BY <1>1, InvariantOK, PTL DEF PagesSpec, SessionNeverMovesFamily

(* A pairing code and the session it becomes are for a child of their own    *)
(* family (issuePairingCode, completePairing).                               *)
THEOREM PairingKeepsToTheFamily == PagesSpec => []PairingStaysInTheFamily
<1>1. IInv => PairingStaysInTheFamily
  BY IInvImplies
<1>2. QED
  BY <1>1, InvariantOK, PTL

(* A code on a screen works until it is used or expires, unless an answer    *)
(* for the same child got lost.                                              *)
THEOREM ShownCodesWork == PagesSpec => []ShownCodeWorks
<1>1. IInv => ShownCodeWorks
  BY IInvImplies
<1>2. QED
  BY <1>1, InvariantOK, PTL

(* Each family in the database has a page, a code that was shown, or a       *)
(* client that is gone.                                                      *)
THEOREM NoHiddenFamily == PagesSpec => []FamiliesAccountedFor
<1>1. IInv => FamiliesAccountedFor
  BY DEF IInv
<1>2. QED
  BY <1>1, InvariantOK, PTL

=============================================================================
