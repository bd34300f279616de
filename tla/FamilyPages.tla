------------------------------- MODULE FamilyPages -------------------------------
(***************************************************************************)
(* The way to a child's first session: a parent signs in and goes through  *)
(* P-FAMILY-SETUP in the tabs of one browser, which share its cookie, and  *)
(* a child types the code of the last step on a device of their own.       *)
(*                                                                         *)
(* A page keeps all it knows in its own state.  Left out are the wording   *)
(* of a failure, the checks of the form before anything is sent, and the   *)
(* parent's sign-up.                                                       *)
(***************************************************************************)
EXTENDS FamilyApi

CONSTANTS
  Tabs,    \* tabs of the parent's browser
  Devices  \* child devices

VARIABLES
  cookie,  \* the session in the browser's cookie, or None
  tab,     \* the page in each tab
  device,  \* the pairing page on each device and, once paired, its session
  calls    \* the requests under way and the answers on their way back

pageVars == <<cookie, tab, device, calls>>
vars == <<apiVars, pageVars>>

ASSUME FamilyPagesAssumption == Tabs \cap Devices = {}

Steps == {"NO_FAMILY", "FAMILY_READY_NO_CHILDREN", "CHILD_ADDED", "CHILD_ACCESS_READY"}

Pages ==
  [screen : {"NONE", "SIGN_IN", "SETUP", "DASHBOARD"}, step : Steps, busy : BOOLEAN,
   familyId : Families \cup {None}, childId : Children \cup {None},
   pairingCode : Codes \cup {None}]

(* Any page as it opens: the setup page starts at its first step. *)
Opened(screen) ==
  [screen |-> screen, step |-> "NO_FAMILY", busy |-> FALSE,
   familyId |-> None, childId |-> None, pairingCode |-> None]

Calls ==
  [client : Tabs \cup Devices, req : Requests, served : BOOLEAN,
   answer : Families \cup Children \cup Codes \cup Sessions \cup {None}]

Call(client, req) == [client |-> client, req |-> req, served |-> FALSE, answer |-> None]

PagesInit ==
  /\ ApiInit
  /\ cookie = None
  /\ tab = [t \in Tabs |-> Opened("NONE")]
  /\ device = [d \in Devices |-> [busy |-> FALSE, session |-> None]]
  /\ calls = {}

-----------------------------------------------------------------------------
(* What the buttons send. *)

(* Bound: an id is left beyond those the requests under way may take.        *)
IdLeft(op) ==
  Cardinality(Unused(op)) >
    Cardinality({c \in calls : ~c.served /\ Unused(c.req.op) = Unused(op)})

Send(client, req) ==
  /\ IdLeft(req.op)
  /\ calls' = calls \cup {Call(client, req)}

OpenSignIn(t) ==
  /\ tab[t].screen = "NONE"
  /\ tab' = [tab EXCEPT ![t] = Opened("SIGN_IN")]
  /\ UNCHANGED <<apiVars, cookie, device, calls>>

EnabledMutant(t) == TRUE

(* The buttons that send are disabled while a call is under way.  The        *)
(* sign-in page's toggle between signing in and up is not: tapped twice, it  *)
(* makes the form ready for another sign-in beside the first, which the      *)
(* model has only of two tabs.                                               *)
Enabled(t) == ~tab[t].busy

Tap(t, req) ==
  /\ Enabled(t)
  /\ Send(t, req)
  /\ tab' = [tab EXCEPT ![t].busy = TRUE]
  /\ UNCHANGED <<apiVars, cookie, device>>

(* The page asks for no family, so that its session is of none.              *)
TapSignIn(t) == tab[t].screen = "SIGN_IN" /\ Tap(t, SignIn)

AtStep(t, step) == tab[t].screen = "SETUP" /\ tab[t].step = step

TapSetup(t) ==
  \/ AtStep(t, "NO_FAMILY") /\ Tap(t, CreateFamily(cookie))
  \/ AtStep(t, "FAMILY_READY_NO_CHILDREN") /\ Tap(t, AddChild(cookie, tab[t].familyId))
  \/ AtStep(t, "CHILD_ADDED") /\ Tap(t, IssueCode(cookie, tab[t].childId))

Done(t) ==
  /\ AtStep(t, "CHILD_ACCESS_READY")
  /\ tab' = [tab EXCEPT ![t] = Opened("DASHBOARD")]
  /\ UNCHANGED <<apiVars, cookie, device, calls>>

(* The child types a code that a tab has shown. *)
Told(k) == code[k].status # "ABSENT" /\ k \notin orphans /\ \A c \in calls : c.answer # k

TypeCode(d, k) ==
  /\ ~device[d].busy /\ device[d].session = None
  /\ Told(k)
  /\ Send(d, Redeem(k))
  /\ device' = [device EXCEPT ![d].busy = TRUE]
  /\ UNCHANGED <<apiVars, cookie, tab>>

-----------------------------------------------------------------------------
(* The calls. *)

Serve(c) ==
  /\ c \in calls /\ ~c.served
  /\ Handle(c.req)
  /\ calls' = (calls \ {c}) \cup {[c EXCEPT !.served = TRUE, !.answer = Reply(c.req)]}
  /\ UNCHANGED <<faultVars, cookie, tab, device>>

Answered(c, op) == c \in calls /\ c.answer # None /\ c.req.op = op

AfterSetupMutant(page, op, id) ==
  CASE op = "createFamily" -> [page EXCEPT !.busy = FALSE, !.familyId = id,
                                           !.step = "CHILD_ADDED"]
    [] op = "addChild" -> [page EXCEPT !.busy = FALSE, !.childId = id, !.step = "CHILD_ADDED"]
    [] op = "issuePairingCode" -> [page EXCEPT !.busy = FALSE, !.pairingCode = id,
                                               !.step = "CHILD_ACCESS_READY"]

AfterSetup(page, op, id) ==
  CASE op = "createFamily" -> [page EXCEPT !.busy = FALSE, !.familyId = id,
                                           !.step = "FAMILY_READY_NO_CHILDREN"]
    [] op = "addChild" -> [page EXCEPT !.busy = FALSE, !.childId = id, !.step = "CHILD_ADDED"]
    [] op = "issuePairingCode" -> [page EXCEPT !.busy = FALSE, !.pairingCode = id,
                                               !.step = "CHILD_ACCESS_READY"]

(* The route sets the cookie and names the next page: the session's family   *)
(* decides.                                                                  *)
SignedIn(c) ==
  /\ Answered(c, "signIn")
  /\ cookie' = c.answer
  /\ tab' = [tab EXCEPT ![c.client] =
               Opened(IF session[c.answer].family = None THEN "SETUP" ELSE "DASHBOARD")]
  /\ calls' = calls \ {c}
  /\ UNCHANGED <<apiVars, device>>

SetupReturns(c) ==
  /\ \E op \in {"createFamily", "addChild", "issuePairingCode"} :
       /\ Answered(c, op)
       /\ tab' = [tab EXCEPT ![c.client] = AfterSetup(@, op, c.answer)]
  /\ calls' = calls \ {c}
  /\ UNCHANGED <<apiVars, cookie, device>>

Paired(c) ==
  /\ Answered(c, "redeemPairingCode")
  /\ device' = [device EXCEPT ![c.client] = [busy |-> FALSE, session |-> c.answer]]
  /\ calls' = calls \ {c}
  /\ UNCHANGED <<apiVars, cookie, tab>>

IdleMutant(client) ==
  /\ tab' = tab
  /\ device' = [d \in Devices |-> IF d = client THEN [device[d] EXCEPT !.busy = FALSE]
                                                ELSE device[d]]

(* The client shows the failure and may be used again.                       *)
Idle(client) ==
  /\ tab' = [t \in Tabs |-> IF t = client THEN [tab[t] EXCEPT !.busy = FALSE] ELSE tab[t]]
  /\ device' = [d \in Devices |-> IF d = client THEN [device[d] EXCEPT !.busy = FALSE]
                                                ELSE device[d]]

Refused(c) ==
  /\ c \in calls /\ c.served /\ c.answer = None
  /\ Idle(c.client)
  /\ calls' = calls \ {c}
  /\ UNCHANGED <<apiVars, cookie>>

(* The request or its answer is lost: an error of the proxy or of the route, *)
(* or a fetch that throws.                                                   *)
CallFails(c) ==
  /\ c \in calls
  /\ Fault
  /\ \/ c.served /\ UNCHANGED stray
     \/ ~c.served /\ MayStray(c.req)
  /\ orphans' = orphans \cup ({c.answer} \ {None})
  /\ Idle(c.client)
  /\ calls' = calls \ {c}
  /\ UNCHANGED <<rowVars, cookie>>

-----------------------------------------------------------------------------
(* The parent opens the page of a tab again, or goes to the other one.  What *)
(* the page knew is gone, and nobody reads the answer to its call.           *)
Reopen(t, screen) ==
  LET abandoned == {c \in calls : c.client = t}
      known == {tab[t].familyId, tab[t].childId, tab[t].pairingCode}
  IN /\ tab[t].screen # "NONE"
     /\ Fault
     /\ tab' = [tab EXCEPT ![t] = Opened(screen)]
     /\ calls' = calls \ abandoned
     /\ \/ (\A c \in abandoned : c.served) /\ UNCHANGED stray
        \/ \E c \in abandoned : ~c.served /\ MayStray(c.req)
     /\ orphans' = orphans \cup ((known \cup {c.answer : c \in abandoned}) \ {None})
     /\ UNCHANGED <<rowVars, cookie, device>>

(* The cookie lives as long as its session. *)
SessionExpires ==
  /\ Fault
  /\ cookie # None
  /\ session' = [session EXCEPT ![cookie].status = "EXPIRED"]
  /\ cookie' = None
  /\ UNCHANGED <<family, code, stray, orphans, tab, device, calls>>

Returns(c) == SignedIn(c) \/ SetupReturns(c) \/ Paired(c) \/ Refused(c)

PagesNext ==
  \/ \E t \in Tabs : OpenSignIn(t) \/ TapSignIn(t) \/ TapSetup(t) \/ Done(t)
  \/ \E d \in Devices, k \in Codes : TypeCode(d, k)
  \/ \E c \in calls : Serve(c) \/ Returns(c) \/ CallFails(c)
  \/ \E t \in Tabs, screen \in {"SIGN_IN", "SETUP"} : Reopen(t, screen)
  \/ SessionExpires
  \/ \E k \in Codes : CodeExpires(k) /\ UNCHANGED pageVars
  \/ stray # None /\ IdLeft(stray.op) /\ StrayArrives /\ UNCHANGED pageVars

PagesSpec == PagesInit /\ [][PagesNext]_vars

(* Calls are served and their answers arrive; the parent signs in and taps   *)
(* the button of the step; and a code that a tab has shown is tried.         *)
PagesFairness ==
  /\ \A client \in Tabs \cup Devices :
       WF_vars(\E c \in calls : c.client = client /\ (Serve(c) \/ Returns(c)))
  /\ \A t \in Tabs : WF_vars(OpenSignIn(t) \/ TapSignIn(t) \/ TapSetup(t))
  /\ \A d \in Devices, k \in Codes : SF_vars(TypeCode(d, k))

FairPages == PagesSpec /\ PagesFairness

-----------------------------------------------------------------------------
(* Properties. *)

(* Every variable has its type, and the step of a setup page says which ids  *)
(* the page knows: none of its calls goes out with an id that is missing.    *)
FamilyPagesTypeOK ==
  /\ family \in [Families -> FamilyRows]
  /\ session \in [Sessions -> SessionRows]
  /\ code \in [Codes -> CodeRows]
  /\ faults \in 0 .. MaxFaults
  /\ stray \in Requests \cup {None}
  /\ orphans \subseteq Families \cup Children \cup Codes \cup Sessions
  /\ cookie \in Sessions \cup {None}
  /\ tab \in [Tabs -> Pages]
  /\ \A t \in Tabs :
       /\ tab[t].familyId = None <=> tab[t].step = "NO_FAMILY"
       /\ tab[t].childId = None <=> tab[t].step \in {"NO_FAMILY", "FAMILY_READY_NO_CHILDREN"}
       /\ tab[t].pairingCode # None <=> tab[t].step = "CHILD_ACCESS_READY"
  /\ device \in [Devices -> [busy : BOOLEAN, session : Sessions \cup {None}]]
  /\ calls \subseteq Calls

(* No family comes into being behind the parent's back: it is the family of  *)
(* a setup page or on its way there, it has been set up to its pairing code, *)
(* or its page is gone or was never told of it.                              *)
FamiliesAccountedFor ==
  \A f \in Families :
    family[f].status = "ACTIVE" =>
      \/ f \in orphans
      \/ \E t \in Tabs : tab[t].familyId = f
      \/ \E k \in Codes : Told(k) /\ code[k].family = f
      \/ \E c \in calls : c.answer = f

(* A session that has a family keeps it: neither a repeated createFamily nor *)
(* one from another tab points a live session at another family.             *)
SessionNeverMovesFamily ==
  [][\A s \in Sessions :
       session[s].family # None => session'[s].family = session[s].family]_vars

(* A code and the session it becomes are for a child of their own family,    *)
(* whatever tab asks for the code and whoever's session the cookie holds by  *)
(* then.                                                                     *)
PairingStaysInTheFamily ==
  /\ \A k \in Codes :
       code[k].status # "ABSENT" => code[k].child \in family[code[k].family].children
  /\ \A s \in Sessions :
       session[s].child # None => session[s].child \in family[session[s].family].children

(* A code on a screen is good until it is used or expires: only an answer    *)
(* that got lost, for the same child, may have put another in its place.     *)
ShownCodeWorks ==
  \A t \in Tabs : tab[t].pairingCode # None =>
    LET row == code[tab[t].pairingCode]
    IN \/ row.status \in {"OUTSTANDING", "EXPIRED"}
       \/ row.session # None
       \/ \E k \in orphans \cap Codes : code[k].child = row.child

ADeviceIsPaired == \E d \in Devices : device[d].session # None

(* What the pages have no way on from: the answer to createFamily or to a    *)
(* redemption is lost, or the page it reached is left; a row expires; a late *)
(* request for a code spends the one on the screen; no tab is left to sign   *)
(* in from, and none has.                                                    *)
ADeadEnd ==
  \/ cookie = None /\ \A t \in Tabs : tab[t].screen \in {"SETUP", "DASHBOARD"}
  \/ orphans \cap Families # {}
  \/ \E s \in orphans \cap Sessions : session[s].child # None
  \/ \E s \in Sessions : session[s].status = "EXPIRED"
  \/ \E k \in Codes :
       \/ code[k].status = "EXPIRED"
       \/ Told(k) /\ code[k].status = "REDEEMED" /\ code[k].session = None

(* The setup gets a child's device a session, whatever else is lost: the     *)
(* answer to a sign-in, to addChild or to a code, or any request.            *)
SetupReachesTheDevice == <>(ADeviceIsPaired \/ ADeadEnd)

=============================================================================
