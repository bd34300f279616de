------------------------------- MODULE ChildTask -------------------------------
(***************************************************************************)
(* The child's task page (C-TASK), opened at one assignment at a time.     *)
(* act sends a mutation and, whatever came of it, the page loads the row   *)
(* again or offers to; load may also run alone.  The page shows what the   *)
(* last load returned, however old that is.  A parent decides meanwhile.   *)
(* Whether the browser is online is left out.                              *)
(***************************************************************************)
EXTENDS TaskApi, WebScreens

CONSTANTS
  Cards,         \* the assignments whose page the child opens
  MaxRejections  \* bound: how many decisions are rejections

VARIABLES
  page,     \* the page's state
  flights,  \* its calls under way: a request, and its answer once there is one
  rejections

childVars == <<page, flights, rejections>>

ASSUME ChildTaskAssumption == Cards \subseteq Assignments /\ MaxRejections \in Nat

(* view: the row the page shows, if any load has returned. *)
NewPage(a) ==
  [id |-> a, view |-> None, loading |-> TRUE, busy |-> FALSE,
   sendFailed |-> FALSE, recovery |-> None]

NoPage == [NewPage(None) EXCEPT !.loading = FALSE]

ChildInit ==
  /\ page = NoPage
  /\ flights = {}
  /\ rejections = 0

Call(req) == [req |-> req, answer |-> None]

Unserved == {f \in flights : f.answer = None /\ f.req.op # "load"}

-----------------------------------------------------------------------------
(* What the page offers: nothing behind the loading indicator, and nothing   *)
(* while it is busy.  A page that has loaded nothing shows the failure.      *)

ControlsMutant ==
  IF page.id = None \/ page.busy THEN {}
  ELSE IF page.view = None
    THEN IF page.recovery = "RETRY" /\ ~page.loading THEN {"load"} ELSE {}
  ELSE Offered(TaskScreen(page.view.status, page.sendFailed))

Controls ==
  IF page.id = None \/ page.loading \/ page.busy THEN {}
  ELSE IF page.view = None
    THEN IF page.recovery = "RETRY" THEN {"load"} ELSE {}
  ELSE Offered(TaskScreen(page.view.status, page.sendFailed))

(* The child follows a card, or opens the page anew.  Calls of the page      *)
(* before are dropped; one that may still be served is Abandon's case.       *)
Open(a) ==
  /\ assignment[a].status # "ABSENT"
  /\ Unserved = {}
  /\ ~page.loading
  /\ page' = NewPage(a)
  /\ flights' = {Call(Load(a))}
  /\ UNCHANGED <<rejections, apiVars>>

OpenWhenStuck(a) == Controls = {} /\ ~page.busy /\ Open(a)

Abandon ==
  /\ page.id # None
  /\ \E f \in flights :
       /\ Unserved \subseteq {f}
       /\ GiveUp(f.req, f.answer # None)
  /\ page' = NoPage
  /\ flights' = {}
  /\ UNCHANGED <<rejections, lifecycleVars>>

(* load() replaces the calls it follows. *)
Loading(before) ==
  flights' = (flights \ before) \cup {Call(Load(page.id))}

TapLoad ==
  /\ "load" \in Controls
  /\ page' = [page EXCEPT !.loading = TRUE, !.recovery = None]
  /\ Loading({})
  /\ UNCHANGED <<rejections, apiVars>>

TapAct ==
  /\ page' = [page EXCEPT !.busy = TRUE, !.recovery = None]
  /\ \/ "start" \in Controls /\ flights' = flights \cup {Call(Start(page.id))}
     \/ "submit" \in Controls /\ flights' = flights \cup {Call(Submit(page.id))}
  /\ UNCHANGED <<rejections, apiVars>>

ServeCall(f) ==
  /\ f.answer = None
  /\ Handle(f.req)
  /\ flights' = (flights \ {f}) \cup {[f EXCEPT !.answer = Reply(f.req)]}
  /\ UNCHANGED <<page, rejections, faultVars>>

-----------------------------------------------------------------------------
(* Answers. *)

Answered(f) == f.answer # None

LoadReturns(f) ==
  /\ f.req.op = "load" /\ Answered(f)
  /\ page' = [page EXCEPT !.view = f.answer.body, !.sendFailed = FALSE,
                          !.loading = FALSE, !.busy = FALSE]
  /\ flights' = flights \ {f}
  /\ UNCHANGED <<rejections, apiVars>>

LoadFails(f, code) ==
  /\ f.req.op = "load"
  /\ GiveUp(f.req, Answered(f))
  /\ page' = [page EXCEPT !.recovery = RecoveryFor(code, "child"),
                          !.loading = FALSE, !.busy = FALSE]
  /\ flights' = flights \ {f}
  /\ UNCHANGED <<rejections, lifecycleVars>>

ActReturns(f) ==
  /\ f.req.op # "load" /\ Answered(f)
  /\ f.answer.code = "OK"
  /\ page' = [page EXCEPT !.loading = TRUE, !.recovery = None]
  /\ Loading({f})
  /\ UNCHANGED <<rejections, apiVars>>

FailureShownMutant(code) ==
  [page EXCEPT !.recovery = RecoveryFor(code, "child"), !.sendFailed = TRUE]

FailureShown(code) ==
  [page EXCEPT !.recovery = RecoveryFor(code, "child"), !.sendFailed = TRUE,
               !.busy = FALSE]

(* A refusal that asks for a refresh is followed by a load. *)
ActRefused(f) ==
  /\ f.req.op # "load" /\ Answered(f)
  /\ f.answer.code # "OK"
  /\ IF RecoveryFor(f.answer.code, "child") = "REFRESH"
       THEN /\ page' = [page EXCEPT !.loading = TRUE, !.recovery = None]
            /\ Loading({f})
       ELSE /\ page' = FailureShown(f.answer.code)
            /\ flights' = flights \ {f}
  /\ UNCHANGED <<rejections, apiVars>>

ActFails(f, code) ==
  /\ f.req.op # "load"
  /\ GiveUp(f.req, Answered(f))
  /\ page' = FailureShown(code)
  /\ flights' = flights \ {f}
  /\ UNCHANGED <<rejections, lifecycleVars>>

-----------------------------------------------------------------------------
(* A parent, elsewhere, decides about what was submitted. *)

ParentApproves(a) ==
  /\ ApproveTask(a)
  /\ UNCHANGED <<childVars, faultVars>>

ParentRejects(a) ==
  /\ rejections < MaxRejections
  /\ RejectTask(a)
  /\ rejections' = rejections + 1
  /\ UNCHANGED <<page, flights, faultVars>>

Proceed(f) == ServeCall(f) \/ LoadReturns(f) \/ ActReturns(f) \/ ActRefused(f)

ChildNext ==
  \/ \E a \in Cards : Open(a) \/ ParentApproves(a) \/ ParentRejects(a)
  \/ Abandon
  \/ TapLoad
  \/ TapAct
  \/ \E f \in flights :
       \/ Proceed(f)
       \/ \E code \in FailureCodes : LoadFails(f, code) \/ ActFails(f, code)

(* Calls are served and answers come back.  A child who keeps seeing a       *)
(* button taps it at last, and one whose page offers nothing opens it again; *)
(* a parent decides in the end about what was submitted.                     *)
ChildFairness ==
  LET vars == <<childVars, apiVars>>
  IN /\ WF_vars(\E f \in flights : Proceed(f))
     /\ \A a \in Cards : WF_vars(OpenWhenStuck(a)) /\ WF_vars(ParentApproves(a))
     /\ SF_vars(TapLoad \/ TapAct)

-----------------------------------------------------------------------------
(* Properties. *)

ChildTypeOK ==
  /\ page \in [id : Cards \cup {None}, view : Views \cup {None}, loading : BOOLEAN,
               busy : BOOLEAN, sendFailed : BOOLEAN, recovery : RecoveryActions \cup {None}]
  /\ \A f \in flights : f.req \in Requests /\ (page.id # None => f.req.id = page.id)
  /\ rejections \in 0 .. MaxRejections

(* A page at rest that shows the row as it is offers what the server would   *)
(* accept, and nothing else: the child is neither sent into a refusal nor    *)
(* left without the next step.                                               *)
ScreenOffersTheNextStep ==
  LET fresh == /\ page.view # None /\ page.view = Seen(page.id)
               /\ ~page.loading /\ ~page.busy /\ ~page.sendFailed
      useful == {req \in {Start(page.id), Submit(page.id)} : Accepted(req) /\ ~Replays(req)}
  IN fresh => Controls = {req.op : req \in useful}

=============================================================================
