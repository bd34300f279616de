------------------------------ MODULE TaskBuilder ------------------------------
(***************************************************************************)
(* The parent's task builder (P-TASK-BUILDER), one page from its opening   *)
(* on.  publishAndAssign is a chain of up to three calls, create, publish  *)
(* and assign; it works on the draft and the template id of the tap that   *)
(* started it.  The inputs stay editable all the time, so each tap may     *)
(* find any draft.  Whether the browser is online, and which problems of a *)
(* draft are shown, is left out: a tap on a draft with errors sends        *)
(* nothing.                                                                *)
(***************************************************************************)
EXTENDS TaskApi, WebScreens, FiniteSets

CONSTANTS
  Drafts,         \* what the parent may have filled in when tapping
  FamilyChildren, \* the children that the family's page lists
  MaxFlows        \* bound: how many chains may run at once

VARIABLES
  builder,  \* the page's state
  flows,    \* the chains that are running
  orphans   \* templates whose page was never told of them, or is gone

builderVars == <<builder, flows, orphans>>

Flows == 1 .. MaxFlows

ASSUME TaskBuilderAssumption ==
  /\ Drafts \subseteq [child : Children \cup {None}, reward : Rewards,
                       filled : BOOLEAN, strategy : {"PARENT_APPROVAL", "PHOTO_PROOF"}]
  /\ FamilyChildren \subseteq Children
  /\ MaxFlows \in Nat

(* context: loadContext is running, has succeeded or has failed.             *)
NewBuilder ==
  [context |-> "LOADING", stage |-> "DRAFT", templateId |-> None, recovery |-> None]

(* A chain's draft, the call it waits for, and the answer on its way back.   *)
NoFlow == [draft |-> None, req |-> None, answer |-> None]

Running(f) == flows[f].req # None

Served(f, op) ==
  Running(f) /\ flows[f].req.op = op /\ flows[f].answer # None

BuilderInit ==
  /\ builder = NewBuilder
  /\ flows = [f \in Flows |-> NoFlow]
  /\ orphans = {}

-----------------------------------------------------------------------------
(* loadContext: the session, then its family. *)

ContextLoads ==
  /\ builder.context = "LOADING"
  /\ builder' = [builder EXCEPT !.context = "READY", !.recovery = None]
  /\ UNCHANGED <<flows, orphans, apiVars>>

ContextFails(code) ==
  /\ builder.context = "LOADING"
  /\ faults < MaxFaults
  /\ faults' = faults + 1
  /\ builder' = [builder EXCEPT !.context = "FAILED",
                                !.recovery = RecoveryFor(code, "parent")]
  /\ UNCHANGED <<flows, orphans, stray, lifecycleVars>>

-----------------------------------------------------------------------------
(* The button. *)

ButtonEnabledMutant == builder.stage \notin {"ASSIGNED", "SAVING"} /\ builder.recovery = None

(* Shown unless the stage is ASSIGNED, disabled while it is SAVING. *)
ButtonEnabled == builder.stage \notin {"ASSIGNED", "SAVING"}

(* Nothing is sent before the context has loaded: no child is listed.        *)
Sendable(draft) ==
  /\ builder.context = "READY"
  /\ DraftErrors(draft, FamilyChildren) = {}

(* Bound: an id is left beyond those that the running chains may take. *)
Free(ids, row) == Cardinality({id \in ids : row[id].status = "ABSENT"})

TemplateIdsLeft ==
  Free(Templates, template) >
    Cardinality({f \in Flows : Running(f) /\ flows[f].req.op = "create"})

AssignmentIdsLeft ==
  Free(Assignments, assignment) >
    Cardinality({f \in Flows : Running(f) /\ ~Served(f, "assign")})

Send(f, draft, req) ==
  flows' = [flows EXCEPT ![f] = [draft |-> draft, req |-> req, answer |-> None]]

Tap(f, draft) ==
  /\ ButtonEnabled
  /\ Sendable(draft)
  /\ ~Running(f) /\ \A g \in 1 .. f - 1 : Running(g)
  /\ AssignmentIdsLeft /\ (builder.templateId = None => TemplateIdsLeft)
  /\ builder' = [builder EXCEPT !.stage = "SAVING", !.recovery = None]
  /\ Send(f, draft, IF builder.templateId = None THEN Create(draft.reward)
                                                 ELSE Publish(builder.templateId))
  /\ UNCHANGED <<orphans, apiVars>>

-----------------------------------------------------------------------------
(* The chain. *)

ServeFlow(f) ==
  /\ Running(f) /\ flows[f].answer = None
  /\ Handle(flows[f].req)
  /\ flows' = [flows EXCEPT ![f].answer = Reply(flows[f].req)]
  /\ UNCHANGED <<builder, orphans, faultVars>>

Returned(f, op) == Served(f, op) /\ flows[f].answer.code = "OK"

Created(f) ==
  LET id == flows[f].answer.body
  IN /\ Returned(f, "create")
     /\ builder' = [builder EXCEPT !.templateId = id]
     /\ Send(f, flows[f].draft, Publish(id))
     /\ UNCHANGED <<orphans, apiVars>>

PublishedMutant(f) ==
  /\ Returned(f, "publish")
  /\ builder' = [builder EXCEPT !.stage = "ASSIGNED"]
  /\ Send(f, flows[f].draft, Assign(flows[f].req.id, flows[f].draft.child))
  /\ UNCHANGED <<orphans, apiVars>>

Published(f) ==
  /\ Returned(f, "publish")
  /\ builder' = [builder EXCEPT !.stage = "PUBLISHED"]
  /\ Send(f, flows[f].draft, Assign(flows[f].req.id, flows[f].draft.child))
  /\ UNCHANGED <<orphans, apiVars>>

Assigned(f) ==
  /\ Returned(f, "assign")
  /\ builder' = [builder EXCEPT !.stage = "ASSIGNED"]
  /\ flows' = [flows EXCEPT ![f] = NoFlow]
  /\ UNCHANGED <<orphans, apiVars>>

FailedPageMutant(code) ==
  [builder EXCEPT !.stage = "DRAFT", !.recovery = RecoveryFor(code, "parent"),
                  !.templateId = None]

(* fail: the template id survives. *)
FailedPage(code) ==
  [builder EXCEPT !.stage = "DRAFT", !.recovery = RecoveryFor(code, "parent")]

(* A template the chain created, or may yet create, without its answer. *)
Untold(f) ==
  IF Returned(f, "create") THEN {flows[f].answer.body} ELSE {}

CallFails(f, code) ==
  /\ Running(f)
  /\ GiveUp(flows[f].req, flows[f].answer # None)
  /\ builder' = FailedPage(code)
  /\ flows' = [flows EXCEPT ![f] = NoFlow]
  /\ orphans' = orphans \cup Untold(f)
  /\ UNCHANGED lifecycleVars

-----------------------------------------------------------------------------
(* The parent opens the page again.  Its state is gone, and its calls are    *)
(* abandoned: one of them may still be under way.                            *)
Reopen ==
  LET unserved == {f \in Flows : Running(f) /\ flows[f].answer = None}
  IN /\ \E f \in Flows :
          unserved \subseteq {f} /\ GiveUp(flows[f].req, unserved = {})
     /\ builder' = NewBuilder
     /\ flows' = [f \in Flows |-> NoFlow]
     /\ orphans' = {t \in Templates : template[t].status # "ABSENT"}
     /\ UNCHANGED lifecycleVars

(* A page whose context failed has no control to load it again.              *)
ReopenFailed ==
  /\ builder.context = "FAILED"
  /\ builder' = NewBuilder
  /\ UNCHANGED <<flows, orphans, apiVars>>

BuilderStray ==
  /\ stray # None
  /\ stray.op = "create" => TemplateIdsLeft
  /\ stray.op = "assign" => AssignmentIdsLeft
  /\ StrayArrives
  /\ orphans' = IF stray.op = "create" /\ Accepted(stray)
                THEN orphans \cup {FreshTemplate} ELSE orphans
  /\ UNCHANGED <<builder, flows>>

Chain(f) == ServeFlow(f) \/ Created(f) \/ Published(f) \/ Assigned(f)

BuilderNext ==
  \/ ContextLoads
  \/ \E code \in FailureCodes : ContextFails(code)
  \/ \E f \in Flows, draft \in Drafts : Tap(f, draft)
  \/ \E f \in Flows :
       Chain(f) \/ \E code \in FailureCodes : CallFails(f, code)
  \/ Reopen
  \/ ReopenFailed
  \/ BuilderStray

(* Calls are served and answers come back; the parent goes on tapping while  *)
(* nothing is assigned, and opens again a page that failed to load.          *)
BuilderFairness ==
  LET vars == <<builderVars, apiVars>>
  IN /\ WF_vars(ContextLoads \/ ReopenFailed)
     /\ \A f \in Flows : WF_vars(Chain(f))
     /\ WF_vars(\E f \in Flows, draft \in Drafts : Tap(f, draft))

-----------------------------------------------------------------------------
(* Properties. *)

BuilderTypeOK ==
  /\ builder \in [context : {"LOADING", "READY", "FAILED"},
                  stage : {"DRAFT", "SAVING", "PUBLISHED", "ASSIGNED"},
                  templateId : Templates \cup {None},
                  recovery : RecoveryActions \cup {None}]
  /\ \A f \in Flows :
       /\ flows[f].draft \in Drafts \cup {None}
       /\ flows[f].req \in Requests \cup {None}
       /\ flows[f].req = None => flows[f] = NoFlow
  /\ orphans \subseteq Templates

(* The page claims success only when it is true: "the task has appeared at   *)
(* the child's" (ASSIGNED) when the server has an assignment of the page's   *)
(* template, "the task is ready" (PUBLISHED) when it has published it, even  *)
(* while another chain fails or an older one's answer comes late.            *)
SuccessIsTrue ==
  /\ builder.stage \in {"PUBLISHED", "ASSIGNED"} =>
       /\ builder.templateId # None
       /\ template[builder.templateId].status = "ACTIVE"
  /\ builder.stage = "ASSIGNED" =>
       \E a \in Assignments : assignment[a].template = builder.templateId

(* No tap and no retry leaves a template behind: every template is the one   *)
(* the page will resume from, is on its way to it, or is one whose creation  *)
(* the page cannot have heard of.                                            *)
TemplatesAccountedFor ==
  \A t \in Templates :
    template[t].status # "ABSENT" =>
      t \in {builder.templateId} \cup orphans \cup UNION {Untold(f) : f \in Flows}

(* A repeat tap produces neither a second template nor a second assignment,  *)
(* as the comment on publishAndAssign has it.                                *)
OneAssignmentPerDraft ==
  \A a, b \in Assignments :
    /\ assignment[a].template # None
    /\ assignment[a].template = assignment[b].template
    /\ assignment[a].child = assignment[b].child
    => a = b

=============================================================================
