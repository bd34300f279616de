----------------------------- MODULE TaskPagesProofs -----------------------------
(***************************************************************************)
(* The safety of the builder and of the child's task page, for any number  *)
(* of templates, assignments, chains and faults.  IInv is the inductive    *)
(* invariant: rows never lose what a page was told of them (RowsGrow), a   *)
(* chain that runs is about the template that the page knows (FlowOK), and *)
(* the child's page waits for one call at a time, whose answer is no older *)
(* than what it shows (FlightOK).                                          *)
(***************************************************************************)
EXTENDS TaskPages, TLAPS

-----------------------------------------------------------------------------
(* The invariant. *)

RowsOK ==
  /\ template \in [Templates -> TemplateRows]
  /\ assignment \in [Assignments -> AssignmentRows]
  /\ \A t \in Templates : template[t].status # "ARCHIVED"
  /\ \A a \in Assignments : assignment[a].status = "ABSENT" => assignment[a] = AbsentAssignment

NetOK == faults \in 0 .. MaxFaults /\ stray \in Requests \cup {None}

Exists(t) == template[t].status # "ABSENT"

Active(t) == template[t].status = "ACTIVE"

HasAssignment(t) == \E a \in Assignments : assignment[a].template = t

(* A chain is at its first call only if no template is known and no other    *)
(* chain runs; from then on it is about the page's template.                 *)
Creating(f) ==
  /\ flows[f].req = Create(flows[f].draft.reward)
  /\ builder.templateId = None /\ builder.stage = "SAVING"
  /\ \A g \in Flows : Running(g) => g = f
  /\ \/ flows[f].answer = None
     \/ \E t \in Templates : flows[f].answer = Ok(t) /\ Exists(t)

Publishing(f) ==
  /\ builder.templateId # None
  /\ flows[f].req = Publish(builder.templateId)
  /\ flows[f].answer = None \/ (flows[f].answer = Ok(None) /\ Active(builder.templateId))

Assigning(f) ==
  /\ builder.templateId # None /\ Active(builder.templateId)
  /\ flows[f].req = Assign(builder.templateId, flows[f].draft.child)
  /\ flows[f].answer = None \/ (flows[f].answer = Ok(None) /\ HasAssignment(builder.templateId))

FlowOK(f) ==
  Running(f) =>
    /\ flows[f].draft \in Drafts /\ DraftErrors(flows[f].draft, FamilyChildren) = {}
    /\ Creating(f) \/ Publishing(f) \/ Assigning(f)

FlowTypes ==
  flows \in [Flows -> [draft : Drafts \cup {None}, req : Requests \cup {None},
                       answer : Answers \cup {None}]]

(* Before its context has loaded a page knows and does nothing.              *)
ContextOK ==
  builder.context # "READY" =>
    builder.stage = "DRAFT" /\ builder.templateId = None /\ \A f \in Flows : ~Running(f)

BuilderOK ==
  /\ BuilderTypeOK /\ FlowTypes /\ ContextOK
  /\ builder.templateId # None => Exists(builder.templateId)
  /\ \A f \in Flows : FlowOK(f)

(* A load's answer is a version of the row, no older than the one shown.     *)
FlightOK(f) ==
  /\ f \in [req : {Load(page.id), Start(page.id), Submit(page.id)}, answer : Answers \cup {None}]
  /\ IF f.req.op = "load" THEN page.loading ELSE page.busy
  /\ f.req.op = "load" /\ f.answer # None =>
       /\ f.answer.code = "OK" /\ f.answer.body \in Views
       /\ page.view # None => page.view.version <= f.answer.body.version
       /\ f.answer.body.version <= assignment[page.id].version

ViewOK ==
  /\ page.id # None => assignment[page.id].status # "ABSENT"
  /\ page.view # None => page.id # None /\ page.view.version <= assignment[page.id].version

ChildOK ==
  /\ ChildTypeOK /\ ViewOK
  /\ page.id = None => flights = {}
  /\ \A f \in flights : FlightOK(f)
  /\ \A f, g \in flights : f = g

IInv == RowsOK /\ NetOK /\ BuilderOK /\ ChildOK /\ SuccessIsTrue /\ TemplatesAccountedFor

-----------------------------------------------------------------------------
(* Requests, answers and recovery actions. *)

LEMMA RequestIs ==
  ASSUME NEW req \in Requests
  PROVE  /\ req.op \in {"create", "publish", "assign", "load", "start", "submit"}
         /\ req.op = "create" => req.reward \in Rewards
         /\ req.op = "publish" => req.id \in Templates
         /\ req.op = "assign" => req.id \in Templates /\ req.child \in Children
         /\ req.op \in {"load", "start", "submit"} => req.id \in Assignments
BY DEF Requests, Create, Publish, Assign, Load, Start, Submit

LEMMA AreRequests ==
  /\ \A reward \in Rewards : Create(reward) \in Requests /\ Create(reward).op = "create"
  /\ \A t \in Templates : Publish(t) \in Requests /\ Publish(t).op = "publish"
  /\ \A t \in Templates, child \in Children :
       Assign(t, child) \in Requests /\ Assign(t, child).op = "assign"
  /\ \A a \in Assignments :
       {Load(a), Start(a), Submit(a)} \subseteq Requests
<1>1. \A reward \in Rewards : Create(reward) \in Requests /\ Create(reward).op = "create"
  BY DEF Requests, Create
<1>2. \A t \in Templates : Publish(t) \in Requests /\ Publish(t).op = "publish"
  BY DEF Requests, Publish
<1>3. \A t \in Templates, child \in Children :
        Assign(t, child) \in Requests /\ Assign(t, child).op = "assign"
  BY DEF Requests, Assign
<1>4. \A a \in Assignments : {Load(a), Start(a), Submit(a)} \subseteq Requests
  BY DEF Requests
<1> QED  BY <1>1, <1>2, <1>3, <1>4

LEMMA AreAnswers ==
  /\ Refused \in Answers /\ Ok(None) \in Answers
  /\ \A t \in Templates : Ok(t) \in Answers
  /\ \A v \in Views : Ok(v) \in Answers
  /\ Refused # None /\ Ok(None) # None
  /\ \A t \in Templates : Ok(t) # None
  /\ \A v \in Views : Ok(v) # None
  /\ \A b : Ok(b).code = "OK" /\ Ok(b).body = b
  /\ Refused.code = "DOMAIN_ERROR"
BY TaskApiAssumption DEF Answers, Refused, Ok

LEMMA RecoveryIsAnAction ==
  ASSUME NEW code, NEW surface \in {"parent", "child"}
  PROVE  RecoveryFor(code, surface) \in RecoveryActions
BY DEF RecoveryFor, RecoveryActions, PARENT_RECOVERY, CHILD_RECOVERY, FALLBACK

-----------------------------------------------------------------------------
(* What the server's steps do to the rows. *)

(* Rows never lose what a page may have been told of them.                   *)
RowsGrow ==
  /\ \A t \in Templates : Exists(t) => Exists(t)'
  /\ \A t \in Templates : Active(t) => Active(t)'
  /\ \A a \in Assignments : assignment[a].status # "ABSENT" =>
       /\ assignment'[a].status # "ABSENT"
       /\ assignment'[a].template = assignment[a].template
       /\ assignment'[a].version >= assignment[a].version

(* The template a request creates.                                           *)
Born(req) == IF req.op = "create" /\ Accepted(req) THEN {FreshTemplate} ELSE {}

(* No template comes from anywhere else.                                     *)
NewTemplates(born) ==
  /\ \A t \in Templates : Exists(t)' => Exists(t) \/ t \in born
  /\ \A t \in born : t \in Templates /\ Exists(t)'

LEMMA RowsStay ==
  ASSUME RowsOK, UNCHANGED <<template, assignment>>
  PROVE  RowsOK' /\ RowsGrow /\ NewTemplates({})
<1>1. RowsOK'  BY DEF RowsOK
<1>2. \A a \in Assignments : assignment[a].version \in Nat
  BY DEF RowsOK, AssignmentRows
<1> QED  BY <1>1, <1>2 DEF RowsGrow, NewTemplates, Exists, Active

(* A template's row becomes row, an assignment's stays.                      *)
LEMMA TemplateChanges ==
  ASSUME RowsOK, NEW t \in Templates, NEW row \in TemplateRows, SetTemplate(t, row),
         row.status \notin {"ABSENT", "ARCHIVED"},
         template[t].status = "ACTIVE" => row.status = "ACTIVE"
  PROVE  /\ RowsOK' /\ RowsGrow
         /\ template'[t] = row
         /\ \A u \in Templates : u # t => template'[u] = template[u]
         /\ UNCHANGED assignment
<1>1. /\ template' = [template EXCEPT ![t] = row] /\ assignment' = assignment
      /\ template'[t] = row
      /\ \A u \in Templates : u # t => template'[u] = template[u]
  BY DEF SetTemplate, RowsOK
<1>2. RowsOK'
  <2>1. template' \in [Templates -> TemplateRows]  BY <1>1 DEF RowsOK
  <2>2. \A u \in Templates : template'[u].status # "ARCHIVED"  BY <1>1 DEF RowsOK
  <2> QED  BY <1>1, <2>1, <2>2 DEF RowsOK
<1>3. \A a \in Assignments : assignment[a].version \in Nat
  BY DEF RowsOK, AssignmentRows
<1>4. \A u \in Templates : (Exists(u) => Exists(u)') /\ (Active(u) => Active(u)')
  BY <1>1 DEF Exists, Active
<1> QED  BY <1>1, <1>2, <1>3, <1>4 DEF RowsGrow

LEMMA AssignmentChanges ==
  ASSUME RowsOK, NEW a \in Assignments, NEW row \in AssignmentRows, SetAssignment(a, row),
         row.status # "ABSENT",
         assignment[a].status # "ABSENT" =>
           row.template = assignment[a].template /\ row.version >= assignment[a].version
  PROVE  /\ RowsOK' /\ RowsGrow /\ NewTemplates({})
         /\ assignment'[a] = row
         /\ \A b \in Assignments : b # a => assignment'[b] = assignment[b]
         /\ UNCHANGED template
<1>1. /\ assignment' = [assignment EXCEPT ![a] = row] /\ template' = template
      /\ assignment'[a] = row
      /\ \A b \in Assignments : b # a => assignment'[b] = assignment[b]
  BY DEF SetAssignment, RowsOK
<1>2. RowsOK'
  <2>1. assignment' \in [Assignments -> AssignmentRows]  BY <1>1 DEF RowsOK
  <2>2. \A b \in Assignments : assignment'[b].status = "ABSENT" => assignment'[b] = AbsentAssignment
    BY <1>1 DEF RowsOK
  <2> QED  BY <1>1, <2>1, <2>2 DEF RowsOK
<1>3. \A b \in Assignments : assignment[b].version \in Nat
  BY DEF RowsOK, AssignmentRows
<1>4. \A b \in Assignments : assignment[b].status # "ABSENT" =>
        /\ assignment'[b].status # "ABSENT"
        /\ assignment'[b].template = assignment[b].template
        /\ assignment'[b].version >= assignment[b].version
  BY <1>1, <1>3
<1> QED  BY <1>1, <1>2, <1>4 DEF RowsGrow, NewTemplates, Exists, Active

LEMMA AdvanceIs ==
  ASSUME NEW row \in AssignmentRows, NEW status \in AssignmentStatuses
  PROVE  /\ Advance(row, status) \in AssignmentRows
         /\ Advance(row, status).status = status
         /\ Advance(row, status).version = row.version + 1
         /\ Advance(row, status).template = row.template
         /\ Advance(row, status).child = row.child
<1>1. row.version + 1 \in Nat  BY DEF AssignmentRows
<1> QED  BY <1>1 DEF Advance, AssignmentRows

LEMMA RowAdvances ==
  ASSUME RowsOK, NEW a \in Assignments, NEW status \in AssignmentStatuses,
         SetAssignment(a, Advance(assignment[a], status))
  PROVE  RowsOK' /\ RowsGrow /\ NewTemplates({})
<1> DEFINE row == Advance(assignment[a], status)
<1>1. assignment[a] \in AssignmentRows /\ assignment[a].version \in Nat
  BY DEF RowsOK, AssignmentRows
<1>2. /\ row \in AssignmentRows /\ row.status # "ABSENT"
      /\ row.template = assignment[a].template /\ row.version >= assignment[a].version
  BY <1>1, AdvanceIs DEF AssignmentStatuses
<1>3. SetAssignment(a, row)  OBVIOUS
<1> HIDE DEF row
<1> QED  BY <1>2, <1>3, AssignmentChanges

(* A parent's decision takes the row through VERIFYING.                      *)
LEMMA DecisionIs ==
  ASSUME NEW row \in AssignmentRows
  PROVE  /\ Rejected(row) \in AssignmentRows /\ Rejected(row).status = "REJECTED"
         /\ Rejected(row).template = row.template /\ Rejected(row).version = row.version + 2
         /\ Completed(row) \in AssignmentRows /\ Completed(row).status = "COMPLETED"
         /\ Completed(row).template = row.template /\ Completed(row).version = row.version + 3
<1>1. row.version \in Nat  BY DEF AssignmentRows
<1>2. /\ Verifying(row) \in AssignmentRows
      /\ Verifying(row).template = row.template /\ Verifying(row).version = row.version + 1
  BY AdvanceIs DEF Verifying, AssignmentStatuses
<1>3. /\ Rejected(row) \in AssignmentRows /\ Rejected(row).status = "REJECTED"
      /\ Rejected(row).template = row.template /\ Rejected(row).version = row.version + 2
  BY <1>1, <1>2, AdvanceIs DEF Rejected, AssignmentStatuses
<1>4. /\ Approved(row) \in AssignmentRows
      /\ Approved(row).template = row.template /\ Approved(row).version = row.version + 2
  BY <1>1, <1>2, AdvanceIs DEF Approved, AssignmentStatuses
<1>5. /\ Completed(row) \in AssignmentRows /\ Completed(row).status = "COMPLETED"
      /\ Completed(row).template = row.template /\ Completed(row).version = row.version + 3
  BY <1>1, <1>4, AdvanceIs DEF Completed, AssignmentStatuses
<1> QED  BY <1>3, <1>5

LEMMA Decisions ==
  ASSUME RowsOK, NEW a \in Assignments, ApproveTask(a) \/ RejectTask(a)
  PROVE  RowsOK' /\ RowsGrow /\ NewTemplates({})
<1>1. assignment[a] \in AssignmentRows /\ assignment[a].version \in Nat
  BY DEF RowsOK, AssignmentRows
<1>2. PICK row \in {Completed(assignment[a]), Rejected(assignment[a])} : SetAssignment(a, row)
  BY DEF ApproveTask, RejectTask
<1>3. /\ row \in AssignmentRows /\ row.status # "ABSENT"
      /\ row.template = assignment[a].template /\ row.version >= assignment[a].version
  BY <1>1, <1>2, DecisionIs
<1> QED  BY <1>2, <1>3, AssignmentChanges

(* What a request does, by its operation.                                    *)
LEMMA CreateHandled ==
  ASSUME RowsOK, NEW req \in Requests, req.op = "create", Handle(req)
  PROVE  RowsOK' /\ RowsGrow /\ NewTemplates(Born(req))
<1>1. CASE ~Accepted(req)
  <2>1. UNCHANGED <<template, assignment>>
    BY <1>1 DEF Handle, Accepted, CreateTemplate, lifecycleVars
  <2> QED  BY <1>1, <2>1, RowsStay DEF Born
<1>2. CASE Accepted(req)
  <2>1. FreshTemplate \in Templates /\ CreateTemplate(FreshTemplate, req.reward)
    BY <1>2 DEF Handle, Replays
  <2>2. PICK t \in Templates : t = FreshTemplate  BY <2>1
  <2>3. CreateTemplate(t, req.reward)  BY <2>1, <2>2
  <2> DEFINE row == NewTemplate(req.reward)
  <2>4. req.reward \in [Currencies -> Nat]
    BY <2>3, RequestIs, TaskDomainAssumption DEF CreateTemplate, CreateTemplateAllowed, NonNegative
  <2>5. row \in TemplateRows /\ row.status = "DRAFT"
    BY <2>4 DEF NewTemplate, TemplateRows, TemplateStatuses
  <2>6. SetTemplate(t, row) /\ template[t].status = "ABSENT"  BY <2>3 DEF CreateTemplate
  <2> HIDE DEF row
  <2>7. /\ RowsOK' /\ RowsGrow /\ template'[t] = row
        /\ \A u \in Templates : u # t => template'[u] = template[u]
    BY <2>5, <2>6, TemplateChanges
  <2>8. Born(req) = {t}  BY <1>2, <2>2 DEF Born
  <2>9. NewTemplates({t})  BY <2>5, <2>7 DEF NewTemplates, Exists
  <2> QED  BY <2>7, <2>8, <2>9
<1> QED  BY <1>1, <1>2

LEMMA PublishHandled ==
  ASSUME RowsOK, NEW req \in Requests, req.op = "publish", Handle(req)
  PROVE  /\ RowsOK' /\ RowsGrow /\ NewTemplates({})
         /\ Exists(req.id) => Reply(req) = Ok(None) /\ Active(req.id)'
<1> DEFINE t == req.id
<1>1. t \in Templates  BY RequestIs
<1>2. template[t].status \in {"ABSENT", "DRAFT", "ACTIVE"} /\ template[t] \in TemplateRows
  BY <1>1 DEF RowsOK, TemplateRows, TemplateStatuses
<1>3. CASE template[t].status # "DRAFT"
  <2>1. UNCHANGED <<template, assignment>>
    BY <1>3 DEF Handle, PublishTemplate, PublishTemplateAllowed, lifecycleVars,
                IsValidTaskTemplateTransition
  <2>2. RowsOK' /\ RowsGrow /\ NewTemplates({})  BY <2>1, RowsStay
  <2>3. Exists(t) => Replays(req) /\ Active(t)'
    BY <1>2, <1>3, <2>1 DEF Exists, Active, Replays
  <2> QED  BY <2>2, <2>3 DEF Reply, Accepted
<1>4. CASE template[t].status = "DRAFT"
  <2>1. Accepted(req) /\ ~Replays(req)
    BY <1>4 DEF Accepted, Replays, PublishTemplateAllowed, IsValidTaskTemplateTransition
  <2>2. SetTemplate(t, Advance(template[t], "ACTIVE"))
    BY <2>1 DEF Handle, PublishTemplate
  <2> DEFINE row == Advance(template[t], "ACTIVE")
  <2>3. row \in TemplateRows /\ row.status = "ACTIVE"
    <3>1. template[t].version + 1 \in Nat  BY <1>2 DEF TemplateRows
    <3> QED  BY <1>2, <3>1 DEF Advance, TemplateRows, TemplateStatuses
  <2>4. SetTemplate(t, row)  BY <2>2
  <2> HIDE DEF row
  <2>5. /\ RowsOK' /\ RowsGrow /\ template'[t] = row
        /\ \A u \in Templates : u # t => template'[u] = template[u]
    BY <1>1, <2>3, <2>4, TemplateChanges
  <2>6. NewTemplates({})  BY <1>4, <2>5 DEF NewTemplates, Exists
  <2>7. Active(t)'  BY <1>1, <2>3, <2>5 DEF Active
  <2>8. Reply(req) = Ok(None)  BY <2>1 DEF Reply
  <2> QED  BY <2>5, <2>6, <2>7, <2>8
<1> QED  BY <1>3, <1>4

LEMMA AssignHandled ==
  ASSUME RowsOK, NEW req \in Requests, req.op = "assign", Handle(req)
  PROVE  /\ RowsOK' /\ RowsGrow /\ NewTemplates({})
         /\ Active(req.id) => Reply(req) = Ok(None) /\ HasAssignment(req.id)'
<1>1. req.id \in Templates /\ req.child \in Children  BY RequestIs
<1>2. Accepted(req) <=> Active(req.id)
  BY DEF Accepted, Replays, AssignTaskAllowed, Active
<1>3. CASE ~Active(req.id)
  <2>1. UNCHANGED <<template, assignment>>
    BY <1>3 DEF Handle, AssignTask, AssignTaskAllowed, Active, lifecycleVars
  <2> QED  BY <1>3, <2>1, RowsStay
<1>4. CASE Active(req.id)
  <2>1. FreshAssignment \in Assignments /\ AssignTask(FreshAssignment, req.id, req.child)
    BY <1>2, <1>4 DEF Handle, Replays
  <2>2. PICK a \in Assignments : AssignTask(a, req.id, req.child)  BY <2>1
  <2> DEFINE row == NewAssignment(req.id, req.child)
  <2>3. row \in AssignmentRows /\ row.status # "ABSENT" /\ row.template = req.id
    BY <1>1 DEF NewAssignment, AssignmentRows, AssignmentStatuses
  <2>4. SetAssignment(a, row) /\ assignment[a].status = "ABSENT"  BY <2>2 DEF AssignTask
  <2> HIDE DEF row
  <2>5. RowsOK' /\ RowsGrow /\ NewTemplates({}) /\ assignment'[a] = row
    BY <2>3, <2>4, AssignmentChanges
  <2>6. HasAssignment(req.id)'  BY <2>3, <2>5 DEF HasAssignment
  <2>7. Reply(req) = Ok(None)  BY <1>2, <1>4 DEF Reply
  <2> QED  BY <2>5, <2>6, <2>7
<1> QED  BY <1>3, <1>4

LEMMA ChildHandled ==
  ASSUME RowsOK, NEW req \in Requests, req.op \in {"load", "start", "submit"}, Handle(req)
  PROVE  RowsOK' /\ RowsGrow /\ NewTemplates({})
<1> DEFINE a == req.id
<1>1. a \in Assignments  BY RequestIs
<1>2. CASE UNCHANGED <<template, assignment>>  BY <1>2, RowsStay
<1>3. CASE StartTask(a) \/ SubmitTask(a)
  <2>1. PICK status \in AssignmentStatuses : SetAssignment(a, Advance(assignment[a], status))
    BY <1>3 DEF StartTask, SubmitTask, AssignmentStatuses
  <2> QED  BY <1>1, <2>1, RowAdvances
<1> QED  BY <1>2, <1>3 DEF Handle, lifecycleVars

LEMMA Handled ==
  ASSUME RowsOK, NEW req \in Requests, Handle(req)
  PROVE  RowsOK' /\ RowsGrow /\ NewTemplates(Born(req))
<1>1. req.op # "create" => Born(req) = {}  BY DEF Born
<1> QED  BY <1>1, RequestIs, CreateHandled, PublishHandled, AssignHandled, ChildHandled

-----------------------------------------------------------------------------
(* The builder: what stays as it was. *)

(* What the rows come to has a keeper as long as none loses one.             *)
Kept == {builder.templateId} \cup orphans \cup UNION {Untold(f) : f \in Flows}

LEMMA KeepersKeep ==
  ASSUME TemplatesAccountedFor, NEW born, NewTemplates(born),
         \A t \in Templates : t \in Kept \cup born => t \in Kept'
  PROVE  TemplatesAccountedFor'
<1>1. \A t \in Templates : Exists(t) => t \in Kept
  BY DEF TemplatesAccountedFor, Exists, Kept
<1>2. \A t \in Templates : Exists(t)' => t \in Kept'
  BY <1>1 DEF NewTemplates
<1> QED  BY <1>2 DEF TemplatesAccountedFor, Exists, Kept

LEMMA FlowIs ==
  ASSUME BuilderOK, NEW f \in Flows
  PROVE  /\ flows[f].draft \in Drafts \cup {None} /\ flows[f].req \in Requests \cup {None}
         /\ flows[f].answer \in Answers \cup {None}
         /\ ~Running(f) => flows[f] = NoFlow
         /\ Running(f) =>
              /\ flows[f].req \in Requests
              /\ Creating(f) => flows[f].req.op = "create"
              /\ Publishing(f) => flows[f].req.op = "publish"
              /\ Assigning(f) => flows[f].req.op = "assign"
<1>1. /\ flows[f].draft \in Drafts \cup {None} /\ flows[f].req \in Requests \cup {None}
      /\ flows[f].answer \in Answers \cup {None}
      /\ ~Running(f) => flows[f] = NoFlow
  BY DEF BuilderOK, BuilderTypeOK, FlowTypes, Running
<1>2. Running(f) => flows[f].req \in Requests  BY <1>1 DEF Running
<1>3. /\ Creating(f) => flows[f].req.op = "create"
      /\ Publishing(f) => flows[f].req.op = "publish"
      /\ Assigning(f) => flows[f].req.op = "assign"
  BY DEF Creating, Publishing, Assigning, Create, Publish, Assign
<1> QED  BY <1>1, <1>2, <1>3

LEMMA WhatIsTrueStays ==
  ASSUME RowsOK, RowsGrow, NEW id \in Templates
  PROVE  /\ Exists(id) => Exists(id)'
         /\ Active(id) => Active(id)'
         /\ HasAssignment(id) => HasAssignment(id)'
<1>1. ASSUME NEW a \in Assignments, assignment[a].template = id
      PROVE  assignment'[a].template = id
  <2>1. assignment[a].status # "ABSENT"
    BY <1>1, TaskDomainAssumption DEF RowsOK, AbsentAssignment
  <2> QED  BY <1>1, <2>1 DEF RowsGrow
<1>2. HasAssignment(id) => HasAssignment(id)'  BY <1>1 DEF HasAssignment
<1> QED  BY <1>2 DEF RowsGrow

(* A chain that does not move, on rows that only grow.                       *)
LEMMA FlowStays ==
  ASSUME RowsOK, RowsGrow, BuilderTypeOK, NEW f \in Flows, FlowOK(f),
         flows'[f] = flows[f], builder'.templateId = builder.templateId,
         Creating(f) =>
           builder'.stage = builder.stage /\ \A g \in Flows : Running(g)' => Running(g)
  PROVE  FlowOK(f)'
<1>1. builder.templateId \in Templates \cup {None}  BY DEF BuilderTypeOK
<1>2. ASSUME Running(f) PROVE FlowOK(f)'
  <2>1. flows[f].draft \in Drafts /\ DraftErrors(flows[f].draft, FamilyChildren) = {}
    BY <1>2 DEF FlowOK
  <2>2. CASE Creating(f)
    <3>1. \A t \in Templates : Exists(t) => Exists(t)'  BY DEF RowsGrow
    <3>2. Creating(f)'  BY <2>2, <3>1 DEF Creating
    <3> QED  BY <2>1, <3>2 DEF FlowOK
  <2>3. CASE Publishing(f)
    <3>1. Active(builder.templateId) => Active(builder.templateId)'
      BY <1>1, <2>3 DEF Publishing, RowsGrow, Active
    <3>2. Publishing(f)'  BY <2>3, <3>1 DEF Publishing, Active
    <3> QED  BY <2>1, <3>2 DEF FlowOK
  <2>4. CASE Assigning(f)
    <3>1. PICK id \in Templates : id = builder.templateId  BY <1>1, <2>4 DEF Assigning
    <3>2. Active(id)' /\ (HasAssignment(id) => HasAssignment(id)')
      BY <2>4, <3>1, WhatIsTrueStays DEF Assigning, Active
    <3>3. Assigning(f)'  BY <2>4, <3>1, <3>2 DEF Assigning, Active, HasAssignment
    <3> QED  BY <2>1, <3>3 DEF FlowOK
  <2> QED  BY <1>2, <2>2, <2>3, <2>4 DEF FlowOK
<1>3. ASSUME ~Running(f) PROVE FlowOK(f)'
  BY <1>3 DEF FlowOK, Running
<1> QED  BY <1>2, <1>3

(* The page is told what it shows, and it stays true.                        *)
LEMMA SuccessStays ==
  ASSUME RowsOK, RowsGrow, BuilderTypeOK, SuccessIsTrue,
         builder'.templateId = builder.templateId,
         builder'.stage = builder.stage \/ builder'.stage \in {"DRAFT", "SAVING"}
  PROVE  SuccessIsTrue'
<1>1. CASE builder'.stage \in {"DRAFT", "SAVING"}
  BY <1>1 DEF SuccessIsTrue
<1>2. CASE builder.stage \in {"PUBLISHED", "ASSIGNED"} /\ builder'.stage = builder.stage
  <2>1. PICK id \in Templates : id = builder.templateId
    BY <1>2 DEF SuccessIsTrue, BuilderTypeOK
  <2>2. Active(id)' /\ (HasAssignment(id) => HasAssignment(id)')
    BY <1>2, <2>1, WhatIsTrueStays DEF SuccessIsTrue, Active
  <2>3. template'[builder'.templateId].status = "ACTIVE"  BY <2>1, <2>2 DEF Active
  <2>4. builder'.stage = "ASSIGNED" =>
          \E a \in Assignments : assignment'[a].template = builder'.templateId
    BY <1>2, <2>1, <2>2 DEF SuccessIsTrue, HasAssignment
  <2> QED  BY <1>2, <2>1, <2>3, <2>4, TaskDomainAssumption DEF SuccessIsTrue
<1> QED  BY <1>1, <1>2 DEF BuilderTypeOK

LEMMA BuilderStays ==
  ASSUME RowsOK, RowsGrow, BuilderOK, SuccessIsTrue, UNCHANGED <<builder, flows>>,
         orphans' \subseteq Templates
  PROVE  BuilderOK' /\ SuccessIsTrue'
<1>1. BuilderTypeOK' /\ FlowTypes' /\ ContextOK'
  BY DEF BuilderOK, BuilderTypeOK, FlowTypes, ContextOK, Running
<1>2. ASSUME NEW f \in Flows PROVE FlowOK(f)'
  BY <1>2, FlowStays DEF BuilderOK, Running
<1>3. builder.templateId # None => Exists(builder.templateId)'
  BY DEF BuilderOK, BuilderTypeOK, RowsGrow, Exists
<1>4. SuccessIsTrue'  BY SuccessStays DEF BuilderOK
<1> QED  BY <1>1, <1>2, <1>3, <1>4 DEF BuilderOK, Exists

-----------------------------------------------------------------------------
(* The builder: its steps. *)

FlowRows ==
  [draft : Drafts \cup {None}, req : Requests \cup {None}, answer : Answers \cup {None}]

Builders ==
  [context : {"LOADING", "READY", "FAILED"}, stage : {"DRAFT", "SAVING", "PUBLISHED", "ASSIGNED"},
   templateId : Templates \cup {None}, recovery : RecoveryActions \cup {None}]

LEMMA BuilderTypes ==
  BuilderTypeOK =>
    /\ builder \in Builders /\ orphans \subseteq Templates
    /\ \A f \in Flows : flows[f].req = None => flows[f] = NoFlow
BY DEF BuilderTypeOK, Builders

(* What a step of the builder keeps.                                         *)
BuilderKept ==
  /\ RowsOK' /\ RowsGrow /\ NetOK'
  /\ BuilderOK' /\ SuccessIsTrue' /\ TemplatesAccountedFor'

LEMMA ApiStays ==
  ASSUME RowsOK, NetOK, UNCHANGED apiVars
  PROVE  RowsOK' /\ RowsGrow /\ NetOK' /\ NewTemplates({})
<1>1. UNCHANGED <<template, assignment>> /\ UNCHANGED <<faults, stray>>
  BY DEF apiVars, lifecycleVars, faultVars
<1> QED  BY <1>1, RowsStay DEF NetOK

LEMMA CallsGivenUp ==
  ASSUME RowsOK, NetOK, NEW req \in Requests, NEW served \in BOOLEAN, GiveUp(req, served),
         UNCHANGED lifecycleVars
  PROVE  RowsOK' /\ RowsGrow /\ NetOK' /\ NewTemplates({})
<1>1. UNCHANGED <<template, assignment>>  BY DEF lifecycleVars
<1>2. NetOK'  BY TaskApiAssumption DEF NetOK, GiveUp
<1> QED  BY <1>1, <1>2, RowsStay

(* One chain moves; the others do not notice.                                *)
LEMMA OneFlowMoves ==
  ASSUME RowsOK, RowsGrow, BuilderOK, NEW f \in Flows, NEW row \in FlowRows,
         flows' = [flows EXCEPT ![f] = row], row.req = None => row = NoFlow,
         builder' \in Builders, builder'.context = "READY", orphans' \subseteq Templates,
         (builder.templateId # None => Exists(builder.templateId))',
         \/ \A g \in Flows \ {f} : ~Running(g)
         \/ /\ builder'.templateId = builder.templateId
            /\ \A g \in Flows \ {f} : Running(g) => ~Creating(g),
         FlowOK(f)'
  PROVE  BuilderOK'
<1>1. flows \in [Flows -> FlowRows]  BY DEF BuilderOK, FlowTypes, FlowRows
<1>2. /\ flows' \in [Flows -> FlowRows] /\ flows'[f] = row
      /\ \A g \in Flows \ {f} : flows'[g] = flows[g]
  BY <1>1
<1>3. FlowTypes'  BY <1>2 DEF FlowTypes, FlowRows
<1>4. \A g \in Flows : flows'[g].req = None => flows'[g] = NoFlow
  BY <1>2, BuilderTypes DEF BuilderOK
<1>5. BuilderTypeOK'
  BY <1>2, <1>4 DEF BuilderTypeOK, Builders, FlowRows
<1>6. ASSUME NEW g \in Flows \ {f} PROVE FlowOK(g)'
  <2>1. CASE ~Running(g)  BY <1>2, <2>1 DEF FlowOK, Running
  <2>2. CASE Running(g)
    <3>1. flows'[g] = flows[g] /\ builder'.templateId = builder.templateId /\ ~Creating(g)
      BY <1>2, <2>2
    <3>2. FlowOK(g) /\ BuilderTypeOK  BY DEF BuilderOK
    <3> QED  BY <3>1, <3>2, FlowStays
  <2> QED  BY <2>1, <2>2
<1>7. \A g \in Flows : FlowOK(g)'  BY <1>6
<1>8. ContextOK'  BY DEF ContextOK
<1> QED  BY <1>3, <1>5, <1>7, <1>8 DEF BuilderOK

LEMMA ContextLoadsKeeps ==
  ASSUME IInv, ContextLoads \/ (\E code \in FailureCodes : ContextFails(code)) \/ ReopenFailed
  PROVE  BuilderKept
<1>1. /\ flows' = flows /\ orphans' = orphans /\ UNCHANGED <<template, assignment>>
      /\ stray' = stray /\ faults' \in {faults, faults + 1}
      /\ faults' = faults + 1 => faults < MaxFaults
  <2>1. CASE ContextLoads \/ ReopenFailed
    <3>1. faults # faults + 1  BY DEF IInv, NetOK
    <3> QED  BY <2>1, <3>1 DEF ContextLoads, ReopenFailed, apiVars, lifecycleVars, faultVars
  <2>2. CASE \E code \in FailureCodes : ContextFails(code)
    BY <2>2 DEF ContextFails, lifecycleVars
  <2> QED  BY <2>1, <2>2
<1>2. RowsOK' /\ RowsGrow /\ NewTemplates({})  BY <1>1, RowsStay DEF IInv
<1>3. NetOK'  BY <1>1, TaskApiAssumption DEF IInv, NetOK
<1>4. builder.context # "READY"
  BY DEF ContextLoads, ContextFails, ReopenFailed
<1>5. builder.stage = "DRAFT" /\ builder.templateId = None /\ \A f \in Flows : ~Running(f)
  BY <1>4 DEF IInv, BuilderOK, ContextOK
<1>6. builder \in Builders  BY BuilderTypes DEF IInv, BuilderOK
<1>7. builder' \in Builders /\ builder'.stage = "DRAFT" /\ builder'.templateId = None
  <2>1. CASE ContextLoads
    BY <1>5, <1>6, <2>1 DEF ContextLoads, Builders
  <2>2. CASE \E code \in FailureCodes : ContextFails(code)
    <3>1. PICK code \in FailureCodes : ContextFails(code)  BY <2>2
    <3>2. RecoveryFor(code, "parent") \in RecoveryActions  BY RecoveryIsAnAction
    <3> QED  BY <1>5, <1>6, <3>1, <3>2 DEF ContextFails, Builders
  <2>3. CASE ReopenFailed
    BY <2>3 DEF ReopenFailed, NewBuilder, Builders
  <2> QED  BY <2>1, <2>2, <2>3
<1>8. BuilderTypeOK' /\ FlowTypes'
  BY <1>1, <1>7 DEF IInv, BuilderOK, BuilderTypeOK, FlowTypes, Builders
<1>9. ContextOK' /\ \A f \in Flows : FlowOK(f)'
  BY <1>1, <1>5, <1>7 DEF ContextOK, FlowOK, Running
<1>10. BuilderOK'  BY <1>7, <1>8, <1>9 DEF BuilderOK
<1>11. SuccessIsTrue'  BY <1>7 DEF SuccessIsTrue
<1>12. TemplatesAccountedFor'
  <2>1. \A f \in Flows : Untold(f)' = Untold(f)
    BY <1>1 DEF Untold, Returned, Served, Running
  <2>2. \A t \in Templates : t \in Kept => t \in Kept'
    BY <1>1, <1>5, <2>1, TaskDomainAssumption DEF Kept
  <2> QED  BY <1>2, <2>2, KeepersKeep DEF IInv
<1> QED  BY <1>2, <1>3, <1>10, <1>11, <1>12 DEF BuilderKept

LEMMA TapKeeps ==
  ASSUME IInv, NEW f \in Flows, NEW draft \in Drafts, Tap(f, draft)
  PROVE  BuilderKept
<1> DEFINE next == IF builder.templateId = None THEN Create(draft.reward)
                                                ELSE Publish(builder.templateId)
           row == [draft |-> draft, req |-> next, answer |-> None]
<1>1. /\ builder \in Builders /\ builder.context = "READY"
      /\ builder.stage \notin {"ASSIGNED", "SAVING"}
      /\ DraftErrors(draft, FamilyChildren) = {} /\ ~Running(f)
  BY BuilderTypes DEF IInv, BuilderOK, Tap, ButtonEnabled, Sendable
<1>2. draft.reward \in Rewards  BY TaskBuilderAssumption
<1>3. next \in Requests
  BY <1>1, <1>2, AreRequests DEF Builders
<1>4. row \in FlowRows /\ row.req # None
  BY <1>3, TaskApiAssumption DEF FlowRows
<1>5. flows' = [flows EXCEPT ![f] = row] /\ orphans' = orphans /\ UNCHANGED apiVars
  BY DEF Tap, Send
<1>6. /\ builder' \in Builders /\ builder'.stage = "SAVING" /\ builder'.context = "READY"
      /\ builder'.templateId = builder.templateId
  BY <1>1 DEF Tap, Builders
<1>7. RowsOK' /\ RowsGrow /\ NetOK' /\ NewTemplates({})
  BY <1>5, ApiStays DEF IInv
<1>8. \A g \in Flows : Running(g) => ~Creating(g)
  BY <1>1 DEF Creating
<1>9. builder.templateId = None => \A g \in Flows : ~Running(g)
  BY <1>8 DEF IInv, BuilderOK, FlowOK, Publishing, Assigning
<1>10. flows'[f] = row /\ \A g \in Flows \ {f} : flows'[g] = flows[g]
  BY <1>5 DEF IInv, BuilderOK, FlowTypes
<1>11. FlowOK(f)'
  <2>1. CASE builder.templateId = None
    <3>1. next = Create(draft.reward)  BY <2>1
    <3>2. \A g \in Flows : Running(g)' => g = f  BY <1>9, <1>10, <2>1 DEF Running
    <3>3. Creating(f)'  BY <1>6, <1>10, <2>1, <3>1, <3>2 DEF Creating
    <3> QED  BY <1>1, <1>10, <3>3 DEF FlowOK
  <2>2. CASE builder.templateId # None
    <3>1. next = Publish(builder.templateId)  BY <2>2
    <3>2. Publishing(f)'  BY <1>6, <1>10, <2>2, <3>1 DEF Publishing
    <3> QED  BY <1>1, <1>10, <3>2 DEF FlowOK
  <2> QED  BY <2>1, <2>2
<1> HIDE DEF row, next
<1>12. (builder.templateId # None => Exists(builder.templateId))'
  BY <1>6, <1>7 DEF IInv, BuilderOK, Builders, RowsGrow, Exists
<1>13. orphans' \subseteq Templates  BY <1>5 DEF IInv, BuilderOK, BuilderTypeOK
<1>14. BuilderOK'
  BY <1>4, <1>5, <1>6, <1>7, <1>8, <1>11, <1>12, <1>13, OneFlowMoves DEF IInv
<1>15. SuccessIsTrue'
  BY <1>6 DEF SuccessIsTrue
<1>16. TemplatesAccountedFor'
  <2>1. Untold(f) = {}  BY <1>1 DEF Untold, Returned, Served
  <2>2. \A g \in Flows : Untold(g) \subseteq Untold(g)'
    BY <1>10, <2>1 DEF Untold, Returned, Served, Running
  <2>3. \A t \in Templates : t \in Kept => t \in Kept'
    BY <1>5, <1>6, <2>2 DEF Kept
  <2> QED  BY <1>7, <2>3, KeepersKeep DEF IInv
<1> QED  BY <1>7, <1>14, <1>15, <1>16 DEF BuilderKept

(* What a running chain's page and its other chains are like.                *)
LEMMA ChainIs ==
  ASSUME IInv, NEW f \in Flows, Running(f)
  PROVE  /\ builder \in Builders /\ builder.context = "READY"
         /\ flows[f].draft \in Drafts /\ DraftErrors(flows[f].draft, FamilyChildren) = {}
         /\ flows[f].req \in Requests
         /\ Creating(f) \/ Publishing(f) \/ Assigning(f)
         /\ \A g \in Flows \ {f} : Running(g) => ~Creating(g)
         /\ orphans \subseteq Templates
<1>1. BuilderOK /\ builder \in Builders /\ orphans \subseteq Templates
  BY BuilderTypes DEF IInv, BuilderOK
<1>2. builder.context = "READY"  BY <1>1 DEF BuilderOK, ContextOK
<1>3. FlowOK(f)  BY <1>1 DEF BuilderOK
<1>4. \A g \in Flows \ {f} : Running(g) => ~Creating(g)  BY DEF Creating
<1>5. flows[f].req \in Requests  BY <1>1, FlowIs
<1> QED  BY <1>1, <1>2, <1>3, <1>4, <1>5 DEF FlowOK

(* The server's answer to a chain's call is what the chain hopes for.        *)
LEMMA ServedIs ==
  ASSUME IInv, NEW f \in Flows, Running(f), flows[f].answer = None, Handle(flows[f].req),
         flows' = [flows EXCEPT ![f].answer = Reply(flows[f].req)], UNCHANGED builder
  PROVE  /\ flows'[f] = [flows[f] EXCEPT !.answer = Reply(flows[f].req)]
         /\ Reply(flows[f].req) \in Answers
         /\ FlowOK(f)'
         /\ \A t \in Born(flows[f].req) : t \in Untold(f)'
<1>1. flows \in [Flows -> FlowRows]  BY DEF IInv, BuilderOK, FlowTypes, FlowRows
<1>2. PICK req \in Requests : req = flows[f].req  BY ChainIs
<1>3. PICK id : id = Reply(flows[f].req)  OBVIOUS
<1>4. flows'[f] = [flows[f] EXCEPT !.answer = id]  BY <1>1, <1>3
<1>5. /\ flows'[f].draft = flows[f].draft /\ flows'[f].req = flows[f].req
      /\ flows'[f].answer = id
  BY <1>1, <1>4 DEF FlowRows
<1>6. Handle(req) /\ id = Reply(req)  BY <1>2, <1>3
<1>7. RowsOK' /\ RowsGrow /\ NewTemplates(Born(req))  BY <1>6, Handled DEF IInv
<1>8. builder.templateId \in Templates \cup {None}  BY ChainIs DEF Builders
<1>9. \A g \in Flows : Running(g)' <=> Running(g)
  BY <1>1, <1>5 DEF Running
<1>10. CASE Creating(f)
  <2>1. req = Create(flows[f].draft.reward)  BY <1>2, <1>10 DEF Creating
  <2>2. req.op = "create" /\ req.reward = flows[f].draft.reward  BY <2>1 DEF Create
  <2>3. req.reward["XP"] >= 0 /\ req.reward["COINS"] >= 0
    <3>1. DraftErrors(flows[f].draft, FamilyChildren) = {}  BY ChainIs
    <3>2. ~(req.reward["XP"] < 0) /\ ~(req.reward["COINS"] < 0)
      BY <2>2, <3>1 DEF DraftErrors
    <3>3. req.reward["XP"] \in Int /\ req.reward["COINS"] \in Int
      BY <2>2, RequestIs, TaskDomainAssumption DEF Currencies
    <3> QED  BY <3>2, <3>3
  <2>4. Accepted(req)
    BY <2>2, <2>3 DEF Accepted, CreateTemplateAllowed, NonNegative, Currencies
  <2>5. PICK t \in Templates : t = FreshTemplate
    BY <1>6, <2>2, <2>4 DEF Handle, Replays
  <2>6. Born(req) = {t}  BY <2>2, <2>4, <2>5 DEF Born
  <2>7. Exists(t)'  BY <1>7, <2>6 DEF NewTemplates
  <2>8. id = Ok(t)  BY <1>6, <2>2, <2>4, <2>5 DEF Reply
  <2>9. Creating(f)'  BY <1>5, <1>9, <1>10, <2>7, <2>8 DEF Creating
  <2>10. FlowOK(f)'  BY <1>5, <2>9, ChainIs DEF FlowOK
  <2>11. Untold(f)' = {t}
    BY <1>2, <1>5, <1>9, <2>2, <2>8, AreAnswers DEF Untold, Returned, Served, Running
  <2> QED  BY <1>2, <1>3, <1>4, <2>6, <2>8, <2>10, <2>11, AreAnswers
<1>11. CASE Publishing(f)
  <2>1. PICK t \in Templates : t = builder.templateId  BY <1>8, <1>11 DEF Publishing
  <2>2. req = Publish(t)  BY <1>2, <1>11, <2>1 DEF Publishing
  <2>3. req.op = "publish" /\ req.id = t  BY <2>2 DEF Publish
  <2>4. Exists(t)  BY <1>11, <2>1 DEF Publishing, IInv, BuilderOK
  <2>5. id = Ok(None) /\ Active(t)'
    BY <1>6, <2>3, <2>4, PublishHandled DEF IInv
  <2>6. Publishing(f)'  BY <1>5, <1>11, <2>1, <2>5 DEF Publishing, Active
  <2>7. FlowOK(f)'  BY <1>5, <2>6, ChainIs DEF FlowOK
  <2> QED  BY <1>2, <1>3, <1>4, <2>3, <2>5, <2>7, AreAnswers DEF Born
<1>12. CASE Assigning(f)
  <2>1. PICK t \in Templates : t = builder.templateId  BY <1>8, <1>12 DEF Assigning
  <2>2. req = Assign(t, flows[f].draft.child)  BY <1>2, <1>12, <2>1 DEF Assigning
  <2>3. req.op = "assign" /\ req.id = t  BY <2>2 DEF Assign
  <2>4. Active(t)  BY <1>12, <2>1 DEF Assigning, Active
  <2>5. id = Ok(None) /\ HasAssignment(t)'
    BY <1>6, <2>3, <2>4, AssignHandled DEF IInv
  <2>6. Active(t)'  BY <1>7, <2>4 DEF RowsGrow
  <2>7. Assigning(f)'
    BY <1>5, <1>12, <2>1, <2>5, <2>6 DEF Assigning, Active, HasAssignment
  <2>8. FlowOK(f)'  BY <1>5, <2>7, ChainIs DEF FlowOK
  <2> QED  BY <1>2, <1>3, <1>4, <2>3, <2>5, <2>8, AreAnswers DEF Born
<1> QED  BY <1>10, <1>11, <1>12, ChainIs

LEMMA ServeFlowKeeps ==
  ASSUME IInv, NEW f \in Flows, ServeFlow(f)
  PROVE  BuilderKept
<1>1. /\ Running(f) /\ flows[f].answer = None /\ Handle(flows[f].req)
      /\ flows' = [flows EXCEPT ![f].answer = Reply(flows[f].req)]
      /\ builder' = builder /\ orphans' = orphans /\ UNCHANGED <<faults, stray>>
  BY DEF ServeFlow, faultVars
<1>2. PICK req \in Requests : req = flows[f].req  BY <1>1, ChainIs
<1>3. PICK id \in Answers : id = Reply(flows[f].req)  BY <1>1, ServedIs
<1> DEFINE row == [flows[f] EXCEPT !.answer = id]
<1>4. flows \in [Flows -> FlowRows]  BY DEF IInv, BuilderOK, FlowTypes, FlowRows
<1>5. flows' = [flows EXCEPT ![f] = row]  BY <1>1, <1>3, <1>4
<1>6. row \in FlowRows /\ row.req # None
  BY <1>1, <1>4 DEF FlowRows, Running
<1>7. FlowOK(f)' /\ \A t \in Born(flows[f].req) : t \in Untold(f)'
  BY <1>1, ServedIs
<1>8. RowsOK' /\ RowsGrow /\ NewTemplates(Born(req))
  <2>1. Handle(req)  BY <1>1, <1>2
  <2> QED  BY <2>1, Handled DEF IInv
<1>9. /\ builder' \in Builders /\ builder'.context = "READY" /\ orphans' \subseteq Templates
      /\ \A g \in Flows \ {f} : Running(g) => ~Creating(g)
  BY <1>1, ChainIs
<1>10. \A g \in Flows \ {f} : flows'[g] = flows[g]  BY <1>4, <1>5
<1> HIDE DEF row
<1>11. (builder.templateId # None => Exists(builder.templateId))'
  BY <1>1, <1>8, <1>9 DEF IInv, BuilderOK, Builders, RowsGrow, Exists
<1>12. BuilderOK'
  BY <1>1, <1>5, <1>6, <1>7, <1>8, <1>9, <1>11, OneFlowMoves DEF IInv
<1>13. SuccessIsTrue'
  BY <1>1, <1>8, SuccessStays DEF IInv, BuilderOK
<1>14. NetOK'  BY <1>1 DEF IInv, NetOK
<1>15. TemplatesAccountedFor'
  <2>1. \A g \in Flows \ {f} : Untold(g)' = Untold(g)
    BY <1>10 DEF Untold, Returned, Served, Running
  <2>2. Untold(f) = {}  BY <1>1 DEF Untold, Returned, Served
  <2>3. \A g \in Flows : Untold(g) \subseteq Untold(g)'  BY <2>1, <2>2
  <2>4. \A t \in Templates : t \in Kept => t \in Kept'  BY <1>1, <2>3 DEF Kept
  <2>5. \A t \in Born(req) : t \in Kept'  BY <1>2, <1>7 DEF Kept
  <2> QED  BY <1>8, <2>4, <2>5, KeepersKeep DEF IInv
<1> QED  BY <1>8, <1>12, <1>13, <1>14, <1>15 DEF BuilderKept

(* A chain goes on to its next call, or ends.                                *)
LEMMA ChainMoves ==
  ASSUME IInv, NEW f \in Flows, Running(f), NEW row \in FlowRows,
         flows' = [flows EXCEPT ![f] = row]
  PROVE  /\ flows'[f] = row /\ \A g \in Flows \ {f} : flows'[g] = flows[g]
         /\ \A g \in Flows \ {f} : Untold(g)' = Untold(g)
<1>1. flows \in [Flows -> FlowRows]  BY DEF IInv, BuilderOK, FlowTypes, FlowRows
<1>2. flows'[f] = row /\ \A g \in Flows \ {f} : flows'[g] = flows[g]  BY <1>1
<1> QED  BY <1>2 DEF Untold, Returned, Served, Running

LEMMA NoFlowIs ==
  NoFlow \in FlowRows /\ NoFlow.req = None
BY DEF NoFlow, FlowRows

LEMMA CreatedKeeps ==
  ASSUME IInv, NEW f \in Flows, Created(f)
  PROVE  BuilderKept
<1>1. /\ Running(f) /\ flows[f].req.op = "create" /\ flows[f].answer # None
      /\ orphans' = orphans /\ UNCHANGED apiVars
  BY DEF Created, Returned, Served
<1>2. Creating(f)
  BY <1>1, ChainIs, FlowIs DEF IInv, BuilderOK
<1>3. PICK t \in Templates : flows[f].answer = Ok(t) /\ Exists(t)
  BY <1>1, <1>2 DEF Creating
<1>4. flows[f].answer.body = t /\ t # None
  BY <1>3, AreAnswers, TaskDomainAssumption
<1> DEFINE row == [draft |-> flows[f].draft, req |-> Publish(t), answer |-> None]
<1>5. flows' = [flows EXCEPT ![f] = row] /\ builder' = [builder EXCEPT !.templateId = t]
  BY <1>4 DEF Created, Send
<1>6. row \in FlowRows /\ row.req # None
  BY <1>1, ChainIs, AreRequests, TaskApiAssumption DEF FlowRows
<1>7. /\ builder' \in Builders /\ builder'.context = "READY" /\ builder'.templateId = t
      /\ builder'.stage = "SAVING" /\ orphans' \subseteq Templates
  BY <1>1, <1>2, <1>5, ChainIs DEF Builders, Creating
<1>8. /\ flows'[f] = row /\ \A g \in Flows \ {f} : flows'[g] = flows[g]
      /\ \A g \in Flows \ {f} : Untold(g)' = Untold(g)
  BY <1>1, <1>5, <1>6, ChainMoves
<1>9. Publishing(f)'  BY <1>4, <1>7, <1>8 DEF Publishing
<1>10. FlowOK(f)'  BY <1>1, <1>8, <1>9, ChainIs DEF FlowOK
<1> HIDE DEF row
<1>11. RowsOK' /\ RowsGrow /\ NetOK' /\ NewTemplates({})
  BY <1>1, ApiStays DEF IInv
<1>12. (builder.templateId # None => Exists(builder.templateId))'
  BY <1>3, <1>7, <1>11 DEF RowsGrow, Exists
<1>13. \A g \in Flows \ {f} : ~Running(g)  BY <1>2 DEF Creating
<1>14. BuilderOK'
  BY <1>5, <1>6, <1>7, <1>10, <1>11, <1>12, <1>13, OneFlowMoves DEF IInv
<1>15. SuccessIsTrue'  BY <1>7 DEF SuccessIsTrue
<1>16. TemplatesAccountedFor'
  <2>1. Untold(f) \subseteq {t}  BY <1>4 DEF Untold
  <2>2. builder.templateId = None  BY <1>2 DEF Creating
  <2>3. \A u \in Templates : u \in Kept => u \in Kept'
    BY <1>1, <1>7, <1>8, <2>1, <2>2, TaskDomainAssumption DEF Kept
  <2> QED  BY <1>11, <2>3, KeepersKeep DEF IInv
<1> QED  BY <1>11, <1>14, <1>15, <1>16 DEF BuilderKept

LEMMA PublishedKeeps ==
  ASSUME IInv, NEW f \in Flows, Published(f)
  PROVE  BuilderKept
<1>1. /\ Running(f) /\ flows[f].req.op = "publish" /\ flows[f].answer # None
      /\ orphans' = orphans /\ UNCHANGED apiVars
      /\ builder' = [builder EXCEPT !.stage = "PUBLISHED"]
  BY DEF Published, Returned, Served
<1>2. Publishing(f)
  BY <1>1, ChainIs, FlowIs DEF IInv, BuilderOK
<1>3. PICK t \in Templates : t = builder.templateId /\ t # None
  BY <1>1, <1>2, ChainIs DEF Publishing, Builders
<1>4. flows[f].req = Publish(t) /\ Active(t)
  BY <1>1, <1>2, <1>3 DEF Publishing, Active
<1>5. flows[f].req.id = t  BY <1>4 DEF Publish
<1> DEFINE row == [draft |-> flows[f].draft, req |-> Assign(t, flows[f].draft.child),
                   answer |-> None]
<1>6. flows' = [flows EXCEPT ![f] = row]
  BY <1>5 DEF Published, Send
<1>7. flows[f].draft.child \in Children
  <2>1. DraftErrors(flows[f].draft, FamilyChildren) = {}  BY <1>1, ChainIs
  <2>2. flows[f].draft.child \in FamilyChildren  BY <2>1 DEF DraftErrors
  <2> QED  BY <2>2, TaskBuilderAssumption
<1>8. row \in FlowRows /\ row.req # None
  BY <1>1, <1>7, ChainIs, AreRequests, TaskApiAssumption DEF FlowRows
<1>9. /\ builder' \in Builders /\ builder'.context = "READY" /\ builder'.templateId = t
      /\ builder'.stage = "PUBLISHED" /\ orphans' \subseteq Templates
      /\ \A g \in Flows \ {f} : Running(g) => ~Creating(g)
  BY <1>1, <1>3, ChainIs DEF Builders
<1>10. /\ flows'[f] = row /\ \A g \in Flows \ {f} : flows'[g] = flows[g]
       /\ \A g \in Flows \ {f} : Untold(g)' = Untold(g)
  BY <1>1, <1>6, <1>8, ChainMoves
<1>11. RowsOK' /\ RowsGrow /\ NetOK' /\ NewTemplates({})
  BY <1>1, ApiStays DEF IInv
<1>12. Active(t)'  BY <1>4, <1>11 DEF RowsGrow
<1>13. Assigning(f)'  BY <1>3, <1>9, <1>10, <1>12 DEF Assigning, Active
<1>14. FlowOK(f)'  BY <1>1, <1>10, <1>13, ChainIs DEF FlowOK
<1> HIDE DEF row
<1>15. (builder.templateId # None => Exists(builder.templateId))'
  BY <1>9, <1>12 DEF Active, Exists
<1>16. BuilderOK'
  BY <1>3, <1>6, <1>8, <1>9, <1>11, <1>14, <1>15, OneFlowMoves DEF IInv
<1>17. SuccessIsTrue'  BY <1>3, <1>9, <1>12 DEF SuccessIsTrue, Active
<1>18. TemplatesAccountedFor'
  <2>1. Untold(f) = {}  BY <1>1 DEF Untold, Returned, Served
  <2>2. \A u \in Templates : u \in Kept => u \in Kept'
    BY <1>1, <1>3, <1>9, <1>10, <2>1 DEF Kept
  <2> QED  BY <1>11, <2>2, KeepersKeep DEF IInv
<1> QED  BY <1>11, <1>16, <1>17, <1>18 DEF BuilderKept

LEMMA AssignedKeeps ==
  ASSUME IInv, NEW f \in Flows, Assigned(f)
  PROVE  BuilderKept
<1>1. /\ Running(f) /\ flows[f].req.op = "assign" /\ flows[f].answer # None
      /\ orphans' = orphans /\ UNCHANGED apiVars
      /\ builder' = [builder EXCEPT !.stage = "ASSIGNED"]
      /\ flows' = [flows EXCEPT ![f] = NoFlow]
  BY DEF Assigned, Returned, Served
<1>2. Assigning(f)
  BY <1>1, ChainIs, FlowIs DEF IInv, BuilderOK
<1>3. PICK t \in Templates : t = builder.templateId /\ t # None
  BY <1>1, <1>2, ChainIs DEF Assigning, Builders
<1>4. Active(t) /\ HasAssignment(t)
  BY <1>1, <1>2, <1>3 DEF Assigning, Active, HasAssignment
<1>5. /\ builder' \in Builders /\ builder'.context = "READY" /\ builder'.templateId = t
      /\ builder'.stage = "ASSIGNED" /\ orphans' \subseteq Templates
      /\ \A g \in Flows \ {f} : Running(g) => ~Creating(g)
  BY <1>1, <1>3, ChainIs DEF Builders
<1>6. /\ flows'[f] = NoFlow /\ \A g \in Flows \ {f} : Untold(g)' = Untold(g)
  BY <1>1, NoFlowIs, ChainMoves
<1>7. RowsOK' /\ RowsGrow /\ NetOK' /\ NewTemplates({})
  BY <1>1, ApiStays DEF IInv
<1>8. Active(t)' /\ HasAssignment(t)'  BY <1>4, <1>7, WhatIsTrueStays DEF IInv
<1>9. FlowOK(f)'  BY <1>6, NoFlowIs DEF FlowOK, Running
<1>10. (builder.templateId # None => Exists(builder.templateId))'
  BY <1>5, <1>8 DEF Active, Exists
<1>11. BuilderOK'
  BY <1>1, <1>3, <1>5, <1>7, <1>9, <1>10, NoFlowIs, OneFlowMoves DEF IInv
<1>12. SuccessIsTrue'
  BY <1>3, <1>5, <1>8 DEF SuccessIsTrue, Active, HasAssignment
<1>13. TemplatesAccountedFor'
  <2>1. Untold(f) = {}  BY <1>1 DEF Untold, Returned, Served
  <2>2. \A u \in Templates : u \in Kept => u \in Kept'
    BY <1>1, <1>3, <1>5, <1>6, <2>1 DEF Kept
  <2> QED  BY <1>7, <2>2, KeepersKeep DEF IInv
<1> QED  BY <1>7, <1>11, <1>12, <1>13 DEF BuilderKept

LEMMA CallFailsKeeps ==
  ASSUME IInv, NEW f \in Flows, NEW code \in FailureCodes, CallFails(f, code)
  PROVE  BuilderKept
<1>1. /\ Running(f) /\ GiveUp(flows[f].req, flows[f].answer # None)
      /\ builder' = FailedPage(code) /\ flows' = [flows EXCEPT ![f] = NoFlow]
      /\ orphans' = orphans \cup Untold(f) /\ UNCHANGED lifecycleVars
  BY DEF CallFails
<1>2. flows[f].req \in Requests /\ (flows[f].answer # None) \in BOOLEAN
  BY <1>1, ChainIs
<1>3. RowsOK' /\ RowsGrow /\ NetOK' /\ NewTemplates({})
  BY <1>1, <1>2, CallsGivenUp DEF IInv
<1>4. Untold(f) \subseteq Templates
  <2>1. CASE Returned(f, "create")
    <3>1. Creating(f)
      BY <1>1, <2>1, ChainIs, FlowIs DEF IInv, BuilderOK, Returned, Served
    <3>2. PICK t \in Templates : flows[f].answer = Ok(t)
      BY <2>1, <3>1 DEF Creating, Returned, Served
    <3> QED  BY <3>2, AreAnswers DEF Untold
  <2>2. CASE ~Returned(f, "create")  BY <2>2 DEF Untold
  <2> QED  BY <2>1, <2>2
<1>5. RecoveryFor(code, "parent") \in RecoveryActions  BY RecoveryIsAnAction
<1>6. /\ builder' \in Builders /\ builder'.context = "READY"
      /\ builder'.templateId = builder.templateId
      /\ builder'.stage = "DRAFT" /\ orphans' \subseteq Templates
      /\ \A g \in Flows \ {f} : Running(g) => ~Creating(g)
  BY <1>1, <1>4, <1>5, ChainIs DEF Builders, FailedPage
<1>7. /\ flows'[f] = NoFlow /\ \A g \in Flows \ {f} : Untold(g)' = Untold(g)
  BY <1>1, NoFlowIs, ChainMoves
<1>8. FlowOK(f)'  BY <1>7, NoFlowIs DEF FlowOK, Running
<1>9. (builder.templateId # None => Exists(builder.templateId))'
  BY <1>3, <1>6 DEF IInv, BuilderOK, Builders, RowsGrow, Exists
<1>10. BuilderOK'
  BY <1>1, <1>3, <1>6, <1>8, <1>9, NoFlowIs, OneFlowMoves DEF IInv
<1>11. SuccessIsTrue'  BY <1>6 DEF SuccessIsTrue
<1>12. TemplatesAccountedFor'
  <2>1. \A u \in Templates : u \in Kept => u \in Kept'
    BY <1>1, <1>6, <1>7 DEF Kept
  <2> QED  BY <1>3, <2>1, KeepersKeep DEF IInv
<1> QED  BY <1>3, <1>10, <1>11, <1>12 DEF BuilderKept

LEMMA ReopenKeeps ==
  ASSUME IInv, Reopen
  PROVE  BuilderKept
<1> DEFINE unserved == {g \in Flows : Running(g) /\ flows[g].answer = None}
<1>1. PICK f \in Flows : unserved \subseteq {f} /\ GiveUp(flows[f].req, unserved = {})
  BY DEF Reopen
<1>2. /\ builder' = NewBuilder /\ flows' = [g \in Flows |-> NoFlow]
      /\ orphans' = {t \in Templates : template[t].status # "ABSENT"}
      /\ UNCHANGED lifecycleVars
  BY DEF Reopen
<1>3. RowsOK' /\ RowsGrow /\ NewTemplates({})
  BY <1>2, RowsStay DEF IInv, lifecycleVars
<1>4. NetOK'
  <2>1. CASE unserved = {}
    <3>1. faults < MaxFaults /\ faults' = faults + 1 /\ stray' = stray
      BY <1>1, <2>1 DEF GiveUp
    <3> QED  BY <3>1, TaskApiAssumption DEF IInv, NetOK
  <2>2. CASE unserved # {}
    <3>1. flows[f].req \in Requests  BY <1>1, <2>2, ChainIs
    <3>2. NetOK  BY DEF IInv
    <3> QED  BY <1>1, <3>1, <3>2, TaskApiAssumption DEF GiveUp, NetOK
  <2> QED  BY <2>1, <2>2
<1> HIDE DEF unserved
<1>5. /\ builder' \in Builders /\ builder'.templateId = None /\ builder'.stage = "DRAFT"
      /\ \A g \in Flows : flows'[g] = NoFlow
  BY <1>2 DEF Builders, NewBuilder
<1>6. BuilderTypeOK' /\ FlowTypes'
  BY <1>2, <1>5, NoFlowIs DEF BuilderTypeOK, FlowTypes, Builders, FlowRows
<1>7. ContextOK' /\ \A g \in Flows : FlowOK(g)'
  BY <1>5, NoFlowIs DEF ContextOK, FlowOK, Running
<1>8. BuilderOK'  BY <1>5, <1>6, <1>7 DEF BuilderOK
<1>9. SuccessIsTrue'  BY <1>5 DEF SuccessIsTrue
<1>10. TemplatesAccountedFor'
  <2>1. template' = template  BY <1>2 DEF lifecycleVars
  <2> QED  BY <1>2, <2>1 DEF TemplatesAccountedFor
<1> QED  BY <1>3, <1>4, <1>8, <1>9, <1>10 DEF BuilderKept

LEMMA BuilderStrayKeeps ==
  ASSUME IInv, BuilderStray
  PROVE  BuilderKept
<1>1. /\ stray # None /\ Handle(stray) /\ stray' = None /\ faults' = faults
      /\ builder' = builder /\ flows' = flows
      /\ orphans' = IF stray.op = "create" /\ Accepted(stray)
                    THEN orphans \cup {FreshTemplate} ELSE orphans
  BY DEF BuilderStray, StrayArrives
<1>2. PICK req \in Requests : req = stray  BY <1>1 DEF IInv, NetOK
<1>3. Handle(req)  BY <1>1, <1>2
<1>4. RowsOK' /\ RowsGrow /\ NewTemplates(Born(req))  BY <1>3, Handled DEF IInv
<1>5. orphans' = orphans \cup Born(req)  BY <1>1, <1>2 DEF Born
<1>6. orphans' \subseteq Templates
  BY <1>4, <1>5 DEF NewTemplates, IInv, BuilderOK, BuilderTypeOK
<1>7. BuilderOK' /\ SuccessIsTrue'  BY <1>1, <1>4, <1>6, BuilderStays DEF IInv
<1>8. NetOK'  BY <1>1 DEF IInv, NetOK
<1>9. TemplatesAccountedFor'
  <2>1. \A f \in Flows : Untold(f)' = Untold(f)
    BY <1>1 DEF Untold, Returned, Served, Running
  <2>2. \A t \in Templates : t \in Kept \cup Born(req) => t \in Kept'
    BY <1>1, <1>5, <2>1 DEF Kept
  <2> QED  BY <1>4, <2>2, KeepersKeep DEF IInv
<1> QED  BY <1>4, <1>7, <1>8, <1>9 DEF BuilderKept

-----------------------------------------------------------------------------
(* The child's page: what stays as it was. *)

Pages ==
  [id : Cards \cup {None}, view : Views \cup {None}, loading : BOOLEAN, busy : BOOLEAN,
   sendFailed : BOOLEAN, recovery : RecoveryActions \cup {None}]

FlightRows(a) ==
  [req : {Load(a), Start(a), Submit(a)}, answer : Answers \cup {None}]

(* The version of the page's row, and the one on its screen.                 *)
Current == IF page.id = None THEN 0 ELSE assignment[page.id].version

OnScreen == IF page.view = None THEN 0 ELSE page.view.version

(* What a mirror may do, with the row's moves and rests taken together.      *)
Mirrors ==
  /\ Current' \in Nat
  /\ \/ OnScreen' = 0
     \/ OnScreen' \in OnScreen .. Current /\ Current' = Current
     \/ OnScreen' = OnScreen /\ Current' >= Current

LEMMA PageIs ==
  ASSUME RowsOK, ChildOK
  PROVE  /\ page \in Pages /\ rejections \in 0 .. MaxRejections
         /\ page.id # None => page.id \in Assignments /\ page.id \in Cards
         /\ page.view # None =>
              page.view \in Views /\ page.view.version \in Nat /\ page.id # None
         /\ Current \in Nat /\ OnScreen \in Nat /\ OnScreen <= Current
         /\ \A f \in flights : f \in FlightRows(page.id) /\ flights = {f} /\ page.id # None
<1>1. page \in Pages /\ rejections \in 0 .. MaxRejections  BY DEF ChildOK, ChildTypeOK, Pages
<1>2. page.id # None => page.id \in Assignments /\ page.id \in Cards
  BY <1>1, ChildTaskAssumption DEF Pages
<1>3. page.view # None => page.view \in Views /\ page.view.version \in Nat /\ page.id # None
  BY <1>1 DEF Pages, Views, ChildOK, ViewOK
<1>4. Current \in Nat  BY <1>2 DEF Current, RowsOK, AssignmentRows
<1>5. OnScreen \in Nat /\ OnScreen <= Current
  BY <1>3, <1>4 DEF Current, OnScreen, ChildOK, ViewOK
<1>6. ASSUME NEW f \in flights PROVE f \in FlightRows(page.id) /\ flights = {f} /\ page.id # None
  BY <1>6 DEF ChildOK, FlightOK, FlightRows
<1> QED  BY <1>1, <1>2, <1>3, <1>4, <1>5, <1>6

(* A step that changes neither the row's identity nor what is shown of it.   *)
LEMMA SameView ==
  ASSUME RowsOK, RowsOK', RowsGrow, ChildOK, page'.id = page.id, page'.view = page.view
  PROVE  ViewOK' /\ Mirrors
<1>1. CASE page.id = None
  <2>1. page.view = None  BY <1>1, PageIs
  <2> QED  BY <1>1, <2>1 DEF ViewOK, Mirrors, Current, OnScreen
<1>2. CASE page.id # None
  <2>1. PICK a \in Assignments : a = page.id  BY <1>2, PageIs
  <2>2. /\ assignment[a].status # "ABSENT" /\ assignment[a].version \in Nat
        /\ page.view # None =>
             page.view.version \in Nat /\ page.view.version <= assignment[a].version
    BY <2>1, PageIs, <1>2 DEF ChildOK, ViewOK, RowsOK, AssignmentRows
  <2>3. assignment'[a].version \in Nat  BY DEF RowsOK, AssignmentRows
  <2>4. assignment'[a].status # "ABSENT" /\ assignment'[a].version >= assignment[a].version
    BY <2>2 DEF RowsGrow
  <2>5. ViewOK'  BY <1>2, <2>1, <2>2, <2>3, <2>4 DEF ViewOK
  <2>6. Current = assignment[a].version /\ Current' = assignment'[a].version
    BY <1>2, <2>1 DEF Current
  <2>7. OnScreen' = OnScreen  BY DEF OnScreen
  <2> QED  BY <2>3, <2>4, <2>5, <2>6, <2>7 DEF Mirrors
<1> QED  BY <1>1, <1>2

LEMMA ChildStays ==
  ASSUME RowsOK, RowsOK', RowsGrow, ChildOK, UNCHANGED <<page, flights>>,
         rejections' \in 0 .. MaxRejections
  PROVE  ChildOK' /\ Mirrors
<1>1. ViewOK' /\ Mirrors  BY SameView
<1>2. ChildTypeOK'  BY DEF ChildOK, ChildTypeOK
<1>3. ASSUME NEW f \in flights PROVE FlightOK(f)'
  <2>1. FlightOK(f) /\ page.id # None  BY <1>3, PageIs DEF ChildOK
  <2>2. PICK a \in Assignments : a = page.id  BY <2>1, PageIs
  <2>3. f.req.op = "load" /\ f.answer # None => f.answer.body.version <= assignment'[a].version
    <3>1. SUFFICES ASSUME f.req.op = "load", f.answer # None
                   PROVE  f.answer.body.version <= assignment'[a].version
      OBVIOUS
    <3>2. f.answer.body \in Views /\ f.answer.body.version <= assignment[a].version
      BY <2>1, <2>2, <3>1 DEF FlightOK
    <3>3. assignment[a].version \in Nat /\ assignment'[a].version \in Nat
      BY DEF RowsOK, AssignmentRows
    <3>4. assignment'[a].version >= assignment[a].version
      BY <2>1, <2>2 DEF RowsGrow, ChildOK, ViewOK
    <3> QED  BY <3>2, <3>3, <3>4 DEF Views
  <2> QED  BY <2>1, <2>2, <2>3 DEF FlightOK
<1> QED  BY <1>1, <1>2, <1>3 DEF ChildOK

(* After a step the page waits for one call at most.                         *)
LEMMA OneCall ==
  ASSUME page' \in Pages, rejections' \in 0 .. MaxRejections, ViewOK',
         NEW g, flights' \in {{}, {g}},
         flights' = {g} => page'.id # None /\ FlightOK(g)'
  PROVE  ChildOK'
<1>1. ASSUME flights' = {g} PROVE g.req \in Requests /\ g.req.id = page'.id
  <2>1. g.req \in {Load(page'.id), Start(page'.id), Submit(page'.id)} /\ page'.id # None
    BY <1>1 DEF FlightOK
  <2>2. page'.id \in Assignments  BY <2>1, ChildTaskAssumption DEF Pages
  <2>3. g.req \in Requests  BY <2>1, <2>2, AreRequests
  <2>4. g.req.id = page'.id  BY <2>1 DEF Load, Start, Submit
  <2> QED  BY <2>3, <2>4
<1>2. ChildTypeOK'  BY <1>1 DEF ChildTypeOK, Pages
<1> QED  BY <1>2 DEF ChildOK

(* The page offers something only while it waits for nothing.                *)
LEMMA AtRest ==
  ASSUME RowsOK, ChildOK, Controls # {}
  PROVE  /\ page.id \in Cards /\ page.id \in Assignments /\ page.id # None
         /\ ~page.loading /\ ~page.busy /\ flights = {}
<1>1. page.id # None /\ ~page.loading /\ ~page.busy  BY DEF Controls
<1>2. \A f \in flights : page.loading \/ page.busy  BY DEF ChildOK, FlightOK
<1> QED  BY <1>1, <1>2, PageIs

-----------------------------------------------------------------------------
(* The child's page: its steps. *)

ChildKept == RowsOK' /\ RowsGrow /\ NetOK' /\ NewTemplates({}) /\ ChildOK' /\ Mirrors

LEMMA FreshFlight ==
  ASSUME NEW a, NEW req \in {Load(a), Start(a), Submit(a)},
         page'.id = a, IF req.op = "load" THEN page'.loading ELSE page'.busy
  PROVE  FlightOK(Call(req))'
BY DEF Call, FlightOK

LEMMA OpenKeeps ==
  ASSUME IInv, NEW a \in Cards, Open(a)
  PROVE  ChildKept
<1>1. /\ assignment[a].status # "ABSENT" /\ page' = NewPage(a)
      /\ flights' = {Call(Load(a))} /\ rejections' = rejections /\ UNCHANGED apiVars
  BY DEF Open
<1>2. a \in Assignments /\ a # None  BY ChildTaskAssumption, TaskApiAssumption
<1>3. RowsOK' /\ RowsGrow /\ NetOK' /\ NewTemplates({})  BY <1>1, ApiStays DEF IInv
<1>4. page' \in Pages /\ page'.id = a /\ page'.view = None /\ page'.loading
  BY <1>1 DEF NewPage, Pages
<1>5. assignment'[a].status # "ABSENT" /\ assignment'[a].version \in Nat
  BY <1>1, <1>2, <1>3 DEF RowsGrow, RowsOK, AssignmentRows
<1>6. ViewOK'  BY <1>2, <1>4, <1>5 DEF ViewOK
<1>7. FlightOK(Call(Load(a)))'
  BY <1>4, FreshFlight DEF Load
<1>8. rejections' \in 0 .. MaxRejections  BY <1>1, PageIs DEF IInv
<1>9. ChildOK'  BY <1>1, <1>2, <1>4, <1>6, <1>7, <1>8, OneCall
<1>10. Mirrors  BY <1>2, <1>4, <1>5 DEF Mirrors, Current, OnScreen
<1> QED  BY <1>3, <1>9, <1>10 DEF ChildKept

LEMMA AbandonKeeps ==
  ASSUME IInv, Abandon
  PROVE  ChildKept
<1>1. PICK f \in flights : GiveUp(f.req, f.answer # None)  BY DEF Abandon
<1>2. /\ page' = NoPage /\ flights' = {} /\ rejections' = rejections
      /\ UNCHANGED lifecycleVars
  BY DEF Abandon
<1>3. f.req \in Requests /\ (f.answer # None) \in BOOLEAN
  BY DEF IInv, ChildOK, ChildTypeOK
<1>4. RowsOK' /\ RowsGrow /\ NetOK' /\ NewTemplates({})
  BY <1>1, <1>2, <1>3, CallsGivenUp DEF IInv
<1>5. page' \in Pages /\ page'.id = None /\ page'.view = None
  BY <1>2 DEF NoPage, NewPage, Pages
<1>6. ViewOK' /\ Mirrors  BY <1>5 DEF ViewOK, Mirrors, Current, OnScreen
<1>7. rejections' \in 0 .. MaxRejections  BY <1>2, PageIs DEF IInv
<1>8. ChildOK'  BY <1>2, <1>5, <1>6, <1>7, OneCall
<1> QED  BY <1>4, <1>6, <1>8 DEF ChildKept

(* A tap at rest sends one call.                                             *)
LEMMA TapsKeep ==
  ASSUME IInv, TapLoad \/ TapAct
  PROVE  ChildKept
<1>1. /\ page.id \in Cards /\ page.id \in Assignments /\ page.id # None /\ flights = {}
      /\ page \in Pages
  <2>1. Controls # {}  BY DEF TapLoad, TapAct
  <2> QED  BY <2>1, AtRest, PageIs DEF IInv
<1>2. PICK a \in Cards : a = page.id  BY <1>1
<1>3. UNCHANGED apiVars /\ rejections' = rejections  BY DEF TapLoad, TapAct
<1>4. RowsOK' /\ RowsGrow /\ NetOK' /\ NewTemplates({})  BY <1>3, ApiStays DEF IInv
<1>5. /\ page' \in Pages /\ page'.id = a /\ page'.view = page.view
      /\ \E req \in {Load(a), Start(a), Submit(a)} :
           /\ flights' = {Call(req)}
           /\ IF req.op = "load" THEN page'.loading ELSE page'.busy
  <2>1. CASE TapLoad
    <3>1. page' = [page EXCEPT !.loading = TRUE, !.recovery = None] /\ flights' = {Call(Load(a))}
      BY <1>1, <1>2, <2>1 DEF TapLoad, Loading
    <3>2. page' \in Pages /\ page'.id = a /\ page'.view = page.view /\ page'.loading
      BY <1>1, <1>2, <3>1 DEF Pages
    <3> QED  BY <3>1, <3>2 DEF Load
  <2>2. CASE TapAct
    <3>1. /\ page' = [page EXCEPT !.busy = TRUE, !.recovery = None]
          /\ flights' = {Call(Start(a))} \/ flights' = {Call(Submit(a))}
      BY <1>1, <1>2, <2>2 DEF TapAct
    <3>2. page' \in Pages /\ page'.id = a /\ page'.view = page.view /\ page'.busy
      BY <1>1, <1>2, <3>1 DEF Pages
    <3> QED  BY <3>1, <3>2 DEF Start, Submit
  <2> QED  BY <2>1, <2>2
<1>6. PICK req \in {Load(a), Start(a), Submit(a)} :
        flights' = {Call(req)} /\ IF req.op = "load" THEN page'.loading ELSE page'.busy
  BY <1>5
<1>7. FlightOK(Call(req))'  BY <1>5, <1>6, FreshFlight
<1>8. ViewOK' /\ Mirrors  BY <1>2, <1>4, <1>5, SameView DEF IInv
<1>9. rejections' \in 0 .. MaxRejections  BY <1>3, PageIs DEF IInv
<1>10. ChildOK'  BY <1>1, <1>2, <1>5, <1>6, <1>7, <1>8, <1>9, OneCall
<1> QED  BY <1>4, <1>8, <1>10 DEF ChildKept

(* The answer to a child's call; a load's is the row.                        *)
LEMMA ChildReplyIs ==
  ASSUME RowsOK, NEW a \in Assignments, assignment[a].status # "ABSENT",
         NEW req \in {Load(a), Start(a), Submit(a)}
  PROVE  /\ Reply(req) \in Answers
         /\ req.op = "load" => Reply(req) = Ok(Seen(a))
         /\ Seen(a) \in Views /\ Seen(a).version = assignment[a].version
<1>1. Seen(a) \in Views /\ Seen(a).version = assignment[a].version
  BY DEF RowsOK, AssignmentRows, Seen, Views
<1>2. CASE req = Load(a)
  <2>1. req.op = "load" /\ req.id = a  BY <1>2 DEF Load
  <2>2. Reply(req) = Ok(Seen(a))
    BY <2>1 DEF Reply, Accepted, Replays
  <2> QED  BY <1>1, <2>2, AreAnswers
<1>3. CASE req \in {Start(a), Submit(a)}
  <2>1. req.op \in {"start", "submit"}  BY <1>3 DEF Start, Submit
  <2>2. Reply(req) \in {Refused, Ok(None)}  BY <2>1 DEF Reply
  <2> QED  BY <1>1, <2>1, <2>2, AreAnswers
<1> QED  BY <1>2, <1>3

LEMMA ServeCallKeeps ==
  ASSUME IInv, NEW f \in flights, ServeCall(f)
  PROVE  ChildKept
<1>1. /\ f.answer = None /\ Handle(f.req) /\ page' = page /\ rejections' = rejections
      /\ flights' = (flights \ {f}) \cup {[f EXCEPT !.answer = Reply(f.req)]}
      /\ UNCHANGED <<faults, stray>>
  BY DEF ServeCall, faultVars
<1>2. /\ page \in Pages /\ page.id # None /\ page.id \in Assignments
      /\ f \in FlightRows(page.id) /\ flights = {f} /\ rejections \in 0 .. MaxRejections
  BY PageIs DEF IInv
<1>3. PICK a \in Assignments : a = page.id  BY <1>2
<1>4. PICK req \in {Load(a), Start(a), Submit(a)} : req = f.req
  BY <1>2, <1>3 DEF FlightRows
<1>5. req \in Requests /\ req.op \in {"load", "start", "submit"}
  <2>1. req \in Requests  BY AreRequests
  <2> QED  BY <2>1 DEF Load, Start, Submit
<1>6. Handle(req)  BY <1>1, <1>4
<1>7. RowsOK' /\ RowsGrow /\ NewTemplates({})  BY <1>5, <1>6, ChildHandled DEF IInv
<1>8. NetOK'  BY <1>1 DEF IInv, NetOK
<1>9. ViewOK' /\ Mirrors  BY <1>1, <1>7, SameView DEF IInv
<1>10. assignment[a].status # "ABSENT" /\ assignment[a].version \in Nat
  BY <1>2, <1>3 DEF IInv, ChildOK, ViewOK, RowsOK, AssignmentRows
<1>11. PICK id \in Answers : id = Reply(req)  BY <1>10, ChildReplyIs DEF IInv
<1> DEFINE g == [f EXCEPT !.answer = id]
<1>12. flights' = {g}
  BY <1>1, <1>2, <1>4, <1>11
<1>13. g \in FlightRows(a) /\ g.req = req /\ g.answer = id
  BY <1>2, <1>3, <1>4 DEF FlightRows
<1> HIDE DEF g
<1>14. req.op = "load" =>
         id = Ok(Seen(a)) /\ Seen(a) \in Views /\ Seen(a).version = assignment[a].version
  BY <1>10, <1>11, ChildReplyIs DEF IInv
<1>15. FlightOK(g)'
  <2>1. IF req.op = "load" THEN page'.loading ELSE page'.busy
    BY <1>1, <1>4 DEF IInv, ChildOK, FlightOK
  <2>2. g \in [req : {Load(page'.id), Start(page'.id), Submit(page'.id)},
               answer : Answers \cup {None}]
    BY <1>1, <1>3, <1>13 DEF FlightRows
  <2>3. ASSUME req.op = "load"
        PROVE  /\ id.code = "OK" /\ id.body \in Views
               /\ page'.view # None => page'.view.version <= id.body.version
               /\ id.body.version <= assignment'[page'.id].version
    <3>1. id.code = "OK" /\ id.body = Seen(a)  BY <1>14, <2>3, AreAnswers
    <3>2. assignment'[a].version >= assignment[a].version
      BY <1>7, <1>10 DEF RowsGrow
    <3>3. page.view # None => page.view.version <= assignment[a].version
      BY <1>3 DEF IInv, ChildOK, ViewOK
    <3>4. assignment'[a].version \in Nat  BY <1>7 DEF RowsOK, AssignmentRows
    <3> QED  BY <1>1, <1>3, <1>10, <1>14, <2>3, <3>1, <3>2, <3>3, <3>4
  <2> QED  BY <1>13, <2>1, <2>2, <2>3 DEF FlightOK
<1>16. ChildOK'
  BY <1>1, <1>2, <1>9, <1>12, <1>15, OneCall
<1> QED  BY <1>7, <1>8, <1>9, <1>16 DEF ChildKept

LEMMA LoadReturnsKeeps ==
  ASSUME IInv, NEW f \in flights, LoadReturns(f)
  PROVE  ChildKept
<1>1. /\ f.req.op = "load" /\ f.answer # None
      /\ page' = [page EXCEPT !.view = f.answer.body, !.sendFailed = FALSE,
                              !.loading = FALSE, !.busy = FALSE]
      /\ flights' = flights \ {f} /\ rejections' = rejections /\ UNCHANGED apiVars
  BY DEF LoadReturns, Answered
<1>2. /\ page \in Pages /\ page.id # None /\ page.id \in Assignments /\ flights = {f}
      /\ rejections \in 0 .. MaxRejections /\ Current \in Nat /\ OnScreen \in Nat
      /\ page.view # None => page.view.version \in Nat
  BY PageIs DEF IInv
<1>3. RowsOK' /\ RowsGrow /\ NetOK' /\ NewTemplates({})  BY <1>1, ApiStays DEF IInv
<1>4. PICK v \in Views : v = f.answer.body
  BY <1>1 DEF IInv, ChildOK, FlightOK
<1>5. /\ page.view # None => page.view.version <= v.version
      /\ v.version <= assignment[page.id].version
  BY <1>1, <1>4 DEF IInv, ChildOK, FlightOK
<1>6. page' \in Pages /\ page'.id = page.id /\ page'.view = v
  BY <1>1, <1>2, <1>4 DEF Pages
<1>7. assignment' = assignment  BY <1>1 DEF apiVars, lifecycleVars
<1>8. v.version \in Nat /\ v # None  BY TaskApiAssumption DEF Views
<1>9. ViewOK'
  BY <1>2, <1>5, <1>6, <1>7 DEF ViewOK, IInv, ChildOK
<1>10. Mirrors
  <2>1. Current' = Current /\ OnScreen' = v.version
    BY <1>6, <1>7, <1>8 DEF Current, OnScreen
  <2>2. OnScreen <= v.version /\ v.version <= Current
    BY <1>2, <1>5, <1>8 DEF Current, OnScreen
  <2>3. v.version \in OnScreen .. Current  BY <1>2, <1>8, <2>2
  <2> QED  BY <1>2, <2>1, <2>3 DEF Mirrors
<1>11. flights' = {}  BY <1>1, <1>2
<1>12. ChildOK'  BY <1>1, <1>2, <1>6, <1>9, <1>11, OneCall
<1> QED  BY <1>3, <1>10, <1>12 DEF ChildKept

(* The page learns how its call ended, and may load the row again.           *)
LEMMA CallsEnd ==
  ASSUME IInv, NEW f \in flights, RowsOK', RowsGrow, rejections' = rejections,
         page' \in Pages, page'.id = page.id, page'.view = page.view,
         \/ flights' = flights \ {f}
         \/ page'.loading /\ Loading({f})
  PROVE  ChildOK' /\ Mirrors
<1>1. /\ page.id # None /\ page.id \in Assignments /\ flights = {f}
      /\ rejections \in 0 .. MaxRejections
  BY PageIs DEF IInv
<1>2. ViewOK' /\ Mirrors  BY SameView DEF IInv
<1>3. PICK a \in Assignments : a = page.id  BY <1>1
<1>4. CASE flights' = flights \ {f}
  <2>1. flights' = {}  BY <1>1, <1>4
  <2> QED  BY <1>1, <1>2, <2>1, OneCall
<1>5. CASE page'.loading /\ Loading({f})
  <2>1. flights' = {Call(Load(a))}  BY <1>1, <1>3, <1>5 DEF Loading
  <2>2. FlightOK(Call(Load(a)))'  BY <1>3, <1>5, FreshFlight DEF Load
  <2> QED  BY <1>1, <1>2, <2>1, <2>2, OneCall
<1> QED  BY <1>4, <1>5

LEMMA AnswersKeep ==
  ASSUME IInv, NEW f \in flights, ActReturns(f) \/ ActRefused(f)
  PROVE  ChildKept
<1>1. page \in Pages  BY PageIs DEF IInv
<1>2. rejections' = rejections /\ UNCHANGED apiVars  BY DEF ActReturns, ActRefused
<1>3. RowsOK' /\ RowsGrow /\ NetOK' /\ NewTemplates({})  BY <1>2, ApiStays DEF IInv
<1>4. CASE page' = [page EXCEPT !.loading = TRUE, !.recovery = None] /\ Loading({f})
  <2>1. page' \in Pages /\ page'.id = page.id /\ page'.view = page.view /\ page'.loading
    BY <1>1, <1>4 DEF Pages
  <2> QED  BY <1>2, <1>3, <1>4, <2>1, CallsEnd DEF ChildKept
<1>5. CASE page' = FailureShown(f.answer.code) /\ flights' = flights \ {f}
  <2>1. PICK action \in RecoveryActions : action = RecoveryFor(f.answer.code, "child")
    BY RecoveryIsAnAction
  <2>2. page' = [page EXCEPT !.recovery = action, !.sendFailed = TRUE, !.busy = FALSE]
    BY <1>5, <2>1 DEF FailureShown
  <2>3. page' \in Pages /\ page'.id = page.id /\ page'.view = page.view
    BY <1>1, <2>2 DEF Pages
  <2> QED  BY <1>2, <1>3, <1>5, <2>3, CallsEnd DEF ChildKept
<1> QED  BY <1>4, <1>5 DEF ActReturns, ActRefused

LEMMA FailuresKeep ==
  ASSUME IInv, NEW f \in flights, NEW code \in FailureCodes, LoadFails(f, code) \/ ActFails(f, code)
  PROVE  ChildKept
<1>1. page \in Pages  BY PageIs DEF IInv
<1>2. /\ GiveUp(f.req, f.answer # None) /\ flights' = flights \ {f}
      /\ rejections' = rejections /\ UNCHANGED lifecycleVars
  BY DEF LoadFails, ActFails, Answered
<1>3. f.req \in Requests /\ (f.answer # None) \in BOOLEAN
  BY DEF IInv, ChildOK, ChildTypeOK
<1>4. RowsOK' /\ RowsGrow /\ NetOK' /\ NewTemplates({})
  BY <1>2, <1>3, CallsGivenUp DEF IInv
<1>5. PICK action \in RecoveryActions : action = RecoveryFor(code, "child")
  BY RecoveryIsAnAction
<1>6. page' \in Pages /\ page'.id = page.id /\ page'.view = page.view
  <2>1. \/ page' = [page EXCEPT !.recovery = action, !.loading = FALSE, !.busy = FALSE]
        \/ page' = [page EXCEPT !.recovery = action, !.sendFailed = TRUE, !.busy = FALSE]
    BY <1>5 DEF LoadFails, ActFails, FailureShown
  <2> QED  BY <1>1, <2>1 DEF Pages
<1>7. ChildOK' /\ Mirrors  BY <1>2, <1>4, <1>6, CallsEnd
<1> QED  BY <1>4, <1>7 DEF ChildKept

LEMMA ParentKeeps ==
  ASSUME IInv, NEW a \in Cards, ParentApproves(a) \/ ParentRejects(a)
  PROVE  ChildKept
<1>1. /\ ApproveTask(a) \/ RejectTask(a)
      /\ page' = page /\ flights' = flights /\ UNCHANGED <<faults, stray>>
  BY DEF ParentApproves, ParentRejects, childVars, faultVars
<1>2. rejections' \in 0 .. MaxRejections
  <2>1. rejections \in 0 .. MaxRejections  BY PageIs DEF IInv
  <2> QED  BY <2>1, ChildTaskAssumption DEF ParentApproves, ParentRejects, childVars
<1>3. a \in Assignments  BY ChildTaskAssumption
<1>4. RowsOK' /\ RowsGrow /\ NewTemplates({})  BY <1>1, <1>3, Decisions DEF IInv
<1>5. NetOK'  BY <1>1 DEF IInv, NetOK
<1>6. ChildOK' /\ Mirrors  BY <1>1, <1>2, <1>4, ChildStays DEF IInv
<1> QED  BY <1>4, <1>5, <1>6 DEF ChildKept

-----------------------------------------------------------------------------
(* The two pages together. *)

LEMMA BuilderWaits ==
  ASSUME IInv, RowsOK', RowsGrow, NewTemplates({}), UNCHANGED builderVars
  PROVE  BuilderOK' /\ SuccessIsTrue' /\ TemplatesAccountedFor'
<1>1. UNCHANGED <<builder, flows>> /\ orphans' = orphans  BY DEF builderVars
<1>2. orphans' \subseteq Templates  BY <1>1 DEF IInv, BuilderOK, BuilderTypeOK
<1>3. BuilderOK' /\ SuccessIsTrue'  BY <1>1, <1>2, BuilderStays DEF IInv
<1>4. \A f \in Flows : Untold(f)' = Untold(f)
  BY <1>1 DEF Untold, Returned, Served, Running
<1>5. \A t \in Templates : t \in Kept => t \in Kept'  BY <1>1, <1>4 DEF Kept
<1> QED  BY <1>3, <1>5, KeepersKeep DEF IInv

LEMMA ChildWaits ==
  ASSUME IInv, RowsOK', RowsGrow, UNCHANGED childVars
  PROVE  ChildOK' /\ Mirrors
<1>1. UNCHANGED <<page, flights>> /\ rejections' = rejections  BY DEF childVars
<1>2. rejections' \in 0 .. MaxRejections  BY <1>1, PageIs DEF IInv
<1> QED  BY <1>1, <1>2, ChildStays DEF IInv

LEMMA InitOK ==
  PagesInit => IInv
<1> SUFFICES ASSUME PagesInit PROVE IInv  OBVIOUS
<1>1. RowsOK
  BY DEF PagesInit, ApiInit, Init, RowsOK, AbsentTemplate, AbsentAssignment,
         TemplateRows, AssignmentRows, Currencies
<1>2. NetOK  BY TaskApiAssumption DEF PagesInit, ApiInit, NetOK
<1>3. /\ builder \in Builders /\ builder.stage = "DRAFT" /\ builder.templateId = None
      /\ orphans = {} /\ flows \in [Flows -> FlowRows]
      /\ \A f \in Flows : flows[f] = NoFlow
  BY NoFlowIs DEF PagesInit, BuilderInit, NewBuilder, Builders
<1>4. BuilderTypeOK /\ FlowTypes
  BY <1>3, NoFlowIs DEF BuilderTypeOK, FlowTypes, Builders, FlowRows
<1>5. ContextOK /\ \A f \in Flows : FlowOK(f)
  BY <1>3, NoFlowIs DEF ContextOK, FlowOK, Running
<1>6. BuilderOK  BY <1>3, <1>4, <1>5 DEF BuilderOK
<1>7. SuccessIsTrue  BY <1>3 DEF SuccessIsTrue
<1>8. TemplatesAccountedFor
  BY DEF PagesInit, ApiInit, Init, AbsentTemplate, TemplatesAccountedFor
<1>9. /\ page \in Pages /\ page.id = None /\ page.view = None /\ flights = {}
      /\ rejections \in 0 .. MaxRejections
  <2>1. page = NoPage  BY DEF PagesInit, ChildInit
  <2>2. NoPage \in Pages /\ NoPage.id = None /\ NoPage.view = None
    BY DEF NoPage, NewPage, Pages
  <2>3. page \in Pages /\ page.id = None /\ page.view = None  BY <2>1, <2>2
  <2>4. flights = {} /\ rejections = 0  BY DEF PagesInit, ChildInit
  <2> QED  BY <2>3, <2>4, ChildTaskAssumption
<1>10. ChildOK  BY <1>9 DEF ChildOK, ChildTypeOK, ViewOK, Pages
<1> QED  BY <1>1, <1>2, <1>6, <1>7, <1>8, <1>10 DEF IInv

LEMMA StepOK ==
  ASSUME IInv, [PagesNext]_pagesVars
  PROVE  IInv' /\ Mirrors
<1>1. CASE BuilderNext /\ UNCHANGED childVars
  <2>1. BuilderKept
    BY <1>1, ContextLoadsKeeps, TapKeeps, ServeFlowKeeps, CreatedKeeps, PublishedKeeps,
       AssignedKeeps, CallFailsKeeps, ReopenKeeps, BuilderStrayKeeps
       DEF BuilderNext, Chain
  <2>2. ChildOK' /\ Mirrors  BY <1>1, <2>1, ChildWaits DEF BuilderKept
  <2> QED  BY <2>1, <2>2 DEF BuilderKept, IInv
<1>2. CASE ChildNext /\ UNCHANGED builderVars
  <2>1. ChildKept
    BY <1>2, OpenKeeps, AbandonKeeps, TapsKeep, ServeCallKeeps, LoadReturnsKeeps,
       AnswersKeep, FailuresKeep, ParentKeeps
       DEF ChildNext, Proceed
  <2>2. BuilderOK' /\ SuccessIsTrue' /\ TemplatesAccountedFor'
    BY <1>2, <2>1, BuilderWaits DEF ChildKept
  <2> QED  BY <2>1, <2>2 DEF ChildKept, IInv
<1>3. CASE UNCHANGED pagesVars
  <2>1. UNCHANGED apiVars /\ UNCHANGED builderVars /\ UNCHANGED childVars
    BY <1>3 DEF pagesVars
  <2>2. RowsOK' /\ RowsGrow /\ NetOK' /\ NewTemplates({})  BY <2>1, ApiStays DEF IInv
  <2>3. BuilderOK' /\ SuccessIsTrue' /\ TemplatesAccountedFor'
    BY <2>1, <2>2, BuilderWaits
  <2>4. ChildOK' /\ Mirrors  BY <2>1, <2>2, ChildWaits
  <2> QED  BY <2>2, <2>3, <2>4 DEF IInv
<1> QED  BY <1>1, <1>2, <1>3 DEF PagesNext

(* What the tables make of a status.                                         *)
LEMMA OfferedIs ==
  ASSUME NEW s \in AssignmentStatuses
  PROVE  Offered(TaskScreen(s, FALSE)) =
           CASE s \in {"ASSIGNED", "REJECTED"} -> {"start"}
             [] s = "IN_PROGRESS" -> {"submit"}
             [] OTHER -> {}
BY DEF AssignmentStatuses, Offered, TaskScreen, ToScreenState, DeriveUiTaskState

LEMMA OffersTheNextStep ==
  IInv => ScreenOffersTheNextStep
<1> SUFFICES ASSUME IInv, page.view # None, page.view = Seen(page.id),
                    ~page.loading, ~page.busy, ~page.sendFailed
             PROVE  Controls = {req.op : req \in {r \in {Start(page.id), Submit(page.id)} :
                                                    Accepted(r) /\ ~Replays(r)}}
  BY DEF ScreenOffersTheNextStep
<1>1. page.id \in Assignments /\ page.id # None /\ page.view \in Views /\ page \in Pages
  BY PageIs DEF IInv
<1>2. PICK a \in Assignments : a = page.id  BY <1>1
<1>3. PICK s \in AssignmentStatuses : s = page.view.status  BY <1>1 DEF Views
<1>4. assignment[a].status = s  BY <1>2, <1>3 DEF Seen
<1>5. Controls = Offered(TaskScreen(s, FALSE))
  <2>1. page.sendFailed = FALSE  BY <1>1 DEF Pages
  <2> QED  BY <1>1, <1>3, <2>1 DEF Controls
<1>6. (Accepted(Start(a)) /\ ~Replays(Start(a))) <=> s \in {"ASSIGNED", "REJECTED"}
  BY <1>4 DEF Start, Accepted, Replays, StartTaskAllowed, IsValidTaskAssignmentTransition
<1>7. (Accepted(Submit(a)) /\ ~Replays(Submit(a))) <=> s = "IN_PROGRESS"
  BY <1>4 DEF Submit, Accepted, Replays, SubmitTaskAllowed
<1>8. Start(a).op = "start" /\ Submit(a).op = "submit"  BY DEF Start, Submit
<1>9. CASE s \in {"ASSIGNED", "REJECTED"}
  <2>1. {r \in {Start(a), Submit(a)} : Accepted(r) /\ ~Replays(r)} = {Start(a)}
    BY <1>6, <1>7, <1>9
  <2>2. {req.op : req \in {Start(a)}} = {"start"}  BY <1>8
  <2>3. Controls = {"start"}  BY <1>5, <1>9, OfferedIs
  <2> QED  BY <1>2, <2>1, <2>2, <2>3
<1>10. CASE s = "IN_PROGRESS"
  <2>1. {r \in {Start(a), Submit(a)} : Accepted(r) /\ ~Replays(r)} = {Submit(a)}
    BY <1>6, <1>7, <1>10
  <2>2. {req.op : req \in {Submit(a)}} = {"submit"}  BY <1>8
  <2>3. Controls = {"submit"}  BY <1>5, <1>10, OfferedIs
  <2> QED  BY <1>2, <2>1, <2>2, <2>3
<1>11. CASE s \notin {"ASSIGNED", "REJECTED", "IN_PROGRESS"}
  <2>1. {r \in {Start(a), Submit(a)} : Accepted(r) /\ ~Replays(r)} = {}
    BY <1>6, <1>7, <1>11
  <2> QED  BY <1>2, <1>5, <1>11, <2>1, OfferedIs
<1> QED  BY <1>9, <1>10, <1>11

(* A step of the pages is a step of the mirror, or leaves it alone.          *)
LEMMA MirrorTurns ==
  ASSUME IInv, Mirrors
  PROVE  [Shown!MirrorNext]_<<Current, OnScreen>>
<1>1. Current \in Nat /\ OnScreen \in Nat /\ Current' \in Nat  BY PageIs DEF IInv, Mirrors
<1>2. CASE OnScreen' = 0
  <2>1. Shown!Turn  BY <1>1, <1>2 DEF Shown!Turn, Current, OnScreen
  <2> QED  BY <2>1 DEF Shown!MirrorNext
<1>3. CASE OnScreen' \in OnScreen .. Current /\ Current' = Current
  <2>1. Shown!Refresh  BY <1>3 DEF Shown!Refresh, Current, OnScreen
  <2> QED  BY <2>1 DEF Shown!MirrorNext
<1>4. CASE OnScreen' = OnScreen /\ Current' > Current
  <2>1. Shown!RowChanges  BY <1>1, <1>4 DEF Shown!RowChanges, Current, OnScreen
  <2> QED  BY <2>1 DEF Shown!MirrorNext
<1>5. CASE OnScreen' = OnScreen /\ Current' = Current  BY <1>5
<1> QED  BY <1>1, <1>2, <1>3, <1>4, <1>5 DEF Mirrors

-----------------------------------------------------------------------------
(* The theorems. *)

(* The inductive invariant holds in every reachable state.                   *)
THEOREM Invariance ==
  PagesSpec => []IInv
<1>1. IInv /\ [PagesNext]_pagesVars => IInv'  BY StepOK
<1> QED  BY InitOK, <1>1, PTL DEF PagesSpec

(* Both pages and their calls keep their types, whatever fails.              *)
THEOREM TypeCorrect ==
  PagesSpec => []PagesTypeOK
<1>1. IInv => PagesTypeOK  BY DEF IInv, BuilderOK, ChildOK, PagesTypeOK
<1> QED  BY Invariance, <1>1, PTL

(* The builder claims that a task is ready, or has appeared at the child's,  *)
(* only when the server has published its template, or assigned it.          *)
THEOREM ClaimsAreTrue ==
  PagesSpec => []SuccessIsTrue
<1>1. IInv => SuccessIsTrue  BY DEF IInv
<1> QED  BY Invariance, <1>1, PTL

(* However often the parent taps and retries, a template is the page's, on   *)
(* its way to it, or one whose creation the page cannot have heard of.       *)
THEOREM NoTemplateIsForgotten ==
  PagesSpec => []TemplatesAccountedFor
<1>1. IInv => TemplatesAccountedFor  BY DEF IInv
<1> QED  BY Invariance, <1>1, PTL

(* An up-to-date page at rest offers the child exactly what the server       *)
(* would accept.                                                             *)
THEOREM NextStepIsOffered ==
  PagesSpec => []ScreenOffersTheNextStep
BY Invariance, OffersTheNextStep, PTL

(* The child's page implements the mirror: it shows a version its row has    *)
(* had, and never goes back to an older one.                                 *)
THEOREM MirrorIsImplemented ==
  PagesSpec => PageMirrorsRow
<1>1. PagesInit => Shown!MirrorInit
  BY DEF PagesInit, ChildInit, NoPage, NewPage, Shown!MirrorInit
<1>2. IInv /\ [PagesNext]_pagesVars => [Shown!MirrorNext]_<<Current, OnScreen>>
  BY StepOK, MirrorTurns
<1> QED  BY Invariance, <1>1, <1>2, PTL
         DEF PagesSpec, PageMirrorsRow, Shown!MirrorSpec, Current, OnScreen

-----------------------------------------------------------------------------
(* The pages over TaskLifecycle. *)

LEMMA HandleIsOneRequest ==
  ASSUME NEW req \in Requests, Handle(req)
  PROVE  [Next]_lifecycleVars
<1>1. CASE UNCHANGED lifecycleVars  BY <1>1
<1>2. CASE req.op = "create" /\ FreshTemplate \in Templates
           /\ CreateTemplate(FreshTemplate, req.reward)
  BY <1>2, RequestIs DEF Next
<1>3. CASE req.op = "publish" /\ PublishTemplate(req.id)
  BY <1>3, RequestIs DEF Next
<1>4. CASE /\ req.op = "assign" /\ FreshAssignment \in Assignments
           /\ AssignTask(FreshAssignment, req.id, req.child)
  BY <1>4, RequestIs DEF Next
<1>5. CASE req.op = "start" /\ StartTask(req.id)
  BY <1>5, RequestIs DEF Next
<1>6. CASE req.op = "submit" /\ SubmitTask(req.id)
  BY <1>6, RequestIs DEF Next
<1> QED  BY <1>1, <1>2, <1>3, <1>4, <1>5, <1>6 DEF Handle

LEMMA PagesStepIsOneRequest ==
  ASSUME IInv, [PagesNext]_pagesVars
  PROVE  [Next]_lifecycleVars
<1>1. ASSUME NEW f \in Flows, ServeFlow(f) PROVE [Next]_lifecycleVars
  <2>1. flows[f].req \in Requests
    BY <1>1, FlowIs DEF IInv, ServeFlow
  <2> QED  BY <1>1, <2>1, HandleIsOneRequest DEF ServeFlow
<1>2. CASE BuilderStray
  <2>1. stray \in Requests  BY <1>2 DEF IInv, NetOK, BuilderStray
  <2> QED  BY <1>2, <2>1, HandleIsOneRequest DEF BuilderStray, StrayArrives
<1>3. ASSUME NEW f \in flights, ServeCall(f) PROVE [Next]_lifecycleVars
  <2>1. f.req \in Requests  BY DEF IInv, ChildOK, ChildTypeOK
  <2> QED  BY <1>3, <2>1, HandleIsOneRequest DEF ServeCall
<1>4. ASSUME NEW a \in Cards, ParentApproves(a) \/ ParentRejects(a)
      PROVE  [Next]_lifecycleVars
  BY <1>4, ChildTaskAssumption DEF ParentApproves, ParentRejects, Next
<1>5. CASE UNCHANGED lifecycleVars  BY <1>5
<1>6. CASE BuilderNext
  BY <1>1, <1>2, <1>5, <1>6
     DEF BuilderNext, Chain, ContextLoads, ContextFails, Tap, Created, Published, Assigned,
         CallFails, Reopen, ReopenFailed, apiVars
<1>7. CASE ChildNext
  BY <1>3, <1>4, <1>5, <1>7
     DEF ChildNext, Proceed, Open, Abandon, TapLoad, TapAct, LoadReturns, ActReturns,
         ActRefused, LoadFails, ActFails, apiVars
<1>8. CASE UNCHANGED pagesVars  BY <1>8, <1>5 DEF pagesVars, apiVars
<1> QED  BY <1>6, <1>7, <1>8 DEF PagesNext

(* Over the failing network the pages do to the rows and the ledger only     *)
(* what TaskLifecycle does, one request at a time: what the transactions of  *)
(* TaskRequests are proved to implement is all that the pages rely on.       *)
THEOREM PagesFollowTheLifecycle ==
  PagesSpec => Spec
<1>1. PagesInit => Init  BY DEF PagesInit, ApiInit
<1>2. IInv /\ [PagesNext]_pagesVars => [Next]_lifecycleVars  BY PagesStepIsOneRequest
<1> QED  BY Invariance, <1>1, <1>2, PTL DEF PagesSpec, Spec

=============================================================================
