--------------------------- MODULE TaskRequestsProofs ---------------------------
(***************************************************************************)
(* Proofs about TaskRequests for any number of connections, parents,       *)
(* children, templates and assignments: types, the version counts and the  *)
(* ledger, and that every request takes effect atomically.                 *)
(*                                                                         *)
(* The inductive invariant says what a transaction may rely on while it    *)
(* holds a row lock: its private copy is the committed row advanced by its *)
(* own commands, and a template it has read cannot change.                 *)
(***************************************************************************)
EXTENDS TaskRequests, TLAPS

AssignmentOps == ChildOps \cup ParentOps
TemplateOps == DraftOps \cup {"create", "assign"}

(* Which statements an operation goes through, and that it names its rows. *)
Control(c) ==
  /\ pc[c] # "idle" =>
       /\ req[c].op \in AssignmentOps => req[c].assignment \in Assignments
       /\ req[c].op \in TemplateOps => req[c].template \in Templates
       /\ req[c].op = "assign" =>
            req[c].assignment \in Assignments /\ req[c].child \in Children
       /\ req[c].op \in {"create", "update"} => req[c].reward \in Rewards
  /\ \/ pc[c] = "idle" /\ req[c] = NoRequest
     \/ pc[c] \in {"create", "commit"} /\ req[c].op = "create"
     \/ pc[c] \in {"templateLock", "commit", req[c].op} /\ req[c].op \in DraftOps \cup {"assign"}
     \/ pc[c] \in {"read", "lock", "commit", req[c].op} /\ req[c].op \in ChildOps
     \/ pc[c] \in {"read", "lock", "begin", "verify", "commit"} /\ req[c].op \in ParentOps
     \/ pc[c] \in {"complete", "payLock", "pay"} /\ req[c].op = "approve"

HoldsAssignment(c) ==
  /\ req[c].op \in AssignmentOps
  /\ pc[c] \in AssignmentCommands \cup {"payLock", "pay", "commit"}

HoldsTemplate(c) ==
  \/ req[c].op \in DraftOps \cup {"assign"} /\ pc[c] \in DraftOps \cup {"assign", "commit"}
  \/ req[c].op = "approve" /\ pc[c] \in {"pay", "commit"}

HeldTemplate(c) ==
  IF req[c].op = "approve" THEN assignment[Mine(c)].template ELSE req[c].template

Locks(c) ==
  /\ HoldsAssignment(c) => assignmentLock[Mine(c)] = c
  /\ HoldsTemplate(c) => templateLock[HeldTemplate(c)] = c

(* A transaction that holds an assignment's lock has the committed row, moved *)
(* on by the commands it has run.                                             *)
AssignmentCopy(c) ==
  LET old == assignment[Mine(c)]
      row == tx[c].row IN
    HoldsAssignment(c) =>
      /\ old.status # "ABSENT"
      /\ tx[c].base = old.version
      /\ \/ pc[c] \in {"start", "submit", "begin"} /\ row = old
         \/ pc[c] = "verify" /\ row = old
         \/ pc[c] = "verify" /\ old.status = "SUBMITTED" /\ row = Verifying(old)
         \/ pc[c] = "complete" /\ old.status = "SUBMITTED" /\ row = Approved(old)
         \/ pc[c] \in {"payLock", "pay"} /\ old.status = "SUBMITTED" /\ row = Completed(old)
         \/ /\ pc[c] = "commit" /\ req[c].op = "start"
            /\ StartTaskAllowed(old, old.child) /\ row = Advance(old, "IN_PROGRESS")
         \/ /\ pc[c] = "commit" /\ req[c].op = "submit"
            /\ SubmitTaskAllowed(old, old.child) /\ row = Advance(old, "SUBMITTED")
         \/ /\ pc[c] = "commit" /\ req[c].op = "reject"
            /\ old.status = "SUBMITTED" /\ row = Rejected(old)
         \/ /\ pc[c] = "commit" /\ req[c].op = "approve"
            /\ old.status = "SUBMITTED" /\ row = Completed(old)

(* The same for the template it holds; an approval's payment is the template's. *)
TemplateCopy(c) ==
  LET old == template[HeldTemplate(c)] IN
    HoldsTemplate(c) =>
      /\ old.status # "ABSENT"
      /\ pc[c] \in DraftOps \cup {"assign", "pay"} => tx[c].draft = old
      /\ pc[c] = "commit" =>
           \/ /\ req[c].op = "update" /\ UpdateTemplateAllowed(old, req[c].reward)
              /\ tx[c].draft = UpdatedTemplate(old, req[c].reward)
           \/ /\ req[c].op = "publish" /\ PublishTemplateAllowed(old)
              /\ tx[c].draft = Advance(old, "ACTIVE")
           \/ /\ req[c].op = "archive" /\ ArchiveTemplateAllowed(old)
              /\ tx[c].draft = Advance(old, "ARCHIVED")
           \/ /\ req[c].op = "assign" /\ AssignTaskAllowed(old)
              /\ tx[c].row = NewAssignment(req[c].template, req[c].child)
           \/ /\ req[c].op = "approve" /\ tx[c].pays = old.reward

(* Only an approval about to commit has ledger entries; a row once read stays; *)
(* a new row's id is free.                                                     *)
Pending(c) ==
  /\ pc[c] = "lock" => assignment[Mine(c)].status # "ABSENT"
  /\ ~(pc[c] = "commit" /\ req[c].op = "approve") => tx[c].pays = [k \in Currencies |-> 0]
  /\ req[c].op = "create" /\ pc[c] # "idle" => template[req[c].template].status = "ABSENT"
  /\ req[c].op = "create" /\ pc[c] = "commit" =>
       /\ CreateTemplateAllowed(req[c].reward)
       /\ tx[c].draft = NewTemplate(req[c].reward)
  /\ req[c].op = "assign" /\ pc[c] # "idle" => assignment[req[c].assignment].status = "ABSENT"

ConnInv(c) ==
  Control(c) /\ Locks(c) /\ AssignmentCopy(c) /\ TemplateCopy(c) /\ Pending(c)

(* Two requests in flight never create the same row. *)
FreshIds ==
  \A c, d \in Conns : c # d /\ pc[c] # "idle" /\ pc[d] # "idle" =>
    /\ req[c].op = "create" /\ req[d].op = "create" => req[c].template # req[d].template
    /\ req[c].op = "assign" /\ req[d].op = "assign" => req[c].assignment # req[d].assignment

(* An assignment refers to a published template, which is never edited. *)
AssignedFromPublished ==
  \A a \in Assignments : assignment[a].status # "ABSENT" =>
    /\ assignment[a].template \in Templates
    /\ assignment[a].child \in Children
    /\ template[assignment[a].template].status \in {"ACTIVE", "ARCHIVED"}

DataInv == LedgerMatchesCompletion /\ VersionCountsHistory /\ AssignedFromPublished

IInv == TypeOK /\ DataInv /\ FreshIds /\ \A c \in Conns : ConnInv(c)

-----------------------------------------------------------------------------
(* The initial states satisfy the invariant. *)
LEMMA InitInv == RequestsInit => IInv
<1> SUFFICES ASSUME RequestsInit PROVE IInv
  OBVIOUS
<1> USE DEF RequestsInit, Init, NoRequest, NoTransaction, AbsentTemplate, AbsentAssignment
<1>1. TypeOK
  BY TaskRequestsAssumption, TaskDomainAssumption
     DEF TypeOK, TemplateRows, AssignmentRows, TemplateStatuses, AssignmentStatuses,
         Currencies, Unpaid, NoEntries, Statements, Requests, Ops, DraftOps, ChildOps,
         ParentOps, Transactions
<1>2. DataInv
  BY DEF DataInv, LedgerMatchesCompletion, VersionCountsHistory, VersionCounts,
         AssignedFromPublished
<1>3. FreshIds
  BY DEF FreshIds
<1>4. ASSUME NEW c \in Conns PROVE ConnInv(c)
  BY DEF ConnInv, Control, Locks, AssignmentCopy, TemplateCopy, Pending, HoldsAssignment,
         HoldsTemplate, AssignmentOps, TemplateOps, DraftOps, ChildOps, ParentOps,
         AssignmentCommands
<1> QED
  BY <1>1, <1>2, <1>3, <1>4 DEF IInv

-----------------------------------------------------------------------------
(* The atomic lifecycle preserves what the committed rows satisfy. *)

RowTypes ==
  /\ template \in [Templates -> TemplateRows]
  /\ assignment \in [Assignments -> AssignmentRows]
  /\ completions \in [Assignments -> Nat]
  /\ ledger \in [Assignments -> [Currencies -> [rows : Nat, amount : Nat]]]

(* A template that an assignment refers to keeps what it pays. *)
LEMMA AssignedKeepsReward ==
  ASSUME RowTypes, AssignedFromPublished, NEW t \in Templates, NEW row \in TemplateRows,
         SetTemplate(t, row),
         \/ template[t].status \in {"ABSENT", "DRAFT"}
         \/ row.status = "ARCHIVED" /\ row.reward = template[t].reward
  PROVE  /\ AssignedFromPublished'
         /\ \A a \in Assignments : assignment[a].status # "ABSENT" =>
              template'[assignment[a].template].reward = template[assignment[a].template].reward
  BY DEF RowTypes, AssignedFromPublished, SetTemplate, TemplateRows

(* A template's row may be replaced if nothing assigned depends on it. *)
LEMMA TemplateStepData ==
  ASSUME RowTypes, DataInv, NEW t \in Templates, NEW row \in TemplateRows,
         SetTemplate(t, row),
         \/ template[t].status \in {"ABSENT", "DRAFT"}
         \/ row.status = "ARCHIVED" /\ row.reward = template[t].reward
  PROVE  DataInv'
<1>1. /\ AssignedFromPublished'
      /\ \A a \in Assignments : assignment[a].status # "ABSENT" =>
           template'[assignment[a].template].reward = template[assignment[a].template].reward
  BY AssignedKeepsReward DEF DataInv
<1>2. LedgerMatchesCompletion'
  BY <1>1 DEF DataInv, LedgerMatchesCompletion, SetTemplate
<1>3. VersionCountsHistory'
  BY DEF DataInv, VersionCountsHistory, VersionCounts, SetTemplate
<1> QED
  BY <1>1, <1>2, <1>3 DEF DataInv

(* What an assignment's step does to its own row, ledger and completions. *)
RowInv(a) ==
  /\ ledger[a] = IF assignment[a].status = "COMPLETED"
                   THEN Paid(template[assignment[a].template].reward) ELSE Unpaid
  /\ assignment[a].status # "ABSENT" =>
       /\ assignment[a].template \in Templates
       /\ assignment[a].child \in Children
       /\ template[assignment[a].template].status \in {"ACTIVE", "ARCHIVED"}

(* An assignment's row may be replaced if the new one satisfies the invariant. *)
LEMMA AssignmentStepData ==
  ASSUME RowTypes, DataInv, NEW a \in Assignments, NEW row \in AssignmentRows,
         SetAssignment(a, row),
         \A b \in Assignments : b # a =>
           ledger'[b] = ledger[b] /\ completions'[b] = completions[b],
         RowInv(a)', VersionCounts(a)'
  PROVE  DataInv'
<1>1. ASSUME NEW b \in Assignments PROVE RowInv(b)' /\ VersionCounts(b)'
  <2>1. CASE b = a
    BY <2>1
  <2>2. CASE b # a
    <3>1. RowInv(b) /\ VersionCounts(b)
      BY DEF DataInv, RowInv, LedgerMatchesCompletion, VersionCountsHistory, AssignedFromPublished
    <3>2. /\ assignment'[b] = assignment[b] /\ template' = template
          /\ ledger'[b] = ledger[b] /\ completions'[b] = completions[b]
      BY <2>2 DEF RowTypes, SetAssignment
    <3> QED
      BY <3>1, <3>2 DEF RowInv, VersionCounts
  <2> QED
    BY <2>1, <2>2
<1> QED
  BY <1>1 DEF DataInv, RowInv, LedgerMatchesCompletion, VersionCountsHistory, AssignedFromPublished

(* What the commands' rows are. *)
LEMMA AdvancedTemplate ==
  ASSUME NEW row \in TemplateRows, NEW s \in TemplateStatuses
  PROVE  /\ Advance(row, s) \in TemplateRows
         /\ Advance(row, s).status = s
         /\ Advance(row, s).reward = row.reward
<1>1. row.version + 1 \in Nat
  BY DEF TemplateRows
<1> QED
  BY <1>1 DEF Advance, TemplateRows

LEMMA EditedTemplate ==
  ASSUME NEW row \in TemplateRows, NEW reward \in [Currencies -> Int], NonNegative(reward)
  PROVE  UpdatedTemplate(row, reward) \in TemplateRows /\ NewTemplate(reward) \in TemplateRows
<1>1. reward \in [Currencies -> Nat] /\ row.version + 1 \in Nat
  BY DEF NonNegative, TemplateRows
<1> QED
  BY <1>1 DEF UpdatedTemplate, NewTemplate, TemplateRows, TemplateStatuses

LEMMA AdvancedAssignment ==
  ASSUME NEW row \in AssignmentRows, NEW s \in AssignmentStatuses
  PROVE  /\ Advance(row, s) \in AssignmentRows
         /\ Advance(row, s).status = s
         /\ Advance(row, s).version = row.version + 1
         /\ Advance(row, s).template = row.template
         /\ Advance(row, s).child = row.child
<1>1. row.version + 1 \in Nat
  BY DEF AssignmentRows
<1> QED
  BY <1>1 DEF Advance, AssignmentRows

LEMMA DecidedAssignment ==
  ASSUME NEW row \in AssignmentRows
  PROVE  /\ {Verifying(row), Rejected(row), Approved(row), Completed(row)} \subseteq AssignmentRows
         /\ Verifying(row).status = "VERIFYING"
         /\ Approved(row).status = "APPROVED"
         /\ Rejected(row).status = "REJECTED" /\ Rejected(row).version = row.version + 2
         /\ Completed(row).status = "COMPLETED" /\ Completed(row).version = row.version + 3
         /\ \A r \in {Verifying(row), Rejected(row), Approved(row), Completed(row)} :
              r.template = row.template /\ r.child = row.child
<1>1. Verifying(row) \in AssignmentRows
  BY AdvancedAssignment DEF Verifying, AssignmentStatuses
<1>2. Rejected(row) \in AssignmentRows /\ Approved(row) \in AssignmentRows
  BY <1>1, AdvancedAssignment DEF Rejected, Approved, AssignmentStatuses
<1>3. Completed(row) \in AssignmentRows
  BY <1>2, AdvancedAssignment DEF Completed, AssignmentStatuses
<1>4. row.version \in Nat
  BY DEF AssignmentRows
<1> QED
  BY <1>1, <1>2, <1>3, <1>4, AdvancedAssignment
     DEF Verifying, Rejected, Approved, Completed, AssignmentStatuses

(* Every step of the atomic lifecycle preserves DataInv. *)
LEMMA LifecycleKeepsData ==
  ASSUME RowTypes, DataInv, [Next]_lifecycleVars PROVE DataInv'
<1> USE DEF RowTypes
<1>1. ASSUME NEW t \in Templates, PublishTemplate(t) PROVE DataInv'
  <2>1. template[t].status = "DRAFT" /\ Advance(template[t], "ACTIVE") \in TemplateRows
    BY <1>1, AdvancedTemplate DEF PublishTemplate, PublishTemplateAllowed,
       IsValidTaskTemplateTransition, TemplateStatuses
  <2> QED
    BY <1>1, <2>1, TemplateStepData DEF PublishTemplate
<1>2. ASSUME NEW t \in Templates, ArchiveTemplate(t) PROVE DataInv'
  <2>1. /\ Advance(template[t], "ARCHIVED") \in TemplateRows
        /\ Advance(template[t], "ARCHIVED").status = "ARCHIVED"
        /\ Advance(template[t], "ARCHIVED").reward = template[t].reward
    BY AdvancedTemplate DEF TemplateStatuses
  <2> QED
    BY <1>2, <2>1, TemplateStepData DEF ArchiveTemplate
<1>3. ASSUME NEW t \in Templates, NEW reward \in Rewards, CreateTemplate(t, reward)
      PROVE  DataInv'
  <2>1. NewTemplate(reward) \in TemplateRows
    BY <1>3, TaskDomainAssumption DEF CreateTemplate, CreateTemplateAllowed, NonNegative,
       NewTemplate, TemplateRows, TemplateStatuses
  <2> QED
    BY <1>3, <2>1, TemplateStepData DEF CreateTemplate
<1>4. ASSUME NEW t \in Templates, NEW reward \in Rewards, UpdateTemplate(t, reward)
      PROVE  DataInv'
  <2>2. UpdatedTemplate(template[t], reward) \in TemplateRows /\ template[t].status = "DRAFT"
    BY <1>4, TaskDomainAssumption, EditedTemplate DEF UpdateTemplate, UpdateTemplateAllowed
  <2> QED
    BY <1>4, <2>2, TemplateStepData DEF UpdateTemplate
<1>5. ASSUME NEW a \in Assignments, NEW t \in Templates, NEW child \in Children,
             AssignTask(a, t, child)
      PROVE  DataInv'
  <2>1. NewAssignment(t, child) \in AssignmentRows
    BY DEF NewAssignment, AssignmentRows, AssignmentStatuses
  <2>2. RowInv(a)' /\ VersionCounts(a)'
    BY <1>5 DEF AssignTask, AssignTaskAllowed, SetAssignment, NewAssignment, DataInv,
       LedgerMatchesCompletion, VersionCountsHistory, VersionCounts, RowInv
  <2> QED
    BY <1>5, <2>1, <2>2, AssignmentStepData DEF AssignTask
<1>6. ASSUME NEW a \in Assignments,
             StartTask(a) \/ SubmitTask(a) \/ RejectTask(a) \/ ApproveTask(a)
      PROVE  DataInv'
  <2> DEFINE row == assignment[a]
  <2>1. /\ row \in AssignmentRows
        /\ row.status \in {"ASSIGNED", "REJECTED", "IN_PROGRESS", "SUBMITTED"}
    BY <1>6 DEF StartTask, StartTaskAllowed, SubmitTask, SubmitTaskAllowed, RejectTask,
       ApproveTask, IsValidTaskAssignmentTransition, AssignmentRows
  <2>2. RowInv(a) /\ VersionCounts(a)
    BY DEF DataInv, LedgerMatchesCompletion, VersionCountsHistory, AssignedFromPublished, RowInv
  <2>3. row.version \in Nat /\ completions[a] \in Nat
    BY <2>1 DEF AssignmentRows
  <2>4. CASE StartTask(a)
    <3>1. /\ row.status \in {"ASSIGNED", "REJECTED"} /\ ledger'[a] = ledger[a]
          /\ assignment'[a] = Advance(row, "IN_PROGRESS") /\ template' = template
          /\ completions'[a] = completions[a]
      BY <2>4 DEF StartTask, StartTaskAllowed, IsValidTaskAssignmentTransition, SetAssignment
    <3>2. /\ Advance(row, "IN_PROGRESS") \in AssignmentRows
          /\ Advance(row, "IN_PROGRESS").status = "IN_PROGRESS"
          /\ Advance(row, "IN_PROGRESS").version = row.version + 1
          /\ Advance(row, "IN_PROGRESS").template = row.template
          /\ Advance(row, "IN_PROGRESS").child = row.child
      BY <2>1, AdvancedAssignment DEF AssignmentStatuses
    <3>3. RowInv(a)'
      BY <2>2, <3>1, <3>2 DEF RowInv
    <3>4. VersionCounts(a)'
      BY <2>3, <2>2, <3>1, <3>2 DEF VersionCounts
    <3> QED
      BY <2>4, <3>2, <3>3, <3>4, AssignmentStepData DEF StartTask
  <2>5. CASE SubmitTask(a)
    <3>1. /\ row.status = "IN_PROGRESS" /\ ledger'[a] = ledger[a]
          /\ assignment'[a] = Advance(row, "SUBMITTED") /\ template' = template
          /\ completions'[a] = completions[a] + 1
      BY <2>5 DEF SubmitTask, SubmitTaskAllowed, SetAssignment
    <3>2. /\ Advance(row, "SUBMITTED") \in AssignmentRows
          /\ Advance(row, "SUBMITTED").status = "SUBMITTED"
          /\ Advance(row, "SUBMITTED").version = row.version + 1
          /\ Advance(row, "SUBMITTED").template = row.template
          /\ Advance(row, "SUBMITTED").child = row.child
      BY <2>1, AdvancedAssignment DEF AssignmentStatuses
    <3>3. RowInv(a)'
      BY <2>2, <3>1, <3>2 DEF RowInv
    <3>4. VersionCounts(a)'
      <4>1. row.version = 4 * completions[a] + 2
        BY <2>2, <3>1 DEF VersionCounts
      <4>2. row.version + 1 = 4 * (completions[a] + 1) - 1 /\ completions[a] + 1 > 0
        BY <2>3, <4>1
      <4> QED
        BY <3>1, <3>2, <4>2 DEF VersionCounts
    <3> QED
      BY <2>5, <3>2, <3>3, <3>4, AssignmentStepData DEF SubmitTask
  <2>6. CASE RejectTask(a)
    <3>1. /\ row.status = "SUBMITTED" /\ ledger'[a] = ledger[a]
          /\ assignment'[a] = Rejected(row) /\ template' = template
          /\ completions'[a] = completions[a]
      BY <2>6 DEF RejectTask, SetAssignment
    <3>2. /\ Rejected(row) \in AssignmentRows
          /\ Rejected(row).status = "REJECTED"
          /\ Rejected(row).version = row.version + 2
          /\ Rejected(row).template = row.template
          /\ Rejected(row).child = row.child
      BY <2>1, DecidedAssignment 
    <3>3. RowInv(a)'
      BY <2>2, <3>1, <3>2 DEF RowInv
    <3>4. VersionCounts(a)'
      BY <2>3, <2>2, <3>1, <3>2 DEF VersionCounts
    <3> QED
      BY <2>6, <3>2, <3>3, <3>4, AssignmentStepData DEF RejectTask
  <2>7. CASE ApproveTask(a)
    <3>1. /\ row.status = "SUBMITTED" /\ ledger'[a] = Paid(template[row.template].reward)
          /\ assignment'[a] = Completed(row) /\ template' = template
          /\ completions'[a] = completions[a]
      BY <2>7 DEF ApproveTask, SetAssignment
    <3>2. /\ Completed(row) \in AssignmentRows
          /\ Completed(row).status = "COMPLETED"
          /\ Completed(row).version = row.version + 3
          /\ Completed(row).template = row.template
          /\ Completed(row).child = row.child
      BY <2>1, DecidedAssignment 
    <3>3. RowInv(a)'
      BY <2>2, <3>1, <3>2 DEF RowInv
    <3>4. VersionCounts(a)'
      BY <2>3, <2>2, <3>1, <3>2 DEF VersionCounts
    <3> QED
      BY <2>7, <3>2, <3>3, <3>4, AssignmentStepData DEF ApproveTask
  <2> QED
    BY <1>6, <2>4, <2>5, <2>6, <2>7
<1>7. CASE UNCHANGED lifecycleVars
  BY <1>7 DEF lifecycleVars, DataInv, LedgerMatchesCompletion, VersionCountsHistory,
     VersionCounts, AssignedFromPublished
<1> QED
  BY <1>1, <1>2, <1>3, <1>4, <1>5, <1>6, <1>7 DEF Next

-----------------------------------------------------------------------------
(* Types. *)

ControlTypes ==
  /\ members \subseteq Parents
  /\ templateLock \in [Templates -> Conns \cup {None}]
  /\ assignmentLock \in [Assignments -> Conns \cup {None}]
  /\ pc \in [Conns -> Statements]
  /\ req \in [Conns -> Requests]
  /\ tx \in [Conns -> Transactions]

LEMMA TypeOKSplit == TypeOK <=> RowTypes /\ ControlTypes
  BY DEF TypeOK, RowTypes, ControlTypes

LEMMA EmptyTypes == NoRequest \in Requests /\ NoTransaction \in Transactions
  BY DEF NoRequest, Requests, NoTransaction, Transactions, AbsentAssignment, AbsentTemplate,
     AssignmentRows, TemplateRows, Currencies, Ops, DraftOps, ChildOps, ParentOps

LEMMA EndTypes ==
  ASSUME ControlTypes, NEW c \in Conns, End(c) PROVE ControlTypes'
  BY EmptyTypes DEF ControlTypes, End, Goto, Release, Statements

LEMMA WriteTypes ==
  ASSUME TypeOK, NEW c \in Conns, NEW row \in AssignmentRows, NEW next \in Statements,
         Write(c, row, next)
  PROVE  TypeOK'
<1>1. [tx[c] EXCEPT !.row = row] \in Transactions
  BY DEF TypeOK, Transactions
<1> QED
  BY <1>1 DEF TypeOK, Write, Goto, Private, lifecycleVars

LEMMA WriteDraftTypes ==
  ASSUME TypeOK, NEW c \in Conns, NEW row \in TemplateRows, WriteDraft(c, row)
  PROVE  TypeOK'
<1>1. [tx[c] EXCEPT !.draft = row] \in Transactions
  BY DEF TypeOK, Transactions
<1> QED
  BY <1>1 DEF TypeOK, WriteDraft, Goto, Private, lifecycleVars, Statements

LEMMA ReceiveTypes ==
  ASSUME TypeOK, NEW c \in Conns, NEW request \in Requests, NEW statement \in Statements,
         Receive(c, request, statement)
  PROVE  TypeOK'
  BY DEF TypeOK, Receive, Goto, lifecycleVars

LEMMA RewardsTyped == \A reward \in Rewards : reward \in [Currencies -> Int]
  BY TaskDomainAssumption

(* What is known of the rows a request names. *)
LEMMA NamedRows ==
  ASSUME IInv, NEW c \in Conns
  PROVE  /\ pc[c] \in {"read", "lock", "payLock", "pay"} \cup AssignmentCommands =>
              req[c].op \in AssignmentOps /\ Mine(c) \in Assignments
         /\ pc[c] \in {"templateLock"} \cup TemplateCommands =>
              req[c].op \in TemplateOps /\ req[c].template \in Templates
         /\ pc[c] = "commit" /\ req[c].op \in AssignmentOps \cup {"assign"} =>
              Mine(c) \in Assignments
         /\ pc[c] = "commit" /\ req[c].op \in TemplateOps => req[c].template \in Templates
         /\ pc[c] = "assign" => Mine(c) \in Assignments /\ req[c].child \in Children
  BY DEF IInv, ConnInv, Control, Mine, AssignmentOps, TemplateOps, AssignmentCommands,
     TemplateCommands, DraftOps, ChildOps, ParentOps

LEMMA ArriveTypes ==
  ASSUME TypeOK, NEW c \in Conns, Arrive(c) PROVE TypeOK'
<1> USE DEF Statements
<1>1. ASSUME NEW p \in Parents, NEW t \in Templates, NEW reward \in Rewards,
             ReceiveCreate(c, p, t, reward) \/ ReceiveUpdate(c, p, t, reward)
      PROVE  TypeOK'
  <2>1. /\ [NoRequest EXCEPT !.op = "create", !.actor = p, !.template = t,
                             !.reward = reward] \in Requests
        /\ [NoRequest EXCEPT !.op = "update", !.actor = p, !.template = t,
                             !.reward = reward] \in Requests
    BY RewardsTyped DEF NoRequest, Requests, Ops, DraftOps
  <2> QED
    BY <1>1, <2>1, ReceiveTypes DEF ReceiveCreate, ReceiveUpdate
<1>2. ASSUME NEW p \in Parents, NEW t \in Templates,
             ReceivePublish(c, p, t) \/ ReceiveArchive(c, p, t)
      PROVE  TypeOK'
  <2>1. \A op \in DraftOps :
          [NoRequest EXCEPT !.op = op, !.actor = p, !.template = t] \in Requests
    BY EmptyTypes DEF Requests, Ops
  <2> QED
    BY <1>2, <2>1, ReceiveTypes DEF ReceivePublish, ReceiveArchive, DraftOps
<1>3. ASSUME NEW p \in Parents, NEW t \in Templates, NEW child \in Children,
             NEW a \in Assignments, ReceiveAssign(c, p, t, child, a)
      PROVE  TypeOK'
  <2>1. [NoRequest EXCEPT !.op = "assign", !.actor = p, !.template = t,
                          !.child = child, !.assignment = a] \in Requests
    BY EmptyTypes DEF Requests, Ops
  <2> QED
    BY <1>3, <2>1, ReceiveTypes DEF ReceiveAssign
<1>4. ASSUME NEW actor \in Parents \cup Children, NEW a \in Assignments,
             NEW op \in ParentOps \cup ChildOps,
             ReceiveDecision(c, op, actor, a) \/ ReceiveChildOp(c, op, actor, a)
      PROVE  TypeOK'
  <2>1. [NoRequest EXCEPT !.op = op, !.actor = actor, !.assignment = a] \in Requests
    BY EmptyTypes DEF Requests, Ops
  <2> QED
    BY <1>4, <2>1, ReceiveTypes DEF ReceiveDecision, ReceiveChildOp
<1> QED
  BY <1>1, <1>2, <1>3, <1>4 DEF Arrive

LEMMA LockingTypes ==
  ASSUME IInv, NEW c \in Conns, Locking(c) PROVE TypeOK'
<1>1. TypeOK
  BY DEF IInv
<1>2. CASE LockAssignment(c)
  <2>1. Mine(c) \in Assignments
    BY <1>2, NamedRows DEF LockAssignment
  <2>2. /\ assignment[Mine(c)] \in AssignmentRows
        /\ assignment[Mine(c)].version \in Nat
    BY <1>1, <2>1 DEF TypeOK, AssignmentRows
  <2>3. [tx[c] EXCEPT !.base = assignment[Mine(c)].version, !.row = assignment[Mine(c)]]
          \in Transactions
    BY <1>1, <2>2 DEF TypeOK, Transactions
  <2>4. FirstCommand(c) \in Statements
    BY DEF FirstCommand, ChildOps, Statements
  <2> QED
    BY <1>1, <1>2, <2>1, <2>3, <2>4 DEF TypeOK, LockAssignment, Goto, lifecycleVars
<1>3. CASE LockPaidTemplate(c)
  <2> DEFINE t == tx[c].row.template
  <2>1. /\ pc[c] = "payLock" /\ Mine(c) \in Assignments /\ HoldsAssignment(c)
    BY <1>3, NamedRows DEF LockPaidTemplate, IInv, ConnInv, Control, HoldsAssignment,
       AssignmentOps, AssignmentCommands, ParentOps, ChildOps, DraftOps
  <2>2. /\ assignment[Mine(c)].status # "ABSENT"
        /\ tx[c].row = Completed(assignment[Mine(c)])
    BY <2>1 DEF IInv, ConnInv, AssignmentCopy
  <2>3. t \in Templates
    BY <1>1, <2>1, <2>2, DecidedAssignment DEF IInv, DataInv, AssignedFromPublished, TypeOK
  <2>4. [tx[c] EXCEPT !.draft = template[t]] \in Transactions
    BY <1>1, <2>3 DEF TypeOK, Transactions
  <2> QED
    BY <1>1, <1>3, <2>3, <2>4 DEF TypeOK, LockPaidTemplate, Goto, lifecycleVars, Statements
<1>4. CASE LockTemplate(c)
  <2> DEFINE t == req[c].template
  <2>1. t \in Templates /\ req[c].op \in Statements
    BY <1>4, NamedRows DEF LockTemplate, IInv, ConnInv, Control, Statements, DraftOps, ChildOps,
       ParentOps
  <2>2. [tx[c] EXCEPT !.draft = template[t]] \in Transactions
    BY <1>1, <2>1 DEF TypeOK, Transactions
  <2> QED
    BY <1>1, <1>4, <2>1, <2>2 DEF TypeOK, LockTemplate, Goto, lifecycleVars
<1> QED
  BY <1>2, <1>3, <1>4 DEF Locking

LEMMA HandleTypes ==
  ASSUME IInv, NEW c \in Conns, Handle(c) \/ Crash(c) PROVE TypeOK'
<1>1. TypeOK /\ RowTypes /\ ControlTypes
  BY TypeOKSplit DEF IInv
<1>2. /\ tx[c].row \in AssignmentRows /\ tx[c].draft \in TemplateRows
      /\ tx[c].pays \in [Currencies -> Nat]
      /\ req[c].reward \in [Currencies -> Int]
  BY <1>1 DEF ControlTypes, Transactions, Requests
<1>0. RowTypes' /\ ControlTypes' => TypeOK'
  BY DEF TypeOK, RowTypes, ControlTypes
<1>3. CASE End(c) /\ UNCHANGED lifecycleVars
  <2>1. RowTypes'
    BY <1>1, <1>3 DEF RowTypes, lifecycleVars
  <2> QED
    BY <1>0, <1>1, <1>3, <2>1, EndTypes
<1>4. CASE ReadInScope(c)
  <2>1. Mine(c) \in Assignments
    BY <1>4, NamedRows DEF ReadInScope
  <2>2. [tx[c] EXCEPT !.seen = assignment[Mine(c)]] \in Transactions
    BY <1>1, <2>1 DEF RowTypes, ControlTypes, Transactions
  <2> QED
    BY <1>1, <1>4, <2>2 DEF TypeOK, ReadInScope, Goto, Private, lifecycleVars, Statements
<1>5. CASE StartStep(c) \/ SubmitStep(c) \/ BeginStep(c) \/ VerifyStep(c) \/ CompleteStep(c)
  <2>1. \A s \in AssignmentStatuses : Advance(tx[c].row, s) \in AssignmentRows
    BY <1>2, AdvancedAssignment
  <2> QED
    BY <1>1, <1>5, <2>1, WriteTypes
       DEF StartStep, SubmitStep, BeginStep, VerifyStep, CompleteStep, AssignmentStatuses,
           Statements
<1>6. CASE PayReward(c)
  <2>1. [k \in Currencies |-> IF ledger[Mine(c)][k].rows = 0 THEN tx[c].draft.reward[k] ELSE 0]
          \in [Currencies -> Nat]
    BY <1>2 DEF TemplateRows
  <2>2. tx' \in [Conns -> Transactions]
    BY <1>1, <1>6, <2>1 DEF ControlTypes, Transactions, PayReward
  <2> QED
    BY <1>1, <1>6, <2>2 DEF TypeOK, PayReward, Goto, Private, lifecycleVars, Statements
<1>7. CASE CreateStep(c) \/ UpdateStep(c) \/ PublishStep(c) \/ ArchiveStep(c)
  <2>1. /\ Advance(tx[c].draft, "ACTIVE") \in TemplateRows
        /\ Advance(tx[c].draft, "ARCHIVED") \in TemplateRows
    BY <1>2, AdvancedTemplate DEF TemplateStatuses
  <2>2. CreateStep(c) => NewTemplate(req[c].reward) \in TemplateRows
    BY <1>2, EditedTemplate
       DEF CreateStep, TemplateCommandAllowed, CreateTemplateAllowed
  <2>3. UpdateStep(c) => UpdatedTemplate(tx[c].draft, req[c].reward) \in TemplateRows
    BY <1>2, EditedTemplate
       DEF UpdateStep, TemplateCommandAllowed, UpdateTemplateAllowed
  <2> QED
    BY <1>1, <1>7, <2>1, <2>2, <2>3, WriteDraftTypes
       DEF CreateStep, UpdateStep, PublishStep, ArchiveStep
<1>8. CASE AssignStep(c)
  <2>1. NewAssignment(req[c].template, req[c].child) \in AssignmentRows
    BY <1>8, NamedRows DEF AssignStep, TemplateCommands, NewAssignment, AssignmentRows,
       AssignmentStatuses
  <2> QED
    BY <1>1, <1>8, <2>1, WriteTypes DEF AssignStep, Statements
<1>9. CASE CommitTemplate(c)
  <2>1. RowTypes'
    BY <1>1, <1>2, <1>9 DEF CommitTemplate, SetTemplate, RowTypes
  <2> QED
    BY <1>0, <1>1, <1>9, <2>1, EndTypes DEF CommitTemplate
<1>10. CASE CommitAssign(c) \/ CommitChildOp(c)
  <2>1. Mine(c) \in Assignments
    BY <1>10, NamedRows DEF CommitAssign, CommitChildOp, AssignmentOps
  <2>2. completions[Mine(c)] + 1 \in Nat
    BY <1>1, <2>1 DEF RowTypes
  <2>3. RowTypes'
    BY <1>1, <1>2, <1>10, <2>2 DEF CommitAssign, CommitChildOp, SetAssignment, RowTypes
  <2> QED
    BY <1>0, <1>1, <1>10, <2>3, EndTypes DEF CommitAssign, CommitChildOp
<1>11. CASE CommitDecision(c)
  <2>1. Mine(c) \in Assignments
    BY <1>11, NamedRows DEF CommitDecision, AssignmentOps
  <2>2. ASSUME NEW k \in Currencies
        PROVE  Posted(ledger[Mine(c)][k], tx[c].pays[k]) \in [rows : Nat, amount : Nat]
    <3>1. /\ ledger[Mine(c)][k] \in [rows : Nat, amount : Nat]
          /\ tx[c].pays[k] \in Nat
      BY <1>1, <1>2, <2>1 DEF RowTypes
    <3> QED
      BY <3>1 DEF Posted
  <2>3. ledger' \in [Assignments -> [Currencies -> [rows : Nat, amount : Nat]]]
    BY <1>1, <1>11, <2>2 DEF CommitDecision, RowTypes
  <2>4. RowTypes'
    BY <1>1, <1>2, <1>11, <2>3 DEF CommitDecision, SetAssignment, RowTypes
  <2> QED
    BY <1>0, <1>1, <1>11, <2>4, EndTypes DEF CommitDecision
<1> QED
  BY <1>3, <1>4, <1>5, <1>6, <1>7, <1>8, <1>9, <1>10, <1>11
     DEF Handle, ReadReplay, ReadDenied, TemplateMissing, PublishReplay, Refuse, Crash

(* A step of the system is a step of one connection or of a parent's membership. *)
RequestStep(c) == Arrive(c) \/ Locking(c) \/ Handle(c) \/ Crash(c)

LEMMA TypesKept ==
  ASSUME IInv, [RequestsNext]_vars PROVE TypeOK'
<1>1. TypeOK
  BY DEF IInv
<1>2. ASSUME NEW c \in Conns, RequestStep(c) PROVE TypeOK'
  BY <1>1, <1>2, ArriveTypes, LockingTypes, HandleTypes DEF RequestStep
<1>3. ASSUME NEW p \in Parents, SetMember(p) PROVE TypeOK'
  BY <1>1, <1>3 DEF TypeOK, SetMember, lifecycleVars
<1>4. CASE UNCHANGED vars
  BY <1>1, <1>4 DEF TypeOK, vars
<1> QED
  BY <1>2, <1>3, <1>4 DEF RequestsNext, RequestStep

-----------------------------------------------------------------------------
(* A commit is one step of the atomic lifecycle; nothing else changes a row. *)

LEMMA CommitTemplateIsAtomic ==
  ASSUME IInv, NEW c \in Conns, CommitTemplate(c) PROVE Next
<1> DEFINE t == req[c].template
           reward == req[c].reward
           row == tx[c].draft
<1>1. /\ pc[c] = "commit" /\ req[c].op \in {"create", "update", "publish", "archive"}
      /\ SetTemplate(t, row)
  BY DEF CommitTemplate, DraftOps
<1>2. /\ t \in Templates
      /\ req[c].op \in {"create", "update"} => reward \in Rewards
  BY <1>1 DEF IInv, ConnInv, Control, TemplateOps, DraftOps
<1>3. CASE req[c].op = "create"
  <2>1. template[t].status = "ABSENT" /\ CreateTemplateAllowed(reward) /\ row = NewTemplate(reward)
    BY <1>1, <1>3 DEF IInv, ConnInv, Pending
  <2> QED
    BY <1>1, <1>2, <1>3, <2>1 DEF CreateTemplate, Next
<1>4. CASE req[c].op \in {"update", "publish", "archive"}
  <2>1. HoldsTemplate(c) /\ HeldTemplate(c) = t
    BY <1>1, <1>4 DEF HoldsTemplate, HeldTemplate, DraftOps
  <2>2. \/ /\ req[c].op = "update" /\ UpdateTemplateAllowed(template[t], reward)
           /\ row = UpdatedTemplate(template[t], reward)
        \/ /\ req[c].op = "publish" /\ PublishTemplateAllowed(template[t])
           /\ row = Advance(template[t], "ACTIVE")
        \/ /\ req[c].op = "archive" /\ ArchiveTemplateAllowed(template[t])
           /\ row = Advance(template[t], "ARCHIVED")
    BY <1>1, <1>4, <2>1 DEF IInv, ConnInv, TemplateCopy
  <2> QED
    BY <1>1, <1>2, <2>2 DEF UpdateTemplate, PublishTemplate, ArchiveTemplate, Next
<1> QED
  BY <1>1, <1>3, <1>4

LEMMA CommitAssignIsAtomic ==
  ASSUME IInv, NEW c \in Conns, CommitAssign(c) PROVE Next
<1>1. /\ pc[c] = "commit" /\ req[c].op = "assign"
      /\ SetAssignment(Mine(c), tx[c].row)
      /\ UNCHANGED <<completions, ledger>>
  BY DEF CommitAssign
<1>2. /\ req[c].template \in Templates /\ Mine(c) \in Assignments /\ req[c].child \in Children
      /\ assignment[Mine(c)].status = "ABSENT"
      /\ HoldsTemplate(c) /\ HeldTemplate(c) = req[c].template
  BY <1>1 DEF IInv, ConnInv, Control, Pending, TemplateOps, HoldsTemplate, HeldTemplate, Mine
<1>3. /\ AssignTaskAllowed(template[req[c].template])
      /\ tx[c].row = NewAssignment(req[c].template, req[c].child)
  BY <1>1, <1>2 DEF IInv, ConnInv, TemplateCopy
<1> QED
  BY <1>1, <1>2, <1>3 DEF AssignTask, Next

LEMMA CommitChildOpIsAtomic ==
  ASSUME IInv, NEW c \in Conns, CommitChildOp(c) PROVE Next
<1> DEFINE old == assignment[Mine(c)]
<1>1. /\ pc[c] = "commit" /\ req[c].op \in {"start", "submit"}
      /\ SetAssignment(Mine(c), tx[c].row) /\ UNCHANGED ledger
      /\ completions' = IF req[c].op = "submit"
                          THEN [completions EXCEPT ![Mine(c)] = completions[Mine(c)] + 1]
                          ELSE completions
  BY DEF CommitChildOp, ChildOps
<1>2. Mine(c) \in Assignments /\ HoldsAssignment(c)
  BY <1>1, NamedRows DEF HoldsAssignment, AssignmentOps, ChildOps
<1>3. \/ /\ req[c].op = "start" /\ StartTaskAllowed(old, old.child)
         /\ tx[c].row = Advance(old, "IN_PROGRESS")
      \/ /\ req[c].op = "submit" /\ SubmitTaskAllowed(old, old.child)
         /\ tx[c].row = Advance(old, "SUBMITTED")
  BY <1>1, <1>2 DEF IInv, ConnInv, AssignmentCopy
<1> QED
  BY <1>1, <1>2, <1>3 DEF StartTask, SubmitTask, Next

LEMMA CommitDecisionIsAtomic ==
  ASSUME IInv, NEW c \in Conns, CommitDecision(c) PROVE Next
<1> DEFINE a == Mine(c)
           old == assignment[Mine(c)]
<1>1. /\ pc[c] = "commit" /\ req[c].op \in {"approve", "reject"}
      /\ SetAssignment(a, tx[c].row) /\ UNCHANGED completions
      /\ ledger' = [ledger EXCEPT ![a] =
                      [k \in Currencies |-> Posted(ledger[a][k], tx[c].pays[k])]]
  BY DEF CommitDecision, ParentOps
<1>2. a \in Assignments /\ HoldsAssignment(c)
  BY <1>1, NamedRows DEF HoldsAssignment, AssignmentOps, ParentOps
<1>3. /\ old.status = "SUBMITTED"
      /\ req[c].op = "reject" => tx[c].row = Rejected(old)
      /\ req[c].op = "approve" => tx[c].row = Completed(old)
  BY <1>1, <1>2 DEF IInv, ConnInv, AssignmentCopy
<1>4. ledger \in [Assignments -> [Currencies -> [rows : Nat, amount : Nat]]] /\ ledger[a] = Unpaid
  BY <1>2, <1>3 DEF IInv, TypeOK, DataInv, LedgerMatchesCompletion
<1>5. CASE req[c].op = "reject"
  <2>1. \A k \in Currencies : tx[c].pays[k] = 0
    BY <1>5 DEF IInv, ConnInv, Pending
  <2>2. [k \in Currencies |-> Posted(ledger[a][k], tx[c].pays[k])] = ledger[a]
    BY <1>4, <2>1 DEF Posted, Unpaid
  <2>3. ledger' = ledger
    BY <1>1, <1>2, <1>4, <2>2
  <2> QED
    BY <1>1, <1>2, <1>3, <1>5, <2>3 DEF RejectTask, Next
<1>6. CASE req[c].op = "approve"
  <2>1. HoldsTemplate(c) /\ HeldTemplate(c) = old.template
    BY <1>1, <1>6 DEF HoldsTemplate, HeldTemplate
  <2>2. tx[c].pays = template[old.template].reward
    BY <1>1, <1>6, <2>1 DEF IInv, ConnInv, TemplateCopy
  <2>3. template[old.template].reward \in [Currencies -> Nat]
    BY <1>2, <1>3 DEF IInv, TypeOK, TemplateRows, DataInv, AssignedFromPublished
  <2>4. ASSUME NEW k \in Currencies
        PROVE  Posted(ledger[a][k], tx[c].pays[k]) = Paid(template[old.template].reward)[k]
    BY <1>4, <2>2, <2>3 DEF Posted, Unpaid, Paid, NoEntries, OneEntry
  <2>5. [k \in Currencies |-> Posted(ledger[a][k], tx[c].pays[k])]
          = Paid(template[old.template].reward)
    BY <2>4 DEF Paid
  <2> QED
    BY <1>1, <1>2, <1>3, <1>6, <2>5 DEF ApproveTask, Next
<1> QED
  BY <1>1, <1>5, <1>6

LEMMA StepIsPrivateOrCommit ==
  ASSUME NEW c \in Conns, RequestStep(c)
  PROVE  \/ UNCHANGED lifecycleVars
         \/ CommitTemplate(c) \/ CommitAssign(c) \/ CommitChildOp(c) \/ CommitDecision(c)
<1>1. CASE Arrive(c)
  BY <1>1 DEF Arrive, ReceiveCreate, ReceiveUpdate, ReceivePublish, ReceiveArchive,
     ReceiveAssign, ReceiveDecision, ReceiveChildOp, Receive
<1>2. CASE Locking(c)
  BY <1>2 DEF Locking, LockAssignment, LockPaidTemplate, LockTemplate
<1>3. CASE StartStep(c) \/ SubmitStep(c) \/ BeginStep(c) \/ VerifyStep(c) \/ CompleteStep(c)
             \/ CreateStep(c) \/ UpdateStep(c) \/ PublishStep(c) \/ ArchiveStep(c)
             \/ AssignStep(c) \/ PayReward(c) \/ ReadInScope(c)
  BY <1>3 DEF StartStep, SubmitStep, BeginStep, VerifyStep, CompleteStep, CreateStep,
     UpdateStep, PublishStep, ArchiveStep, AssignStep, PayReward, ReadInScope, Write,
     WriteDraft, Private
<1>4. CASE ReadReplay(c) \/ ReadDenied(c) \/ TemplateMissing(c) \/ PublishReplay(c)
             \/ Refuse(c) \/ Crash(c)
  BY <1>4 DEF ReadReplay, ReadDenied, TemplateMissing, PublishReplay, Refuse, Crash
<1> QED
  BY <1>1, <1>2, <1>3, <1>4 DEF RequestStep, Handle

LEMMA StepIsAtomic ==
  ASSUME IInv, [RequestsNext]_vars PROVE [Next]_lifecycleVars
<1>1. ASSUME NEW c \in Conns, RequestStep(c) PROVE [Next]_lifecycleVars
  BY <1>1, StepIsPrivateOrCommit, CommitTemplateIsAtomic, CommitAssignIsAtomic,
     CommitChildOpIsAtomic, CommitDecisionIsAtomic
<1>2. ASSUME NEW p \in Parents, SetMember(p) PROVE UNCHANGED lifecycleVars
  BY <1>2 DEF SetMember
<1>3. CASE UNCHANGED vars
  BY <1>3 DEF vars, lifecycleVars
<1> QED
  BY <1>1, <1>2, <1>3 DEF RequestsNext, RequestStep

LEMMA DataKept ==
  ASSUME IInv, [RequestsNext]_vars PROVE DataInv'
  BY StepIsAtomic, LifecycleKeepsData, TypeOKSplit DEF IInv

-----------------------------------------------------------------------------
(* One connection's step leaves alone what the others rely on. *)

Keeps(d) ==
  /\ pc'[d] = pc[d] /\ req'[d] = req[d] /\ tx'[d] = tx[d]
  /\ pc[d] = "lock" => assignment'[Mine(d)].status # "ABSENT"
  /\ \A a \in Assignments : assignmentLock[a] = d => assignmentLock'[a] = d
  /\ \A t \in Templates : templateLock[t] = d => templateLock'[t] = d
  /\ HoldsAssignment(d) => assignment'[Mine(d)] = assignment[Mine(d)]
  /\ HoldsTemplate(d) => template'[HeldTemplate(d)] = template[HeldTemplate(d)]
  /\ req[d].op = "create" /\ pc[d] # "idle" =>
       template'[req[d].template].status = template[req[d].template].status
  /\ req[d].op = "assign" /\ pc[d] # "idle" =>
       assignment'[Mine(d)].status = assignment[Mine(d)].status

(* The rows a lock of d protects exist. *)
LEMMA HeldRows ==
  ASSUME IInv, NEW d \in Conns
  PROVE  /\ HoldsAssignment(d) =>
              /\ Mine(d) \in Assignments
              /\ assignmentLock[Mine(d)] = d
              /\ assignment[Mine(d)].status # "ABSENT"
         /\ HoldsTemplate(d) =>
              /\ HeldTemplate(d) \in Templates
              /\ templateLock[HeldTemplate(d)] = d
              /\ template[HeldTemplate(d)].status # "ABSENT"
<1>1. HoldsAssignment(d) => Mine(d) \in Assignments /\ assignment[Mine(d)].status # "ABSENT"
  BY NamedRows DEF IInv, ConnInv, AssignmentCopy, HoldsAssignment, AssignmentOps, AssignmentCommands
<1>2. HoldsTemplate(d) => HeldTemplate(d) \in Templates
  <2>1. CASE HoldsTemplate(d) /\ req[d].op = "approve"
    <3>1. HoldsAssignment(d)
      BY <2>1 DEF HoldsTemplate, HoldsAssignment, AssignmentOps, ParentOps, ChildOps, DraftOps
    <3> QED
      BY <1>1, <2>1, <3>1 DEF IInv, DataInv, AssignedFromPublished, HeldTemplate
  <2>2. CASE HoldsTemplate(d) /\ req[d].op # "approve"
    BY <2>2 DEF IInv, ConnInv, Control, HoldsTemplate, HeldTemplate, TemplateOps, DraftOps
  <2> QED
    BY <2>1, <2>2
<1> QED
  BY <1>1, <1>2 DEF IInv, ConnInv, Locks, TemplateCopy

LEMMA KeepsConnInv ==
  ASSUME IInv, NEW d \in Conns, Keeps(d) PROVE ConnInv(d)'
<1>1. ConnInv(d)
  BY DEF IInv
<1>2. /\ HoldsAssignment(d)' <=> HoldsAssignment(d)
      /\ HoldsTemplate(d)' <=> HoldsTemplate(d)
      /\ Mine(d)' = Mine(d)
  BY DEF Keeps, HoldsAssignment, HoldsTemplate, Mine
<1>3. HoldsTemplate(d) /\ req[d].op = "approve" => HoldsAssignment(d)
  BY DEF HoldsTemplate, HoldsAssignment, AssignmentOps, ParentOps, ChildOps, DraftOps
<1>4. HoldsTemplate(d) => HeldTemplate(d)' = HeldTemplate(d)
  BY <1>2, <1>3 DEF Keeps, HeldTemplate
<1>5. Control(d)'
  BY <1>1 DEF ConnInv, Control, Keeps
<1>6. Locks(d)'
  BY <1>1, <1>2, <1>4, HeldRows DEF ConnInv, Locks, Keeps
<1>7. AssignmentCopy(d)'
  BY <1>1, <1>2 DEF ConnInv, AssignmentCopy, Keeps
<1>8. TemplateCopy(d)'
  BY <1>1, <1>2, <1>4 DEF ConnInv, TemplateCopy, Keeps
<1>9. Pending(d)'
  BY <1>1 DEF ConnInv, Pending, Keeps, Mine
<1> QED
  BY <1>5, <1>6, <1>7, <1>8, <1>9 DEF ConnInv

(* A step moves one connection, and takes nobody else's lock away. *)
LEMMA StepIsLocal ==
  ASSUME IInv, NEW c \in Conns, RequestStep(c), NEW d \in Conns, d # c
  PROVE  /\ pc'[d] = pc[d] /\ req'[d] = req[d] /\ tx'[d] = tx[d]
         /\ \A a \in Assignments : assignmentLock[a] = d => assignmentLock'[a] = d
         /\ \A t \in Templates : templateLock[t] = d => templateLock'[t] = d
<1> USE DEF ControlTypes
<1>1. ControlTypes /\ d # None
  BY TypeOKSplit, TaskRequestsAssumption DEF IInv
<1>2. CASE Arrive(c)
  BY <1>1, <1>2 DEF Arrive, ReceiveCreate, ReceiveUpdate, ReceivePublish, ReceiveArchive,
     ReceiveAssign, ReceiveDecision, ReceiveChildOp, Receive, Goto
<1>3. CASE Locking(c)
  <2>1. CASE LockAssignment(c)
    BY <1>1, <2>1 DEF LockAssignment, Goto
  <2>2. CASE LockPaidTemplate(c)
    BY <1>1, <2>2 DEF LockPaidTemplate, Goto
  <2>3. CASE LockTemplate(c)
    BY <1>1, <2>3 DEF LockTemplate, Goto
  <2> QED
    BY <1>3, <2>1, <2>2, <2>3 DEF Locking
<1>4. CASE StartStep(c) \/ SubmitStep(c) \/ BeginStep(c) \/ VerifyStep(c) \/ CompleteStep(c)
             \/ AssignStep(c)
  BY <1>1, <1>4 DEF StartStep, SubmitStep, BeginStep, VerifyStep, CompleteStep, AssignStep,
     Write, Goto, Private
<1>5. CASE CreateStep(c) \/ UpdateStep(c) \/ PublishStep(c) \/ ArchiveStep(c)
  BY <1>1, <1>5 DEF CreateStep, UpdateStep, PublishStep, ArchiveStep, WriteDraft, Goto, Private
<1>6. CASE PayReward(c) \/ ReadInScope(c)
  BY <1>1, <1>6 DEF PayReward, ReadInScope, Goto, Private
<1>7. CASE End(c)
  BY <1>1, <1>7 DEF End, Goto, Release
<1> QED
  BY <1>2, <1>3, <1>4, <1>5, <1>6, <1>7
     DEF RequestStep, Handle, CommitTemplate, CommitAssign, CommitChildOp, CommitDecision,
         ReadReplay, ReadDenied, TemplateMissing, PublishReplay, Refuse, Crash

(* A commit replaces a row that the connection holds, or that is new. *)
LEMMA OthersKept ==
  ASSUME IInv, NEW c \in Conns, RequestStep(c), NEW d \in Conns, d # c
  PROVE  Keeps(d)
<1>1. ConnInv(c) /\ ConnInv(d)
  BY DEF IInv
<1>2. CASE UNCHANGED lifecycleVars
  BY <1>1, <1>2, StepIsLocal DEF Keeps, lifecycleVars, ConnInv, Pending
<1>3. CASE CommitTemplate(c)
  <2> DEFINE t == req[c].template
  <2>1. /\ t \in Templates /\ pc[c] = "commit" /\ req[c].op \in DraftOps \cup {"create"}
        /\ template' = [template EXCEPT ![t] = tx[c].draft] /\ assignment' = assignment
    BY <1>3, NamedRows DEF CommitTemplate, SetTemplate, TemplateOps
  <2>2. HoldsTemplate(d) => HeldTemplate(d) \in Templates /\ HeldTemplate(d) # t
    <3>1. CASE req[c].op = "create"
      BY <1>1, <2>1, <3>1, HeldRows DEF ConnInv, Pending
    <3>2. CASE req[c].op \in DraftOps
      <4>1. HoldsTemplate(c) /\ HeldTemplate(c) = t
        BY <2>1, <3>2 DEF HoldsTemplate, HeldTemplate, DraftOps
      <4> QED
        BY <4>1, HeldRows
    <3> QED
      BY <2>1, <3>1, <3>2
  <2>3. req[d].op = "create" /\ pc[d] # "idle" => req[d].template # t
    <3>1. CASE req[c].op = "create"
      BY <2>1, <3>1 DEF IInv, FreshIds
    <3>2. CASE req[c].op \in DraftOps
      <4>1. HoldsTemplate(c) /\ HeldTemplate(c) = t
        BY <2>1, <3>2 DEF HoldsTemplate, HeldTemplate, DraftOps
      <4> QED
        BY <1>1, <4>1, HeldRows DEF ConnInv, Pending
    <3> QED
      BY <2>1, <3>1, <3>2
  <2>4. req[d].op = "create" /\ pc[d] # "idle" => req[d].template \in Templates
    BY <1>1 DEF ConnInv, Control, TemplateOps
  <2> QED
    BY <1>1, <2>1, <2>2, <2>3, <2>4, StepIsLocal DEF Keeps, IInv, TypeOK, ConnInv, Pending
<1>4. CASE CommitAssign(c) \/ CommitChildOp(c) \/ CommitDecision(c)
  <2> DEFINE a == Mine(c)
  <2>1. /\ a \in Assignments /\ pc[c] = "commit" /\ req[c].op \in AssignmentOps \cup {"assign"}
        /\ assignment' = [assignment EXCEPT ![a] = tx[c].row] /\ template' = template
    BY <1>4, NamedRows DEF CommitAssign, CommitChildOp, CommitDecision, SetAssignment, AssignmentOps
  <2>2. HoldsAssignment(d) => Mine(d) \in Assignments /\ Mine(d) # a
    <3>1. CASE req[c].op = "assign"
      BY <1>1, <2>1, <3>1, HeldRows DEF ConnInv, Pending, Mine
    <3>2. CASE req[c].op \in AssignmentOps
      BY <2>1, <3>2, HeldRows DEF HoldsAssignment
    <3> QED
      BY <2>1, <3>1, <3>2
  <2>3. req[d].op = "assign" /\ pc[d] # "idle" => Mine(d) # a
    <3>1. CASE req[c].op = "assign"
      BY <2>1, <3>1 DEF IInv, FreshIds, Mine
    <3>2. CASE req[c].op \in AssignmentOps
      BY <1>1, <2>1, <3>2, HeldRows DEF ConnInv, Pending, HoldsAssignment, Mine
    <3> QED
      BY <2>1, <3>1, <3>2
  <2>4. req[d].op = "assign" /\ pc[d] # "idle" => Mine(d) \in Assignments
    BY <1>1 DEF ConnInv, Control, Mine
  <2>5. tx[c].row.status # "ABSENT"
    <3>1. CASE req[c].op = "assign"
      BY <1>1, <2>1, <3>1 DEF ConnInv, TemplateCopy, HoldsTemplate, HeldTemplate, DraftOps,
         NewAssignment
    <3>2. CASE req[c].op \in AssignmentOps
      <4>1. HoldsAssignment(c) /\ assignment[a] \in AssignmentRows
        BY <2>1, <3>2 DEF HoldsAssignment, IInv, TypeOK
      <4> QED
        BY <1>1, <2>1, <4>1, AdvancedAssignment, DecidedAssignment
           DEF ConnInv, AssignmentCopy, AssignmentStatuses
    <3> QED
      BY <2>1, <3>1, <3>2
  <2>6. pc[d] = "lock" => Mine(d) \in Assignments /\ assignment[Mine(d)].status # "ABSENT"
    BY <1>1, NamedRows DEF ConnInv, Pending
  <2> QED
    BY <2>1, <2>2, <2>3, <2>4, <2>5, <2>6, StepIsLocal DEF Keeps, IInv, TypeOK
<1>5. \/ UNCHANGED lifecycleVars
      \/ CommitTemplate(c) \/ CommitAssign(c) \/ CommitChildOp(c) \/ CommitDecision(c)
  BY StepIsPrivateOrCommit
<1> QED
  BY <1>2, <1>3, <1>4, <1>5

-----------------------------------------------------------------------------
(* The connection that moves re-establishes its own invariant. *)

LEMMA EndKeepsOwn ==
  ASSUME ControlTypes, NEW c \in Conns, End(c) PROVE ConnInv(c)'
<1>1. pc'[c] = "idle" /\ req'[c] = NoRequest /\ tx'[c] = NoTransaction
  BY DEF End, Goto, ControlTypes
<1>2. Control(c)' /\ ~HoldsAssignment(c)' /\ ~HoldsTemplate(c)'
  BY <1>1 DEF Control, HoldsAssignment, HoldsTemplate, AssignmentOps, ChildOps, ParentOps,
     DraftOps, NoRequest
<1>3. Pending(c)'
  BY <1>1 DEF Pending, NoRequest, NoTransaction
<1> QED
  BY <1>2, <1>3 DEF ConnInv, Locks, AssignmentCopy, TemplateCopy

LEMMA ArriveKeepsOwn ==
  ASSUME IInv, NEW c \in Conns, Arrive(c) PROVE ConnInv(c)'
<1> USE DEF AssignmentOps, TemplateOps, DraftOps, ChildOps, ParentOps
<1>1. ConnInv(c) /\ ControlTypes
  BY TypeOKSplit DEF IInv
<1>2. ASSUME NEW request, NEW statement,
             Receive(c, request, statement),
             request \in Requests,
             \/ /\ request.op = "create" /\ statement = "create" /\ request.template \in Templates
                /\ request.reward \in Rewards /\ template[request.template].status = "ABSENT"
             \/ /\ request.op \in DraftOps /\ statement = "templateLock"
                /\ request.template \in Templates
                /\ request.op = "update" => request.reward \in Rewards
             \/ /\ request.op = "assign" /\ statement = "templateLock"
                /\ request.template \in Templates /\ request.child \in Children
                /\ request.assignment \in Assignments
                /\ assignment[request.assignment].status = "ABSENT"
             \/ /\ request.op \in ChildOps \cup ParentOps /\ statement = "read"
                /\ request.assignment \in Assignments
      PROVE  ConnInv(c)'
  <2>1. /\ pc[c] = "idle" /\ pc'[c] = statement /\ req'[c] = request /\ tx'[c] = tx[c]
        /\ template' = template /\ assignment' = assignment
    BY <1>1, <1>2 DEF Receive, Goto, ControlTypes, lifecycleVars
  <2>2. Control(c)'
    BY <1>2, <2>1 DEF Control
  <2>3. ~HoldsAssignment(c)' /\ ~HoldsTemplate(c)'
    BY <1>2, <2>1 DEF HoldsAssignment, HoldsTemplate, AssignmentCommands
  <2>4. Pending(c)'
    BY <1>1, <1>2, <2>1 DEF ConnInv, Pending
  <2> QED
    BY <2>2, <2>3, <2>4 DEF ConnInv, Locks, AssignmentCopy, TemplateCopy
<1>3. ASSUME NEW p \in Parents, NEW t \in Templates, NEW reward \in Rewards,
             ReceiveCreate(c, p, t, reward)
      PROVE  ConnInv(c)'
  <2> DEFINE request == [NoRequest EXCEPT !.op = "create", !.actor = p, !.template = t,
                                          !.reward = reward]
  <2>1. /\ request \in Requests /\ request.op = "create" /\ request.template = t
        /\ request.reward = reward
    BY RewardsTyped, EmptyTypes DEF Requests, Ops
  <2> HIDE DEF request
  <2> QED
    BY <1>2, <1>3, <2>1 DEF ReceiveCreate, FreshTemplate, request
<1>4. ASSUME NEW p \in Parents, NEW t \in Templates, NEW reward \in Rewards,
             ReceiveUpdate(c, p, t, reward)
      PROVE  ConnInv(c)'
  <2> DEFINE request == [NoRequest EXCEPT !.op = "update", !.actor = p, !.template = t,
                                          !.reward = reward]
  <2>1. /\ request \in Requests /\ request.op = "update" /\ request.template = t
        /\ request.reward = reward
    BY RewardsTyped, EmptyTypes DEF Requests, Ops
  <2> HIDE DEF request
  <2> QED
    BY <1>2, <1>4, <2>1 DEF ReceiveUpdate, request
<1>5. ASSUME NEW p \in Parents, NEW t \in Templates,
             ReceivePublish(c, p, t) \/ ReceiveArchive(c, p, t)
      PROVE  ConnInv(c)'
  <2> DEFINE request(op) == [NoRequest EXCEPT !.op = op, !.actor = p, !.template = t]
  <2>1. \A op \in {"publish", "archive"} :
          request(op) \in Requests /\ request(op).op = op /\ request(op).template = t
    BY EmptyTypes DEF Requests, Ops
  <2>2. \/ Receive(c, request("publish"), "templateLock")
        \/ Receive(c, request("archive"), "templateLock")
    BY <1>5 DEF ReceivePublish, ReceiveArchive
  <2> HIDE DEF request
  <2> QED
    BY <1>2, <2>1, <2>2
<1>6. ASSUME NEW p \in Parents, NEW t \in Templates, NEW child \in Children,
             NEW a \in Assignments, ReceiveAssign(c, p, t, child, a)
      PROVE  ConnInv(c)'
  <2> DEFINE request == [NoRequest EXCEPT !.op = "assign", !.actor = p, !.template = t,
                                          !.child = child, !.assignment = a]
  <2>1. /\ request \in Requests /\ request.op = "assign" /\ request.template = t
        /\ request.child = child /\ request.assignment = a
    BY EmptyTypes DEF Requests, Ops
  <2> HIDE DEF request
  <2> QED
    BY <1>2, <1>6, <2>1 DEF ReceiveAssign, FreshAssignment, request
<1>7. ASSUME NEW actor \in Parents \cup Children, NEW a \in Assignments,
             NEW op \in ParentOps \cup ChildOps,
             ReceiveDecision(c, op, actor, a) \/ ReceiveChildOp(c, op, actor, a)
      PROVE  ConnInv(c)'
  <2> DEFINE request == [NoRequest EXCEPT !.op = op, !.actor = actor, !.assignment = a]
  <2>1. request \in Requests /\ request.op = op /\ request.assignment = a
    BY EmptyTypes DEF Requests, Ops
  <2>2. Receive(c, request, "read")
    BY <1>7 DEF ReceiveDecision, ReceiveChildOp
  <2> HIDE DEF request
  <2> QED
    BY <1>2, <2>1, <2>2
<1> QED
  BY <1>3, <1>4, <1>5, <1>6, <1>7 DEF Arrive

LEMMA LockingKeepsOwn ==
  ASSUME IInv, NEW c \in Conns, Locking(c) PROVE ConnInv(c)'
<1>1. ConnInv(c) /\ ControlTypes
  BY TypeOKSplit DEF IInv
<1>2. /\ template' = template /\ assignment' = assignment /\ req' = req
  BY DEF Locking, LockAssignment, LockPaidTemplate, LockTemplate, lifecycleVars
<1>3. CASE LockAssignment(c)
  <2> DEFINE old == assignment[Mine(c)]
  <2>1. /\ pc[c] = "lock" /\ pc'[c] = FirstCommand(c)
        /\ tx'[c] = [tx[c] EXCEPT !.base = old.version, !.row = old]
        /\ Mine(c) \in Assignments /\ assignmentLock'[Mine(c)] = c
    BY <1>1, <1>3, NamedRows DEF LockAssignment, ControlTypes, Goto
  <2>2. /\ req[c].op \in AssignmentOps /\ old.status # "ABSENT"
        /\ tx[c].pays = [k \in Currencies |-> 0]
    BY <1>1, <2>1, NamedRows DEF ConnInv, Pending
  <2>3. /\ tx'[c].base = old.version /\ tx'[c].row = old /\ tx'[c].pays = tx[c].pays
    BY <1>1, <2>1 DEF ControlTypes, Transactions
  <2>4. \/ req[c].op \in ChildOps /\ pc'[c] = req[c].op
        \/ req[c].op \in ParentOps /\ pc'[c] \in {"begin", "verify"}
    BY <2>1, <2>2 DEF FirstCommand, AssignmentOps
  <2>5. /\ Control(c)' /\ HoldsAssignment(c)' /\ ~HoldsTemplate(c)' /\ Mine(c)' = Mine(c)
    BY <1>1, <1>2, <2>1, <2>2, <2>4 DEF ConnInv, Control, HoldsAssignment, HoldsTemplate,
       AssignmentCommands, AssignmentOps, TemplateOps, ChildOps, ParentOps, DraftOps, Mine
  <2>6. AssignmentCopy(c)'
    BY <1>2, <2>1, <2>2, <2>3, <2>4, <2>5 DEF AssignmentCopy, ChildOps
  <2>7. Pending(c)'
    BY <1>1, <1>2, <2>2, <2>3, <2>4 DEF Pending, ChildOps, ParentOps
  <2> QED
    BY <2>1, <2>5, <2>6, <2>7 DEF ConnInv, Locks, TemplateCopy
<1>4. CASE LockPaidTemplate(c)
  <2> DEFINE old == assignment[Mine(c)]
             t == tx[c].row.template
  <2>1. /\ pc[c] = "payLock" /\ req[c].op = "approve" /\ Mine(c) \in Assignments
        /\ HoldsAssignment(c)
    BY <1>1, <1>4, NamedRows DEF LockPaidTemplate, ConnInv, Control, HoldsAssignment,
       AssignmentOps, AssignmentCommands, ParentOps, ChildOps, DraftOps
  <2>2. /\ old.status = "SUBMITTED" /\ tx[c].row = Completed(old) /\ tx[c].base = old.version
    BY <1>1, <2>1 DEF ConnInv, AssignmentCopy
  <2>3. t = old.template /\ t \in Templates /\ template[t].status # "ABSENT"
    BY <2>1, <2>2, DecidedAssignment DEF IInv, DataInv, AssignedFromPublished, TypeOK
  <2>4. /\ pc'[c] = "pay" /\ tx'[c] = [tx[c] EXCEPT !.draft = template[t]]
        /\ templateLock'[t] = c /\ assignmentLock' = assignmentLock
    BY <1>1, <1>4, <2>3 DEF LockPaidTemplate, ControlTypes, Goto
  <2>5. /\ tx'[c].draft = template[t] /\ tx'[c].row = tx[c].row
        /\ tx'[c].base = tx[c].base /\ tx'[c].pays = tx[c].pays
    BY <1>1, <2>4 DEF ControlTypes, Transactions
  <2>6. /\ Control(c)' /\ HoldsAssignment(c)' /\ HoldsTemplate(c)' /\ Mine(c)' = Mine(c)
        /\ HeldTemplate(c)' = t
    BY <1>1, <1>2, <2>1, <2>3, <2>4 DEF ConnInv, Control, HoldsAssignment, HoldsTemplate,
       HeldTemplate, AssignmentCommands, AssignmentOps, TemplateOps, ChildOps, ParentOps,
       DraftOps, Mine
  <2>7. Locks(c)'
    BY <1>1, <2>1, <2>4, <2>6 DEF ConnInv, Locks
  <2>8. AssignmentCopy(c)'
    BY <1>2, <2>2, <2>4, <2>5, <2>6 DEF AssignmentCopy
  <2>9. TemplateCopy(c)'
    BY <1>2, <2>3, <2>4, <2>5, <2>6 DEF TemplateCopy
  <2>10. Pending(c)'
    BY <1>1, <1>2, <2>1, <2>4, <2>5 DEF ConnInv, Pending
  <2> QED
    BY <2>6, <2>7, <2>8, <2>9, <2>10 DEF ConnInv
<1>5. CASE LockTemplate(c)
  <2> DEFINE t == req[c].template
  <2>1. /\ pc[c] = "templateLock" /\ req[c].op \in DraftOps \cup {"assign"}
        /\ t \in Templates
    BY <1>1, <1>5, NamedRows DEF LockTemplate, ConnInv, Control, ChildOps, ParentOps, DraftOps
  <2>2. /\ template[t].status # "ABSENT" /\ templateLock'[t] = c
        /\ pc'[c] = req[c].op /\ tx'[c] = [tx[c] EXCEPT !.draft = template[t]]
    BY <1>1, <1>5, <2>1 DEF LockTemplate, ControlTypes, Goto
  <2>3. /\ tx'[c].draft = template[t] /\ tx'[c].pays = tx[c].pays
    BY <1>1, <2>2 DEF ControlTypes, Transactions
  <2>4. /\ Control(c)' /\ ~HoldsAssignment(c)' /\ HoldsTemplate(c)' /\ HeldTemplate(c)' = t
    BY <1>1, <1>2, <2>1, <2>2 DEF ConnInv, Control, HoldsAssignment, HoldsTemplate,
       HeldTemplate, AssignmentOps, TemplateOps, ChildOps, ParentOps, DraftOps
  <2>5. TemplateCopy(c)'
    BY <1>2, <2>1, <2>2, <2>3, <2>4 DEF TemplateCopy, DraftOps
  <2>6. Pending(c)'
    BY <1>1, <1>2, <2>1, <2>2, <2>3 DEF ConnInv, Pending, Mine, DraftOps
  <2> QED
    BY <2>2, <2>4, <2>5, <2>6 DEF ConnInv, Locks, AssignmentCopy
<1> QED
  BY <1>3, <1>4, <1>5 DEF Locking

(* A command on a held assignment leaves the transaction with the next row. *)
LEMMA CommandKeepsOwn ==
  ASSUME IInv, NEW c \in Conns,
         StartStep(c) \/ SubmitStep(c) \/ BeginStep(c) \/ VerifyStep(c) \/ CompleteStep(c)
  PROVE  ConnInv(c)'
<1> DEFINE old == assignment[Mine(c)]
           row == tx[c].row
<1>1. ConnInv(c) /\ ControlTypes
  BY TypeOKSplit DEF IInv
<1>2. /\ pc[c] \in AssignmentCommands /\ AssignmentCommandAllowed(c)
      /\ \E s \in AssignmentStatuses, next \in Statements : Write(c, Advance(row, s), next)
  BY DEF StartStep, SubmitStep, BeginStep, VerifyStep, CompleteStep, Applies,
     AssignmentCommands, AssignmentStatuses, Statements
<1>3. /\ template' = template /\ assignment' = assignment /\ req' = req
      /\ assignmentLock' = assignmentLock /\ templateLock' = templateLock
  BY <1>2 DEF Write, Private, lifecycleVars
<1>4. tx'[c].base = tx[c].base /\ tx'[c].pays = tx[c].pays /\ Mine(c)' = Mine(c)
  BY <1>1, <1>2, <1>3 DEF Write, ControlTypes, Transactions, Mine
<1>5. ASSUME NEW s \in AssignmentStatuses, NEW next \in Statements, Write(c, Advance(row, s), next)
      PROVE  tx'[c].row = Advance(row, s) /\ pc'[c] = next
  BY <1>1, <1>5 DEF Write, Goto, ControlTypes, Transactions
<1>6. /\ Mine(c) \in Assignments /\ HoldsAssignment(c) /\ ~HoldsTemplate(c)
      /\ old \in AssignmentRows /\ old.status # "VERIFYING"
  BY <1>2, NamedRows DEF HoldsAssignment, HoldsTemplate, AssignmentOps, AssignmentCommands,
     DraftOps, ChildOps, ParentOps, IInv, TypeOK, DataInv, VersionCountsHistory, VersionCounts
<1>7. /\ old.status # "ABSENT" /\ tx[c].base = old.version
      /\ assignmentLock[Mine(c)] = c /\ tx[c].pays = [k \in Currencies |-> 0]
  BY <1>1, <1>2, <1>6 DEF ConnInv, AssignmentCopy, Locks, Pending, AssignmentCommands
<1>8. ASSUME /\ Control(c)' /\ HoldsAssignment(c)' /\ AssignmentCopy(c)'
             /\ \/ pc'[c] \in {"verify", "complete", "payLock"}
                \/ pc'[c] = "commit" /\ req[c].op \in {"start", "submit", "reject"}
      PROVE  ConnInv(c)'
  <2>1. ~HoldsTemplate(c)'
    BY <1>3, <1>8 DEF HoldsTemplate, DraftOps
  <2>2. Pending(c)'
    BY <1>1, <1>3, <1>4, <1>6, <1>7, <1>8
       DEF Pending, HoldsAssignment, AssignmentOps, ChildOps, ParentOps
  <2> QED
    BY <1>3, <1>4, <1>7, <1>8, <2>1, <2>2 DEF ConnInv, Locks, TemplateCopy
<1> USE DEF AssignmentOps, TemplateOps, DraftOps, ChildOps, ParentOps
<1>9. CASE StartStep(c)
  <2>1. /\ pc[c] = "start" /\ req[c].op = "start" /\ StartTaskAllowed(row, req[c].actor)
        /\ row = old
    BY <1>1, <1>2, <1>6, <1>9 DEF StartStep, Applies, ConnInv, Control, AssignmentCopy,
       AssignmentCommandAllowed
  <2>2. pc'[c] = "commit" /\ tx'[c].row = Advance(row, "IN_PROGRESS")
    BY <1>5, <1>9 DEF StartStep, AssignmentStatuses, Statements
  <2>3. StartTaskAllowed(old, old.child)
    BY <2>1 DEF StartTaskAllowed
  <2>4. Control(c)' /\ HoldsAssignment(c)'
    BY <1>1, <1>3, <2>1, <2>2 DEF ConnInv, Control, HoldsAssignment
  <2>5. AssignmentCopy(c)'
    BY <1>3, <1>4, <1>7, <2>1, <2>2, <2>3 DEF AssignmentCopy
  <2> QED
    BY <1>8, <2>1, <2>2, <2>4, <2>5
<1>10. CASE SubmitStep(c)
  <2>1. /\ pc[c] = "submit" /\ req[c].op = "submit" /\ SubmitTaskAllowed(row, req[c].actor)
        /\ row = old
    BY <1>1, <1>2, <1>6, <1>10 DEF SubmitStep, Applies, ConnInv, Control, AssignmentCopy,
       AssignmentCommandAllowed
  <2>2. pc'[c] = "commit" /\ tx'[c].row = Advance(row, "SUBMITTED")
    BY <1>5, <1>10 DEF SubmitStep, AssignmentStatuses, Statements
  <2>3. SubmitTaskAllowed(old, old.child)
    BY <2>1 DEF SubmitTaskAllowed
  <2>4. Control(c)' /\ HoldsAssignment(c)'
    BY <1>1, <1>3, <2>1, <2>2 DEF ConnInv, Control, HoldsAssignment
  <2>5. AssignmentCopy(c)'
    BY <1>3, <1>4, <1>7, <2>1, <2>2, <2>3 DEF AssignmentCopy
  <2> QED
    BY <1>8, <2>1, <2>2, <2>4, <2>5
<1>11. CASE BeginStep(c)
  <2>1. /\ pc[c] = "begin" /\ req[c].op \in ParentOps /\ row = old /\ old.status = "SUBMITTED"
    BY <1>1, <1>2, <1>6, <1>11 DEF BeginStep, Applies, ConnInv, Control, AssignmentCopy,
       AssignmentCommandAllowed, BeginVerificationAllowed, IsValidTaskAssignmentTransition
  <2>2. pc'[c] = "verify" /\ tx'[c].row = Verifying(old)
    <3>1. pc'[c] = "verify" /\ tx'[c].row = Advance(row, "VERIFYING")
      BY <1>5, <1>11 DEF BeginStep, AssignmentStatuses, Statements
    <3> QED
      BY <2>1, <3>1 DEF Verifying
  <2>3. Control(c)' /\ HoldsAssignment(c)'
    BY <1>1, <1>3, <2>1, <2>2 DEF ConnInv, Control, HoldsAssignment, AssignmentCommands
  <2>4. AssignmentCopy(c)'
    BY <1>3, <1>4, <1>7, <2>1, <2>2 DEF AssignmentCopy
  <2> QED
    BY <1>8, <2>2, <2>3, <2>4
<1>12. CASE VerifyStep(c)
  <2>1. /\ pc[c] = "verify" /\ req[c].op \in ParentOps /\ row.status = "VERIFYING"
    BY <1>1, <1>2, <1>6, <1>12 DEF VerifyStep, Applies, ConnInv, Control,
       AssignmentCommandAllowed, VerifyTaskAllowed
  <2>2. row = Verifying(old) /\ old.status = "SUBMITTED"
    BY <1>1, <1>6, <2>1 DEF ConnInv, AssignmentCopy
  <2>3. \/ req[c].op = "approve" /\ pc'[c] = "complete" /\ tx'[c].row = Approved(old)
        \/ req[c].op = "reject" /\ pc'[c] = "commit" /\ tx'[c].row = Rejected(old)
    <3>1. \/ /\ req[c].op = "approve" /\ pc'[c] = "complete"
             /\ tx'[c].row = Advance(row, "APPROVED")
          \/ /\ req[c].op = "reject" /\ pc'[c] = "commit"
             /\ tx'[c].row = Advance(row, "REJECTED")
      BY <1>5, <1>12, <2>1 DEF VerifyStep, AssignmentStatuses, Statements
    <3> QED
      BY <2>2, <3>1 DEF Approved, Rejected
  <2>4. Control(c)' /\ HoldsAssignment(c)'
    BY <1>1, <1>3, <2>1, <2>3 DEF ConnInv, Control, HoldsAssignment, AssignmentCommands
  <2>5. AssignmentCopy(c)'
    BY <1>3, <1>4, <1>7, <2>2, <2>3 DEF AssignmentCopy
  <2> QED
    BY <1>8, <2>3, <2>4, <2>5
<1>13. CASE CompleteStep(c)
  <2>1. /\ pc[c] = "complete" /\ req[c].op = "approve" /\ row = Approved(old)
        /\ old.status = "SUBMITTED"
    BY <1>1, <1>6, <1>13 DEF CompleteStep, Applies, ConnInv, Control, AssignmentCopy
  <2>2. pc'[c] = "payLock" /\ tx'[c].row = Completed(old)
    <3>1. pc'[c] = "payLock" /\ tx'[c].row = Advance(row, "COMPLETED")
      BY <1>5, <1>13 DEF CompleteStep, AssignmentStatuses, Statements
    <3> QED
      BY <2>1, <3>1 DEF Completed
  <2>3. Control(c)' /\ HoldsAssignment(c)'
    BY <1>1, <1>3, <2>1, <2>2 DEF ConnInv, Control, HoldsAssignment
  <2>4. AssignmentCopy(c)'
    BY <1>3, <1>4, <1>7, <2>1, <2>2 DEF AssignmentCopy
  <2> QED
    BY <1>8, <2>2, <2>3, <2>4
<1> QED
  BY <1>9, <1>10, <1>11, <1>12, <1>13

(* A template command, and the INSERT of an assignment. *)
LEMMA TemplateCommandKeepsOwn ==
  ASSUME IInv, NEW c \in Conns,
         CreateStep(c) \/ UpdateStep(c) \/ PublishStep(c) \/ ArchiveStep(c) \/ AssignStep(c)
  PROVE  ConnInv(c)'
<1> USE DEF AssignmentOps, TemplateOps, DraftOps, ChildOps, ParentOps
<1> DEFINE t == req[c].template
           old == template[t]
<1>1. ConnInv(c) /\ ControlTypes
  BY TypeOKSplit DEF IInv
<1>2. /\ pc[c] \in TemplateCommands /\ req[c].op = pc[c] /\ TemplateCommandAllowed(c)
      /\ t \in Templates
  BY <1>1, NamedRows DEF CreateStep, UpdateStep, PublishStep, ArchiveStep, AssignStep,
     TemplateCommands, ConnInv, Control
<1>3. /\ template' = template /\ assignment' = assignment /\ req' = req
      /\ assignmentLock' = assignmentLock /\ templateLock' = templateLock
      /\ pc'[c] = "commit"
  BY <1>1 DEF CreateStep, UpdateStep, PublishStep, ArchiveStep, AssignStep, Write, WriteDraft,
     Private, Goto, lifecycleVars, ControlTypes
<1>4. tx'[c].pays = tx[c].pays /\ tx[c].pays = [k \in Currencies |-> 0]
  BY <1>1, <1>2 DEF CreateStep, UpdateStep, PublishStep, ArchiveStep, AssignStep, Write,
     WriteDraft, ControlTypes, Transactions, ConnInv, Pending, TemplateCommands
<1>5. Control(c)' /\ ~HoldsAssignment(c)'
  BY <1>1, <1>2, <1>3 DEF ConnInv, Control, HoldsAssignment, TemplateCommands
<1>6. ASSUME NEW row, WriteDraft(c, row) PROVE tx'[c].draft = row
  BY <1>1, <1>6 DEF WriteDraft, ControlTypes, Transactions
<1>7. CASE CreateStep(c)
  <2>1. /\ req[c].op = "create" /\ CreateTemplateAllowed(req[c].reward)
        /\ tx'[c].draft = NewTemplate(req[c].reward)
    BY <1>2, <1>6, <1>7 DEF CreateStep, TemplateCommandAllowed
  <2>2. Pending(c)' /\ ~HoldsTemplate(c)'
    BY <1>1, <1>2, <1>3, <1>4, <2>1 DEF ConnInv, Pending, HoldsTemplate, TemplateCommands
  <2> QED
    BY <1>5, <2>2 DEF ConnInv, Locks, AssignmentCopy, TemplateCopy
<1>8. CASE UpdateStep(c) \/ PublishStep(c) \/ ArchiveStep(c) \/ AssignStep(c)
  <2>1. req[c].op \in {"update", "publish", "archive", "assign"}
    BY <1>2, <1>8 DEF UpdateStep, PublishStep, ArchiveStep, AssignStep
  <2>2. /\ HoldsTemplate(c) /\ HoldsTemplate(c)' /\ HeldTemplate(c) = t /\ HeldTemplate(c)' = t
        /\ pc[c] = req[c].op
    BY <1>2, <1>3, <2>1 DEF HoldsTemplate, HeldTemplate
  <2>3. templateLock[t] = c /\ old.status # "ABSENT" /\ tx[c].draft = old
    BY <1>1, <2>1, <2>2 DEF ConnInv, Locks, TemplateCopy
  <2>4. \/ /\ req[c].op = "update" /\ UpdateTemplateAllowed(old, req[c].reward)
           /\ tx'[c].draft = UpdatedTemplate(old, req[c].reward)
        \/ /\ req[c].op = "publish" /\ PublishTemplateAllowed(old)
           /\ tx'[c].draft = Advance(old, "ACTIVE")
        \/ /\ req[c].op = "archive" /\ ArchiveTemplateAllowed(old)
           /\ tx'[c].draft = Advance(old, "ARCHIVED")
        \/ req[c].op = "assign"
    BY <1>2, <1>6, <1>8, <2>2, <2>3 DEF UpdateStep, PublishStep, ArchiveStep, AssignStep,
       TemplateCommandAllowed
  <2>5. req[c].op = "assign" =>
          AssignTaskAllowed(old) /\ tx'[c].row = NewAssignment(t, req[c].child)
    BY <1>1, <1>2, <1>8, <2>2, <2>3 DEF UpdateStep, PublishStep, ArchiveStep, AssignStep,
       TemplateCommandAllowed, Write, ControlTypes, Transactions
  <2>6. TemplateCopy(c)'
    BY <1>3, <2>2, <2>3, <2>4, <2>5 DEF TemplateCopy
  <2>7. Pending(c)'
    BY <1>1, <1>3, <1>4, <2>1, <2>2 DEF ConnInv, Pending
  <2> QED
    BY <1>3, <1>5, <2>2, <2>3, <2>6, <2>7 DEF ConnInv, Locks, AssignmentCopy
<1> QED
  BY <1>7, <1>8

LEMMA PayKeepsOwn ==
  ASSUME IInv, NEW c \in Conns, PayReward(c) PROVE ConnInv(c)'
<1> USE DEF AssignmentOps, TemplateOps, DraftOps, ChildOps, ParentOps
<1> DEFINE a == Mine(c)
           old == assignment[Mine(c)]
           pays == [k \in Currencies |-> IF ledger[a][k].rows = 0
                                          THEN tx[c].draft.reward[k] ELSE 0]
<1>1. ConnInv(c) /\ ControlTypes
  BY TypeOKSplit DEF IInv
<1>2. /\ pc[c] = "pay" /\ req[c].op = "approve" /\ a \in Assignments
      /\ HoldsAssignment(c) /\ HoldsTemplate(c) /\ HeldTemplate(c) = old.template
  BY <1>1, NamedRows DEF PayReward, ConnInv, Control, HoldsAssignment, HoldsTemplate, HeldTemplate
<1>3. /\ template' = template /\ assignment' = assignment /\ req' = req
      /\ assignmentLock' = assignmentLock /\ templateLock' = templateLock
      /\ pc'[c] = "commit" /\ tx' = [tx EXCEPT ![c].pays = pays]
  BY <1>1 DEF PayReward, Private, Goto, lifecycleVars, ControlTypes
<1>4. /\ tx'[c].pays = pays /\ tx'[c].row = tx[c].row /\ tx'[c].base = tx[c].base
      /\ tx'[c].draft = tx[c].draft
  BY <1>1, <1>3 DEF ControlTypes, Transactions
<1>5. /\ old.status = "SUBMITTED" /\ tx[c].row = Completed(old) /\ tx[c].base = old.version
      /\ tx[c].draft = template[old.template] /\ template[old.template].status # "ABSENT"
  BY <1>1, <1>2 DEF ConnInv, AssignmentCopy, TemplateCopy
<1>6. ledger[a] = Unpaid
  BY <1>2, <1>5 DEF IInv, DataInv, LedgerMatchesCompletion
<1>7. template[old.template].reward \in [Currencies -> Nat]
  BY <1>2, <1>5 DEF IInv, TypeOK, TemplateRows, DataInv, AssignedFromPublished
<1>8. pays = template[old.template].reward
  BY <1>5, <1>6, <1>7 DEF Unpaid, NoEntries
<1>9. /\ Control(c)' /\ HoldsAssignment(c)' /\ HoldsTemplate(c)' /\ Mine(c)' = Mine(c)
      /\ HeldTemplate(c)' = old.template
  BY <1>1, <1>2, <1>3 DEF ConnInv, Control, HoldsAssignment, HoldsTemplate, HeldTemplate, Mine
<1>10. Locks(c)'
  BY <1>1, <1>2, <1>3, <1>9 DEF ConnInv, Locks
<1>11. AssignmentCopy(c)'
  BY <1>2, <1>3, <1>4, <1>5, <1>9 DEF AssignmentCopy
<1>12. TemplateCopy(c)'
  BY <1>2, <1>3, <1>4, <1>5, <1>8, <1>9 DEF TemplateCopy
<1>13. Pending(c)'
  BY <1>2, <1>3 DEF Pending
<1> QED
  BY <1>9, <1>10, <1>11, <1>12, <1>13 DEF ConnInv

LEMMA ReadKeepsOwn ==
  ASSUME IInv, NEW c \in Conns, ReadInScope(c) PROVE ConnInv(c)'
<1> USE DEF AssignmentOps, TemplateOps, DraftOps, ChildOps, ParentOps
<1>1. ConnInv(c) /\ ControlTypes
  BY TypeOKSplit DEF IInv
<1>2. /\ pc[c] = "read" /\ pc'[c] = "lock" /\ req[c].op \in ChildOps \cup ParentOps
      /\ template' = template /\ assignment' = assignment /\ req' = req
      /\ tx'[c].pays = tx[c].pays /\ Mine(c)' = Mine(c)
      /\ assignment[Mine(c)].status # "ABSENT"
  BY <1>1, NamedRows DEF ReadInScope, InScope, Goto, Private, lifecycleVars, ControlTypes,
     Transactions, Mine
<1>3. Control(c)' /\ ~HoldsAssignment(c)' /\ ~HoldsTemplate(c)'
  BY <1>1, <1>2 DEF ConnInv, Control, HoldsAssignment, HoldsTemplate, AssignmentCommands
<1>4. Pending(c)'
  BY <1>1, <1>2 DEF ConnInv, Pending
<1> QED
  BY <1>3, <1>4 DEF ConnInv, Locks, AssignmentCopy, TemplateCopy

LEMMA OwnKept ==
  ASSUME IInv, NEW c \in Conns, RequestStep(c) PROVE ConnInv(c)'
<1>1. ControlTypes
  BY TypeOKSplit DEF IInv
<1>2. CASE End(c)
  BY <1>1, <1>2, EndKeepsOwn
<1> QED
  BY <1>2, ArriveKeepsOwn, LockingKeepsOwn, CommandKeepsOwn, TemplateCommandKeepsOwn,
     PayKeepsOwn, ReadKeepsOwn
     DEF RequestStep, Handle, CommitTemplate, CommitAssign, CommitChildOp, CommitDecision,
         ReadReplay, ReadDenied, TemplateMissing, PublishReplay, Refuse, Crash

(* Only the arrival of a create or an assign can bring a new id. *)
LEMMA FreshIdsKept ==
  ASSUME IInv, NEW c \in Conns, RequestStep(c) PROVE FreshIds'
<1>1. ControlTypes
  BY TypeOKSplit DEF IInv
<1> DEFINE Apart(x, y) ==
      /\ x.op = "create" /\ y.op = "create" => x.template # y.template
      /\ x.op = "assign" /\ y.op = "assign" => x.assignment # y.assignment
<1>2. ASSUME NEW d \in Conns, d # c, pc[d] # "idle", pc'[c] # "idle"
      PROVE  Apart(req'[c], req[d]) /\ Apart(req[d], req'[c])
  <2>1. CASE Arrive(c)
    <3>1. ASSUME NEW p \in Parents, NEW t \in Templates, NEW reward \in Rewards,
                 ReceiveCreate(c, p, t, reward)
          PROVE  Apart(req'[c], req[d]) /\ Apart(req[d], req'[c])
      BY <1>1, <1>2, <3>1, EmptyTypes DEF ReceiveCreate, Receive, FreshTemplate, ControlTypes,
         Requests
    <3>2. ASSUME NEW p \in Parents, NEW t \in Templates, NEW child \in Children,
                 NEW a \in Assignments, ReceiveAssign(c, p, t, child, a)
          PROVE  Apart(req'[c], req[d]) /\ Apart(req[d], req'[c])
      BY <1>1, <1>2, <3>2, EmptyTypes DEF ReceiveAssign, Receive, FreshAssignment, ControlTypes,
         Requests
    <3>3. ASSUME NEW p \in Parents, NEW t \in Templates, NEW reward \in Rewards,
                 \/ ReceiveUpdate(c, p, t, reward) \/ ReceivePublish(c, p, t)
                 \/ ReceiveArchive(c, p, t)
          PROVE  req'[c].op \in DraftOps
      BY <1>1, <3>3, EmptyTypes DEF ReceiveUpdate, ReceivePublish, ReceiveArchive, Receive,
         ControlTypes, Requests, DraftOps
    <3>4. ASSUME NEW p \in Parents, NEW t \in Templates,
                 \/ ReceivePublish(c, p, t) \/ ReceiveArchive(c, p, t)
          PROVE  req'[c].op \in DraftOps
      BY <1>1, <3>4, EmptyTypes DEF ReceivePublish, ReceiveArchive, Receive,
         ControlTypes, Requests, DraftOps
    <3>5. ASSUME NEW actor \in Parents \cup Children, NEW a \in Assignments,
                 NEW op \in ParentOps \cup ChildOps,
                 ReceiveDecision(c, op, actor, a) \/ ReceiveChildOp(c, op, actor, a)
          PROVE  req'[c].op \in ParentOps \cup ChildOps
      <4>1. req'[c] = [NoRequest EXCEPT !.op = op, !.actor = actor, !.assignment = a]
        BY <1>1, <3>5 DEF ReceiveDecision, ReceiveChildOp, Receive, ControlTypes
      <4>2. [NoRequest EXCEPT !.op = op, !.actor = actor, !.assignment = a].op = op
        BY EmptyTypes DEF Requests
      <4> QED
        BY <4>1, <4>2
    <3> QED
      BY <2>1, <3>1, <3>2, <3>3, <3>4, <3>5 DEF Arrive, DraftOps, ParentOps, ChildOps
  <2>2. CASE ~Arrive(c)
    <3>1. \/ End(c)
          \/ req' = req /\ pc[c] # "idle"
      BY <2>2 DEF RequestStep, Locking, LockAssignment, LockPaidTemplate, LockTemplate, Handle,
         StartStep, SubmitStep, BeginStep, VerifyStep, CompleteStep, Applies, CreateStep,
         UpdateStep, PublishStep, ArchiveStep, AssignStep, Write, WriteDraft, Private,
         PayReward, ReadInScope, CommitTemplate, CommitAssign, CommitChildOp, CommitDecision,
         ReadReplay, ReadDenied, TemplateMissing, PublishReplay, Refuse, Crash
    <3>2. ~End(c)
      BY <1>1, <1>2 DEF End, Goto, ControlTypes
    <3> QED
      BY <1>2, <3>1, <3>2 DEF IInv, FreshIds
  <2> QED
    BY <2>1, <2>2
<1>3. ASSUME NEW d \in Conns, NEW e \in Conns, d # e, pc'[d] # "idle", pc'[e] # "idle"
      PROVE  Apart(req'[d], req'[e])
  <2>1. \A f \in Conns : f # c => pc'[f] = pc[f] /\ req'[f] = req[f]
    BY StepIsLocal
  <2>2. CASE d # c /\ e # c
    BY <1>3, <2>1, <2>2 DEF IInv, FreshIds
  <2>3. CASE d = c \/ e = c
    BY <1>2, <1>3, <2>1, <2>3
  <2> QED
    BY <2>2, <2>3
<1> QED
  BY <1>3 DEF FreshIds

LEMMA InvKept ==
  ASSUME IInv, [RequestsNext]_vars PROVE IInv'
<1>1. TypeOK' /\ DataInv'
  BY TypesKept, DataKept
<1>2. ASSUME NEW c \in Conns, RequestStep(c) PROVE FreshIds' /\ \A d \in Conns : ConnInv(d)'
  BY <1>2, FreshIdsKept, OwnKept, OthersKept, KeepsConnInv
<1>3. CASE (\E p \in Parents : SetMember(p)) \/ UNCHANGED vars
  <2>1. UNCHANGED <<template, assignment, templateLock, assignmentLock, pc, req, tx>>
    BY <1>3 DEF SetMember, vars, lifecycleVars
  <2>2. FreshIds'
    BY <2>1 DEF IInv, FreshIds
  <2>3. ASSUME NEW d \in Conns PROVE Keeps(d)
    BY <2>1 DEF Keeps, IInv, ConnInv, Pending
  <2> QED
    BY <1>1, <2>2, <2>3, KeepsConnInv DEF IInv
<1> QED
  BY <1>1, <1>2, <1>3 DEF IInv, RequestsNext, RequestStep

-----------------------------------------------------------------------------
(* The inductive invariant holds in every reachable state. *)
THEOREM Invariance == RequestsSpec => []IInv
<1>1. RequestsInit => IInv
  BY InitInv
<1>2. IInv /\ [RequestsNext]_vars => IInv'
  BY InvKept
<1> QED
  BY <1>1, <1>2, PTL DEF RequestsSpec

(* Every variable keeps its type: committed rows never hold an unlisted      *)
(* status or a negative reward.                                              *)
THEOREM TypeCorrect == RequestsSpec => []TypeOK
<1>1. IInv => TypeOK
  BY DEF IInv
<1> QED
  BY <1>1, Invariance, PTL

(* A completed assignment is paid exactly once, what its template pays, and  *)
(* no other assignment is paid, whatever the requests in flight.             *)
THEOREM PaidExactlyOnce == RequestsSpec => []LedgerMatchesCompletion
<1>1. IInv => LedgerMatchesCompletion
  BY DEF IInv, DataInv
<1> QED
  BY <1>1, Invariance, PTL

(* A committed version counts the transitions made: none is lost or doubled. *)
THEOREM NoLostTransition == RequestsSpec => []VersionCountsHistory
<1>1. IInv => VersionCountsHistory
  BY DEF IInv, DataInv
<1> QED
  BY <1>1, Invariance, PTL

(* Under the row locks the version check of an UPDATE never fails. *)
THEOREM VersionChecksSucceed == RequestsSpec => []NoVersionConflict
<1>1. IInv => NoVersionConflict
  <2> SUFFICES ASSUME IInv, NEW c \in Conns
               PROVE  /\ pc[c] \in AssignmentCommands => AssignmentUnchanged(c)
                      /\ pc[c] \in DraftOps => TemplateUnchanged(c)
    BY DEF NoVersionConflict
  <2>1. ConnInv(c)
    BY DEF IInv
  <2>2. pc[c] \in AssignmentCommands => HoldsAssignment(c)
    BY NamedRows DEF HoldsAssignment
  <2>3. pc[c] \in DraftOps => HoldsTemplate(c) /\ HeldTemplate(c) = req[c].template
    BY <2>1 DEF ConnInv, Control, HoldsTemplate, HeldTemplate, DraftOps, ChildOps, ParentOps
  <2> QED
    BY <2>1, <2>2, <2>3 DEF ConnInv, AssignmentCopy, TemplateCopy, AssignmentUnchanged,
       TemplateUnchanged
<1> QED
  BY <1>1, Invariance, PTL

(* Every request takes effect at once or not at all: the transactions        *)
(* implement the atomic lifecycle.                                           *)
THEOREM RequestsAreAtomic == RequestsSpec => AtomicLifecycle
<1>1. RequestsInit => Lifecycle!Init
  BY DEF RequestsInit, Init, Lifecycle!Init, Unpaid, Lifecycle!Unpaid, NoEntries,
     Lifecycle!NoEntries, AbsentTemplate, Lifecycle!AbsentTemplate, AbsentAssignment,
     Lifecycle!AbsentAssignment, Currencies, Lifecycle!Currencies
<1>2. IInv /\ [RequestsNext]_vars => [Lifecycle!Next]_(Lifecycle!lifecycleVars)
  BY StepIsAtomic
     DEF Next, lifecycleVars, CreateTemplate, UpdateTemplate, PublishTemplate,
         ArchiveTemplate, AssignTask, StartTask, SubmitTask, RejectTask, ApproveTask,
         SetTemplate, SetAssignment, CreateTemplateAllowed, UpdateTemplateAllowed,
         PublishTemplateAllowed, ArchiveTemplateAllowed, AssignTaskAllowed,
         StartTaskAllowed, SubmitTaskAllowed, IsValidTaskTemplateTransition,
         IsValidTaskAssignmentTransition, Advance, NewTemplate, UpdatedTemplate,
         NewAssignment, NonNegative, Verifying, Rejected, Approved, Completed, Paid,
         NoEntries, OneEntry, Currencies, Lifecycle!Next, Lifecycle!lifecycleVars,
         Lifecycle!CreateTemplate, Lifecycle!UpdateTemplate,
         Lifecycle!PublishTemplate, Lifecycle!ArchiveTemplate, Lifecycle!AssignTask,
         Lifecycle!StartTask, Lifecycle!SubmitTask, Lifecycle!RejectTask,
         Lifecycle!ApproveTask, Lifecycle!SetTemplate, Lifecycle!SetAssignment,
         Lifecycle!CreateTemplateAllowed, Lifecycle!UpdateTemplateAllowed,
         Lifecycle!PublishTemplateAllowed, Lifecycle!ArchiveTemplateAllowed,
         Lifecycle!AssignTaskAllowed, Lifecycle!StartTaskAllowed,
         Lifecycle!SubmitTaskAllowed, Lifecycle!IsValidTaskTemplateTransition,
         Lifecycle!IsValidTaskAssignmentTransition, Lifecycle!Advance,
         Lifecycle!NewTemplate, Lifecycle!UpdatedTemplate, Lifecycle!NewAssignment,
         Lifecycle!NonNegative, Lifecycle!Verifying, Lifecycle!Rejected,
         Lifecycle!Approved, Lifecycle!Completed, Lifecycle!Paid, Lifecycle!NoEntries,
         Lifecycle!OneEntry, Lifecycle!Currencies
<1> QED
  BY <1>1, <1>2, Invariance, PTL DEF RequestsSpec, AtomicLifecycle, Lifecycle!Spec

-----------------------------------------------------------------------------
(* No circle of waiting transactions. *)

(* Whose COMMIT or ROLLBACK a SELECT ... FOR UPDATE waits for.               *)
WaitsFor(c, d) ==
  \/ pc[c] = "lock" /\ assignmentLock[Mine(c)] = d
  \/ pc[c] = "payLock" /\ templateLock[tx[c].row.template] = d
  \/ pc[c] = "templateLock" /\ templateLock[req[c].template] = d

NoDeadlock ==
  \A S \in SUBSET Conns : (\A c \in S : \E d \in S : WaitsFor(c, d)) => S = {}

(* An assignment's row is locked before a template's, and the holder of a    *)
(* template's waits for nobody.                                              *)
LockOrder ==
  /\ \A a \in Assignments, c \in Conns :
       assignmentLock[a] = c => pc[c] \in AssignmentCommands \cup {"payLock", "pay", "commit"}
  /\ \A t \in Templates, c \in Conns :
       templateLock[t] = c => pc[c] \in DraftOps \cup {"assign", "pay", "commit"}

(* A connection keeps to the order if it takes no lock and stays past the    *)
(* statements that locked the rows it holds.                                 *)
LEMMA OrderStays ==
  ASSUME IInv, LockOrder, NEW c \in Conns, NEW next, Goto(c, next),
         UNCHANGED <<templateLock, assignmentLock>>,
         \/ pc[c] \in {"idle", "read"}
         \/ pc[c] \in AssignmentCommands \cup {"payLock"}
            /\ next \in AssignmentCommands \cup {"payLock", "commit"}
         \/ pc[c] \in {"create", "update", "publish", "archive", "assign", "pay"}
            /\ next = "commit"
  PROVE  LockOrder'
<1>1. pc \in [Conns -> Statements]  BY DEF IInv, TypeOK
<1>2. pc'[c] = next /\ \A d \in Conns : d # c => pc'[d] = pc[d]
  BY <1>1 DEF Goto
<1> QED  BY <1>2 DEF LockOrder, AssignmentCommands, DraftOps

LEMMA EndKeepsOrder ==
  ASSUME IInv, LockOrder, NEW c \in Conns, End(c)
  PROVE  LockOrder'
<1>1. /\ pc \in [Conns -> Statements] /\ templateLock \in [Templates -> Conns \cup {None}]
      /\ assignmentLock \in [Assignments -> Conns \cup {None}] /\ None \notin Conns
  BY TaskRequestsAssumption DEF IInv, TypeOK
<1>2. \A d \in Conns : d # c => pc'[d] = pc[d]
  BY <1>1 DEF End, Goto
<1>3. /\ \A a \in Assignments, d \in Conns :
           assignmentLock'[a] = d => d # c /\ assignmentLock[a] = d
      /\ \A t \in Templates, d \in Conns :
           templateLock'[t] = d => d # c /\ templateLock[t] = d
  BY <1>1 DEF End, Release
<1> QED  BY <1>2, <1>3 DEF LockOrder

LEMMA LockingKeepsOrder ==
  ASSUME IInv, LockOrder, NEW c \in Conns, Locking(c)
  PROVE  LockOrder'
<1>1. /\ pc \in [Conns -> Statements] /\ templateLock \in [Templates -> Conns \cup {None}]
      /\ assignmentLock \in [Assignments -> Conns \cup {None}]
  BY DEF IInv, TypeOK
<1>2. Control(c)  BY DEF IInv, ConnInv
<1>3. CASE LockAssignment(c)
  <2>1. FirstCommand(c) \in AssignmentCommands
    BY <1>2, <1>3 DEF LockAssignment, Control, FirstCommand, AssignmentCommands, ChildOps,
                      DraftOps, ParentOps
  <2>2. pc'[c] = FirstCommand(c) /\ \A d \in Conns : d # c => pc'[d] = pc[d]
    BY <1>1, <1>3 DEF LockAssignment, Goto
  <2>3. \A t \in Templates : templateLock[t] # c
    BY <1>3 DEF LockAssignment, LockOrder, DraftOps
  <2>4. templateLock' = templateLock
        /\ \A a \in Assignments, d \in Conns :
             assignmentLock'[a] = d => assignmentLock[a] = d \/ d = c
    BY <1>1, <1>3 DEF LockAssignment
  <2> QED  BY <2>1, <2>2, <2>3, <2>4 DEF LockOrder
<1>4. CASE LockPaidTemplate(c)
  <2>1. pc'[c] = "pay" /\ \A d \in Conns : d # c => pc'[d] = pc[d]
    BY <1>1, <1>4 DEF LockPaidTemplate, Goto
  <2>2. /\ assignmentLock' = assignmentLock
        /\ \A t \in Templates, d \in Conns :
             templateLock'[t] = d => templateLock[t] = d \/ d = c
    BY <1>1, <1>4 DEF LockPaidTemplate
  <2> QED  BY <2>1, <2>2 DEF LockOrder
<1>5. CASE LockTemplate(c)
  <2>1. req[c].op \in DraftOps \cup {"assign"}
    BY <1>2, <1>5 DEF LockTemplate, Control, ChildOps, DraftOps, ParentOps
  <2>2. pc'[c] = req[c].op /\ \A d \in Conns : d # c => pc'[d] = pc[d]
    BY <1>1, <1>5 DEF LockTemplate, Goto
  <2>3. \A a \in Assignments : assignmentLock[a] # c
    BY <1>5 DEF LockTemplate, LockOrder, AssignmentCommands
  <2>4. /\ assignmentLock' = assignmentLock
        /\ \A t \in Templates, d \in Conns :
             templateLock'[t] = d => templateLock[t] = d \/ d = c
    BY <1>1, <1>5 DEF LockTemplate
  <2> QED  BY <2>1, <2>2, <2>3, <2>4 DEF LockOrder
<1> QED  BY <1>3, <1>4, <1>5 DEF Locking

LEMMA OrderKept ==
  ASSUME IInv, LockOrder, [RequestsNext]_vars
  PROVE  LockOrder'
<1>1. ASSUME NEW c \in Conns, RequestStep(c) PROVE LockOrder'
  <2>1. CASE Arrive(c)
    <3>1. PICK request, statement : Receive(c, request, statement)
      BY <2>1 DEF Arrive, ReceiveCreate, ReceiveUpdate, ReceivePublish, ReceiveArchive,
                  ReceiveAssign, ReceiveDecision, ReceiveChildOp
    <3> QED  BY <3>1, OrderStays DEF Receive
  <2>2. CASE Locking(c)  BY <2>2, LockingKeepsOrder
  <2>3. CASE StartStep(c) \/ SubmitStep(c) \/ BeginStep(c) \/ VerifyStep(c) \/ CompleteStep(c)
    BY <2>3, OrderStays
       DEF StartStep, SubmitStep, BeginStep, VerifyStep, CompleteStep, Applies, Write, Private,
           AssignmentCommands
  <2>4. CASE CreateStep(c) \/ UpdateStep(c) \/ PublishStep(c) \/ ArchiveStep(c)
             \/ AssignStep(c) \/ PayReward(c)
    BY <2>4, OrderStays
       DEF CreateStep, UpdateStep, PublishStep, ArchiveStep, AssignStep, PayReward, Write,
           WriteDraft, Private
  <2>5. CASE ReadInScope(c)  BY <2>5, OrderStays DEF ReadInScope, Private
  <2>6. CASE End(c)  BY <2>6, EndKeepsOrder
  <2> QED
    BY <1>1, <2>1, <2>2, <2>3, <2>4, <2>5, <2>6
       DEF RequestStep, Handle, CommitTemplate, CommitAssign, CommitChildOp, CommitDecision,
           ReadReplay, ReadDenied, TemplateMissing, PublishReplay, Refuse, Crash
<1>2. CASE (\E p \in Parents : SetMember(p)) \/ UNCHANGED vars
  BY <1>2 DEF SetMember, vars, LockOrder
<1> QED  BY <1>1, <1>2 DEF RequestsNext, RequestStep

LEMMA NoCircle ==
  ASSUME IInv, LockOrder
  PROVE  NoDeadlock
<1> SUFFICES ASSUME NEW S \in SUBSET Conns, \A c \in S : \E d \in S : WaitsFor(c, d),
                    NEW c \in S
             PROVE  FALSE
  BY DEF NoDeadlock
<1>2. ASSUME NEW b \in Conns PROVE Control(b) /\ AssignmentCopy(b)
  BY DEF IInv, ConnInv
<1>3. ASSUME NEW b \in S, NEW d \in S, WaitsFor(b, d), pc[b] # "lock" PROVE FALSE
  <2>1. \E t \in Templates : templateLock[t] = d
    <3>1. CASE pc[b] = "templateLock"
      <4>1. req[b].template \in Templates
        BY <1>2, <3>1 DEF Control, TemplateOps, ChildOps, DraftOps, ParentOps
      <4> QED  BY <1>3, <3>1, <4>1 DEF WaitsFor
    <3>2. CASE pc[b] = "payLock"
      <4>1. HoldsAssignment(b) /\ Mine(b) \in Assignments
        BY <1>2, <3>2 DEF Control, HoldsAssignment, Mine, AssignmentOps, ChildOps, DraftOps,
                          ParentOps
      <4>2. /\ assignment[Mine(b)].status # "ABSENT"
            /\ tx[b].row = Completed(assignment[Mine(b)])
        BY <1>2, <3>2, <4>1 DEF AssignmentCopy
      <4>3. assignment[Mine(b)] \in AssignmentRows
        BY <4>1 DEF IInv, TypeOK
      <4>4. tx[b].row.template = assignment[Mine(b)].template
        BY <4>2, <4>3 DEF Completed, Approved, Verifying, Advance, AssignmentRows
      <4>5. tx[b].row.template \in Templates
        BY <4>1, <4>2, <4>4 DEF IInv, DataInv, AssignedFromPublished
      <4> QED  BY <1>3, <3>2, <4>5 DEF WaitsFor
    <3> QED  BY <1>3, <3>1, <3>2 DEF WaitsFor
  <2>2. pc[d] \notin {"lock", "payLock", "templateLock"}
    BY <2>1 DEF LockOrder, DraftOps
  <2> QED  BY <2>2 DEF WaitsFor
<1>4. PICK d \in S : WaitsFor(c, d)  OBVIOUS
<1>5. pc[c] = "lock" /\ assignmentLock[Mine(c)] = d
  BY <1>3, <1>4 DEF WaitsFor
<1>6. Mine(c) \in Assignments
  BY <1>2, <1>5 DEF Control, Mine, AssignmentOps, ChildOps, DraftOps, ParentOps
<1>7. pc[d] # "lock"  BY <1>5, <1>6 DEF LockOrder, AssignmentCommands
<1> QED  BY <1>3, <1>7

(* For any number of connections, transactions that wait for rows never wait *)
(* in a circle: every handler locks its assignment before the template, and  *)
(* one row of each (loadTaskAssignment, then the load that grantTaskReward   *)
(* pays by), so PostgreSQL never has to break a deadlock.                    *)
THEOREM NeverStuck == RequestsSpec => []NoDeadlock
<1>1. RequestsInit => LockOrder
  BY TaskRequestsAssumption DEF RequestsInit, LockOrder
<1>2. IInv /\ LockOrder /\ [RequestsNext]_vars => LockOrder'
  BY OrderKept
<1> QED  BY <1>1, <1>2, Invariance, NoCircle, PTL DEF RequestsSpec

=============================================================================
