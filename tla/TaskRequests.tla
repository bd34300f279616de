------------------------------ MODULE TaskRequests ------------------------------
(***************************************************************************)
(* The task endpoints as they run: each HTTP request is one PostgreSQL     *)
(* transaction at READ COMMITTED on a pooled connection (withTransaction), *)
(* and the handlers of task.controller.ts and task-repository.ts issue one *)
(* statement after another, so that requests interleave between any two.   *)
(*                                                                         *)
(* template, assignment, completions and ledger are the committed rows.    *)
(* A transaction's own writes stay in tx[c] until it commits; SELECT ...   *)
(* FOR UPDATE is templateLock and assignmentLock, held to the end of the   *)
(* transaction.  Plain SELECTs read the committed rows and wait for        *)
(* nothing.  A crash of the server or a lost connection is a rollback.     *)
(*                                                                         *)
(* Operators named ...Mutant are deliberate faults: the README says which  *)
(* property each of them breaks.                                           *)
(***************************************************************************)
EXTENDS TaskLifecycle

CONSTANTS
  Conns,              \* connections of the pool
  Parents,            \* parents with a session scoped to the family
  FamilyChildren,     \* the children of the family
  MaxSubmissions,     \* bound: how often one assignment is submitted
  MaxTemplateVersion  \* bound: how far a draft is edited

ASSUME TaskRequestsAssumption ==
  /\ FamilyChildren \subseteq Children
  /\ Parents \cap Children = {}
  /\ None \notin Conns \cup Parents \cup Assignments
  /\ MaxSubmissions \in Nat
  /\ MaxTemplateVersion \in Nat

VARIABLES
  members,         \* parents whose membership is ACTIVE
  templateLock,    \* who holds the row lock of a template, or None
  assignmentLock,  \* who holds the row lock of an assignment, or None
  pc,              \* the statement a connection is at
  req,             \* the request a connection is handling
  tx               \* what its transaction has read and written

vars == <<template, assignment, completions, ledger, members, templateLock,
          assignmentLock, pc, req, tx>>

DraftOps == {"update", "publish", "archive"}
ChildOps == {"start", "submit"}
ParentOps == {"approve", "reject"}
Ops == {"create", "assign"} \cup DraftOps \cup ChildOps \cup ParentOps

(* The statements between which other requests run. *)
Statements ==
  {"idle", "read", "lock", "start", "submit", "begin", "verify", "complete",
   "payLock", "pay", "commit", "templateLock", "update", "publish", "archive",
   "assign", "create"}

Requests ==
  [op : Ops, actor : Parents \cup Children \cup {None}, assignment : Assignments \cup {None},
   template : Templates \cup {None}, child : Children \cup {None},
   reward : [Currencies -> Int]]

(* seen is the row of the plain SELECT at the start of a handler, base the   *)
(* version of the committed row the transaction has locked, row its copy     *)
(* with the transaction's own updates, draft the same for a template, pays   *)
(* the amounts of the ledger entries it has inserted.                        *)
Transactions ==
  [seen : AssignmentRows, base : Nat, row : AssignmentRows, draft : TemplateRows,
   pays : [Currencies -> Nat]]

NoTransaction ==
  [seen |-> AbsentAssignment, base |-> 0, row |-> AbsentAssignment,
   draft |-> AbsentTemplate, pays |-> [k \in Currencies |-> 0]]

NoRequest ==
  [op |-> "create", actor |-> None, assignment |-> None, template |-> None,
   child |-> None, reward |-> [k \in Currencies |-> 0]]

RequestsInit ==
  /\ Init
  /\ members = Parents
  /\ templateLock = [t \in Templates |-> None]
  /\ assignmentLock = [a \in Assignments |-> None]
  /\ pc = [c \in Conns |-> "idle"]
  /\ req = [c \in Conns |-> NoRequest]
  /\ tx = [c \in Conns |-> NoTransaction]

-----------------------------------------------------------------------------
(* Helpers. *)

Goto(c, statement) == pc' = [pc EXCEPT ![c] = statement]

Mine(c) == req[c].assignment

(* requireActiveParentMember: a plain SELECT, true now and maybe not later. *)
IsActiveMember(c) == req[c].actor \in members

(* loadAssignmentInScope: the family's row, and a child's own. *)
InScope(c, row) ==
  /\ row.status # "ABSENT"
  /\ req[c].actor \in Children => row.child = req[c].actor

(* COMMIT and ROLLBACK both drop the row locks; the private copies go too. *)
Release(c) ==
  /\ templateLock' = [t \in Templates |->
                        IF templateLock[t] = c THEN None ELSE templateLock[t]]
  /\ assignmentLock' = [a \in Assignments |->
                          IF assignmentLock[a] = c THEN None ELSE assignmentLock[a]]

EndMutant(c) ==
  /\ Goto(c, "idle")
  /\ tx' = [tx EXCEPT ![c] = NoTransaction]
  /\ req' = [req EXCEPT ![c] = NoRequest]
  /\ UNCHANGED <<members, templateLock, assignmentLock>>

End(c) ==
  /\ Goto(c, "idle")
  /\ Release(c)
  /\ tx' = [tx EXCEPT ![c] = NoTransaction]
  /\ req' = [req EXCEPT ![c] = NoRequest]
  /\ UNCHANGED members

(* UPDATE task_assignments ... WHERE version = expected. *)
AssignmentUnchanged(c) == assignment[Mine(c)].version = tx[c].base

TemplateUnchanged(c) == template[req[c].template].version = tx[c].draft.version

(* A statement that only moves the transaction on. *)
Private(c) ==
  UNCHANGED <<lifecycleVars, members, templateLock, assignmentLock, req>>

Write(c, row, next) ==
  /\ tx' = [tx EXCEPT ![c].row = row]
  /\ Goto(c, next)
  /\ Private(c)

WriteDraft(c, row) ==
  /\ tx' = [tx EXCEPT ![c].draft = row]
  /\ Goto(c, "commit")
  /\ Private(c)

-----------------------------------------------------------------------------
(* A request arrives.  The session guard has resolved the caller in an      *)
(* earlier transaction, so nothing is assumed about membership; a child's   *)
(* session never passes requireParent and is left out of the parents' ops.  *)

Receive(c, request, statement) ==
  /\ pc[c] = "idle"
  /\ req' = [req EXCEPT ![c] = request]
  /\ Goto(c, statement)
  /\ UNCHANGED <<lifecycleVars, members, templateLock, assignmentLock, tx>>

(* randomUUID: an id no row and no other request has. *)
FreshTemplate(t) ==
  template[t].status = "ABSENT" /\ \A d \in Conns : ~(req[d].op = "create" /\ req[d].template = t)

FreshAssignment(a) ==
  assignment[a].status = "ABSENT" /\ \A d \in Conns : ~(req[d].op = "assign" /\ req[d].assignment = a)

ReceiveCreate(c, p, t, reward) ==
  /\ FreshTemplate(t)
  /\ Receive(c, [NoRequest EXCEPT !.op = "create", !.actor = p, !.template = t,
                                  !.reward = reward], "create")

ReceiveUpdate(c, p, t, reward) ==
  /\ template[t].version < MaxTemplateVersion
  /\ Receive(c, [NoRequest EXCEPT !.op = "update", !.actor = p, !.template = t,
                                  !.reward = reward], "templateLock")

ReceivePublish(c, p, t) ==
  Receive(c, [NoRequest EXCEPT !.op = "publish", !.actor = p, !.template = t],
          "templateLock")

ReceiveArchive(c, p, t) ==
  Receive(c, [NoRequest EXCEPT !.op = "archive", !.actor = p, !.template = t],
          "templateLock")

ReceiveAssign(c, p, t, child, a) ==
  /\ FreshAssignment(a)
  /\ Receive(c, [NoRequest EXCEPT !.op = "assign", !.actor = p, !.template = t,
                                  !.child = child, !.assignment = a], "templateLock")

ReceiveChildOp(c, op, actor, a) ==
  /\ op = "submit" => completions[a] < MaxSubmissions
  /\ Receive(c, [NoRequest EXCEPT !.op = op, !.actor = actor, !.assignment = a], "read")

ReceiveDecision(c, op, p, a) ==
  Receive(c, [NoRequest EXCEPT !.op = op, !.actor = p, !.assignment = a], "read")

-----------------------------------------------------------------------------
(* Start, submit, approve, reject: the plain SELECT and what follows it. *)

(* The handlers' replay answers, given on the row of the plain SELECT. *)
IsReplay(c, row) ==
  \/ req[c].op = "start" /\ row.status = "IN_PROGRESS"
  \/ req[c].op = "approve" /\ row.status \in {"APPROVED", "COMPLETED"}
  \/ req[c].op = "reject" /\ row.status = "REJECTED"

ReadInScope(c) ==
  /\ pc[c] = "read"
  /\ InScope(c, assignment[Mine(c)])
  /\ ~IsReplay(c, assignment[Mine(c)])
  /\ tx' = [tx EXCEPT ![c].seen = assignment[Mine(c)]]
  /\ Goto(c, "lock")
  /\ Private(c)

ReadReplay(c) ==
  /\ pc[c] = "read"
  /\ InScope(c, assignment[Mine(c)])
  /\ IsReplay(c, assignment[Mine(c)])
  /\ End(c)
  /\ UNCHANGED lifecycleVars

ReadDenied(c) ==
  /\ pc[c] = "read"
  /\ ~InScope(c, assignment[Mine(c)])
  /\ End(c)
  /\ UNCHANGED lifecycleVars

(* A decision on a row read as SUBMITTED begins with beginVerification; on   *)
(* any other row it goes straight to verifyTask.                             *)
FirstCommand(c) ==
  IF req[c].op \in ChildOps THEN req[c].op
  ELSE IF tx[c].seen.status = "SUBMITTED" THEN "begin" ELSE "verify"

LockAssignmentMutant(c) ==
  /\ pc[c] = "lock"
  /\ tx' = [tx EXCEPT ![c].base = assignment[Mine(c)].version,
                      ![c].row = assignment[Mine(c)]]
  /\ Goto(c, FirstCommand(c))
  /\ UNCHANGED <<lifecycleVars, members, templateLock, assignmentLock, req>>

(* loadTaskAssignment: SELECT ... FOR UPDATE returns the latest commit. *)
LockAssignment(c) ==
  /\ pc[c] = "lock"
  /\ assignmentLock[Mine(c)] = None
  /\ assignmentLock' = [assignmentLock EXCEPT ![Mine(c)] = c]
  /\ tx' = [tx EXCEPT ![c].base = assignment[Mine(c)].version,
                      ![c].row = assignment[Mine(c)]]
  /\ Goto(c, FirstCommand(c))
  /\ UNCHANGED <<lifecycleVars, members, templateLock, req>>

(* When the command at pc[c] does not throw. *)
AssignmentCommandAllowed(c) ==
  CASE pc[c] = "start"    -> StartTaskAllowed(tx[c].row, req[c].actor)
    [] pc[c] = "submit"   -> SubmitTaskAllowed(tx[c].row, req[c].actor)
    [] pc[c] = "begin"    -> IsActiveMember(c) /\ BeginVerificationAllowed(tx[c].row)
    [] pc[c] = "verify"   -> /\ IsActiveMember(c)
                             /\ VerifyTaskAllowed(tx[c].row,
                                  IF req[c].op = "approve" THEN "APPROVED" ELSE "REJECTED")
    [] pc[c] = "complete" -> IsActiveMember(c) /\ CompleteTaskAllowed(tx[c].row)

AssignmentCommands == {"start", "submit", "begin", "verify", "complete"}

Applies(c, command) ==
  pc[c] = command /\ AssignmentCommandAllowed(c) /\ AssignmentUnchanged(c)

StartStep(c) ==
  Applies(c, "start") /\ Write(c, Advance(tx[c].row, "IN_PROGRESS"), "commit")

SubmitStep(c) ==
  Applies(c, "submit") /\ Write(c, Advance(tx[c].row, "SUBMITTED"), "commit")

BeginStep(c) ==
  Applies(c, "begin") /\ Write(c, Advance(tx[c].row, "VERIFYING"), "verify")

VerifyStep(c) ==
  /\ Applies(c, "verify")
  /\ IF req[c].op = "approve"
       THEN Write(c, Advance(tx[c].row, "APPROVED"), "complete")
       ELSE Write(c, Advance(tx[c].row, "REJECTED"), "commit")

CompleteStep(c) ==
  Applies(c, "complete") /\ Write(c, Advance(tx[c].row, "COMPLETED"), "payLock")

(* The approval locks the template to read what it pays. *)
LockPaidTemplate(c) ==
  /\ pc[c] = "payLock"
  /\ LET t == tx[c].row.template IN
       /\ templateLock[t] = None
       /\ templateLock' = [templateLock EXCEPT ![t] = c]
       /\ tx' = [tx EXCEPT ![c].draft = template[t]]
  /\ Goto(c, "pay")
  /\ UNCHANGED <<lifecycleVars, members, assignmentLock, req>>

(* grantTaskReward: an entry for each currency the template pays whose key   *)
(* is still free.  The UNIQUE index on the key cannot make the INSERT wait:  *)
(* only the holder of the assignment's row lock posts under its keys.        *)
PayReward(c) ==
  /\ pc[c] = "pay"
  /\ tx' = [tx EXCEPT ![c].pays =
              [k \in Currencies |-> IF ledger[Mine(c)][k].rows = 0
                                      THEN tx[c].draft.reward[k] ELSE 0]]
  /\ Goto(c, "commit")
  /\ Private(c)

-----------------------------------------------------------------------------
(* Templates, and the assignment of a task. *)

LockTemplateMutant(c) ==
  /\ pc[c] = "templateLock"
  /\ template[req[c].template].status # "ABSENT"
  /\ tx' = [tx EXCEPT ![c].draft = template[req[c].template]]
  /\ Goto(c, req[c].op)
  /\ Private(c)

LockTemplate(c) ==
  /\ pc[c] = "templateLock"
  /\ LET t == req[c].template IN
       /\ template[t].status # "ABSENT"
       /\ templateLock[t] = None
       /\ templateLock' = [templateLock EXCEPT ![t] = c]
       /\ tx' = [tx EXCEPT ![c].draft = template[t]]
  /\ Goto(c, req[c].op)
  /\ UNCHANGED <<lifecycleVars, members, assignmentLock, req>>

TemplateMissing(c) ==
  /\ pc[c] = "templateLock"
  /\ template[req[c].template].status = "ABSENT"
  /\ End(c)
  /\ UNCHANGED lifecycleVars

TemplateCommandAllowed(c) ==
  /\ IsActiveMember(c)
  /\ CASE pc[c] = "create"  -> CreateTemplateAllowed(req[c].reward)
       [] pc[c] = "update"  -> UpdateTemplateAllowed(tx[c].draft, req[c].reward)
       [] pc[c] = "publish" -> PublishTemplateAllowed(tx[c].draft)
       [] pc[c] = "archive" -> ArchiveTemplateAllowed(tx[c].draft)
       [] pc[c] = "assign"  -> /\ req[c].child \in FamilyChildren
                               /\ AssignTaskAllowed(tx[c].draft)

TemplateCommands == {"create", "update", "publish", "archive", "assign"}

CreateStep(c) ==
  /\ pc[c] = "create" /\ TemplateCommandAllowed(c)
  /\ WriteDraft(c, NewTemplate(req[c].reward))

UpdateStep(c) ==
  /\ pc[c] = "update" /\ TemplateCommandAllowed(c) /\ TemplateUnchanged(c)
  /\ WriteDraft(c, UpdatedTemplate(tx[c].draft, req[c].reward))

(* publishTaskTemplate answers a replay on the locked row. *)
PublishReplay(c) ==
  /\ pc[c] = "publish" /\ tx[c].draft.status = "ACTIVE"
  /\ End(c)
  /\ UNCHANGED lifecycleVars

PublishStep(c) ==
  /\ pc[c] = "publish" /\ TemplateCommandAllowed(c) /\ TemplateUnchanged(c)
  /\ WriteDraft(c, Advance(tx[c].draft, "ACTIVE"))

ArchiveStep(c) ==
  /\ pc[c] = "archive" /\ TemplateCommandAllowed(c) /\ TemplateUnchanged(c)
  /\ WriteDraft(c, Advance(tx[c].draft, "ARCHIVED"))

AssignStep(c) ==
  /\ pc[c] = "assign" /\ TemplateCommandAllowed(c)
  /\ Write(c, NewAssignment(req[c].template, req[c].child), "commit")

-----------------------------------------------------------------------------
(* How a transaction ends. *)

CommitTemplate(c) ==
  /\ pc[c] = "commit" /\ req[c].op \in {"create"} \cup DraftOps
  /\ SetTemplate(req[c].template, tx[c].draft)
  /\ End(c)

CommitAssign(c) ==
  /\ pc[c] = "commit" /\ req[c].op = "assign"
  /\ SetAssignment(Mine(c), tx[c].row)
  /\ UNCHANGED <<completions, ledger>>
  /\ End(c)

(* The INSERT into task_completions is part of submitTask. *)
CommitChildOp(c) ==
  /\ pc[c] = "commit" /\ req[c].op \in ChildOps
  /\ SetAssignment(Mine(c), tx[c].row)
  /\ completions' = IF req[c].op = "submit"
                      THEN [completions EXCEPT ![Mine(c)] = completions[Mine(c)] + 1]
                      ELSE completions
  /\ UNCHANGED ledger
  /\ End(c)

(* The entries an insert leaves under a key: amount 0 stands for no insert. *)
Posted(entries, amount) ==
  IF amount > 0
    THEN [rows |-> entries.rows + 1, amount |-> entries.amount + amount]
    ELSE entries

CommitDecision(c) ==
  /\ pc[c] = "commit" /\ req[c].op \in ParentOps
  /\ SetAssignment(Mine(c), tx[c].row)
  /\ ledger' = [ledger EXCEPT ![Mine(c)] =
                  [k \in Currencies |-> Posted(ledger[Mine(c)][k], tx[c].pays[k])]]
  /\ UNCHANGED completions
  /\ End(c)

(* A domain error, a 422, or an UPDATE that matched no row, a 409            *)
(* (RepositoryConflictError: NoVersionConflict says it never happens); both  *)
(* roll the transaction back.                                                *)
Refuse(c) ==
  /\ \/ /\ pc[c] \in AssignmentCommands
        /\ ~(AssignmentCommandAllowed(c) /\ AssignmentUnchanged(c))
     \/ /\ pc[c] \in TemplateCommands
        /\ ~(TemplateCommandAllowed(c) /\ (pc[c] \in DraftOps => TemplateUnchanged(c)))
        /\ ~(pc[c] = "publish" /\ tx[c].draft.status = "ACTIVE")
  /\ End(c)
  /\ UNCHANGED lifecycleVars

(* The server dies or the connection drops before COMMIT. *)
Crash(c) ==
  /\ pc[c] # "idle"
  /\ End(c)
  /\ UNCHANGED lifecycleVars

(* Revocation and re-admission of a parent, by requests on other tables. *)
SetMember(p) ==
  /\ \/ members' = members \ {p}
     \/ members' = members \cup {p}
  /\ members' # members
  /\ UNCHANGED <<lifecycleVars, templateLock, assignmentLock, pc, req, tx>>

-----------------------------------------------------------------------------
Arrive(c) ==
  \/ \E p \in Parents :
       \/ \E t \in Templates, reward \in Rewards :
            ReceiveCreate(c, p, t, reward) \/ ReceiveUpdate(c, p, t, reward)
       \/ \E t \in Templates :
            \/ ReceivePublish(c, p, t)
            \/ ReceiveArchive(c, p, t)
            \/ \E child \in Children, a \in Assignments : ReceiveAssign(c, p, t, child, a)
       \/ \E a \in Assignments, op \in ParentOps : ReceiveDecision(c, op, p, a)
  \/ \E actor \in Parents \cup Children, a \in Assignments, op \in ChildOps :
       ReceiveChildOp(c, op, actor, a)

Locking(c) == LockAssignment(c) \/ LockPaidTemplate(c) \/ LockTemplate(c)

(* The statements of a handler that wait for nobody. *)
Handle(c) ==
  \/ ReadInScope(c) \/ ReadReplay(c) \/ ReadDenied(c)
  \/ StartStep(c) \/ SubmitStep(c) \/ BeginStep(c) \/ VerifyStep(c) \/ CompleteStep(c)
  \/ PayReward(c) \/ TemplateMissing(c)
  \/ CreateStep(c) \/ UpdateStep(c) \/ PublishReplay(c) \/ PublishStep(c)
  \/ ArchiveStep(c) \/ AssignStep(c)
  \/ CommitTemplate(c) \/ CommitAssign(c) \/ CommitChildOp(c)
  \/ CommitDecision(c)
  \/ Refuse(c)

RequestsNext ==
  \/ \E c \in Conns : Arrive(c) \/ Locking(c) \/ Handle(c) \/ Crash(c)
  \/ \E p \in Parents : SetMember(p)

(* The event loop runs every handler on, and PostgreSQL queues the waiters   *)
(* of a row lock, so that one of them is not passed over for ever.           *)
Fairness == \A c \in Conns : WF_vars(Handle(c)) /\ SF_vars(Locking(c))

RequestsSpec == RequestsInit /\ [][RequestsNext]_vars

FairSpec == RequestsSpec /\ Fairness

-----------------------------------------------------------------------------
(* Properties. *)

(* Every variable has its type. *)
TypeOK ==
  /\ template \in [Templates -> TemplateRows]
  /\ assignment \in [Assignments -> AssignmentRows]
  /\ completions \in [Assignments -> Nat]
  /\ ledger \in [Assignments -> [Currencies -> [rows : Nat, amount : Nat]]]
  /\ members \subseteq Parents
  /\ templateLock \in [Templates -> Conns \cup {None}]
  /\ assignmentLock \in [Assignments -> Conns \cup {None}]
  /\ pc \in [Conns -> Statements]
  /\ req \in [Conns -> Requests]
  /\ tx \in [Conns -> Transactions]

(* The ledger holds, under an assignment's two keys, exactly what its        *)
(* template pays, once, if the assignment is COMPLETED, and nothing before;  *)
(* whatever is approved twice, retried, rolled back or edited meanwhile.     *)
LedgerMatchesCompletion ==
  \A a \in Assignments :
    ledger[a] = IF assignment[a].status = "COMPLETED"
                  THEN Paid(template[assignment[a].template].reward)
                  ELSE Unpaid

(* A committed assignment's version is the number of transitions its status  *)
(* and its completions call for: no transition is lost, done twice or        *)
(* skipped, and a decision's intermediate states are never committed.        *)
VersionCounts(a) ==
  LET row == assignment[a]
      n == completions[a] IN
    \/ row.status = "ABSENT"      /\ row.version = 0 /\ n = 0
    \/ row.status = "ASSIGNED"    /\ row.version = 1 /\ n = 0
    \/ row.status = "IN_PROGRESS" /\ row.version = 4 * n + 2
    \/ row.status = "SUBMITTED"   /\ row.version = 4 * n - 1 /\ n > 0
    \/ row.status = "REJECTED"    /\ row.version = 4 * n + 1 /\ n > 0
    \/ row.status = "COMPLETED"   /\ row.version = 4 * n + 2 /\ n > 0

VersionCountsHistory == \A a \in Assignments : VersionCounts(a)

(* The row lock makes the version check of every UPDATE succeed: no request  *)
(* on an assignment or a template ever ends in a RepositoryConflictError.    *)
NoVersionConflict ==
  \A c \in Conns :
    /\ pc[c] \in AssignmentCommands => AssignmentUnchanged(c)
    /\ pc[c] \in DraftOps => TemplateUnchanged(c)

(* Requests implement the atomic lifecycle. *)
Lifecycle == INSTANCE TaskLifecycle
AtomicLifecycle == Lifecycle!Spec

(* Every request is answered: nobody waits for a row lock for ever. *)
EveryRequestAnswered == \A c \in Conns : pc[c] # "idle" ~> pc[c] = "idle"

(* A decision is about the row the handler read: a parent who approves or    *)
(* rejects decides on the submission that was there when the request began.  *)
DecisionIsOnTheRowRead ==
  \A c \in Conns :
    pc[c] = "commit" /\ req[c].op \in ParentOps => tx[c].seen.version = tx[c].base

=============================================================================
