------------------------------- MODULE TaskDomain -------------------------------
(***************************************************************************)
(* The pure task domain: the status machines of                            *)
(* packages/domain-types/src/task.ts and the command functions of          *)
(* packages/domain-types/src/task-service.ts.  Each command function is    *)
(* a pair: a predicate that says when it does not throw, and the row it    *)
(* returns.  Titles, verification strategies, dates and the audit events   *)
(* a command returns (no caller stores them) are left out.                 *)
(***************************************************************************)
EXTENDS Integers

CONSTANTS
  Templates,    \* ids of task templates
  Assignments,  \* ids of task assignments
  Children,     \* ids of children
  Rewards,      \* the rewards a parent may submit for a template
  None          \* the value of a reference that is not set

(* The two currencies a template pays in. *)
Currencies == {"XP", "COINS"}

ASSUME TaskDomainAssumption ==
  /\ Rewards \subseteq [Currencies -> Int]
  /\ None \notin Templates \cup Children

TemplateStatuses == {"DRAFT", "ACTIVE", "ARCHIVED"}

AssignmentStatuses ==
  {"ASSIGNED", "IN_PROGRESS", "SUBMITTED", "VERIFYING",
   "APPROVED", "REJECTED", "COMPLETED", "ARCHIVED"}

(* Rows.  "ABSENT" stands for an id with no row yet. *)
TemplateRows ==
  [status : TemplateStatuses \cup {"ABSENT"}, version : Nat,
   reward : [Currencies -> Nat]]

AssignmentRows ==
  [status : AssignmentStatuses \cup {"ABSENT"}, version : Nat,
   template : Templates \cup {None}, child : Children \cup {None}]

AbsentTemplate ==
  [status |-> "ABSENT", version |-> 0, reward |-> [k \in Currencies |-> 0]]

AbsentAssignment ==
  [status |-> "ABSENT", version |-> 0, template |-> None, child |-> None]

-----------------------------------------------------------------------------
(* The transition tables. *)

IsValidTaskTemplateTransition(from, to) ==
  <<from, to>> \in {<<"DRAFT", "ACTIVE">>, <<"DRAFT", "ARCHIVED">>,
                    <<"ACTIVE", "ARCHIVED">>}

IsValidTaskAssignmentTransition(from, to) ==
  <<from, to>> \in {<<"ASSIGNED", "IN_PROGRESS">>, <<"IN_PROGRESS", "SUBMITTED">>,
                    <<"SUBMITTED", "VERIFYING">>, <<"VERIFYING", "APPROVED">>,
                    <<"VERIFYING", "REJECTED">>, <<"APPROVED", "COMPLETED">>,
                    <<"REJECTED", "IN_PROGRESS">>, <<"COMPLETED", "ARCHIVED">>}

(* Every command returns { ...row, status, version: row.version + 1 }. *)
Advance(row, status) == [row EXCEPT !.status = status, !.version = row.version + 1]

-----------------------------------------------------------------------------
(* Template commands. *)

NonNegative(reward) == \A k \in Currencies : reward[k] >= 0

CreateTemplateAllowedMutant(reward) == reward["XP"] >= 0

CreateTemplateAllowed(reward) == NonNegative(reward)

NewTemplate(reward) == [status |-> "DRAFT", version |-> 1, reward |-> reward]

UpdateTemplateAllowedMutant(t, reward) ==
  t.status \in {"DRAFT", "ACTIVE"} /\ NonNegative(reward)

UpdateTemplateAllowed(t, reward) == t.status = "DRAFT" /\ NonNegative(reward)

UpdatedTemplate(t, reward) == [t EXCEPT !.reward = reward, !.version = t.version + 1]

PublishTemplateAllowed(t) == IsValidTaskTemplateTransition(t.status, "ACTIVE")

ArchiveTemplateAllowed(t) == IsValidTaskTemplateTransition(t.status, "ARCHIVED")

AssignTaskAllowed(t) == t.status = "ACTIVE"

NewAssignment(t, child) ==
  [status |-> "ASSIGNED", version |-> 1, template |-> t, child |-> child]

-----------------------------------------------------------------------------
(* Assignment commands. *)

StartTaskAllowedMutant(row, actor) ==
  /\ row.child = actor
  /\ row.status \in {"ASSIGNED", "REJECTED", "SUBMITTED"}

StartTaskAllowed(row, actor) ==
  /\ row.child = actor
  /\ IsValidTaskAssignmentTransition(row.status, "IN_PROGRESS")

SubmitTaskAllowed(row, actor) == row.child = actor /\ row.status = "IN_PROGRESS"

BeginVerificationAllowed(row) ==
  IsValidTaskAssignmentTransition(row.status, "VERIFYING")

VerifyTaskAllowed(row, outcome) ==
  row.status = "VERIFYING" /\ IsValidTaskAssignmentTransition(row.status, outcome)

CompleteTaskAllowed(row) == IsValidTaskAssignmentTransition(row.status, "COMPLETED")

=============================================================================
