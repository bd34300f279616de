------------------------------ MODULE TaskLifecycle ------------------------------
(***************************************************************************)
(* What the task endpoints promise: every request takes effect at once or  *)
(* not at all, on the current rows.  The two parts of an approval, the     *)
(* assignment's completion and the reward entries, happen together, and    *)
(* the states VERIFYING and APPROVED are never seen.  TaskRequests gives   *)
(* the transactions that implement this.                                   *)
(***************************************************************************)
EXTENDS TaskDomain

VARIABLES
  template,     \* the rows of task_templates
  assignment,   \* the rows of task_assignments
  completions,  \* how many rows task_completions holds for an assignment
  ledger        \* the reward_ledger_entries posted under an assignment's two keys

lifecycleVars == <<template, assignment, completions, ledger>>

(* Under one idempotency key: how many entries there are, and their sum. *)
NoEntries == [rows |-> 0, amount |-> 0]

OneEntry(amount) == [rows |-> 1, amount |-> amount]

(* The entries a completed assignment's keys hold when it pays reward. *)
Paid(reward) == [k \in Currencies |-> IF reward[k] > 0 THEN OneEntry(reward[k]) ELSE NoEntries]

Unpaid == [k \in Currencies |-> NoEntries]

Init ==
  /\ template = [t \in Templates |-> AbsentTemplate]
  /\ assignment = [a \in Assignments |-> AbsentAssignment]
  /\ completions = [a \in Assignments |-> 0]
  /\ ledger = [a \in Assignments |-> Unpaid]

SetTemplate(t, row) ==
  /\ template' = [template EXCEPT ![t] = row]
  /\ UNCHANGED <<assignment, completions, ledger>>

CreateTemplate(t, reward) ==
  /\ template[t].status = "ABSENT"
  /\ CreateTemplateAllowed(reward)
  /\ SetTemplate(t, NewTemplate(reward))

UpdateTemplate(t, reward) ==
  /\ UpdateTemplateAllowed(template[t], reward)
  /\ SetTemplate(t, UpdatedTemplate(template[t], reward))

PublishTemplate(t) ==
  /\ PublishTemplateAllowed(template[t])
  /\ SetTemplate(t, Advance(template[t], "ACTIVE"))

ArchiveTemplate(t) ==
  /\ ArchiveTemplateAllowed(template[t])
  /\ SetTemplate(t, Advance(template[t], "ARCHIVED"))

SetAssignment(a, row) ==
  /\ assignment' = [assignment EXCEPT ![a] = row]
  /\ UNCHANGED template

AssignTask(a, t, child) ==
  /\ assignment[a].status = "ABSENT"
  /\ AssignTaskAllowed(template[t])
  /\ SetAssignment(a, NewAssignment(t, child))
  /\ UNCHANGED <<completions, ledger>>

StartTask(a) ==
  /\ StartTaskAllowed(assignment[a], assignment[a].child)
  /\ SetAssignment(a, Advance(assignment[a], "IN_PROGRESS"))
  /\ UNCHANGED <<completions, ledger>>

SubmitTask(a) ==
  /\ SubmitTaskAllowed(assignment[a], assignment[a].child)
  /\ SetAssignment(a, Advance(assignment[a], "SUBMITTED"))
  /\ completions' = [completions EXCEPT ![a] = completions[a] + 1]
  /\ UNCHANGED ledger

(* The rows an assignment goes through while a parent's decision is taken. *)
Verifying(row) == Advance(row, "VERIFYING")
Rejected(row) == Advance(Verifying(row), "REJECTED")
Approved(row) == Advance(Verifying(row), "APPROVED")
Completed(row) == Advance(Approved(row), "COMPLETED")

RejectTask(a) ==
  /\ assignment[a].status = "SUBMITTED"
  /\ SetAssignment(a, Rejected(assignment[a]))
  /\ UNCHANGED <<completions, ledger>>

ApproveTask(a) ==
  /\ assignment[a].status = "SUBMITTED"
  /\ SetAssignment(a, Completed(assignment[a]))
  /\ ledger' = [ledger EXCEPT ![a] = Paid(template[assignment[a].template].reward)]
  /\ UNCHANGED completions

Next ==
  \/ \E t \in Templates :
       \/ PublishTemplate(t)
       \/ ArchiveTemplate(t)
       \/ \E reward \in Rewards :
            CreateTemplate(t, reward) \/ UpdateTemplate(t, reward)
       \/ \E a \in Assignments, child \in Children : AssignTask(a, t, child)
  \/ \E a \in Assignments :
       StartTask(a) \/ SubmitTask(a) \/ RejectTask(a) \/ ApproveTask(a)

Spec == Init /\ [][Next]_lifecycleVars

=============================================================================
