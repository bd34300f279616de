------------------------------- MODULE TaskBoard -------------------------------
(***************************************************************************)
(* tasks/registry.yaml and the commands of tools/task-registry, each as    *)
(* one step: the lifecycle of schema.ts, the queries of registry.ts and    *)
(* the commands of cli.ts.  A command is a pair: the predicate that says   *)
(* when it does not throw, and the board it saves.  Titles, phases, the    *)
(* reason of a block and the report a handoff archives are left out, and a *)
(* task's execution metadata is one flag: complete or not.                 *)
(***************************************************************************)
EXTENDS Naturals, Sequences

CONSTANTS
  Tasks,         \* task ids
  Agents,        \* roles that execute or review a task
  None,          \* no reviewer yet
  InitialBoards  \* the registries the commands may start from

TRANSITIONS ==
  LET BLOCKED_STATES == {"ARCHITECTURE_BLOCKED", "PRODUCT_BLOCKED",
                         "SECURITY_BLOCKED", "DEPENDENCY_BLOCKED"}
  IN [PLANNED |-> {"BACKLOG", "READY"},
      BACKLOG |-> {"ANALYSIS"} \cup BLOCKED_STATES,
      ANALYSIS |-> {"ARCHITECTURE_CHECK"} \cup BLOCKED_STATES,
      ARCHITECTURE_CHECK |-> {"READY"} \cup BLOCKED_STATES,
      READY |-> {"IN_PROGRESS"} \cup BLOCKED_STATES,
      IN_PROGRESS |-> {"REVIEW"} \cup BLOCKED_STATES,
      REVIEW |-> {"QA", "REWORK", "PASS_WITH_DISCOVERIES"} \cup BLOCKED_STATES,
      REWORK |-> {"IN_PROGRESS"},
      PASS_WITH_DISCOVERIES |-> {"DISCOVERY_TRIAGE"},
      DISCOVERY_TRIAGE |-> {"NEW_TASK", "QA"},
      NEW_TASK |-> {},
      QA |-> {"SECURITY", "REWORK"} \cup BLOCKED_STATES,
      SECURITY |-> {"ACCEPTANCE", "REWORK", "SECURITY_BLOCKED"},
      ACCEPTANCE |-> {"DONE", "REWORK"},
      DONE |-> {},
      ARCHITECTURE_BLOCKED |-> {"IN_PROGRESS", "BACKLOG"},
      PRODUCT_BLOCKED |-> {"IN_PROGRESS", "BACKLOG"},
      SECURITY_BLOCKED |-> {"IN_PROGRESS", "BACKLOG"},
      DEPENDENCY_BLOCKED |-> {"IN_PROGRESS", "READY"}]

TASK_STATES == DOMAIN TRANSITIONS

IsValidTransition(from, to) == from # to /\ to \in TRANSITIONS[from]

(* discoveries: whether the task holds discoveries that block it, and some   *)
(* that do not.  undecided: a human decision is still open.                  *)
TaskRows ==
  [status : TASK_STATES, primary : Agents, reviewer : Agents \cup {None},
   gated : BOOLEAN, described : BOOLEAN, undecided : BOOLEAN,
   discoveries : SUBSET {"blocking", "open"},
   deps : SUBSET Tasks, contract : SUBSET Tasks, implementation : SUBSET Tasks]

IsBoard(b) == DOMAIN b \subseteq Tasks /\ b \in [DOMAIN b -> TaskRows]

ASSUME TaskBoardAssumption == None \notin Agents /\ \A b \in InitialBoards : IsBoard(b)

-----------------------------------------------------------------------------
(* Queries. *)

Dependencies(row) == row.deps \cup row.contract \cup row.implementation

(* readyAdmissionProblems returns nothing. *)
Admissible(row) ==
  /\ row.reviewer \notin {None, row.primary}
  /\ row.gated /\ row.described /\ ~row.undecided
  /\ "blocking" \notin row.discoveries
  /\ row.deps = {}

Done(b, ids) == \A d \in ids : d \in DOMAIN b /\ b[d].status = "DONE"

StartBlockingDependencies(row) == row.contract \cup row.deps

(* What the next command lists. *)
ClaimableTasksMutant(b) ==
  {t \in DOMAIN b : b[t].status = "READY" /\ Done(b, b[t].contract)}

ClaimableTasks(b) ==
  {t \in DOMAIN b :
     b[t].status = "READY" /\ Done(b, StartBlockingDependencies(b[t]))}

(* No set of tasks each depend on another of the set. *)
Acyclic(b) ==
  \A ids \in SUBSET DOMAIN b :
     ids # {} => \E t \in ids : Dependencies(b[t]) \cap ids = {}

(* validateStructure returns nothing. *)
WellStructured(b) ==
  /\ \A t \in DOMAIN b :
       /\ Dependencies(b[t]) \subseteq DOMAIN b
       /\ b[t].contract \cap b[t].implementation = {}
       /\ b[t].deps \cap (b[t].contract \cup b[t].implementation) = {}
       /\ b[t].status = "READY" => Admissible(b[t])
  /\ Acyclic(b)

-----------------------------------------------------------------------------
(* The commands.  findTask throws for an id that is not on the board. *)

TransitionAllowed(b, t, to) == t \in DOMAIN b /\ IsValidTransition(b[t].status, to)

Transitioned(b, t, to) == [b EXCEPT ![t].status = to]

(* The stages of admission that follow a status: all three of them for one   *)
(* that is not among them.                                                   *)
AdmissionWalk(from) ==
  CASE from = "ANALYSIS" -> <<from, "ARCHITECTURE_CHECK", "READY">>
    [] from = "ARCHITECTURE_CHECK" -> <<from, "READY">>
    [] OTHER -> <<from, "ANALYSIS", "ARCHITECTURE_CHECK", "READY">>

(* A task that is READY already is reported so and not saved.                *)
AdmitAllowed(b, t) ==
  /\ t \in DOMAIN b
  /\ Admissible(b[t])
  /\ b[t].status # "READY"
  /\ LET walk == AdmissionWalk(b[t].status)
     IN \A i \in 1 .. Len(walk) - 1 : IsValidTransition(walk[i], walk[i + 1])

ClaimAllowed(b, t) ==
  /\ TransitionAllowed(b, t, "IN_PROGRESS")
  /\ Done(b, StartBlockingDependencies(b[t]))

Claimed(b, t, agent) ==
  [b EXCEPT ![t].primary = agent, ![t].status = "IN_PROGRESS"]

(* integrationProblems returns nothing, and the move to REVIEW is allowed.   *)
HandoffAllowed(b, t) ==
  TransitionAllowed(b, t, "REVIEW") /\ Done(b, b[t].implementation)

HandedOff(b, t, agent, gates) ==
  [b EXCEPT ![t].status = "REVIEW", ![t].reviewer = agent, ![t].gated = gates]

BlockTypes == {"ARCHITECTURE_BLOCKED", "PRODUCT_BLOCKED",
               "SECURITY_BLOCKED", "DEPENDENCY_BLOCKED"}

Reassigned(b, t, agent) == [b EXCEPT ![t].primary = agent]

WithDiscovery(b, t, kind) == [b EXCEPT ![t].discoveries = @ \cup {kind}]

(* The new task's dependencies are whatever the caller typed: that they exist *)
(* is left to the validate command.                                          *)
CreateChildAllowed(b, t, source) ==
  t \in Tasks \ DOMAIN b /\ source \in DOMAIN b /\ b[source].discoveries # {}

Child(agent, deps) ==
  [status |-> "BACKLOG", primary |-> agent, reviewer |-> None,
   gated |-> FALSE, described |-> FALSE, undecided |-> FALSE,
   discoveries |-> {}, deps |-> {}, contract |-> {}, implementation |-> deps]

WithChild(b, t, agent, deps) ==
  [i \in DOMAIN b \cup {t} |-> IF i = t THEN Child(agent, deps) ELSE b[i]]

-----------------------------------------------------------------------------
(* One command at a time.  last is the line the last command prints.         *)

VARIABLES board, last

boardVars == <<board, last>>

Init == board \in InitialBoards /\ last = None

Admit(t) ==
  /\ last' = <<"admit", t>>
  /\ AdmitAllowed(board, t)
  /\ board' = Transitioned(board, t, "READY")

Claim(t, agent) ==
  /\ last' = <<"claim", t, agent>>
  /\ ClaimAllowed(board, t)
  /\ board' = Claimed(board, t, agent)

Handoff(t, agent, gates) ==
  /\ last' = <<"handoff", t, agent>>
  /\ HandoffAllowed(board, t)
  /\ board' = HandedOff(board, t, agent, gates)

Block(t, to) ==
  /\ last' = <<"block", t, to>>
  /\ TransitionAllowed(board, t, to)
  /\ board' = Transitioned(board, t, to)

(* gate, unblock and close take any status the table allows.                 *)
Move(t, to) ==
  /\ last' = <<"move", t, to>>
  /\ TransitionAllowed(board, t, to)
  /\ board' = Transitioned(board, t, to)

Reassign(t, agent) ==
  /\ last' = <<"reassign", t, agent>>
  /\ t \in DOMAIN board
  /\ board' = Reassigned(board, t, agent)

AddDiscovery(t, kind) ==
  /\ last' = <<"add-discovery", t, kind>>
  /\ t \in DOMAIN board
  /\ board' = WithDiscovery(board, t, kind)

CreateChildTask(t, source) ==
  /\ last' = <<"create-child-task", t, source>>
  /\ CreateChildAllowed(board, t, source)
  /\ \E agent \in Agents, deps \in SUBSET Tasks : board' = WithChild(board, t, agent, deps)

Next ==
  \/ \E t \in Tasks : Admit(t)
  \/ \E t \in Tasks, agent \in Agents : Claim(t, agent) \/ Reassign(t, agent)
  \/ \E t \in Tasks, agent \in Agents, gates \in BOOLEAN : Handoff(t, agent, gates)
  \/ \E t \in Tasks, to \in BlockTypes : Block(t, to)
  \/ \E t \in Tasks, to \in TASK_STATES : Move(t, to)
  \/ \E t \in Tasks, kind \in {"blocking", "open"} : AddDiscovery(t, kind)
  \/ \E t, source \in Tasks : CreateChildTask(t, source)

Spec == Init /\ [][Next]_boardVars

=============================================================================
