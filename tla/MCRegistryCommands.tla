--------------------------- MODULE MCRegistryCommands ---------------------------
(***************************************************************************)
(* RegistryCommands on small boards: one or two tasks, and the ids that   *)
(* create-child-task may still take.                                       *)
(***************************************************************************)
EXTENDS RegistryCommands, ControlPlane

CONSTANTS t1, t2, a1, a2, w1

Row(status) ==
  [status |-> status, primary |-> a1, reviewer |-> a2,
   gated |-> TRUE, described |-> TRUE, undecided |-> FALSE,
   discoveries |-> {}, deps |-> {}, contract |-> {}, implementation |-> {}]

(* A lone task to admit, with a discovery to make a child of; two READY      *)
(* tasks, one of which cannot be claimed before the other is DONE; and work  *)
(* that cannot be handed off before a task at its last gate is DONE.         *)
MCBoards ==
  {[t \in {t1} |-> [Row("BACKLOG") EXCEPT !.discoveries = {"open"}]],
   [t \in {t1, t2} |-> IF t = t1 THEN Row("READY") ELSE [Row("READY") EXCEPT !.deps = {t1}]],
   [t \in {t1, t2} |-> IF t = t1 THEN [Row("IN_PROGRESS") EXCEPT !.implementation = {t2}]
                                 ELSE Row("ACCEPTANCE")]}

(* A wave that is finished when t2 is, and a review of the phase that found    *)
(* work to do; a blocker that is open blocks neither.                        *)
MCScopes == {w1, PHASE1}

MCWaves == {w1}

Backed == [area |-> "tests", status |-> "PASS", evidence |-> TRUE, note |-> FALSE]

MCReviews ==
  <<[scope |-> w1, tasks |-> {t2}, follow_ups |-> {}, evidence |-> {Backed},
     architecture_control |-> [check \in ArchitectureChecks |-> "NOT_REQUIRED"],
     noted |-> ArchitectureChecks, decision |-> "PASS", deviations |-> TRUE],
    [scope |-> PHASE1, tasks |-> {t1}, follow_ups |-> {t1}, evidence |-> {Backed},
     architecture_control |-> [check \in ArchitectureChecks |-> "REWORK"],
     noted |-> {}, decision |-> "REWORK", deviations |-> FALSE]>>

MCOpenBlockers == {{PHASE1, t1}}

MCNoReviews == <<>>

MCOneBoard == {[t \in {t1} |-> Row("READY")]}

=============================================================================
