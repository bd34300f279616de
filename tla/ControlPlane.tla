------------------------------ MODULE ControlPlane ------------------------------
(***************************************************************************)
(* What the control command of tools/task-registry accepts (control.ts):   *)
(* the review artifacts of tasks/reviews against the task registry, the    *)
(* status of the waves and the open blockers.  The three files are edited  *)
(* by hand; the registry changes by the commands of TaskBoard.  A note or  *)
(* a citation is a flag: there is one or there is none.                    *)
(***************************************************************************)
EXTENDS TaskBoard

CONSTANTS
  EVIDENCE_AREAS,      \* what a review must account for
  ArchitectureChecks,  \* the fields of architecture_control
  Scopes,              \* what a review may be of: a wave id, or PHASE1
  PHASE1,
  Waves,               \* the waves of the phase status file
  Finished,            \* the waves whose status is DONE or whose exit is PASS
  Reviews,             \* the files of tasks/reviews, in the order they are read
  OpenBlockers         \* per open blocker, the wave and task ids it blocks

GATE_VERDICTS == {"PASS", "REWORK", "BLOCKED"}

Verdicts == GATE_VERDICTS \cup {"NOT_REQUIRED"}

EvidenceEntries ==
  [area : EVIDENCE_AREAS, status : Verdicts, evidence : BOOLEAN, note : BOOLEAN]

(* What the schema parses; a file it does not parse is a problem of its own. *)
ReviewArtifacts ==
  [scope : Scopes, tasks : SUBSET Tasks, follow_ups : SUBSET Tasks,
   evidence : SUBSET EvidenceEntries,
   architecture_control : [ArchitectureChecks -> Verdicts],
   noted : SUBSET ArchitectureChecks,
   decision : GATE_VERDICTS, deviations : BOOLEAN]

ASSUME ControlPlaneAssumption ==
  /\ PHASE1 \in Scopes /\ Waves \subseteq Scopes \ {PHASE1} /\ Finished \subseteq Waves
  /\ Reviews \in Seq(ReviewArtifacts)
  /\ OpenBlockers \subseteq SUBSET (Scopes \cup Tasks)

-----------------------------------------------------------------------------
(* Every area is answered, and every answer is backed.                       *)
EvidenceComplete(artifact) ==
  /\ \A area \in EVIDENCE_AREAS : \E entry \in artifact.evidence : entry.area = area
  /\ \A entry \in artifact.evidence :
       /\ entry.status = "NOT_REQUIRED" => entry.note
       /\ entry.status \in {"PASS", "REWORK"} => entry.evidence

Objects(verdict) == verdict \in {"REWORK", "BLOCKED"}

(* What a decision to pass claims, of the review and of the registry.        *)
PassJustifiedMutant(artifact, b) ==
  /\ \A entry \in artifact.evidence : ~Objects(entry.status)
  /\ \A check \in ArchitectureChecks : ~Objects(artifact.architecture_control[check])
  /\ \A id \in artifact.tasks : id \in DOMAIN b => b[id].status \in {"ACCEPTANCE", "DONE"}
  /\ \A blocks \in OpenBlockers : blocks \cap ({artifact.scope} \cup artifact.tasks) = {}

PassJustified(artifact, b) ==
  /\ \A entry \in artifact.evidence : ~Objects(entry.status)
  /\ \A check \in ArchitectureChecks : ~Objects(artifact.architecture_control[check])
  /\ \A id \in artifact.tasks : id \in DOMAIN b => b[id].status = "DONE"
  /\ \A blocks \in OpenBlockers : blocks \cap ({artifact.scope} \cup artifact.tasks) = {}

ArtifactAccepted(artifact, b) ==
  /\ artifact.scope \in Waves \cup {PHASE1}
  /\ artifact.tasks \cup artifact.follow_ups \subseteq DOMAIN b
  /\ EvidenceComplete(artifact)
  /\ artifact.decision = "PASS" => PassJustified(artifact, b)
  /\ \A check \in ArchitectureChecks :
       artifact.architecture_control[check] = "NOT_REQUIRED" => check \in artifact.noted
  /\ ~(artifact.deviations /\ artifact.decision = "BLOCKED")

(* validateControlPlane returns nothing.                                     *)
ControlPlaneAccepted(b) ==
  /\ \A i, j \in 1 .. Len(Reviews) : Reviews[i].scope = Reviews[j].scope => i = j
  /\ \A i \in 1 .. Len(Reviews) : ArtifactAccepted(Reviews[i], b)
  /\ \A wave \in Waves :
       wave \in Finished
         <=> \E i \in 1 .. Len(Reviews) :
               Reviews[i].scope = wave /\ Reviews[i].decision = "PASS"

-----------------------------------------------------------------------------
(* Nothing a command does to the registry takes a passed review back: what   *)
(* control accepts it goes on accepting until a file of the reviews, the     *)
(* waves or the blockers is edited (TRANSITIONS leads nowhere from DONE, and *)
(* no command removes a task).                                               *)
PassedReviewStands ==
  [][ControlPlaneAccepted(board) => ControlPlaneAccepted(board')]_boardVars

=============================================================================
