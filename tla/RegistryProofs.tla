----------------------------- MODULE RegistryProofs -----------------------------
(***************************************************************************)
(* Proofs about TaskBoard and RegistryCommands, for any tasks, agents,     *)
(* initial boards, retries, faults and crashes: what a command saves is a  *)
(* well-formed board; and when at most two commands overlap, the lock      *)
(* directory keeps them apart, each takes effect atomically, and what the  *)
(* control command has accepted stands.  With three commands it does not   *)
(* (run registry_mutex); but however many there are, they leave no lock    *)
(* behind, unless more unlinks fail than release retries or one is killed. *)
(***************************************************************************)
EXTENDS RegistryCommands, ControlPlane, Integers, TLAPS

(* At most two commands contend for the lock. *)
AtMostTwo == \A p, q, r \in Procs : p = q \/ q = r \/ p = r

-----------------------------------------------------------------------------
(* Boards. *)

LEMMA States ==
  /\ {"READY", "IN_PROGRESS", "REVIEW", "BACKLOG", "DONE"} \subseteq TASK_STATES
  /\ BlockTypes \subseteq TASK_STATES
  /\ "IN_PROGRESS" \in TRANSITIONS["READY"]
BY DEF TASK_STATES, TRANSITIONS, BlockTypes

LEMMA RowChanged ==
  ASSUME NEW b, IsBoard(b), NEW t \in DOMAIN b, NEW row \in TaskRows
  PROVE  IsBoard([b EXCEPT ![t] = row])
BY DEF IsBoard

LEMMA TransitionedIsBoard ==
  ASSUME NEW b, IsBoard(b), NEW t \in DOMAIN b, NEW to \in TASK_STATES
  PROVE  IsBoard(Transitioned(b, t, to))
<1> DEFINE row == [b[t] EXCEPT !.status = to]
<1>1. row \in TaskRows
  BY DEF IsBoard, TaskRows
<1>2. Transitioned(b, t, to) = [b EXCEPT ![t] = row]
  BY DEF Transitioned
<1>3. IsBoard([b EXCEPT ![t] = row])
  BY <1>1, RowChanged
<1> QED BY <1>2, <1>3

LEMMA ClaimedIsBoard ==
  ASSUME NEW b, IsBoard(b), NEW t \in DOMAIN b, NEW agent \in Agents
  PROVE  IsBoard(Claimed(b, t, agent))
<1> DEFINE row == [b[t] EXCEPT !.primary = agent, !.status = "IN_PROGRESS"]
<1>1. row \in TaskRows
  BY States DEF IsBoard, TaskRows
<1>2. Claimed(b, t, agent) = [b EXCEPT ![t] = row]
  BY DEF Claimed, IsBoard
<1>3. IsBoard([b EXCEPT ![t] = row])
  BY <1>1, RowChanged
<1> QED BY <1>2, <1>3

LEMMA HandedOffIsBoard ==
  ASSUME NEW b, IsBoard(b), NEW t \in DOMAIN b, NEW agent \in Agents, NEW gates \in BOOLEAN
  PROVE  IsBoard(HandedOff(b, t, agent, gates))
<1> DEFINE row == [b[t] EXCEPT !.status = "REVIEW", !.reviewer = agent, !.gated = gates]
<1>1. row \in TaskRows
  BY States DEF IsBoard, TaskRows
<1>2. HandedOff(b, t, agent, gates) = [b EXCEPT ![t] = row]
  BY DEF HandedOff, IsBoard
<1>3. IsBoard([b EXCEPT ![t] = row])
  BY <1>1, RowChanged
<1> QED BY <1>2, <1>3

LEMMA ReassignedIsBoard ==
  ASSUME NEW b, IsBoard(b), NEW t \in DOMAIN b, NEW agent \in Agents
  PROVE  IsBoard(Reassigned(b, t, agent))
<1> DEFINE row == [b[t] EXCEPT !.primary = agent]
<1>1. row \in TaskRows
  BY DEF IsBoard, TaskRows
<1>2. Reassigned(b, t, agent) = [b EXCEPT ![t] = row]
  BY DEF Reassigned
<1>3. IsBoard([b EXCEPT ![t] = row])
  BY <1>1, RowChanged
<1> QED BY <1>2, <1>3

LEMMA WithDiscoveryIsBoard ==
  ASSUME NEW b, IsBoard(b), NEW t \in DOMAIN b, NEW kind \in {"blocking", "open"}
  PROVE  IsBoard(WithDiscovery(b, t, kind))
<1> DEFINE row == [b[t] EXCEPT !.discoveries = @ \cup {kind}]
<1>1. row \in TaskRows
  BY DEF IsBoard, TaskRows
<1>2. WithDiscovery(b, t, kind) = [b EXCEPT ![t] = row]
  BY DEF WithDiscovery
<1>3. IsBoard([b EXCEPT ![t] = row])
  BY <1>1, RowChanged
<1> QED BY <1>2, <1>3

LEMMA WithChildIsBoard ==
  ASSUME NEW b, IsBoard(b), NEW t \in Tasks, NEW agent \in Agents, NEW deps \in SUBSET Tasks
  PROVE  IsBoard(WithChild(b, t, agent, deps))
<1>1. Child(agent, deps) \in TaskRows
  BY States DEF Child, TaskRows
<1> QED BY <1>1 DEF WithChild, IsBoard

(* A child whose dependencies are on the board leaves it well structured:    *)
(* what create-child-task leaves to the validate command is exactly that the *)
(* dependencies it was given exist.                                          *)
THEOREM ChildKeepsStructure ==
  ASSUME NEW b, WellStructured(b),
         NEW t \in Tasks \ DOMAIN b, NEW agent \in Agents, NEW deps \in SUBSET DOMAIN b
  PROVE  WellStructured(WithChild(b, t, agent, deps))
<1> DEFINE c == WithChild(b, t, agent, deps)
<1>1. DOMAIN c = DOMAIN b \cup {t} /\ c[t] = Child(agent, deps)
  BY DEF WithChild
<1>2. \A i \in DOMAIN b : c[i] = b[i]
  BY DEF WithChild
<1>3. Dependencies(c[t]) = deps
  BY <1>1 DEF Dependencies, Child
<1> HIDE DEF c
<1>4. \A i \in DOMAIN c : Dependencies(c[i]) \subseteq DOMAIN b
  BY <1>1, <1>2, <1>3 DEF WellStructured
<1>5. ASSUME NEW ids \in SUBSET DOMAIN c, ids # {}
      PROVE  \E i \in ids : Dependencies(c[i]) \cap ids = {}
  <2>1. CASE ids = {t}
    BY <2>1, <1>1, <1>4
  <2>2. CASE ids # {t}
    <3>1. ids \ {t} \in SUBSET DOMAIN b /\ ids \ {t} # {}
      BY <2>2, <1>1, <1>5
    <3>2. PICK i \in ids \ {t} : Dependencies(b[i]) \cap (ids \ {t}) = {}
      BY <3>1 DEF WellStructured, Acyclic
    <3>3. Dependencies(c[i]) \cap ids = {}
      BY <3>1, <3>2, <1>2, <1>4
    <3> QED BY <3>3
  <2> QED BY <2>1, <2>2
<1>6. Acyclic(c)
  BY <1>5 DEF Acyclic
<1>7. /\ c[t].contract \cap c[t].implementation = {}
      /\ c[t].deps \cap (c[t].contract \cup c[t].implementation) = {}
      /\ c[t].status # "READY"
  BY <1>1 DEF Child
<1>8. WellStructured(c)
  BY <1>1, <1>2, <1>4, <1>6, <1>7 DEF WellStructured
<1> QED BY <1>8 DEF c

(* Whatever the board, the next command lists only what can be claimed.      *)
LEMMA ClaimableCanBeClaimed ==
  ASSUME NEW b, NEW t \in ClaimableTasks(b)
  PROVE  ClaimAllowed(b, t)
BY States DEF ClaimableTasks, ClaimAllowed, TransitionAllowed, IsValidTransition

-----------------------------------------------------------------------------
(* What a command may save, read off the board alone. *)
Outcome(b, saved, line) ==
  \/ \E t \in Tasks :
       AdmitAllowed(b, t) /\ saved = Transitioned(b, t, "READY") /\ line = <<"admit", t>>
  \/ \E t \in Tasks, agent \in Agents :
       ClaimAllowed(b, t) /\ saved = Claimed(b, t, agent) /\ line = <<"claim", t, agent>>
  \/ \E t \in Tasks, agent \in Agents, gates \in BOOLEAN :
       /\ HandoffAllowed(b, t)
       /\ saved = HandedOff(b, t, agent, gates) /\ line = <<"handoff", t, agent>>
  \/ \E t \in Tasks, to \in BlockTypes :
       TransitionAllowed(b, t, to) /\ saved = Transitioned(b, t, to) /\ line = <<"block", t, to>>
  \/ \E t \in Tasks, to \in TASK_STATES :
       TransitionAllowed(b, t, to) /\ saved = Transitioned(b, t, to) /\ line = <<"move", t, to>>
  \/ \E t \in Tasks, agent \in Agents :
       t \in DOMAIN b /\ saved = Reassigned(b, t, agent) /\ line = <<"reassign", t, agent>>
  \/ \E t \in Tasks, kind \in {"blocking", "open"} :
       t \in DOMAIN b /\ saved = WithDiscovery(b, t, kind) /\ line = <<"add-discovery", t, kind>>
  \/ \E t, source \in Tasks, agent \in Agents, deps \in SUBSET Tasks :
       /\ CreateChildAllowed(b, t, source)
       /\ saved = WithChild(b, t, agent, deps) /\ line = <<"create-child-task", t, source>>

LEMMA OutcomeIsBoard ==
  ASSUME NEW b, IsBoard(b), NEW saved, NEW line, Outcome(b, saved, line)
  PROVE  IsBoard(saved)
<1>1. CASE \E t \in Tasks : AdmitAllowed(b, t) /\ saved = Transitioned(b, t, "READY")
  BY <1>1, States, TransitionedIsBoard DEF AdmitAllowed
<1>2. CASE \E t \in Tasks, agent \in Agents : ClaimAllowed(b, t) /\ saved = Claimed(b, t, agent)
  BY <1>2, ClaimedIsBoard DEF ClaimAllowed, TransitionAllowed
<1>3. CASE \E t \in Tasks, agent \in Agents, gates \in BOOLEAN :
             HandoffAllowed(b, t) /\ saved = HandedOff(b, t, agent, gates)
  BY <1>3, HandedOffIsBoard DEF HandoffAllowed, TransitionAllowed
<1>4. CASE \E t \in Tasks, to \in BlockTypes \cup TASK_STATES :
             TransitionAllowed(b, t, to) /\ saved = Transitioned(b, t, to)
  BY <1>4, States, TransitionedIsBoard DEF TransitionAllowed
<1>5. CASE \E t \in Tasks, agent \in Agents : t \in DOMAIN b /\ saved = Reassigned(b, t, agent)
  BY <1>5, ReassignedIsBoard
<1>6. CASE \E t \in Tasks, kind \in {"blocking", "open"} :
             t \in DOMAIN b /\ saved = WithDiscovery(b, t, kind)
  BY <1>6, WithDiscoveryIsBoard
<1>7. CASE \E t, source \in Tasks, agent \in Agents, deps \in SUBSET Tasks :
             saved = WithChild(b, t, agent, deps)
  BY <1>7, WithChildIsBoard
<1> QED BY <1>1, <1>2, <1>3, <1>4, <1>5, <1>6, <1>7 DEF Outcome

LEMMA OutcomeIsStep ==
  ASSUME Outcome(board, board', last')
  PROVE  Next
BY DEF Outcome, Next, Admit, Claim, Handoff, Block, Move, Reassign, AddDiscovery, CreateChildTask

-----------------------------------------------------------------------------
(* The lock. *)

(* Holds the lock and has not begun to release it. *)
Entered(p) == pc[p] \in {"info", "load", "truncate", "write"}

(* Nobody enters while another has: whoever is still waiting finds the        *)
(* directory there.  A directory that nobody is using was left by a command   *)
(* that ended, so only the survivor can find it stale and remove it.          *)
LockInv ==
  /\ \A p, q \in Procs : p # q /\ Entered(p) => ~Entered(q)
  /\ \A p, q \in Procs : p # q /\ Entered(p) /\ pc[q] \in Waiting => lock.exists
  /\ lock.exists => \E p \in Procs : pc[p] \in Using \cup Ended
  /\ lock.stale => \E p \in Procs : pc[p] \in Ended
  /\ \A p, q \in Procs : pc[p] \in {"staleUnlink", "staleRmdir"} /\ p # q => pc[q] \in Ended

(* What a command is about to save is an outcome of the board as it stands.   *)
TodoInv ==
  \A p \in Procs :
    pc[p] \in {"truncate", "write"} => Outcome(board, todo[p].board, todo[p].line)

DecideSome(p) ==
  \/ DecideAdmit(p) \/ DecideClaim(p) \/ DecideHandoff(p) \/ DecideBlock(p) \/ DecideMove(p)
  \/ DecideReassign(p) \/ DecideAddDiscovery(p) \/ DecideCreateChildTask(p)

LEMMA DecideIsOutcome ==
  ASSUME NEW p \in Procs, DecideSome(p), RegistryTypeOK
  PROVE  /\ At(p, "load")
         /\ \E saved, line : Outcome(board, saved, line) /\ Decide(p, saved, line)
<1>1. At(p, "load")
  BY DEF DecideSome, Load, DecideAdmit, DecideClaim, DecideHandoff, DecideBlock, DecideMove,
         DecideReassign, DecideAddDiscovery, DecideCreateChildTask
<1>2. DOMAIN board \subseteq Tasks
  BY DEF RegistryTypeOK, IsBoard
<1>3. \E saved, line : Outcome(board, saved, line) /\ Decide(p, saved, line)
  BY <1>2 DEF DecideSome, Outcome, DecideAdmit, DecideClaim, DecideHandoff, DecideBlock,
              DecideMove, DecideReassign, DecideAddDiscovery, DecideCreateChildTask
<1> QED BY <1>1, <1>3

LEMMA TypesInit ==
  RegistryInit => RegistryTypeOK
<1> SUFFICES ASSUME RegistryInit PROVE RegistryTypeOK
  OBVIOUS
<1>1. IsBoard(board)
  BY TaskBoardAssumption DEF RegistryInit, Init
<1>2. IsBoard(NothingToSave.board)
  BY DEF NothingToSave, IsBoard
<1>3. DOMAIN todo = Procs /\ \A p \in Procs : IsBoard(todo[p].board)
  BY <1>2 DEF RegistryInit
<1>4. attempt \in [Procs -> 1 .. MaxAttempts] /\ faults \in 0 .. MaxFaults
  BY RegistryCommandsAssumption DEF RegistryInit
<1> QED
  BY <1>1, <1>3, <1>4 DEF RegistryInit, RegistryTypeOK, NoLock, Calls, Ended

(* Every step keeps the types. *)
LEMMA TypesStep ==
  ASSUME RegistryTypeOK, [RegistryNext]_vars
  PROVE  RegistryTypeOK'
<1> USE RegistryCommandsAssumption DEF Calls, Ended, NoLock, Unlinked, Removed, Waiting, Using
<1>0. IsBoard(NothingToSave.board)
  BY DEF NothingToSave, IsBoard
<1>1. ASSUME NEW p \in Procs, Mkdir(p) PROVE RegistryTypeOK'
  <2>1. CASE lock.exists
    BY <1>1, <2>1 DEF Mkdir, At, Goto, FileUnchanged, RegistryTypeOK
  <2>2. CASE ~lock.exists
    BY <1>1, <2>2 DEF Mkdir, At, Goto, FileUnchanged, RegistryTypeOK
  <2> QED BY <2>1, <2>2
<1>2. ASSUME NEW p \in Procs, WriteInfo(p) PROVE RegistryTypeOK'
  BY <1>2 DEF WriteInfo, At, Goto, FileUnchanged, RegistryTypeOK
<1>3. ASSUME NEW p \in Procs, Stat(p) PROVE RegistryTypeOK'
  BY <1>3 DEF Stat, At, Goto, FileUnchanged, RegistryTypeOK
<1>4. ASSUME NEW p \in Procs, StaleUnlink(p) PROVE RegistryTypeOK'
  BY <1>4 DEF StaleUnlink, At, Goto, FileUnchanged, RegistryTypeOK
<1>5. ASSUME NEW p \in Procs, StaleRmdir(p) PROVE RegistryTypeOK'
  BY <1>5 DEF StaleRmdir, At, Goto, FileUnchanged, RegistryTypeOK
<1>6. ASSUME NEW p \in Procs, Deadline(p) PROVE RegistryTypeOK'
  BY <1>6 DEF Deadline, At, Goto, FileUnchanged, RegistryTypeOK
<1>7. ASSUME NEW p \in Procs, Refuse(p) PROVE RegistryTypeOK'
  BY <1>7 DEF Refuse, At, Goto, FileUnchanged, RegistryTypeOK
<1>8. ASSUME NEW p \in Procs, Truncate(p) PROVE RegistryTypeOK'
  BY <1>8 DEF Truncate, At, Goto, FileUnchanged, RegistryTypeOK
<1>9. ASSUME NEW p \in Procs, Write(p) PROVE RegistryTypeOK'
  BY <1>9, <1>0 DEF Write, At, Goto, FileUnchanged, RegistryTypeOK
<1>10. ASSUME NEW p \in Procs, Unlink(p) PROVE RegistryTypeOK'
  BY <1>10 DEF Unlink, At, Goto, FileUnchanged, RegistryTypeOK
<1>11. ASSUME NEW p \in Procs, UnlinkFails(p) PROVE RegistryTypeOK'
  BY <1>11 DEF UnlinkFails, At, Goto, FileUnchanged, RegistryTypeOK
<1>12. ASSUME NEW p \in Procs, Rmdir(p) PROVE RegistryTypeOK'
  BY <1>12 DEF Rmdir, At, Goto, FileUnchanged, RegistryTypeOK
<1>13. ASSUME NEW p \in Procs, Confirm(p) PROVE RegistryTypeOK'
  BY <1>13 DEF Confirm, At, Goto, FileUnchanged, RegistryTypeOK
<1>14. ASSUME NEW p \in Procs, Late(p) PROVE RegistryTypeOK'
  BY <1>14 DEF Late, At, Goto, FileUnchanged, RegistryTypeOK
<1>15. ASSUME NEW p \in Procs, Kill(p) PROVE RegistryTypeOK'
  BY <1>15, <1>0 DEF Kill, At, Goto, FileUnchanged, RegistryTypeOK
<1>16. ASSUME NEW p \in Procs, DecideSome(p) PROVE RegistryTypeOK'
  <2>1. PICK saved, line : Outcome(board, saved, line) /\ Decide(p, saved, line)
    BY <1>16, DecideIsOutcome
  <2>2. IsBoard(saved)
    BY <2>1, OutcomeIsBoard DEF RegistryTypeOK
  <2> QED BY <2>1, <2>2 DEF Decide, At, Goto, FileUnchanged, RegistryTypeOK
<1>17. CASE GrowStale
  BY <1>17 DEF GrowStale, At, Goto, FileUnchanged, RegistryTypeOK
<1>18. CASE UNCHANGED vars
  BY <1>18 DEF vars, RegistryTypeOK
<1> QED
  BY <1>1, <1>2, <1>3, <1>4, <1>5, <1>6, <1>7, <1>8, <1>9, <1>10, <1>11, <1>12, <1>13,
     <1>14, <1>15, <1>16, <1>17, <1>18
     DEF RegistryNext, Step, DecideSome

(* Every variable has its type, for any number of commands: in particular    *)
(* what the tool saves is always a board of well-formed tasks.               *)
THEOREM RegistryTypes == RegistrySpec => []RegistryTypeOK
BY TypesInit, TypesStep, PTL DEF RegistrySpec

(* The next command never lists a task that claim would refuse.              *)
THEOREM ClaimableListIsRight == RegistrySpec => []NextListsClaimable
<1>1. NextListsClaimable
  BY ClaimableCanBeClaimed DEF NextListsClaimable
<1> QED BY <1>1, PTL

(* The lock's invariant holds of every step when at most two commands run.   *)
LEMMA LockStep ==
  ASSUME AtMostTwo, RegistryTypeOK, LockInv, [RegistryNext]_vars
  PROVE  LockInv'
<1> USE DEF Calls, Ended, NoLock, Unlinked, Removed, Waiting, Using
<1>0. /\ pc \in [Procs -> Calls \cup Ended]
      /\ lock \in [exists : BOOLEAN, info : BOOLEAN, stale : BOOLEAN]
  BY DEF RegistryTypeOK
<1>1. ASSUME NEW p \in Procs, Mkdir(p) PROVE LockInv'
  BY <1>0, <1>1 DEF Mkdir, AtMostTwo, At, Goto, FileUnchanged, LockInv, Entered
<1>2. ASSUME NEW p \in Procs, WriteInfo(p) PROVE LockInv'
  <2>1. CASE lock.exists
    <3>1. /\ pc[p] = "info" /\ pc' = [pc EXCEPT ![p] = "load"]
          /\ lock'.exists /\ ~lock'.stale
      BY <1>2, <2>1 DEF WriteInfo, At, Goto
    <3> QED BY <1>0, <3>1 DEF AtMostTwo, LockInv, Entered
  <2>2. CASE ~lock.exists
    BY <1>0, <1>2, <2>2 DEF WriteInfo, AtMostTwo, At, Goto, LockInv, Entered
  <2> QED BY <2>1, <2>2
<1>3. ASSUME NEW p \in Procs, Stat(p) PROVE LockInv'
  BY <1>0, <1>3 DEF Stat, AtMostTwo, At, Goto, FileUnchanged, LockInv, Entered
<1>4. ASSUME NEW p \in Procs, StaleUnlink(p) PROVE LockInv'
  BY <1>0, <1>4 DEF StaleUnlink, AtMostTwo, At, Goto, FileUnchanged, LockInv, Entered
<1>5. ASSUME NEW p \in Procs, StaleRmdir(p) PROVE LockInv'
  BY <1>0, <1>5 DEF StaleRmdir, AtMostTwo, At, Goto, FileUnchanged, LockInv, Entered
<1>6. ASSUME NEW p \in Procs, Deadline(p) PROVE LockInv'
  BY <1>0, <1>6 DEF Deadline, AtMostTwo, At, Goto, FileUnchanged, LockInv, Entered
<1>7. ASSUME NEW p \in Procs, Refuse(p) PROVE LockInv'
  BY <1>0, <1>7 DEF Refuse, AtMostTwo, At, Goto, FileUnchanged, LockInv, Entered
<1>8. ASSUME NEW p \in Procs, Truncate(p) PROVE LockInv'
  BY <1>0, <1>8 DEF Truncate, AtMostTwo, At, Goto, FileUnchanged, LockInv, Entered
<1>9. ASSUME NEW p \in Procs, Write(p) PROVE LockInv'
  BY <1>0, <1>9 DEF Write, AtMostTwo, At, Goto, FileUnchanged, LockInv, Entered
<1>10. ASSUME NEW p \in Procs, Unlink(p) PROVE LockInv'
  BY <1>0, <1>10 DEF Unlink, AtMostTwo, At, Goto, FileUnchanged, LockInv, Entered
<1>11. ASSUME NEW p \in Procs, UnlinkFails(p) PROVE LockInv'
  BY <1>0, <1>11 DEF UnlinkFails, AtMostTwo, At, Goto, FileUnchanged, LockInv, Entered
<1>12. ASSUME NEW p \in Procs, Rmdir(p) PROVE LockInv'
  BY <1>0, <1>12 DEF Rmdir, AtMostTwo, At, Goto, FileUnchanged, LockInv, Entered
<1>13. ASSUME NEW p \in Procs, Confirm(p) PROVE LockInv'
  BY <1>0, <1>13 DEF Confirm, AtMostTwo, At, Goto, FileUnchanged, LockInv, Entered
<1>14. ASSUME NEW p \in Procs, Late(p) PROVE LockInv'
  BY <1>0, <1>14 DEF Late, AtMostTwo, At, Goto, FileUnchanged, LockInv, Entered
<1>15. ASSUME NEW p \in Procs, Kill(p) PROVE LockInv'
  BY <1>0, <1>15 DEF Kill, AtMostTwo, At, Goto, FileUnchanged, LockInv, Entered
<1>16. ASSUME NEW p \in Procs, DecideSome(p) PROVE LockInv'
  <2>1. PICK saved, line : At(p, "load") /\ Decide(p, saved, line)
    BY <1>16, DecideIsOutcome
  <2> QED BY <1>0, <2>1 DEF Decide, AtMostTwo, At, Goto, FileUnchanged, LockInv, Entered
<1>17. CASE GrowStale
  BY <1>0, <1>17 DEF GrowStale, At, Goto, FileUnchanged, LockInv, Entered
<1>18. CASE UNCHANGED vars
  BY <1>18 DEF vars, LockInv, Entered
<1> QED
  BY <1>1, <1>2, <1>3, <1>4, <1>5, <1>6, <1>7, <1>8, <1>9, <1>10, <1>11, <1>12, <1>13,
     <1>14, <1>15, <1>16, <1>17, <1>18
     DEF RegistryNext, Step, DecideSome

(* Only the command that holds the lock changes the board, so what it read   *)
(* is still there when it writes.                                            *)
LEMMA TodoStep ==
  ASSUME RegistryTypeOK, LockInv, TodoInv, [RegistryNext]_vars
  PROVE  TodoInv'
<1> USE DEF Calls, Ended
<1>0. pc \in [Procs -> Calls \cup Ended] /\ DOMAIN todo = Procs
  BY DEF RegistryTypeOK
<1>1. ASSUME NEW p \in Procs, Mkdir(p) PROVE TodoInv'
  BY <1>0, <1>1 DEF Mkdir, At, Goto, FileUnchanged, TodoInv
<1>2. ASSUME NEW p \in Procs, WriteInfo(p) PROVE TodoInv'
  BY <1>0, <1>2 DEF WriteInfo, At, Goto, FileUnchanged, TodoInv
<1>3. ASSUME NEW p \in Procs, Stat(p) PROVE TodoInv'
  BY <1>0, <1>3 DEF Stat, At, Goto, FileUnchanged, TodoInv
<1>4. ASSUME NEW p \in Procs, StaleUnlink(p) PROVE TodoInv'
  BY <1>0, <1>4 DEF StaleUnlink, At, Goto, FileUnchanged, TodoInv
<1>5. ASSUME NEW p \in Procs, StaleRmdir(p) PROVE TodoInv'
  BY <1>0, <1>5 DEF StaleRmdir, At, Goto, FileUnchanged, TodoInv
<1>6. ASSUME NEW p \in Procs, Deadline(p) PROVE TodoInv'
  BY <1>0, <1>6 DEF Deadline, At, Goto, FileUnchanged, TodoInv
<1>7. ASSUME NEW p \in Procs, Refuse(p) PROVE TodoInv'
  BY <1>0, <1>7 DEF Refuse, At, Goto, FileUnchanged, TodoInv
<1>8. ASSUME NEW p \in Procs, Truncate(p) PROVE TodoInv'
  BY <1>0, <1>8 DEF Truncate, At, Goto, FileUnchanged, TodoInv
<1>9. ASSUME NEW p \in Procs, Write(p) PROVE TodoInv'
  <2>1. \A q \in Procs : pc'[q] \notin {"truncate", "write"}
    BY <1>0, <1>9 DEF Write, At, Goto, LockInv, Entered
  <2> QED BY <2>1 DEF TodoInv
<1>10. ASSUME NEW p \in Procs, Unlink(p) PROVE TodoInv'
  BY <1>0, <1>10 DEF Unlink, At, Goto, FileUnchanged, TodoInv
<1>11. ASSUME NEW p \in Procs, UnlinkFails(p) PROVE TodoInv'
  BY <1>0, <1>11 DEF UnlinkFails, At, Goto, FileUnchanged, TodoInv
<1>12. ASSUME NEW p \in Procs, Rmdir(p) PROVE TodoInv'
  BY <1>0, <1>12 DEF Rmdir, At, Goto, FileUnchanged, TodoInv
<1>13. ASSUME NEW p \in Procs, Confirm(p) PROVE TodoInv'
  BY <1>0, <1>13 DEF Confirm, At, Goto, FileUnchanged, TodoInv
<1>14. ASSUME NEW p \in Procs, Late(p) PROVE TodoInv'
  BY <1>0, <1>14 DEF Late, At, Goto, FileUnchanged, TodoInv
<1>15. ASSUME NEW p \in Procs, Kill(p) PROVE TodoInv'
  BY <1>0, <1>15 DEF Kill, At, Goto, FileUnchanged, TodoInv
<1>16. ASSUME NEW p \in Procs, DecideSome(p) PROVE TodoInv'
  <2>1. PICK saved, line : Outcome(board, saved, line) /\ Decide(p, saved, line)
    BY <1>16, DecideIsOutcome
  <2> QED BY <1>0, <2>1 DEF Decide, At, Goto, FileUnchanged, TodoInv
<1>17. CASE GrowStale
  BY <1>17 DEF GrowStale, At, Goto, FileUnchanged, TodoInv
<1>18. CASE UNCHANGED vars
  BY <1>18 DEF vars, TodoInv
<1> QED
  BY <1>1, <1>2, <1>3, <1>4, <1>5, <1>6, <1>7, <1>8, <1>9, <1>10, <1>11, <1>12, <1>13,
     <1>14, <1>15, <1>16, <1>17, <1>18
     DEF RegistryNext, Step, DecideSome

(* A step that changes the board is a whole command of TaskBoard.            *)
LEMMA StepIsCommand ==
  ASSUME RegistryTypeOK, TodoInv, [RegistryNext]_vars
  PROVE  [Next]_boardVars
<1>1. ASSUME NEW p \in Procs, Write(p) PROVE Next
  <2>1. Outcome(board, board', last')
    BY <1>1 DEF Write, At, TodoInv
  <2> QED BY <2>1, OutcomeIsStep
<1>2. ASSUME NEW p \in Procs, DecideSome(p) PROVE UNCHANGED boardVars
  BY <1>2, DecideIsOutcome DEF Decide, FileUnchanged, boardVars
<1>3. CASE \/ \E p \in Procs : \/ Mkdir(p) \/ WriteInfo(p) \/ Stat(p) \/ StaleUnlink(p)
                               \/ StaleRmdir(p) \/ Deadline(p) \/ Refuse(p) \/ Truncate(p)
                               \/ Unlink(p) \/ UnlinkFails(p) \/ Rmdir(p) \/ Confirm(p)
                               \/ Late(p) \/ Kill(p)
           \/ GrowStale \/ UNCHANGED vars
  BY <1>3 DEF Mkdir, WriteInfo, Stat, StaleUnlink, StaleRmdir, Deadline, Refuse, Truncate,
              Unlink, UnlinkFails, Rmdir, Confirm, Late, Kill, GrowStale, vars,
              FileUnchanged, boardVars
<1> QED BY <1>1, <1>2, <1>3 DEF RegistryNext, Step, DecideSome

LEMMA TwoCommandsInvariant ==
  ASSUME AtMostTwo
  PROVE  RegistrySpec => [](RegistryTypeOK /\ LockInv /\ TodoInv)
<1>1. RegistryInit => LockInv /\ TodoInv
  BY DEF RegistryInit, NoLock, LockInv, TodoInv, Entered, Waiting, Using, Ended
<1>2. RegistryTypeOK /\ LockInv /\ TodoInv /\ [RegistryNext]_vars
        => (RegistryTypeOK /\ LockInv /\ TodoInv)'
  BY TypesStep, LockStep, TodoStep
<1> QED BY <1>1, <1>2, TypesInit, PTL DEF RegistrySpec

(* Two commands that overlap, killed or not, are never both between acquire  *)
(* and release (withRegistryLock).                                           *)
THEOREM TwoCommandsExclude ==
  ASSUME AtMostTwo
  PROVE  RegistrySpec => []MutualExclusion
<1>1. LockInv => MutualExclusion
  BY DEF LockInv, Entered, MutualExclusion, Critical
<1> QED BY <1>1, TwoCommandsInvariant, PTL

(* Two commands that overlap behave as one after the other: two claims of a  *)
(* task cannot both succeed, whatever the board.                             *)
THEOREM TwoCommandsAreAtomic ==
  ASSUME AtMostTwo
  PROVE  RegistrySpec => AtomicCommands
<1>1. RegistryInit => Init
  BY DEF RegistryInit
<1> QED
  BY <1>1, StepIsCommand, TwoCommandsInvariant, PTL DEF RegistrySpec, AtomicCommands, Spec

-----------------------------------------------------------------------------
(* What the control command has accepted. *)

(* No task leaves the board or DONE.                                         *)
Kept(b, saved) ==
  /\ DOMAIN b \subseteq DOMAIN saved
  /\ \A id \in DOMAIN b : b[id].status = "DONE" => saved[id].status = "DONE"

LEMMA DoneIsFinal ==
  \A to : ~IsValidTransition("DONE", to)
BY DEF IsValidTransition, TRANSITIONS

LEMMA TransitionedKeeps ==
  ASSUME NEW b, IsBoard(b), NEW t, NEW to, TransitionAllowed(b, t, to)
  PROVE  Kept(b, Transitioned(b, t, to))
<1>1. b[t].status # "DONE"
  BY DoneIsFinal DEF TransitionAllowed
<1> QED BY <1>1 DEF Transitioned, Kept, IsBoard

LEMMA AdmittedKeeps ==
  ASSUME NEW b, IsBoard(b), NEW t, AdmitAllowed(b, t)
  PROVE  Kept(b, Transitioned(b, t, "READY"))
<1> DEFINE walk == AdmissionWalk(b[t].status)
<1>1. t \in DOMAIN b /\ \A i \in 1 .. Len(walk) - 1 : IsValidTransition(walk[i], walk[i + 1])
  BY DEF AdmitAllowed
<1>2. walk[1] = b[t].status /\ Len(walk) \in 2 .. 4
  BY DEF AdmissionWalk
<1>3. IsValidTransition(b[t].status, walk[2])
  BY <1>1, <1>2
<1>4. b[t].status # "DONE"
  BY <1>3, DoneIsFinal
<1> QED BY <1>1, <1>4 DEF Transitioned, Kept, IsBoard

LEMMA OutcomeKeeps ==
  ASSUME NEW b, IsBoard(b), NEW saved, NEW line, Outcome(b, saved, line)
  PROVE  Kept(b, saved)
<1>1. CASE \E t \in Tasks : AdmitAllowed(b, t) /\ saved = Transitioned(b, t, "READY")
  BY <1>1, AdmittedKeeps
<1>2. CASE \E t \in Tasks, agent \in Agents : ClaimAllowed(b, t) /\ saved = Claimed(b, t, agent)
  <2>1. PICK t \in Tasks, agent \in Agents : ClaimAllowed(b, t) /\ saved = Claimed(b, t, agent)
    BY <1>2
  <2>2. b[t].status # "DONE"
    BY <2>1, DoneIsFinal DEF ClaimAllowed, TransitionAllowed
  <2> QED BY <2>1, <2>2 DEF Claimed, Kept, IsBoard
<1>3. CASE \E t \in Tasks, agent \in Agents, gates \in BOOLEAN :
             HandoffAllowed(b, t) /\ saved = HandedOff(b, t, agent, gates)
  <2>1. PICK t \in Tasks, agent \in Agents, gates \in BOOLEAN :
               HandoffAllowed(b, t) /\ saved = HandedOff(b, t, agent, gates)
    BY <1>3
  <2>2. b[t].status # "DONE"
    BY <2>1, DoneIsFinal DEF HandoffAllowed, TransitionAllowed
  <2> QED BY <2>1, <2>2 DEF HandedOff, Kept, IsBoard
<1>4. CASE \E t \in Tasks, to \in BlockTypes \cup TASK_STATES :
             TransitionAllowed(b, t, to) /\ saved = Transitioned(b, t, to)
  BY <1>4, TransitionedKeeps
<1>5. CASE \E t \in Tasks, agent \in Agents : t \in DOMAIN b /\ saved = Reassigned(b, t, agent)
  BY <1>5 DEF Reassigned, Kept, IsBoard, TaskRows
<1>6. CASE \E t \in Tasks, kind \in {"blocking", "open"} :
             t \in DOMAIN b /\ saved = WithDiscovery(b, t, kind)
  BY <1>6 DEF WithDiscovery, Kept, IsBoard, TaskRows
<1>7. CASE \E t, source \in Tasks, agent \in Agents, deps \in SUBSET Tasks :
             CreateChildAllowed(b, t, source) /\ saved = WithChild(b, t, agent, deps)
  BY <1>7 DEF CreateChildAllowed, WithChild, Kept
<1> QED BY <1>1, <1>2, <1>3, <1>4, <1>5, <1>6, <1>7 DEF Outcome

LEMMA KeptIsAccepted ==
  ASSUME NEW b, NEW saved, Kept(b, saved), ControlPlaneAccepted(b)
  PROVE  ControlPlaneAccepted(saved)
<1>1. ASSUME NEW i \in 1 .. Len(Reviews) PROVE ArtifactAccepted(Reviews[i], saved)
  <2> DEFINE artifact == Reviews[i]
  <2>1. ArtifactAccepted(artifact, b)
    BY DEF ControlPlaneAccepted
  <2>2. artifact.tasks \cup artifact.follow_ups \subseteq DOMAIN saved
    BY <2>1 DEF ArtifactAccepted, Kept
  <2>3. artifact.decision = "PASS" => PassJustified(artifact, saved)
    BY <2>1 DEF ArtifactAccepted, PassJustified, Kept
  <2> QED BY <2>1, <2>2, <2>3 DEF ArtifactAccepted
<1> QED BY <1>1 DEF ControlPlaneAccepted

LEMMA NextIsOutcome ==
  ASSUME IsBoard(board), Next
  PROVE  Outcome(board, board', last')
BY DEF Outcome, Next, Admit, Claim, Handoff, Block, Move, Reassign, AddDiscovery, CreateChildTask

(* A review that the control command has accepted is not taken back by two   *)
(* commands that overlap, whatever they are (PassJustified asks for DONE).   *)
THEOREM PassedReviewsStand ==
  ASSUME AtMostTwo
  PROVE  RegistrySpec => PassedReviewStands
<1>1. ASSUME RegistryTypeOK, [Next]_boardVars
      PROVE  [ControlPlaneAccepted(board) => ControlPlaneAccepted(board')]_boardVars
  <2>1. CASE Next
    BY <1>1, <2>1, NextIsOutcome, OutcomeKeeps, KeptIsAccepted DEF RegistryTypeOK
  <2>2. CASE UNCHANGED boardVars
    BY <2>2
  <2> QED BY <1>1, <2>1, <2>2
<1>2. RegistrySpec => [][Next]_boardVars
  BY TwoCommandsAreAtomic, PTL DEF AtomicCommands, Spec
<1> QED BY <1>1, <1>2, RegistryTypes, PTL DEF PassedReviewStands

-----------------------------------------------------------------------------
(* The lock is always somebody's to remove: whoever makes the directory, or  *)
(* writes into one that has become another's, has all its attempts before    *)
(* it, and each one that fails uses up a fault.                              *)

(* The attempts that p is at or may still have to make.                      *)
Needed(p) == attempt[p] + (MaxFaults - faults)

WillRemove(p) ==
  \/ pc[p] \in {"killed", "info"}
  \/ pc[p] \in {"load", "truncate", "write", "unlink"} /\ Needed(p) <= MaxAttempts
  \/ pc[p] = "rmdir" /\ (lock.info => Needed(p) < MaxAttempts)
  \/ pc[p] = "exists" /\ Needed(p) < MaxAttempts

SomebodyRemoves == lock.exists => \E p \in Procs : WillRemove(p)

FirstAttempt ==
  \A p \in Procs : pc[p] \notin {"unlink", "rmdir", "exists"} => attempt[p] = 1

RemovalInv == SomebodyRemoves /\ FirstAttempt

(* What p does to a lock that it does not make or mark as its own.           *)
LEMMA SomebodyStill ==
  ASSUME RegistryTypeOK, SomebodyRemoves, NEW p \in Procs, NEW call, Goto(p, call),
         lock'.exists => lock.exists, lock'.info => lock.info,
         \A q \in Procs : q # p => attempt'[q] = attempt[q],
         faults' \in {faults, faults + 1},
         lock'.exists /\ WillRemove(p) => WillRemove(p)'
  PROVE  SomebodyRemoves'
<1> SUFFICES ASSUME lock'.exists PROVE \E q \in Procs : WillRemove(q)'
  BY DEF SomebodyRemoves
<1>1. PICK q \in Procs : WillRemove(q)  BY DEF SomebodyRemoves
<1>2. CASE q = p  BY <1>1, <1>2
<1>3. CASE q # p
  <2>1. pc'[q] = pc[q] /\ attempt'[q] = attempt[q]  BY <1>3 DEF Goto, RegistryTypeOK
  <2>2. Needed(q)' <= Needed(q) /\ Needed(q) \in Int /\ Needed(q)' \in Int
    BY <2>1, RegistryCommandsAssumption DEF RegistryTypeOK, Needed
  <2>3. WillRemove(q)'
    BY <1>1, <2>1, <2>2, RegistryCommandsAssumption DEF WillRemove
  <2> QED  BY <2>3
<1> QED  BY <1>2, <1>3

LEMMA AttemptsStay ==
  ASSUME RegistryTypeOK, FirstAttempt, NEW p \in Procs, NEW call, Goto(p, call),
         attempt' = attempt,
         call \notin {"unlink", "rmdir", "exists"} => attempt[p] = 1
  PROVE  FirstAttempt'
BY DEF FirstAttempt, Goto, RegistryTypeOK

(* The steps that wait for the lock, or read and write the file.             *)
LEMMA LockIsLeftAlone ==
  ASSUME RegistryTypeOK, RemovalInv, NEW p \in Procs, NEW call, Goto(p, call),
         lock'.exists => lock.exists, lock'.info => lock.info,
         UNCHANGED <<attempt, faults>>,
         \/ pc[p] \in Waiting /\ call \in Waiting \cup {"failed"}
         \/ pc[p] \in {"load", "truncate", "write"} /\ call \in {"truncate", "write", "unlink"}
  PROVE  RemovalInv'
<1>1. pc'[p] = call /\ attempt'[p] = attempt[p]  BY DEF Goto, RegistryTypeOK
<1>2. WillRemove(p) => WillRemove(p)'
  BY <1>1 DEF WillRemove, Needed, Waiting
<1>3. call \notin {"unlink", "rmdir", "exists"} => attempt[p] = 1
  BY DEF RemovalInv, FirstAttempt, Waiting
<1>4. SomebodyRemoves'  BY <1>2, SomebodyStill DEF RemovalInv
<1>5. FirstAttempt'  BY <1>3, AttemptsStay DEF RemovalInv
<1> QED  BY <1>4, <1>5 DEF RemovalInv

LEMMA LockValues ==
  ASSUME RegistryTypeOK
  PROVE  /\ Unlinked.exists = lock.exists /\ Unlinked.info = FALSE
         /\ Removed.exists => lock.exists /\ lock.info /\ Removed = lock
         /\ Removed.info => lock.info
BY DEF RegistryTypeOK, Unlinked, Removed, NoLock

LEMMA WaitingStep ==
  ASSUME RegistryTypeOK, RemovalInv, NEW p \in Procs,
         \/ Stat(p) \/ StaleUnlink(p) \/ StaleRmdir(p) \/ Deadline(p) \/ (Mkdir(p) /\ lock.exists)
  PROVE  RemovalInv'
<1>1. PICK call \in Waiting \cup {"failed"} : Goto(p, call)
  BY DEF Stat, StaleUnlink, StaleRmdir, Deadline, Mkdir, Waiting
<1>2. pc[p] \in Waiting /\ UNCHANGED <<attempt, faults>>
  BY DEF Stat, StaleUnlink, StaleRmdir, Deadline, Mkdir, Waiting, At
<1>3. (lock'.exists => lock.exists) /\ (lock'.info => lock.info)
  BY LockValues DEF Stat, StaleUnlink, StaleRmdir, Deadline, Mkdir
<1> QED  BY <1>1, <1>2, <1>3, LockIsLeftAlone

LEMMA FileStep ==
  ASSUME RegistryTypeOK, RemovalInv, NEW p \in Procs,
         Refuse(p) \/ DecideSome(p) \/ Truncate(p) \/ Write(p)
  PROVE  RemovalInv'
<1>1. CASE Refuse(p) \/ Truncate(p) \/ Write(p)
  <2>1. PICK call \in {"truncate", "write", "unlink"} : Goto(p, call)
    BY <1>1 DEF Refuse, Truncate, Write
  <2>2. pc[p] \in {"load", "truncate", "write"} /\ UNCHANGED <<attempt, faults, lock>>
    BY <1>1 DEF Refuse, Truncate, Write, At
  <2> QED  BY <2>1, <2>2, LockIsLeftAlone
<1>2. CASE DecideSome(p)
  <2>1. PICK saved, line : Outcome(board, saved, line) /\ Decide(p, saved, line)
    BY <1>2, DecideIsOutcome
  <2>2. pc[p] = "load"
    BY <1>2 DEF DecideSome, DecideAdmit, DecideClaim, DecideHandoff, DecideBlock, DecideMove,
                DecideReassign, DecideAddDiscovery, DecideCreateChildTask, Load, At
  <2>3. Goto(p, "truncate") /\ UNCHANGED <<attempt, faults, lock>>  BY <2>1 DEF Decide
  <2> QED  BY <2>2, <2>3, LockIsLeftAlone
<1> QED  BY <1>1, <1>2

LEMMA TakeStep ==
  ASSUME MaxFaults < MaxAttempts, RegistryTypeOK, RemovalInv, NEW p \in Procs,
         (Mkdir(p) /\ ~lock.exists) \/ WriteInfo(p)
  PROVE  RemovalInv'
<1>1. UNCHANGED <<attempt, faults>> /\ attempt[p] = 1
  BY DEF Mkdir, WriteInfo, At, RemovalInv, FirstAttempt
<1>2. Needed(p)' <= MaxAttempts
  BY <1>1, RegistryCommandsAssumption DEF RegistryTypeOK, Needed
<1>3. CASE Mkdir(p) /\ ~lock.exists
  <2>1. Goto(p, "info")  BY <1>3 DEF Mkdir
  <2>2. WillRemove(p)'  BY <2>1 DEF Goto, RegistryTypeOK, WillRemove
  <2>3. FirstAttempt'  BY <1>1, <2>1, AttemptsStay DEF RemovalInv
  <2> QED  BY <2>2, <2>3 DEF RemovalInv, SomebodyRemoves
<1>4. CASE WriteInfo(p) /\ lock.exists
  <2>1. Goto(p, "load")  BY <1>4 DEF WriteInfo
  <2>2. WillRemove(p)'  BY <1>2, <2>1 DEF Goto, RegistryTypeOK, WillRemove
  <2>3. FirstAttempt'  BY <1>1, <2>1, AttemptsStay DEF RemovalInv
  <2> QED  BY <2>2, <2>3 DEF RemovalInv, SomebodyRemoves
<1>5. CASE WriteInfo(p) /\ ~lock.exists
  <2>1. Goto(p, "failed") /\ lock' = lock  BY <1>5 DEF WriteInfo
  <2>2. FirstAttempt'  BY <1>1, <2>1, AttemptsStay DEF RemovalInv
  <2> QED  BY <1>5, <2>1, <2>2 DEF RemovalInv, SomebodyRemoves
<1> QED  BY <1>3, <1>4, <1>5

LEMMA ReleaseStep ==
  ASSUME RegistryTypeOK, RemovalInv, NEW p \in Procs,
         Unlink(p) \/ UnlinkFails(p) \/ Rmdir(p) \/ Confirm(p)
  PROVE  RemovalInv'
<1>1. /\ attempt \in [Procs -> 1 .. MaxAttempts] /\ faults \in 0 .. MaxFaults
      /\ MaxAttempts \in Nat /\ MaxFaults \in Nat /\ pc \in [Procs -> Calls \cup Ended]
  BY RegistryCommandsAssumption DEF RegistryTypeOK
<1>2. CASE Unlink(p)
  <2>1. Goto(p, "rmdir") /\ lock' = Unlinked /\ UNCHANGED <<attempt, faults>>
    BY <1>2 DEF Unlink
  <2>2. WillRemove(p)'  BY <1>1, <2>1, LockValues DEF Goto, WillRemove
  <2>3. SomebodyRemoves'  BY <2>1, <2>2, LockValues, SomebodyStill DEF RemovalInv
  <2>4. FirstAttempt'  BY <2>1, AttemptsStay DEF RemovalInv
  <2> QED  BY <2>3, <2>4 DEF RemovalInv
<1>3. CASE UnlinkFails(p)
  <2>1. /\ Goto(p, "rmdir") /\ lock' = lock /\ attempt' = attempt /\ faults' = faults + 1
        /\ pc[p] = "unlink"
    BY <1>3 DEF UnlinkFails, At
  <2>2. Needed(p)' = Needed(p) - 1 /\ Needed(p) \in Int
    BY <1>1, <2>1 DEF Needed
  <2>3. WillRemove(p) => WillRemove(p)'
    BY <1>1, <2>1, <2>2 DEF Goto, WillRemove
  <2>4. SomebodyRemoves'  BY <2>1, <2>3, SomebodyStill DEF RemovalInv
  <2>5. FirstAttempt'  BY <2>1, AttemptsStay DEF RemovalInv
  <2> QED  BY <2>4, <2>5 DEF RemovalInv
<1>4. CASE Rmdir(p)
  <2>1. /\ Goto(p, "exists") /\ lock' = Removed /\ UNCHANGED <<attempt, faults>>
        /\ pc[p] = "rmdir"
    BY <1>4 DEF Rmdir, At
  <2>2. lock'.exists /\ WillRemove(p) => WillRemove(p)'
    BY <1>1, <2>1, LockValues DEF Goto, WillRemove, Needed
  <2>3. SomebodyRemoves'  BY <2>1, <2>2, LockValues, SomebodyStill DEF RemovalInv
  <2>4. FirstAttempt'  BY <2>1, AttemptsStay DEF RemovalInv
  <2> QED  BY <2>3, <2>4 DEF RemovalInv
<1>5. CASE Confirm(p)
  <2>1. lock' = lock /\ faults' = faults /\ pc[p] = "exists"
    BY <1>5 DEF Confirm, At
  <2>2. CASE lock.exists /\ attempt[p] < MaxAttempts
    <3>1. Goto(p, "unlink") /\ attempt' = [attempt EXCEPT ![p] = @ + 1]
      BY <1>5, <2>2 DEF Confirm
    <3>2. attempt'[p] = attempt[p] + 1 /\ \A q \in Procs : q # p => attempt'[q] = attempt[q]
      BY <1>1, <3>1
    <3>3. Needed(p)' = Needed(p) + 1 /\ Needed(p) \in Int
      BY <1>1, <2>1, <3>2 DEF Needed
    <3>4. WillRemove(p) => WillRemove(p)'
      BY <1>1, <2>1, <3>1, <3>3 DEF Goto, WillRemove
    <3>5. SomebodyRemoves'  BY <2>1, <3>1, <3>2, <3>4, SomebodyStill DEF RemovalInv
    <3>6. FirstAttempt'
      BY <1>1, <3>1, <3>2 DEF Goto, RemovalInv, FirstAttempt
    <3> QED  BY <3>5, <3>6 DEF RemovalInv
  <2>3. CASE ~(lock.exists /\ attempt[p] < MaxAttempts)
    <3>1. Goto(p, "done") /\ attempt' = [attempt EXCEPT ![p] = 1]
      BY <1>5, <2>3 DEF Confirm
    <3>2. attempt'[p] = 1 /\ \A q \in Procs : q # p => attempt'[q] = attempt[q]
      BY <1>1, <3>1
    <3>3. lock'.exists => ~WillRemove(p)
      <4>1. lock.exists => Needed(p) >= MaxAttempts  BY <1>1, <2>3 DEF Needed
      <4>2. Needed(p) \in Int  BY <1>1 DEF Needed
      <4> QED  BY <1>1, <2>1, <4>1, <4>2 DEF WillRemove
    <3>4. SomebodyRemoves'  BY <2>1, <3>1, <3>2, <3>3, SomebodyStill DEF RemovalInv
    <3>5. FirstAttempt'
      BY <1>1, <3>1, <3>2 DEF Goto, RemovalInv, FirstAttempt
    <3> QED  BY <3>4, <3>5 DEF RemovalInv
  <2> QED  BY <2>2, <2>3
<1> QED  BY <1>2, <1>3, <1>4, <1>5

LEMMA KillStep ==
  ASSUME RegistryTypeOK, RemovalInv, NEW p \in Procs, Kill(p)
  PROVE  RemovalInv'
<1>1. /\ Goto(p, "killed") /\ UNCHANGED <<lock, faults>>
      /\ attempt' = [attempt EXCEPT ![p] = 1]
  BY DEF Kill
<1>2. attempt'[p] = 1 /\ \A q \in Procs : q # p => attempt'[q] = attempt[q]
  BY <1>1 DEF RegistryTypeOK
<1>3. WillRemove(p)'  BY <1>1 DEF Goto, RegistryTypeOK, WillRemove
<1>4. SomebodyRemoves'  BY <1>1, <1>2, <1>3, SomebodyStill DEF RemovalInv
<1>5. FirstAttempt'  BY <1>1, <1>2 DEF Goto, RegistryTypeOK, RemovalInv, FirstAttempt
<1> QED  BY <1>4, <1>5 DEF RemovalInv

LEMMA RemovalStep ==
  ASSUME MaxFaults < MaxAttempts, RegistryTypeOK, RemovalInv, [RegistryNext]_vars
  PROVE  RemovalInv'
<1>1. CASE GrowStale \/ (\E p \in Procs : Late(p)) \/ UNCHANGED vars
  <2>1. /\ UNCHANGED <<pc, attempt, faults>>
        /\ lock'.exists = lock.exists /\ lock'.info = lock.info
    BY <1>1 DEF GrowStale, Late, vars, RegistryTypeOK
  <2> QED
    BY <2>1 DEF RemovalInv, SomebodyRemoves, FirstAttempt, WillRemove, Needed
<1>2. ASSUME NEW p \in Procs, Step(p) \/ Kill(p) PROVE RemovalInv'
  <2>1. \/ Stat(p) \/ StaleUnlink(p) \/ StaleRmdir(p) \/ Deadline(p) \/ (Mkdir(p) /\ lock.exists)
        \/ Refuse(p) \/ DecideSome(p) \/ Truncate(p) \/ Write(p)
        \/ (Mkdir(p) /\ ~lock.exists) \/ WriteInfo(p)
        \/ Unlink(p) \/ UnlinkFails(p) \/ Rmdir(p) \/ Confirm(p)
        \/ Kill(p)
    BY <1>2 DEF Step, DecideSome
  <2> QED  BY <2>1, WaitingStep, FileStep, TakeStep, ReleaseStep, KillStep
<1> QED  BY <1>1, <1>2 DEF RegistryNext

(* As long as fewer unlinks fail than release has attempts, commands that    *)
(* were not killed leave no lock, for any number of commands: a lock that    *)
(* one takes from another is still somebody's to remove (release's retries). *)
THEOREM NoLockIsLeft ==
  ASSUME MaxFaults < MaxAttempts
  PROVE  RegistrySpec => []NoLockLeft
<1>1. RegistryInit => RemovalInv
  BY DEF RegistryInit, NoLock, RemovalInv, SomebodyRemoves, FirstAttempt
<1>2. RegistryTypeOK /\ RemovalInv /\ [RegistryNext]_vars => (RegistryTypeOK /\ RemovalInv)'
  BY TypesStep, RemovalStep
<1>3. RemovalInv => NoLockLeft
  BY DEF RemovalInv, SomebodyRemoves, WillRemove, NoLockLeft
<1> QED  BY <1>1, <1>2, <1>3, TypesInit, PTL DEF RegistrySpec

=============================================================================
