----------------------------- MODULE RegistryCommands -----------------------------
(***************************************************************************)
(* The commands of the task registry as processes: each runs once, under   *)
(* the lock directory of lock.ts (withRegistryLock), reads the whole file, *)
(* and writes the whole file.  Every system call is a step.                *)
(*                                                                         *)
(* Assumed of time: a live command leaves its critical section within      *)
(* STALE_LOCK_MS (30 s), so only a lock that no live command is using      *)
(* grows stale.  Assumed of the disk: writeFileSync truncates the file and *)
(* then writes it.  The operators named ...Mutant are deliberate faults    *)
(* (see the README).                                                       *)
(***************************************************************************)
EXTENDS TaskBoard, FiniteSets

CONSTANTS
  Procs,        \* command processes
  MaxAttempts,  \* release's maxAttempts, 6 in the code
  MaxFaults,    \* bound: unlinks that fail because a file is held open
  MaxCrashes    \* bound: processes that are killed

ASSUME RegistryCommandsAssumption ==
  MaxAttempts \in Nat \ {0} /\ MaxFaults \in Nat /\ MaxCrashes \in Nat

VARIABLES
  torn,     \* the file is truncated and not written yet
  lock,     \* the lock directory
  pc,       \* the call a process is at
  todo,     \* the board and the line a command is about to save
  late,     \* its ten seconds of waiting for the lock are over
  attempt,  \* its attempt at removing the lock
  faults    \* unlinks that failed so far

vars == <<board, last, torn, lock, pc, todo, late, attempt, faults>>

Calls ==
  {"mkdir", "info", "stat", "staleUnlink", "staleRmdir", "deadline",
   "load", "truncate", "write", "unlink", "rmdir", "exists"}

Ended == {"done", "failed", "killed"}

Waiting == {"mkdir", "stat", "staleUnlink", "staleRmdir", "deadline"}

(* The calls between acquire's mkdir and the end of release.                 *)
Using == {"info", "load", "truncate", "write", "unlink", "rmdir", "exists"}

Critical(p) == pc[p] \in {"load", "truncate", "write"}

NothingToSave == [board |-> <<>>, line |-> None]

NoLock == [exists |-> FALSE, info |-> FALSE, stale |-> FALSE]

RegistryInit ==
  /\ Init
  /\ torn = FALSE
  /\ lock = NoLock
  /\ pc = [p \in Procs |-> "mkdir"]
  /\ todo = [p \in Procs |-> NothingToSave]
  /\ late = [p \in Procs |-> FALSE]
  /\ attempt = [p \in Procs |-> 1]
  /\ faults = 0

At(p, call) == pc[p] = call

Goto(p, call) == pc' = [pc EXCEPT ![p] = call]

FileUnchanged == UNCHANGED <<board, last, torn>>

-----------------------------------------------------------------------------
(* acquire *)

(* mkdirSync: EEXIST sends the command to wait.                              *)
MkdirMutant(p) ==
  /\ At(p, "mkdir")
  /\ Goto(p, "info")
  /\ lock' = [lock EXCEPT !.exists = TRUE, !.stale = FALSE]
  /\ FileUnchanged /\ UNCHANGED <<todo, late, attempt, faults>>

Mkdir(p) ==
  /\ At(p, "mkdir")
  /\ \/ lock.exists /\ Goto(p, "stat") /\ UNCHANGED <<lock, late>>
     \/ /\ ~lock.exists
        /\ Goto(p, "info")
        /\ lock' = [NoLock EXCEPT !.exists = TRUE]
        /\ late' = [late EXCEPT ![p] = FALSE]
  /\ FileUnchanged /\ UNCHANGED <<todo, attempt, faults>>

(* writeFileSync of the info file: ENOENT, should the directory be gone, is  *)
(* not EEXIST and ends the command.                                          *)
WriteInfo(p) ==
  /\ At(p, "info")
  /\ \/ lock.exists /\ Goto(p, "load") /\ lock' = [NoLock EXCEPT !.exists = TRUE, !.info = TRUE]
     \/ ~lock.exists /\ Goto(p, "failed") /\ UNCHANGED lock
  /\ FileUnchanged /\ UNCHANGED <<todo, late, attempt, faults>>

(* A lock that is old enough is removed; one that is gone is as good.        *)
Stat(p) ==
  /\ At(p, "stat")
  /\ Goto(p, IF lock.exists /\ lock.stale THEN "staleUnlink" ELSE "deadline")
  /\ FileUnchanged /\ UNCHANGED <<lock, todo, late, attempt, faults>>

(* Whoever holds the lock, removing its info file makes it look new.         *)
Unlinked == [lock EXCEPT !.info = FALSE, !.stale = @ /\ ~lock.info]

(* rmdirSync fails on a directory that is not empty.                         *)
Removed == IF lock.info THEN lock ELSE NoLock

StaleUnlink(p) ==
  /\ At(p, "staleUnlink")
  /\ Goto(p, "staleRmdir")
  /\ lock' = Unlinked
  /\ FileUnchanged /\ UNCHANGED <<todo, late, attempt, faults>>

StaleRmdir(p) ==
  /\ At(p, "staleRmdir")
  /\ Goto(p, "deadline")
  /\ lock' = Removed
  /\ FileUnchanged /\ UNCHANGED <<todo, late, attempt, faults>>

(* Every wait passes here: RegistryLockTimeoutError, or sleep and again.     *)
DeadlineMutant(p) ==
  /\ At(p, "deadline")
  /\ Goto(p, "mkdir")
  /\ FileUnchanged /\ UNCHANGED <<lock, todo, late, attempt, faults>>

Deadline(p) ==
  /\ At(p, "deadline")
  /\ Goto(p, IF late[p] THEN "failed" ELSE "mkdir")
  /\ FileUnchanged /\ UNCHANGED <<lock, todo, late, attempt, faults>>

-----------------------------------------------------------------------------
(* The command itself: loadRegistry, a decision, saveRegistry. *)

(* The command throws, or finds nothing to change.  A file that another      *)
(* process has truncated does not parse.                                     *)
Refuse(p) ==
  /\ At(p, "load")
  /\ Goto(p, "unlink")
  /\ FileUnchanged /\ UNCHANGED <<lock, todo, late, attempt, faults>>

Decide(p, saved, line) ==
  /\ Goto(p, "truncate")
  /\ todo' = [todo EXCEPT ![p] = [board |-> saved, line |-> line]]
  /\ FileUnchanged /\ UNCHANGED <<lock, late, attempt, faults>>

Load(p) == At(p, "load") /\ ~torn

DecideAdmit(p) ==
  /\ Load(p)
  /\ \E t \in Tasks :
       /\ AdmitAllowed(board, t)
       /\ Decide(p, Transitioned(board, t, "READY"), <<"admit", t>>)

DecideClaim(p) ==
  /\ Load(p)
  /\ \E t \in Tasks, agent \in Agents :
       /\ ClaimAllowed(board, t)
       /\ Decide(p, Claimed(board, t, agent), <<"claim", t, agent>>)

DecideHandoff(p) ==
  /\ Load(p)
  /\ \E t \in Tasks, agent \in Agents, gates \in BOOLEAN :
       /\ HandoffAllowed(board, t)
       /\ Decide(p, HandedOff(board, t, agent, gates), <<"handoff", t, agent>>)

DecideBlock(p) ==
  /\ Load(p)
  /\ \E t \in Tasks, to \in BlockTypes :
       /\ TransitionAllowed(board, t, to)
       /\ Decide(p, Transitioned(board, t, to), <<"block", t, to>>)

DecideMove(p) ==
  /\ Load(p)
  /\ \E t \in DOMAIN board : \E to \in TASK_STATES :
       /\ TransitionAllowed(board, t, to)
       /\ Decide(p, Transitioned(board, t, to), <<"move", t, to>>)

DecideReassign(p) ==
  /\ Load(p)
  /\ \E t \in DOMAIN board, agent \in Agents :
       Decide(p, Reassigned(board, t, agent), <<"reassign", t, agent>>)

DecideAddDiscovery(p) ==
  /\ Load(p)
  /\ \E t \in DOMAIN board, kind \in {"blocking", "open"} :
       Decide(p, WithDiscovery(board, t, kind), <<"add-discovery", t, kind>>)

DecideCreateChildTask(p) ==
  /\ Load(p)
  /\ \E t, source \in Tasks :
       /\ CreateChildAllowed(board, t, source)
       /\ \E agent \in Agents, deps \in SUBSET Tasks :
            Decide(p, WithChild(board, t, agent, deps), <<"create-child-task", t, source>>)

Truncate(p) ==
  /\ At(p, "truncate")
  /\ Goto(p, "write")
  /\ torn' = TRUE
  /\ UNCHANGED <<board, last, lock, todo, late, attempt, faults>>

Write(p) ==
  /\ At(p, "write")
  /\ Goto(p, "unlink")
  /\ board' = todo[p].board
  /\ last' = todo[p].line
  /\ torn' = FALSE
  /\ todo' = [todo EXCEPT ![p] = NothingToSave]
  /\ UNCHANGED <<lock, late, attempt, faults>>

-----------------------------------------------------------------------------
(* release *)

Unlink(p) ==
  /\ At(p, "unlink")
  /\ Goto(p, "rmdir")
  /\ lock' = Unlinked
  /\ FileUnchanged /\ UNCHANGED <<todo, late, attempt, faults>>

(* The info file is held open for a moment: the error is swallowed.          *)
UnlinkFails(p) ==
  /\ At(p, "unlink")
  /\ lock.info /\ faults < MaxFaults
  /\ Goto(p, "rmdir")
  /\ faults' = faults + 1
  /\ FileUnchanged /\ UNCHANGED <<lock, todo, late, attempt>>

Rmdir(p) ==
  /\ At(p, "rmdir")
  /\ Goto(p, "exists")
  /\ lock' = Removed
  /\ FileUnchanged /\ UNCHANGED <<todo, late, attempt, faults>>

(* existsSync: any lock directory, not only its own, is reason to try again. *)
ConfirmMutant(p) ==
  /\ At(p, "exists")
  /\ Goto(p, "done")
  /\ FileUnchanged /\ UNCHANGED <<lock, todo, late, attempt, faults>>

ConfirmOnceMoreMutant(p) ==
  /\ At(p, "exists")
  /\ IF lock.exists /\ attempt[p] <= MaxAttempts
     THEN Goto(p, "unlink") /\ attempt' = [attempt EXCEPT ![p] = @ + 1]
     ELSE Goto(p, "done") /\ attempt' = [attempt EXCEPT ![p] = 1]
  /\ FileUnchanged /\ UNCHANGED <<lock, todo, late, faults>>

Confirm(p) ==
  /\ At(p, "exists")
  /\ IF lock.exists /\ attempt[p] < MaxAttempts
     THEN Goto(p, "unlink") /\ attempt' = [attempt EXCEPT ![p] = @ + 1]
     ELSE Goto(p, "done") /\ attempt' = [attempt EXCEPT ![p] = 1]
  /\ FileUnchanged /\ UNCHANGED <<lock, todo, late, faults>>

-----------------------------------------------------------------------------
(* Time, and the processes' deaths. *)

Late(p) ==
  /\ pc[p] \in Waiting /\ ~late[p]
  /\ late' = [late EXCEPT ![p] = TRUE]
  /\ FileUnchanged /\ UNCHANGED <<lock, pc, todo, attempt, faults>>

GrowStale ==
  /\ lock.exists /\ ~lock.stale
  /\ \A p \in Procs : pc[p] \notin Using
  /\ lock' = [lock EXCEPT !.stale = TRUE]
  /\ FileUnchanged /\ UNCHANGED <<pc, todo, late, attempt, faults>>

(* What the process knew dies with it; the file and the lock stay.           *)
Kill(p) ==
  /\ pc[p] \in Calls
  /\ Cardinality({q \in Procs : pc[q] = "killed"}) < MaxCrashes
  /\ Goto(p, "killed")
  /\ todo' = [todo EXCEPT ![p] = NothingToSave]
  /\ late' = [late EXCEPT ![p] = FALSE]
  /\ attempt' = [attempt EXCEPT ![p] = 1]
  /\ FileUnchanged /\ UNCHANGED <<lock, faults>>

Step(p) ==
  \/ Mkdir(p) \/ WriteInfo(p) \/ Stat(p) \/ StaleUnlink(p) \/ StaleRmdir(p) \/ Deadline(p)
  \/ Refuse(p)
  \/ DecideAdmit(p) \/ DecideClaim(p) \/ DecideHandoff(p) \/ DecideBlock(p) \/ DecideMove(p)
  \/ DecideReassign(p) \/ DecideAddDiscovery(p) \/ DecideCreateChildTask(p)
  \/ Truncate(p) \/ Write(p)
  \/ Unlink(p) \/ UnlinkFails(p) \/ Rmdir(p) \/ Confirm(p)

RegistryNext ==
  \/ \E p \in Procs : Step(p) \/ Late(p) \/ Kill(p)
  \/ GrowStale

(* A process that is not killed keeps running and its clock keeps going.     *)
Fairness == \A p \in Procs : WF_vars(Step(p)) /\ WF_vars(Late(p))

RegistrySpec == RegistryInit /\ [][RegistryNext]_vars /\ Fairness

-----------------------------------------------------------------------------
(* Every variable has the values the code gives it. *)
RegistryTypeOK ==
  /\ IsBoard(board)
  /\ torn \in BOOLEAN
  /\ lock \in [exists : BOOLEAN, info : BOOLEAN, stale : BOOLEAN]
  /\ pc \in [Procs -> Calls \cup Ended]
  /\ DOMAIN todo = Procs /\ \A p \in Procs : IsBoard(todo[p].board)
  /\ late \in [Procs -> BOOLEAN]
  /\ attempt \in [Procs -> 1 .. MaxAttempts]
  /\ faults \in 0 .. MaxFaults

(* What a command saves is what it does to the file as it stands then: no    *)
(* command overwrites another's change, none acts on a status, a primary or  *)
(* a dependency that is no longer so, and the file never shows a state that  *)
(* is not the outcome of whole commands in some order (withRegistryLock).    *)
AtomicCommands == Spec

(* What the next command lists can be claimed: claimableTasks and the claim  *)
(* command, written apart, agree on which dependencies gate the start.       *)
NextListsClaimable == \A t \in ClaimableTasks(board) : ClaimAllowed(board, t)

(* Commands that were not killed leave no lock behind, whatever removals     *)
(* failed, took another's lock or were repeated: the next command does not   *)
(* wait out ten seconds and fail (release's retries).                        *)
NoLockLeft == (\A p \in Procs : pc[p] \in {"done", "failed"}) => ~lock.exists

(* A command ends, whoever holds the lock and whatever became of the holder: *)
(* no wait misses the deadline (the busy loop acquire was rewritten for).    *)
EveryCommandEnds == \A p \in Procs : <>(pc[p] \in Ended)

(* lock.ts:18 calls the lock directory a real mutex: never two commands      *)
(* between acquire and release.                                              *)
MutualExclusion == \A p, q \in Procs : Critical(p) /\ Critical(q) => p = q

=============================================================================
