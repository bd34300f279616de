--------------------------------- MODULE SignIn ---------------------------------
(***************************************************************************)
(* Signing in: auth.controller.ts, the throttle of auth/throttle.ts and    *)
(* the account rows of identity-repository.ts, for one email at one client *)
(* address, which is the throttle's key.  A sign-in is three steps of one  *)
(* request, with an await on each side of the middle one: the throttle's   *)
(* check, the transaction that verifies the password and issues a session, *)
(* and the throttle's record of the outcome.  The throttle is in memory: a *)
(* restart of the API loses it and the requests it was serving.            *)
(*                                                                         *)
(* Times are counted in units of the code's choosing; WINDOW_MS, BLOCK_MS  *)
(* and MAX_FAILURES are 15 minutes, 15 minutes and 10.  The operators      *)
(* named ...Mutant are deliberate faults (see the README).                 *)
(***************************************************************************)
EXTENDS Integers, Sequences, FiniteSets

CONSTANTS
  Requests,      \* sign-in requests that may overlap
  MAX_FAILURES,
  WINDOW_MS,
  BLOCK_MS,
  MaxTime        \* bound: how long the clock runs

ASSUME SignInAssumption ==
  /\ MAX_FAILURES \in Nat /\ MAX_FAILURES > 1
  /\ WINDOW_MS \in Nat /\ BLOCK_MS \in Nat \ {0} /\ MaxTime \in Nat
  /\ BLOCK_MS <= WINDOW_MS
  /\ IsFiniteSet(Requests)

VARIABLES
  now,      \* the clock of the API process
  account,  \* the status of the account, or "ABSENT"
  bucket,   \* the throttle's record of the key, or NoBucket
  pc,       \* the step a request is at
  failed    \* history: when failures were recorded since the bucket was last dropped

vars == <<now, account, bucket, pc, failed>>

AccountStatuses == {"PENDING_VERIFICATION", "ACTIVE"}

(* get finds nothing: no failure and no block that is still to come.         *)
NoBucket == [failures |-> 0, firstFailureAt |-> 0, blockedUntil |-> 0]

Times == 0 .. MaxTime

Buckets ==
  [failures : 0 .. MAX_FAILURES - 1, firstFailureAt : Times,
   blockedUntil : 0 .. MaxTime + BLOCK_MS]

Init ==
  /\ now = 0
  /\ account = "ABSENT"
  /\ bucket = NoBucket
  /\ pc = [r \in Requests |-> "idle"]
  /\ failed = <<>>

-----------------------------------------------------------------------------
(* The account. *)

(* The unique index on LOWER(email) refuses a second registration.           *)
SignUp ==
  /\ account = "ABSENT"
  /\ account' = "PENDING_VERIFICATION"
  /\ UNCHANGED <<now, bucket, pc, failed>>

AcceptConsent ==
  /\ account = "PENDING_VERIFICATION"
  /\ account' = "ACTIVE"
  /\ UNCHANGED <<now, bucket, pc, failed>>

-----------------------------------------------------------------------------
(* The throttle. *)

Blocked == bucket.blockedUntil > now

Fresh == [failures |-> 1, firstFailureAt |-> now, blockedUntil |-> 0]

(* The bucket after one more failure.                                        *)
FailureRecordedNoResetMutant ==
  IF bucket = NoBucket \/ now - bucket.firstFailureAt > WINDOW_MS THEN Fresh
  ELSE IF bucket.failures + 1 >= MAX_FAILURES
       THEN [failures |-> bucket.failures + 1, firstFailureAt |-> now,
             blockedUntil |-> now + BLOCK_MS]
       ELSE [bucket EXCEPT !.failures = bucket.failures + 1]

FailureRecordedMutant ==
  IF bucket = NoBucket \/ now - bucket.firstFailureAt > WINDOW_MS THEN Fresh
  ELSE IF bucket.failures + 1 >= MAX_FAILURES
       THEN [bucket EXCEPT !.failures = 0, !.blockedUntil = now + BLOCK_MS]
       ELSE [bucket EXCEPT !.failures = bucket.failures + 1]

FailureRecorded ==
  IF bucket = NoBucket \/ now - bucket.firstFailureAt > WINDOW_MS THEN Fresh
  ELSE IF bucket.failures + 1 >= MAX_FAILURES
       THEN [failures |-> 0, firstFailureAt |-> now, blockedUntil |-> now + BLOCK_MS]
       ELSE [bucket EXCEPT !.failures = bucket.failures + 1]

-----------------------------------------------------------------------------
(* A sign-in. *)

At(r, step) == pc[r] = step

Goto(r, step) == pc' = [pc EXCEPT ![r] = step]

(* signInThrottle.check: a blocked request is answered at once.              *)
CheckMutant(r) ==
  /\ At(r, "idle")
  /\ bucket.failures < MAX_FAILURES
  /\ Goto(r, "verify")
  /\ UNCHANGED <<now, account, bucket, failed>>

Check(r) ==
  /\ At(r, "idle")
  /\ ~Blocked
  /\ Goto(r, "verify")
  /\ UNCHANGED <<now, account, bucket, failed>>

(* verifyPassword and issueParentSession in one transaction.  A wrong        *)
(* password, an unknown email, a family the parent is no member of and a     *)
(* database that fails all yield no session; an account that has not         *)
(* accepted consent yet does yield one.                                      *)
Verify(r) ==
  /\ At(r, "verify")
  /\ \/ Goto(r, "failure")
     \/ account \in AccountStatuses /\ Goto(r, "success")
  /\ UNCHANGED <<now, account, bucket, failed>>

RecordFailure(r) ==
  /\ At(r, "failure")
  /\ Goto(r, "idle")
  /\ bucket' = FailureRecorded
  /\ failed' = Append(failed, now)
  /\ UNCHANGED <<now, account>>

RecordSuccess(r) ==
  /\ At(r, "success")
  /\ Goto(r, "idle")
  /\ bucket' = NoBucket
  /\ failed' = <<>>
  /\ UNCHANGED <<now, account>>

-----------------------------------------------------------------------------
Tick ==
  /\ now < MaxTime
  /\ now' = now + 1
  /\ UNCHANGED <<account, bucket, pc, failed>>

Restart ==
  /\ bucket' = NoBucket
  /\ pc' = [r \in Requests |-> "idle"]
  /\ failed' = <<>>
  /\ UNCHANGED <<now, account>>

Next ==
  \/ SignUp \/ AcceptConsent
  \/ \E r \in Requests : Check(r) \/ Verify(r) \/ RecordFailure(r) \/ RecordSuccess(r)
  \/ Tick \/ Restart

Spec == Init /\ [][Next]_vars

-----------------------------------------------------------------------------
(* Every variable has the values the code gives it; a bucket never keeps      *)
(* MAX_FAILURES failures, for recordFailure then blocks and starts over.      *)
SignInTypeOK ==
  /\ now \in Times
  /\ account \in AccountStatuses \cup {"ABSENT"}
  /\ bucket \in Buckets
  /\ pc \in [Requests -> {"idle", "verify", "failure", "success"}]
  /\ failed \in Seq(Times)

(* A block, once set, is never shortened by another failure: a request that  *)
(* passed the check before the block and fails after it may only prolong it. *)
(* Only a success and a restart lift it (recordFailure's window test).       *)
OnlySuccessLiftsBlock ==
  [][Blocked /\ ~(\E r \in Requests : RecordSuccess(r)) /\ ~Restart
       => bucket'.blockedUntil >= bucket.blockedUntil]_vars

RecentFailures == {i \in 1 .. Len(failed) : now - failed[i] < WINDOW_MS}

(* How many failures are recorded within one WINDOW_MS and no success between *)
(* them, when BLOCK_MS is WINDOW_MS.  MAX_FAILURES is not the bound: a window *)
(* that a block has opened counts from nothing and may end, one failure short *)
(* of the next block, where a fresh one begins; and whoever overlaps the last *)
(* failure has passed the check (the await between check and recordFailure).  *)
FailureBudget ==
  Cardinality(RecentFailures) <= 2 * MAX_FAILURES - 1 + (Cardinality(Requests) - 1)

=============================================================================
