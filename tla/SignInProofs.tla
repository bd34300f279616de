------------------------------ MODULE SignInProofs ------------------------------
(***************************************************************************)
(* Proofs about SignIn, for every number of overlapping requests and every *)
(* limit, window and block with BLOCK_MS <= WINDOW_MS; the budget of       *)
(* failures where the two are equal, as they are in the code.              *)
(***************************************************************************)
EXTENDS SignIn, FiniteSetTheorems, TLAPS

(* A block lasts BLOCK_MS from the failure that set it, and that failure is  *)
(* where the bucket's window starts: while it is on, the window is open.     *)
BlockWithinWindow ==
  /\ bucket.blockedUntil <= bucket.firstFailureAt + BLOCK_MS
  /\ bucket.firstFailureAt <= now

SignInInv == SignInTypeOK /\ BlockWithinWindow

(* What recordFailure writes is a bucket again, within the same bounds.      *)
LEMMA RecordedIsBucket ==
  ASSUME SignInInv
  PROVE  /\ FailureRecorded \in Buckets
         /\ FailureRecorded.blockedUntil <= FailureRecorded.firstFailureAt + BLOCK_MS
         /\ FailureRecorded.firstFailureAt <= now
<1>1. bucket \in Buckets /\ now \in Times /\ BlockWithinWindow
  BY DEF SignInInv, SignInTypeOK
<1>2. CASE bucket = NoBucket \/ now - bucket.firstFailureAt > WINDOW_MS
  <2>1. FailureRecorded = Fresh
    BY <1>2 DEF FailureRecorded
  <2>2. QED
    BY <2>1, <1>1, SignInAssumption DEF Fresh, Buckets, Times
<1>3. CASE ~(bucket = NoBucket \/ now - bucket.firstFailureAt > WINDOW_MS)
  <2>1. CASE bucket.failures + 1 >= MAX_FAILURES
    <3>1. FailureRecorded = [failures |-> 0, firstFailureAt |-> now,
                             blockedUntil |-> now + BLOCK_MS]
      BY <1>3, <2>1 DEF FailureRecorded
    <3>2. QED
      BY <3>1, <1>1, SignInAssumption DEF Buckets, Times
  <2>2. CASE ~(bucket.failures + 1 >= MAX_FAILURES)
    <3>1. FailureRecorded = [bucket EXCEPT !.failures = bucket.failures + 1]
      BY <1>3, <2>2 DEF FailureRecorded
    <3>2. QED
      BY <3>1, <2>2, <1>1, SignInAssumption DEF Buckets, Times, BlockWithinWindow
  <2>3. QED
    BY <2>1, <2>2
<1>4. QED
  BY <1>2, <1>3

(* Dropping the bucket leaves one that allows everything.                    *)
LEMMA NoBucketIsBucket ==
  NoBucket \in Buckets /\ NoBucket.blockedUntil = 0 /\ NoBucket.firstFailureAt = 0
BY SignInAssumption DEF NoBucket, Buckets, Times

LEMMA SignInInvInit ==
  Init => SignInInv
<1> SUFFICES ASSUME Init PROVE SignInInv
  OBVIOUS
<1>1. SignInTypeOK
  BY NoBucketIsBucket, SignInAssumption DEF Init, SignInTypeOK, AccountStatuses, Times
<1>2. BlockWithinWindow
  BY NoBucketIsBucket, SignInAssumption DEF Init, BlockWithinWindow
<1>3. QED
  BY <1>1, <1>2 DEF SignInInv

LEMMA SignInInvStep ==
  SignInInv /\ [Next]_vars => SignInInv'
<1> SUFFICES ASSUME SignInInv, [Next]_vars PROVE SignInInv'
  OBVIOUS
<1> USE SignInAssumption
<1>0. SignInTypeOK /\ BlockWithinWindow
  BY DEF SignInInv
<1>1. CASE SignUp
  BY <1>0, <1>1 DEF SignUp, SignInInv, SignInTypeOK, BlockWithinWindow, AccountStatuses
<1>2. CASE AcceptConsent
  BY <1>0, <1>2 DEF AcceptConsent, SignInInv, SignInTypeOK, BlockWithinWindow, AccountStatuses
<1>3. ASSUME NEW r \in Requests, Check(r)
      PROVE  SignInInv'
  BY <1>0, <1>3 DEF Check, Goto, SignInInv, SignInTypeOK, BlockWithinWindow
<1>4. ASSUME NEW r \in Requests, Verify(r)
      PROVE  SignInInv'
  BY <1>0, <1>4 DEF Verify, Goto, SignInInv, SignInTypeOK, BlockWithinWindow
<1>5. ASSUME NEW r \in Requests, RecordFailure(r)
      PROVE  SignInInv'
  <2>1. bucket' = FailureRecorded /\ UNCHANGED <<now, account>>
    BY <1>5 DEF RecordFailure
  <2>2. failed' \in Seq(Times)
    BY <1>0, <1>5 DEF RecordFailure, SignInTypeOK
  <2>3. SignInTypeOK'
    BY <1>0, <1>5, <2>1, <2>2, RecordedIsBucket
       DEF RecordFailure, Goto, SignInTypeOK
  <2>4. BlockWithinWindow'
    BY <2>1, RecordedIsBucket DEF BlockWithinWindow
  <2>5. QED
    BY <2>3, <2>4 DEF SignInInv
<1>6. ASSUME NEW r \in Requests, RecordSuccess(r)
      PROVE  SignInInv'
  BY <1>0, <1>6, NoBucketIsBucket
     DEF RecordSuccess, Goto, SignInInv, SignInTypeOK, BlockWithinWindow, Times
<1>7. CASE Tick
  BY <1>0, <1>7 DEF Tick, SignInInv, SignInTypeOK, BlockWithinWindow, Times, Buckets
<1>8. CASE Restart
  BY <1>0, <1>8, NoBucketIsBucket
     DEF Restart, SignInInv, SignInTypeOK, BlockWithinWindow, Times
<1>9. CASE UNCHANGED vars
  BY <1>0, <1>9 DEF vars, SignInInv, SignInTypeOK, BlockWithinWindow
<1>10. QED
  BY <1>1, <1>2, <1>3, <1>4, <1>5, <1>6, <1>7, <1>8, <1>9 DEF Next

LEMMA SignInInvariance ==
  Spec => []SignInInv
BY SignInInvInit, SignInInvStep, PTL DEF Spec

(* auth/throttle.ts: a bucket is always a bucket, with fewer failures than    *)
(* MAX_FAILURES, however many requests overlap.                               *)
THEOREM SignInTypes ==
  Spec => []SignInTypeOK
BY SignInInvariance, PTL DEF SignInInv

(* A failure that is recorded during a block keeps it or prolongs it: the     *)
(* window of the block is still open, so the bucket is not begun afresh.      *)
LEMMA FailureKeepsBlock ==
  ASSUME SignInInv, Blocked
  PROVE  FailureRecorded.blockedUntil >= bucket.blockedUntil
<1>1. bucket \in Buckets /\ now \in Times /\ BlockWithinWindow
  BY DEF SignInInv, SignInTypeOK
<1>2. bucket # NoBucket /\ ~(now - bucket.firstFailureAt > WINDOW_MS)
  BY <1>1, SignInAssumption DEF Blocked, BlockWithinWindow, Buckets, Times, NoBucket
<1>3. CASE bucket.failures + 1 >= MAX_FAILURES
  <2>1. FailureRecorded.blockedUntil = now + BLOCK_MS
    BY <1>2, <1>3 DEF FailureRecorded
  <2>2. QED
    BY <2>1, <1>1, SignInAssumption DEF BlockWithinWindow, Buckets, Times
<1>4. CASE ~(bucket.failures + 1 >= MAX_FAILURES)
  <2>1. FailureRecorded.blockedUntil = bucket.blockedUntil
    BY <1>1, <1>2, <1>4 DEF FailureRecorded, Buckets
  <2>2. QED
    BY <2>1, <1>1 DEF Buckets, Times
<1>5. QED
  BY <1>3, <1>4

LEMMA BlockStep ==
  ASSUME SignInInv, [Next]_vars
  PROVE  [Blocked /\ ~(\E r \in Requests : RecordSuccess(r)) /\ ~Restart
            => bucket'.blockedUntil >= bucket.blockedUntil]_vars
<1> SUFFICES ASSUME Next, Blocked, ~(\E r \in Requests : RecordSuccess(r)), ~Restart
             PROVE  bucket'.blockedUntil >= bucket.blockedUntil
  BY DEF vars
<1>1. bucket \in Buckets /\ bucket.blockedUntil \in Int
  BY SignInAssumption DEF SignInInv, SignInTypeOK, Buckets, Times
<1>2. CASE \E r \in Requests : RecordFailure(r)
  BY <1>2, FailureKeepsBlock DEF RecordFailure
<1>3. CASE SignUp \/ AcceptConsent \/ Tick \/ \E r \in Requests : Check(r) \/ Verify(r)
  BY <1>1, <1>3 DEF SignUp, AcceptConsent, Tick, Check, Verify
<1>4. QED
  BY <1>2, <1>3 DEF Next

(* Whatever overlaps, a block stands until its time has come, unless a        *)
(* sign-in succeeds or the process restarts.                                  *)
THEOREM BlocksStand ==
  Spec => OnlySuccessLiftsBlock
BY SignInInvariance, BlockStep, PTL DEF Spec, OnlySuccessLiftsBlock

-----------------------------------------------------------------------------
(* The failure budget, where a block lasts as long as the window. *)

Busy == {r \in Requests : pc[r] # "idle"}

Recent == Cardinality(RecentFailures)

(* The bucket's failures are the last ones recorded; those before it are no  *)
(* younger than its window.                                                  *)
BucketIsTheTail ==
  /\ bucket = NoBucket => failed = <<>>
  /\ bucket.failures <= Len(failed)
  /\ \A i \in 1 .. Len(failed) - bucket.failures : failed[i] <= bucket.firstFailureAt
  /\ bucket.blockedUntil \in {0, bucket.firstFailureAt + WINDOW_MS}
  /\ \A i \in 1 .. Len(failed) : failed[i] <= now

(* Outside a block, at most one full window's failures are recent beside the *)
(* bucket's own.  In a block, only requests that have passed the check add   *)
(* to them.                                                                  *)
Spent ==
  IF Blocked
  THEN Recent + Cardinality(Busy) <= 2 * MAX_FAILURES - 1 + (Cardinality(Requests) - 1)
  ELSE Recent <= MAX_FAILURES - 1 + bucket.failures

BudgetInv == SignInInv /\ BucketIsTheTail /\ Spent

LEMMA Counts ==
  ASSUME SignInInv
  PROVE  /\ Len(failed) \in Nat /\ \A i \in 1 .. Len(failed) : failed[i] \in Times
         /\ IsFiniteSet(RecentFailures) /\ Recent \in Nat
         /\ IsFiniteSet(Busy) /\ Cardinality(Busy) \in Nat
         /\ Cardinality(Requests) \in Nat /\ Cardinality(Busy) <= Cardinality(Requests)
<1>1. Len(failed) \in Nat /\ \A i \in 1 .. Len(failed) : failed[i] \in Times
  BY DEF SignInInv, SignInTypeOK
<1>2. IsFiniteSet(1 .. Len(failed))  BY <1>1, FS_Interval
<1>3. IsFiniteSet(RecentFailures)  BY <1>2, FS_Subset DEF RecentFailures
<1>4. Recent \in Nat  BY <1>3, FS_CardinalityType DEF Recent
<1>5. IsFiniteSet(Busy) /\ Cardinality(Busy) <= Cardinality(Requests)
  BY SignInAssumption, FS_Subset DEF Busy
<1>6. Cardinality(Busy) \in Nat /\ Cardinality(Requests) \in Nat
  BY <1>5, SignInAssumption, FS_CardinalityType
<1> QED  BY <1>1, <1>3, <1>4, <1>5, <1>6

(* Once the window is over, only the bucket's failures can be recent.        *)
LEMMA RecentAreTheBuckets ==
  ASSUME SignInInv, BucketIsTheTail, NEW t \in Int, t - bucket.firstFailureAt >= WINDOW_MS
  PROVE  Cardinality({i \in 1 .. Len(failed) : t - failed[i] < WINDOW_MS}) <= bucket.failures
<1> DEFINE n == Len(failed)
           k == bucket.failures
           R == {i \in 1 .. n : t - failed[i] < WINDOW_MS}
<1>1. n \in Nat /\ k \in Nat /\ k <= n /\ bucket.firstFailureAt \in Int /\ WINDOW_MS \in Int
  BY Counts, SignInAssumption DEF SignInInv, SignInTypeOK, Buckets, Times, BucketIsTheTail
<1>2. ASSUME NEW i \in R PROVE i \in (n - k + 1) .. n
  <2>1. i \in 1 .. n /\ t - failed[i] < WINDOW_MS /\ failed[i] \in Int
    BY <1>2, Counts DEF Times
  <2>2. i \notin 1 .. (n - k)
    BY <1>1, <2>1 DEF BucketIsTheTail
  <2> QED  BY <1>1, <2>1, <2>2
<1> HIDE DEF n, k
<1>3. /\ IsFiniteSet((n - k + 1) .. n)
      /\ Cardinality((n - k + 1) .. n) = IF n - k + 1 > n THEN 0 ELSE n - (n - k + 1) + 1
  <2>1. n - k + 1 \in Int /\ n \in Int  BY <1>1
  <2>2. \A a, b \in Int : /\ IsFiniteSet(a .. b)
                         /\ Cardinality(a .. b) = IF a > b THEN 0 ELSE b - a + 1
    BY FS_Interval
  <2> QED  BY <2>1, <2>2
<1>4. Cardinality((n - k + 1) .. n) = k  BY <1>1, <1>3
<1>5. R \in SUBSET ((n - k + 1) .. n)  BY <1>2
<1>6. Cardinality(R) <= Cardinality((n - k + 1) .. n)  BY <1>3, <1>5, FS_Subset
<1> QED  BY <1>4, <1>6 DEF n, k

(* Time only makes failures older.                                           *)
LEMMA RecentShrinks ==
  ASSUME SignInInv, now' \in Int, now' >= now, failed' = failed
  PROVE  Recent' <= Recent /\ Recent' \in Nat
<1>1. now \in Int /\ WINDOW_MS \in Int /\ \A i \in 1 .. Len(failed) : failed[i] \in Int
  BY Counts, SignInAssumption DEF SignInInv, SignInTypeOK, Times
<1>2. RecentFailures' \in SUBSET RecentFailures
  BY <1>1 DEF RecentFailures
<1>3. IsFiniteSet(RecentFailures') /\ Cardinality(RecentFailures') <= Cardinality(RecentFailures)
  BY <1>2, Counts, FS_Subset
<1> QED  BY <1>3, FS_CardinalityType DEF Recent

(* One more failure is one more recent one at most.                          *)
LEMMA RecentGrowsByOne ==
  ASSUME SignInInv, now' = now, failed' = Append(failed, now)
  PROVE  Recent' <= Recent + 1 /\ Recent' \in Nat
<1> DEFINE n == Len(failed)
<1>1. n \in Nat /\ failed \in Seq(Times) /\ now \in Times
  BY Counts DEF SignInInv, SignInTypeOK
<1>2. Len(failed') = n + 1 /\ \A i \in 1 .. n : failed'[i] = failed[i]
  BY <1>1
<1>3. RecentFailures' \in SUBSET (RecentFailures \cup {n + 1})
  BY <1>1, <1>2 DEF RecentFailures
<1>4. /\ IsFiniteSet(RecentFailures \cup {n + 1})
      /\ Cardinality(RecentFailures \cup {n + 1}) <= Recent + 1
  <2>1. IsFiniteSet(RecentFailures) /\ Recent \in Nat  BY Counts
  <2>2. /\ IsFiniteSet(RecentFailures \cup {n + 1})
        /\ \/ Cardinality(RecentFailures \cup {n + 1}) = Cardinality(RecentFailures)
           \/ Cardinality(RecentFailures \cup {n + 1}) = Cardinality(RecentFailures) + 1
    BY <2>1, FS_AddElement
  <2> QED  BY <2>1, <2>2 DEF Recent
<1>5. /\ IsFiniteSet(RecentFailures')
      /\ Cardinality(RecentFailures') <= Cardinality(RecentFailures \cup {n + 1})
  BY <1>3, <1>4, FS_Subset
<1>6. Recent' \in Nat  BY <1>5, FS_CardinalityType DEF Recent
<1>7. Cardinality(RecentFailures \cup {n + 1}) \in Nat  BY <1>4, FS_CardinalityType
<1> QED  BY <1>4, <1>5, <1>6, <1>7, Counts DEF Recent

(* A request that records its outcome is no longer under way.                *)
LEMMA OneLessBusy ==
  ASSUME SignInInv, NEW r \in Requests, pc[r] # "idle", Goto(r, "idle")
  PROVE  Cardinality(Busy)' = Cardinality(Busy) - 1
<1>1. Busy' = Busy \ {r}  BY DEF Busy, Goto, SignInInv, SignInTypeOK
<1>2. r \in Busy  BY DEF Busy
<1> QED  BY <1>1, <1>2, Counts, FS_RemoveElement

(* The bucket after one more failure is again the tail of the record.        *)
LEMMA RecordedIsTheTail ==
  ASSUME BLOCK_MS = WINDOW_MS, SignInInv, BucketIsTheTail, now' = now,
         bucket' = FailureRecorded, failed' = Append(failed, now)
  PROVE  BucketIsTheTail'
<1> DEFINE n == Len(failed)
<1>1. /\ n \in Nat /\ failed \in Seq(Times) /\ now \in Times /\ bucket \in Buckets
      /\ \A i \in 1 .. n : failed[i] \in Times
  BY Counts DEF SignInInv, SignInTypeOK
<1>2. /\ Len(failed') = n + 1 /\ failed'[n + 1] = now
      /\ \A i \in 1 .. n : failed'[i] = failed[i]
  BY <1>1
<1>3. /\ bucket.failures \in Nat /\ bucket.failures <= n
      /\ bucket.firstFailureAt \in Int /\ bucket.firstFailureAt <= now
      /\ \A i \in 1 .. n - bucket.failures : failed[i] <= bucket.firstFailureAt
      /\ bucket.blockedUntil \in {0, bucket.firstFailureAt + WINDOW_MS}
  BY <1>1 DEF Buckets, Times, BucketIsTheTail, SignInInv, BlockWithinWindow
<1>4. CASE bucket' = [bucket EXCEPT !.failures = bucket.failures + 1] /\ bucket # NoBucket
  <2>1. /\ bucket'.failures = bucket.failures + 1
        /\ bucket'.firstFailureAt = bucket.firstFailureAt
        /\ bucket'.blockedUntil = bucket.blockedUntil
    BY <1>1, <1>4 DEF Buckets
  <2>2. bucket' # NoBucket  BY <1>3, <2>1 DEF NoBucket
  <2>3. \A i \in 1 .. (n + 1) - (bucket.failures + 1) : failed'[i] <= bucket.firstFailureAt
    BY <1>2, <1>3
  <2>4. \A i \in 1 .. (n + 1) : failed'[i] <= now
    BY <1>1, <1>2 DEF BucketIsTheTail, Times
  <2> QED  BY <1>2, <1>3, <2>1, <2>2, <2>3, <2>4 DEF BucketIsTheTail
<1>5. CASE bucket' \in {Fresh, [failures |-> 0, firstFailureAt |-> now,
                                blockedUntil |-> now + BLOCK_MS]}
  <2>1. /\ bucket'.failures \in {0, 1} /\ bucket'.firstFailureAt = now
        /\ bucket'.blockedUntil \in {0, now + WINDOW_MS}
    BY <1>5 DEF Fresh
  <2>2. bucket' # NoBucket
    BY <1>1, <1>5, SignInAssumption DEF Fresh, NoBucket, Times
  <2>3. \A i \in 1 .. n : failed[i] <= now  BY DEF BucketIsTheTail
  <2>4. \A i \in 1 .. (n + 1) : failed'[i] <= now
    BY <1>1, <1>2, <2>3 DEF Times
  <2> QED  BY <1>1, <1>2, <2>1, <2>2, <2>4 DEF BucketIsTheTail
<1> QED  BY <1>4, <1>5 DEF FailureRecorded

(* A step that leaves the record and the bucket alone, at the same time.      *)
LEMMA SameBudget ==
  ASSUME BudgetInv, now' = now, failed' = failed, bucket' = bucket,
         Blocked => Cardinality(Busy)' = Cardinality(Busy)
  PROVE  BucketIsTheTail' /\ Spent'
<1>1. BucketIsTheTail'  BY DEF BudgetInv, BucketIsTheTail
<1>2. Recent' = Recent /\ Blocked' = Blocked  BY DEF Recent, RecentFailures, Blocked
<1>3. Spent'  BY <1>2 DEF BudgetInv, Spent
<1> QED  BY <1>1, <1>3

(* A success and a restart drop the bucket, and the count starts again.       *)
LEMMA NoneSpent ==
  ASSUME bucket' = NoBucket, failed' = <<>>, now' \in Nat
  PROVE  BucketIsTheTail' /\ Spent'
<1>1. /\ bucket'.failures = 0 /\ bucket'.blockedUntil = 0
  BY DEF NoBucket
<1>2. Len(failed') = 0  OBVIOUS
<1>3. BucketIsTheTail'  BY <1>1, <1>2 DEF BucketIsTheTail
<1>4. RecentFailures' = {}  BY <1>2 DEF RecentFailures
<1>5. Recent' = 0  BY <1>4, FS_EmptySet DEF Recent
<1>6. ~Blocked'  BY <1>1 DEF Blocked
<1>7. Spent'  BY <1>1, <1>5, <1>6, SignInAssumption DEF Spent
<1> QED  BY <1>3, <1>7

LEMMA BudgetInit ==
  Init => BudgetInv
<1> SUFFICES ASSUME Init PROVE BudgetInv  OBVIOUS
<1>1. SignInInv  BY SignInInvInit
<1>2. bucket = NoBucket /\ failed = <<>> /\ now = 0  BY DEF Init
<1>3. bucket.failures = 0 /\ bucket.blockedUntil = 0 /\ Len(failed) = 0
  BY <1>2 DEF NoBucket
<1>4. BucketIsTheTail  BY <1>2, <1>3 DEF BucketIsTheTail
<1>5. RecentFailures = {}  BY <1>3 DEF RecentFailures
<1>6. Recent = 0  BY <1>5, FS_EmptySet DEF Recent
<1>7. Spent  BY <1>2, <1>3, <1>6, SignInAssumption DEF Spent, Blocked
<1> QED  BY <1>1, <1>4, <1>7 DEF BudgetInv

LEMMA BudgetVerify ==
  ASSUME BudgetInv, NEW r \in Requests, Verify(r)
  PROVE  BucketIsTheTail' /\ Spent'
<1>1. Busy' = Busy  BY DEF Verify, At, Goto, Busy, BudgetInv, SignInInv, SignInTypeOK
<1> QED  BY <1>1, SameBudget DEF Verify

LEMMA BudgetTick ==
  ASSUME BLOCK_MS = WINDOW_MS, BudgetInv, Tick
  PROVE  BucketIsTheTail' /\ Spent'
<1>1. /\ now \in Nat /\ now' = now + 1 /\ failed' = failed /\ bucket' = bucket
      /\ Busy' = Busy
      /\ bucket.firstFailureAt \in Nat /\ bucket.failures \in Nat
      /\ bucket.blockedUntil \in Nat
      /\ \A i \in 1 .. Len(failed) : failed[i] \in Nat
  BY Counts, SignInAssumption
     DEF Tick, Busy, BudgetInv, SignInInv, SignInTypeOK, Times, Buckets
<1>2. BucketIsTheTail'
  BY <1>1 DEF BudgetInv, BucketIsTheTail
<1>3. Recent' <= Recent /\ Recent' \in Nat /\ Recent \in Nat
  BY <1>1, RecentShrinks, Counts DEF BudgetInv
<1>4. CASE ~Blocked
  BY <1>1, <1>2, <1>3, <1>4, SignInAssumption DEF BudgetInv, Spent, Blocked
<1>5. CASE Blocked /\ Blocked'
  <2>1. Cardinality(Busy)' = Cardinality(Busy) /\ Cardinality(Busy) \in Nat
        /\ Cardinality(Requests) \in Nat
    BY <1>1, Counts DEF BudgetInv
  <2> QED  BY <1>2, <1>3, <1>5, <2>1, SignInAssumption DEF BudgetInv, Spent
<1>6. CASE Blocked /\ ~Blocked'
  <2>1. now' - bucket.firstFailureAt >= WINDOW_MS
    BY <1>1, <1>6, SignInAssumption DEF Blocked, BudgetInv, BucketIsTheTail
  <2>2. Recent' <= bucket.failures
    <3>1. now' \in Int  BY <1>1
    <3>2. Cardinality({i \in 1 .. Len(failed) : now' - failed[i] < WINDOW_MS})
            <= bucket.failures
      BY <2>1, <3>1, RecentAreTheBuckets DEF BudgetInv
    <3> QED  BY <1>1, <3>2 DEF Recent, RecentFailures
  <2> QED  BY <1>1, <1>2, <1>3, <1>6, <2>2, SignInAssumption DEF Spent
<1> QED  BY <1>2, <1>4, <1>5, <1>6

LEMMA BudgetFailure ==
  ASSUME BLOCK_MS = WINDOW_MS, BudgetInv, NEW r \in Requests, RecordFailure(r)
  PROVE  BucketIsTheTail' /\ Spent'
<1>1. /\ now' = now /\ failed' = Append(failed, now) /\ bucket' = FailureRecorded
      /\ SignInInv /\ BucketIsTheTail /\ Spent
      /\ now \in Nat /\ bucket \in Buckets
      /\ bucket.failures \in 0 .. MAX_FAILURES - 1 /\ bucket.firstFailureAt \in Nat
      /\ bucket.blockedUntil \in Nat
      /\ MAX_FAILURES \in Nat /\ MAX_FAILURES > 1 /\ BLOCK_MS \in Nat /\ BLOCK_MS > 0
  BY SignInAssumption
     DEF RecordFailure, BudgetInv, SignInInv, SignInTypeOK, Times, Buckets
<1>2. BucketIsTheTail'  BY <1>1, RecordedIsTheTail
<1>3. Recent' <= Recent + 1 /\ Recent' \in Nat /\ Recent \in Nat
  BY <1>1, RecentGrowsByOne, Counts
<1>4. Cardinality(Busy)' = Cardinality(Busy) - 1
  BY <1>1, OneLessBusy DEF RecordFailure, At
<1>5. /\ Cardinality(Busy) \in Nat /\ Cardinality(Requests) \in Nat
      /\ Cardinality(Busy) <= Cardinality(Requests)
  BY <1>1, Counts
<1>6. CASE Blocked
  <2>1. Blocked'
    BY <1>1, <1>6, FailureKeepsBlock, SignInAssumption DEF Blocked, FailureRecorded, Fresh
  <2> QED  BY <1>1, <1>2, <1>3, <1>4, <1>5, <1>6, <2>1 DEF Spent
<1>7. CASE ~Blocked /\ (bucket = NoBucket \/ now - bucket.firstFailureAt > WINDOW_MS)
  <2>1. bucket'.failures = 1 /\ bucket'.blockedUntil = 0
    BY <1>1, <1>7 DEF FailureRecorded, Fresh
  <2>2. Recent <= bucket.failures
    <3>1. CASE bucket = NoBucket
      <4>1. RecentFailures = {}  BY <1>1, <3>1 DEF BucketIsTheTail, RecentFailures
      <4>2. Recent = 0  BY <4>1, FS_EmptySet DEF Recent
      <4> QED  BY <1>1, <4>2
    <3>2. CASE now - bucket.firstFailureAt > WINDOW_MS
      <4>1. Cardinality({i \in 1 .. Len(failed) : now - failed[i] < WINDOW_MS})
              <= bucket.failures
        BY <1>1, <3>2, SignInAssumption, RecentAreTheBuckets
      <4> QED  BY <4>1 DEF Recent, RecentFailures
    <3> QED  BY <1>7, <3>1, <3>2
  <2>3. ~Blocked'  BY <1>1, <2>1 DEF Blocked
  <2>4. Recent' <= MAX_FAILURES - 1 + bucket'.failures  BY <1>1, <1>3, <2>1, <2>2
  <2> QED  BY <1>2, <2>3, <2>4 DEF Spent
<1>8. CASE /\ ~Blocked /\ bucket # NoBucket /\ ~(now - bucket.firstFailureAt > WINDOW_MS)
           /\ bucket.failures + 1 >= MAX_FAILURES
  <2>1. bucket'.blockedUntil = now + BLOCK_MS
    BY <1>1, <1>8 DEF FailureRecorded
  <2>2. Blocked'  BY <1>1, <2>1 DEF Blocked
  <2>3. Recent <= MAX_FAILURES - 1 + bucket.failures  BY <1>1, <1>8 DEF Spent
  <2>4. Recent' <= 2 * MAX_FAILURES - 1  BY <1>1, <1>3, <2>3
  <2> QED  BY <1>1, <1>2, <1>3, <1>4, <1>5, <2>2, <2>4 DEF Spent
<1>9. CASE /\ ~Blocked /\ bucket # NoBucket /\ ~(now - bucket.firstFailureAt > WINDOW_MS)
           /\ ~(bucket.failures + 1 >= MAX_FAILURES)
  <2>1. bucket' = [bucket EXCEPT !.failures = bucket.failures + 1]
    BY <1>1, <1>9 DEF FailureRecorded
  <2>2. bucket'.failures = bucket.failures + 1 /\ bucket'.blockedUntil = bucket.blockedUntil
    BY <1>1, <2>1 DEF Buckets
  <2>3. ~Blocked'  BY <1>1, <1>9, <2>2 DEF Blocked
  <2>4. Recent <= MAX_FAILURES - 1 + bucket.failures  BY <1>9, <1>1 DEF Spent
  <2>5. Recent' <= MAX_FAILURES - 1 + bucket'.failures  BY <1>1, <1>3, <2>2, <2>4
  <2> QED  BY <1>2, <2>3, <2>5 DEF Spent
<1> QED  BY <1>6, <1>7, <1>8, <1>9

LEMMA BudgetStep ==
  ASSUME BLOCK_MS = WINDOW_MS, BudgetInv, [Next]_vars
  PROVE  BudgetInv'
<1>1. SignInInv'  BY SignInInvStep DEF BudgetInv
<1>2. now \in Nat /\ now' \in Nat  BY <1>1 DEF BudgetInv, SignInInv, SignInTypeOK, Times
<1>3. CASE SignUp \/ AcceptConsent \/ UNCHANGED vars
  <2>1. UNCHANGED <<now, bucket, pc, failed>>
    BY <1>3 DEF SignUp, AcceptConsent, vars
  <2>2. Busy' = Busy  BY <2>1 DEF Busy
  <2> QED  BY <1>1, <2>1, <2>2, SameBudget DEF BudgetInv
<1>4. ASSUME NEW r \in Requests, Check(r) PROVE BudgetInv'
  BY <1>1, <1>4, SameBudget DEF BudgetInv, Check
<1>5. ASSUME NEW r \in Requests, Verify(r) PROVE BudgetInv'
  BY <1>1, <1>5, BudgetVerify DEF BudgetInv
<1>6. ASSUME NEW r \in Requests, RecordFailure(r) PROVE BudgetInv'
  BY <1>1, <1>6, BudgetFailure DEF BudgetInv
<1>7. ASSUME NEW r \in Requests, RecordSuccess(r) PROVE BudgetInv'
  BY <1>1, <1>2, <1>7, NoneSpent DEF BudgetInv, RecordSuccess
<1>8. CASE Tick  BY <1>1, <1>8, BudgetTick DEF BudgetInv
<1>9. CASE Restart  BY <1>1, <1>2, <1>9, NoneSpent DEF BudgetInv, Restart
<1> QED  BY <1>3, <1>4, <1>5, <1>6, <1>7, <1>8, <1>9 DEF Next

LEMMA BudgetBounds ==
  BudgetInv => FailureBudget
<1> SUFFICES ASSUME BudgetInv PROVE FailureBudget  OBVIOUS
<1>1. /\ Recent \in Nat /\ Cardinality(Busy) \in Nat /\ Cardinality(Requests) \in Nat
      /\ MAX_FAILURES \in Nat /\ bucket.failures \in 0 .. MAX_FAILURES - 1
  BY Counts, SignInAssumption DEF BudgetInv, SignInInv, SignInTypeOK, Buckets
<1>2. Recent <= 2 * MAX_FAILURES - 1 + (Cardinality(Requests) - 1)
  BY <1>1 DEF BudgetInv, Spent
<1> QED  BY <1>2 DEF FailureBudget, Recent

(* auth/throttle.ts, with a block as long as the window, as the code has it:  *)
(* whatever overlaps and whenever windows end, one address tries at most two  *)
(* windows' failures and the requests under way in any WINDOW_MS.             *)
THEOREM BudgetHolds ==
  ASSUME BLOCK_MS = WINDOW_MS
  PROVE  Spec => []FailureBudget
<1>1. BudgetInv /\ [Next]_vars => BudgetInv'  BY BudgetStep
<1> QED  BY <1>1, BudgetInit, BudgetBounds, PTL DEF Spec

=============================================================================
