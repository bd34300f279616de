------------------------------ MODULE PolicyProofs ------------------------------
(***************************************************************************)
(* What the pure functions of versioning, task rules and media evidence    *)
(* promise, for all arguments.                                             *)
(***************************************************************************)
EXTENDS Versioning, TaskRules, MediaEvidence, TLAPS

-----------------------------------------------------------------------------
(* Versions. *)

(* compareSemVer is a total order: it tells the same of two versions in      *)
(* either direction, calls only equal versions equal, and chains.            *)
THEOREM VersionsAreOrdered ==
  ASSUME NEW a \in SemVers, NEW b \in SemVers, NEW c \in SemVers
  PROVE  /\ CompareSemVer(a, b) = -CompareSemVer(b, a)
         /\ CompareSemVer(a, b) = 0 <=> a = b
         /\ CompareSemVer(a, b) <= 0 /\ CompareSemVer(b, c) <= 0
              => CompareSemVer(a, c) <= 0
<1>1. CompareSemVer(a, b) = -CompareSemVer(b, a)
  BY DEF SemVers, CompareSemVer
<1>2. CompareSemVer(a, b) = 0 <=> a = b
  BY DEF SemVers, CompareSemVer
<1>3. ASSUME CompareSemVer(a, b) <= 0, CompareSemVer(b, c) <= 0
      PROVE  CompareSemVer(a, c) <= 0
  BY <1>3 DEF SemVers, CompareSemVer
<1> QED
  BY <1>1, <1>2, <1>3

(* isCompatible: a consumer goes on working through any chain of upgrades,   *)
(* each compatible with the one before, and two versions that each can serve *)
(* the other's consumers are the same version.                               *)
THEOREM UpgradesKeepConsumers ==
  ASSUME NEW a \in SemVers, NEW b \in SemVers, NEW c \in SemVers
  PROVE  /\ IsCompatible(a, a)
         /\ IsCompatible(a, b) /\ IsCompatible(b, c) => IsCompatible(a, c)
         /\ IsCompatible(a, b) /\ IsCompatible(b, a) => a = b
<1>1. IsCompatible(a, a)
  BY VersionsAreOrdered DEF IsCompatible
<1>2. ASSUME IsCompatible(a, b), IsCompatible(b, c)
      PROVE  IsCompatible(a, c)
  BY <1>2 DEF IsCompatible, SemVers, CompareSemVer
<1>3. ASSUME IsCompatible(a, b), IsCompatible(b, a)
      PROVE  a = b
  BY <1>3 DEF IsCompatible, SemVers, CompareSemVer
<1> QED
  BY <1>1, <1>2, <1>3

-----------------------------------------------------------------------------
(* Schemas. *)

(* checkSchemaCompatibility reports nothing exactly when every payload that  *)
(* the old schema accepts is accepted by the new one with no loss: what the  *)
(* old parse would have kept of it, the new parse keeps.  The two kinds of   *)
(* missing field make it refuse payloads; a removed field does not, since    *)
(* parse strips what it does not know, and is reported for the loss.         *)
THEOREM CompatibleMeansAccepted ==
  ASSUME NEW old, NEW new
  PROVE  SchemaCompatible(old, new)
           <=> \A sent : Accepts(old, sent) =>
                 Accepts(new, sent) /\ Kept(old, sent) \subseteq Kept(new, sent)
<1>1. ASSUME SchemaCompatible(old, new), NEW sent, Accepts(old, sent)
      PROVE  Accepts(new, sent) /\ Kept(old, sent) \subseteq Kept(new, sent)
  <2>1. Kept(old, sent) \subseteq Kept(new, sent)
    BY <1>1 DEF SchemaCompatible, RemovedFields, Kept
  <2>2. ASSUME NEW field \in DOMAIN new, ~new[field]
        PROVE  field \in sent
    <3>1. field \in DOMAIN old
      BY <1>1, <2>2 DEF SchemaCompatible, NewRequiredFields
    <3>2. ~old[field]
      BY <1>1, <2>2, <3>1 DEF SchemaCompatible, FieldsBecameRequired
    <3> QED
      BY <1>1, <3>1, <3>2 DEF Accepts
  <2> QED
    BY <2>1, <2>2 DEF Accepts
<1>2. ASSUME \A sent : Accepts(old, sent) =>
                 Accepts(new, sent) /\ Kept(old, sent) \subseteq Kept(new, sent)
      PROVE  SchemaCompatible(old, new)
  <2>1. Accepts(new, DOMAIN old) /\ Kept(old, DOMAIN old) \subseteq Kept(new, DOMAIN old)
    BY <1>2 DEF Accepts
  <2>2. RemovedFields(old, new) = {}
    BY <2>1 DEF Kept, RemovedFields
  <2>3. NewRequiredFields(old, new) = {}
    BY <2>1 DEF Accepts, NewRequiredFields
  <2>4. ASSUME NEW field \in DOMAIN old \cap DOMAIN new, old[field]
        PROVE  new[field]
    <3>1. Accepts(old, DOMAIN old \ {field})
      BY <2>4 DEF Accepts
    <3>2. Accepts(new, DOMAIN old \ {field})
      BY <1>2, <3>1
    <3> QED
      BY <3>2 DEF Accepts
  <2>5. FieldsBecameRequired(old, new) = {}
    BY <2>4 DEF FieldsBecameRequired
  <2> QED
    BY <2>2, <2>3, <2>5 DEF SchemaCompatible
<1> QED
  BY <1>1, <1>2

(* A series of changes, each reported compatible with the schema before it,  *)
(* is compatible as a whole: checking release by release is enough.          *)
THEOREM CompatibleChangesCompose ==
  ASSUME NEW old, NEW mid, NEW new,
         SchemaCompatible(old, mid), SchemaCompatible(mid, new)
  PROVE  SchemaCompatible(old, new)
<1>1. ASSUME NEW sent, Accepts(old, sent)
      PROVE  Accepts(new, sent) /\ Kept(old, sent) \subseteq Kept(new, sent)
  <2>1. Accepts(mid, sent) /\ Kept(old, sent) \subseteq Kept(mid, sent)
    BY <1>1, CompatibleMeansAccepted
  <2>2. Accepts(new, sent) /\ Kept(mid, sent) \subseteq Kept(new, sent)
    BY <2>1, CompatibleMeansAccepted
  <2> QED
    BY <2>1, <2>2
<1> QED
  BY <1>1, CompatibleMeansAccepted

-----------------------------------------------------------------------------
(* Flags. *)

(* evaluateFeatureFlag: raising rolloutPercentage never takes a feature from *)
(* a subject that had it, and whatever the percentage, a subject on the      *)
(* denylist has it never, one on the allowlist only has it with the master   *)
(* switch on.                                                                *)
THEOREM RolloutOnlyGrows ==
  ASSUME NEW Subjects, NEW flag \in Flags(Subjects), NEW subject \in Subjects,
         NEW bucket \in 0 .. 100, NEW more \in Int, flag.rolloutPercentage <= more
  PROVE  LET raised == [flag EXCEPT !.rolloutPercentage = more]
         IN  /\ FlagOn(flag, subject, bucket) => FlagOn(raised, subject, bucket)
             /\ subject \in flag.denylist => ~FlagOn(raised, subject, bucket)
             /\ subject \in flag.allowlist \ flag.denylist =>
                  (FlagOn(raised, subject, bucket) <=> flag.enabled)
BY DEF Flags, FlagOn

-----------------------------------------------------------------------------
(* Rules. *)

LEMMA GateOpens ==
  ASSUME NEW c \in Conditions, ConditionErrors(c) = {}
  PROVE  \E age \in Years, hour \in Hours : Admits(c, age, hour)
<1>1. ASSUME c.kind = "AGE", NEW min \in c.minYears, NEW max \in c.maxYears
      PROVE  min <= max
  <2>1. "AGE_CONDITION_INVERTED" \notin ConditionErrors(c)
    OBVIOUS
  <2>2. min \in Years /\ max \in Years
    BY DEF Conditions, Optional
  <2> QED
    BY <1>1, <2>1, <2>2 DEF ConditionErrors, Years
<1>2. ASSUME c.kind = "TIME_WINDOW"
      PROVE  c.startHour < c.endHour
  <2>1. "TIME_WINDOW_INVERTED" \notin ConditionErrors(c)
    OBVIOUS
  <2> QED
    BY <1>2, <2>1 DEF ConditionErrors, Conditions, Hours
<1>3. \E age \in Years :
        c.kind = "AGE" =>
          (\A min \in c.minYears : min <= age) /\ (\A max \in c.maxYears : age <= max)
  <2>1. CASE c.kind # "AGE"
    BY <2>1 DEF Years
  <2>2. CASE c.kind = "AGE" /\ c.minYears # {}
    <3>1. PICK least \in Years : c.minYears = {least}
      BY <2>2 DEF Conditions, Optional
    <3> QED
      BY <1>1, <2>2, <3>1 DEF Years
  <2>3. CASE c.kind = "AGE" /\ c.minYears = {} /\ c.maxYears # {}
    <3>1. PICK most \in Years : c.maxYears = {most}
      BY <2>3 DEF Conditions, Optional
    <3> QED
      BY <2>3, <3>1 DEF Years
  <2>4. CASE c.minYears = {} /\ c.maxYears = {}
    BY <2>4 DEF Years
  <2> QED
    BY <2>1, <2>2, <2>3, <2>4
<1>4. c.startHour \in Hours /\ c.endHour \in Int
  BY DEF Conditions, Hours
<1>5. PICK age \in Years :
        c.kind = "AGE" =>
          (\A min \in c.minYears : min <= age) /\ (\A max \in c.maxYears : age <= max)
  BY <1>3
<1>6. Admits(c, age, c.startHour)
  BY <1>2, <1>4, <1>5 DEF Admits, Hours
<1> QED
  BY <1>4, <1>6

(* Only its age matters to an AGE gate, only the hour to a TIME_WINDOW gate.  *)
LEMMA GatesAreApart ==
  ASSUME NEW c, NEW age, NEW hour, NEW age2, NEW hour2, Admits(c, age, hour)
  PROVE  /\ c.kind # "TIME_WINDOW" => Admits(c, age, hour2)
         /\ c.kind # "AGE" => Admits(c, age2, hour)
BY DEF Admits

(* validateRule: a rule it finds no error in can be met.  The check for a    *)
(* gate declared twice is what makes the age and time gates meetable at      *)
(* once, and the check for a child listed twice what makes COUNT reachable.  *)
THEOREM ValidRuleIsSatisfiable ==
  ASSUME NEW rule \in Rules, IsValidRule(rule)
  PROVE  Satisfiable(rule)
<1> DEFINE gates == rule.conditions
<1>1. gates \in Seq(Conditions) /\ Len(gates) \in Nat
  BY DEF Rules
<1>2. ASSUME NEW i \in 1 .. Len(gates), NEW j \in 1 .. Len(gates),
             gates[i].kind = gates[j].kind
      PROVE  i = j
  <2>1. DuplicateKinds(gates) = {}
    BY DEF IsValidRule
  <2>2. ~(i < j) /\ ~(j < i)
    BY <1>2, <2>1 DEF DuplicateKinds
  <2> QED
    BY <2>2
<1>3. ASSUME NEW i \in 1 .. Len(gates)
      PROVE  \E age \in Years, hour \in Hours : Admits(gates[i], age, hour)
  <2>1. gates[i] \in Conditions
    BY <1>1
  <2>2. ConditionErrors(gates[i]) = {}
    BY DEF IsValidRule
  <2> QED
    BY <2>1, <2>2, GateOpens
<1>4. \E age \in Years, hour \in Hours :
        \A i \in 1 .. Len(gates) : Admits(gates[i], age, hour)
  <2>1. \E age \in Years : \A i \in 1 .. Len(gates) :
          gates[i].kind = "AGE" => \E hour \in Hours : Admits(gates[i], age, hour)
    <3>1. CASE \E i \in 1 .. Len(gates) : gates[i].kind = "AGE"
      <4>1. PICK i \in 1 .. Len(gates) : gates[i].kind = "AGE"
        BY <3>1
      <4>2. PICK age \in Years : \E hour \in Hours : Admits(gates[i], age, hour)
        BY <1>3
      <4> QED
        BY <1>2, <4>1, <4>2
    <3>2. CASE ~ \E i \in 1 .. Len(gates) : gates[i].kind = "AGE"
      BY <3>2 DEF Years
    <3> QED
      BY <3>1, <3>2
  <2>2. PICK age \in Years : \A i \in 1 .. Len(gates) :
          gates[i].kind = "AGE" => \E hour \in Hours : Admits(gates[i], age, hour)
    BY <2>1
  <2>3. \E hour \in Hours : \A i \in 1 .. Len(gates) :
          gates[i].kind = "TIME_WINDOW" => \E old \in Years : Admits(gates[i], old, hour)
    <3>1. CASE \E i \in 1 .. Len(gates) : gates[i].kind = "TIME_WINDOW"
      <4>1. PICK i \in 1 .. Len(gates) : gates[i].kind = "TIME_WINDOW"
        BY <3>1
      <4>2. PICK hour \in Hours : \E old \in Years : Admits(gates[i], old, hour)
        BY <1>3
      <4> QED
        BY <1>2, <4>1, <4>2
    <3>2. CASE ~ \E i \in 1 .. Len(gates) : gates[i].kind = "TIME_WINDOW"
      BY <3>2 DEF Hours
    <3> QED
      BY <3>1, <3>2
  <2>4. PICK hour \in Hours : \A i \in 1 .. Len(gates) :
          gates[i].kind = "TIME_WINDOW" => \E old \in Years : Admits(gates[i], old, hour)
    BY <2>3
  <2>5. ASSUME NEW i \in 1 .. Len(gates)
        PROVE  Admits(gates[i], age, hour)
    <3>1. CASE gates[i].kind = "AGE"
      BY <2>2, <3>1, GatesAreApart
    <3>2. CASE gates[i].kind = "TIME_WINDOW"
      BY <2>4, <3>2, GatesAreApart
    <3>3. CASE gates[i].kind # "AGE" /\ gates[i].kind # "TIME_WINDOW"
      BY <3>3 DEF Admits
    <3> QED
      BY <3>1, <3>2, <3>3
  <2> QED
    BY <2>5
<1>5. ASSUME NEW s \in rule.schedule, s.kind = "recurring"
      PROVE  \E day \in Int :
               /\ \A start \in s.startDate : start <= day
               /\ \A end \in s.endDate : day <= end
  <2>1. s \in Schedules
    BY DEF Rules, Optional
  <2>2. "SCHEDULE_END_BEFORE_START" \notin ScheduleErrors(s)
    BY DEF IsValidRule
  <2>3. ASSUME NEW start \in s.startDate, NEW end \in s.endDate
        PROVE  start <= end
    <3>1. start \in Int /\ end \in Int
      BY <2>1 DEF Schedules, Optional
    <3> QED
      BY <1>5, <2>2, <3>1 DEF ScheduleErrors
  <2>4. CASE s.startDate # {}
    <3>1. PICK start \in Int : s.startDate = {start}
      BY <2>1, <2>4 DEF Schedules, Optional
    <3> QED
      BY <2>3, <3>1
  <2>5. CASE s.startDate = {} /\ s.endDate # {}
    <3>1. PICK end \in Int : s.endDate = {end}
      BY <2>1, <2>5 DEF Schedules, Optional
    <3> QED
      BY <2>5, <3>1
  <2>6. CASE s.startDate = {} /\ s.endDate = {}
    BY <2>6
  <2> QED
    BY <2>4, <2>5, <2>6
<1>6. ASSUME NEW c \in rule.composite, c.predicate = "COUNT"
      PROVE  c.n <= Cardinality(Distinct(c.children))
  <2>1. c \in Composites
    BY DEF Rules, Optional
  <2>2. c.n \in Nat /\ Len(c.children) \in Nat
    BY <2>1 DEF Composites
  <2>3. CompositeErrors(c) = {}
    BY DEF IsValidRule
  <2>4. "COUNT_EXCEEDS_CHILDREN" \notin CompositeErrors(c)
        /\ "COMPOSITE_DUPLICATE_CHILD" \notin CompositeErrors(c)
    BY <2>3
  <2>5. ~(c.n > Len(c.children)) /\ Cardinality(Distinct(c.children)) = Len(c.children)
    BY <1>6, <2>4 DEF CompositeErrors
  <2> QED
    BY <2>2, <2>5
<1> QED
  BY <1>4, <1>5, <1>6 DEF Satisfiable

-----------------------------------------------------------------------------
(* Media evidence. *)

(* registerEvidence: every record it returns obeys the upload policy of its  *)
(* kind, is not expired when it is made, can be read by its family and no    *)
(* other, and with a retention schedule is expired 90 days later, give or    *)
(* take the hour of a change to or from summer time.                         *)
THEOREM RetentionIsBounded ==
  ASSUME NEW familyId \in Families, NEW childId \in Children, NEW members,
         NEW kind \in MEDIA_KINDS, NEW contentType \in ContentTypes,
         NEW sizeBytes \in Int, NEW now \in Int, NEW applyRetention \in BOOLEAN,
         RegisterAllowed(members, childId, kind, contentType, sizeBytes),
         NEW evidence \in Registered(familyId, childId, kind, contentType,
                                     sizeBytes, now, applyRetention)
  PROVE  /\ evidence \in MediaRecords
         /\ IsValidUpload(evidence.kind, evidence.contentType, evidence.sizeBytes)
         /\ ~Expired(evidence, now)
         /\ applyRetention <=> Expired(evidence, now + 24 * 90 + 1)
         /\ \A requester \in Families :
              AccessAllowed(evidence, requester) <=> requester = familyId
<1>1. PICK expiry :
        /\ evidence = [familyId |-> familyId, childId |-> childId, kind |-> kind,
             contentType |-> contentType, sizeBytes |-> sizeBytes, uploadedAt |-> now,
             retentionExpiresAt |-> expiry]
        /\ applyRetention => \E shift \in {-1, 0, 1} : expiry = {now + 24 * 90 + shift}
        /\ ~applyRetention => expiry = {}
  BY DEF Registered, AddDays, DEFAULT_RETENTION_DAYS
<1>2. /\ evidence.retentionExpiresAt = expiry /\ evidence.familyId = familyId
      /\ evidence.kind = kind /\ evidence.contentType = contentType
      /\ evidence.sizeBytes = sizeBytes
  BY <1>1
<1>3. IsValidUpload(evidence.kind, evidence.contentType, evidence.sizeBytes)
  BY <1>2 DEF RegisterAllowed
<1>4. \A requester \in Families :
        AccessAllowed(evidence, requester) <=> requester = familyId
  BY <1>2 DEF AccessAllowed
<1>5. CASE applyRetention
  <2>1. PICK shift \in {-1, 0, 1} : expiry = {now + 24 * 90 + shift}
    BY <1>1, <1>5
  <2>2. now + 24 * 90 + shift \in Int
    BY <2>1
  <2>3. evidence \in MediaRecords
    BY <1>1, <2>1, <2>2 DEF MediaRecords
  <2>4. ~Expired(evidence, now) /\ Expired(evidence, now + 24 * 90 + 1)
    BY <1>2, <2>1 DEF Expired
  <2> QED
    BY <1>3, <1>4, <1>5, <2>3, <2>4
<1>6. CASE ~applyRetention
  <2>1. evidence \in MediaRecords
    BY <1>1, <1>6 DEF MediaRecords
  <2>2. ~Expired(evidence, now) /\ ~Expired(evidence, now + 24 * 90 + 1)
    BY <1>1, <1>2, <1>6 DEF Expired
  <2> QED
    BY <1>3, <1>4, <1>6, <2>1, <2>2
<1> QED
  BY <1>5, <1>6

(* expireEvidence: the record is expired from then on, is never kept longer  *)
(* than it would have been, and changes in nothing else; a second call, at   *)
(* whatever later time a retry makes it, changes nothing.                    *)
THEOREM ExpireIsIdempotent ==
  ASSUME NEW evidence \in MediaRecords, NEW now \in Int, NEW later \in Int,
         now <= later
  PROVE  /\ Expired(Expire(evidence, now), later)
         /\ Expire(Expire(evidence, now), later) = Expire(evidence, now)
         /\ \A time \in Int : Expired(evidence, time) /\ time >= now
              => Expired(Expire(evidence, now), time)
         /\ \A time \in evidence.retentionExpiresAt,
               sooner \in Expire(evidence, now).retentionExpiresAt : sooner <= time
         /\ [Expire(evidence, now) EXCEPT !.retentionExpiresAt = {}]
              = [evidence EXCEPT !.retentionExpiresAt = {}]
<1>1. CASE Expired(evidence, now)
  <2>1. Expire(evidence, now) = evidence
    BY <1>1 DEF Expire
  <2>2. PICK time \in Int : evidence.retentionExpiresAt = {time} /\ time <= now
    BY <1>1 DEF Expired, MediaRecords
  <2>3. Expired(evidence, later)
    BY <2>2 DEF Expired
  <2>4. Expire(evidence, later) = evidence
    BY <2>3 DEF Expire
  <2> QED
    BY <2>1, <2>2, <2>3, <2>4
<1>2. CASE ~Expired(evidence, now)
  <2>1. Expire(evidence, now) = [evidence EXCEPT !.retentionExpiresAt = {now}]
    BY <1>2 DEF Expire
  <2>2. Expire(evidence, now).retentionExpiresAt = {now}
    BY <2>1 DEF MediaRecords
  <2>3. \A time \in Int : time >= now => Expired(Expire(evidence, now), time)
    BY <2>2 DEF Expired
  <2>4. Expire(Expire(evidence, now), later) = Expire(evidence, now)
    BY <2>3 DEF Expire
  <2>5. \A time \in evidence.retentionExpiresAt : now <= time
    <3>1. \A time \in evidence.retentionExpiresAt : time \in Int
      BY DEF MediaRecords
    <3> QED
      BY <1>2, <3>1 DEF Expired
  <2>6. [Expire(evidence, now) EXCEPT !.retentionExpiresAt = {}]
          = [evidence EXCEPT !.retentionExpiresAt = {}]
    BY <2>1 DEF MediaRecords
  <2> QED
    BY <2>2, <2>3, <2>4, <2>5, <2>6
<1> QED
  BY <1>1, <1>2

=============================================================================
