------------------------------- MODULE Versioning -------------------------------
(***************************************************************************)
(* packages/versioning: which producer a consumer may talk to (semver.ts), *)
(* which change of a schema is compatible (schema-compatibility.ts), and   *)
(* for whom a flag is on (feature-flags.ts).  Pure functions: nothing here *)
(* has state.                                                              *)
(***************************************************************************)
EXTENDS Integers

(* A version as parseSemVer returns it; any other string throws.             *)
SemVers == [major : Nat, minor : Nat, patch : Nat]

CompareSemVer(a, b) ==
  CASE a.major # b.major -> IF a.major < b.major THEN -1 ELSE 1
    [] a.major = b.major /\ a.minor # b.minor -> IF a.minor < b.minor THEN -1 ELSE 1
    [] a.major = b.major /\ a.minor = b.minor /\ a.patch # b.patch ->
         IF a.patch < b.patch THEN -1 ELSE 1
    [] OTHER -> 0

IsCompatible(consumer, producer) ==
  consumer.major = producer.major /\ CompareSemVer(producer, consumer) >= 0

-----------------------------------------------------------------------------
(* A schema is a function from its fields to whether isOptional says that    *)
(* the field may be missing: a field with a default may.                     *)
RemovedFields(old, new) == DOMAIN old \ DOMAIN new

FieldsBecameRequired(old, new) ==
  {field \in DOMAIN old \cap DOMAIN new : old[field] /\ ~new[field]}

NewRequiredFields(old, new) == {field \in DOMAIN new \ DOMAIN old : ~new[field]}

(* checkSchemaCompatibility reports no violation.                            *)
SchemaCompatible(old, new) ==
  /\ RemovedFields(old, new) = {}
  /\ FieldsBecameRequired(old, new) = {}
  /\ NewRequiredFields(old, new) = {}

(* What parse makes of a payload, by the set of fields it has: it throws if  *)
(* a required one is missing, and strips those that the schema does not      *)
(* know (z.object is neither strict nor passthrough).                        *)
Accepts(schema, sent) == {field \in DOMAIN schema : ~schema[field]} \subseteq sent

Kept(schema, sent) == sent \cap DOMAIN schema

-----------------------------------------------------------------------------
Flags(subjects) ==
  [enabled : BOOLEAN, denylist : SUBSET subjects, allowlist : SUBSET subjects,
   rolloutPercentage : Int]

(* bucket is the hash of key and subject, from 0 to 100; a flag without a    *)
(* percentage has 100.                                                       *)
FlagOn(flag, subject, bucket) ==
  /\ flag.enabled
  /\ subject \notin flag.denylist
  /\ \/ subject \in flag.allowlist
     \/ flag.rolloutPercentage >= 100
     \/ flag.rolloutPercentage > 0 /\ bucket < flag.rolloutPercentage

=============================================================================
