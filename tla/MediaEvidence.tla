----------------------------- MODULE MediaEvidence -----------------------------
(***************************************************************************)
(* The records of media evidence (domain-types/src/media-service.ts): what *)
(* may be uploaded, the record an upload becomes, and how it expires.      *)
(* Pure functions that no endpoint calls yet.  Times are hours; a record   *)
(* that is kept for good has no retentionExpiresAt.                        *)
(***************************************************************************)
EXTENDS Integers

CONSTANTS
  Families, Children, ContentTypes,
  UPLOAD_PERMITTED_CONTENT_TYPES  \* per kind, the content types it may have

MEDIA_KINDS == {"PHOTO", "VIDEO", "AUDIO"}

UPLOAD_MAX_BYTES ==
  [PHOTO |-> 10 * 1024 * 1024, VIDEO |-> 100 * 1024 * 1024, AUDIO |-> 25 * 1024 * 1024]

DEFAULT_RETENTION_DAYS == 90

(* validateUploadPolicy reports no violation.                                *)
IsValidUpload(kind, contentType, sizeBytes) ==
  /\ contentType \in UPLOAD_PERMITTED_CONTENT_TYPES[kind]
  /\ sizeBytes <= UPLOAD_MAX_BYTES[kind]
  /\ sizeBytes > 0

(* setDate counts calendar days of the server's time zone, so a change to or *)
(* from summer time in between makes an hour of difference.                  *)
AddDays(time, days) == {time + 24 * days + shift : shift \in {-1, 0, 1}}

MediaRecords ==
  [familyId : Families, childId : Children, kind : MEDIA_KINDS,
   contentType : ContentTypes, sizeBytes : Int, uploadedAt : Int,
   retentionExpiresAt : {{}} \cup {{time} : time \in Int}]

(* The blank storage key is left out: it is one more reason to throw.        *)
RegisterAllowed(members, childId, kind, contentType, sizeBytes) ==
  childId \in members /\ IsValidUpload(kind, contentType, sizeBytes)

(* The records that registerEvidence may return, one per possible expiry.    *)
Registered(familyId, childId, kind, contentType, sizeBytes, now, applyRetention) ==
  {[familyId |-> familyId, childId |-> childId, kind |-> kind,
    contentType |-> contentType, sizeBytes |-> sizeBytes, uploadedAt |-> now,
    retentionExpiresAt |-> expiry] :
     expiry \in IF applyRetention
                THEN {{time} : time \in AddDays(now, DEFAULT_RETENTION_DAYS)}
                ELSE {{}}}

AccessAllowed(evidence, requestingFamilyId) == evidence.familyId = requestingFamilyId

Expired(evidence, now) == \E time \in evidence.retentionExpiresAt : time <= now

Expire(evidence, now) ==
  IF Expired(evidence, now) THEN evidence
  ELSE [evidence EXCEPT !.retentionExpiresAt = {now}]

=============================================================================
