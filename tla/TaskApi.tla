-------------------------------- MODULE TaskApi --------------------------------
(***************************************************************************)
(* The task endpoints as a web page meets them: a request reaches the      *)
(* server at most once, some time after it was sent, has the effect of     *)
(* TaskLifecycle (TaskRequests implements that), and is answered with a    *)
(* body or an error code.  A request or an answer may be lost on the way,  *)
(* through the proxy of packages/web-session; a request the page has given *)
(* up on may still arrive.  No mutation carries anything by which the      *)
(* server could recognise a repetition: the handlers ignore the            *)
(* idempotency keys of these calls.                                        *)
(***************************************************************************)
EXTENDS TaskLifecycle

CONSTANTS
  MaxFaults  \* bound: how many calls fail or are abandoned

VARIABLES
  faults,  \* how many have
  stray    \* a request given up on that may still arrive, or None

faultVars == <<faults, stray>>

apiVars == <<lifecycleVars, faultVars>>

-----------------------------------------------------------------------------
(* Requests and answers. *)

Create(reward) == [op |-> "create", reward |-> reward]
Publish(t) == [op |-> "publish", id |-> t]
Assign(t, child) == [op |-> "assign", id |-> t, child |-> child]
Load(a) == [op |-> "load", id |-> a]
Start(a) == [op |-> "start", id |-> a]
Submit(a) == [op |-> "submit", id |-> a]

Requests ==
  {Create(reward) : reward \in Rewards} \cup {Publish(t) : t \in Templates}
  \cup {Assign(t, child) : t \in Templates, child \in Children}
  \cup {Load(a) : a \in Assignments} \cup {Start(a) : a \in Assignments}
  \cup {Submit(a) : a \in Assignments}

(* A row as the pages read it. *)
Views == [status : AssignmentStatuses, version : Nat]

Seen(a) == [status |-> assignment[a].status, version |-> assignment[a].version]

Ok(body) == [code |-> "OK", body |-> body]

(* A domain error's code is in no recovery table. *)
Refused == [code |-> "DOMAIN_ERROR", body |-> None]

Answers ==
  [code : {"OK", "DOMAIN_ERROR"}, body : Templates \cup Views \cup {None}]

(* null is neither an id nor an object.                                      *)
ASSUME TaskApiAssumption ==
  /\ MaxFaults \in Nat
  /\ None \notin Assignments /\ None \notin Requests
  /\ None \notin Answers /\ None \notin Views

(* New ids; that there is one is a bound of the modules that send requests. *)
FreshTemplate == CHOOSE t \in Templates : template[t].status = "ABSENT"

FreshAssignment == CHOOSE a \in Assignments : assignment[a].status = "ABSENT"

(* Requests that find nothing to change. *)
Replays(req) ==
  \/ req.op = "load"
  \/ req.op = "publish" /\ template[req.id].status = "ACTIVE"
  \/ req.op = "start" /\ assignment[req.id].status = "IN_PROGRESS"

Accepted(req) ==
  \/ Replays(req)
  \/ req.op = "create" /\ CreateTemplateAllowed(req.reward)
  \/ req.op = "publish" /\ PublishTemplateAllowed(template[req.id])
  \/ req.op = "assign" /\ AssignTaskAllowed(template[req.id])
  \/ req.op = "start" /\ StartTaskAllowed(assignment[req.id], assignment[req.id].child)
  \/ req.op = "submit" /\ SubmitTaskAllowed(assignment[req.id], assignment[req.id].child)

Reply(req) ==
  IF ~Accepted(req) THEN Refused
  ELSE CASE req.op = "create" -> Ok(FreshTemplate)
         [] req.op = "load" -> Ok(Seen(req.id))
         [] OTHER -> Ok(None)

(* The server's step for a request. *)
Handle(req) ==
  \/ (Replays(req) \/ ~Accepted(req)) /\ UNCHANGED lifecycleVars
  \/ req.op = "create" /\ FreshTemplate \in Templates /\ CreateTemplate(FreshTemplate, req.reward)
  \/ req.op = "publish" /\ PublishTemplate(req.id)
  \/ /\ req.op = "assign" /\ FreshAssignment \in Assignments
     /\ AssignTask(FreshAssignment, req.id, req.child)
  \/ req.op = "start" /\ StartTask(req.id)
  \/ req.op = "submit" /\ SubmitTask(req.id)

-----------------------------------------------------------------------------
(* Failures. *)

FailureCodes == {"NETWORK_ERROR", "BAD_GATEWAY"}

(* A call fails.  Its request may still be under way, its answer may be lost *)
(* or, if another stray request is, the request (bound: one stray at a time).*)
GiveUp(req, served) ==
  /\ faults < MaxFaults
  /\ faults' = faults + 1
  /\ stray' = IF served \/ req.op = "load" \/ stray # None THEN stray ELSE req

(* A request nobody waits for reaches the server. *)
StrayArrives ==
  /\ stray # None
  /\ Handle(stray)
  /\ stray' = None
  /\ UNCHANGED faults

ApiInit ==
  /\ Init
  /\ faults = 0
  /\ stray = None

=============================================================================
