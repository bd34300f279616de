------------------------------- MODULE WebScreens -------------------------------
(***************************************************************************)
(* What the web front ends derive from data: the recovery tables of        *)
(* packages/ui, the task states of packages/ux-contracts, and the screens  *)
(* of the task builder, the child's task page and the child's day.  Texts  *)
(* and labels are left out.                                                *)
(***************************************************************************)
EXTENDS Integers

-----------------------------------------------------------------------------
(* recovery.ts: what a person can do about an error code. *)

PARENT_RECOVERY ==
  [CONFLICT |-> "REFRESH", INVALID_SESSION |-> "SIGN_IN", MISSING_SESSION |-> "SIGN_IN",
   NOT_FOUND |-> "REFRESH", TOO_MANY_ATTEMPTS |-> "NONE",
   NETWORK_ERROR |-> "RETRY", INTERNAL_ERROR |-> "RETRY"]

CHILD_RECOVERY ==
  [CONFLICT |-> "REFRESH", INVALID_SESSION |-> "ASK_ADULT", MISSING_SESSION |-> "ASK_ADULT",
   NOT_FOUND |-> "REFRESH", NOT_ACTIVE_FAMILY_MEMBER |-> "NONE",
   NETWORK_ERROR |-> "RETRY", INTERNAL_ERROR |-> "RETRY"]

FALLBACK == [parent |-> "RETRY", child |-> "ASK_ADULT"]

RecoveryActions == {"RETRY", "REFRESH", "SIGN_IN", "ASK_ADULT", "NONE"}

RecoveryForMutant(code, surface) ==
  LET table == IF surface = "child" THEN CHILD_RECOVERY ELSE PARENT_RECOVERY
  IN IF code \in DOMAIN table THEN table[code] ELSE "undefined"

RecoveryFor(code, surface) ==
  LET table == IF surface = "child" THEN CHILD_RECOVERY ELSE PARENT_RECOVERY
  IN IF code \in DOMAIN table THEN table[code] ELSE FALLBACK[surface]

-----------------------------------------------------------------------------
(* task-state.ts and the child's task page. *)

UI_TASK_STATES ==
  {"NOT_STARTED", "IN_PROGRESS", "SUBMITTED", "VERIFYING", "APPROVED",
   "REJECTED", "FAILED", "REWARD_PENDING", "COMPLETED"}

(* failed: the latest verification's outcome is FAILED. *)
DeriveUiTaskState(status, failed, rejectedByParent, rewardLedgered) ==
  CASE status = "ASSIGNED" -> "NOT_STARTED"
    [] status = "REJECTED" -> IF failed /\ ~rejectedByParent THEN "FAILED" ELSE "REJECTED"
    [] status = "APPROVED" -> IF rewardLedgered THEN "COMPLETED" ELSE "REWARD_PENDING"
    [] status = "ARCHIVED" -> "COMPLETED"
    [] OTHER -> status

ToScreenState(ui, online, sendFailed) ==
  IF ~online THEN "OFFLINE"
  ELSE IF sendFailed THEN "RETRYABLE_FAILURE"
  ELSE CASE ui = "NOT_STARTED" -> "READY"
         [] ui = "SUBMITTED" -> "WAITING_FOR_PROOF"
         [] ui \in {"APPROVED", "REWARD_PENDING", "COMPLETED"} -> "APPROVED"
         [] ui \in {"REJECTED", "FAILED"} -> "REJECTED_WITH_EXPLANATION"
         [] OTHER -> ui

(* The page passes the status alone. *)
TaskScreen(status, sendFailed) ==
  ToScreenState(DeriveUiTaskState(status, FALSE, FALSE, FALSE), TRUE, sendFailed)

OfferedMutant(screen) ==
  CASE screen \in {"READY", "REJECTED_WITH_EXPLANATION"} -> {"start"}
    [] screen \in {"IN_PROGRESS", "WAITING_FOR_PROOF"} -> {"submit"}
    [] screen \in {"RETRYABLE_FAILURE", "OFFLINE"} -> {"load"}
    [] OTHER -> {}

OfferedOnceMutant(screen) ==
  CASE screen = "READY" -> {"start"}
    [] screen = "IN_PROGRESS" -> {"submit"}
    [] screen \in {"RETRYABLE_FAILURE", "OFFLINE"} -> {"load"}
    [] OTHER -> {}

(* The one request the page's button would send. *)
Offered(screen) ==
  CASE screen \in {"READY", "REJECTED_WITH_EXPLANATION"} -> {"start"}
    [] screen = "IN_PROGRESS" -> {"submit"}
    [] screen \in {"RETRYABLE_FAILURE", "OFFLINE"} -> {"load"}
    [] OTHER -> {}

-----------------------------------------------------------------------------
(* today.ts: the child's day.  A card: its status, and whether it is overdue. *)

SETTLED == {"APPROVED", "COMPLETED", "ARCHIVED"}

DeriveTodayState(cards, online, syncFailed, everHadTasks) ==
  IF ~online THEN "OFFLINE"
  ELSE IF syncFailed THEN "FAILED_SYNC"
  ELSE IF cards = {} THEN (IF everHadTasks THEN "NO_TASKS" ELSE "FIRST_DAY")
  ELSE IF \E c \in cards : c.overdue /\ c.status \notin SETTLED THEN "OVERDUE"
  ELSE IF \A c \in cards : c.status \in SETTLED THEN "ALL_COMPLETE"
  ELSE "NORMAL_DAY"

(* What the invitation on a card amounts to. *)
CardInvitation(status) ==
  CASE status = "ASSIGNED" -> "start"
    [] status = "IN_PROGRESS" -> "continue"
    [] status \in {"SUBMITTED", "VERIFYING"} -> "wait"
    [] status \in {"APPROVED", "COMPLETED"} -> "done"
    [] status = "REJECTED" -> "try again"
    [] OTHER -> "open"

-----------------------------------------------------------------------------
(* The task builder: task-draft.ts and the page's screenState. *)

(* filled: the title and the due date pass. *)
DraftErrors(draft, children) ==
  {e \in {"filled", "child", "XP", "COINS"} :
     \/ e = "filled" /\ ~draft.filled
     \/ e = "child" /\ draft.child \notin children
     \/ e \in {"XP", "COINS"} /\ draft.reward[e] < 0}

(* young: the child is below the age comfortable with photo proofs. *)
DraftWarnings(draft, young) ==
  {w \in {"unrewarded", "photo"} :
     \/ w = "unrewarded" /\ \A k \in {"XP", "COINS"} : draft.reward[k] = 0
     \/ w = "photo" /\ draft.strategy = "PHOTO_PROOF" /\ young}

(* What screenState returns for a page that is online. *)
BuilderScreen(stage, recovery, showProblems, errors, warnings) ==
  IF recovery = "REFRESH" THEN "CONFLICT"
  ELSE IF stage # "DRAFT" THEN stage
  ELSE IF showProblems /\ errors # {} THEN "VALIDATION_ERROR"
  ELSE IF showProblems /\ warnings # {} THEN "VALIDATION_WARNINGS"
  ELSE "DRAFT"

=============================================================================
