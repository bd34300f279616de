------------------------------- MODULE RewardLedger -------------------------------
(***************************************************************************)
(* What the reward repository promises: every call takes effect at once or *)
(* not at all, on the current catalog row and the current ledger.  A       *)
(* ledger entry is written once under its idempotency key and never        *)
(* changed; confirming a redemption and posting its entry are one step.    *)
(* RewardRequests gives the transactions that implement this.              *)
(*                                                                         *)
(* The keys are the ones idempotency.ts builds: an event, the entity it    *)
(* comes from and a reference that tells events of one entity apart (the   *)
(* currency of a completion, the window of a streak, the attempt of a      *)
(* redemption, the caller's reference of an adjustment).                   *)
(*                                                                         *)
(* A row's isOneUse is left out: it is stored when a reward is created,    *)
(* copied by every transition, and read by no call, so that a reward that  *)
(* is not one-use is treated as one that is.                               *)
(***************************************************************************)
EXTENDS Integers

CONSTANTS
  Rewards,      \* ids of catalog rewards
  Assignments,  \* ids of completed task assignments
  Children,     \* children of the family
  Parents,      \* parents of the family
  Attempts,     \* redemption attempts
  Windows,      \* streak windows
  References,   \* references of a parent's adjustments
  Amounts,      \* the amounts a caller passes, a finite set of integers
  None          \* no reward

ASSUME RewardLedgerAssumption ==
  /\ Amounts \subseteq Int
  /\ None \notin Rewards

VARIABLES
  reward,  \* the rows of rewards
  ledger   \* the rows of reward_ledger_entries, by idempotency key

rewardVars == <<reward, ledger>>

Statuses == {"LOCKED", "AVAILABLE", "REDEEMING", "REDEEMED", "EXPIRED", "CANCELLED"}

IsValidRewardTransition(from, to) ==
  <<from, to>> \in
    {<<"LOCKED", "AVAILABLE">>, <<"LOCKED", "EXPIRED">>, <<"LOCKED", "CANCELLED">>,
     <<"AVAILABLE", "REDEEMING">>, <<"AVAILABLE", "EXPIRED">>, <<"AVAILABLE", "CANCELLED">>,
     <<"REDEEMING", "REDEEMED">>, <<"REDEEMING", "AVAILABLE">>, <<"REDEEMING", "CANCELLED">>}

RewardRows == [status : Statuses \cup {"ABSENT"}, version : Nat]

AbsentReward == [status |-> "ABSENT", version |-> 0]
NewReward == [status |-> "LOCKED", version |-> 1]
MovedMutant(row, status) == [status |-> status, version |-> row.version]

Moved(row, status) == [status |-> status, version |-> row.version + 1]

-----------------------------------------------------------------------------
(* Keys and entries. *)

Currencies == {"XP", "COINS"}

TaskCompletionKey(a, kind) == [event |-> "task-completion", source |-> a, ref |-> kind]
StreakBonusKey(child, window) == [event |-> "streak-bonus", source |-> child, ref |-> window]
RedemptionKey(r, attempt) == [event |-> "reward-redemption", source |-> r, ref |-> attempt]
AdjustmentKey(p, ref) == [event |-> "parent-adjustment", source |-> p, ref |-> ref]

Keys ==
  {TaskCompletionKey(a, kind) : a \in Assignments, kind \in Currencies}
    \cup {StreakBonusKey(child, window) : child \in Children, window \in Windows}
    \cup {RedemptionKey(r, attempt) : r \in Rewards, attempt \in Attempts}
    \cup {AdjustmentKey(p, ref) : p \in Parents, ref \in References}

(* sourceReward links a redemption's entry to the reward; amount 0 is what   *)
(* a redemption posts.                                                       *)
Entry(amount, r) == [posted |-> TRUE, amount |-> amount, sourceReward |-> r]
NoEntry == [posted |-> FALSE, amount |-> 0, sourceReward |-> None]

Entries ==
  [posted : BOOLEAN, amount : Amounts \cup {0}, sourceReward : Rewards \cup {None}]

(* A post is an entry that a call wants under a key. *)
Posts == [key : Keys, entry : Entries]

Post(key, entry) == [key |-> key, entry |-> entry]

(* INSERT ... ON CONFLICT (idempotency_key) DO NOTHING, for a set of posts   *)
(* with different keys.                                                      *)
Posted(entries, posts) ==
  [key \in Keys |->
     IF entries[key] = NoEntry /\ \E post \in posts : post.key = key
       THEN (CHOOSE post \in posts : post.key = key).entry
       ELSE entries[key]]

-----------------------------------------------------------------------------
(* What each call asks for: [op, reward, posts]. *)

CatalogOps == {"create", "activate", "redeem", "confirm", "cancelRedemption", "expire", "cancel"}
LedgerOps == {"grant", "streak", "adjust"}

(* Which status a catalog operation leads to. *)
Target(op) ==
  CASE op = "create"           -> "LOCKED"
    [] op = "activate"         -> "AVAILABLE"
    [] op = "redeem"           -> "REDEEMING"
    [] op = "confirm"          -> "REDEEMED"
    [] op = "cancelRedemption" -> "AVAILABLE"
    [] op = "expire"           -> "EXPIRED"
    [] op = "cancel"           -> "CANCELLED"

(* When the domain function does not throw: some name the status they start  *)
(* from (requireRewardStatus), some ask the table (requireRewardTransition). *)
CatalogAllowedMutant(op, status) ==
  CASE op = "redeem"                           -> status = "AVAILABLE"
    [] op = "confirm"                          -> status \in {"REDEEMING", "REDEEMED"}
    [] op = "cancelRedemption"                 -> status = "REDEEMING"
    [] op \in {"activate", "expire", "cancel"} -> IsValidRewardTransition(status, Target(op))
    [] op = "create"                           -> status = "ABSENT"

CatalogAllowed(op, status) ==
  CASE op = "redeem"                           -> status = "AVAILABLE"
    [] op \in {"confirm", "cancelRedemption"}  -> status = "REDEEMING"
    [] op \in {"activate", "expire", "cancel"} -> IsValidRewardTransition(status, Target(op))
    [] op = "create"                           -> status = "ABSENT"

(* The amounts the domain functions accept. *)
PostsAllowed(op, posts) ==
  \A post \in posts :
    CASE op = "grant"  -> post.entry.amount >= 0
      [] op = "streak" -> post.entry.amount > 0
      [] op = "adjust" -> post.entry.amount # 0
      [] OTHER         -> TRUE

(* The posts of a completion: a currency whose amount is 0 is skipped.       *)
GrantPosts(a, paid) ==
  {Post(TaskCompletionKey(a, kind), Entry(paid[kind], None)) :
     kind \in {k \in Currencies : paid[k] # 0}}

StreakPosts(child, window, amount) ==
  {Post(StreakBonusKey(child, window), Entry(amount, None))}
AdjustPosts(p, ref, amount) == {Post(AdjustmentKey(p, ref), Entry(amount, None))}
RedemptionPosts(r, attempt) == {Post(RedemptionKey(r, attempt), Entry(0, r))}

-----------------------------------------------------------------------------
Init ==
  /\ reward = [r \in Rewards |-> AbsentReward]
  /\ ledger = [key \in Keys |-> NoEntry]

CreateReward(r) ==
  /\ reward[r] = AbsentReward
  /\ reward' = [reward EXCEPT ![r] = NewReward]
  /\ UNCHANGED ledger

ChangeReward(r, op) ==
  /\ CatalogAllowed(op, reward[r].status)
  /\ reward' = [reward EXCEPT ![r] = Moved(reward[r], Target(op))]
  /\ UNCHANGED ledger

ConfirmRedemption(r, attempt) ==
  /\ CatalogAllowed("confirm", reward[r].status)
  /\ reward' = [reward EXCEPT ![r] = Moved(reward[r], "REDEEMED")]
  /\ ledger' = Posted(ledger, RedemptionPosts(r, attempt))

PostEntries(op, posts) ==
  /\ PostsAllowed(op, posts)
  /\ ledger' = Posted(ledger, posts)
  /\ UNCHANGED reward

GrantTaskReward(a, paid) == PostEntries("grant", GrantPosts(a, paid))

GrantStreakBonus(child, window, amount) ==
  PostEntries("streak", StreakPosts(child, window, amount))

AdjustBalance(p, ref, amount) == PostEntries("adjust", AdjustPosts(p, ref, amount))

Next ==
  \/ \E r \in Rewards :
       \/ CreateReward(r)
       \/ \E op \in CatalogOps \ {"create", "confirm"} : ChangeReward(r, op)
       \/ \E attempt \in Attempts : ConfirmRedemption(r, attempt)
  \/ \E a \in Assignments, paid \in [Currencies -> Amounts] : GrantTaskReward(a, paid)
  \/ \E amount \in Amounts :
       \/ \E child \in Children, window \in Windows : GrantStreakBonus(child, window, amount)
       \/ \E p \in Parents, ref \in References : AdjustBalance(p, ref, amount)

Spec == Init /\ [][Next]_rewardVars

=============================================================================
