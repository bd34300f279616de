------------------------------ MODULE RewardRequests ------------------------------
(***************************************************************************)
(* The calls of reward-repository.ts as they run, each in a transaction of *)
(* its own at READ COMMITTED.  A call on a catalog reward first takes its  *)
(* row lock (loadReward: SELECT ... FOR UPDATE).  A call that posts looks  *)
(* its keys up with a plain SELECT and inserts what it did not find with   *)
(* ON CONFLICT DO NOTHING: the insert waits while another transaction has  *)
(* an uncommitted entry under the key, then skips if that one committed    *)
(* and inserts if it rolled back.                                          *)
(*                                                                         *)
(* Only redeem has a route today; the other calls are the repository's     *)
(* interface for the economy service, with the keys of idempotency.ts.     *)
(*                                                                         *)
(* DecideMutant and the Insert... operators that Insert does not use are   *)
(* deliberate faults: the README says which property each of them breaks.  *)
(***************************************************************************)
EXTENDS RewardLedger

CONSTANTS
  Conns,      \* connections of the pool
  System,     \* the "system" actor, whose membership nobody checks
  MaxVersion  \* bound: how often a reward's row changes

ASSUME RewardRequestsAssumption ==
  /\ None \notin Conns
  /\ System \notin Parents
  /\ MaxVersion \in Nat

VARIABLES
  members,     \* parents whose membership is ACTIVE
  rewardLock,  \* who holds the row lock of a reward, or None
  inserting,   \* who has an uncommitted entry under a key, or None
  pc,          \* the statement a connection is at
  req,         \* the call a connection is executing
  tx           \* what its transaction has read and written

vars == <<reward, ledger, members, rewardLock, inserting, pc, req, tx>>

Statements == {"idle", "lock", "decide", "insert", "commit"}

Requests ==
  [op : CatalogOps \cup LedgerOps, actor : Parents \cup {System},
   reward : Rewards \cup {None}, posts : SUBSET Posts]

(* row is the transaction's copy of the reward, todo the posts its lookup    *)
(* did not find and it has still to insert, claimed the posts it answers     *)
(* with duplicate: false, inserted those it really inserted.                 *)
Transactions ==
  [row : RewardRows, todo : SUBSET Posts, claimed : SUBSET Posts, inserted : SUBSET Posts]

NoTransaction == [row |-> AbsentReward, todo |-> {}, claimed |-> {}, inserted |-> {}]

NoRequest == [op |-> "create", actor |-> System, reward |-> None, posts |-> {}]

RequestsInit ==
  /\ Init
  /\ members = Parents
  /\ rewardLock = [r \in Rewards |-> None]
  /\ inserting = [key \in Keys |-> None]
  /\ pc = [c \in Conns |-> "idle"]
  /\ req = [c \in Conns |-> NoRequest]
  /\ tx = [c \in Conns |-> NoTransaction]

-----------------------------------------------------------------------------
Goto(c, statement) == pc' = [pc EXCEPT ![c] = statement]

Private(c) == UNCHANGED <<rewardVars, members, rewardLock, inserting, req>>

(* requireActiveParentMemberOrSystem, a plain SELECT.  A redemption's        *)
(* initiation and the two grants check no membership.                        *)
Authorized(c) ==
  \/ req[c].op \in {"redeem", "grant", "streak"}
  \/ req[c].actor = System
  \/ req[c].actor \in members

(* COMMIT and ROLLBACK. *)
End(c) ==
  /\ Goto(c, "idle")
  /\ rewardLock' = [r \in Rewards |-> IF rewardLock[r] = c THEN None ELSE rewardLock[r]]
  /\ inserting' = [key \in Keys |-> IF inserting[key] = c THEN None ELSE inserting[key]]
  /\ tx' = [tx EXCEPT ![c] = NoTransaction]
  /\ req' = [req EXCEPT ![c] = NoRequest]
  /\ UNCHANGED members

Rollback(c) == End(c) /\ UNCHANGED rewardVars

-----------------------------------------------------------------------------
(* A call begins. *)

Receive(c, request, statement) ==
  /\ pc[c] = "idle"
  /\ req' = [req EXCEPT ![c] = request]
  /\ Goto(c, statement)
  /\ UNCHANGED <<rewardVars, members, rewardLock, inserting, tx>>

Call(op, actor, r, posts) == [op |-> op, actor |-> actor, reward |-> r, posts |-> posts]

(* A reward's id is a fresh UUID. *)
FreshReward(r) ==
  reward[r] = AbsentReward /\ \A d \in Conns : ~(req[d].op = "create" /\ req[d].reward = r)

ReceiveCreate(c, p, r) ==
  /\ FreshReward(r)
  /\ Receive(c, Call("create", p, r, {}), "decide")

(* Any session scoped to the family may redeem, so the actor is left out.    *)
ReceiveRedeem(c, r) ==
  /\ reward[r].version < MaxVersion
  /\ Receive(c, Call("redeem", System, r, {}), "lock")

ReceiveChange(c, op, p, r) ==
  /\ reward[r].version < MaxVersion
  /\ Receive(c, Call(op, p, r, {}), "lock")

ReceiveConfirm(c, p, r, attempt) ==
  Receive(c, Call("confirm", p, r, RedemptionPosts(r, attempt)), "lock")

ReceiveGrant(c, a, paid) ==
  Receive(c, Call("grant", System, None, GrantPosts(a, paid)), "decide")

ReceiveStreak(c, child, window, amount) ==
  Receive(c, Call("streak", System, None, StreakPosts(child, window, amount)), "decide")

ReceiveAdjust(c, p, ref, amount) ==
  Receive(c, Call("adjust", p, None, AdjustPosts(p, ref, amount)), "decide")

-----------------------------------------------------------------------------
(* loadReward: the row lock, and the latest committed row. *)
LockReward(c) ==
  /\ pc[c] = "lock"
  /\ LET r == req[c].reward IN
       /\ rewardLock[r] = None
       /\ rewardLock' = [rewardLock EXCEPT ![r] = c]
       /\ tx' = [tx EXCEPT ![c].row = reward[r]]
  /\ Goto(c, "decide")
  /\ UNCHANGED <<rewardVars, members, inserting, req>>

(* The controller's answer to a repeated redeem, on the locked row. *)
RedeemReplay(c) ==
  /\ pc[c] = "decide" /\ req[c].op = "redeem"
  /\ tx[c].row.status \in {"REDEEMING", "REDEEMED"}
  /\ Rollback(c)

CallAllowed(c) ==
  /\ Authorized(c)
  /\ req[c].op \in CatalogOps => CatalogAllowed(req[c].op, tx[c].row.status)
  /\ PostsAllowed(req[c].op, req[c].posts)

(* The row the call leaves: a ledger call has none. *)
NextRow(c) ==
  IF req[c].op = "create" THEN NewReward
  ELSE IF req[c].op \in CatalogOps THEN Moved(tx[c].row, Target(req[c].op))
  ELSE tx[c].row

(* loadLedgerEntryByKey: the posts whose key has no committed entry.         *)
NotFound(posts) == {post \in posts : ledger[post.key] = NoEntry}

(* The membership check, the key lookup, the domain function and, on the     *)
(* locked row, the UPDATE.  The UPDATE's version check cannot fail: nobody   *)
(* else has written the row since it was locked.                             *)
DecideMutant(c) ==
  /\ pc[c] = "decide" /\ CallAllowed(c)
  /\ tx' = [tx EXCEPT ![c].row = NextRow(c),
                      ![c].todo = req[c].posts,
                      ![c].claimed = NotFound(req[c].posts)]
  /\ Goto(c, IF req[c].posts = {} THEN "commit" ELSE "insert")
  /\ Private(c)

Decide(c) ==
  /\ pc[c] = "decide" /\ CallAllowed(c)
  /\ tx' = [tx EXCEPT ![c].row = NextRow(c),
                      ![c].todo = NotFound(req[c].posts),
                      ![c].claimed = NotFound(req[c].posts)]
  /\ Goto(c, IF NotFound(req[c].posts) = {} THEN "commit" ELSE "insert")
  /\ Private(c)

Refuse(c) ==
  /\ pc[c] = "decide" /\ ~CallAllowed(c)
  /\ ~(req[c].op = "redeem" /\ tx[c].row.status \in {"REDEEMING", "REDEEMED"})
  /\ Rollback(c)

(* XP is inserted before COINS. *)
Precedes(post, other) == post.key.ref = "COINS" => other.key.ref # "XP"

InsertWithoutWaiting(c, post) ==
  /\ pc[c] = "insert" /\ post \in tx[c].todo
  /\ LET rest == tx[c].todo \ {post}
         free == ledger[post.key] = NoEntry /\ inserting[post.key] = None IN
       /\ tx' = [tx EXCEPT ![c].todo = rest,
                           ![c].inserted = IF free THEN @ \cup {post} ELSE @]
       /\ inserting' = IF free THEN [inserting EXCEPT ![post.key] = c] ELSE inserting
       /\ Goto(c, IF rest = {} THEN "commit" ELSE "insert")
  /\ UNCHANGED <<rewardVars, members, rewardLock, req>>

InsertOnAnotherConnection(c, post) ==
  /\ pc[c] = "insert" /\ post \in tx[c].todo
  /\ ledger' = Posted(ledger, {post})
  /\ tx' = [tx EXCEPT ![c].todo = @ \ {post}]
  /\ Goto(c, IF tx[c].todo = {post} THEN "commit" ELSE "insert")
  /\ UNCHANGED <<reward, members, rewardLock, inserting, req>>

InsertInAnyOrder(c, post) ==
  /\ pc[c] = "insert" /\ post \in tx[c].todo
  /\ inserting[post.key] = None
  /\ LET rest == tx[c].todo \ {post}
         free == ledger[post.key] = NoEntry IN
       /\ tx' = [tx EXCEPT ![c].todo = rest,
                           ![c].inserted = IF free THEN @ \cup {post} ELSE @]
       /\ inserting' = IF free THEN [inserting EXCEPT ![post.key] = c] ELSE inserting
       /\ Goto(c, IF rest = {} THEN "commit" ELSE "insert")
  /\ UNCHANGED <<rewardVars, members, rewardLock, req>>

Insert(c, post) ==
  /\ \A other \in tx[c].todo : Precedes(post, other)
  /\ InsertInAnyOrder(c, post)

Commit(c) ==
  /\ pc[c] = "commit"
  /\ reward' = IF req[c].op \in CatalogOps
                 THEN [reward EXCEPT ![req[c].reward] = tx[c].row]
                 ELSE reward
  /\ ledger' = Posted(ledger, tx[c].inserted)
  /\ End(c)

(* The server dies or the connection drops before COMMIT. *)
Crash(c) == pc[c] # "idle" /\ Rollback(c)

SetMember(p) ==
  /\ \/ members' = members \ {p}
     \/ members' = members \cup {p}
  /\ members' # members
  /\ UNCHANGED <<rewardVars, rewardLock, inserting, pc, req, tx>>

-----------------------------------------------------------------------------
Arrive(c) ==
  \/ \E r \in Rewards :
       \/ \E p \in Parents : ReceiveCreate(c, p, r)
       \/ ReceiveRedeem(c, r)
       \/ \E p \in Parents \cup {System} :
            \/ \E op \in {"activate", "cancelRedemption", "expire", "cancel"} :
                 ReceiveChange(c, op, p, r)
            \/ \E attempt \in Attempts : ReceiveConfirm(c, p, r, attempt)
  \/ \E a \in Assignments, paid \in [Currencies -> Amounts] : ReceiveGrant(c, a, paid)
  \/ \E amount \in Amounts :
       \/ \E child \in Children, window \in Windows : ReceiveStreak(c, child, window, amount)
       \/ \E p \in Parents, ref \in References : ReceiveAdjust(c, p, ref, amount)

(* The statements that may wait for another transaction. *)
Waiting(c) == LockReward(c) \/ \E post \in tx[c].todo : Insert(c, post)

Handle(c) == RedeemReplay(c) \/ Decide(c) \/ Refuse(c) \/ Commit(c)

RequestsNext ==
  \/ \E c \in Conns : Arrive(c) \/ Waiting(c) \/ Handle(c) \/ Crash(c)
  \/ \E p \in Parents : SetMember(p)

RequestsSpec == RequestsInit /\ [][RequestsNext]_vars

-----------------------------------------------------------------------------
(* Properties. *)

(* Every variable has its type. *)
RewardTypeOK ==
  /\ reward \in [Rewards -> RewardRows]
  /\ DOMAIN ledger = Keys /\ \A key \in Keys : ledger[key] \in Entries
  /\ members \subseteq Parents
  /\ rewardLock \in [Rewards -> Conns \cup {None}]
  /\ DOMAIN inserting = Keys /\ \A key \in Keys : inserting[key] \in Conns \cup {None}
  /\ pc \in [Conns -> Statements]
  /\ \A c \in Conns :
       /\ req[c].op \in CatalogOps \cup LedgerOps
       /\ req[c].posts \subseteq Posts
       /\ tx[c].row \in RewardRows
       /\ tx[c].todo \subseteq tx[c].claimed
       /\ tx[c].inserted \subseteq tx[c].claimed
       /\ tx[c].claimed \subseteq req[c].posts

(* A reward is REDEEMED exactly when one redemption of it is in the ledger,  *)
(* and never more than one is: whatever is confirmed twice, cancelled, tried *)
(* again under another attempt id or rolled back between the two writes.     *)
(* This is right of a one-use reward, and it is what the code does with      *)
(* every reward, isOneUse or not.  For one that is not, idempotency.ts       *)
(* expects several attempts to be told apart by their ids: REDEEMED being    *)
(* terminal, there is no second one (README, section 6).                     *)
RedeemedExactlyOnce ==
  \A r \in Rewards :
    LET entries == {key \in Keys : ledger[key].sourceReward = r} IN
      IF reward[r].status = "REDEEMED" THEN \E key \in Keys : entries = {key} ELSE entries = {}

(* A reward's version says which transitions it has been through: it counts  *)
(* every one of them, and none is lost to a concurrent one.                  *)
RewardVersionCounts ==
  \A r \in Rewards :
    LET row == reward[r] IN
      \/ row.status = "ABSENT"    /\ row.version = 0
      \/ row.status = "LOCKED"    /\ row.version = 1
      \/ row.status = "AVAILABLE" /\ row.version >= 2 /\ row.version % 2 = 0
      \/ row.status = "REDEEMING" /\ row.version >= 3 /\ row.version % 2 = 1
      \/ row.status = "REDEEMED"  /\ row.version >= 4 /\ row.version % 2 = 0
      \/ row.status = "EXPIRED"   /\ (row.version = 2 \/ row.version % 2 = 1)
      \/ row.status = "CANCELLED" /\ row.version >= 2

(* A call that commits leaves an entry under every key it was to post: none  *)
(* is skipped because of an insert that is rolled back afterwards.           *)
CommittedCallIsPosted ==
  [][\A c \in Conns : Commit(c) => \A post \in req[c].posts : ledger'[post.key] # NoEntry]_vars

(* The calls implement the atomic reward ledger, in which an entry is never  *)
(* changed and a redemption is confirmed and posted in one step.             *)
Atomic == INSTANCE RewardLedger
AtomicRewards == Atomic!Spec

(* Whose COMMIT or ROLLBACK a statement waits for. *)
WaitsFor(c, d) ==
  \/ pc[c] = "lock" /\ rewardLock[req[c].reward] = d
  \/ /\ pc[c] = "insert"
     /\ \E post \in tx[c].todo :
          inserting[post.key] = d /\ \A other \in tx[c].todo : Precedes(post, other)

(* No calls wait for each other in a circle, so that the row locks, the      *)
(* pending inserts and a completion's two keys never stop all of them.       *)
NoDeadlock ==
  \A S \in SUBSET Conns : (\A c \in S : \E d \in S : WaitsFor(c, d)) => S = {}

=============================================================================
