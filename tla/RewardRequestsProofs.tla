-------------------------- MODULE RewardRequestsProofs --------------------------
(***************************************************************************)
(* The safety of the reward transactions, for any number of rewards,       *)
(* children, amounts and connections.  IInv is the inductive invariant: a  *)
(* connection that changes a catalog row holds its lock and has the row    *)
(* as it is (RowOK), a pending entry is one its key does not have yet, and *)
(* each post a call asked for is still to insert, pending or in the ledger *)
(* (PostsOK).  So a COMMIT writes the row and every post at once, and no   *)
(* circle of waiting connections can close (NeverStuck).                   *)
(***************************************************************************)
EXTENDS RewardRequests, TLAPS

-----------------------------------------------------------------------------
(* The invariant. *)

(* The calls that take a row lock. *)
LockingOps == CatalogOps \ {"create"}

(* What a call asks for. *)
Asked(request) ==
  \/ /\ request.op \in CatalogOps \ {"confirm"}
     /\ request.reward \in Rewards /\ request.posts = {}
  \/ /\ request.op = "confirm" /\ request.reward \in Rewards
     /\ \E attempt \in Attempts : request.posts = RedemptionPosts(request.reward, attempt)
  \/ /\ request.op = "grant"
     /\ \E a \in Assignments, paid \in [Currencies -> Amounts] :
          request.posts = GrantPosts(a, paid)
  \/ /\ request.op = "streak"
     /\ \E child \in Children, window \in Windows, amount \in Amounts :
          request.posts = StreakPosts(child, window, amount)
  \/ /\ request.op = "adjust"
     /\ \E p \in Parents, ref \in References, amount \in Amounts :
          request.posts = AdjustPosts(p, ref, amount)

(* A connection's own state. *)
CallOK(c) ==
  /\ pc[c] = "idle" => req[c] = NoRequest
  /\ pc[c] # "idle" => Asked(req[c])
  /\ pc[c] = "lock" => req[c].op \in LockingOps
  /\ pc[c] \in {"idle", "lock", "decide"} => tx[c].claimed = {}
  /\ pc[c] = "insert" => tx[c].todo # {}
  /\ pc[c] = "commit" => tx[c].todo = {}
  /\ pc[c] \in {"insert", "commit"} => PostsAllowed(req[c].op, req[c].posts)
  /\ tx[c].todo \subseteq tx[c].claimed
  /\ tx[c].inserted \subseteq tx[c].claimed
  /\ tx[c].claimed \subseteq req[c].posts
  /\ \A post \in tx[c].inserted : post \notin tx[c].todo
  /\ \A post \in tx[c].inserted, other \in tx[c].todo : Precedes(post, other)

(* The connection holds the lock of the reward its call is about. *)
Holds(c) == pc[c] \in {"decide", "insert", "commit"} /\ req[c].op \in LockingOps

(* The row a catalog call leaves in the place of row. *)
After(op, row) == IF op = "create" THEN NewReward ELSE Moved(row, Target(op))

(* A locked row stays as it was read, unless a reward that did not exist     *)
(* when it was looked for is created in the meantime.                        *)
RowOK(c) ==
  LET r == req[c].reward IN
  /\ Holds(c) => rewardLock[r] = c
  /\ Holds(c) /\ pc[c] = "decide" => tx[c].row = reward[r] \/ tx[c].row.status = "ABSENT"
  /\ pc[c] # "idle" /\ req[c].op = "create" => reward[r] = AbsentReward
  /\ pc[c] \in {"insert", "commit"} /\ req[c].op \in CatalogOps =>
       CatalogAllowed(req[c].op, reward[r].status) /\ tx[c].row = After(req[c].op, reward[r])

(* Each post is still to insert, pending or in the ledger. *)
PostsOK(c) ==
  /\ \A key \in Keys : inserting[key] = c <=> \E post \in tx[c].inserted : post.key = key
  /\ pc[c] \in {"insert", "commit"} =>
       \A post \in req[c].posts :
         post \in tx[c].todo \cup tx[c].inserted \/ ledger[post.key] # NoEntry

ConnInv(c) == CallOK(c) /\ RowOK(c) /\ PostsOK(c)

(* The entry of a redemption, and no other, names the reward of its key. *)
Fits(key, entry) ==
  entry.sourceReward = IF key.event = "reward-redemption" THEN key.source ELSE None

LedgerOK ==
  \A key \in Keys :
    /\ inserting[key] # None => ledger[key] = NoEntry
    /\ ledger[key] # NoEntry => Fits(key, ledger[key])

LocksOK ==
  \A r \in Rewards :
    LET c == rewardLock[r] IN c # None => Holds(c) /\ req[c].reward = r

FreshOK ==
  \A c, d \in Conns :
    /\ pc[c] # "idle" /\ pc[d] # "idle" /\ req[c].op = "create" /\ req[d].op = "create"
    /\ req[c].reward = req[d].reward
    => c = d

Types ==
  /\ reward \in [Rewards -> RewardRows]
  /\ ledger \in [Keys -> Entries]
  /\ members \subseteq Parents
  /\ rewardLock \in [Rewards -> Conns \cup {None}]
  /\ inserting \in [Keys -> Conns \cup {None}]
  /\ pc \in [Conns -> Statements]
  /\ req \in [Conns -> Requests]
  /\ tx \in [Conns -> Transactions]

IInv ==
  /\ Types /\ LedgerOK /\ LocksOK /\ FreshOK
  /\ RedeemedExactlyOnce /\ RewardVersionCounts
  /\ \A c \in Conns : ConnInv(c)

-----------------------------------------------------------------------------
(* Keys, posts and entries. *)

LEMMA KeyEvents ==
  /\ \A a \in Assignments, kind \in Currencies :
       /\ TaskCompletionKey(a, kind) \in Keys
       /\ TaskCompletionKey(a, kind).event = "task-completion"
       /\ TaskCompletionKey(a, kind).source = a
       /\ TaskCompletionKey(a, kind).ref = kind
  /\ \A child \in Children, window \in Windows :
       /\ StreakBonusKey(child, window) \in Keys
       /\ StreakBonusKey(child, window).event = "streak-bonus"
  /\ \A r \in Rewards, attempt \in Attempts :
       /\ RedemptionKey(r, attempt) \in Keys
       /\ RedemptionKey(r, attempt).event = "reward-redemption"
       /\ RedemptionKey(r, attempt).source = r
  /\ \A p \in Parents, ref \in References :
       /\ AdjustmentKey(p, ref) \in Keys
       /\ AdjustmentKey(p, ref).event = "parent-adjustment"
<1>1. /\ \A a \in Assignments, kind \in Currencies : TaskCompletionKey(a, kind) \in Keys
      /\ \A child \in Children, window \in Windows : StreakBonusKey(child, window) \in Keys
      /\ \A r \in Rewards, attempt \in Attempts : RedemptionKey(r, attempt) \in Keys
      /\ \A p \in Parents, ref \in References : AdjustmentKey(p, ref) \in Keys
  BY DEF Keys
<1> QED
  BY <1>1 DEF TaskCompletionKey, StreakBonusKey, RedemptionKey, AdjustmentKey

LEMMA EntryIs ==
  ASSUME NEW amount \in Amounts \cup {0}, NEW r \in Rewards \cup {None}
  PROVE  /\ Entry(amount, r) \in Entries
         /\ Entry(amount, r).sourceReward = r
         /\ Entry(amount, r).posted
BY DEF Entry, Entries

LEMMA PostIs ==
  ASSUME NEW key \in Keys, NEW entry \in Entries
  PROVE  Post(key, entry) \in Posts /\ Post(key, entry).key = key /\ Post(key, entry).entry = entry
BY DEF Post, Posts

(* Posts that one call may ask for. *)
WellPosted(posts) ==
  /\ posts \subseteq Posts
  /\ \A post, other \in posts : post.key = other.key => post = other
  /\ \A post \in posts : post.entry # NoEntry /\ Fits(post.key, post.entry)

(* What an insert writes, and that it never writes over an entry. *)
LEMMA PostedIs ==
  ASSUME ledger \in [Keys -> Entries], NEW posts, WellPosted(posts)
  PROVE  /\ Posted(ledger, posts) \in [Keys -> Entries]
         /\ \A key \in Keys :
              /\ ledger[key] # NoEntry => Posted(ledger, posts)[key] = ledger[key]
              /\ (\A post \in posts : post.key # key) => Posted(ledger, posts)[key] = ledger[key]
         /\ \A post \in posts :
              ledger[post.key] = NoEntry => Posted(ledger, posts)[post.key] = post.entry
<1> DEFINE New(key) == (CHOOSE post \in posts : post.key = key).entry
<1>1. \A post \in posts : New(post.key) = post.entry /\ post.key \in Keys /\ post.entry \in Entries
  BY DEF WellPosted, Posts
<1>2. Posted(ledger, posts) =
        [key \in Keys |->
           IF ledger[key] = NoEntry /\ \E post \in posts : post.key = key
             THEN New(key) ELSE ledger[key]]
  BY DEF Posted
<1> HIDE DEF New
<1> QED
  BY <1>1, <1>2

LEMMA RedemptionPostIs ==
  ASSUME NEW r \in Rewards, NEW attempt \in Attempts
  PROVE  \E post \in Posts :
           /\ RedemptionPosts(r, attempt) = {post}
           /\ post.key = RedemptionKey(r, attempt)
           /\ post.entry # NoEntry /\ Fits(post.key, post.entry)
<1> DEFINE post == Post(RedemptionKey(r, attempt), Entry(0, r))
<1>1. post \in Posts /\ post.key = RedemptionKey(r, attempt) /\ post.entry = Entry(0, r)
  BY KeyEvents, EntryIs, PostIs
<1>2. RedemptionPosts(r, attempt) = {post}
  BY DEF RedemptionPosts
<1>3. post.entry # NoEntry /\ Fits(post.key, post.entry)
  BY <1>1, KeyEvents, EntryIs DEF Fits, NoEntry
<1> QED
  BY <1>1, <1>2, <1>3

LEMMA SinglePostIs ==
  ASSUME NEW key \in Keys, key.event # "reward-redemption", NEW amount \in Amounts
  PROVE  LET post == Post(key, Entry(amount, None)) IN
           /\ post \in Posts /\ post.key = key
           /\ post.entry # NoEntry /\ Fits(post.key, post.entry)
<1>1. Entry(amount, None) \in Entries /\ Entry(amount, None).sourceReward = None
      /\ Entry(amount, None) # NoEntry
  BY EntryIs DEF NoEntry
<1> QED
  BY <1>1, PostIs DEF Fits

(* A grant's posts have one key each, and the currency tells them apart. *)
LEMMA GrantPostsAre ==
  ASSUME NEW a \in Assignments, NEW paid \in [Currencies -> Amounts]
  PROVE  /\ WellPosted(GrantPosts(a, paid))
         /\ \A post \in GrantPosts(a, paid) :
              post.key.event = "task-completion" /\ post.key.ref \in Currencies
         /\ \A post, other \in GrantPosts(a, paid) :
              post.key.ref = other.key.ref => post = other
<1> DEFINE P(kind) == Post(TaskCompletionKey(a, kind), Entry(paid[kind], None))
<1>1. \A kind \in Currencies :
        /\ P(kind) \in Posts /\ P(kind).key = TaskCompletionKey(a, kind)
        /\ P(kind).entry # NoEntry /\ Fits(P(kind).key, P(kind).entry)
  BY KeyEvents, SinglePostIs
<1>2. \A post \in GrantPosts(a, paid) : \E kind \in Currencies : post = P(kind)
  BY DEF GrantPosts
<1> HIDE DEF P
<1>3. \A kind \in Currencies :
        P(kind).key.event = "task-completion" /\ P(kind).key.ref = kind
  BY <1>1, KeyEvents
<1> QED
  BY <1>1, <1>2, <1>3 DEF WellPosted

LEMMA AskedIsWellPosted ==
  ASSUME NEW request, Asked(request)
  PROVE  /\ WellPosted(request.posts)
         /\ request.op \in CatalogOps \cup LedgerOps
         /\ request.op \in CatalogOps => request.reward \in Rewards
<1>1. CASE request.posts = {}
  BY <1>1 DEF Asked, WellPosted, CatalogOps, LedgerOps
<1>2. CASE request.op = "confirm"
  BY <1>2, RedemptionPostIs DEF Asked, WellPosted, CatalogOps, LedgerOps
<1>3. CASE request.op = "grant"
  BY <1>3, GrantPostsAre DEF Asked, WellPosted, CatalogOps, LedgerOps
<1>4. CASE request.op = "streak"
  <2>1. PICK child \in Children, window \in Windows, amount \in Amounts :
          request.posts = StreakPosts(child, window, amount)
    BY <1>4 DEF Asked, CatalogOps
  <2> QED
    BY <1>4, <2>1, KeyEvents, SinglePostIs
       DEF StreakPosts, WellPosted, CatalogOps, LedgerOps
<1>5. CASE request.op = "adjust"
  <2>1. PICK p \in Parents, ref \in References, amount \in Amounts :
          request.posts = AdjustPosts(p, ref, amount)
    BY <1>5 DEF Asked, CatalogOps
  <2> QED
    BY <1>5, <2>1, KeyEvents, SinglePostIs
       DEF AdjustPosts, WellPosted, CatalogOps, LedgerOps
<1> QED
  BY <1>1, <1>2, <1>3, <1>4, <1>5 DEF Asked

-----------------------------------------------------------------------------
(* What a step on one connection leaves alone. *)

Keeps(d) ==
  /\ pc'[d] = pc[d] /\ req'[d] = req[d] /\ tx'[d] = tx[d]
  /\ \A r \in Rewards : rewardLock'[r] = d <=> rewardLock[r] = d
  /\ \A key \in Keys : inserting'[key] = d <=> inserting[key] = d

LEMMA KeepsCallOK ==
  ASSUME NEW d \in Conns, ConnInv(d), Keeps(d)
  PROVE  CallOK(d)'
BY DEF ConnInv, CallOK, Keeps

LEMMA HoldsIsAsked ==
  ASSUME NEW d \in Conns, CallOK(d), pc[d] # "idle"
  PROVE  /\ Asked(req[d])
         /\ req[d].op \in CatalogOps => req[d].reward \in Rewards
         /\ req[d].op \in LockingOps => req[d].reward \in Rewards
         /\ Holds(d) => req[d].reward \in Rewards
BY AskedIsWellPosted DEF CallOK, Holds, LockingOps

LEMMA KeepsConnInv ==
  ASSUME NEW d \in Conns, ConnInv(d), Keeps(d), UNCHANGED rewardVars
  PROVE  ConnInv(d)'
<1>1. reward' = reward /\ ledger' = ledger
  BY DEF rewardVars
<1>2. Holds(d)' <=> Holds(d)
  BY DEF Holds, Keeps
<1>3. Holds(d) => req[d].reward \in Rewards
  BY HoldsIsAsked DEF ConnInv, Holds
<1>4. RowOK(d)'
  BY <1>1, <1>2, <1>3 DEF ConnInv, RowOK, Keeps
<1>5. PostsOK(d)'
  BY <1>1 DEF ConnInv, PostsOK, Keeps
<1> QED
  BY <1>4, <1>5, KeepsCallOK DEF ConnInv

LEMMA QuietStep ==
  ASSUME IInv, NEW c \in Conns, UNCHANGED rewardVars,
         Types', LedgerOK', LocksOK', FreshOK', ConnInv(c)',
         \A d \in Conns : d # c => Keeps(d)
  PROVE  IInv'
<1>1. \A d \in Conns : ConnInv(d)'
  BY KeepsConnInv DEF IInv
<1>2. RedeemedExactlyOnce' /\ RewardVersionCounts'
  BY DEF IInv, RedeemedExactlyOnce, RewardVersionCounts, rewardVars
<1> QED
  BY <1>1, <1>2 DEF IInv

-----------------------------------------------------------------------------
(* A call begins. *)

LEMMA AskedIsRequest ==
  ASSUME NEW op, NEW actor \in Parents \cup {System}, NEW r \in Rewards \cup {None}, NEW posts,
         Asked(Call(op, actor, r, posts))
  PROVE  Call(op, actor, r, posts) \in Requests
<1>1. op \in CatalogOps \cup LedgerOps /\ posts \subseteq Posts
  BY AskedIsWellPosted DEF Call, WellPosted
<1> QED
  BY <1>1 DEF Call, Requests

(* The statement a call starts at. *)
First(op) == IF op \in LockingOps THEN "lock" ELSE "decide"

LEMMA ArriveIs ==
  ASSUME NEW c \in Conns, Arrive(c)
  PROVE  \E request \in Requests :
           /\ Asked(request)
           /\ request.op = "create" => FreshReward(request.reward)
           /\ Receive(c, request, First(request.op))
<1>1. /\ \A op \in {"activate", "redeem", "cancelRedemption", "expire", "cancel", "confirm"} :
           First(op) = "lock"
      /\ \A op \in {"create", "grant", "streak", "adjust"} : First(op) = "decide"
  BY DEF First, LockingOps, CatalogOps
<1>2. \A op, actor, r, posts :
        /\ Call(op, actor, r, posts).op = op
        /\ Call(op, actor, r, posts).reward = r
        /\ Call(op, actor, r, posts).posts = posts
  BY DEF Call
<1>3. CASE \E r \in Rewards, p \in Parents : ReceiveCreate(c, p, r)
  <2>1. PICK r \in Rewards, p \in Parents : ReceiveCreate(c, p, r)
    BY <1>3
  <2>2. Asked(Call("create", p, r, {}))
    BY <1>2 DEF Asked, CatalogOps
  <2>3. Call("create", p, r, {}) \in Requests
    BY <2>2, AskedIsRequest
  <2> QED
    BY <1>1, <1>2, <2>1, <2>2, <2>3 DEF ReceiveCreate
<1>4. CASE \E r \in Rewards : ReceiveRedeem(c, r)
  <2>1. PICK r \in Rewards : ReceiveRedeem(c, r)
    BY <1>4
  <2>2. Asked(Call("redeem", System, r, {}))
    BY <1>2 DEF Asked, CatalogOps
  <2>3. Call("redeem", System, r, {}) \in Requests
    BY <2>2, AskedIsRequest
  <2> QED
    BY <1>1, <1>2, <2>1, <2>2, <2>3 DEF ReceiveRedeem
<1>5. CASE \E r \in Rewards, p \in Parents \cup {System},
              op \in {"activate", "cancelRedemption", "expire", "cancel"} :
             ReceiveChange(c, op, p, r)
  <2>1. PICK r \in Rewards, p \in Parents \cup {System},
             op \in {"activate", "cancelRedemption", "expire", "cancel"} :
          ReceiveChange(c, op, p, r)
    BY <1>5
  <2>2. Asked(Call(op, p, r, {}))
    BY <1>2 DEF Asked, CatalogOps
  <2>3. Call(op, p, r, {}) \in Requests
    BY <2>2, AskedIsRequest
  <2> QED
    BY <1>1, <1>2, <2>1, <2>2, <2>3 DEF ReceiveChange
<1>6. CASE \E r \in Rewards, p \in Parents \cup {System}, attempt \in Attempts :
             ReceiveConfirm(c, p, r, attempt)
  <2>1. PICK r \in Rewards, p \in Parents \cup {System}, attempt \in Attempts :
          ReceiveConfirm(c, p, r, attempt)
    BY <1>6
  <2>2. Asked(Call("confirm", p, r, RedemptionPosts(r, attempt)))
    BY <1>2 DEF Asked
  <2>3. Call("confirm", p, r, RedemptionPosts(r, attempt)) \in Requests
    BY <2>2, AskedIsRequest
  <2> QED
    BY <1>1, <1>2, <2>1, <2>2, <2>3 DEF ReceiveConfirm
<1>7. CASE \E a \in Assignments, paid \in [Currencies -> Amounts] : ReceiveGrant(c, a, paid)
  <2>1. PICK a \in Assignments, paid \in [Currencies -> Amounts] : ReceiveGrant(c, a, paid)
    BY <1>7
  <2>2. Asked(Call("grant", System, None, GrantPosts(a, paid)))
    BY <1>2 DEF Asked
  <2>3. Call("grant", System, None, GrantPosts(a, paid)) \in Requests
    BY <2>2, AskedIsRequest
  <2> QED
    BY <1>1, <1>2, <2>1, <2>2, <2>3 DEF ReceiveGrant
<1>8. CASE \E amount \in Amounts, child \in Children, window \in Windows :
             ReceiveStreak(c, child, window, amount)
  <2>1. PICK amount \in Amounts, child \in Children, window \in Windows :
          ReceiveStreak(c, child, window, amount)
    BY <1>8
  <2>2. Asked(Call("streak", System, None, StreakPosts(child, window, amount)))
    BY <1>2 DEF Asked
  <2>3. Call("streak", System, None, StreakPosts(child, window, amount)) \in Requests
    BY <2>2, AskedIsRequest
  <2> QED
    BY <1>1, <1>2, <2>1, <2>2, <2>3 DEF ReceiveStreak
<1>9. CASE \E amount \in Amounts, p \in Parents, ref \in References :
             ReceiveAdjust(c, p, ref, amount)
  <2>1. PICK amount \in Amounts, p \in Parents, ref \in References :
          ReceiveAdjust(c, p, ref, amount)
    BY <1>9
  <2>2. Asked(Call("adjust", p, None, AdjustPosts(p, ref, amount)))
    BY <1>2 DEF Asked
  <2>3. Call("adjust", p, None, AdjustPosts(p, ref, amount)) \in Requests
    BY <2>2, AskedIsRequest
  <2> QED
    BY <1>1, <1>2, <2>1, <2>2, <2>3 DEF ReceiveAdjust
<1> QED
  BY <1>3, <1>4, <1>5, <1>6, <1>7, <1>8, <1>9 DEF Arrive

LEMMA ArriveOK ==
  ASSUME IInv, NEW c \in Conns, Arrive(c)
  PROVE  IInv'
<1>1. PICK request \in Requests :
        /\ Asked(request)
        /\ request.op = "create" => FreshReward(request.reward)
        /\ Receive(c, request, First(request.op))
  BY ArriveIs
<1>2. /\ First(request.op) \in {"lock", "decide"}
      /\ First(request.op) = "lock" => request.op \in LockingOps
      /\ First(request.op) = "decide" => request.op \notin LockingOps
  BY DEF First
<1>3. /\ pc[c] = "idle"
      /\ req' = [req EXCEPT ![c] = request] /\ pc' = [pc EXCEPT ![c] = First(request.op)]
      /\ UNCHANGED <<rewardVars, members, rewardLock, inserting, tx>>
  BY <1>1 DEF Receive, Goto
<1>4. UNCHANGED <<reward, ledger>>
  BY <1>3 DEF rewardVars
<1>5. /\ pc'[c] = First(request.op) /\ req'[c] = request
      /\ \A d \in Conns : d # c => pc'[d] = pc[d] /\ req'[d] = req[d]
  BY <1>3 DEF IInv, Types
<1>6. Types'
  BY <1>2, <1>3, <1>4 DEF IInv, Types, Statements
<1>7. CallOK(c)
  BY DEF IInv, ConnInv
<1>8. ConnInv(c)'
  <2>1. tx'[c] = tx[c] /\ tx[c].claimed = {} /\ tx[c].todo = {} /\ tx[c].inserted = {}
    BY <1>3, <1>7 DEF CallOK
  <2>2. CallOK(c)'
    BY <1>1, <1>2, <1>5, <2>1 DEF CallOK
  <2>3. RowOK(c)'
    BY <1>1, <1>2, <1>4, <1>5 DEF RowOK, Holds, FreshReward
  <2>4. PostsOK(c)'
    BY <1>2, <1>3, <1>5, <2>1 DEF PostsOK, IInv, ConnInv
  <2> QED
    BY <2>2, <2>3, <2>4 DEF ConnInv
<1>9. LedgerOK' /\ LocksOK'
  BY <1>3, <1>4, <1>5 DEF IInv, LedgerOK, LocksOK, Holds, Types
<1>10. FreshOK'
  BY <1>1, <1>5 DEF IInv, FreshOK, FreshReward
<1>11. \A d \in Conns : d # c => Keeps(d)
  BY <1>3, <1>5 DEF Keeps
<1> QED
  BY <1>3, <1>6, <1>8, <1>9, <1>10, <1>11, QuietStep

-----------------------------------------------------------------------------
(* The statements of a call. *)

LEMMA LockOK ==
  ASSUME IInv, NEW c \in Conns, LockReward(c)
  PROVE  IInv'
<1>1. CallOK(c) /\ RowOK(c) /\ PostsOK(c)
  BY DEF IInv, ConnInv
<1>2. PICK r \in Rewards : r = req[c].reward
  BY <1>1, HoldsIsAsked DEF LockReward, CallOK
<1>3. /\ pc[c] = "lock" /\ rewardLock[r] = None
      /\ rewardLock' = [rewardLock EXCEPT ![r] = c]
      /\ tx' = [tx EXCEPT ![c].row = reward[r]]
      /\ pc' = [pc EXCEPT ![c] = "decide"]
      /\ UNCHANGED <<rewardVars, members, inserting, req>>
  BY <1>2 DEF LockReward, Goto
<1>4. UNCHANGED <<reward, ledger>>
  BY <1>3 DEF rewardVars
<1>5. tx[c] \in Transactions /\ reward[r] \in RewardRows
  BY DEF IInv, Types
<1>6. /\ pc'[c] = "decide" /\ rewardLock'[r] = c
      /\ tx'[c] = [tx[c] EXCEPT !.row = reward[r]]
      /\ \A d \in Conns : d # c => pc'[d] = pc[d] /\ tx'[d] = tx[d]
      /\ \A s \in Rewards : s # r => rewardLock'[s] = rewardLock[s]
  BY <1>3 DEF IInv, Types
<1>7. /\ tx'[c] \in Transactions /\ tx'[c].row = reward[r] /\ tx'[c].todo = tx[c].todo
      /\ tx'[c].claimed = tx[c].claimed /\ tx'[c].inserted = tx[c].inserted
  BY <1>5, <1>6 DEF Transactions
<1>8. Types'
  BY <1>3, <1>4, <1>6, <1>7 DEF IInv, Types, Statements
<1>9. req[c].op \in LockingOps
  BY <1>1, <1>3 DEF CallOK
<1>10. ConnInv(c)'
  <2>1. CallOK(c)'
    BY <1>1, <1>3, <1>6, <1>7 DEF CallOK
  <2>2. RowOK(c)'
    BY <1>2, <1>3, <1>4, <1>6, <1>7, <1>9 DEF RowOK, Holds, LockingOps
  <2>3. PostsOK(c)'
    BY <1>1, <1>3, <1>6, <1>7 DEF PostsOK
  <2> QED
    BY <2>1, <2>2, <2>3 DEF ConnInv
<1>11. LedgerOK' /\ FreshOK'
  BY <1>3, <1>4, <1>6 DEF IInv, LedgerOK, FreshOK
<1>12. LocksOK'
  <2>1. ASSUME NEW s \in Rewards, s # r, rewardLock[s] # None
        PROVE  rewardLock[s] \in Conns \ {c}
    BY <1>3, <2>1 DEF IInv, LocksOK, Types, Holds
  <2> QED
    BY <1>2, <1>3, <1>6, <1>9, <2>1 DEF IInv, LocksOK, Holds
<1>13. \A d \in Conns : d # c => Keeps(d)
  BY <1>3, <1>6, RewardRequestsAssumption DEF Keeps
<1> QED
  BY <1>3, <1>8, <1>10, <1>11, <1>12, <1>13, QuietStep

LEMMA DecideOK ==
  ASSUME IInv, NEW c \in Conns, Decide(c)
  PROVE  IInv'
<1>1. CallOK(c) /\ RowOK(c) /\ PostsOK(c) /\ pc[c] = "decide" /\ CallAllowed(c)
  BY DEF IInv, ConnInv, Decide
<1>2. Asked(req[c]) /\ WellPosted(req[c].posts) /\ req[c].op \in CatalogOps \cup LedgerOps
  BY <1>1, AskedIsWellPosted DEF CallOK
<1> DEFINE found == NotFound(req[c].posts)
           statement == IF found = {} THEN "commit" ELSE "insert"
<1>3. found \subseteq req[c].posts /\ found \in SUBSET Posts
  BY <1>2 DEF NotFound, WellPosted
<1>4. \A post \in req[c].posts : post \in found \/ ledger[post.key] # NoEntry
  BY DEF NotFound
<1> HIDE DEF found
<1>5. tx[c].claimed = {} /\ tx[c].todo = {} /\ tx[c].inserted = {}
  BY <1>1 DEF CallOK
<1>6. tx[c] \in Transactions
  BY DEF IInv, Types
<1>7. /\ tx' = [tx EXCEPT ![c].row = NextRow(c), ![c].todo = found, ![c].claimed = found]
      /\ pc' = [pc EXCEPT ![c] = statement]
      /\ UNCHANGED <<rewardVars, members, rewardLock, inserting, req>>
  BY DEF Decide, Goto, Private, found
<1>8. UNCHANGED <<reward, ledger>>
  BY <1>7 DEF rewardVars
<1>9. NextRow(c) \in RewardRows
  <2>1. tx[c].row \in RewardRows
    BY <1>6 DEF Transactions
  <2>2. \A op \in CatalogOps : Target(op) \in Statuses
    BY DEF Target, CatalogOps, Statuses
  <2>3. Moved(tx[c].row, Target(req[c].op)) \in RewardRows \/ req[c].op \notin CatalogOps
    BY <2>1, <2>2 DEF Moved, RewardRows
  <2> QED
    BY <2>1, <2>3 DEF NextRow, NewReward, RewardRows, Statuses
<1>10. /\ pc'[c] = statement
       /\ tx'[c] = [tx[c] EXCEPT !.row = NextRow(c), !.todo = found, !.claimed = found]
       /\ \A d \in Conns : d # c => pc'[d] = pc[d] /\ tx'[d] = tx[d]
  BY <1>7 DEF IInv, Types
<1>11. /\ tx'[c] \in Transactions /\ tx'[c].row = NextRow(c)
       /\ tx'[c].todo = found /\ tx'[c].claimed = found /\ tx'[c].inserted = {}
  BY <1>3, <1>5, <1>6, <1>9, <1>10 DEF Transactions
<1>12. Types'
  BY <1>7, <1>8, <1>10, <1>11 DEF IInv, Types, Statements
<1>13. CallOK(c)'
  <2>1. req'[c] = req[c] /\ PostsAllowed(req[c].op, req[c].posts)
    BY <1>1, <1>7 DEF CallAllowed
  <2>2. /\ pc'[c] \in {"insert", "commit"}
        /\ pc'[c] = "insert" => found # {}
        /\ pc'[c] = "commit" => found = {}
    BY <1>10
  <2> QED
    BY ONLY <1>2, <1>3, <1>11, <2>1, <2>2 DEF CallOK
<1>14. RowOK(c)'
  <2>1. req[c].op \in LockingOps =>
          rewardLock[req[c].reward] = c /\ tx[c].row = reward[req[c].reward]
    <3>1. \A op \in LockingOps : ~CatalogAllowed(op, "ABSENT")
      BY DEF LockingOps, CatalogOps, CatalogAllowed, IsValidRewardTransition, Target
    <3>2. req[c].op \in LockingOps => CatalogAllowed(req[c].op, tx[c].row.status)
      BY <1>1 DEF CallAllowed, LockingOps
    <3> QED
      BY <1>1, <3>1, <3>2 DEF RowOK, Holds
  <2>2. req[c].op = "create" => reward[req[c].reward] = AbsentReward
    BY <1>1 DEF RowOK
  <2>3. req[c].op = "create" => CatalogAllowed("create", reward[req[c].reward].status)
    BY <2>2 DEF CatalogAllowed, AbsentReward
  <2>4. req[c].op \in LockingOps => CatalogAllowed(req[c].op, reward[req[c].reward].status)
    BY <1>1, <2>1 DEF CallAllowed, LockingOps
  <2>5. req[c].op \in CatalogOps => NextRow(c) = After(req[c].op, reward[req[c].reward])
    BY <2>1 DEF NextRow, After, LockingOps
  <2> QED
    BY <1>7, <1>8, <1>10, <1>11, <2>1, <2>2, <2>3, <2>4, <2>5
       DEF RowOK, Holds, LockingOps
<1>15. PostsOK(c)'
  BY <1>1, <1>4, <1>5, <1>7, <1>8, <1>10, <1>11 DEF PostsOK
<1>16. LedgerOK' /\ LocksOK' /\ FreshOK'
  BY <1>1, <1>7, <1>8, <1>10 DEF IInv, LedgerOK, LocksOK, FreshOK, Holds, Types
<1>17. \A d \in Conns : d # c => Keeps(d)
  BY <1>7, <1>10 DEF Keeps
<1> QED
  BY <1>7, <1>12, <1>13, <1>14, <1>15, <1>16, <1>17, QuietStep DEF ConnInv

LEMMA InsertOK ==
  ASSUME IInv, NEW c \in Conns, NEW post \in tx[c].todo, Insert(c, post)
  PROVE  IInv'
<1>1. CallOK(c) /\ RowOK(c) /\ PostsOK(c) /\ pc[c] = "insert"
  BY DEF IInv, ConnInv, Insert, InsertInAnyOrder
<1>2. Asked(req[c]) /\ WellPosted(req[c].posts)
  BY <1>1, AskedIsWellPosted DEF CallOK
<1>3. post \in req[c].posts /\ post \in Posts /\ post.key \in Keys
  BY <1>1, <1>2 DEF CallOK, WellPosted, Posts
<1> DEFINE rest == tx[c].todo \ {post}
           free == ledger[post.key] = NoEntry
           written == IF free THEN tx[c].inserted \cup {post} ELSE tx[c].inserted
           statement == IF rest = {} THEN "commit" ELSE "insert"
<1>4. /\ inserting[post.key] = None
      /\ tx' = [tx EXCEPT ![c].todo = rest, ![c].inserted = written]
      /\ inserting' = IF free THEN [inserting EXCEPT ![post.key] = c] ELSE inserting
      /\ pc' = [pc EXCEPT ![c] = statement]
      /\ UNCHANGED <<rewardVars, members, rewardLock, req>>
      /\ \A other \in tx[c].todo : Precedes(post, other)
  BY DEF Insert, InsertInAnyOrder, Goto
<1>5. UNCHANGED <<reward, ledger>>
  BY <1>4 DEF rewardVars
<1>6. tx[c] \in Transactions
  BY DEF IInv, Types
<1>7. /\ pc'[c] = statement
      /\ tx'[c] = [tx[c] EXCEPT !.todo = rest, !.inserted = written]
      /\ \A d \in Conns : d # c => pc'[d] = pc[d] /\ tx'[d] = tx[d]
  BY <1>4 DEF IInv, Types
<1>8. written \in SUBSET Posts /\ rest \in SUBSET Posts
  BY <1>3, <1>6 DEF Transactions
<1>9. /\ tx'[c] \in Transactions /\ tx'[c].row = tx[c].row
      /\ tx'[c].todo = rest /\ tx'[c].claimed = tx[c].claimed /\ tx'[c].inserted = written
  BY <1>6, <1>7, <1>8 DEF Transactions
<1>10. Types'
  BY <1>3, <1>4, <1>5, <1>7, <1>9 DEF IInv, Types, Statements
<1>11. CallOK(c)'
  <2>1. req'[c] = req[c] /\ pc'[c] \in {"insert", "commit"}
    BY <1>4, <1>7
  <2>2. \A other \in rest : Precedes(post, other) /\ other # post
    BY <1>4
  <2>3. written \subseteq tx[c].inserted \cup {post} /\ rest \subseteq tx[c].todo
    OBVIOUS
  <2> QED
    BY <1>1, <1>2, <1>7, <1>9, <2>1, <2>2, <2>3 DEF CallOK
<1>12. RowOK(c)'
  BY <1>1, <1>4, <1>5, <1>7, <1>9 DEF RowOK, Holds
<1>13. PostsOK(c)'
  <2>1. ASSUME NEW key \in Keys
        PROVE  inserting'[key] = c <=> \E other \in written : other.key = key
    BY <1>1, <1>3, <1>4, RewardRequestsAssumption DEF PostsOK, IInv, Types
  <2>2. \A other \in req[c].posts : other \in rest \cup written \/ ledger[other.key] # NoEntry
    BY <1>1 DEF PostsOK
  <2>3. req'[c] = req[c] /\ ledger' = ledger /\ tx'[c].todo = rest /\ tx'[c].inserted = written
    BY <1>4, <1>5, <1>9
  <2> HIDE DEF rest, written
  <2> QED
    BY ONLY <2>1, <2>2, <2>3 DEF PostsOK
<1>14. LedgerOK'
  BY <1>3, <1>4, <1>5 DEF IInv, LedgerOK, Types
<1>15. LocksOK' /\ FreshOK'
  BY <1>1, <1>4, <1>5, <1>7 DEF IInv, LocksOK, FreshOK, Holds, Types
<1>16. \A d \in Conns : d # c => Keeps(d)
  BY <1>3, <1>4, <1>7, RewardRequestsAssumption DEF Keeps, IInv, Types
<1> QED
  BY <1>4, <1>10, <1>11, <1>12, <1>13, <1>14, <1>15, <1>16, QuietStep DEF ConnInv

LEMMA NoTransactionIs ==
  /\ NoTransaction \in Transactions /\ NoTransaction.todo = {}
  /\ NoTransaction.claimed = {} /\ NoTransaction.inserted = {}
  /\ NoRequest \in Requests
BY DEF NoTransaction, Transactions, AbsentReward, RewardRows, NoRequest, Requests, CatalogOps

(* What a COMMIT or ROLLBACK leaves of the connections. *)
LEMMA EndIs ==
  ASSUME IInv, NEW c \in Conns, End(c)
  PROVE  /\ pc'[c] = "idle" /\ req'[c] = NoRequest /\ tx'[c] = NoTransaction
         /\ \A r \in Rewards : rewardLock'[r] # c
         /\ \A key \in Keys : inserting'[key] # c
         /\ \A d \in Conns : d # c => Keeps(d)
         /\ \A r \in Rewards : rewardLock'[r] # None => rewardLock'[r] = rewardLock[r]
         /\ \A key \in Keys : inserting'[key] # None => inserting'[key] = inserting[key]
         /\ members' = members
         /\ rewardLock' \in [Rewards -> Conns \cup {None}]
         /\ inserting' \in [Keys -> Conns \cup {None}]
         /\ pc' \in [Conns -> Statements]
         /\ req' \in [Conns -> Requests]
         /\ tx' \in [Conns -> Transactions]
<1>1. /\ pc' = [pc EXCEPT ![c] = "idle"]
      /\ rewardLock' = [r \in Rewards |-> IF rewardLock[r] = c THEN None ELSE rewardLock[r]]
      /\ inserting' = [key \in Keys |-> IF inserting[key] = c THEN None ELSE inserting[key]]
      /\ tx' = [tx EXCEPT ![c] = NoTransaction]
      /\ req' = [req EXCEPT ![c] = NoRequest]
      /\ members' = members
  BY DEF End, Goto
<1>2. \A d \in Conns : d # c => Keeps(d)
  BY <1>1, RewardRequestsAssumption DEF Keeps, IInv, Types
<1> QED
  BY <1>1, <1>2, NoTransactionIs, RewardRequestsAssumption DEF IInv, Types, Statements

LEMMA EndLocksAndFresh ==
  ASSUME IInv, NEW c \in Conns, End(c)
  PROVE  LocksOK' /\ FreshOK' /\ ConnInv(c)'
<1>1. ASSUME NEW r \in Rewards, rewardLock'[r] # None
      PROVE  Holds(rewardLock[r])' /\ req'[rewardLock'[r]].reward = r
  <2>1. rewardLock'[r] = rewardLock[r] /\ rewardLock[r] \in Conns \ {c}
    BY <1>1, EndIs DEF IInv, Types
  <2>2. PICK d \in Conns : d = rewardLock[r] /\ d # c
    BY <2>1
  <2>3. Holds(d) /\ req[d].reward = r
    BY <1>1, <2>1, <2>2 DEF IInv, LocksOK
  <2> QED
    BY <2>1, <2>2, <2>3, EndIs DEF Keeps, Holds
<1>2. LocksOK'
  <2>1. ASSUME NEW r \in Rewards, rewardLock'[r] # None
        PROVE  Holds(rewardLock[r])' /\ rewardLock'[r] = rewardLock[r]
    BY <2>1, <1>1, EndIs
  <2> QED
    BY <1>1, <2>1, EndIs DEF LocksOK, Holds
<1>3. FreshOK'
  BY EndIs DEF IInv, FreshOK, Keeps
<1>4. ConnInv(c)'
  BY EndIs, NoTransactionIs DEF ConnInv, CallOK, RowOK, PostsOK, Holds
<1> QED
  BY <1>2, <1>3, <1>4

LEMMA RollbackOK ==
  ASSUME IInv, NEW c \in Conns, Rollback(c)
  PROVE  IInv'
<1>1. End(c) /\ UNCHANGED rewardVars /\ UNCHANGED <<reward, ledger>>
  BY DEF Rollback, rewardVars
<1>2. Types' /\ LedgerOK'
  BY <1>1, EndIs DEF IInv, Types, LedgerOK
<1> QED
  BY <1>1, <1>2, EndIs, EndLocksAndFresh, QuietStep

-----------------------------------------------------------------------------
(* COMMIT. *)

Counts(row) ==
  \/ row.status = "ABSENT"    /\ row.version = 0
  \/ row.status = "LOCKED"    /\ row.version = 1
  \/ row.status = "AVAILABLE" /\ row.version >= 2 /\ row.version % 2 = 0
  \/ row.status = "REDEEMING" /\ row.version >= 3 /\ row.version % 2 = 1
  \/ row.status = "REDEEMED"  /\ row.version >= 4 /\ row.version % 2 = 0
  \/ row.status = "EXPIRED"   /\ (row.version = 2 \/ row.version % 2 = 1)
  \/ row.status = "CANCELLED" /\ row.version >= 2

LEMMA TransitionsAre ==
  ASSUME NEW op \in CatalogOps, NEW status, CatalogAllowed(op, status)
  PROVE  \/ op = "create" /\ status = "ABSENT" /\ Target(op) = "LOCKED"
         \/ op = "activate" /\ status \in {"LOCKED", "REDEEMING"} /\ Target(op) = "AVAILABLE"
         \/ op = "redeem" /\ status = "AVAILABLE" /\ Target(op) = "REDEEMING"
         \/ op = "confirm" /\ status = "REDEEMING" /\ Target(op) = "REDEEMED"
         \/ op = "cancelRedemption" /\ status = "REDEEMING" /\ Target(op) = "AVAILABLE"
         \/ op = "expire" /\ status \in {"LOCKED", "AVAILABLE"} /\ Target(op) = "EXPIRED"
         \/ op = "cancel" /\ status \in {"LOCKED", "AVAILABLE", "REDEEMING"}
                          /\ Target(op) = "CANCELLED"
<1>1. op \in {"create", "activate", "redeem", "confirm", "cancelRedemption", "expire", "cancel"}
  BY DEF CatalogOps
<1>2. CASE op \in {"create", "redeem", "confirm", "cancelRedemption"}
  BY <1>2 DEF CatalogAllowed, Target
<1>3. CASE op \in {"activate", "expire", "cancel"}
  <2>1. IsValidRewardTransition(status, Target(op))
    BY <1>3 DEF CatalogAllowed
  <2> QED
    BY <1>3, <2>1 DEF IsValidRewardTransition, Target
<1> QED
  BY <1>1, <1>2, <1>3

LEMMA AfterCounts ==
  ASSUME NEW op \in CatalogOps, NEW row \in RewardRows, CatalogAllowed(op, row.status),
         Counts(row)
  PROVE  /\ After(op, row) \in RewardRows /\ Counts(After(op, row))
         /\ After(op, row).status = Target(op)
         /\ Target(op) = "REDEEMED" <=> op = "confirm"
         /\ row.status # "REDEEMED"
<1>1. row.version \in Nat
  BY DEF RewardRows
<1>2. /\ op # "create" => After(op, row).status = Target(op)
      /\ op # "create" => After(op, row).version = row.version + 1
      /\ op = "create" => After(op, row).status = "LOCKED" /\ After(op, row).version = 1
  BY DEF After, Moved, NewReward
<1>3. Target(op) \in Statuses
  BY TransitionsAre DEF Statuses
<1>4. After(op, row) \in RewardRows
  BY <1>1, <1>3 DEF After, Moved, NewReward, RewardRows, Statuses
<1>5. Counts(After(op, row))
  BY <1>1, <1>2, TransitionsAre DEF Counts
<1> QED
  BY <1>2, <1>4, <1>5, TransitionsAre

(* What a commit does to the ledger. *)
LEMMA CommitPosts ==
  ASSUME IInv, NEW c \in Conns, Commit(c)
  PROVE  /\ ledger' \in [Keys -> Entries]
         /\ \A key \in Keys : ledger[key] # NoEntry => ledger'[key] = ledger[key]
         /\ \A key \in Keys : inserting[key] # c => ledger'[key] = ledger[key]
         /\ \A post \in tx[c].inserted : ledger'[post.key] = post.entry
         /\ \A post \in req[c].posts : ledger'[post.key] # NoEntry
         /\ \A key \in Keys : ledger'[key] # NoEntry => Fits(key, ledger'[key])
         /\ \A post \in tx[c].inserted : ledger[post.key] = NoEntry
<1>1. CallOK(c) /\ PostsOK(c) /\ pc[c] = "commit" /\ ledger' = Posted(ledger, tx[c].inserted)
  BY DEF IInv, ConnInv, Commit
<1>2. WellPosted(req[c].posts) /\ tx[c].inserted \subseteq req[c].posts
  BY <1>1, AskedIsWellPosted DEF CallOK
<1>3. WellPosted(tx[c].inserted)
  BY <1>2 DEF WellPosted
<1>4. \A post \in req[c].posts : post.key \in Keys /\ post.entry # NoEntry
  BY <1>2 DEF WellPosted, Posts
<1>5. \A post \in tx[c].inserted : inserting[post.key] = c /\ ledger[post.key] = NoEntry
  BY <1>1, <1>2, <1>4, RewardRequestsAssumption DEF PostsOK, IInv, LedgerOK
<1>6. /\ ledger' \in [Keys -> Entries]
      /\ \A key \in Keys :
              /\ ledger[key] # NoEntry => ledger'[key] = ledger[key]
              /\ (\A post \in tx[c].inserted : post.key # key) => ledger'[key] = ledger[key]
      /\ \A post \in tx[c].inserted : ledger'[post.key] = post.entry
  BY <1>1, <1>3, <1>5, PostedIs DEF IInv, Types
<1>7. \A key \in Keys : inserting[key] # c => ledger'[key] = ledger[key]
  BY <1>5, <1>6
<1>8. \A post \in req[c].posts : ledger'[post.key] # NoEntry
  BY <1>1, <1>2, <1>4, <1>6 DEF CallOK, PostsOK
<1>9. ASSUME NEW key \in Keys, ledger'[key] # NoEntry
      PROVE  Fits(key, ledger'[key])
  <2>1. CASE ledger'[key] = ledger[key]
    <3>1. Fits(key, ledger[key])
      BY <1>9, <2>1 DEF IInv, LedgerOK
    <3> QED
      BY <2>1, <3>1 DEF Fits
  <2>2. CASE \E post \in tx[c].inserted : post.key = key
    BY <1>3, <1>6, <2>2 DEF WellPosted, Fits
  <2> QED
    BY <1>6, <2>1, <2>2
<1> QED
  BY <1>5, <1>6, <1>7, <1>8, <1>9

(* What a commit does to the catalog. *)
LEMMA CommitRow ==
  ASSUME IInv, NEW c \in Conns, Commit(c), req[c].op \in CatalogOps
  PROVE  \E r \in Rewards :
           /\ r = req[c].reward
           /\ CatalogAllowed(req[c].op, reward[r].status)
           /\ reward' = [reward EXCEPT ![r] = After(req[c].op, reward[r])]
           /\ reward[r].status = "ABSENT" <=> req[c].op = "create"
           /\ req[c].op = "create" => reward[r] = AbsentReward
<1>1. CallOK(c) /\ RowOK(c) /\ pc[c] = "commit"
  BY DEF IInv, ConnInv, Commit
<1>2. PICK r \in Rewards : r = req[c].reward
  BY <1>1, HoldsIsAsked
<1>3. /\ CatalogAllowed(req[c].op, reward[r].status)
      /\ tx[c].row = After(req[c].op, reward[r])
      /\ req[c].op = "create" => reward[r] = AbsentReward
  BY <1>1, <1>2 DEF RowOK
<1>4. reward' = [reward EXCEPT ![r] = After(req[c].op, reward[r])]
  BY <1>2, <1>3 DEF Commit
<1>5. reward[r].status = "ABSENT" <=> req[c].op = "create"
  BY <1>3, TransitionsAre
<1> QED
  BY <1>2, <1>3, <1>4, <1>5

LEMMA CommitKeepsTypes ==
  ASSUME IInv, NEW c \in Conns, Commit(c)
  PROVE  Types' /\ LedgerOK' /\ RewardVersionCounts'
<1>1. End(c)
  BY DEF Commit
<1>2. RewardVersionCounts <=> \A r \in Rewards : Counts(reward[r])
  BY DEF RewardVersionCounts, Counts
<1>3. RewardVersionCounts' <=> \A r \in Rewards : Counts(reward'[r])
  BY DEF RewardVersionCounts, Counts
<1>4. reward' \in [Rewards -> RewardRows] /\ \A r \in Rewards : Counts(reward'[r])
  <2>1. CASE req[c].op \in CatalogOps
    <3>1. PICK r \in Rewards :
            /\ CatalogAllowed(req[c].op, reward[r].status)
            /\ reward' = [reward EXCEPT ![r] = After(req[c].op, reward[r])]
      BY <2>1, CommitRow
    <3>2. After(req[c].op, reward[r]) \in RewardRows /\ Counts(After(req[c].op, reward[r]))
      BY <1>2, <2>1, <3>1, AfterCounts DEF IInv, Types
    <3> QED
      BY <1>2, <3>1, <3>2 DEF IInv, Types
  <2>2. CASE req[c].op \notin CatalogOps
    BY <1>2, <2>2 DEF Commit, IInv, Types
  <2> QED
    BY <2>1, <2>2
<1>5. Types'
  BY <1>1, <1>4, CommitPosts, EndIs DEF Types, IInv
<1>6. LedgerOK'
  <2>1. ASSUME NEW key \in Keys, inserting'[key] # None
        PROVE  ledger'[key] = NoEntry
    BY <1>1, <2>1, CommitPosts, EndIs DEF IInv, LedgerOK
  <2>2. ASSUME NEW key \in Keys, ledger'[key] # NoEntry
        PROVE  Fits(key, ledger[key])'
    BY <2>2, CommitPosts DEF Fits
  <2> QED
    BY <2>1, <2>2 DEF LedgerOK
<1> QED
  BY <1>3, <1>4, <1>5, <1>6

(* No other connection has a stake in the row a commit writes. *)
LEMMA CommitKeepsOthers ==
  ASSUME IInv, NEW c \in Conns, Commit(c), NEW d \in Conns, d # c
  PROVE  ConnInv(d)'
<1>1. Keeps(d) /\ ConnInv(d) /\ ConnInv(c) /\ pc[c] = "commit"
  BY EndIs DEF Commit, IInv
<1>2. CallOK(d)'
  BY <1>1, KeepsCallOK
<1>3. PostsOK(d)'
  <2>1. WellPosted(req[d].posts) \/ pc[d] = "idle"
    BY <1>1, AskedIsWellPosted DEF ConnInv, CallOK
  <2>2. pc[d] # "idle" => \A post \in req[d].posts : post.key \in Keys
    BY <2>1 DEF WellPosted, Posts
  <2>3. \A key \in Keys : ledger[key] # NoEntry => ledger'[key] # NoEntry
    BY CommitPosts
  <2> QED
    BY <1>1, <2>2, <2>3 DEF ConnInv, PostsOK, Keeps
<1>4. CASE req[c].op \notin CatalogOps \/ pc[d] = "idle" \/ req[d].op \notin CatalogOps
  <2>1. CASE req[c].op \notin CatalogOps
    <3>1. reward' = reward
      BY <2>1 DEF Commit
    <3>2. Holds(d) => req[d].reward \in Rewards
      BY <1>1, HoldsIsAsked DEF ConnInv, Holds
    <3>3. RowOK(d)'
      BY <1>1, <3>1, <3>2 DEF ConnInv, RowOK, Keeps, Holds
    <3> QED
      BY <1>2, <1>3, <3>3 DEF ConnInv
  <2>2. CASE pc[d] = "idle" \/ req[d].op \notin CatalogOps
    <3>1. RowOK(d)'
      BY <1>1, <2>2 DEF RowOK, Keeps, Holds, LockingOps, CatalogOps
    <3> QED
      BY <1>2, <1>3, <3>1 DEF ConnInv
  <2> QED
    BY <1>4, <2>1, <2>2
<1>5. CASE req[c].op \in CatalogOps /\ pc[d] # "idle" /\ req[d].op \in CatalogOps
  <2>1. PICK r \in Rewards :
          /\ r = req[c].reward
          /\ reward' = [reward EXCEPT ![r] = After(req[c].op, reward[r])]
          /\ reward[r].status = "ABSENT" <=> req[c].op = "create"
          /\ req[c].op = "create" => reward[r] = AbsentReward
    BY <1>5, CommitRow
  <2>2. PICK s \in Rewards : s = req[d].reward
    BY <1>1, <1>5, HoldsIsAsked DEF ConnInv
  <2>3. CASE s # r
    <3>1. reward'[s] = reward[s]
      BY <2>1, <2>3
    <3>2. RowOK(d)'
      BY <1>1, <2>2, <3>1 DEF ConnInv, RowOK, Keeps, Holds
    <3> QED
      BY <1>2, <1>3, <3>2 DEF ConnInv
  <2>4. CASE s = r
    <3>1. req[c].op \in LockingOps => rewardLock[r] = c
      BY <1>1, <2>1 DEF ConnInv, RowOK, Holds
    <3>2. Holds(d) => rewardLock[r] = d
      BY <1>1, <2>2, <2>4 DEF ConnInv, RowOK
    <3>3. req[d].op = "create" => reward[r] = AbsentReward
      BY <1>1, <1>5, <2>2, <2>4 DEF ConnInv, RowOK
    <3>4. AbsentReward.status = "ABSENT"
      BY DEF AbsentReward
    <3>5. req[d].op # "create"
      BY <1>1, <1>5, <2>1, <2>2, <2>4, <3>3, <3>4 DEF IInv, FreshOK
    <3>6. pc[d] \notin {"insert", "commit"}
      <4>1. SUFFICES ASSUME pc[d] \in {"insert", "commit"} PROVE FALSE
        OBVIOUS
      <4>2. Holds(d)
        BY <1>5, <3>5, <4>1 DEF Holds, LockingOps
      <4>3. req[c].op = "create"
        BY <1>5, <3>1, <3>2, <4>2 DEF LockingOps
      <4>4. CatalogAllowed(req[d].op, "ABSENT")
        BY <1>1, <1>5, <2>1, <2>2, <2>4, <3>4, <4>1, <4>3 DEF ConnInv, RowOK
      <4> QED
        BY <1>5, <3>5, <4>4, TransitionsAre
    <3>7. Holds(d) /\ pc[d] = "decide" => tx[d].row.status = "ABSENT"
      <4>1. SUFFICES ASSUME Holds(d), pc[d] = "decide" PROVE tx[d].row.status = "ABSENT"
        OBVIOUS
      <4>2. req[c].op = "create"
        BY <1>5, <3>1, <3>2, <4>1 DEF LockingOps
      <4> QED
        BY <1>1, <2>1, <2>2, <2>4, <3>4, <4>1, <4>2 DEF ConnInv, RowOK
    <3>8. RowOK(d)'
      BY <1>1, <2>2, <3>5, <3>6, <3>7 DEF ConnInv, RowOK, Keeps, Holds
    <3> QED
      BY <1>2, <1>3, <3>8 DEF ConnInv
  <2> QED
    BY <2>3, <2>4
<1> QED
  BY <1>4, <1>5

(* A ledger call posts no redemption. *)
LEMMA LedgerCallPosts ==
  ASSUME NEW request, Asked(request), request.op \notin CatalogOps
  PROVE  \A post \in request.posts : post.key.event # "reward-redemption"
<1>1. request.op \in LedgerOps
  BY AskedIsWellPosted
<1>2. CASE request.op = "grant"
  BY <1>2, GrantPostsAre DEF Asked, CatalogOps
<1>3. CASE request.op = "streak"
  <2>1. PICK child \in Children, window \in Windows, amount \in Amounts :
          request.posts = StreakPosts(child, window, amount)
    BY <1>3 DEF Asked, CatalogOps
  <2> QED
    BY <2>1, KeyEvents, SinglePostIs DEF StreakPosts
<1>4. CASE request.op = "adjust"
  <2>1. PICK p \in Parents, ref \in References, amount \in Amounts :
          request.posts = AdjustPosts(p, ref, amount)
    BY <1>4 DEF Asked, CatalogOps
  <2> QED
    BY <2>1, KeyEvents, SinglePostIs DEF AdjustPosts
<1> QED
  BY <1>1, <1>2, <1>3, <1>4 DEF LedgerOps

LEMMA CommitRedeemsOnce ==
  ASSUME IInv, NEW c \in Conns, Commit(c)
  PROVE  RedeemedExactlyOnce'
<1> DEFINE Of(s) == {key \in Keys : ledger[key].sourceReward = s}
           NewOf(s) == {key \in Keys : ledger'[key].sourceReward = s}
<1>1. CallOK(c) /\ pc[c] = "commit" /\ Asked(req[c]) /\ tx[c].inserted \subseteq req[c].posts
  BY DEF IInv, ConnInv, Commit, CallOK
<1>2. \A s \in Rewards :
        IF reward[s].status = "REDEEMED" THEN \E key \in Keys : Of(s) = {key} ELSE Of(s) = {}
  BY DEF IInv, RedeemedExactlyOnce
<1>3. SUFFICES ASSUME NEW s \in Rewards
               PROVE  IF reward'[s].status = "REDEEMED" THEN \E key \in Keys : NewOf(s) = {key}
                                                        ELSE NewOf(s) = {}
  BY DEF RedeemedExactlyOnce
<1>4. s # None
  BY RewardLedgerAssumption
<1>5. \A key \in Keys : inserting[key] # c => ledger'[key] = ledger[key]
  BY CommitPosts
<1>6. \A key \in Keys : inserting[key] = c =>
        \E post \in tx[c].inserted : post.key = key /\ ledger[key] = NoEntry
                                     /\ ledger'[key] = post.entry /\ Fits(key, post.entry)
  <2>1. WellPosted(req[c].posts)
    BY <1>1, AskedIsWellPosted
  <2> QED
    BY <1>1, <2>1, CommitPosts DEF IInv, ConnInv, PostsOK, WellPosted
<1>7. CASE req[c].op \notin CatalogOps
  <2>1. reward' = reward
    BY <1>7 DEF Commit
  <2>2. \A key \in Keys : inserting[key] = c => key.event # "reward-redemption"
    BY <1>1, <1>6, <1>7, LedgerCallPosts
  <2>3. \A key \in Keys : inserting[key] = c =>
          ledger[key].sourceReward = None /\ ledger'[key].sourceReward = None
    BY <1>6, <2>2 DEF Fits, NoEntry
  <2>4. NewOf(s) = Of(s)
    BY <1>4, <1>5, <2>3
  <2> QED
    BY <1>2, <2>1, <2>4
<1>8. CASE req[c].op \in CatalogOps
  <2>1. PICK r \in Rewards :
          /\ r = req[c].reward
          /\ CatalogAllowed(req[c].op, reward[r].status)
          /\ reward' = [reward EXCEPT ![r] = After(req[c].op, reward[r])]
    BY <1>8, CommitRow
  <2>2. /\ After(req[c].op, reward[r]).status = Target(req[c].op)
        /\ Target(req[c].op) = "REDEEMED" <=> req[c].op = "confirm"
        /\ reward[r].status # "REDEEMED"
    <3>1. Counts(reward[r])
      BY DEF IInv, RewardVersionCounts, Counts
    <3> QED
      BY <1>8, <2>1, <3>1, AfterCounts DEF IInv, Types
  <2>3. /\ reward'[r] = After(req[c].op, reward[r])
        /\ \A q \in Rewards : q # r => reward'[q] = reward[q]
    BY <2>1 DEF IInv, Types
  <2>4. CASE req[c].op # "confirm"
    <3>1. req[c].posts = {}
      BY <1>1, <1>8, <2>4 DEF Asked, CatalogOps
    <3>2. NewOf(s) = Of(s)
      BY <1>1, <1>5, <1>6, <3>1
    <3> QED
      BY <1>2, <2>2, <2>3, <2>4, <3>2
  <2>5. CASE req[c].op = "confirm"
    <3>1. PICK attempt \in Attempts : req[c].posts = RedemptionPosts(r, attempt)
      BY <1>1, <2>1, <2>5 DEF Asked
    <3>2. PICK post \in Posts :
            /\ req[c].posts = {post}
            /\ post.key = RedemptionKey(r, attempt) /\ Fits(post.key, post.entry)
            /\ post.entry # NoEntry
      BY <3>1, RedemptionPostIs
    <3> DEFINE key == post.key
    <3>3. key \in Keys /\ key.event = "reward-redemption" /\ key.source = r
      BY <3>2, KeyEvents
    <3>4. Of(r) = {}
      BY <1>2, <2>2
    <3>5. ledger[key] = NoEntry
      BY <3>3, <3>4 DEF IInv, LedgerOK, Fits
    <3>6. ledger'[key] # NoEntry /\ ledger'[key].sourceReward = r
      BY <3>2, <3>3, CommitPosts DEF Fits
    <3>7. \A other \in Keys : other # key => ledger'[other] = ledger[other]
      BY <1>1, <1>5, <1>6, <3>2
    <3>8. CASE s = r
      <4>1. NewOf(s) = {key}
        BY <3>3, <3>4, <3>6, <3>7, <3>8
      <4> QED
        BY <2>2, <2>3, <2>5, <3>3, <3>8, <4>1
    <3>9. CASE s # r
      <4>1. NewOf(s) = Of(s)
        BY <1>4, <3>5, <3>6, <3>7, <3>9 DEF NoEntry
      <4> QED
        BY <1>2, <2>3, <3>9, <4>1
    <3> QED
      BY <3>8, <3>9
  <2> QED
    BY <2>4, <2>5
<1> QED
  BY <1>7, <1>8

LEMMA CommitOK ==
  ASSUME IInv, NEW c \in Conns, Commit(c)
  PROVE  IInv'
<1>1. Types' /\ LedgerOK' /\ RewardVersionCounts'
  BY CommitKeepsTypes
<1>2. LocksOK' /\ FreshOK' /\ ConnInv(c)'
  BY EndLocksAndFresh DEF Commit
<1>3. RedeemedExactlyOnce'
  BY CommitRedeemsOnce
<1>4. \A d \in Conns : ConnInv(d)'
  BY <1>2, CommitKeepsOthers
<1> QED
  BY <1>1, <1>2, <1>3, <1>4 DEF IInv

-----------------------------------------------------------------------------
(* The invariant holds. *)

LEMMA InitOK ==
  ASSUME RequestsInit
  PROVE  IInv
<1>1. /\ reward = [r \in Rewards |-> AbsentReward] /\ ledger = [key \in Keys |-> NoEntry]
      /\ members = Parents
      /\ rewardLock = [r \in Rewards |-> None] /\ inserting = [key \in Keys |-> None]
      /\ pc = [c \in Conns |-> "idle"] /\ req = [c \in Conns |-> NoRequest]
      /\ tx = [c \in Conns |-> NoTransaction]
  BY DEF RequestsInit, Init
<1>2. AbsentReward \in RewardRows /\ AbsentReward.status = "ABSENT" /\ AbsentReward.version = 0
  BY DEF AbsentReward, RewardRows
<1>3. NoEntry \in Entries /\ NoEntry.sourceReward = None
  BY DEF NoEntry, Entries
<1>4. Types
  BY <1>1, <1>2, <1>3, NoTransactionIs DEF Types, Statements
<1>5. LedgerOK /\ LocksOK /\ FreshOK
  BY <1>1 DEF LedgerOK, LocksOK, FreshOK
<1>6. RedeemedExactlyOnce /\ RewardVersionCounts
  BY <1>1, <1>2, <1>3, RewardLedgerAssumption DEF RedeemedExactlyOnce, RewardVersionCounts
<1>7. \A c \in Conns : ConnInv(c)
  BY <1>1, NoTransactionIs, RewardRequestsAssumption DEF ConnInv, CallOK, RowOK, PostsOK, Holds
<1> QED
  BY <1>4, <1>5, <1>6, <1>7 DEF IInv

(* A parent joins or leaves, or nothing happens. *)
LEMMA OtherStepOK ==
  ASSUME IInv, (\E p \in Parents : SetMember(p)) \/ UNCHANGED vars
  PROVE  IInv'
<1>1. UNCHANGED <<reward, ledger, rewardLock, inserting, pc, req, tx>>
      /\ members' \subseteq Parents
  BY DEF SetMember, rewardVars, vars, IInv, Types
<1>2. Types' /\ LedgerOK' /\ LocksOK' /\ FreshOK'
  BY <1>1 DEF IInv, Types, LedgerOK, LocksOK, FreshOK, Holds
<1>3. RedeemedExactlyOnce' /\ RewardVersionCounts'
  BY <1>1 DEF IInv, RedeemedExactlyOnce, RewardVersionCounts
<1>4. \A d \in Conns : ConnInv(d)'
  BY <1>1, KeepsConnInv DEF Keeps, IInv, rewardVars
<1> QED
  BY <1>2, <1>3, <1>4 DEF IInv

LEMMA StepOK ==
  ASSUME IInv, [RequestsNext]_vars
  PROVE  IInv'
<1>1. ASSUME NEW c \in Conns, Arrive(c) \/ Waiting(c) \/ Handle(c) \/ Crash(c)
      PROVE  IInv'
  <2>1. CASE Arrive(c)
    BY <2>1, ArriveOK
  <2>2. CASE LockReward(c)
    BY <2>2, LockOK
  <2>3. CASE \E post \in tx[c].todo : Insert(c, post)
    BY <2>3, InsertOK
  <2>4. CASE RedeemReplay(c) \/ Refuse(c) \/ Crash(c)
    BY <2>4, RollbackOK DEF RedeemReplay, Refuse, Crash
  <2>5. CASE Decide(c)
    BY <2>5, DecideOK
  <2>6. CASE Commit(c)
    BY <2>6, CommitOK
  <2> QED
    BY <1>1, <2>1, <2>2, <2>3, <2>4, <2>5, <2>6 DEF Waiting, Handle
<1> QED
  BY <1>1, OtherStepOK DEF RequestsNext

(* The inductive invariant holds in every reachable state.                   *)
THEOREM Invariance == RequestsSpec => []IInv
BY InitOK, StepOK, PTL DEF RequestsSpec

(* Every variable keeps its type, and what a call inserts is part of what it *)
(* answers for.                                                              *)
THEOREM TypeCorrect == RequestsSpec => []RewardTypeOK
<1>1. IInv => RewardTypeOK
  <2> SUFFICES ASSUME IInv PROVE RewardTypeOK
    OBVIOUS
  <2>1. \A c \in Conns : /\ req[c].op \in CatalogOps \cup LedgerOps
                         /\ req[c].posts \subseteq Posts
                         /\ tx[c].row \in RewardRows
    BY DEF IInv, Types, Requests, Transactions
  <2>2. \A c \in Conns : CallOK(c)
    BY DEF IInv, ConnInv
  <2> QED
    BY <2>1, <2>2 DEF IInv, Types, RewardTypeOK, CallOK
<1> QED
  BY <1>1, Invariance, PTL

(* Every reward, isOneUse or not, is REDEEMED exactly when one redemption    *)
(* of it is in the ledger, and none has two, whatever is confirmed twice,    *)
(* retried, cancelled or rolled back.                                        *)
THEOREM RedeemedOnce == RequestsSpec => []RedeemedExactlyOnce
<1>1. IInv => RedeemedExactlyOnce
  BY DEF IInv
<1> QED
  BY <1>1, Invariance, PTL

(* A reward's version counts its transitions: no concurrent one is lost.     *)
THEOREM NoLostChange == RequestsSpec => []RewardVersionCounts
<1>1. IInv => RewardVersionCounts
  BY DEF IInv
<1> QED
  BY <1>1, Invariance, PTL

(* A call that commits leaves an entry under every key it was to post.       *)
THEOREM CommitsArePosted == RequestsSpec => CommittedCallIsPosted
<1>1. IInv /\ [RequestsNext]_vars =>
        [\A c \in Conns : Commit(c) => \A post \in req[c].posts : ledger'[post.key] # NoEntry]_vars
  BY CommitPosts
<1> QED
  BY <1>1, Invariance, PTL DEF RequestsSpec, CommittedCallIsPosted

-----------------------------------------------------------------------------
(* Waiting. *)

(* A call that has inserted one post and not another is a grant between its  *)
(* two currencies.                                                           *)
LEMMA HalfInserted ==
  ASSUME IInv, NEW c \in Conns, NEW post \in tx[c].inserted, NEW other \in tx[c].todo
  PROVE  /\ post.key.event = "task-completion" /\ post.key.ref = "XP"
         /\ other.key.event = "task-completion" /\ other.key.ref = "COINS"
<1>1. /\ post \in req[c].posts /\ other \in req[c].posts /\ post # other
      /\ Precedes(post, other) /\ Asked(req[c])
  BY DEF IInv, ConnInv, CallOK
<1>2. req[c].op = "grant"
  BY <1>1, RedemptionPostIs DEF Asked, StreakPosts, AdjustPosts
<1>3. PICK a \in Assignments, paid \in [Currencies -> Amounts] :
        req[c].posts = GrantPosts(a, paid)
  BY <1>1, <1>2 DEF Asked, CatalogOps
<1> QED
  BY <1>1, <1>3, GrantPostsAre DEF Precedes, Currencies

(* Who holds what another waits for, and waits as well, is inserting.        *)
LEMMA WaitedFor ==
  ASSUME IInv, NEW c \in Conns, NEW d \in Conns, NEW e \in Conns, WaitsFor(c, d), WaitsFor(d, e)
  PROVE  pc[d] = "insert"
<1>1. pc[d] \in {"lock", "insert"}
  BY DEF WaitsFor
<1>2. CASE pc[c] = "lock" /\ rewardLock[req[c].reward] = d
  <2>1. req[c].reward \in Rewards
    BY <1>2, HoldsIsAsked DEF IInv, ConnInv, CallOK
  <2>2. Holds(d)
    BY <1>2, <2>1, RewardRequestsAssumption DEF IInv, LocksOK
  <2> QED
    BY <1>1, <2>2 DEF Holds
<1>3. CASE \E post \in tx[c].todo : inserting[post.key] = d
  <2>1. PICK post \in tx[c].todo : inserting[post.key] = d
    BY <1>3
  <2>2. post.key \in Keys
    BY DEF IInv, Types, Transactions, Posts
  <2>3. tx[d].inserted # {}
    BY <2>1, <2>2 DEF IInv, ConnInv, PostsOK
  <2> QED
    BY <1>1, <2>3 DEF IInv, ConnInv, CallOK
<1> QED
  BY <1>2, <1>3 DEF WaitsFor

(* An insert waits for an entry under its key that has not been committed.   *)
LEMMA WaitsForPost ==
  ASSUME IInv, NEW c \in Conns, NEW d \in Conns, pc[c] = "insert", WaitsFor(c, d)
  PROVE  \E post \in tx[c].todo, held \in tx[d].inserted : held.key = post.key
<1>1. PICK post \in tx[c].todo : inserting[post.key] = d
  BY DEF WaitsFor
<1>2. post.key \in Keys
  BY DEF IInv, Types, Transactions, Posts
<1> QED
  BY <1>1, <1>2 DEF IInv, ConnInv, PostsOK

LEMMA NoCircle ==
  ASSUME IInv
  PROVE  NoDeadlock
<1>1. SUFFICES ASSUME NEW S \in SUBSET Conns, \A c \in S : \E d \in S : WaitsFor(c, d), S # {}
               PROVE  FALSE
  BY DEF NoDeadlock
<1>2. PICK c \in S, d \in S, e \in S, f \in S, g \in S :
        WaitsFor(c, d) /\ WaitsFor(d, e) /\ WaitsFor(e, f) /\ WaitsFor(f, g)
  BY <1>1
<1>3. pc[d] = "insert" /\ pc[e] = "insert" /\ pc[f] = "insert"
  BY <1>2, WaitedFor
<1>4. PICK first \in tx[d].todo, held \in tx[e].inserted : held.key = first.key
  BY <1>2, <1>3, WaitsForPost
<1>5. PICK second \in tx[e].todo, last \in tx[f].inserted : last.key = second.key
  BY <1>2, <1>3, WaitsForPost
<1>6. second.key.ref = "COINS"
  BY <1>4, <1>5, HalfInserted
<1>7. PICK third \in tx[f].todo : TRUE
  BY <1>3 DEF IInv, ConnInv, CallOK
<1>8. last.key.ref = "XP"
  BY <1>5, <1>7, HalfInserted
<1> QED
  BY <1>5, <1>6, <1>8

(* The row locks and the pending inserts never stop calls in a circle.       *)
THEOREM NeverStuck == RequestsSpec => []NoDeadlock
BY NoCircle, Invariance, PTL

-----------------------------------------------------------------------------
(* The calls implement the atomic ledger. *)

LEMMA SameLedger ==
  /\ Atomic!Keys = Keys
  /\ Atomic!CatalogOps = CatalogOps
  /\ Atomic!Currencies = Currencies
  /\ \A entries, posts : Atomic!Posted(entries, posts) = Posted(entries, posts)
  /\ \A a, paid : Atomic!GrantPosts(a, paid) = GrantPosts(a, paid)
  /\ \A child, window, amount :
       Atomic!StreakPosts(child, window, amount) = StreakPosts(child, window, amount)
  /\ \A p, ref, amount : Atomic!AdjustPosts(p, ref, amount) = AdjustPosts(p, ref, amount)
  /\ \A r, attempt : Atomic!RedemptionPosts(r, attempt) = RedemptionPosts(r, attempt)
<1>1. Atomic!Currencies = Currencies
  BY DEF Atomic!Currencies, Currencies
<1>2. Atomic!Keys = Keys
  BY <1>1 DEF Atomic!Keys, Keys, Atomic!TaskCompletionKey, TaskCompletionKey,
     Atomic!StreakBonusKey, StreakBonusKey, Atomic!RedemptionKey, RedemptionKey,
     Atomic!AdjustmentKey, AdjustmentKey
<1>3. Atomic!CatalogOps = CatalogOps
  BY DEF Atomic!CatalogOps, CatalogOps
<1>4. \A entries, posts : Atomic!Posted(entries, posts) = Posted(entries, posts)
  BY <1>2 DEF Atomic!Posted, Posted, Atomic!NoEntry, NoEntry
<1> QED
  BY <1>1, <1>2, <1>3, <1>4
     DEF Atomic!GrantPosts, GrantPosts, Atomic!StreakPosts, StreakPosts,
         Atomic!AdjustPosts, AdjustPosts, Atomic!RedemptionPosts, RedemptionPosts,
         Atomic!Post, Post, Atomic!Entry, Entry,
         Atomic!TaskCompletionKey, TaskCompletionKey, Atomic!StreakBonusKey, StreakBonusKey,
         Atomic!RedemptionKey, RedemptionKey, Atomic!AdjustmentKey, AdjustmentKey

LEMMA SameCatalog ==
  /\ \A op : Atomic!Target(op) = Target(op)
  /\ \A op, status : Atomic!CatalogAllowed(op, status) = CatalogAllowed(op, status)
  /\ \A op, posts : Atomic!PostsAllowed(op, posts) = PostsAllowed(op, posts)
  /\ \A row, status : Atomic!Moved(row, status) = Moved(row, status)
  /\ Atomic!NewReward = NewReward /\ Atomic!AbsentReward = AbsentReward
<1>1. \A op : Atomic!Target(op) = Target(op)
  BY DEF Atomic!Target, Target
<1>2. \A from, to : Atomic!IsValidRewardTransition(from, to) = IsValidRewardTransition(from, to)
  BY DEF Atomic!IsValidRewardTransition, IsValidRewardTransition
<1>3. \A op, status : Atomic!CatalogAllowed(op, status) = CatalogAllowed(op, status)
  BY <1>1, <1>2 DEF Atomic!CatalogAllowed, CatalogAllowed
<1>4. \A op, posts : Atomic!PostsAllowed(op, posts) = PostsAllowed(op, posts)
  BY DEF Atomic!PostsAllowed, PostsAllowed
<1> QED
  BY <1>1, <1>3, <1>4 DEF Atomic!Moved, Moved, Atomic!NewReward, NewReward,
     Atomic!AbsentReward, AbsentReward

(* A commit posts what the call asked for, though it wrote only a part.      *)
LEMMA CommitPostsAll ==
  ASSUME IInv, NEW c \in Conns, Commit(c)
  PROVE  /\ ledger' = Posted(ledger, req[c].posts)
         /\ req[c].posts = {} => ledger' = ledger
<1>1. CallOK(c) /\ PostsOK(c) /\ pc[c] = "commit"
  BY DEF IInv, ConnInv, Commit
<1>2. WellPosted(req[c].posts) /\ tx[c].inserted \subseteq req[c].posts /\ tx[c].todo = {}
  BY <1>1, AskedIsWellPosted DEF CallOK
<1>3. ledger \in [Keys -> Entries] /\ ledger' \in [Keys -> Entries]
  BY CommitPosts DEF IInv, Types
<1> DEFINE all == Posted(ledger, req[c].posts)
<1>4. /\ all \in [Keys -> Entries]
      /\ \A key \in Keys :
              /\ ledger[key] # NoEntry => all[key] = ledger[key]
              /\ (\A post \in req[c].posts : post.key # key) => all[key] = ledger[key]
      /\ \A post \in req[c].posts : ledger[post.key] = NoEntry => all[post.key] = post.entry
  BY <1>2, <1>3, PostedIs
<1> HIDE DEF all
<1>5. ASSUME NEW key \in Keys
      PROVE  ledger'[key] = all[key]
  <2>1. CASE ledger[key] # NoEntry
    BY <1>4, <2>1, CommitPosts
  <2>2. CASE ledger[key] = NoEntry /\ \E post \in req[c].posts : post.key = key
    <3>1. PICK post \in req[c].posts : post.key = key
      BY <2>2
    <3>2. post \in tx[c].inserted
      BY <1>1, <1>2, <2>2, <3>1 DEF PostsOK
    <3> QED
      BY <1>4, <2>2, <3>1, <3>2, CommitPosts
  <2>3. CASE \A post \in req[c].posts : post.key # key
    <3>1. inserting[key] # c
      BY <1>1, <1>2, <2>3 DEF PostsOK
    <3> QED
      BY <1>4, <2>3, <3>1, CommitPosts
  <2> QED
    BY <2>1, <2>2, <2>3
<1>6. ledger' = all
  BY <1>3, <1>4, <1>5
<1>7. req[c].posts = {} => all = ledger
  BY <1>3, <1>4
<1> QED
  BY <1>6, <1>7 DEF all

LEMMA CommitIsAtomic ==
  ASSUME IInv, NEW c \in Conns, Commit(c)
  PROVE  Atomic!Next
<1>1. CallOK(c) /\ Asked(req[c]) /\ PostsAllowed(req[c].op, req[c].posts)
  BY DEF IInv, ConnInv, CallOK, Commit
<1>2. req[c].op \in {"create", "activate", "redeem", "confirm", "cancelRedemption", "expire",
                     "cancel", "grant", "streak", "adjust"}
  BY <1>1, AskedIsWellPosted DEF CatalogOps, LedgerOps
<1>3. CASE req[c].op \in CatalogOps
  <2>1. PICK r \in Rewards :
          /\ r = req[c].reward
          /\ CatalogAllowed(req[c].op, reward[r].status)
          /\ reward' = [reward EXCEPT ![r] = After(req[c].op, reward[r])]
          /\ req[c].op = "create" => reward[r] = AbsentReward
    BY <1>3, CommitRow
  <2>2. CASE req[c].op = "confirm"
    <3>1. PICK attempt \in Attempts : req[c].posts = RedemptionPosts(r, attempt)
      BY <1>1, <2>1, <2>2 DEF Asked
    <3>2. Target("confirm") = "REDEEMED"
      BY DEF Target
    <3>3. Atomic!ConfirmRedemption(r, attempt)
      BY <2>1, <2>2, <3>1, <3>2, CommitPostsAll, SameLedger, SameCatalog
         DEF Atomic!ConfirmRedemption, After
    <3> QED
      BY <3>3 DEF Atomic!Next
  <2>3. CASE req[c].op # "confirm"
    <3>1. ledger' = ledger
      BY <1>1, <1>3, <2>3, CommitPostsAll DEF Asked, CatalogOps
    <3>2. CASE req[c].op = "create"
      <4>1. Atomic!CreateReward(r)
        BY <2>1, <3>1, <3>2, SameCatalog DEF Atomic!CreateReward, After
      <4> QED
        BY <4>1 DEF Atomic!Next
    <3>3. CASE req[c].op # "create"
      <4>1. Atomic!ChangeReward(r, req[c].op)
        BY <2>1, <3>1, <3>3, SameCatalog DEF Atomic!ChangeReward, After
      <4> QED
        BY <1>3, <2>3, <3>3, <4>1, SameLedger DEF Atomic!Next
    <3> QED
      BY <3>2, <3>3
  <2> QED
    BY <2>2, <2>3
<1>4. CASE req[c].op \notin CatalogOps
  <2>1. reward' = reward /\ ledger' = Posted(ledger, req[c].posts)
    BY <1>4, CommitPostsAll DEF Commit
  <2>2. Atomic!PostEntries(req[c].op, req[c].posts)
    BY <1>1, <2>1, SameLedger, SameCatalog DEF Atomic!PostEntries
  <2>3. CASE req[c].op = "grant"
    <3>1. PICK a \in Assignments, paid \in [Currencies -> Amounts] :
            req[c].posts = GrantPosts(a, paid)
      BY <1>1, <2>3 DEF Asked, CatalogOps
    <3>2. Atomic!GrantTaskReward(a, paid)
      BY <2>2, <2>3, <3>1, SameLedger DEF Atomic!GrantTaskReward
    <3> QED
      BY <3>2, SameLedger DEF Atomic!Next
  <2>4. CASE req[c].op = "streak"
    <3>1. PICK child \in Children, window \in Windows, amount \in Amounts :
            req[c].posts = StreakPosts(child, window, amount)
      BY <1>1, <2>4 DEF Asked, CatalogOps
    <3>2. Atomic!GrantStreakBonus(child, window, amount)
      BY <2>2, <2>4, <3>1, SameLedger DEF Atomic!GrantStreakBonus
    <3> QED
      BY <3>2 DEF Atomic!Next
  <2>5. CASE req[c].op = "adjust"
    <3>1. PICK p \in Parents, ref \in References, amount \in Amounts :
            req[c].posts = AdjustPosts(p, ref, amount)
      BY <1>1, <2>5 DEF Asked, CatalogOps
    <3>2. Atomic!AdjustBalance(p, ref, amount)
      BY <2>2, <2>5, <3>1, SameLedger DEF Atomic!AdjustBalance
    <3> QED
      BY <3>2 DEF Atomic!Next
  <2> QED
    BY <1>2, <1>4, <2>3, <2>4, <2>5 DEF CatalogOps
<1> QED
  BY <1>3, <1>4

LEMMA StepIsAtomic ==
  ASSUME IInv, [RequestsNext]_vars
  PROVE  [Atomic!Next]_(Atomic!rewardVars)
<1>1. UNCHANGED rewardVars => UNCHANGED Atomic!rewardVars
  BY DEF rewardVars, Atomic!rewardVars
<1>2. ASSUME NEW c \in Conns, Arrive(c)
      PROVE  UNCHANGED rewardVars
  BY <1>2, ArriveIs DEF Receive
<1>3. ASSUME NEW c \in Conns, Waiting(c)
      PROVE  UNCHANGED rewardVars
  BY <1>3 DEF Waiting, LockReward, Insert, InsertInAnyOrder
<1>4. ASSUME NEW c \in Conns, RedeemReplay(c) \/ Decide(c) \/ Refuse(c) \/ Crash(c)
      PROVE  UNCHANGED rewardVars
  BY <1>4 DEF RedeemReplay, Decide, Refuse, Crash, Rollback, Private
<1>5. CASE (\E p \in Parents : SetMember(p)) \/ UNCHANGED vars
  BY <1>1, <1>5 DEF SetMember, vars, rewardVars
<1> QED
  BY <1>1, <1>2, <1>3, <1>4, <1>5, CommitIsAtomic DEF RequestsNext, Handle

(* Every call takes effect at once or not at all: the transactions implement *)
(* the atomic reward ledger.                                                 *)
THEOREM CallsAreAtomic == RequestsSpec => AtomicRewards
<1>1. RequestsInit => Atomic!Init
  BY SameLedger, SameCatalog DEF RequestsInit, Init, Atomic!Init, NoEntry, Atomic!NoEntry
<1> QED
  BY <1>1, StepIsAtomic, Invariance, PTL DEF RequestsSpec, AtomicRewards, Atomic!Spec

=============================================================================
