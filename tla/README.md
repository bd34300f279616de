# life_platform: the verification project

TLA+ models of the parts of life_platform in which steps of several actors
meet, the TLC runs that check them on small instances, and TLAPS proofs of what
matters most for every instance. Paths below are relative to `src/`, the root of
the repository.

* [1. The system](#1-the-system)
* [2. How a request is modelled](#2-how-a-request-is-modelled)
* [3. The modules](#3-the-modules)
* [4. The runs](#4-the-runs)
* [5. The faults the properties catch](#5-the-faults-the-properties-catch)
* [6. Where code and documents disagree](#6-where-code-and-documents-disagree)
* [7. The proofs](#7-the-proofs)
* [8. What is left out, and why](#8-what-is-left-out-and-why)
* [9. Plan](#9-plan)

## 1. The system

life_platform is a family task and reward platform. Two web front ends (parent
and child) are thin Next.js applications that keep a session token in an
HttpOnly cookie and proxy every call to one NestJS service, `services/api`. The
service keeps all its state in PostgreSQL: every handler opens one transaction
(`db/pool.ts withTransaction`), loads rows, calls pure command functions of
`packages/domain-types`, and writes the returned rows back. There is no cache and
no queue; the only shared memory in the process is the sign-in throttle.
`tools/task-registry` is a separate command-line tool with which the people and
agents who develop the repository coordinate their work.

### Components, their state, operations and hard behaviours

**Task lifecycle** (`domain-types/src/task.ts`, `task-service.ts`,
`api/http/task.controller.ts`, `api/repositories/task-repository.ts`).
State: `task_templates`, `task_assignments`, `task_completions`, and the ledger
entries under an assignment's two keys. Operations: create, update, publish and
archive a template; assign it to a child; a child starts and submits; a parent
approves or rejects. Hard: approve and reject read the assignment without a lock
and lock it a statement later; an approval is three transitions of the
assignment, a read of the template and up to two ledger entries in one
transaction; parents retry when an answer is lost. Correct when a completion is
paid exactly once and exactly what its template says, no transition is lost or
applied twice, the optimistic version checks never fail because the row locks
already serialise the writers, and nobody waits for ever.

**Reward catalog and ledger** (`domain-types/src/reward.ts`, `reward-service.ts`,
`idempotency.ts`, `api/repositories/reward-repository.ts`). State: `rewards`
(status, version) and `reward_ledger_entries`, append-only and unique by
idempotency key. Operations: create, activate, redeem, confirm and cancel a
redemption, expire and cancel a reward; grant a completion's XP and COINS, a
streak bonus, a parent's adjustment. That a reward is one-use is stored with it and
read by no operation. Hard: a key is looked up and then inserted
with ON CONFLICT DO NOTHING, which waits for another transaction's uncommitted
entry and then does different things after its commit and its rollback; a
confirmation writes a reward and an entry. Correct when a reward is REDEEMED
exactly when one redemption of it is posted, when a committed call has its entry,
and when no two calls wait for each other.

**Family membership** (`domain-types/src/family.ts`, `family-service.ts`,
`api/repositories/family-repository.ts`). State: `families`,
`parent_memberships`, `child_profiles`, `invitation_tokens`. Operations: create a
family, add a child, invite, accept, revoke. Hard: the aggregate is saved as a
whole from what an earlier statement read; a revocation also cuts sessions, some
of which another transaction has not committed yet. Correct when membership
changes as if one command ran at a time and a revocation leaves no earlier
session open.

**Sessions and pairing codes** (`api/repositories/identity-repository.ts`,
`pairing-repository.ts`, `api/auth/session.guard.ts`). State: `sessions` and
`child_pairing_codes`. Operations: sign in with a family or without (a bootstrap
session, which `createFamily` scopes later), sign out, give a child a session,
issue a pairing code, redeem it on the child's device. Hard: conditional UPDATEs
that pick rows from one snapshot and judge them on another; foreign keys that
take locks nobody wrote down. Correct when a code becomes at most one session and
the locks of families, sessions and codes never close a circle.

**Accounts and the sign-in throttle** (`api/http/auth.controller.ts`,
`api/auth/throttle.ts`). State: the account's status, and in the memory of the
process a bucket per email and address: failures, the start of their window, the
end of a block. Operations: sign up, accept consent, sign in. Hard: the bucket is
checked before the password hash is awaited and written after it, windows and
blocks end on a clock, a restart forgets everything. Correct when a block is only
lifted by a success, and the failures within a window have a bound.

**Task registry tool** (`tools/task-registry/src`). State: `tasks/registry.yaml`
and the lock directory beside it. Operations: admit, claim, hand off, block,
unblock and gate, reassign, add a discovery, create a child task, each in a
process of its own; and `control`, which checks reviews, waves and blockers
against the registry. Hard: several processes take the lock directory by mkdir,
remove stale ones by the clock, and retry removals that fail; every command
writes the whole file back. Correct when each command takes effect as a whole on
the file as it stands, no command waits for ever or leaves a lock behind, what
`next` lists can be claimed, and a review that passed stays passed.

**Media evidence** (`domain-types/src/media.ts`, `media-service.ts`): the upload
policy, records that expire, isolation of families. **Task rules**
(`packages/task-engine/src/rules.ts`): schedules, gates and composites, and their
validation. **Versioning** (`packages/versioning`): comparison of versions,
compatibility of schemas, feature flags. These are pure functions; correct when
what they accept is what their callers may rely on, for all arguments.

**Task pages** (`apps/parent-web/app/parent/tasks/new`, `lib/task-draft.ts`,
`apps/child-web/app/child/task/[id]`, `lib/today.ts`, `packages/ui/src/recovery.ts`,
`packages/ux-contracts/src/task-state.ts`, `packages/web-session/src/proxy.ts`).
State: what each page keeps in React's state (stage, template id, the row it
shows, busy, loading, what to do about the last error), and the calls under way.
Operations: the builder creates, publishes and assigns in one chain of calls; the
child's page loads its row, starts and submits. Hard: an answer is lost and the
server is further than the page; a tap starts a second chain beside the first; a
request the page gave up on arrives after all; the row changes under the page.
Correct when a page claims only what is so, leaves nothing behind on the server,
never shows an older state than it has shown, offers what the server accepts, and
lets people who go on tapping get to the end.

**Sign-in, family setup and pairing pages** (`app/parent/sign-in`,
`app/parent/family-setup`, `app/child/pair`, the route handlers that set the
cookie). State: the cookie that the tabs of a browser share, the step and the ids
each setup page has been told, the device's session. Operations: sign in, create
the family, add a child, get a code, type it. Hard: two tabs under one session;
ids that live in one page's memory; lost answers; codes and sessions that expire.
Correct when no session moves between families, codes and children's sessions
stay in their family, the code on the screen is good, and the setup ends with a
paired device.

**Stubs** (`services/worker`, `notifications`,
`realtime`, `moderation`, `ai`, several packages and apps): no behaviour.

### How they interact

A page calls the proxy, the proxy the API with the session's token.
`SessionGuard` looks the token up in a transaction of its own and hands the
claims to the handler, so a handler never knows whether the session or the
membership still stands when it runs: a mutation by a parent checks the
membership again (`repositories/auth.ts`), with a plain SELECT. The task
repository pays rewards through the same ledger as the reward repository, under
keys that only it builds. The family repository cuts sessions that the identity
repository creates. `PROJECT.json` lists all components with their status, and
every hazard at its line.

## 2. How a request is modelled

The three `...Requests` modules share one convention.

* **Committed and private state.** The variables named after tables (`template`,
  `assignment`, `ledger`, `reward`, `family`, `session`, ...) are the committed
  rows. What a transaction has read and written is in `tx[c]` for its pooled
  connection `c` and reaches the tables at COMMIT, in one step. This is what READ
  COMMITTED shows to others.
* **Steps are statements.** `pc[c]` is the statement the handler is at. Other
  requests run between any two. A step holds one statement that other
  transactions can notice (a read of shared rows, a lock, a wait) with the pure
  computation that follows it.
* **Waiting.** `SELECT ... FOR UPDATE` is a lock variable
  (`assignmentLock`, `rewardLock`, ...), taken when free and dropped at COMMIT or
  ROLLBACK; it returns the latest committed row. `INSERT ... ON CONFLICT DO
  NOTHING` waits while another transaction has an uncommitted row under the key
  (`inserting`). A foreign key's check takes FOR KEY SHARE on the parent row
  (`familyShare`). An UPDATE with a WHERE picks rows from what is committed when
  it starts (`Scan`), waits for rows others have updated (`rowLock`) and judges
  each again (`StillMatches`). Plain SELECTs wait for nothing.
* **Failure.** `Crash(c)` is a server that dies or a connection that drops before
  COMMIT: PostgreSQL rolls back. A refused command, a failed version check and an
  expired session or code are rollbacks too. A client that lost its answer simply
  sends the request again: any request may arrive at any time.
* **Environment.** `SetMember` revokes and re-admits a parent between any two
  steps of the task and reward modules, since the membership is read without a
  lock there. In FamilyRequests it is the real commands that do.
* **Identifiers** are fresh UUIDs: the id of a row being created is one that no
  row and no other request has.

## 3. The modules

| module | what it is | code |
| --- | --- | --- |
| `TaskDomain` | guards and resulting rows of the pure commands, the transition tables | `domain-types/src/task.ts`, `task-service.ts` |
| `TaskLifecycle` | abstract: each task request takes effect at once or not at all | the same, and what the endpoints promise |
| `TaskRequests` | the endpoints as transactions | `task.controller.ts`, `task-repository.ts`, `repositories/auth.ts`, `auth/scope.ts`, `db/pool.ts` |
| `RewardLedger` | abstract: each reward call at once or not at all; keys, entries, status machine | `reward.ts`, `reward-service.ts`, `idempotency.ts` |
| `RewardRequests` | the calls as transactions | `reward-repository.ts`, `reward.controller.ts` |
| `FamilyMembership` | abstract: one family changed by one command at a time | `family.ts`, `family-service.ts` |
| `FamilyRequests` | family, session and pairing calls as transactions | `family-repository.ts`, `identity-repository.ts`, `pairing-repository.ts`, `auth.controller.ts`, the migrations' foreign keys |
| `SignIn` | accounts, and the throttle around the awaited password check | `auth.controller.ts`, `auth/throttle.ts`, `identity-repository.ts` |
| `TaskBoard` | abstract: the registry changed by one whole command at a time; the rules of every command | `task-registry/src/schema.ts`, `registry.ts`, `cli.ts` |
| `RegistryCommands` | the commands as processes around the lock directory and the file | `lock.ts`, `registry.ts`, `cli.ts` |
| `ControlPlane` | what `control` accepts, on a board of TaskBoard | `control.ts` |
| `Versioning` | versions, schemas and flags | `packages/versioning/src` |
| `TaskRules` | task rules and their validation | `task-engine/src/rules.ts` |
| `MediaEvidence` | upload policy, records, expiry | `media.ts`, `media-service.ts` |
| `WebScreens` | what the pages derive from data: recoveries, states, screens, offers, problems of a draft | `ui/src/recovery.ts`, `ux-contracts/src/task-state.ts`, `today.ts`, `task-draft.ts`, the pages' `screenState` and `toScreenState` |
| `TaskApi` | the task endpoints across the network: requests, answers, faults; on TaskLifecycle | `task.controller.ts`, `proxy.ts`, the proxy routes, `error.filter.ts` |
| `TaskBuilder` | the parent's task builder | `apps/parent-web/app/parent/tasks/new/page.tsx` |
| `ChildTask` | the child's task page | `apps/child-web/app/child/task/[id]/page.tsx` |
| `TaskPages` | both pages over the same rows and network | |
| `Mirror` | abstract: what a page that shows a row promises | |
| `FamilyApi` | sessions, families and pairing codes across the network | `identity-repository.ts`, `pairing-repository.ts`, `auth.controller.ts`, `family.controller.ts`, `auth/scope.ts` |
| `FamilyPages` | sign-in and setup in the tabs of a browser, and the pairing page | the pages and routes named in section 1 |
| `MC...` | the values and symmetry sets of the runs | |
| `TaskRequestsProofs`, `RewardRequestsProofs`, `FamilyRequestsProofs`, `SignInProofs`, `TaskPagesProofs`, `FamilyPagesProofs` | theorems about the module of that name | |
| `RegistryProofs` | theorems about RegistryCommands, TaskBoard and ControlPlane | |
| `PolicyProofs` | theorems about Versioning, TaskRules and MediaEvidence | |

Each `...Requests` module, and RegistryCommands, EXTENDS its abstract
specification (it uses its operators for guards and rows); the `...Requests`
modules also instantiate it as `Lifecycle` or `Atomic`. The refinement mapping is
the identity on the tables (on the board), because committed rows are state of
both.

The page modules stand on the other side of the endpoints. TaskApi EXTENDS
TaskLifecycle: a request that arrives has its effect in one step, which is what
TaskRequests is proved to implement (`RequestsAreAtomic`). FamilyApi has one-step
requests of its own, as one parent who owns all their families needs no
memberships. TaskPages instantiates `Mirror` with the row's version and the
version on the screen: the page is shown to implement it (`PageMirrorsRow`).

### TaskRequests in the code's terms

`approve`: `ReceiveDecision`; `ReadInScope` / `ReadReplay` / `ReadDenied` is
`loadAssignmentInScope` and the handler's early answers; `LockAssignment` is
`loadTaskAssignment`'s FOR UPDATE (the handler locks once in `beginVerification`;
the later loads of the same transaction find the lock held and its own update,
and are part of the command steps); `BeginStep`, `VerifyStep`, `CompleteStep` are
the three repository calls with their membership check and UPDATE ... WHERE
version; `LockPaidTemplate` the load of the template, `PayReward` the two
inserts, `CommitDecision` the COMMIT. `reject` is the same without the last
three. `start` and `submit` go `read`, `lock`, one command, `commit`. A template
operation is `LockTemplate` and its command. `Refuse` collects all the ways a
command throws.

`tx[c].seen` is what the unlocked SELECT returned. It decides which command comes
first, which is why a decision can fall on another submission than the one it was
taken for (section 6).

### RewardRequests in the code's terms

`LockReward` is `loadReward`; `Decide` the membership check, the lookup of the
keys, the domain function and the UPDATE of the locked row; `Insert` one
`insertLedgerEntry`; `Commit` the COMMIT. A call without a reward row starts at
`decide`. `tx[c].claimed` is what the call will answer with `duplicate: false`,
`tx[c].inserted` what its INSERTs really wrote. `Precedes` is the order of the
two inserts of a completion.

### FamilyRequests in the code's terms

The operator `After` is the table of each call's statements in their order.
`LoadFamily` is `loadFamily` (FOR UPDATE) with the command on what it read;
`Check` the two unlocked checks of `auth.ts`; `Scan` and `UpdateRows` the UPDATEs
of sessions and codes; `Insert` the INSERT with its foreign-key check. Creating a
family scopes the creator's bootstrap session with an UPDATE of that one row. A
bootstrap session's INSERT has no family and so waits for nobody.

### RegistryCommands in the code's terms

A process runs one command. `pc[p]` is the system call it is at: `Mkdir`,
`WriteInfo`, `Stat`, `StaleUnlink`, `StaleRmdir` and `Deadline` are the loop of
`acquire`; `Refuse` and the `Decide...` actions are `loadRegistry` with the pure
checks of the command; `Truncate` and `Write` the two effects of
`writeFileSync`; `Unlink`, `UnlinkFails`, `Rmdir` and `Confirm` the loop of
`release`. `late[p]` says that the ten seconds are over, `GrowStale` that a lock
is thirty seconds old. A command that holds the lock is assumed to leave it
within those thirty seconds (`GrowStale` needs that nobody uses it): its work is
one read, one computation and one write. `Kill(p)` is a process that dies at any
call: what it has written stays, so a file it has truncated is torn, and no later
command can load it.

The board has a row per task with what the rules look at: status, primary,
reviewer, three kinds of dependency, discoveries, and whether the texts that
admission requires are there.

### SignIn in the code's terms

One key of the throttle and one account. `Check` is `signInThrottle.check`,
`Verify` the transaction that verifies the password and issues a session, after
which the outcome is recorded (`RecordFailure`, `RecordSuccess`); requests overlap
between any two of these. `failed` is history: when the failures since the last
success were recorded. The code deletes an outdated bucket when it meets it; the
model's `NoBucket` is that too.

### The pages in the code's terms

A page's `useState` values are the fields of `builder`, `page`, `tab[t]` and
`device[d]`; what an `await` of `fetch` waits for is an element of `flows`,
`flights` or `calls`. A call has three moments: it is sent (`Tap`, `TapAct`,
`TapLoad`, `TapSetup`, and each next link of a chain), it is served (`ServeFlow`,
`ServeCall`, `Serve`), and its answer is read (`Created`, `Published`, `Assigned`,
`LoadReturns`, `ActReturns`, `ActRefused`, `SetupReturns`, `SignedIn`, `Paired`,
`Refused`). A function that runs after an `await` works on the values of the
render that started it: `flows[f].draft` and the id in `flows[f].req`, not the
page's present ones. `CallFails`, `LoadFails` and `ActFails` are a `fetch` that
throws or a 502 of the proxy; the request may have been served before, may be
lost, or stays under way as `stray` and arrives later. `Reopen` and `Abandon` are
a reload or a person who leaves: the page's state is new and the answers are read
by nobody. `orphans` is history: ids that no page has been told of, or whose page
is gone.

No endpoint of these chains looks at an idempotency key
(`task.controller.ts:81,97-104,133,157`); what makes a repetition harmless is the row's
state (`Replays`), and for creations nothing does.

The child's page at rest offers one thing (`Controls`): nothing while it loads or
is busy, a load when the last one failed and can be retried, else what `Offered`
has for the screen. In FamilyPages the three steps of the setup follow what the
page has been told (`AfterSetup`); the session of a request is the cookie's at
that moment, whichever tab signed in last.

## 4. The runs

State counts are distinct states after symmetry; two workers.

| run | configuration | bounds | states | shows |
| --- | --- | --- | --- | --- |
| `task_requests` | `TaskRequests.cfg` | 1 template, 1 assignment, a child of the family and one outside, 2 parents, 2 connections, 3 rewards, 2 submissions, 2 template versions before publication | 885,458 | `TypeOK`, `LedgerMatchesCompletion`, `VersionCountsHistory`, `NoVersionConflict`, refinement `AtomicLifecycle` |
| `task_answers` | `TaskAnswers.cfg` | 1 parent, 1 child, 1 submission, 2 connections; `FairSpec`; no symmetry | 121,954 | `EveryRequestAnswered` |
| `reward_requests` | `RewardRequests.cfg` | 1 reward, 1 assignment, 1 child, 1 parent and the system, 2 attempts, 1 window, 1 reference, amounts -1 and 1, 5 row versions, 2 connections | 335,618 | `RewardTypeOK`, `RedeemedExactlyOnce`, `RewardVersionCounts`, `NoDeadlock`, `CommittedCallIsPosted`, refinement `AtomicRewards` |
| `family_requests` | `FamilyRequests.cfg` | owner and one more parent, 1 child, 1 token, 3 sessions, 2 codes, 2 connections | 606,609 | `FamilyTypeOK`, `NoDeadlock`, `RevocationCutsEverySession`, `CodeIsSpentOnce`, refinement `AtomicMembership` |
| `registry_commands` | `RegistryCommands.cfg` | 2 processes, 3 boards of 1 or 2 tasks, 2 agents, 2 attempts at a removal, 1 failing removal, 1 kill; 2 reviews, 1 wave, 1 open blocker | 319,650 | `RegistryTypeOK`, `NextListsClaimable`, `NoLockLeft`, `EveryCommandEnds`, `PassedReviewStands`, refinement `AtomicCommands` |
| `sign_in` | `SignIn.cfg` | 3 overlapping requests, 3 failures to a block, window and block of 2 ticks, 6 ticks | 435,494 | `SignInTypeOK`, `FailureBudget`, `OnlySuccessLiftsBlock` |
| `task_pages` | `TaskPages.cfg` | 3 templates, 2 assignments, 1 child, 2 rewards (one invalid), 6 drafts, 2 chains at once, 2 faults, 1 rejection; `FairPages`; no symmetry | 125,801 | `PagesTypeOK`, `SuccessIsTrue`, `TemplatesAccountedFor`, `ScreenOffersTheNextStep`, `EveryTapIsAnswered`, `EveryDraftArrives`, `AssignedTaskGetsDone`, refinement `PageMirrorsRow` |
| `family_pages` | `FamilyPages.cfg` | 2 tabs, 1 device, 3 families, 3 children, 4 sessions, 3 codes, 1 fault; `FairPages`; no symmetry | 232,427 | `FamilyPagesTypeOK`, `FamiliesAccountedFor`, `PairingStaysInTheFamily`, `ShownCodeWorks`, `SessionNeverMovesFamily`, `SetupReachesTheDevice` |
| `stale_decision` | `StaleDecision.cfg` | as `task_requests`, one reward | violated | `DecisionIsOnTheRowRead` |
| `revoked_session` | `RevokedSession.cfg` | no child, 2 sessions | violated | `RevokedParentHasNoLiveSession` |
| `registry_mutex` | `RegistryMutex.cfg` | 3 processes, 1 task, no kill, no failing removal | violated | `MutualExclusion` |
| `repeat_tap` | `RepeatTap.cfg` | as `task_pages`, 1 template, no fault | violated | `OneAssignmentPerDraft` |

**Why the bounds are enough.** Every conflict in this code is between two
transactions about one row or one key, so two connections (which serve any number
of requests one after another) and one row of each table produce it; a third
connection adds waiters, not new pairs. A second row of a table would only
interact through a request that touches two rows of one table, and there is none.
What needs more than one value has it: two submissions, so that a rejected
assignment is restarted, resubmitted and decided again; one child outside the
family and one inside; a reward that pays one currency, one that pays both and
one that is refused; two redemption attempts and enough row versions (`MaxVersion`
5) for redeem, cancel, redeem and confirm; three sessions, so that the owner and
two devices of the other parent exist together; two codes, so that one replaces
the other. `MaxSubmissions`, `MaxTemplateVersion` and `MaxVersion` are bounds on
what arrives, never on what a request that has arrived does. The proofs
(section 7) need none of these bounds.

In the registry two processes are not a bound of convenience: with three the lock
fails (`registry_mutex` without a kill; after a kill, two survivors, section 6),
and two is the number for which the tool is right: `registry_commands` has a killed
holder and the one survivor that recovers its lock. The
three boards are the start of the three things that need other tasks or other
parts of the row: a discovery that becomes a child, a dependency that gates a
claim, one that gates a handoff. In SignIn a failure can be recorded before, in
and after a block, and two requests can overlap the one that sets it; six ticks
hold a window, the block after it and the window that the block opens, which is
what the worst case of `FailureBudget` takes. The bound of FailureBudget is
reached: one less and TLC finds it violated.

For the pages a fault is the interesting event, and each kind of fault meets each
state of the pages. Two faults in TaskPages give a lost answer and a late request
together, or a loss on the builder and one on the child's page; the third template
is there for an orphan beside the one in use and one under way, the second
assignment for the repeat tap. In FamilyPages the tabs are what makes a single
fault go far: with one fault two families, two sessions in turn under one cookie
and a replaced code all occur. Two faults were tried without the bound of five
minutes on a run, and the safety properties held in the 2.8 million states visited;
the run that stays has one. `AssignmentIdsLeft`, `TemplateIdsLeft` and `IdLeft`
keep an id for every request that may take one, so that a bound on ids never
blocks a request that has been sent.

**Symmetry** permutes connections, parents other than the owner, attempts,
sessions, codes and tokens, none of which an operator tells apart; it is not used
with the liveness property.

**Fairness.** `FairSpec` has weak fairness of `Handle(c)`, the statements that
wait for nobody (Node's event loop runs every ready continuation, and the
database answers), and strong fairness of `Locking(c)` (PostgreSQL queues the
waiters of a row lock first come, first served, so a lock that is free again and
again is granted). Nothing is assumed of `Arrive`, `Crash` or `SetMember`.
`RegistrySpec` has weak fairness of each process's `Step` (the operating system
schedules a process that can run) and `Late` (its clock goes on); nothing is
assumed of `Kill` or `GrowStale`, so `EveryCommandEnds` does not rest on stale
locks being found stale. In `FairPages` of TaskPages and FamilyPages calls are served and answered
(`Chain(f)`, `Proceed(f)`, `Serve` and `Returns`: the network and the server work
except for the faults), and people go on: a parent taps while the button is there
(`Tap`), a child taps what the page goes on offering or comes back to
(`TapLoad \/ TapAct`, strongly fair because the button goes and comes with each
load), one whose page offers nothing opens it again, a parent decides about what was submitted, and
a code that is on a screen is tried. Nothing is assumed of faults,
of late requests or of reopening a page that works. These are assumptions about
people, so the liveness properties say what the pages let them do, not that they
will. `SetupReachesTheDevice` excepts `ADeadEnd`: the failures after which
the code offers no way on, named one by one.
`CHECK_DEADLOCK` is off only in the two registry runs,
where every command is one process that ends, and in `family_pages`, where the
device is paired and the tabs are done in the end.

## 5. The faults the properties catch

Operators that are deliberate faults stand before the definition they replace;
nothing uses them (in `WebScreens` and the page modules too). With the replacement, TLC finds the property violated:

| property | replaced | by | the fault |
| --- | --- | --- | --- |
| `TypeOK` | `CreateTemplateAllowed` | `...Mutant` | only the XP amount is validated |
| `LedgerMatchesCompletion` | `UpdateTemplateAllowed` | `...Mutant` | a published template can be edited |
| `VersionCountsHistory` | `StartTaskAllowed` | `...Mutant` | a submitted task can be started again |
| `NoVersionConflict` | `LockAssignment` | `...Mutant` | the load forgets FOR UPDATE |
| `AtomicLifecycle` | `LockTemplate` | `...Mutant` | the template's load forgets FOR UPDATE |
| `EveryRequestAnswered` | `End` | `EndMutant` | locks outlive their transaction |
| `RewardTypeOK` | `Decide` | `DecideMutant` | the lookup's result is ignored |
| `RedeemedExactlyOnce` | `CatalogAllowed` | `...Mutant` | a REDEEMED reward can be confirmed again |
| `RewardVersionCounts` | `Moved` | `MovedMutant` | the version is not advanced |
| `CommittedCallIsPosted` | `Insert` | `InsertWithoutWaiting` | the insert skips an uncommitted entry |
| `AtomicRewards` | `Insert` | `InsertOnAnotherConnection` | the entry is written outside the transaction |
| `NoDeadlock` (rewards) | `Insert` | `InsertInAnyOrder` | COINS may be inserted before XP |
| `FamilyTypeOK` | `Insert` | `InsertMutant` | `sessions.family_id` has no foreign key |
| `RevocationCutsEverySession` | `Insert` | `InsertMutant` | the same |
| `AtomicMembership` | `LoadFamily` | `LoadFamilyMutant` | a plain SELECT in place of FOR UPDATE |
| `CodeIsSpentOnce` | `StillMatches` | `...Mutant` | the UPDATE does not judge its row again |
| `NoDeadlock` (family) | `Scanned` | `ScannedMutant` | a revocation also withdraws the parent's codes |
| `RegistryTypeOK` | `Confirm` | `ConfirmOnceMoreMutant` | one retry too many |
| `NextListsClaimable` | `ClaimableTasks` | `...Mutant` | `next` looks at other dependencies than claim does |
| `NoLockLeft` | `Confirm` | `ConfirmMutant` | release does not try again |
| `AtomicCommands` | `Mkdir` | `MkdirMutant` | an existing lock directory is no obstacle |
| `PassedReviewStands` | `PassJustified` | `...Mutant` | a review may pass on tasks that are at ACCEPTANCE |
| `EveryCommandEnds` | `Deadline` | `DeadlineMutant` | a path of the wait skips the deadline |
| `SignInTypeOK` | `FailureRecorded` | `...NoResetMutant` | the count is not reset when a block is set |
| `OnlySuccessLiftsBlock` | `FailureRecorded` | `...Mutant` | a block does not start a window of its own |
| `FailureBudget` | `Check` | `CheckMutant` | the check looks at the count, which a block has reset |
| `PagesTypeOK` | `RecoveryFor` | `...Mutant` | an unknown code has no fallback |
| `SuccessIsTrue` | `Published` | `...Mutant` | ASSIGNED is shown before the assignment is made |
| `TemplatesAccountedFor` | `FailedPage` | `...Mutant` | a failure drops the template's id |
| `ScreenOffersTheNextStep` | `Offered` | `...Mutant` | a submitted task can be submitted again |
| `PageMirrorsRow` | `Controls` | `...Mutant` | the buttons stay while the page loads |
| `EveryTapIsAnswered` | `FailureShown` | `...Mutant` | a failed call leaves the page busy |
| `EveryDraftArrives` | `ButtonEnabled` | `...Mutant` | the button is disabled while an error is shown |
| `AssignedTaskGetsDone` | `Offered` | `OfferedOnceMutant` | a rejected task offers no second attempt |
| `FamilyPagesTypeOK` | `AfterSetup` | `...Mutant` | the step of the child is skipped |
| `FamiliesAccountedFor` | `Enabled` | `...Mutant` | buttons are not disabled while busy |
| `SessionNeverMovesFamily` | `Scoped` | `...Mutant` | scopeSessionToFamily without `family_id IS NULL` |
| `PairingStaysInTheFamily` | `Accepted` | `...Mutant` | issuing a code does not check the child's family |
| `ShownCodeWorks` | `Superseded` | `...Mutant` | issuing a code spends every child's codes |
| `SetupReachesTheDevice` | `Idle` | `...Mutant` | a failure leaves the setup page busy |

The last one of the family requests is worth a note: withdrawing a revoked parent's outstanding codes is
an obvious improvement, and it would deadlock with a redemption, which holds its
code and then needs the family. RevocationCutsEverySession is the other: only the
foreign key of `sessions` keeps a revocation from missing a session that is about
to be committed.

## 6. Where code and documents disagree

Each is a run in which TLC finds the property violated; `PROJECT.json` quotes both sides.

* `DecisionIsOnTheRowRead`: a parent's decision can commit on a later submission
  than the one its handler read; no stale version is ever submitted or compared.
* `RevokedParentHasNoLiveSession`: a sign-in that read ACTIVE inserts its session
  after the revocation's UPDATE of sessions has run.
* `MutualExclusion`: `release` removes its lock directory, sees another one that a
  waiting command has made meanwhile, takes it for its own and removes it as well;
  a third command then enters beside the second, and one of their changes is lost.
* `OneAssignmentPerDraft`: a repeat tap on the builder, between the answers to publish
  and assign, assigns the task to the child twice; the endpoint ignores the key the page sends.

Met while modelling, and left without a run (each is a step of a module, and a
hazard of `PROJECT.json`, or a static fact):

* A reward that is not one-use is used up by its first redemption. `isOneUse` defaults
  to false (`reward.ts:154`), is stored (`reward-service.ts:402`) and read by no
  operation; REDEEMED has no transition (`reward.ts:122`). But `idempotency.ts:98-100`
  has the attempt id "to distinguish multiple redemption attempts for a non-one-use
  reward", and `docs/game/rewards.md:13` makes one-use an option. That
  `RedeemedExactlyOnce` holds of every reward, and is proved, is therefore what
  the documents want of one-use rewards only: for the others it is this
  disagreement. With a second redemption of those, it would have to be restricted.
* Stale recovery with two survivors breaks the mutex (`lock.ts:87` against `:18`): a
  command is killed and leaves the lock; two others find it older than thirty
  seconds. One removes it, sleeps 50 ms and makes its own; the other, held up between
  `statSync` and `removeLockDir`, removes that one, and both are inside.
  `RegistryCommands` has this schedule, but neither registry run reaches it:
  `registry_commands` has one survivor, `registry_mutex` no kill. TLC finds it as the
  violation of `MutualExclusion` when `RegistryMutex.cfg` has `MaxCrashes = 1`, and
  `MaxAttempts = 1` to keep the retry of `release` out of the way.
* The loser of two posts under one key answers `duplicate: false` with an entry
  that is not in the ledger (`reward-repository.ts:79` against `idempotency.ts:28-30`).
* `cancelReward` also cancels a reward that is being redeemed (`reward-service.ts:516`
  against the comment above it).
* Two overlapping requests leave two live pairing codes for a child
  (`pairing-repository.ts:85` against its comment).
* A parent who has a family gets a session without one at every sign-in, and so is
  sent to the setup page, where they can only create another family
  (`app/parent/sign-in/page.tsx:43`; `docs/ux/screens/parent-registration.md:29-31`).
* A setup page opened again after createFamily creates a second family while the
  session stays with the first; every child it adds is then refused
  (`family.controller.ts:64`, `ADeadEnd`).
* The code shown cannot be replaced: the step CHILD_ACCESS_READY has no control for
  another one, which is what the child is told to ask for (`app/child/pair/page.tsx:57`).
* A route's 503 `NETWORK_ERROR` is shown as a wrong code or wrong credentials
  (`app/child/pair/page.tsx:38`, `app/parent/sign-in/page.tsx:55`).
* A field that the new schema lacks is reported as REMOVED_FIELD, though
  `z.object` strips it and the old value still parses; the header of
  `schema-compatibility.ts` (lines 6-12) says that the check is whether old values are still
  valid. What it is, is whether anything is refused or lost (section 7).
* On a child's task a domain refusal (422) falls back to ASK_ADULT, and the reload
  that the comment at `page.tsx:142-144` has for stale tasks needs a 409 that never comes
  (`NoVersionConflict`); a first load answered BAD_GATEWAY leaves no retry button.

## 7. The proofs

`TaskRequestsProofs` proves, for every set of connections, parents, children,
templates, assignments and rewards that meets the modules' assumptions:

| theorem | states |
| --- | --- |
| `Invariance` | `RequestsSpec => []IInv` |
| `TypeCorrect` | `RequestsSpec => []TypeOK` |
| `PaidExactlyOnce` | `RequestsSpec => []LedgerMatchesCompletion` |
| `NoLostTransition` | `RequestsSpec => []VersionCountsHistory` |
| `VersionChecksSucceed` | `RequestsSpec => []NoVersionConflict` |
| `RequestsAreAtomic` | `RequestsSpec => AtomicLifecycle` |
| `NeverStuck` | `RequestsSpec => []NoDeadlock` |

Assumptions: `TaskDomainAssumption` (rewards are pairs of integers, `None` is no
id) and `TaskRequestsAssumption` (the family's children are children, actors'
ids are apart, the bounds are numbers). They are the weakest the modules need, and
TLC evaluates them in every run.

**The argument.** None of the four properties is inductive alone. `IInv` adds
what a transaction may rely on:

* `Locks`: past its locking statement a transaction holds that row's lock;
* `AssignmentCopy` and `TemplateCopy`: the private copy of a locked row is the
  committed row moved on by the commands the transaction has run so far, one
  disjunct per statement;
* `Pending` and `FreshIds`: a row being created is not there yet, and no two
  requests create the same one;
* `AssignedFromPublished`: an assignment's template is ACTIVE or ARCHIVED. This is
  why the amount paid is the template's amount for good: only a DRAFT is edited.

A step is split three ways. It leaves the tables alone, or it is a COMMIT, and
then the copies say it is exactly one step of TaskLifecycle (`StepIsAtomic`).
A step of TaskLifecycle keeps the data invariant (`LifecycleKeepsData`), with no
transaction in sight. A step of `c` keeps every other connection's part of the
invariant, because it changes only rows it has locked (`OthersKept`), and its own
(`OwnKept`), statement by statement.

`NeverStuck` needs one thing more, in the other direction (`LockOrder`): who holds
an assignment's row is past the statement that locks one, and who holds a
template's waits for nobody. So a chain of waiting transactions has at most two
links, however many there are.

`RewardRequestsProofs`, for every set of rewards, children, amounts, keys and
connections:

| theorem | states |
| --- | --- |
| `Invariance` | `RequestsSpec => []IInv` |
| `TypeCorrect` | `RequestsSpec => []RewardTypeOK` |
| `RedeemedOnce` | `RequestsSpec => []RedeemedExactlyOnce` |
| `NoLostChange` | `RequestsSpec => []RewardVersionCounts` |
| `CommitsArePosted` | `RequestsSpec => CommittedCallIsPosted` |
| `NeverStuck` | `RequestsSpec => []NoDeadlock` |
| `CallsAreAtomic` | `RequestsSpec => AtomicRewards` |

Assumptions: amounts are integers, `None` is no reward and no connection, the
system is no parent (`RewardLedgerAssumption`, `RewardRequestsAssumption`). Beside
the row lock (`RowOK`: a locked row stays as it was read) the ledger has no lock,
only the wait on an uncommitted key. `PostsOK` is what takes its place: a
connection is inserting under a key exactly if it has a pending post for it, and
each post that its call asked for is still to insert, pending, or in the ledger.
A pending key has no entry (`LedgerOK`), so a COMMIT posts all that is missing and
writes over nothing. `RedeemedExactlyOnce` is inductive only with them: the
redemption's post and the REDEEMED row are written by one COMMIT, and the entry
of a redemption, and no other, names the reward of its key (`Fits`). In a
circle of waiting calls each would wait at an insert with a post of its own
pending. By `CallOK`'s last line such a call has its XP pending and its COINS to
insert (`HalfInserted`); the call it waits for would then have its COINS pending
and be waiting itself, which that line excludes.

`FamilyRequestsProofs`, for every set of parents, children, tokens, sessions,
codes and connections:

| theorem | states |
| --- | --- |
| `Invariance` | `RequestsSpec => []IInv` |
| `TypeCorrect` | `RequestsSpec => []FamilyTypeOK` |
| `RevocationIsComplete` | `RequestsSpec => RevocationCutsEverySession` |
| `CodesAreSpentOnce` | `RequestsSpec => CodeIsSpentOnce` |
| `MembershipIsAtomic` | `RequestsSpec => AtomicMembership` |
| `NeverStuck` | `RequestsSpec => []NoDeadlock` |

Assumptions: the owner is a parent, ids of different kinds differ, `None` is none
of them (`FamilyMembershipAssumption`, `FamilyRequestsAssumption`). The invariant
has, per connection, what it holds (`FamilyOK`: who is judged on the family's row
has it locked, and what was judged still holds; who has inserted a session or code
of the family shares it), what its UPDATE has in hand (`RowsOK`: a row it has
changed is locked by it and still matches), that ids to be inserted are not there
and nobody else's (`FreshOK`, `Apart`), and `CutOK`: a revocation past its scan has
every open session of its parent among the rows to update, or among those updated.
`CutOK` is where sessions and family meet. A session of the family can only be
inserted with the family's share lock, which excludes a revocation that holds the
row; and the two other calls that update sessions do not open any. That
sign-in may still insert one *after* the revocation is the finding
`revoked_session`; the theorem is about those that were open before.

`RegistryProofs` proves, for every set of tasks, agents and boards and any number
of retries, faults and kills:

| theorem | states |
| --- | --- |
| `RegistryTypes` | `RegistrySpec => []RegistryTypeOK` |
| `ClaimableListIsRight` | `RegistrySpec => []NextListsClaimable` |
| `ChildKeepsStructure` | a child created with existing dependencies leaves a board without cycles, dangling ids and inadmissible READY tasks if it found one |
| `TwoCommandsExclude` | with at most two processes, `RegistrySpec => []MutualExclusion` |
| `TwoCommandsAreAtomic` | with at most two processes, `RegistrySpec => AtomicCommands` |
| `PassedReviewsStand` | with at most two processes, `RegistrySpec => PassedReviewStands` |
| `NoLockIsLeft` | with `MaxFaults < MaxAttempts`, `RegistrySpec => []NoLockLeft` |

The bound on processes is `AtMostTwo` (any two different processes are all there
are), an assumption of the three that name it and needed, as the run `registry_mutex`
shows. The argument is `LockInv`, which says who may be where while a lock
directory exists (two are never past mkdir; while one is, the other, if it waits,
finds the directory; a stale lock, and a process that removes one, only exist
beside a process that has ended), and `TodoInv`: what a command is about to write
is an outcome of the board as it still stands. A step then either writes exactly
that outcome, or changes nothing of the file. PassedReviewsStand rests on the
refinement: it is proved of TaskBoard's commands, none of which moves a DONE task
(`DoneIsFinal`) or removes one, and carried over.

`NoLockIsLeft` is for any number of processes, although three can take each
other's lock. `SomebodyRemoves` says why: while there is a lock directory there is
a process that is sure to remove one (`WillRemove`), because it has more attempts
left than removals can still fail, or one was killed. A process that finds the
directory gone and another one made in its place has used up an attempt, but the
other one's maker has not. The hypothesis says that fewer unlinks fail, over the
whole run, than `release` has attempts (six in `lock.ts`); with as many, a lock
may stay until the next command recovers it as stale, as `lock.ts:121-127` says.

`SignInProofs` proves `SignInTypes` (`Spec => []SignInTypeOK`), `BlocksStand`
(`Spec => OnlySuccessLiftsBlock`) and, with `BLOCK_MS = WINDOW_MS`, `BudgetHolds`
(`Spec => []FailureBudget`), for every number of requests, failures and
ticks. The second needs `BLOCK_MS <= WINDOW_MS`, part of `SignInAssumption`: with a
longer block, a failure of a request that overlapped would find its window closed
and start a fresh bucket, without the block. The invariant that carries it is that
a block ends at most BLOCK_MS after its window began (`BlockWithinWindow`).
The budget is a count, and its invariant has two parts. `BucketIsTheTail`: the
bucket's failures are the last ones recorded, and those before them are no younger
than the window's start, so that they have all left the window when it closes.
`Spent`: outside a block, at most `MAX_FAILURES - 1` recent failures are not the
bucket's; in a block, recent failures and requests under way together stay within
the bound, because only requests that have passed the check can add one. The code
has both times at 15 minutes (`throttle.ts`), which is the theorem's hypothesis.

`TaskPagesProofs`, for any templates, assignments, chains and faults:

| theorem | states |
| --- | --- |
| `Invariance` | `PagesSpec => []IInv` |
| `TypeCorrect` | `PagesSpec => []PagesTypeOK` |
| `ClaimsAreTrue` | `PagesSpec => []SuccessIsTrue` |
| `NoTemplateIsForgotten` | `PagesSpec => []TemplatesAccountedFor` |
| `NextStepIsOffered` | `PagesSpec => []ScreenOffersTheNextStep` |
| `MirrorIsImplemented` | `PagesSpec => PageMirrorsRow` |
| `PagesFollowTheLifecycle` | `PagesSpec => Spec` (of TaskLifecycle) |

The runs use `FairPages`, which implies PagesSpec. The assumptions are those of
TaskDomain and the pages' modules; `TaskApiAssumption` says that null, which stands
for "no answer yet" and "not loaded", is neither an id nor an answer, a view or a
request. The argument goes by what the rows can never lose (`RowsGrow`: a template
that exists or is ACTIVE stays so, an assignment keeps its template, its version
does not fall) and where a new template can come from (`NewTemplates`); both are
proved of every request (`Handled`). Then a chain of the builder is described
by its call (`FlowOK`): one that creates is alone and the page knows no template;
one that publishes or assigns is about the page's template, and its answer is true
of the rows. Answers stay true because rows grow, which is why a late one can be
believed. On the child's page one call is under way at a time, and a load's answer
is no older than the view and no newer than the row (`FlightOK`), which is the
mirror's step. `PagesFollowTheLifecycle` closes the gap between the two halves of
the project: the pages do to the rows what TaskLifecycle does, and that is what
`RequestsAreAtomic` shows the transactions to implement.

`FamilyPagesProofs` proves, for any number of tabs, devices, ids and faults:

| theorem | states |
| --- | --- |
| `FamilyPagesTyped` | `PagesSpec => []FamilyPagesTypeOK` |
| `SessionKeepsItsFamily` | `PagesSpec => SessionNeverMovesFamily` |
| `PairingKeepsToTheFamily` | `PagesSpec => []PairingStaysInTheFamily` |
| `ShownCodesWork` | `PagesSpec => []ShownCodeWorks` |
| `NoHiddenFamily` | `PagesSpec => []FamiliesAccountedFor` |

They assume that families, children, sessions and codes have different ids
(`FamilyApiAssumption`) and that no tab is a device (`FamilyPagesAssumption`). The
invariant's core is `OneKeeper`: an id that a client was given is kept by one page,
by one answer on its way, or by nobody. With it goes `CallsOK`: the page that sent
a request is still at the step it sent it from (`Awaits`), because the button that
sent it is disabled until the answer. So two requests for codes of one child cannot both have
a client, and a code on a screen can be spent only by a redemption or by a request
whose client is gone. That the family a page closes on is the family of its code
(`DoneStep`) takes `RowsOK`: a child has one family. What a request does to the
rows is proved first, operation by operation (`HandleEffect`), then each action of
the pages.

`PolicyProofs` is about pure functions, for all arguments:

| theorem | states |
| --- | --- |
| `VersionsAreOrdered` | `compareSemVer` is a total order |
| `UpgradesKeepConsumers` | `isCompatible` is a partial order, so it holds along chains of upgrades |
| `CompatibleMeansAccepted` | no violation is reported exactly when the new schema accepts every payload the old one did and keeps all that the old one kept of it |
| `CompatibleChangesCompose` | compatible changes compose |
| `RolloutOnlyGrows` | raising a percentage takes a feature from nobody; the denylist wins |
| `ValidRuleIsSatisfiable` | all gates, the interval and the COUNT of a valid rule can be met |
| `RetentionIsBounded` | a new record obeys its policy, belongs to one family and is expired after 90 days and an hour |
| `ExpireIsIdempotent` | expiring is idempotent, lasting, never prolongs, and changes nothing else |

`Accepts` and `Kept` are zod's `parse` of a plain `z.object`, by the fields a payload
has: it refuses a payload without a required field, and strips the fields it does
not know. So a removed field is not refused but lost, which is why the
theorem needs `Kept`: with acceptance alone it holds in one direction only. What
happens inside a field is outside checkSchemaCompatibility, as its header says.
`Admits` and `Satisfiable` are the meaning of gates and rules that the comments of
the code give; no function of the code computes them.

**Only model-checked:** the liveness properties `EveryRequestAnswered`,
`EveryCommandEnds`, `EveryTapIsAnswered`, `EveryDraftArrives`,
`AssignedTaskGetsDone` and `SetupReachesTheDevice`: fairness, ENABLED and leads-to
are out of the prover's reach. Every other property of a passing run is a theorem, under
the hypotheses named above (at most two commands; fewer failing unlinks than
attempts; a block as long as the window);
before it was proved, each inductive invariant was checked by TLC on the run of
its module. The violations of section 6 are counterexamples and need no proof.

## 8. What is left out, and why

* Reads that change nothing: lists, 'today', balances, history pages.
* Formats: titles, dates, verification strategies, audit events (returned by the
  commands and stored by nobody), the mapping of errors to HTTP statuses.
* What a password hash is: a check of it succeeds or fails. Other accounts and
  keys than the one of SignIn, and the throttle's `reset`, which only tests call.
* The registry's archive of handoff reports, its git worktrees, the inventory of
  contracts (`contracts.ts`), and commands that only read. A command that is
  suspended for thirty seconds while it holds the lock: its lock would be removed
  as stale beside it.
* The hash that puts a subject in a bucket of a feature flag (any bucket), the
  tables of surfaces and deprecations; ISO strings, which media records compare as
  text (times are numbers here).
* Capabilities of memberships; the family's status, which no repository moves;
  `revokeSessionsForChild`, which nobody calls.
* Expiry times of sessions, codes and tokens: a call that finds one expired is
  rolled back, which `Crash` covers; that an expired session is refused is a
  comparison in one SELECT.
* An UPDATE of several rows takes them one after another; here it waits until it
  can have them all, and the deadlock property counts every row it wants as one it
  waits for. That hides one thing only, two such UPDATEs that take the same rows in
  opposite orders; both would be run by the same plan, in the same order.
* The sign-in page's toggle between signing in and signing up
  (`sign-in/page.tsx:108-117`), which stays enabled while a sign-in is under way and
  sets the form READY again: two sign-ins of one tab may then overlap. The model
  has overlapping sign-ins of two tabs under the same cookie. They differ in which
  page goes on to the next screen, and each only adds a session.
* Of the pages: whether the browser says it is online (OFFLINE disables the buttons
  and changes a heading), which problems of a draft are on view, wording, the
  sign-up form, the session's expiry on the task pages (every call then fails, with
  a recovery that leads to the sign-in), the sign-out route, and the dashboard and
  C-TODAY, which load once and show; what C-TODAY derives is in WebScreens. One request at
  a time may be stray.
* Navigation tables, tables of screens, actions and labels, stubs, generated code and
  shell-like scripts, as `PROJECT.json` says of each.

## 9. Plan

1. Done: tasks, rewards, families with sessions and pairing codes, sign-in, the
   registry tool with control, the pure functions, the pages of both front ends
   that lead to a session and to a task; a proof of every safety property that a
   run checks, and of every refinement.
2. Proofs worth adding: that FamilyApi's one-step requests are steps that
   FamilyRequests takes, for one parent and their families, which would join the
   second pair of halves; what TwoCommandsExclude says for any number of processes
   if none of them retries a removal.
3. Model: capabilities and the family's status; C-TODAY beside C-TASK;
   `contracts.ts` of the registry tool.
