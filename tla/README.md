# placegame-mcp in TLA+

placegame-mcp is a service that plays a browser game for its operator: it keeps
several game accounts logged in, previews and collects their idle rewards, and
offers both over MCP and an admin API. This directory holds specifications of
it, the TLC configurations that check them and proofs that TLAPS checks. Paths
below are relative to `src/src/placegame/` unless they begin with `src/`.

## The system

| Component | State | Operations | Talks to |
|---|---|---|---|
| Idle preview and execution, `application/idle.py` | `action_plans` rows; two PostgreSQL advisory locks per account (seed 0: the account lock of a transaction, seed 2: the execution guard of a session) | `preview`, `save`, `hold`, `claim`, `owned`, `execute`, `_send_once`, `_recover`, `finish` | account service (lock, policy, session), game client |
| Scheduler, `scheduler.py` | `scheduler_leases` (one row), `jobs`, `job_runs`; a semaphore | `tick` = acquire lease, list, ensure jobs, claim due, dispatch, release; `run`, `close` | account service, `preview` |
| Game client, `game/client.py` | `GameClientVersion`, shared by the clients of all accounts; a rate limiter per client | `_request` with attempts, version retry, interpretation | the game |
| Account service, `accounts/` | `game_accounts` (lifecycle, identity, secrets, session), `account_snapshots`, audit | enroll, update credentials or token, enable/disable, pause/resume, remove, `locked`, `ensure_session`, `snapshot`, `mutate` | game client, policy store, plan store |
| Policy store, `policy/store.py` | `account_policies` with a version | `get`, `save` (optimistic) | account lock |
| Plan store, `policy/plans.py` | `action_plans` | `create`, `confirm`, `mark_executing`, `finish` | `mutate` |
| Policy engine, `policy/engine.py`, `rewards.py`, `boss_optimizer.py` | none; a builder keeps the view it has read while it awaits previews | one plan builder per family, `optimize`, `idle_resolver` | game client, under the account lock |
| Admin authentication, `admin/` | `admin_credentials`, `admin_sessions` | setup, login, validate, logout, change password | |
| Deployer, `src/deploy/placegame_deploy.py` | files on a host, containers | deploy, health check, rollback | docker |
| MCP adapter, web console, wiring | none of their own | translate calls | all of the above |

What is hard about it: everything runs in one or more asyncio processes over
PostgreSQL, so every `await` lets other calls in; locks are held by database
sessions that may end before their holder notices; leases expire by a clock
that goes on while a call is slow; the game's answers get lost after it has
done the work; and most operations are several transactions with room for a
crash between them. `PROJECT.json` lists the hazards at their lines.

What makes each component correct, in a line:

- idle execution: a reward is requested at most once per plan and the recorded
  verdict is true; a claim ends in a verdict.
- scheduler: a due account is previewed, once per slot, under one lease; an
  excluded or removed account is not.
- game client: a mutation takes effect at most once per call, its outcome says
  no more than is known, and a stale version heals.
- account service: a removed account is never used again; one game identity,
  one account; a failed authentication does not destroy a good session.
- policy and plan stores: no lost update; a plan is executed under the policy
  it was made for.
- admin authentication: one setup wins; no session of an old password survives
  a change of it.
- policy engine: while the policy is the plan's and the game looks as the plan's
  projection says, what the plan was made for is still so; no acceptable option is
  passed over.
- deployer: the recorded image is the one that runs, or the previous one does.

## Modules

### IdleExecution: one account

Every lock, plan and policy in the code is keyed by the account, so a single
account is the whole problem. The state is that of the code: `plans` are the
`action_plans` rows (expiry and lease as the time that is left), `policy` the
policy row, `guard` and `lock` the two advisory locks, `ex[e]` the locals of one
`execute()` call, `drafts[v]` what a `preview()` has decided inside the account
lock and not saved yet. The game is `idle`, `capacity` and the request `net[p]`
of each plan. `sent` and `paid` are ghosts: how often a request left for a plan,
and whether a collection happened since its preview read the game.

An action ends where the code awaits the database or the game:

| Action | Code |
|---|---|
| `Preview`, `SavePreview`, `LosePreview` | `IdlePlanUseCase.preview`: the locked block, then `IdlePreviewStore.save` in a transaction of its own |
| `HoldGuard` | `IdleExecutionGuard.hold`: `pg_try_advisory_lock`, never waits |
| `ClaimFresh`, `ClaimExpired`, `RefuseClaim` | `IdleExecutionClaims.claim` and its early returns |
| `EnterAccount` | `AccountService._locked`: waits for the lock, loads the policy |
| `ReadBefore`, `CheckPlan`, `SendCollect`, `ReadAfter`, `CollectRaised`, `LeaveAccount` | `_send_once` |
| `Reread` | `_recover` |
| `Finish` | `claims.finish`, and the release of the guard |
| `Abandon` | an exception, a cancellation or the end of the process at any await |
| `DropGuard`, `DropLock` | the database ends the session that carries a lock; the holder goes on |
| `ServeCollect`, `PlayerCollects`, `CapacityChanges`, `SavePolicy`, `Tick` | the game, the player, the operator, the clock |

The owner token of a claim is a fresh uuid in the code. A call holds one claim
and is over before its executor calls again, so the executor stands for it.
A call refused by the guard changes nothing and is not an action.

`IdlePlanContract` is what idle plans promise without locks, leases and calls:
offered, claimed once, requested at most once, settled once, `failed` only
without a request and `executed` only after a collection. `KeepsContract` says
that IdleExecution implements it under the mapping state = the plan's state,
requests = `sent`, rewarded = `paid`. The contract lets a request leave after the
verdict `reconciliation_required` or `executed`: a sender that lost its
connection and was overtaken by a recovery does that.

### Scheduler: several processes

`lease` is the `scheduler_leases` row; `jobs[a, w]` is the job row that worker w
inserted for account a (a worker inserts at most one), together with the
unfinished `job_runs` row of its slot; `first[a]` says whose row has the smallest
`created_at`. `step`, `lag`, `rest`, `view`, `rows`, `current` and `claims` are the locals
of `tick()`, of `ensure_jobs` and of the loop around them. Times are relative to the clock. A tick
reads the clock once, so each of its leases, comparisons and slots is based on a
`now` that is `lag[w]` old: this is what makes a slow tick interesting, and the
model keeps it. Completed runs are not kept. A run's slot is the `next_run_at`
of its job, which moves to `now + interval` in the transaction that completes the run;
`SlotsApart` says that no two due jobs of one account share a slot, so that no
run collides with another's: then a run per job is the same as the code's run per
account and slot. It is the case while no tick has outlived its lease, because
an account has one job then, and for two processes of which at most one dies, once.
Two restarts, each of which switches an old job on from a list that is out of date,
break it, and so do three processes: the key of a run has whole seconds, and two that
read the clock in the same second, with a third one between them that took the lease
over and released it, insert jobs for one slot. The model is not exact from there on
(the code lets one of the two runs complete and never claims the other job again).

`EnsureRead` and `EnsureWrite` are two steps of one transaction: job rows are
locked as they are read (so changing existing rows is one step), but an account
without a row has nothing to lock, and a row that another process inserts in between
is not changed. `ClaimDue` passes over rows that another transaction may have locked
(`skip_locked`): some of those, any of them, none. `Interrupt` is an exception or a
cancellation within the tick (the `finally` block still releases the lease), `TickRaises`
one outside of it, when `acquire_lease` or `release_lease` itself raises, `Crash` the end of
the process, with or without a configured worker id, `FinishFails` a lost
`finish_run`. The four operator actions are the transactions of
`AccountService`; removal has two.

### GameClient: calls of several accounts

`version` is the one `GameClientVersion`; `call[c]` the locals of a call (attempt,
round, the header it has built); `wire[c]` its request or the game's reply;
`effects[c]` a ghost, how often the game did the work of this call. The header is
built before the rate limiter lets the call through, and replies are read at
any later time, so the version may change in between both ways. The game
checks the version first, requires a newer one now and then (`Release`), refuses,
answers unreadably, fails with 5xx before or after its work, or loses the answer.
Business refusals (409, 429, `ok: false`, full inventory, 401) are one kind,
"refused": the properties need only that nothing was done.

### Accounts: rows, identities and secrets

`row[a]` is the committed `game_accounts` row, `txn[a]` the open transaction on it:
its working copy and, inside a `locked()` block, the game account the block acts
for. Every operation locks the row (`FOR UPDATE`), so what it reads of its own row
cannot change under it and all its calls of the game are one step; other rows,
enrollments and the game go on until `Commit` or `Rollback`. A password is
modelled by its user name, `owner` says whom the game logs in with it, and a
session token by the game account it belongs to.

| Action | Code |
|---|---|
| `EnterBlock`, `EnsureSession` | `_locked`; `ensure_session` and `snapshot`: what `_ensure_locked` may find, bind, renew, count or pause |
| `UpdateCredentials`, `UpdateTokenOnly` | the stored identity first (historical rows), then the proposed secret, then the replacement |
| `SetLifecycle`, `Pause`, `Resume` | `enable`, `disable`, `pause`, `resume` |
| `BeginRemoval`, `CompleteRemoval`, `LoseRemoval` | the two transactions of `disable_drain_remove`, and its end between them |
| `Verify`, `CheckEnrollment`, `Insert`, `DropEnrollment` | `add_credentials`, `add_token_only`: the game, the identity lock with its two reads, the insert |
| `Rename` | the game gives a user name to another account |

`Flushes` is the unique key on `game_account_id`: a flush waits for a transaction
that has flushed the same identity. Because waiting and being refused come to
the same as finding the other row, find and flush are one step. Whether a token
is due, accepted, or an hour has passed since the first failure is a choice at
every use; labels, snapshots and audit rows are left out, jobs are Scheduler's.

### Mutations: one account's plans

`AccountService.mutate` with a plan. `plans` and `policy` are committed rows, `lock` is
the account lock, `call[c]` the locals of a call. All of a call is one transaction,
so its verdict reaches `plans` in `Close` only, and not at all when the process died or
the connection was dropped (`Die`, `DropLock`). `world` is the account's state in the
game: every effect changes it, and with it the fingerprint. `late[p]` counts
requests that their callers gave up and that may still arrive. `effects[p]` is a
ghost. `mutate` has no caller in the repository yet; the model takes it as its
tests call it. `PlanStore.mark_executing` is not called by anybody and left out.

### AdminAuth: the administrator's password and sessions

`credential` is the one `admin_credentials` row, a password hash being the number of
passwords there have been; `sessions[t]` is the row of a token, its two expiry times
kept as the time that is left; `call[c]` the locals of a request. Every store call
is a transaction and an action, so a password that was verified and a `now` that was
read are used one or two actions later, with other requests, the clock (`Tick`) and
`Abandon` (the request is cancelled or the process ends) in between.

| Action | Code |
|---|---|
| `Begin` | a request to log in, to use or end a session, or to change the password; `setup` |
| `Proceed` | the next store call of the request: `get_password_hash` and the verification, `create_session`, `find_session` with its refresh, `delete_session`, `update_password_hash`, `delete_all_sessions` |

Ghosts say for which password a session was given, whether a change came before it,
and when it was last used. CSRF tokens, cookies and rate limits are left out.

### PolicyEngine and BossOptimizer: what to do next

`section` is the part of the game that a behaviour is about, `game` what it would
answer now, `settings` and `version` the policy, `plan` the plan that was made and is
followed until it expires. Four builders await one view and decide on it in one
action (`BuildIdle`, `BuildWorld`, `BuildProfession`, `BuildReward`). The two boss
builders await one view and, between it and the plan, up to 24 previews for each entry
and difficulty: `StartSearch`, BossOptimizer's `Search` (one action per preview) and
`FinishSearch`; `RefuseBoss` and `SkipSearch` end without a search, `SearchFails` is a
preview that raises. `boss` is the view as it was read; `GameMoves` changes the game
at any time, `SavePolicy` the policy when no builder holds the account lock.

A plan carries the projection of its view instead of the hash of it; that of a boss
plan holds its selection too, the action with the preview that spoke for it. The
projection sorts arrays by key, so such an array is a set; keys, recipes and bosses are
numbers in the order in which the code sorts them, configurations are numbered by
their tie key and affixes by descending multiplier. The choice of the twelve
configurations, an affix and a slot is kept; names, texts and reasons of decisions
are not. A decision of the engine that selects nothing is the action `None`.
Nothing in `src/src/` constructs the engine; its tests do. Nothing in it recomputes a
fingerprint either, but for `idle_resolver`: `Alike` compares a view with a plan by the
rule of the plan's own builder, and `ResolvedProjection` is what the resolver does
instead. `Demands` is what the builders ask before they select an action, no more
and no less; where a document asks for more, it is listed below.

MC modules give names to the model values and small sets; nothing else.

## What is checked

`tlc -config X.cfg M` for every run of `PROJECT.json`.

| Run | Shows | Bounds |
|---|---|---|
| `idle_safety` | `AtMostOneSend`, `ExecutedMeansCollected`, `SendWhileCurrent`, `KeepsContract`, `ClaimResolves` under `FairSpec`, `TypeOK` | 2 executors, 1 plan, thresholds 1 and 3, 2 policy versions, constant capacity, 1 cancelled call, 1 dropped connection |
| `sched_live` | `SlotsApart`, `OneJobPerAccount`, `ScheduleAdvances`, `TakenOverLate`, `UndisturbedPreviewOnce`, `EveryAccountServed` and `RemovedStaysQuiet` under `FairSpec`, `TypeOK` | 1 account, 2 workers, ticks as long as the lease, 1 fault, 2 commands |
| `client_calls` | `MutationOnce`, `OutcomeHonest`, `RetriedUnlessOvertaken`, `VersionSettles` under `FairSpec`, `TypeOK` | 2 calls at once, 3 versions, 3 losses |
| `accounts_safety` | `OneRowPerIdentity`, `OneActor`, `ExclusionDrains`, `CheckedStaysFree`, `RemovalIrrevocable`, `SecretsVerified`, `NoSecondHolder`, `TypeOK` | 2 rows, absent or historical, 2 game accounts, 1 user name that moves once, 2 enrollments, pause after 2 failures |
| `mutate_calls` | `OnceUnlessLost`, `VerdictHonest`, `ReplayFenced`, `SendWhileCurrent`, `CallEnds` under `FairSpec`, `TypeOK` | 2 calls, 1 plan, 2 policy versions, 1 move of the player, 2 lost transactions |
| `admin_sessions` | `ChangeEndsSessions`, `IdleWithinLag`, `OutdatedEnds` under `FairSpec`, `TypeOK` | 2 requests, 2 tokens, 3 passwords, sessions of 3 and 4 ticks, store calls of 1 tick, 1 request that dies |
| `engine_plans` | `NothingOverlooked`, `ProjectionSuffices`, `TypeOK` | per section 6 to 50 views of the game, 2 policies, 6 minutes, 3 configurations of which 2 are shortlisted, 3 previews with an affix |

Why the bounds are enough: two executors and one lease give every race for one
plan, a third would repeat one of the two. Plans meet in the reward and in the
locks of their account; that is left to the proofs, which are for any number of
plans, while TLC has one. Idle time beyond the largest threshold and below the
smallest only counts as such; a lease of one tick can be outlived, held and just
expired. One lost call or connection orphans a claim, a
second one makes its recovery fail too. Two workers give every overlap of an old
and a new holder of the lease. The semaphore and `claim_due` see several jobs when
overlapping ticks have inserted two; jobs of different accounts meet nowhere else.
Three versions let the shared version fall back to one that is neither the oldest
nor the newest, and three losses exhaust a read's attempts. Two rows and two
game accounts give every conflict over an identity, a third row would meet one of
the two; two enrollments give the races before and under the identity lock. A
pause after two failures instead of three keeps the three cases below, at and
above the limit. One plan suffices for Mutations because another plan of the
account only changes the world, as the player does; two lost transactions let a
replay be lost too. Two requests give every race between a login, a use and a change
of the password, three passwords a session that is two changes old. The views of
`engine_plans` are chosen so that each section has every branch of its builder on
both sides: a threshold above and below the capacity, queues that are short, long
and full, entries that are blocked or out of attempts, no slot, a potion to switch, recipes
whose inputs are there and not there, in each of the four priorities, a reward of every kind that is not safe, minutes at both ends of a window. Three
configurations of which two are shortlisted have one that is cut off.

The bounds by name: `MaxFaults`, `MaxDrops`, `MaxVersion`, `MaxIdle`, `MaxLag`,
`MaxAdmin`, `MaxLosses`, `MaxRenames`, `MaxRemovals`, `MaxMoves`; and `LeaseTicks`, `PlanTicks`, `Lease`, `Interval`, which are the
code's durations in model ticks. `MaxLag < Interval` (a tick ends before the next
one is due) is an assumption about the deployment: 4 previews at a time against
300 s. It matters: in a tick longer than an interval, with two jobs for one
account, a job's next slot may be one that the other has completed, and the job is
then never claimed again. The model excludes this; the hazard list names it, with
the three processes above.

### Fairness

- IdleExecution: a call in progress goes on (an asyncio task is resumed when its
  await is done); the account lock is handed on fairly (PostgreSQL queues its
  waiters, hence `SF` of `EnterAccount`); time passes; callers go on calling, and
  one that asks for recovery finds the guard free some day (`SF` of
  `ClaimExpired`). Nothing forces a preview, a fresh claim, a fault or the player.
- Scheduler: every process goes on with its loop and time passes. Crashes,
  interrupts and lost writes are bounded, never forced; operators act or not.
- GameClient: accounts keep calling and the game answers a request in some way;
  losses and releases are bounded and never forced.
- Mutations: a call in progress goes on.
- AdminAuth: a request in progress goes on, and time passes.
- Accounts, BossOptimizer and PolicyEngine have safety properties only.

### Where the code and its documents differ

Five runs end in a counterexample; `PROJECT.json` quotes what they contradict.

- `idle_capacity`: a call dies between its claim and its request, and the game reports
  another capacity, which moves the threshold. Recovery reads "wait", takes it for a
  proof of collection and records the plan as executed. A sender whose answer was lost
  judges in the same way.
- `sched_duplicate`: a slot whose preview returned but was not recorded is previewed
  again after the run's lease.
- `client_shared`: of two calls rejected for the same stale version only the first
  is retried; the other fails although the version has been healed.
- `accounts_removed`: a pause whose reason is the word "removed" makes a row that every
  command refuses as removed, with its secrets and jobs in place; a removal asked
  for later answers with a receipt and does nothing.
- `engine_resolver`: the engine makes an idle plan with the projection {capacity,
  eligible}; the resolver that is to check the plan before its execution projects
  {seconds, capacity}. The two fingerprints differ whatever the game answers.

`ExecutedMeansCollected` holds when the capacity is constant; `UndisturbedPreviewOnce` and
`RetriedUnlessOvertaken` say under which condition the other two promises hold.
`TakenOverLate` and `OneJobPerAccount` hold for ticks that end within their lease and
need that: the lease is not renewed during a tick and `claim_due` does not look at it. `ClaimResolves` needs callers that ask for recovery, and the one caller of
`execute()` in the repository, the test-mode tool of `mcp/adapter.py`, does not.
`OnceUnlessLost` allows one more effect per lost transaction, and
`VerdictHonest` says nothing of "failed" after one: a replay whose first request had its
effect finds another state and is recorded as failed. `NoSecondHolder` needs user
names that stay with their accounts: a historical row whose name has moved is bound
by the name and keeps a token of the former account. A historical row that
duplicates another stays without an identity for good, removed or not, and from
then on every enrollment is refused. The design of the core (its line 193) wants
three consecutive failures for a pause; the code counts failures of an hour
that no login separates, and a resume does not reset the count.
The plan of the core (`src/docs/superpowers/plans/2026-08-17-placegame-mcp-core.md`, line
859) bounds a search by 24 previews; the code takes 24 for each entry and
difficulty. It plans a profession for twelve hours "when materials permit" (line 861; task 5 design,
lines 220-223, "required inputs"); the code looks at a recipe's inputs in the last of its
four priorities only, so that a milestone, food or a potion below its target is
enqueued without them, and in no priority does it bound the count by what there is.
`Queueable` says so, and the views of `engine_plans` have such recipes. Nor does the plan
say what the game would predict now: a boss plan's fingerprint holds the preview it
was made with, and no code compares it with another. A world-boss plan can be
executed for up to five minutes after its window has closed, because the clock is
part of no fingerprint.

A change of the password is to end every session: `admin/auth.py:236` has "Every session
is dropped so a stolen cookie cannot outlive the change", and `src/README.md:59` that all
sessions which are logged in become invalid at once. A request that dies between the
two transactions of `change_password` has changed the password and leaves all of them;
a login that had verified the former password creates its session after the drop.
`ChangeEndsSessions` excuses these two, and shows that there is no third; what they
leave ends with its absolute lifetime (`OutdatedEnds`). `find_session` may also set
`last_seen_at` back, by as much as its call waited (`IdleWithinLag`).

The design document of idle execution asks for two more things that the code does
otherwise: the policy version is compared under the account lock and not in the
claim's transaction, and the verdict has a transaction of its own.

## What is proved

`IdleExecution_proofs.tla`, for any sets of executors, previewers, plans,
thresholds and capacities and any bounds, from the three assumptions of
IdleExecution (bounds are numbers, `None` and `NoCeiling` are different from the
values they stand beside):

- `TypeCorrect`: `Spec => []TypeOK`.
- `SendOnce`: `Spec => []AtMostOneSend`. `AtMostOneSend` is not inductive: nothing in it
  says that the call about to send has not sent before. The invariant adds that
  a plan nobody has claimed has no request, that at most one call is on the way to
  a plan's request (any call between claim and request is the one whom the
  first claim of the plan named), and that no request has left before it gets
  there. A plan leaves the fresh states once and never returns, which makes that
  call unique; recovery calls are on another path and never send. Neither the
  guard, the account lock nor the lease is used: the property survives the loss
  of each of them.
- `ExecutedHonest`: if there is one capacity, `Spec => []ExecutedMeansCollected`. The
  invariant carries, for every draft and unsettled plan, that either a
  collection has happened since its preview read the game or the idle time has
  not fallen below the threshold of the version it was made under; so a
  "wait" under that version is proof of a collection, and so is a fall of the idle
  time between two reads. The run `idle_capacity` shows that the assumption is needed.
- `SendCurrent`: `Spec => SendWhileCurrent`. `GuardInv`: while no connection has dropped,
  every call is inside the execution guard alone, every call in the account holds
  its lock, its loaded policy is the current one, and what `CheckPlan` found is
  still true before the request. Saving a policy needs the lock, and a claim of
  somebody else needs the guard.

`IdleContract_proofs.tla`, on top of it:

- `ContractKept`: if there is one capacity, IdleExecution implements
  `IdlePlanContract` for any number of calls and plans (`MappedInit`, `MappedNext`). A
  step that settles a plan as executed maps to the contract's because of the
  invariant of `ExecutedHonest`, one that sends because of that of `SendOnce`. For a
  plan that fails a third one is needed, `FailInv`: a call that has found its
  precondition gone belongs to a claimed plan for which no request has left, and
  the plan of a call that is about to send has not failed.

`AdminAuth_proofs.tla`, for any sets of callers and tokens and any lifetimes:

- `TypeCorrect`: `Spec => []TypeOK`; with `HashRead`, that a request never holds a hash
  which was not stored yet.
- `ChangeEnds` and `IdleLag`: `Spec => []ChangeEndsSessions` and `Spec => []IdleWithinLag`.
  With `TypeOK` and `HashRead` both are inductive.

`PolicyEngine_proofs.tla`, for any views, policies and minutes, any answers to previews
and any number of configurations. Assumed are the schemas of the game's answers, that a
view has finitely many affixes, and that `None` is none of the values it stands
beside:

- `Suffices`: `Spec => []ProjectionSuffices`. `PlanInv` strengthens it from the game as it
  is now to every view that is `Alike`, and from a plan of the current version that the
  game looks like to each plan of that version; both survive what the game and the
  operator do. One lemma per family (`IdleAlike`, `WorldAlike`, `ProfessionAlike`,
  `RewardAlike`, `BossAlike`) says that what is asked for when an action is selected on a
  view is so in each view with the same projection.
  `SearchInv` carries through the previews what the boss builder has checked before:
  attempts, potion, and that the pair belongs to the view. `CountFits` bounds the
  number of queued actions.
- `NoneOverlooked`: `Spec => []NothingOverlooked`. The order of the answers is a strict
  total one (`AheadOrders`), and in a finite set with such an order every place is taken
  (`EveryPlaceTaken`: places are different numbers below the number of elements).
  So the first of the shortlist is the best of all answers, and it is eligible if
  any is (`BestIsFirst`, `BaselineChosen`). `ChoiceInv` follows that to the end of
  the search.
- `TypeCorrect`: `Spec => []TypeOK`, from the same: the tries end before the shortlist and
  the affixes do (`TriesExist`), so that a challenge is made with a configuration and an
  affix that exist; and one `...Typed` lemma per family for the other actions.

`Scheduler_proofs.tla`, for any processes and accounts, any lease and interval and
any number of faults and commands, from the assumptions of Scheduler (numbers, a
tick shorter than an interval, `None` is no row):

- `TypeCorrect`: `Spec => []TypeOK`.
- `OneJob`: `Spec => []OneJobPerAccount`.
  `LeaseInv` ties the row to the clock of the tick: an elected worker whose tick is shorter
  than the lease owns it for exactly what is left of it, so nobody else is
  elected, and two workers that are both about to insert have outlived a lease.
  `MissingInv` keeps what `EnsureRead` has seen true until `EnsureWrite`, and `OneInv`
  follows.
- `TakenOver`: `Spec => TakenOverLate`. `HoldInv`: while a tick is shorter than a lease, a
  claim of it that still counts holds the lease of an open run, and that lease ends
  with the tick's own, so the job is due for nobody (`HeldRun`).
- `PreviewedOnce`: `Spec => UndisturbedPreviewOnce`. `RunInv`: while no tick has been outlived
  or cut short, a run that is open or previewed is claimed by somebody, and a
  claim is good for one preview.
- `Apart`: for two processes of which at most one is cut short, once (`faults <= 1`),
  `Spec => []SlotsApart`, outlived leases included. A second process is elected when the
  lease of the first has run out, so its tick began later (`PairInv`, with
  `OwnerInv`), so what one inserts after the other has looked is for another slot than
  what the other is going to insert (`NowInv`). A job that a worker has not read while
  it looks belongs to a worker that does not come back to look before the first has
  written, unless more than one tick was cut short (`LateInv`). So due jobs of an account
  differ in their slots, up to the past that the model no longer tells apart, and a
  worker that writes has read both of two such jobs or none (`ApartInv`).
- `Advances`: `Spec => ScheduleAdvances`. `ClaimInv`: a claim that still counts is one of
  a job that was due at the tick's `now`, and completing a run ends all other
  claims of it, so the new slot lies behind the old one.

`GameClient_proofs.tla`, for any callers, versions and losses:

- `TypeCorrect`, `Once`, `Honest`: `Spec => []TypeOK`, `Spec => []MutationOnce`,
  `Spec => []OutcomeHonest`. `CallInv` says for every place of a call what the game can
  have done for it: nothing when the call is at its start, also when it comes back
  there (a mutation is repeated only after an answer that refuses it), nothing while
  the request, a refusal or a 426 is on the wire, once when the answer is "ok".
- `Retried`: `Spec => RetriedUnlessOvertaken`. `NamedInv`: the version that a 426 names is not
  the one its request declared, so a call that finds nothing new in it was overtaken.

`Accounts_proofs.tla`, for any rows, identities, user names and enrollments and any limit
of failures, from two assumptions: bounds are numbers, and `None` is none of the values
it stands beside:

- `TypeCorrect`, `OneRow`, `OneActs`, `Drains`, `StaysFree`: `[]TypeOK`, `[]OneRowPerIdentity`,
  `[]OneActor`, `[]ExclusionDrains` and `[]CheckedStaysFree`. Neither "one row per
  identity" nor "one actor" is inductive. `TxnInv` ties an open transaction to its row: the
  row exists and is unmarked, its identity is the one of the working copy or none yet,
  and a block acts for the identity of a row that is enabled and not paused.
  `EnrollInv` keeps, for an enrollment that has been checked, that every row has an
  identity and that no other is checked for the same one. `CheckedStaysFree` and
  `OneRowPerIdentity` need each other: what is bound is unbound elsewhere, and
  what is inserted was checked.
- `Irrevocable` and `Proved`: `Spec => RemovalIrrevocable`, `Spec => SecretsVerified`.
  `RemovalInv`: a removal under way has marked its row, so no operation finds the row
  usable. `Proved` is about single steps, and rests on `TxnInv`.
- `OneHolder`: `Spec => NoSecondHolder`. `HolderInv`: as long as no user name has moved, each
  stored session is that of the row's identity and of its login.
- `TombstonesUnlessTyped`: if no operator types a mark as the reason of a pause,
  `Spec => []TombstoneEmpty`. The run `accounts_removed` violates `TombstoneEmpty`: the
  theorem says that what it shows is the only way.

`Mutations_proofs.tla`, for any finite number of calls, any plans, policies, moves and
lost transactions:

- `TypeCorrect`, `Fenced`, `Current`: `Spec => []TypeOK`, `Spec => ReplayFenced`,
  `Spec => SendWhileCurrent`. `PlanInv`: what a plan has seen and its effects together never
  exceed the state of the account, so a plan whose fingerprint still fits has
  had no effect. `PolicyInv`: the holder of the lock keeps the version it checked.
- `Honest`: `Spec => []VerdictHonest`. `ExecutedInv` follows an effect to the verdict;
  `HonestInv` says, while no transaction is lost, that who works holds the lock, that
  who has something to settle finds its plan unsettled, and that a request which
  has worked, or may still, is on record or about to be.
- `Once`: `Spec => []OnceUnlessLost`. `OnceInv` bounds for each plan the sum of its
  effects, the requests on the way, the calls that may send, and one for the
  right to send as long as the plan is unsettled and the holder of the lock has
  not used it. A step of a call only moves this load; a lost transaction adds one.

Every invariant and every action property of the passing runs is proved. Model-checked
only is liveness (`ClaimResolves`, `EveryAccountServed`, `RemovedStaysQuiet`,
`VersionSettles`, `CallEnds`, `OutdatedEnds`): liveness under fairness and ENABLED are out
of the prover's reach here. Some theorems have a condition that they need: `Apart` is
for two processes of which at most one is cut short once, `ExecutedHonest` and `ContractKept` are for one capacity; with more
than that the statements are false.

## Not modelled

- Deployer: a script beside the service that drives docker, git and files; the
  service sees it as a crash and a restart, which the models have.
- Connection pool: every transaction gets a connection, and an advisory lock ends
  with its call or its connection. Two hazards (`application/idle.py:125`,
  `db.py:17`) need a model of the pool.
- MCP adapter, web console, the routes other than authentication: they translate
  calls, and keep no state.
- Audit rows, redaction, encryption, parsing of the game's answers, migrations:
  data without a protocol.
- `PlanStore.mark_executing`, which nothing calls.

## Plan

What is left, in this order:

1. `ConnectionPool`: nested acquisition under `locked`, session locks that outlive
   their call.
2. A Scheduler that keeps completed runs, by account and slot, for ticks of an
   interval and longer and for more than two processes with outlived leases.
3. Proofs of what the two new modules add.
4. `Deployer`.
