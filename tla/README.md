# SVaultAI: verification project

TLA+ models of the concurrent and failure-prone parts of SVaultAI, a
zero-knowledge personal vault with a crypto wallet, model-checked with TLC and,
where it matters most, proved with TLAPS. Every definition is translated from
the source and cites its lines in `PROJECT.json`.

## 1. Inventory

The backend is one FastAPI application (`vault_ai_backend/main.py` and
`routes/*.py`) that runs as several worker processes over one PostgreSQL
database. Most handlers are `async` functions that call the database
synchronously, so inside one process they take turns at their `await`s; the
container starts two processes (`Dockerfile`), which interleave freely and share
nothing but the database (and Redis, where it is configured). Nothing sets an isolation
level (`vault_core.py`), so transactions run under READ COMMITTED: each
statement sees what is committed when it starts, `NOW()` is the time the
transaction began, and `FOR UPDATE` or a conflicting `UPDATE` waits for the
other transaction. Those three facts are where most of the interesting
interleavings come from.

| # | Component | State | Operations | Talks to | Hard behaviour |
|---|-----------|-------|------------|----------|----------------|
| 1 | Ethereum-mainnet send (`crypto_mainnet_control_store.py`, draft and broadcast routes of `routes/crypto_wallet_routes.py`) | draft rows with claim lease, consumed hash and outcome; wallet lock rows with lease; pause flag; per-process idempotency cache | register draft, load, claim, release, consume, record, lock, unlock, pause | RPC provider, Ethereum network | leases that run out under a live holder, crash between consume and record, lost and late answers, retries, two statements under READ COMMITTED |
| 2 | Inheritance release and escrow (`routes/inheritance_release_routes.py`, `routes/inheritance_credential_routes.py`, pairing in `main.py`, device part of `routes/auth_zk_routes.py`) | pairing row per link (state, cooldown end, package key), device authorizations | pair, save/replace/delete package, request, cancel, reject, approve, claim, retrieve, authorize device, consume, rotate key | owner client, beneficiary client, device gate | owner races beneficiary; key rotation under a stale package; row locks taken in two orders |
| 3 | Auth sessions and device gate (`auth_local.py`, `device_monitor.py`, `device_gate.py`, `routes/device_routes.py`, `routes/auth_zk_routes.py`, `routes/auth_routes.py`) | session rows, device rows, a per-process cache of the monitor | issue (supersede), load principal, log out, trust one device and revoke the others, approve, revoke, self-approve | every authenticated route | two logins at once; a request that is under way when its session is superseded; best-effort steps that fail |
| 4 | Storage quota (`routes/chunked_upload_routes.py`, uploads and deletions of `main.py`, totals of `billing.py`) | file rows, chunk rows, byte counter of a vault, total of its account | init, put chunk, finalize, abort, sweep, upload in one request, delete, open an account, recount | entitlements | sweep against a slow upload; abort racing finalize; counters drifting from the rows |
| 5 | Solana and Tron sends (`crypto_solana_control_store.py`, `crypto_tron_control_store.py`) | as 1, other chain rules (blockhash or block reference expiry) | as 1 | chain RPC | as 1 |
| 6 | Pending actions and delete confirmation (`vault_secure_item_delete_confirmation.py`, `vault_chat_pending_action.py`, `vault_chat_authorization_record.py`, `vault_chat_state_store.py`) | one pending action per conversation with TTL, in Redis or in process memory | propose, confirm, cancel, expire | chat router, secure items | confirmation on another worker, double confirmation, action changed under the user |
| 7 | Background workers and reconciler (`vault_analysis.py`, `vault_analysis_worker.py`, `vault_embedding_worker.py`, `vault_reconciler.py`, OCR/audio/video/archive/understanding workers) | job status columns, attempts, lease | claim, process, complete, fail, reconcile | files, AI provider | worker dies in a job; reconciler requeues a job that still runs |
| 8 | Billing and entitlements (`billing_entitlements.py`, `google_play_billing.py`, `apple_billing.py`, `routes/provider_billing_routes.py`, `billing.py`) | ledger row per purchase, log of provider events | verify and reconcile purchases, notices, refunds, expiry | stores, `google_play_billing_bridge/` | webhooks lost, duplicated, out of order; one purchase bound to two vaults |
| 9 | Rate limiting (`rate_limit_backend.py`) | sliding windows in Redis or memory | check, record | routes | fallback from Redis to process memory |
| 10 | Vault deletion (`routes/vault_delete_routes.py`, `vault_deletion_service.py`) | tombstones, blobs | request, delete, resume | storage, billing | one step of several failing |
| 11 | ZK v2 migration (`routes/credential_v2_routes.py`, `routes/vault_metadata_migration_routes.py`, `zk_migration_state.py`) | per-vault generation, migrated records | begin, migrate, seal | clients | old client writes while a new one migrates |
| 12 | Answer and tool-result caches (`vault_tool_result_cache.py`, `vault_intelligence_cache.py`, `vault_key_cache.py`) | keyed entries with version and TTL | get, put, invalidate | chat, vault writes | stale entry after a write |
| 13 | Durable personal memory (`durable_personal_memory.py`) | memory rows | remember, forget, supersede | chat | text classification mostly |
| 14 | Chat router and brain (`vault_chat_*.py`, `vault_brain_*.py`, `main.py`) | none beyond 6 and 12 | route a message | AI provider | text, outside a state model |
| 15 | Extraction, search, inventory, expiry reminders | read models | | | pure functions of text |
| 16 | Clients and edges (`vault_ai_frontend/`, `opaque_server_crate/`, `deploy/`) | UI state, cryptography | | | out of scope |

What makes each of the first components correct: (1) at most one broadcast per
draft, every possibly submitted transaction on record, truthful outcomes; (2)
nothing is released before the cooldown or an approval, and nothing after a
cancellation; (3) at most one live session per vault, superseded sessions stay
dead, and the device of the live session gets through the gate; (4) no byte is
counted twice or released twice, what is checked against a limit is not less
than what is stored, and finalized content is whole and frozen; (6) a destructive
action is executed at most once, and only the one that was shown; (7) one worker
at a job, and what is shown as done is done; (8) notices in any order and number
leave the ledger in agreement with the store.

## 2. Plan

Most important behaviour first. "Done" means modelled, checked and proved.

| # | Modules | Abstract specification | Runs | State |
|---|---------|------------------------|------|-------|
| 1 | `MainnetSend`, `MainnetSendProofs`, `MCMainnetSend` | `SendPromise` | `send_*` | done |
| 2 | `InheritanceRelease`, `InheritanceReleaseProofs`, `MCInheritanceRelease` | `ReleasePromise` | `release_*` | done |
| 3 | `DeviceSessions`, `DeviceSessionsProofs`, `MCDeviceSessions` | none: its promises are about single steps | `session*` | done |
| 4 | `StorageQuota`, `SumTheorems`, `StorageQuotaProofs`, `MCStorageQuota` | none: its counters are compared with the rows themselves | `storage` | done |
| 5 | `JobQueue`, `JobQueueProofs`, `MCJobQueue` | none | `jobs`, `jobs_heal` | done |
| 6 | `PlayBilling`, `PlayBillingProofs`, `MCPlayBilling` | what Play says is the reference | `billing*` | done |
| 7 | `PendingAction`: intents in the shared store, confirmations on two workers | one execution per intent that was shown | one | left |
| 8 | `InheritanceTransfer`: the legacy transfer of `main.py`, composed with the links of module 2 | as `ReleasePromise`, without approval | one | left |
| 9 | `ChainSend`: Solana and Tron, whose drafts end with a blockhash or block reference | `SendPromise` | one per chain | left |
| 10 | Apple purchases, and which store owns an account, as a second source of events for module 6 | as module 6 | one | left |

Every safety property of a passing run is a theorem (section 5). The next theorems
come with the modules that are left, whose abstract specifications are to be
refined step by step as `SendPromise` and `ReleasePromise` are.

## 3. The modules

Common conventions. A step is one SQL transaction, or one statement of it where
another transaction can come between and matter. Row locks are guards; waiting
is the absence of the step. A process crash rolls open transactions back and
forgets process memory. Definitions that stand for Postgres, clocks, the network
or the provider are marked external. Deadlocks are broken as Postgres does it:
one of the transactions is aborted. Operators commented "Mutant" are not used by
the specification: each is the slip that one property is there to catch.

### 3.1 `MainnetSend` and `SendPromise`

`draft`, `expires`, `claim`, `claimUntil`, `hash` and `outcome` are the columns
of `crypto_mainnet_drafts`; `lock` is `crypto_mainnet_wallet_locks`; `paused` the
control row; `reg` the running draft request of a vault; `pc`, `req`, `stamp`, `lease`,
`answer` the broadcast handlers; `cache` the idempotency cache of a process.
`limbo` and `accepted` are what the network may hold and has accepted; `sends`
and `told` are history.

A draft request is `DraftAsk -> DraftBegin -> DraftSweep -> DraftCheck ->
DraftRegister`, or ends early in `DraftConflict` or `DraftAbort`: the pause check
and the reading of the nonce, the begin of the transaction (which fixes `NOW()`
before the wait for the advisory lock), and under that lock the sweep, the conflict
`SELECT`, and the insertion with the commit. These are statements of their own under
READ COMMITTED, and the `SELECT` locks no row it reads, so broadcast handlers take
steps between any two of them; the advisory lock keeps out other draft requests of
the same wallet (or, for sealed drafts, address hash) only. Two vaults that hold a
wallet meet in it; one vault has one draft request at a time, which is a bound.

The broadcast route is, in its order: `Broadcast request -> Load -> ClaimWrite ->
AcquireLock -> Consume -> Broadcast -> Poll -> Record -> ReleaseLock`, with
`ClaimRefused`, `LockBusy`, `ReleaseClaim`, `ClaimLost`, `LoadRaises` and
`Raise` as its early ends. The claim compares the lease with `NOW()`, the time
its transaction began (`stamp`), which may be long before the row lock is
granted. The provider may accept, reject, answer late or not at all.

`SendPromise` says what the owner of a wallet may rely on: a draft is spent on
one signed transaction, whose hash is on record before any node can know it, the
network is called once for it, and the outcome is settled once, after the call,
and with evidence. `KeepsPromise` maps `spentOn <- hash`, `calls <- sends`,
`settled <- outcome`, `known <- limbo`.

### 3.2 `InheritanceRelease` and `ReleasePromise`

`link` is a `beneficiary_links` row with the release state and dates, `pkg` its
live `inheritance_credentials` row with the mirrored state, `auth` the device
tokens, `device` the statuses of `trusted_devices` the consume handler depends
on, `key` the current public key of a vault. `pairing`, `offer`, `rotating` and
`consuming` are what handlers and clients hold between their steps. Owner and
beneficiary handlers are one action each, named after their routes; pairing
(`PairRead`, `PairWrite`), the rotation (`RotateBegin`, `RotateApply`) and
consumption (`ConsumeBegin`, `ConsumeFinish`) are two. A rotation acts on the links
and, at the end, on the tokens of its snapshots (`seen`, `SeenTokens`): a token that
is issued meanwhile is not revoked by it.

`ReleasePromise` says what the owner of an estate may rely on: a package is
shown, and a device let in, only after a request that was approved or outlived
the cooldown without being withdrawn; a device only if admitted while that was so.

### 3.3 `DeviceSessions`

One vault; all tables involved are keyed by it. `session` is `auth_sessions`
with `superseded` and `revoked` told apart by `revoked_reason`, `device` and
`delay` are `trusted_devices` (status, `cooldown_until` against the clock),
`cache` is `_monitor_cache` of each process. A handler is a ZK login (issue, then
trust), a PIN login (trust, then issue) or a request with a token: `Load`, the
monitor's trust transaction unless the cache skips it, `GatePass`, then an
endpoint. Issuing is two steps under the lock on the vault row. Trusting is
three: the upsert takes its own row; `TrustSweep` is the snapshot of the second
statement, which is what leaves out rows that others have not committed;
`TrustCommit` gets the rows and commits. A row inserted by the upsert shares the
vault row by its foreign key, so inserting and issuing exclude each other. Two
sweeps that wait for each other lose one (`TrustVictim`); the callers swallow it.

Assumed: a browser sends the `X-Device-Id` it signed in with, and registers under
it (`routes/device_routes.py:114` would take another); a sweep takes its
rows all at once (with three devices or more Postgres could abort a transaction
between two rows; the effect is that of `Raise`).

### 3.4 `StorageQuota`

`total` is `vaults.total_bytes`, `used` is `account_storage_totals`, `account` is
`vaults.account_id`; `file`, `owner` and `stale` are the columns of
`uploaded_files` that matter, `chunk` the rows of `uploaded_file_chunks`. The
start of a chunked upload is one transaction in two steps, `InitUpload` and
`Reserve` or `RefuseUpload`: it sweeps, then holds the row of the vault while the
entitlement is read on another connection, which sees only what is committed.
`PutChunk`, `Finalize`, `Abort` and `SweepAll` are single transactions. An upload
in one request is a check, the insertion, and two counters raised in
transactions of their own (`CheckUpload -> Insert -> Bump -> Credit -> CreditAgain`);
a deletion takes the row away first and lowers the counters after. `Ensure`,
`Join` and `Recount` open an account for a vault and compute its total from its
vaults. Counters are clamped at 0 (`AtLeastZero`), and the upsert that
raises the total of an account clamps the row it proposes as well (`Credited`).
The row of totals is there or not (`used` is then `None`): an account made at
sign-up has none until something is credited to it, and a recount updates a row
that is there. Looking up the account of a vault swallows errors
(`get_account_id_for_vault`), so `InitUpload`, `CheckUpload` and `Credit` may find
none where there is one (`Found`), which skips the quota. The same error in
`Ensure`, which would open a second account, is left out; what it comes to, two
accounts opened for one vault, two requests at once come to as well (`Fresh`).

### 3.5 `JobQueue`

`job` is `vault_analysis_jobs`, where `lease` abstracts the age of `locked_at`
and `late`, a history, says that a worker outlived it; `status` and `text` are
`uploaded_files.analysis_status` and whether text is stored. `Workers` are
threads that drain a stage, handlers that announce a file, and repairs. A drain
claims (`Claim`), loads and marks (`MarkProcessing`), stores the text
(`Persist`), marks the file (`MarkAnalyzed`), completes the job and enqueues
the follow-up stage (`Follow`), each in a transaction of its own; every early
return ends in `GiveUp` or `Stumble` and then `FailRead` and `FailWrite`, which
are two statements of one function. The repairs of `vault_reconciler.py` are
`RepairDrift`, `DeleteOrphans`, `RequeueStuck` and `RetryUnsupported`, and
`FindMissing -> Requeue -> MarkPending` is `enqueue_missing_analysis_jobs`; when the
unique index refuses its row, `Lookup` is the `SELECT` that follows, and when that
finds the row ended the file is not marked. An upload may bring its text along, so
`text` starts with any value.

Left out: `scheduled_at` decides the order of claims, but it is stamped by the
clocks of several processes, so jobs are claimed in any order; the budget of a
drain, since a drain that ends may start again; the second follow-up stage,
content chunking, which is enqueued after the first in the same way
(`vault_analysis_worker.py:255-259`) and touches neither status nor text. A row that has ended and that no
worker holds is reused for the next job, which keeps the ids finite: nothing
reads such a row by its id.

### 3.6 `PlayBilling`

`row` is `billing_entitlements`, `log` the outcomes in `provider_event_log`, by
purchase and time of the event; `play` is what Google Play would answer and
`sent` the notices it has not seen acknowledged (both external, like `clock`,
the time of a purchase). A request is the delivery of a notice
(`Receive -> Bind -> Fetch -> Link -> Judge -> Write -> Record`, a refund goes
from `Bind` to `Revoke`) or a device that presents a token (`Present -> Judge -> Write`, or
`Terminate` when Play has forgotten a token of a bulk request). `row.term` is the
paid period the row was written for, compared with the current one where the code compares
the end of the period with `NOW()`; `row.seen` the provider's time of the last
event applied and `row.read`, a history, the time Play was asked. A device's
stamp is taken after the fetch (`Judge`), a notice's is the event's: that
difference is what `Overtaken` is about.

A purchase has one clock: the server accepts notices up to five minutes ahead of
its own (`routes/provider_billing_routes.py:388`), and compares Google's times with
stamps of its own (`google_play_billing.py:818`); with clocks that differ, an event
may be taken for older or newer than a device's request by that much. Left out: a
refund whose product or plan is not the one of the row
(`billing_entitlements.py:797-800`), which ends as an error; a purchase has one
product here.

## 4. Runs

| Run | Asks | Bounds, and why they are enough |
|-----|------|---------------------------------|
| `send_replay` | one broadcast per draft, replies that agree, a truthful cache, leases respected | one draft, two signatures, two handlers in two processes, one idempotency key, clock to 3 with draft lifetime 3 and leases 1: a claim can run out under its owner, be taken over and be retried with another signature |
| `send_race` | every possibly submitted transaction on record, true outcomes, one sender per wallet, what a new draft can be handed out beside, types | two drafts of one wallet, two handlers, one signature: one handler can release its claim, and the other claim and send, between the statements of a draft request |
| `send_vaults` | a vault spends only its own drafts, `SendPromise` is implemented, every request is answered | two vaults that hold the same wallet, both draft forms, one handler, with fairness |
| `release_partners` | dates, package and mirror agree with the state of the link; a stale package stays marked; `ReleasePromise` | two accounts that race for the pairing code of a third, one link, cooldown 2, clock to 3, two packages, two keys: request, withdrawal, second request and rotation fit in |
| `release_devices` | one live token per link; `ReleasePromise` for devices | two accounts, one link, two tokens, one device, cooldown 1, token lifetime 1, clock to 2 |
| `sessions` | one live session, its end told once, who may take the trust of its device, types | two devices, two tokens, two handlers in two processes, both kinds of login, any statuses left behind, one failure or crash: every pair of handlers meets at every step |
| `session_heals` | the device of a live session gets through again and again | as before, ZK logins, devices left revoked, no failure, with fairness. A failed trust transaction is still there: the victim of a deadlock |
| `storage` | the counter follows the rows and never shows less than is stored, a vault without an account keeps its limit, finalized content is whole and frozen, types | two vaults, one with an account from its sign-up (without a row of totals) and one that may get one, two chunked uploads of two chunks and one file, two handlers, one crash; limits 3 and 4 with sizes 2, 2 and 1, so that one upload fits and two do not fit a vault |
| `jobs` | text behind everything shown as done, one worker per job, successes stay, types | one file, two stages, three rows, two workers, two attempts, one outlived lease, one crash or failed statement: a worker that comes back late meets the one that took over |
| `jobs_heal` | leases of the dead are returned, files without a job are found, late marks are corrected | as `jobs` with two rows and no outlived lease, with fairness |
| `billing` | one tier, bound to its buyer, one delivery at a time, agreement with Play, replaced purchases stay out, types | two purchases of one buyer and an account that presents them wrongly, two requests, clocks to 2, four ticks and faults in all: an upgrade with both its notices and a device in between |
| `billing_lost_doc` | what the cutover guide promises of every event and the code does not do (section 6) | as `billing`, three ticks and faults |

Symmetry is declared where ids are only compared, in the runs without liveness
properties; in `sessions` a handler and its process have one name, so permuting
them keeps `ProcOf`; in `storage` the uploads that are permuted weigh the same, and
in `billing` the purchases have one buyer. `CHECK_DEADLOCK FALSE` stands in all but
the `send_*` runs: clients, uploads and the store drive those systems, and they
may stop once the clock or the supply of ids, tokens, packages and events is used
up. The `send_*` runs are checked for deadlock.

Fairness. `MainnetSend`: strong for each handler, since Postgres queues those
that wait for a row or a lock table entry, and weak for the statements of a
draft request. `DeviceSessions`: strong for each handler, for the same reason,
and weak for the ageing of cache entries, which is by the clock.
`JobQueue`: weak for a thread that has begun something, since
threads run, and for the ageing of leases, which is by the clock; weak for the
repairs that the daemon runs again and again (`vault_analysis_daemon.py`). The
daemon skips a vault whose key is no longer in memory, so the liveness of
`jobs_heal` is that of a vault that stays unlocked. Claiming has no fairness: no
property needs it. `InheritanceRelease`, `StorageQuota` and `PlayBilling` have
none: nothing in them has to happen by itself, and a lost event is a state that
can be reached.

Every property of a passing run has a mutant, an operator defined before the one
it replaces, that makes its run fail. `WrittenOnce` of `MainnetSend` is stated and
proved but has no run of its own: `SendPromise` asks for it.

## 5. Proofs

All theorems are for any constants that meet the named assumptions (positive
leases and lifetimes, `ProcOf` a function, and the like), so also for any number
of handlers, processes, drafts, links, devices, vaults, jobs and purchases.

* `MainnetSendProofs`. `SendInv` (module `MainnetSend`) is inductive. Its core
  is `CallersOwn` and `CallsFollow`: from consume to record a handler owns its
  draft and its hash is on the row, and the call counter follows the state of the
  draft. Neither the number of calls nor `SentIsOnRecord` is inductive without
  that. `StampsPast` is needed because a claim is judged by the time its
  transaction began; `LeasesBacked` for the wallet lock; `IdsFresh` and
  `HandlersServe` for insertion. From it: `TypeOK`, `AtMostOneBroadcast`,
  `SentIsOnRecord`, `OneSenderPerWallet`, `WrittenOnce`, `LeasesRespected`,
  `OwnVaultOnly`, and the refinement `KeepsPromise`. `OnlyFreedSlipThrough` needs
  `ScopeInv`: requests of one scope do not hold its lock together (`ScopesApart`), a
  request sweeps in its own scope (`SweepsFit`), and `CheckedClear`, which no other
  transaction may disturb between the check and the commit: in the scope of a
  checked request there are only drafts that it swept (whose rows it has locked),
  drafts that were free at the check, and rejected ones.
  What is said of the network needs a second invariant, `TruthInv`, which rests on
  the first. A rejection is recorded of a transaction that a node may hold only
  when another draft has sent the same bytes; `OutcomeTruthful` is not inductive,
  because that other draft might be rejected in its turn. `LimboOpen` names the
  draft that cannot be: for every transaction in limbo some draft has called and is
  neither recorded as rejected nor about to be. `ToldFollows` relates what clients
  have heard to the row, and `CallsUnsettled` says that the one call of a draft ends
  before its outcome is written. From it: `OutcomeTruthful`, `RepliesAgree`,
  `CacheTruthful`.
* `InheritanceReleaseProofs`. `ReleaseInv` adds to the checked invariants that
  links are created once (`LinksFresh`), package ids grow (`IdsPast`) and a key is
  left to rotate to (`KeyRoom`). From it: `TypeOK`, `StampsAgree`,
  `EscrowAgrees`, `OneLiveToken`, `StaleStaysMarked`,
  and the refinement `KeepsPromise`. Rotations over several links of one
  beneficiary are covered by these theorems only; the runs have one link.
* `DeviceSessionsProofs`. `OneLiveSession` is not inductive: `IssuerSeesAll` says
  that what a login has revoked under the vault lock is all there is to revoke
  until it inserts, and `TokensFresh` that its token is not in the table yet.
  Types need them too, since a login updates rows it has seen. From it: `TypeOK`,
  `OneLiveSession`, `EndedOnce`. `OnlyLeftoversDisplace` needs `JobsFit`: past its issue,
  a handler has a token that is in the table and belongs to its device. The live
  session is one (`OneLiveSession`), so a handler that takes the trust of its device
  works for it, or for a session that has ended.
* `JobQueueProofs`. `SoleWorker` and `DoneMeansText` are not inductive. `HeldRuns`
  says that a row somebody holds is not pending, and its lease is fresh while it is
  in processing, unless a worker has outlived its lease; `WriterSaw`, that what
  `fail_analysis_job` has read is still so when it writes, with the same
  exception; `MarkHasText`, that a worker about to mark a file has stored its text.
  Steps are split by what they do to a row (`RowMove`) and to a worker
  (`WorkerMove`), so each part of the invariant is shown once per kind of move.
  From it: `TypeOK`, `SoleWorker`, `DoneMeansText`, `DoneStaysDone`.
* `PlayBillingProofs`. `RowInv` adds that neither a row nor a request knows of a
  later paid period than Play (`Terms`), so what is past stays past, and that a request about to write has an
  account that is the buyer's (`Ready`). From it: `TypeOK`, `BoundToBuyer`,
  `OneTier`, `ReplacedStaysOut`. `OneDelivery` rests on a second invariant, about the
  log: an event that is worked on is logged as `processing`, and the stamp of a
  device is the time of no event (`Logged`, which needs `Timely`: no notice comes
  from the future). `TrueUnlessOvertaken` needs a third, `TruthInv`. `RowTrue` is the
  same without the log: a row says what Play said when it was asked, so it is right
  as long as Play has not moved since. `RequestTrue` says so of every step of a
  request on the way. `Heard` says what the log stands for: an event counts as dealt
  with only when the row has its time or has been replaced. The last part is about
  replaced rows, which grant nothing whatever Play says: `PlayOrder` and `Settled`
  say that a purchase takes another's place only when Play has ended that one, and
  `VoidsKnown` that a refund is announced only when made. The proof splits steps by
  what they do to Play's word (`Moved`), since nothing else can make a row untrue
  (`CurrentStays`).
* `SumTheorems`. `SumFunctionOnSet` of the library is a recursive function on the
  subsets of a set. That such a function exists, that its value does not depend on
  the set it is defined on, and how a sum changes with an element (`SumAdd`,
  `SumRemove`), with a function (`SumSame`) and with a part (`SumSplit`) is shown
  without an induction theorem, by a smallest set for which it fails. They are lemmas for the totals of `StorageQuota`
  and say nothing of the system by themselves.
* `StorageQuotaProofs`. `FinalIsFinal` and `CompleteIsWhole` follow from the rows of
  files and chunks alone. `UnbilledStaysUnder` needs `LimitInv`: what an open
  reservation has read of a vault without an account is still so, since it holds
  the row. `TypeOK` and `CounterFollows` need `QuotaInv`: a handler that has yet to
  insert has a fresh id of its own (`IdsFresh`), a start that has swept rows still
  owns them and its vault (`ReservationsHold`), and only clients that send a file at
  once insert one complete (`FilesFit`). Files, vaults and handlers are finite
  (`FiniteAssumption`), without which a total has no meaning.

Each strengthening is checked by TLC on the instances of section 4 before it is
relied on, as an invariant of the run: `TruthInv` of `MainnetSend` in 396,296
states of `send_race` and 137,776 of `send_replay`, `ScopeInv` in 353,966 of
`send_vaults`, `QuotaInv` in 1,092,147 of `storage`, `TruthInv` of `PlayBilling` in
1,810,309 of `billing` and 177,532 of `billing_lost_doc`. The runs themselves check what follows from them.

Only model-checked: the liveness properties `RequestsEnd`, `LiveDeviceHeals`,
`LeaseReturned` and `WaitingEnds`, which are beyond this prover (fairness and
`ENABLED`). `EveryEventReconciled` is false, and section 6 says why.

## 6. Where the code and its text disagree

With a run that shows it:

* `billing_lost_doc`, `EveryEventReconciled`: `docs/BILLING_PROVIDER_CUTOVER.md:163-164`
  says "Every lifecycle event is then reconciled against the Android Publisher
  API." An event is claimed in a transaction of its own (`billing_entitlements.py:261`);
  when the process dies before it is finished, its redelivery finds it
  `processing`, is answered `duplicate` and thereby acknowledged, and nothing
  looks for such rows later. A second delivery that overlaps the first
  acknowledges an event that may still fail. Until the next event of that purchase
  or the next request of its device, the ledger keeps the older state.

Seen while modelling, without a run of their own. Sends and sessions:

* `crypto_mainnet_control_store.py:191-245` (and 327-389 for sealed drafts) looks for
  conflicting drafts and inserts the new one in two statements, without a lock on the
  rows it has looked at. A draft whose claim runs at the sweep and is released before the
  conflict `SELECT` (its wallet was busy) is neither expired nor a conflict; another
  handler may claim it, consume it and send it before the insertion commits. Then a
  draft is handed out beside one that is busy, whose broadcast may be unresolved, and
  the two are active at once, though the comments at
  `routes/crypto_wallet_routes.py:284-288` and `crypto_mainnet_control_store.py:170-174`
  speak of one active draft per wallet, enforced atomically. `OnlyFreedSlipThrough` says
  that this is the only way; `AtMostOneBroadcast` and `OneSenderPerWallet` still hold.
  Sealed drafts of two vaults that hold one wallet do not conflict at all.
* `crypto_mainnet_control_store.py:466`: a sealed draft that is active is
  answered with an error by the loader whose docstring (`:408`) promises it.
* `device_monitor.py:123`: two logins on two new devices at once leave both
  trusted, though the comment at `:80-89` says no reader can see two.
* `crypto_mainnet_control_store.py:170-174` says registration refuses while an
  active draft exists; the sweep at `:188` replaces it.
* Its header (`:9-18`) says consumption needs a live claim; the statement at
  `:641` compares the token and `consumed_at`, not the lease. The token is what
  makes `AtMostOneBroadcast` hold.

Inheritance:

* `main.py:10391`: the status of a pairing code is read without a lock, so two
  accounts that present one code at once are both told "linked", and the later
  one stays.
* `routes/inheritance_credential_routes.py:511`: a package wrapped for the old
  key is stored after a rotation (`routes/auth_zk_routes.py:1007`), which marks
  only the packages it finds; nothing marks it later.
* `routes/inheritance_release_routes.py:929`: a token may be consumed after its
  owner withdrew, deleted or replaced the package, when the row was not
  superseded by the states that revoke it.
* Migration 0029 calls the state on the package a mirror; a rotation changes the
  link alone (`routes/auth_zk_routes.py:1007`). `MirrorLagsRotationOnly` is the
  exact statement.
* `routes/inheritance_credential_routes.py:596`: a rotation after a deletion
  leaves a link on which both save and replace are refused.

Devices:

* `routes/auth_zk_routes.py:848-853` says a device trusted before a login gets
  `device_revoked` on its next protected request, and
  `routes/device_routes.py:485` that revoked devices cannot be re-approved; a
  request that passed the session check before the login trusts its device
  again, and revokes the new one, until the next trust transaction of the live
  session.
* A PIN login (`routes/auth_routes.py:151`) trusts its device and leaves the
  others alone, unlike every other login.

Storage:

* `billing.py:559`: the upsert that changes the total of an account clamps the
  row it proposes at 0, so a debit changes nothing: totals rise until a billing
  request recomputes them, and an upload in one request is counted twice
  (`bump_vault_total_bytes`, and again at `main.py:8727`). `DEPLOYMENT_RUNBOOK.md:230` and
  `test_storage_quota_consistency_2026_06_29.py:128-130` ask that a deletion
  lowers the quota; that is so for a vault without an account.
* Chunked uploads never raise the total of an account, so several of them pass a
  limit one by one. With recomputation on billing requests only, no bound on
  an account holds in between, and none is stated.
* `billing.py:249`: two requests may open an account for one vault at once; the
  later one replaces the other.

Jobs:

* `vault_analysis_worker.py:45`: a drain claims rows of any stage and puts back
  those that are not its own, which costs an attempt each time; a job can fail
  before any worker of its stage has seen it.
  `test_vault_relationship_worker.py` (`test_wrong_stage_row_released_back_to_queue`)
  expects such rows back in the queue, and `main.py:13837-13838` speaks of jobs that have
  had one attempt at processing.
* When the text cannot be stored until the attempts are used up, the job is
  `failed` and the file stays `processing`, which no repair looks at.
* Deleting the pending rows of an analyzed file (`vault_reconciler.py:103`) also
  deletes those of its follow-up stage; nothing enqueues them again.
* A job that is requeued after a crash may be claimed once more than
  `max_attempts`: the limit is only looked at when it fails.

Billing:

* `google_play_billing.py:818`: a device's request is stamped after Play was
  asked, so a refund in between is older than the stamp and its notice is
  ignored as stale. `TrueUnlessOvertaken` states what holds apart from that.

Pending actions, which are read but not modelled:

* `vault_chat_authorization_record.py:7-11` says a duplicate request or a
  concurrent worker observes `NoSuchAuth` and does not execute a second time;
  `vault_chat_integration_v2.py:648-700` mints a fresh authorization and consumes
  it inside one request, so duplicates do not meet.
* `vault_secure_item_delete_confirmation.py:44` says `consume` deletes and
  returns atomically; it reads and then deletes in two calls (`:241`).
* `vault_chat_pending_action.py:24` says the newest of several actions wins;
  they are sorted by priority first (`:420`). Every call that fails in Redis is
  served from process memory, so two workers may see different actions.

What a property above leaves open:

* `SendPromise` is checked with one handler in `send_vaults`; that it holds with several
  is the theorem `SendRefines`, and `AtMostOneBroadcast` is checked with two.
* `StampsAgree` and `ReleasePromise` (`KeepsPromise`) are about links as they stand, so
  they do not see that two accounts were told "linked" (`main.py:10391`); `StaleStaysMarked`
  is about packages that were marked, not about those a rotation missed.
* `ReleasePromise` lets a device be admitted at issue, not at consumption: `Trust` after
  the release is void is allowed, as in the code.
* In `InheritanceRelease` and `DeviceSessions` a deadlock is a step that is aborted;
  `OneLiveToken` says what survives it, not that it does not happen.
* `DoneStaysDone` excuses workers that overlapped after a lease ran out: a success may
  then be overwritten by the late failure of the other (`vault_analysis.py:721`).
* `OneDelivery` says nothing of events that are lost after a crash;
  `EveryEventReconciled` does, and is false.
* `TrueUnlessOvertaken` excuses a row whose last fetch was overtaken, as above. It
  also does not speak of an event that was acknowledged as unbound, and such an event may
  concern a purchase that a device is just verifying, with a view fetched before it: the
  row that is then written stays until the next event or request, or its period's end.

## 7. Not modelled

Listed with reasons in `PROJECT.json`. Inside the modelled components: OPAQUE
and PIN verification, wrapped keys and ciphertexts (opaque values), rate limits,
notifications and audit events (nothing reads them back), the receipt reconciler
of the send routes, `pairing_state` NULL rows from before migration 0029, the
preserve branch of the rotation, requests without a device id, the
development-only device endpoints and automatic trust, and the bulk revocation
at vault deletion. Consumption of an inheritance token trusts a device that is
`pending`, a status nothing in the current code creates; it is modelled because
rows of earlier releases have it.

In `StorageQuota`: import batches, duplicates found by hash, secure items (they
make the same counter calls as a file) and the tokens of chunks. In `JobQueue`:
archives, audio and embeddings with their repairs, and image records; they use the
same claim, completion and failure. In `PlayBilling`: Apple, the
acknowledgement deadline of a purchase, deferred downgrades, the store that owns
an account, and the periods of grace Play grants, which are part of "active".

Of the large components that are not modelled, the chat router, the extraction
and search code, the memory and the clients are functions of text, or keep no
state of their own; a state machine of them would be made up. Pending actions, the legacy
transfer, the other chains and Apple are within reach, and left for later.
