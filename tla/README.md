# AEGIS platform server: specifications, model checking and proofs

TLA+ specifications of the AEGIS platform (a FastAPI back end, MT5 worker
processes, a Redis, a SQL database, an Android client), the TLC runs that check
them on small instances, and TLAPS proofs for every value of the constants.
Paths below are relative to `src/`; `app/` is `backend/app/`,
`mobile/` is `mobile_app/app/src/main/java/com/aegis/mobile/`.

    tlc -workers 2 -config JobQueue_safety.cfg MCJobQueue     # one run
    tlapm JobQueueProofs.tla                                  # one proof module

## 1. The system and its parts

One API process (or several behind a load balancer) runs an asyncio event loop:
a handler runs alone until it awaits a database or Redis command, then any other
handler, background task or process may run. There is no transaction across
Redis and the database, and few across two statements of the database.

| Component | Code | State | Operations | Made correct by |
|---|---|---|---|---|
| Job queue | `app/services/job_queue_service.py`, `app/api/trading_router.py` | Redis lists `queue:account:{id}`, `result:{job}` and their expiry | submit, await (BLPOP with timeout), pop (BRPOP), push result (LPUSH, EXPIRE) | an MT5 operation runs at most once per request; an answer belongs to its request (a success is its own, but from three routes that test none); no requester sleeps on its result; order kept |
| Worker pool | `app/services/worker_pool_manager.py` | `_workers` handles and a lock per API process; `worker_registry` in Redis | `ensure_worker`, `stop_worker`, `stop_all`, `is_running` | while one API process lives: one worker per account, never more than the limit, none unseen unless a command failed, stops effective, the lock comes free |
| Worker process | `app/worker/mt5_worker.py` | an OS process, its MT5 session, `worker_creds:{id}` | fetch credentials, connect, job loop, idle out, STOP | logs in with the credentials of its own spawn or not at all; exits when told |
| Subscriptions | `app/services/subscription_service.py`, `app/api/subscription_router.py`, `app/core/startup.py` | tables `subscriptions`, `processed_payment_events` | `apply_event`, `is_active`, sweep, cancel, demo signup, entry check of `/connect` | an event changes a row once; an activation issues a key unless the call fails just there; the portal token is kept; a canceled account has no worker unless a `/connect` overtook or a call failed. Not: that statuses follow their life cycle (section 3) |
| Payment adapters | `app/services/payment_providers/` | none | parse a webhook, start a checkout, cancel | a payment is credited to the account of its checkout or to nobody; a reported cancellation took place |
| Credential reveal | `app/services/credential_reveal_service.py` | Redis keys `reveal_token:{t}`, `pending_credentials:{a}` with expiry | create token, stash, reveal (GET, DEL, restore) | a claim begun after the answer of another gets nothing; credentials go to their own account; asking too early loses nothing |
| API keys, admin bootstrap | `app/security.py`, `app/api/admin_router.py`, `app/api/portal_router.py`, `app/core/startup.py` | `ApiKeyRecord` | issue, revoke, rotate, force-rotate, verify; the admin key of a start | a revoked key opens nothing; a rotation leaves a replacement; a start never locks the admin out |
| Sessions | `app/services/auth_service.py`, `app/api/auth_router.py` | users, sessions, email/reset tokens, OTPs | register, verify, login, logout, reset | a token is used once and no session survives a password reset, unless calls overlap |
| Device binding and downloads | `app/services/device_binding_service.py`, `app/api/device_router.py`, `app/api/download_router.py` | bound devices, download tokens | register, clear, issue, consume | at most the plan's number of devices, a download token used at most its number of times, unless calls overlap |
| Trade limits | `app/services/trade_limit_service.py`, `app/services/plan_catalog.py` | a counter per account and day | consume, set-plan | never more orders than the plan allows, unless calls overlap |
| Indicator history, rules | `app/services/indicator_history_service.py`, `app/services/signal_rule_engine.py`, `app/services/brain_cv_service.py` | a Redis list of frames per account and symbol | append, trim, read, evaluate | the newest frames are kept in order; the order of the rules never decides the side; BUY and SELL are mirror images |
| Rate limiter | `app/core/account_rate_limit.py` | timestamps per account | hit | a window holds at most the limit |
| Credential vault | `app/services/credential_vault_service.py` | encrypted broker passwords | save, get, rotate, delete | what is read is what was saved last |
| Mobile capture | `mobile/capture/` | one temporary file, a cache of unsent screenshots | capture, send, cache, drain | a screenshot is stored on the server, under way or cached, unless a full cache, a failed write or the end of the service loses it. Not: that it is stored under its own time (section 3) |
| Admin, portal, monitoring | `app/api/admin_router.py`, `app/api/portal_router.py`, `app/core/metrics.py`, `app/services/alert_service.py` | counters | read and report | reporting only |
| Image processing | `app/services/preprocessing_*.py`, `app/services/chart_detection_service.py`, `app/api/upload_router.py`, `app/utils/` | the directory of uploads | store, load, preprocess, detect | the response tells what was done to the image; a region lies within it |

How they meet: a payment webhook activates a subscription, which issues an API
key and stashes it for one reveal; the key authenticates the trading endpoints;
`/connect` spawns a worker; the trading endpoints put jobs into the worker's
queue and wait; a cancellation, a failed payment found by the sweep, or a
shutdown stops the worker. The mobile client sends screenshots, the brain keeps
their indicators and evaluates rules on them.

What is hard: any await is a point where another handler runs; workers and API
processes die between two Redis commands; Redis keys expire under the reader;
webhooks are repeated and reordered; requesters time out while their job runs.
`PROJECT.json` lists the hazards at their lines.

## 2. Modules

| Module | What it is |
|---|---|
| `JobLifecycle` | abstract: what `submit_and_wait` promises its caller, with no queue and no worker |
| `JobQueue` | the Redis queue, the request handlers and the job loop of the workers; implements `JobLifecycle` |
| `WorkerFleet` | the pools of all API instances and the life of every worker process, composed with `JobQueue` |
| `MCJobQueue`, `MCWorkerFleet` | instances for TLC |
| `JobQueueProofs` | the safety properties of `JobQueue` and `Spec => ImplementsLifecycle`, proved |
| `WorkerFleetProofs` | the safety properties of the fleet and `FleetSpec => Spec` of the queue, proved |
| `CredentialReveal` | the one-time claim of a subscriber's credentials, one Redis command at a time |
| `Billing` | subscriptions, webhooks, signup, cancellation, sweep, composed with `CredentialReveal` |
| `PaymentAdapters` | pure: what the three providers' adapters make of a notification, a checkout, a cancellation |
| `MCBilling` | instance for TLC; its events are what `PaymentAdapters` parses |
| `BillingProofs` | every safety property of `CredentialReveal` and `Billing`, proved; `Spec => RevealSpec`; the promises of `PaymentAdapters` |
| `AuthSessions`, `MCAuthSessions` | accounts, sessions, one-time tokens and the second factor, one step per load and per commit |
| `AuthSessionsProofs` | every property of `AuthSessions`, proved |
| `ApiKeys`, `MCApiKeys` | API keys and the admin key a starting process makes sure of |
| `ApiKeysProofs` | every property of `ApiKeys`, proved |
| `Quotas`, `MCQuotas` | bound phones, download tokens and daily orders against the limits of a plan |
| `QuotasProofs` | every property of `Quotas`, proved |
| `SignalRules` | pure: the rulebook and the divergence it asks for |
| `SignalRulesProofs` | what the rulebook promises, proved for every pair of frames |
| `FrameHistory` | abstract: what the indicator history promises its readers, with no Redis and no calls |
| `Brain` | `POST /aegis/analyze` on the history of an account; uses `SignalRules` |
| `Capture`, `MCCapture` | the phone's capture service and offline cache, composed with `Brain` |
| `CaptureProofs` | every safety property of `Brain` and `Capture`, proved; `Brain` implements `FrameHistory`; the promises of `ImagePipeline` |
| `ImagePipeline` | pure: uploads, preprocessing and chart detection, by what they do to size, colour and shade |

### JobQueue

A job and its HTTP request are one element of `Jobs` (the job id is a fresh
uuid). Redis runs a command atomically, so each action is one command; between
two of them anything may happen.

| Code | Model |
|---|---|
| `is_running` in a handler; 409 (`/health`: 200, healthy false) | `GateOpen`, `GateClosed` (`WorkerFleet!CheckRunning` decides which) |
| `submit_job`: LPUSH | `SubmitJob`, `SubmitStop`, both through `Push` |
| `await_result`: BLPOP | `AwaitResult` (takes a result or blocks), `TimeOut` |
| `pop_job`: BRPOP | `PopJob`, `PopStop`, `IdleOut` |
| `handle_job` | `HandleJob(w, "ok" / "fail")`, then `PushResult`, `ExpireResult`, or `PushRaises` |
| process crash or kill | `WorkerDies`; `RequestersDie` for the API process |

LPUSH appends to the model's sequence and BRPOP takes its head: the model's head
is Redis's tail. LPUSH of a result to a blocked BLPOP hands it over in the same
step, as Redis does. `sent`, `done` and `outcome` are history variables: no
guard reads them, except that `sent` counts STOPs against the bound `MaxStops`.

What a requester is told of a result is `Answered`. Most handlers test `success`
and answer 200 or 400, and `/health` hands a failure on as it is. `get_account`,
`get_positions` and `get_orders` test nothing: a failed job is answered 200 with
null or an empty list (`trading_router.py:187, 203, 219`). `Untested` is the set of
their requests, and "ok" is what they are always told.

What the code does not promise is not claimed. After a 504 the job stays queued
and may run later (`TimeOut` withdraws nothing), so a client that retries runs
the operation again under a new job. If reporting a success raises, the except
clause reports a failure (`PushRaises`): "ok" is earned where the handler tests for
it, "fail" means only that the job ran. A worker that dies between LPUSH and EXPIRE leaves a
result without an expiry.

### WorkerFleet

`op[i]` is where instance `i` is in the one `ensure_worker` or `stop_worker` its
lock admits: `free`, `stashed` (credentials in Redis, before Popen), `spawned`
(before HSET), `stopping` (before the STOP job), `waiting` (in the blocking
`process.wait`, during which no handler of the instance runs). `procs[i]` is
`_workers`. `boot[w]` is the life of process `w`: `reserved` by `ensure_worker`,
`start`, `read` (GET of the credentials done, DEL not), `connecting`, `up`,
`closing`, `exited`. `creds[a]` and `login[w]` name the spawn whose credentials
they hold. Actions that touch the queue are the actions of `JobQueue`.

`PoolCommandRaises` and `SpawnRaises` are the exceptions `ensure_worker` and
`stop_worker` do not catch; `ApiCrash` empties the handles and the lock of an
instance and kills its requests, while worker processes and Redis live on.

### CredentialReveal

| Code (`credential_reveal_service.py`) | Model |
|---|---|
| `create_reveal_token`, `stash_credentials` | `CreateRevealToken`, `StashCredentials` |
| the two TTLs | `TokenExpires`, `PendingExpires` |
| `reveal`: GET token | `ClaimRefused`, `ClaimValid` |
| DEL token, GET credentials | `ClaimDropsToken`, `ClaimReads` |
| not there: SET token EX 120 | `ClaimRestores` |
| there: DEL credentials, answer | `ClaimReturns` |
| a command raises, the process ends | `ClaimDies` |

The comment in the code calls the GET and DEL "atomic-ish"; they are two
commands, so two overlapping claims may both return the same credentials. What
is stated and proved is what is left: a call that *begins* after the answer of
another gets nothing of what was answered (`ReplayGetsNothing`). `made`,
`stashed`, `gone` and `before` are history.

### Billing

A call is cut where it commits or awaits another session. `hook[d]` is where
webhook call `d` is and the row it loaded; `signup[s]` the same for a demo
signup. A call loads a row and later flushes only the columns it changed
(`Flush`), so a write of another call in between survives in the others. A
payment is one SQL upsert: it needs no loaded row except for the portal token.

| Code | Model |
|---|---|
| `already_processed`, `session.get` | `WebhookArrives`, `WebhookLoads` |
| payment: first activation (commit, key, record, stash) | `Activate`, `IssueKey`, `RecordActivation`, `Stash` |
| payment: renewal | `Renew` |
| failed payment, cancellation, other event | `EndOfPayment` (`PastDue`, `Canceled`), `RecordUnknown` |
| unique constraint on the event | `DuplicateRejected` |
| `is_running`, `is_active`, `stop_worker` after them | `GateRunning`, `GateActive`, `GateStops` |
| `activate_demo` | `SignupLoads`, `SignupInserts` / `SignupRejected` / `SignupOverwrites`, `SignupIssuesKey` |
| `/connect`, `/disconnect` | `ConnectChecks`, `ConnectStarts`, `ConnectGivesUp`, `Disconnect` |
| the admin's cancel route | `CancelMarks`, `CancelStops`, `CancelDies` |
| `_subscription_sweep_loop` | `SweepSelects`, `SweepChecks`, `SweepStops`, `SweepMarks`, `SweepFails` |
| the clock | `GraceEnds` |

`running` is the set of accounts with a registered worker; what a start and a
stop really do is `WorkerFleet`'s subject. Credentials are named by the call
that drew them, so `portal` and `keys` say who issued what. `applied`,
`issuers` and `slipped` are history.

### AuthSessions

A call to `/api/auth` selects its rows, checks them and commits; `call[c]` keeps
what it has loaded in between, when any other call may commit. A commit writes
the columns that differ from the loaded row, so what it leaves alone is what
another call wrote. A row is named by the call that drew its secret: a session by
its login, a token by its request, a password by its registration or reset, a
TOTP secret by its setup. Whether the caller knows the password or the code is a
free choice.

| Code (`auth_service.py`) | Model |
|---|---|
| `register`: the checks, then the inserts; a unique constraint | `RegisterChecks`, `RegisterInserts`, `RegisterFails` |
| `login`: the row and its checks, then the session | `LoginLoads` / `LoginRefused`, `LoginCommits` |
| `resolve_session` before a call that needs it | `Resolve` |
| `logout`, `logout_all` | `Logout`, `LogoutAll` |
| `request_password_reset`, `request_phone_otp` | `RequestReset`, `RequestOtp` |
| the token of `verify_email`, `reset_password`, `verify_phone_otp` | `TokenLoads`, `OtpLoads` |
| their commits | `VerifyEmail`, `ResetPassword`, `VerifyOtp` / `VerifyOtpFails` |
| `setup_2fa`, `enable_2fa`, `disable_2fa` | `FactorLoads` / `FactorRefused`, then `Setup`, `Enable`, `Disable` |
| the clock | `SessionExpires`, `TokenExpires` |

`reset_password` is one step: its update of the user's row is flushed before it
selects the sessions, and a login updates this row too, so that none commits
between the two. `spentBy`, `spared`, `confirmed` and `raced` are history. They
name what the code does not promise: a login that checked the old password and
had not committed when the reset did keeps its session (`spared`), two
overlapping calls may both spend a token, and when two changes of the second
factor overlap (`raced`) it may be asked for with a secret nobody has shown a
code of. Without these exceptions each property is violated.

### ApiKeys

A key is named by the call or the start that drew it, or is a value of
`ADMIN_BOOTSTRAP_KEY`: rows are unique by the hash of the key. `key` is the
table, `call[c]` and `start[s]` what a request or a start has loaded between its
`await`s.

| Code | Model |
|---|---|
| `verify_api_key`: the row and its checks, the commit of `last_used_at` | `VerifyLoads`, `VerifyCommits` |
| `require_admin`, `require_account_match` | `Forbidden`, or `Serves` and the admin's operation |
| `issue_key` | `Issue` |
| `revoke_key` | `RevokeLoads`, `RevokeCommits` |
| the forced rotation | `ForceLoads`, `ForceCommits` |
| `rotate_key`: load, issue, load and revoke | `RotateLoads`, `RotateIssues`, `RevokeLoads`, `RevokeCommits` |
| 404; audit row and answer | `NotFound`, `Answers` |
| `expires_at` passes | `KeyExpires` |
| the portal's mobile key | `MobileKeyFails`: it imports a function `security.py` does not have, so it always ends in a 500 |
| `_bootstrap_admin_key` | `BootReads`, `BootLeaves`, `ResetLoads`, `ResetCommits`, `SyncLoads`, `SyncCommits`, `BootFirst` |

`shut` (revoked or marked, and this was answered), `reopened` (bootstrap keys a
later start has re-activated) and `withdrawn` (keys somebody asked to revoke)
are history.

### Quotas

| Code | Model |
|---|---|
| `register_or_verify`: the limit, the device, the count, the insert | `RegisterReadsLimit`, `RegisterLooks`, `RegisterCounts`, `RegisterInserts` |
| clearing the bindings of an account | `ClearBinding` |
| the admin's set-plan; the row a first payment inserts | `SetPlan`, `PaymentInserts` |
| a download token issued by the admin or the portal; its expiry | `IssueToken`, `PortalIssues`, `TokenExpires` |
| `consume_download_token`: load, commit | `DownloadLoads`, `DownloadCommits` |
| `TradeLimitService.consume`: the limit, the day, its row, the commit | `ConsumeReadsLimit`, `ConsumeReadsDay`, `ConsumeLoads`, `ConsumeCommits` |
| the market order route, which raises before it consumes | `MarketOrder` |
| the date changes | `Midnight` |

Each service reads, decides and writes in different statements, and locks
nothing. `raced` notes the calls that overlapped another one on the same account
or token; `granted`, `files`, `orders` and `late` are history too. What is
claimed is what is left: only a race exceeds a limit, and a call that *begins*
when its limit is used up gets nothing. No route reaches `consume`
(`trading_router.py:155` raises first): its part says what the service would do.

### Brain, Capture, SignalRules

A screenshot is named by the time it was taken; `Chart` says which frame is
found in it. `hist` is the sorted set of the account, `at` the score the phone
sent, `shot` the screenshot it was sent with, which the server cannot see.

| Code | Model |
|---|---|
| a request reaches `/aegis/analyze` | `Arrives` |
| ZADD; ZREMRANGEBYRANK; EXPIRE and ZRANGE, `evaluate`; the answer | `Stores`, `Trims`, `Judges`, `Answers` |
| a command or a check fails; the phone no longer waits | `Breaks`, `Abandons` |
| the key's expiry | `KeyExpires` |
| the capture timer; `live_capture_tmp.jpg` is written | `Captures`, `LiveWrites` |
| `trySend`: two attempts | `SendReaches`, `SendFails`, `GivesUp` |
| sent: delete the file, drain; not sent: make room, cache | `LiveSent`, `LiveMakesRoom`, `LiveCaches` |
| `cache` catches an exception (`ScreenshotCacheManager.kt:43-45`) | `LiveCacheFails` |
| the temporary file cannot be written; `scope.cancel` (`ScreenCaptureService.kt:503-505`); the process dies | `LiveCutOff`, `DrainCutOff` |
| `drainCache` | `DrainStarts`, `DrainSent`, `DrainBreaks` |

Every capture runs in a coroutine of its own and all share one temporary file;
drains overlap each other and live captures. `newest`, `stored`, `dropped`, `cut`
and the field `clean` of a call (it is the newest and overlapped no other) are
history. `cut` is the captures whose coroutine ended before it had stored or cached
them: `cache` swallowed the failure of its write and the temporary file was deleted
all the same, or the coroutine was cut off. A file such an end leaves half-written
stays where it is and is sent like any other; the server refuses it (`Breaks`) or
reads it as it can. A coroutine that is cut off while it waits leaves its call to
the server (`LeavesItsCall`). A file is taken to be deleted when the code deletes
it, and making room to be done whole or not at all.

`SignalRules` has one operator per rule and per condition of
`signal_rule_engine.py`; `Evaluate` is `evaluate`, with the error it raises when
a value it compares was not found.

### PaymentAdapters and ImagePipeline

Both are pure functions. `Parse` is `parse_webhook_event` of the three adapters,
with its defaults and fallbacks (`Default` is `dict.get`, which an id that is there
but `Empty` escapes in Stripe's adapter only; `Or` is Python's); `*Checkout` and `*Cancel` take what the
provider answers as arguments. `Execute` is the preprocessing executor on an
image known by its width, height, channels and one shade, with a resize to more
than `LargestSide` free to fail, since the code sets no bound on what is asked for; `Detect` and
`PlottingArea` are the arithmetic of the chart detector; `LoadImage` and the
routes take the directory of uploads as an argument, and an empty name is this
directory itself, which exists and cannot be read. What is stated of them is
an assumption of the MC module that uses them, which TLC evaluates over every
input of a few values (the names are in section 3); most of it is proved for
every input (section 4).

## 3. What TLC checks

| Run | Properties | Instance |
|---|---|---|
| `JobQueue_safety` | `TypeOK`, `Custody` (a job is in one place), `AtMostOnce`, `AnswerEarned`, `NoMissedResult`, `TakenInOrder`, `ImplementsLifecycle`; liveness: `RequestEnds`, `QueueDrains` | 1 account, 2 requests, one of them untested, 2 workers that both serve it, 1 STOP, Redis faults: two workers racing for two jobs and a STOP is every conflict a queue of one account knows |
| `Fleet_single` | `FleetTypeOK`, `OneWorkerPerAccount`, `NoInvisibleWorker`, `StopIsEffective`, `OwnCredentials`, `RunInOrder`, `WithinLimit`; liveness: `StoppedWorkerExits` | 1 API process with 1 slot, 2 accounts, 2 requests of one of them, 2 workers that may crash, 1 STOP: a respawn, and two accounts that want the slot |
| `Fleet_multi` | `ImplementsQueue` | 2 API processes that may crash, 2 workers, Redis faults |
| `Fleet_crash` (violated) | `OneWorkerPerAccount` | 1 API process that may crash |
| `Billing_safety` | `BillingTypeOK`, `ActivationHasKey`, `AppliedOnce`, `PortalTokenKept`, `CanceledIsDisconnected`, `ReplayGetsNothing`, `UnusedTokenSurvives` | 1 account, one event of each kind, any 3 of 2 webhook calls, 1 signup and 2 claims (`MaxCalls`), calls that may fail half-way |
| `Billing_lifecycle` (violated) | `StatusLifecycle` | no fault; three webhooks, no signup |
| `Billing_paid` (violated) | `PaidMayConnect` | no fault |
| `Auth_safety` | `TypeOK`, `SessionsAreCurrent`, `UsedTokenFails`, `FactorConfirmed` | 2 users, 1 phone, 1 code, any 5 calls |
| `Keys_safety` | `TypeOK`, `ClosedIsRefused`, `RotatedHasReplacement`, `BootstrapKeepsAdmin` (a step property) | 1 account, 1 bootstrap key, any 4 of 3 calls and 2 starts (`MaxActors`), 1 expiry (`MaxExpired`) |
| `Quotas_safety` | `QuotasTypeOK`, `UsedUpIsRefused`, `OnlyRacesExceed` | 1 account, 3 calls, 3 phones, 1 token of up to 2 uses (`MaxUses`), 2 plans, 2 days |
| `Capture_safety` | `CaptureTypeOK`, `HistoryIsLatest`, `InOrderIsJudged`, `NoCaptureLost` | 2 captures, 2 server calls, 2 drains, a history of 2 frames, a cache of 1 file (`MaxCached`), batches of 2 |
| `Capture_time` (violated) | `ShotUnderItsTime` | the same |

The assumptions of the MC modules are evaluated with the runs: of `MCBilling`,
`PaysForItsAccount`, `TransactionIsTheEvent`, `UnnamedIsAlwaysNew` and
`CancelsTheCustomers` over every notification of a few values; of `MCCapture`,
`ResponseTellsTheImage`, `ResizeKeepsTheRatio`, `ShadesKeepTheirOrder`,
`PlotIsWithinTheImage` and `UploadsAreRead` over images and requests of a few sizes.

Deadlock is not checked: a system where every client is done, the worker has
idled out and nobody calls `/connect` has stopped, and may.

`Billing_safety` bounds the calls under way or made, not their interleaving: a
hazard of the list needs two webhooks and a third call, and nothing in the code
relates one account's row to another's, so one account is enough; the proofs
need neither bound.

`Auth_safety`: five calls are a registration, a login and three more, so a second
factor can be set up, confirmed and raced, and a reset can overlap a login; two
users are what the unique phone needs, and with one code two requests draw the
same one.

`Keys_safety`: two calls that race on a key (revoke and rotate, rotate twice, a
verification between them) with a restart and a third call after them. One
account is enough because the only relation between keys is "issued in place
of". `Quotas_safety`: two calls race at a limit and a third begins afterwards; a
second day and a second plan change the limit under them. `Capture_safety`: a
second capture while the first is sent, cached or drained, which are all the
pairs that share a file or a history; `FewUntrimmed` cuts off histories that
only broken calls, which never trim, make longer, and `FewCut` follows a
behaviour after a capture was cut off only while no second one is and one of the
drains sleeps: what is cut off is over for the phone, so that what can still go
wrong is between the other capture, one drain and the server. The proofs need
neither constraint.

Bounds: requests, workers and STOPs are finite sets or counters (`Jobs`,
`Workers`, `MaxStops`); a respawn uses a new element of `Workers`, so their
number bounds the spawns. Symmetry is used on interchangeable calls, workers and
API instances, and only in runs without liveness.

**Fairness.** `JobQueue`: a handler goes on, Redis's timers fire, a worker takes
what is queued and reports what it has finished, with Redis free to fail.
Nothing is assumed of `HandleJob`: the code puts no time limit on a call into
MT5. `RequestEnds` rests on the timeout of the wait; `QueueDrains` assumes a
worker that keeps coming back to its loop. `WorkerFleet`: `ensure_worker` and
`stop_worker`, once begun, go on, because `process.wait` has a timeout and is
followed by a kill. No client need call `/connect`.

**Findings.** `Fleet_crash`: after an API restart the handles are gone and the
worker is not; `/connect` spawns a second worker for the account, against "one
process per connected broker account" (`worker_pool_manager.py:10-11`).
`AtMostOnce` holds all the same (two workers never run one job), but
`RunInOrder` does not. `Billing_lifecycle`: a failed payment sets `past_due` and a
new grace period whatever the status was, so one that is handled after a
cancellation brings the canceled account back as `past_due`, for which it may trade;
the life cycle of `subscription_service.py:12-15` ends at canceled. `Billing_paid`: a payment leaves `plan` at its default `starter`,
which `/connect` refuses, so no paid account connects
(`trading_router.py:88-96`). `Capture_time`: every capture writes the one file
`live_capture_tmp.jpg`, and an upload may outlast the 3 s to the next capture, so
a retry sends the later screenshot under the earlier capture time, against "the
client's original capture time" (`indicator_history_service.py:64`).

Divergences seen while modelling, which the models reproduce and no violated run
states: "Ensure an admin API key exists" (`startup.py:127`) does not hold of a
start whose only admin key is revoked and that is given no bootstrap key; after
an idle-out nothing respawns the worker (`mt5_worker.py:33-34`), because no request
endpoint calls `ensure_worker` and the registry entry stays; the market order
route raises before it consumes a trade (`MarketOrder`); the sweep ends at the
first account whose stop raises (`SweepFails`); a pending notice of a payment
makes the one of its success a repetition, and a notice without an id is new at
each delivery (`TransactionIsTheEvent`, `UnnamedIsAlwaysNew`); a resize that
would leave no pixel, or more than can be made, keeps the image as it is
(`ResizeKeepsTheRatio`); a failed `get_account`, `get_positions` or `get_orders` is
answered 200 (`Answered`); `StatusLifecycle` also forbids two things its run does not
reach: the sweep's stale list suspends an account that has paid since (`SweepMarks`),
and a demo signup revives a suspended or canceled account (`SignupOverwrites`).

## 4. What is proved

`JobQueueProofs`, for all accounts, requests and workers, from
`JobQueueAssumption` only:

* `JobQueueTypeOK` from `TypeInv`: `TypeOK` with `LoopInv`, what a worker's place
  in its loop says of its hand (without it the pop of a queue named by `serves`
  cannot be typed).
* `JobQueueCustody`, `JobQueueAtMostOnce`: at most once is not inductive, because
  it does not say that a queued or held job has not run; `Custody` puts every
  job in one place and is. `CustodyFrame` covers the steps that only drop jobs.
* `JobQueueAnswerEarned`, for any set `Untested`: strengthened by `EarnedOnTheWay`, which speaks of answers in
  hands and in result lists; needs `Custody` so that `HandleJob` cannot change the
  outcome of a job already answered.
* `JobQueueNoMissedResult` and `JobQueueTakenInOrder` (a queue is the rest of
  what was pushed: `RestAppend`, `RestTail`).
* `JobQueueImplementsLifecycle`: every behaviour is one `JobLifecycle` allows.
  The phase of a job is read off its place and its outcome, so a step maps only
  if record, place and report agree; `Settled` says they do. `OnePhase` and
  `OneAnswer` turn an action into the abstract step it is, `NothingHappens` into
  a stutter, and there is one lemma per kind of action (`RequestMaps`, `PopMaps`,
  `PushMaps`, ...).

`WorkerFleetProofs`:

* `FleetTypes`, and `FleetImplementsQueue`: `FleetSpec => Spec` for any number of
  instances, with every fault; so `FleetAnswers` lifts `AtMostOnce` and
  `AnswerEarned` to the fleet, and `FleetImplementsLifecycle` the abstract
  specification.
* `SingleInstanceFleet`: one API process, neither it nor Redis failing, workers
  crashing at will: `OneWorkerPerAccount`, `NoInvisibleWorker`,
  `StopIsEffective`, `OwnCredentials`. The invariant `OwnershipInv` says that the
  handle of a running worker is in `_workers` or with the stop under way;
  `SingleIsSeen`, `SingleStops` and `SingleLogsIn` state its parts on their own.
* `SingleIsWithinLimit`: `Places` counts the running workers and the one a call is
  about to spawn or stop against the places they take.
* `SingleRunsInOrder`: with one worker at a time (`OneAtATime`, from the ownership
  and from `InLoop`: only a running worker is in the job loop), what has run, what
  is in the hand and what is queued stay in the order of the requests (`Ordered`).

`BillingProofs`, the claim, for any number of accounts, tokens and overlapping
claims: `RevealTypes`, `RevealReplay`, `RevealKeepsTokens`, `RevealToItsAccount`,
from `RevealInv`. Replay is not inductive alone: it needs that credentials in
Redis have not been shown (`PendingIsNew`), and that a claim under way holds
what its checkout and its activation gave it (`ClaimHolds`).

`BillingProofs`, the subscriptions, for any number of accounts, events and calls,
with every call free to fail half-way: `BillingTypes`, `BillingActivation`, `BillingPortalToken`,
`BillingAppliedOnce`, `BillingCanceled`. The invariant `BillInv` says that every
row, and every row a call has loaded, owes its portal token to a first
activation (`PortalTokenKept`, `HookInv`, `SignupInv`), and that a call which made
one is at a stage where its key exists or is due (`IssuerInv`); without the
loaded rows, a renewal that writes back a token it read earlier could not be
shown to keep it. `AppliedInv` ties `applied` to the unique constraint, and
`CanceledIsDisconnected` is inductive over the types. `BillingImplementsReveal`
maps every step to a step of the claim or a stutter, and `BillingClaims` lifts
the claim's promises to the composed system.

`BillingProofs`, the adapters: `PaysForItsAccount` (whatever of a checkout a notice
echoes, it is applied to the account of the checkout or to nobody),
`RepeatsItsTransaction` (two notices are one event exactly when they name the same
transaction, for any names and as long as fresh ids are fresh) and
`CancelsTheFirst` for a listing of any length, which needs that the first match
exists (`LeastNatural`).

`AuthSessionsProofs`, for any number of users and overlapping calls: `AuthTypes`,
`AuthReset`, `AuthTokenOnce`, `AuthFactor`, from `AuthInv`, which says what a call
still knows of the rows it has loaded: a login its current password unless a
reset spared it (`SessionsInv`), a call with a token that nobody had spent it
(`TokensInv`), a change of the second factor its row as it is unless another
change overlapped (`FactorInv`). `CallKeeps` covers every step that only loads.

`ApiKeysProofs`, for any number of keys, overlapping calls and starts:
`KeysTypes`, `KeysClosed`, `KeysRotation`, `KeysBootstrap`, from `KeysInv`. A key
that was closed is not usable (`Closed`) and no call still holds an older row of
it that it could write back (`Knows`): commits write only the columns that
differ. A start that wipes the admin keys has a bootstrap value to put in their
place (`Starting`), so the commit that revokes them leaves that one.

`QuotasProofs`, for any plans, phones, tokens, days and overlapping calls:
`QuotasTypes`, `QuotasUsedUp` (`Lates`: a late call is one that will find the
count at its limit) and `QuotasRaces`. The latter says that a call that no other
has overlapped (`Alone`) still sees what it read: the number of phones (`Rooms`),
the uses of a token (`Files`), the counter of the day (`Counters`), each against a
limit the account has had (`Grants`).

`CaptureProofs`, for any number of captures, drains and overlapping calls, any
capacity of the history and of the cache, with every call free to break:
`CaptureTypes`, `CaptureHistory`, `CaptureJudged`, `CaptureKeeps`, from `CaptureInv`,
which TLC has also checked on the instance of `Capture_safety`. Its part about the
server is `BrainInv`. `HistoryIsLatest` speaks of the end of a sequence into whose
middle frames are put and from whose front they are cut; it is inductive once the
history is sorted (`HistSorted`), and it is kept by rank (`Mirrors`: entry `i` of
`newest` is the entry of the history with as many behind it). A frame put among
equal times goes after them (`PlacedAt`, `PlacedMirrors`), so ties do not disturb
it. `InOrderIsJudged` needs that a clean call is alone, that its frame was later
than all kept ones when it arrived, and that it is the last one from then on
(`CleanHolds`). The part about the phone is `PhoneInv`. A call answers only the
coroutine that waits for it, about the capture that one has sent (`Awaited`), and a
call past `append_frame` has stored its capture (`CallHolds`): so what a coroutine
takes for sent is stored (`SenderHolds`), which is where the two modules meet, and
without which deleting a file after a success could lose a capture. One that is cut
off, or whose `cache` failed, is in `cut` (`CutOffStep`). The cache is
finite, so that a drain can list it (`ListedFiles`).

`CaptureImplementsHistory`, stated by no run: phone and server together implement
`FrameHistory`, in which a frame joins the newest ones at its rank in one step and
only the oldest makes room for it. `frames` is the capture times of the last
`MaxFrames` entries of the sorted set (`KeptTimes`), trimmed or not, and `ever` is
`stored`; `newest` does not appear in it. The step of `Stores` is that of `Joins`
(`StoresJoins`: the rank among the newest is the rank in the history less the
entries before them, `PlacedTimeJoins`), the expiry is `Vanish`, and every other
step, the trim too, is a stutter (`OthersKeepHistory`).

`CaptureCacheIsFifo`, stated by no run, is about steps: a file leaves the cache only
when the server has stored its capture (`SenderHolds` again) or to make room, and
then every file that stays is newer (`OldestGoFirst`, by counting the older ones).
TLC has found it, like the refinement above, to hold on the instance of
`Capture_safety`.

`CaptureVerdict` is stated by no run: with a history of at least two frames and at
least the look-back (the code's defaults are 60 and 12), the verdict is the one on
the newest `MaxFrames` frames, however many others broken calls have left behind
them. `CutIsJudgedAlike` is its lemma about the rules: they see no further back.

`CaptureProofs`, the images, for every size and request: `ResponseTellsTheImage`
(by `BeforeTheResize`, of the three stages that cannot fail, and
`ResizedAsAsked`), `ResizeKeepsTheRatio`, `ShadesKeepTheirOrder`,
`PlotIsWithinTheImage`.

`SignalRulesProofs`, for every pair of frames and every look-back: `OneSide`,
`SignalIsTheSide`, `BuysMirrorSells`, `DivergenceMirrored`. The last two name the
exceptions the code has: values on a level count as below it, and a window with
both a new high and a new low that the indicator does not confirm is bearish
either way up.

The proofs use the named assumptions on the constants `JobQueueAssumption`,
`WorkerFleetAssumption`, `CredentialRevealAssumption`, `BillingAssumption`,
`ApiKeysAssumption`, `QuotasAssumption`, `SignalRulesAssumption`, `BrainAssumption`
and `CaptureAssumption` (capture times are numbers and are no drains, what a
screenshot shows is a frame, the capacities are positive), which TLC evaluates in
every run of the module; those of `AuthSessionsProofs` need none.
`ResizeKeepsTheRatio` holds for any number `LargestSide`.

Two fields of one row change in an inner EXCEPT (`![c] = [@ EXCEPT !.at = .., !.row = ..]`):
of two outer updates at one index tlapm 1.4.5 assumes that both hold of the old row,
which contradicts itself, so that the modules have none.

Model-checked only: the liveness properties `RequestEnds`, `QueueDrains` and
`StoppedWorkerExits` (fairness and ENABLED are beyond the prover), and
`UploadsAreRead`, which is about single uploads. The four properties of the
violated runs are false of the code.

## 5. What is not modelled

- Mobile automation and user interface, web pages, deployment and CI: views, and a
  click on another application's button.
- Metrics, audit, alerts, retention, health: nothing decides on what they record.
- The rate limiter: one atomic pipeline of Redis commands on the account's own
  key; a call it refuses has stored nothing (`Breaks`).
- The credential vault's encryption (a row is one upsert and one select), and
  template profiles, one pointer file read and rewritten whole.
- The MT5 adapter, which is not in the repository: an operation succeeds, fails,
  raises or hangs.
- In the modelled parts: `current_period_end` (the code writes it and never
  decides on it), the status set-plan writes (`Quotas` has the limits it writes),
  key labels, pixels beyond one shade, which pixels give which frame.

Five hazards of the list have no property, because the code gives no promise they
would break; the models take each of the steps. A call that fails between the record
of an event and the stash loses the issued credentials (`WebhookDies`, then
`DuplicateRejected`); a lapsed demo account may connect (`MayConnect` looks at no
date); a left-over STOP takes down the next worker (`PopStop`); a pool call that
raises leaves a worker unregistered (`PoolCommandRaises`); a download that ends in a
500 has spent its use (`DownloadCommits`). Others are what a property exempts by name
(`keyless`, `slipped`, `raced`, `spared`, `Untested`, `cut`): it then shows that
nothing else breaks it.

## 6. Plan

What is left, in this order:

1. `Billing` over `WorkerFleet`, with `running` as the registry of the fleet, and
   set-plan's status in `Billing`.
2. Liveness of the sweep: every lapsed account is suspended when no stop fails.
