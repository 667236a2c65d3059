# Verification of the FinHub Journal MetaTrader bridge

The bridge accepts "sync this trading account" and "verify this login" requests over
HTTP, queues them in Redis, and has a pool of worker processes drive MetaTrader
terminals and write the trades to Supabase. This directory holds TLA+ models of it, the
TLC runs that check them on small instances, and proofs checked by TLAPS.

## 1. Inventory

| Component | Source | State | Operations | Talks to |
|---|---|---|---|---|
| Job queue | `jobqueue/redis_queue.py` | Redis: list of markers, `:pending` set, `:latest` hash, `:processing` list, `:processing_meta` hash, `:result:*` | `enqueue_job`, `claim_job`, `ack_job`, `recover_stale_processing`, `set_job_result`, `pending_queue_meta` | called by the API and by every worker, no lock |
| Worker loop | `workers/run_worker.py` | per process: the job in hand, time of the last recovery | boot recovery, periodic recovery, claim, run, requeue, retry, ack | queue, runner, adapters |
| Supervisor | `workers/supervisor.py` | the worker processes | spawn, poll, restart; `should_requeue`, `mark_requeue` | worker processes |
| Job API | `app/routes_jobs.py` | none of its own | `POST /jobs/sync`, `POST /jobs/verify`, `GET /jobs/{id}/result`, health | queue, Supabase |
| Terminal lock | `jobqueue/redis_lock.py`, `workers/terminal_lock.py` | one Redis key per terminal, with TTL and owner token | acquire (poll), refresh, release, `lock_held` | runner, terminal map |
| Terminal map | `workers/terminal_map.py` | cache of the JSON map | longest prefix, pick a free terminal | lock |
| Job runner | `workers/mt5_worker.py` | per job: window, deals, flags | `run_verify_job`, `run_sync_job` | lock, adapters, Supabase, results |
| Supabase client | `workers/supabase_client.py` | database: trades, cash flows, `last_synced_at`, `cashflow_backfill_done_at`, `last_error`, stage | upserts, success, error, stage | HTTP |
| MT5 adapter | `workers/mt5_adapter.py` | the session a worker believes in | initialize (warm, switch, cold), chunked history, shutdown | terminal |
| MT4 adapter and EA | `workers/mt4_adapter.py`, `ea/*.mq4` | request and response files, terminal process | launch, request, wait, kill | files, terminal |
| Trade map | `workers/trade_map.py` | none | deals to trades, deals to cash flows | runner |
| Credentials | `workers/credentials.py`, `workers/crypto_helper.py` | none | fetch, decrypt | Supabase |
| Configuration, auth, logging | `app/config.py`, `app/auth.py`, `workers/logging_setup.py` | none that changes | | |
| Scripts, deployment | `scripts/`, `Dockerfile`, `docker-compose.yml` | the Windows host | installation, terminal caches | |

What makes each one correct, and what makes that hard:

* **Queue.** One marker per account and job type, at most one run per request, no accepted
  request lost, no leftover that revives a finished job, a retry that happens once. Hard
  because each operation is several Redis commands and nothing makes them atomic: API
  threads, workers, requeues and recoveries interleave between any two, and each can die
  there.
* **Lock, terminal map, adapters.** At most one worker drives a terminal, and the history it
  reads is that of the account it was asked for. Hard because the lock expires, refresh's
  answer is ignored, the lock is read before it is waited for, sessions are kept warm
  across lock releases, and one forced shutdown happens outside the lock.
* **Runner and Supabase client.** The watermark never passes a deal that was not stored.
  Hard because each write is a request of its own that can fail.
* **Job API.** A polled result ends in "done". Hard because API and worker both write it.
* **MT4 files.** A response belongs to the request that is being waited for.
* **Trade map.** Every exit has one row, under the same ticket in every pull. Hard because a
  pull is a window, which may hold a part of a position, and an order may be filled in parts.

`PROJECT.json` lists these hazards one by one with their lines and the properties that
cover them, or the reason why none does.

## 2. Plan

| Modules | Models | Proved in |
|---|---|---|
| `CoalescingQueue` (abstract), `JobQueue` | Redis keys, API, worker loop, supervisor | `JobQueueProofs`, `JobQueueMarkerProofs`, `JobQueueRequestProofs`, each extending the one before |
| `TerminalLease` (abstract), `TerminalPool` | terminal locks, choice of a terminal, sessions of the MT5 adapter | `TerminalPoolProofs` |
| `TradeMap`, `SyncJob` (extends it) | windows, history pulls, Supabase writes, rows | `SyncJobProofs`, `SyncJobHoleProofs` |
| `Mt4Ipc` | MT4 adapter and export EA on their two files, forced shutdowns | `Mt4IpcProofs` |

`JobQueue`, `TerminalPool`, `SyncJob` and `Mt4Ipc` cut one program at its seams: to
`JobQueue` a job is one step that ends in success, failure or a lock timeout; to
`TerminalPool` it is the section between two queue operations; `SyncJob` is what
`run_sync_job` does with the history that section returns; `Mt4Ipc` replaces the MT5 session
by files. Each takes what the others decide as a free choice.

Left: `JobResults` (the API and the worker write the same result), `resolve_terminal_path`
against a reference definition.

## 3. JobQueue

`JobQueue.tla` has one action per Redis command. `call[a]` is the `enqueue_job` that actor
`a` (an API thread or a worker) is executing, `step[w]` the next command of worker `w`.

| Code | Actions |
|---|---|
| `create_sync_job`, `create_verify_job` | `Enqueue` (new id, HSET `latest`) |
| `enqueue_job` called by a worker | `HsetLatest` |
| `enqueue_job`: SADD, push | `SaddNew`, `SaddCoalesced`, `PushMarker` |
| `claim_job` | `BlPop`/`BlPopTimeout`, `RpushProcessing`, `HgetLatest`, `SremPending`, `HdelLatest`, `HsetMeta` |
| the job | `Complete`, `LockTimeout` |
| `ack_job` | `AckLrem`, `AckScan`, `AckLremSame`, `AckHdel` |
| `recover_stale_processing` | `BootRecover`/`StaleRecover` (HGETALL), `RecoverLrem`, `RecoverHdel`, then an `enqueue_job` |
| supervisor | `Crash`, `Restart` |
| `except` branches | `ClaimRaises`, `RecoverReadRaises`, `RecoverDropRaises`, `RecoverEnqueueRaises`, `RequeueRaises`, `RetryRaises`, `AckRaises`, `ClientAborts` |

**Data.** A slot is a coalesce id (account and job type); a payload is its job id and its
attempt; a marker is named by the job id it was pushed for, which determines its slot.
The age of an entry is not kept: `BootRecover` takes all of them (`max_age_seconds=0`),
`StaleRecover` any subset, with those of live runs among them only if `RunsOutliveStale`.
The `:secret` keys are left out (no caller passes a password), and so is the read of the
previous payload, which only serves them.

**Failures.** A command that raises has had no effect in the model. A command that took
effect and whose answer was lost behaves like the same command followed by a failure of
the next one, which the model has, except for a push. If the answer of a requeue's push is
lost the code enqueues a retry as well; and if it only times out, the Redis client sends the
command once more by itself (`retry_on_timeout`, redis_client.py:11), so that a push may
happen twice and a slot have two markers. Both are outside the model, and `OneMarker` and
what rests on it say nothing about them. Redis itself does not fail; its append-only file is
written once a second, so a crash of Redis may lose the last second of commands.

**Where exceptions go.** `run_verify_job` and `run_sync_job` catch everything, so within
the job's `try` only the requeue after a lock timeout can raise (`RequeueRaises`).
Exceptions before the `try` (credentials other than `CredentialsError`, no terminal path)
end the process: `Crash`.

**Bounds.** Job ids are finitely many and are drawn once each, failures and lock timeouts
are counted. Two ids on a slot are enough for a payload to be replaced, a claim to run
another id than its marker's, and a retry to draw a new id; requeues and recoveries reuse
ids, so runs are not bounded by them. A single API thread suffices for concurrent
`enqueue_job` calls because the workers make them too. One slot is enough for the safety
run because no operation relates two slots except their order in the list; the liveness
run has two, one of them a verify slot that jumps the queue.

**Fairness** (`FairSpec`). Each process executes its next command if it can (weak
fairness of an API thread's call and of a worker's step): threads and processes are
scheduled, BLPOP has a timeout, a job ends or its wait for the lock times out, the
supervisor restarts a dead worker within a poll. `RecoverDead` is strongly fair: a worker
recovers every 30 s for ever, so an entry that a dead worker left gets older than
`processing_stale_seconds` and is taken. Nothing is assumed of failures.

### Runs

| Run | Instance | Checks |
|---|---|---|
| `JobQueue_safety` | 2 workers, 1 API thread, 1 slot, 2 ids, 2 failures, 1 lock timeout, recoveries of live jobs; symmetric | the safety invariants, `OnlyFailuresWedge`, `LossNeedsFragileFailure` |
| `JobQueue_live` | 2 workers, sync and verify slot, 1 failure, 1 lock timeout | `ServedOrLost`, `WedgeIsForever`, the refinement |
| `JobQueue_claim_crash`, `JobQueue_recover_live`, `JobQueue_newest`, `JobQueue_retry` | as small as shows them | the findings below |

`JobQueue_safety` has one lock timeout, so that a retry is made but none is given up; the
instance with two (4.7 million states, explored by hand) reaches that branch of
`RequeueRaises` and holds as well, and the theorems of section 7 are about any number. In
`JobQueue_live` each slot has one id: no request coalesces with a run there, and no retry
draws an id. Deadlock is checked in every run: a worker always has a next command.

* `OneMarker`: at most one marker per slot, queued or in someone's hands, and only while
  the slot is pending.
* `OnlyFailuresWedge`, `WedgeIsForever`: a slot that is pending without a marker is stuck;
  no interleaving gets there without a failure, and nothing in the code gets out of it.
* `LatestIsClaimed`, `EntriesDrained`: without failures no payload and no entry is left
  behind for a later claim or recovery to revive.
* `NothingLost`: without failures no accepted request is lost, although recoveries take
  the entries of live jobs, acks of one run delete the entries of another and lock
  timeouts requeue. `LossNeedsFragileFailure`: with failures, it takes one by the
  very actor that is in a window `Fragile` names for that slot, or a slot that is wedged
  already; no failure of another actor costs the request.
* `ServedOrLost`: every accepted request leads to a run that started after it, or is lost
  in one of those windows.
* `RefinesCoalescingQueue`: `pending` implements `owed`, and a worker works from its SREM
  to the end of its run. Runs never outnumber what was enqueued.

### Findings

1. *A claim is not crash-recoverable* (`ClaimIsCrashRecoverable`). `claim_job` promises it
   (redis_queue.py:208), but recovery reads only `processing_meta`, written last, and never
   the processing list. A death between BLPOP and SREM wedges the account: `pending` keeps
   the slot and all later requests coalesce into nothing.
2. *Recovery takes live jobs* (`RecoversOnlyCrashed`). It is documented for worker crashes
   (redis_queue.py:293, SETUP.txt:153), but a starting worker passes `max_age_seconds=0`
   and requeues what the other workers of the pool are running. The same happens at a
   normal start of the pool when one worker is quicker than another.
3. *A claim can delete the newest payload* (`NewestPayloadClaimed`): it reads the slot and
   then deletes it, and an `enqueue_job` in between writes a payload that nobody reads. The
   older job runs; the newer id's result stays "pending" until it expires. The test
   `test_coalesce_same_account_keeps_latest_credentials` (tests/test_redis_queue.py:153)
   says the newest is claimed. The *request* is not lost: its SADD either finds the marker
   gone and adds another, or precedes the SREM of a run that starts after it
   (`NothingLost`).
4. *A retry can be retried* (`RetriedOnce`, module `MCJobRetry`). SETUP.txt:154 says "Sync
   jobs still only auto-retry once on unhandled exceptions". The budget is the `attempt` of
   the payload. With two workers on a slot (a recovery took a live job, or a request came
   during a run) the claim of one deletes what the slot has in `latest`, the other's retry
   included, and its marker, which has no attempt, is claimed as a first attempt.
   `MCJobRetry` adds to `JobQueue` a count of the retries that led to each id and lets only
   requeues fail.

Also seen: two acks that race with a boot recovery can leave a marker in `processing` for
good (LRANGE and LREM are two commands). Nothing but `ack_job` reads that list.

## 4. TerminalPool

`TerminalPool.tla` is the part of a job that drives a MetaTrader 5 terminal. `lock[t]` is the
worker whose token the key of terminal `t` holds, `acct[t]` the account it is logged in to,
`session[w]` what the adapter of worker `w` believes, `conn[w]` the terminal its process is
attached to.

| Code | Actions |
|---|---|
| `pick_terminal_path` (one GET per candidate, before the wait) | `Probe`, `ProbeRaises` |
| `RedisLock.acquire`, `release`; the TTL | `Acquire`, `AcquireRaises`, `LockTimeout`, `Release`, `ReleaseRaises`; `Expire`, `Overrun` |
| `MetaTrader5Adapter.initialize` | `LoginWarm` (believed), `LoginSwitch`, `SwitchFails`, `LoginCold`, `LoginFails` |
| `history_deals` and the end of the section | `ReadHistory`, `Release` |
| `run_worker`: a job, the sync after a verify, the forced shutdown after a failure, restart | `Claim`, `Unlocked`, `ForcedShutdown`, `Crash` |

**Data.** A token is its worker; the token of a dead one is `Stale`. A terminal is logged in
to one account, whoever logged in last. `history_deals` reads the account of the terminal
that the process is attached to. A refresh that works only moves the deadline, so it is no
step; one that comes late answers 0, which nobody looks at: `Overrun`.

**Runs.** `TerminalPool_foreign` has two workers, two terminals and two accounts whose
servers prefer the same one, so that the second worker goes to the other terminal and may
come back with a session attached there; one failure, no overrun, symmetric in workers and
accounts. `TerminalPool_lease` has one terminal, an overrun and a failure, and fairness. Two
workers are enough for both: the properties relate one worker to whoever drove the terminal
last.

* `RefinesTerminalLease`: the lock implements `TerminalLease`. No lock timeout, failed
  command, late release or crash of another worker opens it; only a lease that ran out lets a
  second worker in, and each extra worker needs one more.
* `ForeignHistoryNeedsWarmth`: a job reads another account's history only after a warm
  session was believed, a login on the terminal the process was attached to instead of the
  one it had locked, or an overrun.
* `LocksAreFreed`, `JobsEnd`: nobody's death locks a terminal for good, and every job ends.

**Fairness.** A worker with a job goes on with it (its polls have a deadline and every
MetaTrader call a timeout), and every key has a TTL. Nothing is assumed of claims or failures.

**Findings.** `TerminalPool_followup`: the sync after a verify releases and re-acquires the
lock and then believes its session without asking (mt5_adapter.py:71), although another
worker may have switched the terminal in between; run_worker.py:193 relies on the terminal
being warm. Not a run of its own: "only one process drives the MT5 terminal at a time"
(redis_lock.py:28) does not hold without an overrun either, since a switch logs in on the
terminal the process is attached to (mt5_adapter.py:76) and its lock may be another worker's.
That is the `strayed` of `ForeignHistoryNeedsWarmth`.

## 5. TradeMap and SyncJob

`TradeMap.tla` has the part of `deals_to_trades` and `deals_to_cashflows` that decides which
deals make a row and under which ticket. `SyncJob.tla` is `run_sync_job` for one account. The
broker makes deals as the clock runs and may show them late (`Tick`, `Deal`, `Settle`).

| Code | Actions |
|---|---|
| `_resolve_sync_window` | `ResolveWindow` |
| lock timeout, failed login, a read that raises, a death before the read | `NoHistory` |
| `history_deals`, chunk by chunk, `or []` | `ReadHistory`, `BlindRead` |
| nothing in the window | `NothingNew`, `NothingFound` |
| `upsert_trades`: batches, then the watermark | `SaveTrades`, `SaveTradesRaises`, `Stamp`, `StampRaises` |
| `upsert_cashflows`, `_mark_backfill_done` | `SaveCash`, `SaveCashRaises`, `MarkBackfill` |
| a death later | `Crash` |

**Data.** Deals are numbered in time. A deal is an entry, an exit, a cash operation or one
that `keep_history_deal` drops (`KeepHistoryDeal`: reversals of netting positions and closes
by an opposite position, mt5_adapter.py:21, never reach the journal). It is a fill of an
order, and an order may have several. The ticket of a row is an order (trade_map.py:108-116),
so that the rows of two fills of a closing order collide: the last one is left, or, if they
are in one batch, PostgreSQL refuses it (`Collide`, `Upserted`, `SaveTradesRaises`). The
latter repeats with every pull until the fills are in different batches or out of the window;
the docstring promises one row per exit (trade_map.py:63). `OrderAssumption` says that an
order opens one position or closes one, which leaves out the order of a netting account that
closes a position with one fill and opens the opposite one with the next (with a single fill it
is a deal of entry 2, which is dropped).
A row stands for its exit; prices, fees, directions and R multiples are left out. The export
EA gives every closed order of MT4 as an entry and an exit with that order's number; in the
model such an order is an exit without entry, which gets the same ticket.

A failed batch has stored any part of its rows; the answer of a watermark write may be lost.
The stage and the error of a sync are left out: they are shown to the user only, the API
writes the stage as well (`queued`, routes_jobs.py:182 and 299), at times after the job has
ended, and a sync that follows a verify and misses the lock leaves it at "connecting"
(run_worker.py:202). The code does not promise that the stage ends with the job, and it does
not.

**Run.** `SyncJob` has two workers and a position that is closed, gets another entry and is
closed again, so that a pull without the first deals makes one exit take the ticket of
another; a withdrawal; jobs of at most one time unit and one fault. The overlap of two is the
smallest that the assumption of section 7 admits with such jobs, the lookback of three is more
than the overlap, and the clock runs to three, so that a watermark passes a deal by more than
the overlap; the broker stops at two (`LastDeal`), as a deal at the end of the clock has no
sync after it. A deal may be late, but within its time unit (`SettleDelay` is zero). Explored
by hand, and holding as well:

* an order that closes a position in two fills (`Fills*` in `MCSyncJob`), without `LastDeal`
  (3.8 million states);
* a delay of one unit, an overlap of three, lookback and clock of four, deals at zero and one
  (3.6 million states);
* the instance of the run without `LastDeal` (3.9 million states).

`NoHole`: no closing order and no cash operation falls between two syncs. It is stored or
about to be, or the next window starts before it, although the watermark is the clock at the
end of the writes and not the end of the window, jobs of the account overlap, requests fail,
workers die and rows collide and replace each other. It does *not* say that nothing is lost:
what falls out is named, and these are the weak points of the code.

* A blind read or a failed cash write (`missed`): the watermark advances all the same
  (mt5_worker.py:352 and 408).
* An account for which no sync was stamped for longer than the lookback (mt5_worker.py:81).
* An exit of a position that got another entry later (`Reopened`): stored once under that
  entry's order, it may be replaced (supabase_client.py:177).
* All but one of the fills of a closing order: `NoHole` asks for a row of the order.

**Finding.** `SyncJob_rows`: `OneRowPerExit` fails. The ticket of a row depends on what the
window holds (trade_map.py:108): an exit stored under its entry's order is stored once more,
under its own, by a later window that starts between the two.

`NoHole` is safety. That a failed sync is repeated is the queue's affair (section 3), so
`SyncJob` has no fairness. Deadlock is checked: a worker can always start a job.

## 6. Mt4Ipc

`Mt4Ipc.tla` has the adapter and the expert advisor of each terminal on their request and
response file. Nobody compares request ids; what keeps the pair together is the order of
clearing, writing, reading and deleting.

| Code | Actions |
|---|---|
| lock, end of a job | `Claim`, `Acquire`, `LockTimeout`, `Finish`, `FinishFailed`, `ForcedShutdown` |
| `initialize` | `AskWarm`/`SkipWarm`, `AskCold`/`CannotAskCold`, `Launch`/`LaunchFails`, `TakeVerify` |
| `history_deals` | `AskHistory`/`CannotAskHistory`, `TakeHistory` |
| `_wait_response` | `TakeVerify`, `TakeHistory`, `WaitTimeout` |
| `_kill_stale_terminals` (every terminal of the host) | `KillAll`, within `Launch`, `LaunchFails`, `FinishFailed`, `ForcedShutdown` |
| `HandleRequest` | `EaRead`, `EaWrite`, `EaWriteFails`, `EaDelete` |

**Data.** A request is its action, its account and `old`, the model's own mark of a request
that is no longer the last one. `crossed` and `disturbed` are history variables; they are
never read by a guard. Each job ends in a shutdown, which resets `_session_ready`: a warm MT4
session never survives a job, so initialize always asks. Files that cannot be removed or
written, launches that fail and waits that end too early are faults, bounded by `MaxFaults`.
A wait whose answer will not come, or comes only after the advisor's own wait for its
connection, ends without a fault.

**Left out.** Workers do not die here and leases do not run out; `TerminalPool` has both. A
lease is refreshed with every history request, whose wait (120 s) is shorter than the TTL
(900 s, config.py:51). The adapter also looks after each history request whether its terminal still runs, and
relaunches it (`_ensure_terminal_running(force_restart=False)`, mt4_adapter.py:226). A terminal
that was launched through schtasks or found running counts as running until the shutdown
(`_ExternalProc.poll` is always None), so that this does nothing; the model takes every launch
to be one of those. It leaves out the fallback, a direct `Popen` (mt4_adapter.py:562), whose
process may be seen to have died; its relaunch would end the other terminals of the host like
any other (`disturbed`).

**Run.** `Mt4Ipc`: two workers, one terminal, two accounts, one fault. The instance with two
terminals and no fault, where one worker's shutdown kills the terminal of another, holds as
well (2.2 million states, explored by hand).

* `AnswersAreFresh`: a worker never finds the answer to an older request, except after a
  request written while the advisor was still at the older one, or beside a response that could
  not be removed.
* `HistoryIsOwn`: a job that pulls a history has before it a terminal logged in to its own
  account, unless the terminal was disturbed.
* `UnansweredIsDisturbed`: a history request that nobody will answer any more, and which then
  counts as a chunk without deals, was disturbed: by a forced shutdown of another worker (also
  by that of a verify that only missed the lock, run_worker.py:226), or by the advisor, which
  deletes the request file after its response and may delete the next request with it.
* `JobsEnd`: every job ends.

**Fairness.** Waits have deadlines and a running terminal calls its advisor on a timer (weak
fairness). A range of history has finitely many chunks; the model leaves their number open
and has strong fairness of `LastChunk` instead: a job that takes chunks for ever meets the
last one.

**Also seen.** A cold login writes its request before it kills the leftover terminal
(mt4_adapter.py:155 and :519, with comments at :160 and :518 that give the reasons for the
one and the other). The leftover may answer before it dies, for the account it was on, and
the new terminal's login is then judged by that answer. `HistoryIsOwn` excludes it by
`disturbed`; without that conjunct of `Launch`, TLC finds the violation. In general `crossed`
and `disturbed` name what the code does not prevent: a late answer, a request deleted late, the
login judged by a leftover, another worker's shutdown. The properties show that there is
nothing else, and not that these do no harm.

## 7. Proofs

All theorems hold for every value of the constants that satisfies the named assumptions of
the modules.

**JobQueue** (assumptions: clients and workers are different, every id has a slot, `NoJob`
is neither an id nor a slot, the bounds are naturals).

* `JobQueueProofs`: `TypeCorrect`, `Spec => []TypeOK`. `TypeOK` is not inductive: that the
  call of a returning `enqueue_job` carries a payload of a slot needs to know at which
  steps a worker can have a call (`CallSteps`). `TypeInv` is their conjunction; `TypeInit`,
  `CallTypeStep` and `TypeStep` have one step per action.
* `JobQueueMarkerProofs`: `MarkersUnique` (`Spec => []OneMarker`), `WedgesComeFromFailures`
  and `WedgesStay`. `MarkerStep` first reduces the 32 actions to six kinds of step
  (`Quiet`, `Dropping`, `Adding`, `Pushing`, `Popping`, `Releasing`), which say what
  happens to the list, to `pending` and to who carries a marker. `OneMarker` is inductive
  given `TypeInv`: a SADD is answered 1 only for a slot that is not pending, hence has no
  marker, and every other step moves or drops the one there is.
  `WedgesComeFromFailures` holds by `WedgeNeedsCarrier`: the actor that fails is the one
  that carries the marker. `QueueRefines` (`Spec => RefinesCoalescingQueue`): `WorkMove`
  reduces the actions to four kinds; the one that needs an invariant is the SREM, which
  implements `Start` because `OneMarker` says that the slot of a marker in a worker's hands
  is still owed.
* `JobQueueRequestProofs`: what becomes of requests. `RequestInv` adds to `TypeInv` and
  `OneMarker` that a payload is kept under the slot of its id (`LatestSlot`), that a worker
  works on its marker's slot though coalescing changes the id (`SameSlot`), and that only
  a recovery has entries to requeue (`TodoSteps`).
  * `LossesExplained` (`Spec => LossNeedsFragileFailure`). `Accounted` has five alternatives
    and each has a lemma that says where it goes in one step: `StartingStep`, `ServingStep`,
    `RequeuingStep`, `RecoverableStep`, and for markers `WedgeNeedsCarrier`. A requeue that
    returns leaves its slot pending (`CallLeavesPending`), and a slot leaves `pending` only
    by the SREM of a claim (`PendingLeaves`), which then is `Starting`. `ServingFails` is the
    crash during a run: the entry is recoverable afterwards if it was but for that worker.
  * `RequestsKept` (`Spec => []NothingLost`) follows, once no slot is wedged without
    failures (`NoWedge`).
  * `LatestClaimed` (`Spec => []LatestIsClaimed`) is inductive given `NoWedge`: a marker that
    is popped stays with its claimer until the HDEL, and `ClientKeeps` says that no other
    process touches an API thread's call.
  * `QueueDrains` (`Spec => []EntriesDrained`) needs `EntriesLive`: without failures an entry
    belongs to a worker between its claim and its ack.

  The invariants were checked by TLC before they were proved, on the instance of
  `JobQueue_safety` and on one with two slots.

**TerminalPool** (assumptions: the preferred terminals and the pool are terminals, the nulls
are none of the sets, the bounds are naturals).

* `TerminalPoolProofs`: `TypeCorrect`. Inductive as it stands; a warm session has a terminal
  behind it, which the switch needs. `LeaseRefines`, by kinds of step (enter, leave, lapse, or neither)
  under the refinement mapping `users`, `lapsed`. `Enter` is implemented because a key that
  does not exist makes every user of the terminal a lapsed one. `ForeignExplained`
  (`Spec => []ForeignHistoryNeedsWarmth`) needs `Owns`: without an overrun, whoever is
  between acquire and release has the token in the key, so that a login by somebody else
  on its terminal is a stray one. `LocksExclude` draws from it that a terminal has one
  worker at a time as long as no lease has run out; what is left after that is `LeaseRefines`.

**SyncJob** (assumptions: deals are finitely many positive naturals, each of some kind, and an
order opens or closes one position; `Backfill` reaches back to the beginning; and
`2 * MaxSpan + SettleDelay <= Overlap`).

* `SyncJobProofs`: `TypeCorrect`. Its lemmas say what an upsert does to the table
  (`UpsertedFacts`): a ticket is that of an order with an entry or an exit, and the row that is
  left is one of those that had the ticket. Two exits of one pull share a ticket only if they
  are fills of one order (`TicketsOfOneOrder`), so that a closing order that was pulled has a
  row after the upsert though its fills collide.
* `SyncJobHoleProofs`: `HoleFree` (`Spec => []NoHole`). The inductive invariant `IInv` adds
  to `NoHole` the order of time (`TimeInv`), where a row can be found (`RowInv`) and, for
  each job, that what lies before its window was kept when the window was chosen
  (`WindowInv`), that its pull has what settled in time (`PullInv`), and that once it has
  saved, everything is kept or too recent for its own watermark to pass (`SavedInv`). TLC
  checked `IInv` on the instance above before it was proved.
  The assumption is where the constants of the code meet: the watermark is up to `MaxSpan`
  later than the end of its window, a deal may show up to `SettleDelay` late, and the row of
  an exit may be replaced by a job that began up to `MaxSpan` before the one that stored it.
  With an overlap of 24 hours, jobs below, say, ten hours and a settling delay below four
  are safe. With a weaker assumption the proof does not go through.

**Mt4Ipc** (assumptions: the nulls are none of the sets, `NoFile` is no request or response).

* `Mt4IpcProofs`: `TypeCorrect`; `FreshCorrect` (`AnswersAreFresh`), from an invariant on each
  terminal (`Fresh`): what is old in the response file or in the advisor's hands is in
  `crossed`, and the request file is never old; `AccountCorrect` and `RequestCorrect`
  (`HistoryIsOwn`, `UnansweredIsDisturbed`), from an invariant on each worker (`OwnInv`): after a
  login was asked for, a response is by the terminal as it is (`LoginInv`); during a history
  the terminal is on the job's account (`AccountInv`); a history request lies in its file
  until there is a response (`RequestInv`). `LeavesOthers` shows the non-interference: a step
  of another worker leaves a terminal as it is, because the lock is not its own, or disturbs
  it. Every part is disabled for a disturbed terminal.

Only model-checked: `ServedOrLost`, `LocksAreFreed` and both `JobsEnd`, because liveness
under fairness is out of the prover's reach. Every other property of a passing run is the
subject of a theorem.

## 8. Not modelled

* Job results and queue positions: one write against one. `PROJECT.json` names the race of
  the API's "pending" with the worker's "done".
* `resolve_terminal_path`, a longest prefix over a static map, is the constant `Preferred`.
* The stage and the error text of a sync, written by the API and the workers for the user.
* The columns of a row, prices, R multiples, time zones and formats; credentials and their
  decryption, which keep no state.
* How an MT4 terminal is launched on the desktop, the posting of its All History command and
  the time stamps of files.
* Scripts, deployment, configuration, authentication and logging keep no state the
  properties could be about.
* Starvation of first syncs by requests that jump the queue (redis_queue.py:138) needs
  infinitely many ids.
