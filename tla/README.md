# Verification of cpa-core

This directory holds TLA+ models of the credential scheduling core of cpa-core
(`sdk/cliproxy/auth`, `internal/registry`, and the parts of `sdk/cliproxy`,
`sdk/api/handlers`, `internal/watcher`, `internal/wsrelay` and
`internal/api/handlers/management` that drive it), the TLC configurations that
check them on small instances, and TLAPS proofs of their main properties for every
value of the constants. `PROJECT.json` lists components, runs, mutants, hazards,
theorems, and the source lines of every definition that models code.

cpa-core is a proxy: it accepts requests in several LLM dialects, picks one of many
upstream credentials ("auths") for each, translates, executes, and records the
result. The part that is hard to get right is not the translation but the
bookkeeping: which credential may serve which model now. It is kept three times, by
three objects with three mutexes, and changed by requests, file changes, operators,
token refreshes and catalog refreshes at the same time.

## 1. Inventory

### The scheduling core

| Component | State | Operations | Correct when |
|---|---|---|---|
| **Manager** (`auth/conductor.go`) | `m.auths`: per credential `Disabled`, `Status`, `Unavailable`, `NextRetryAfter`, `Quota`, `LastError`, `ModelStates[model]`; `m.mu` | `Register`, `Update`, `Load`, `MarkResult`, `ReconcileRegistryModelStates`, `refreshAuth`, `markRefreshPending`, picks | cooldowns end, the aggregate agrees with the models, one model's result does not touch another's cooldown |
| **Scheduler** (`auth/scheduler.go`) | per credential a `scheduledAuthMeta` and one entry per model; ready lists per priority with cursors, a list of blocked entries; its own mutex | `rebuild`, `upsertAuth`, `removeAuth`, `pickSingle`, `pickMixed` | an entry agrees with the manager's record and with the registry; a pick finds a ready entry if there is one |
| **Model registry** (`internal/registry/model_registry.go`) | per model a count, a count per provider, quota marks, suspensions; per client its list and provider; the cached model list; its own mutex | `RegisterClient`, `UnregisterClient`, `Set/ClearModelQuotaExceeded`, `Suspend/ResumeClientModel`, `GetAvailableModels`, `GetModelCount`, `CleanupExpiredQuotas` | counts are those of the clients, marks go with their binding, the cache agrees with the tables |
| **Service** (`sdk/cliproxy/service.go`) | the queue of auth updates, the watcher, the catalog callback | `applyCoreAuthAddOrUpdate`, `applyCoreAuthRemoval`, `refreshModelRegistrationForAuth`, `emitAuthUpdate` | after a load or removal the three records agree |
| **Management API** (`api/handlers/management/auth_files.go`) | none of its own | `PatchAuthFileStatus` and the other edits of a credential | an operator's decision stays |
| **Request execution** (`conductor.go` `Execute*`, `executeMixedOnce`, `shouldRetryAfterError`; `sdk/api/handlers`) | per request: tried and attempted credentials, the last error, the attempt number; for a stream two goroutines and three channels | pick, execute, report, wait for a cooldown, try again; streams: bootstrap, forward, report once, start again before the first byte | ends; one result per attempt; one source per answer; never retries an invalid request |
| **Auto refresh** (`auth/auto_refresh_loop.go`) | a heap by due time, a dirty set, a wake channel of one token, a job channel; `NextRefreshAfter` in the record | `queueReschedule`, `applyDirty`, `handleDue`, workers | a due credential is refreshed; no reschedule is lost; not twice at a time |
| **Session affinity** (`selector.go`, `session_cache.go`) | session → credential with expiry | `Pick`, `Get`, `GetAndRefresh`, `Set`, `cleanup`; `InvalidateAuth` exists and is never called | a live binding is kept, a session stays with its credential |
| **File watcher** (`internal/watcher`) | hashes of the files and of the configuration, `currentAuths`, `runtimeAuths`, the debounce windows, the reload timer | `processEvents`, `reloadConfig`, `refreshAuthState`, `DispatchRuntimeAuthUpdate` | what it holds is what the files, the configuration and the sessions say |
| **Dispatcher and queue** (`watcher/dispatcher.go`, `Service.authUpdates`) | pending updates by credential, a channel of 256, a consumer | `dispatchAuthUpdates`, `dispatchLoop`, `consumeAuthUpdates` | the last update of a credential is the one that is applied |
| **WebSocket relay** (`internal/wsrelay`) | sessions by provider name; per session a `sync.Map` of pending requests with a channel each | `request`, `dispatch`, `cleanup`, `NonStream`, `Stream`; `handleWebsocket`, `Stop` | every call gets its answer or an error, and no goroutine waits for ever |

How they interact. A request calls `pickNextMixed`, which asks the scheduler; if the
scheduler finds nothing, `syncScheduler` rebuilds it from the manager and asks again.
The executor's outcome goes to `MarkResult`, which changes the manager's record under
`m.mu`, releases it, inserts a clone into the scheduler, and then marks the registry. A
file change goes through the watcher and the queue of updates to
`applyCoreAuthAddOrUpdate`: manager, scheduler, registry, manager (reconcile), scheduler.
The scheduler reads the registry whenever an entry is built. The updates themselves come
from four sources: files and configuration through the watcher, relay sessions through
`DispatchRuntimeAuthUpdate`, and the management API through a hook that also applies them.

What is hard there: no mutex covers two of the three objects, so every operation is a
sequence of critical sections that others interleave with; clones are taken under one
mutex and used under another; `Register` and `Update` share one object with the
scheduler; a refresh waits for the upstream between its read and its write; a result may
arrive after its credential was removed; every cooldown depends on the clock; a stream is
answered by three goroutines that share one context; channels of the relay are closed by
one goroutine while another holds them.

### The rest

`PROJECT.json` "components" lists every part with its status. Outside the core: the
home dispatcher's client, translators and thinking conversion (pure conversions, by far the
largest part of the source), executors (HTTP; an attempt's outcome is nondeterministic here),
the usage queue with its Redis protocol (a chain of atomic queues that lose records by
design), the request event store (an SQLite database behind a writer with a bounded
channel), token stores, signature cache, login flows, access control, configuration,
logging, web panel and terminal UI. Section 6 says why they are left out.

## 2. Plan

Modules, in the order of importance of the behaviour. All of them are done.

1. `CredentialState`, `Credential`, `CredentialProofs` — one credential, the clock, every
   operation atomic.
2. `ModelRegistry`, `ModelRegistryProofs` — the registry, every method one action.
3. `AuthSync`, `AuthSyncProofs` — one credential in the three stores, every operation a
   sequence of critical sections of concurrent goroutines; composes what 1 and 2 keep
   atomic, with their data abstracted.
4. `AutoRefresh`, `AutoRefreshProofs` — the refresh loop: heap, dirty set, wake token,
   jobs, workers, the pending backoff.
5. `CredentialRequest` (what a request asks for), `CredentialChoice` (the abstract
   specification: any free credential that none surely free is better than) and
   `AuthScheduler` (shards, ready lists, cursors, blocked entries), the last shown to
   implement the second, by TLC and in `AuthSchedulerProofs`.
6. `RequestLoop`, `RequestLoopProofs` — one request from the handler to its answer: rounds,
   bounds, cancellation, streams with their three goroutines.
7. `AuthUpdates` (how credentials come and go: watcher, reload, relay sessions, management
   hook, dispatcher, consumer; its proofs stand in `CredentialProofs`), `RelaySession` with
   `RelaySessionProofs` (the pending calls of one session), `SessionAffinity` with
   `SessionAffinityProofs`.

What could come next: the refresh of one credential by two workers at a time (the pending
backoff of one minute against a slow upstream), several models of one credential under
concurrency, a change of the auth directory and the end of the watcher, and the upstream
websocket sessions of the Codex executor.

## 3. Modules

### CredentialState, Credential

`CredentialState` has no variables: it holds the record types (`Auths` for type `Auth`,
`ModelStates`, `QuotaStates`) and the functions that compute on them, one operator per Go
function: `UpdateAggregated` (`updateAggregatedAvailability`), `HasModelError`,
`QuotaCooldown` and `NextLevel` (`nextQuotaCooldown`), `MarkModelSuccess`,
`MarkModelFailure`, `MarkAuthSuccess`, `MarkAuthFailure` (the branches of `MarkResult`),
`Reconciled`, `BlockedForModel` and `BlockedWithoutModel` (`isAuthBlockedForModel`).
`Credential` puts one record and a clock under every operation that writes those fields.
An error is the class of its status code; 0 is Go's zero time; `tracked` is the key set of
the Go map. `1 << level` is a table with the twelve powers a cooldown can reach, so a level
beyond it is an error TLC and the type invariant see.

### ModelRegistry

Every exported method runs under one mutex and is one action. `bound[c][m]` is how often
client `c` lists model `m` (lists may repeat a model; their order is left out). `Rebind`
is the difference algorithm of `RegisterClient` on one model: the providers of the common
part move, the surplus goes, the missing comes, the client's marks are cleared, in the
code's order. `picked` is history: the bindings a result may still name, also when they
have been removed since. `Repeated` is the set of models a list may name twice. Model
metadata, the conversion to dialects and the hook are left out.

### AuthSync

One credential and one model that other clients serve too. `auth` is the manager's record,
`sched` the scheduler's entry, `reg` the registry's binding and marks. A goroutine is a
`task`: the list of critical sections it still has to do (`UpdateSteps`, `ResultSteps`, ...)
and what it has read. Which code each stands for:

| Operation | Code | Steps |
|---|---|---|
| result | `MarkResult` | change the record; insert the clone; quota mark; suspension |
| update | `applyCoreAuthAddOrUpdate` | read; `Register`/`Update` (store, insert); register models; read registry, reconcile, insert; snapshot, insert |
| remove | `applyCoreAuthRemoval` | unregister; read; store; insert |
| toggle | `PatchAuthFileStatus` | read; store; insert |
| refresh | `refreshAuth` | read; (upstream) store; insert — or failure or cancellation |
| catalog | `refreshModelRegistrationForAuth` | read; register, reconcile, insert; read again; undo, or do again |
| resync | `syncScheduler` after a failed pick | snapshot; insert |

The object `Register` and `Update` put into both stores is followed by the flag `live`: an
in-place change of the manager shows in an entry that is live, and in the copy of a task
that holds the pointer. Data is abstracted: a model state is absent, clean or cooling; a
result is a success or a quota error; the content of a file is a model value; the clock is
left out, so a cooldown lasts until a result or a registration ends it. Updates and
removals come from one queue drained by one goroutine (`ServiceFree`); with `InlineUpdates`
the queue is full and `emitAuthUpdate` applies them itself, so they overlap.

### AutoRefresh

The loop of `auto_refresh_loop.go`, its workers, and callers that register and edit
credentials. `auths` keeps of a record what decides when to refresh it. `queue` is the heap
with its index, `dirty` the dirty set, `wake` the token of the wake channel, `jobs` the job
channel; `task` says what a worker or caller has still to do, and `loop` where the loop is
and what it holds: the credentials popped as due, or the batch drained from the dirty set.

| Code | Actions |
|---|---|
| `rebuild`, `loop`, `resetTimer`, `popDue` | `Rebuild`, `ReceiveWake`, `FireTimer` |
| `handleDue`, `handleDueAuth` | `Look`, then `MarkPending` in a second critical section, then `Send` (blocking) or `LookAgain` |
| `drainDirty`, `applyDirty` | `DrainDirty`, `ApplyDirty` one credential at a time |
| `worker`, `refreshAuth` | `Take`, `Answer`; then the reschedules of `Update` or of the failure, and the worker's own |
| `queueReschedule` | `MarkDirty`, `SendWake` |
| `Register`, `Update` | `Change` |
| `MarkResult` | `ReportResult`: the error is set or cleared in place, and the loop is told nothing |

An instant is stored as the time left until it; `Tick` brings every instant nearer. The loop
reads the clock once a round, so a round that is blocked works with an old reading:
`loop.lag` is its age. `nextRefreshCheckAt` and `shouldRefresh` are modelled with one instant
for "to be refreshed from now on" (the expiry minus the provider's lead). No runtime in the
repository implements `RefreshEvaluator`, so that branch is left out. `forgotten` is
history: the credentials that left the queue for a 401 which a result then cleared.
That an edit stores what it read earlier is the subject of `AuthSync`.

### CredentialRequest, CredentialChoice, AuthScheduler

`CredentialRequest` holds what does not change: the requests (`route`, the list of
providers; `model`; a pinned credential; whether the client is on a websocket; the
credentials tried before) and the snapshots (`shape`: provider, priority, parent, websocket
capability, `StatusDisabled`, models; `hold`: the cooldown of each model).
`CredentialChoice` says what any selector owes a request: `Choose` and `Refuse`, by a look
at all credentials. `AuthScheduler` is `scheduler.go`, every method one action:

| Code | Definitions |
|---|---|
| `upsertAuth`, `removeAuth`, `rebuild`, `setSelector` | `Upsert`, `Remove`, `Rebuild`, `SetSelector` |
| `ensureModelLocked`, `upsertEntryLocked`, `promoteExpiredLocked`, `rebuildIndexesLocked` | `Ensured`, `Upserted`, `Promoted`, `Rebuilt` |
| `snapshotReadyViewCursors`, `restoreReadyViewCursors` | `Restored` |
| `pickRoundRobin`, `pickGroupedRoundRobin`, `pickFirst` | `IsNextIn`, `Advanced`, `IsFirst` |
| `pickSingle`, `pickMixed` | `PickSingle`, `PickPinned`, `PickMixed` |

A list sorted by ID is a set, and a cursor counts positions in the order of the IDs. `Held`
is the refinement mapping: the snapshot of the provider the scheduler has a credential with.
The abstract choice has two instants per cooldown, because the code has: an entry is promoted
at `Quota.NextRecoverAt` when that lies ahead, while `isAuthBlockedForModel` frees the
credential at `NextRetryAfter`; in between it may be chosen but need not (`SurelyFree`).

### RequestLoop

One request of one client. `stage` and `loop` are the manager's `Execute*` (`executeMixedOnce`
and its two siblings, with the rounds around them), `fwd` the goroutine of
`wrapStreamResult`, `handler` that of `ExecuteStreamWithAuthManager`, `errs` and `data` its
channels, `writer` the HTTP handler with its peek loop and `ForwardStream`. `Pick`, `Call*`,
`Bootstrap*`, `Retry`, `WaitEnds`, `TryCredits` and `GiveUp` are the conductor's branches in
their order; `Forward*` the forwarder's; `Handle*` and `Restart` the handler's; `Write*` the
writer's. `Disconnect` may happen at any instant, and the context ends by `CancelContext`
later. Which credential a pick gives, what the upstream answers and whether a cooldown is
short enough to be waited for are open. `calls`, `mark`, `served`, `late` and `invalid` are
history.

### AuthUpdates

`disk` and `configFile` are the outside; `hashes`, `configHash`, `config`, `runtime` and
`current` the watcher's fields; `pending` and `batch` the dispatcher's; `queue` the service's
channel; `manager` what the consumer has applied. A goroutine has a `step`, what it has read
(`seen`) and the updates it holds (`held`). The names that every module has begin with
`Updates` here (`UpdatesNext`, `UpdatesTypeOK`), for its proofs stand next to those of
`Credential`:

| Code | Actions |
|---|---|
| `processEvents`, `handleEvent` | `HandleWrite`, `HandleRemove`, `CheckReplaced`, `UpdateClient`, `RemoveClient` |
| `scheduleConfigReload`, `reloadConfigIfChanged` | `TimerFires`, `ReloadConfig` (read for the hash), `Rehash` |
| `reloadConfig` | `LoadConfig` (read again, before the lock), `StoreConfig` |
| `reloadClients` | `Rescan` at the start, `ForgetAffected` in a reload |
| `refreshAuthState` | `TakeSnapshot`, `Install` |
| `prepareAuthUpdatesLocked`, `dispatchAuthUpdates` | `Differences`, `Dispatch`, `Coalesced` |
| `dispatchLoop`, `consumeAuthUpdates` | `TakeBatch`, `SendUpdate`, `Apply` |
| `ApplyConfigSnapshot` of the management API | `SaveConfig`, `SetConfig`, `ApplyHere`, `HookDone` |
| `handleWebsocket`, `session.cleanup`, `Manager.Stop` | `Connect`, `Announce`, `Disconnect`, `StopSessions`, `Forget` |

A file may hold a version or be `Broken`: empty or cut short while it is written, which
`addOrUpdateClient` leaves alone. Each credential has a `Provider`: an edit that changes the
excluded models of some providers makes `ForgetAffected` drop all their entries, of files, keys
and sessions alike, and whose lists it changes is left open.

The code promises nothing for data computed before a lock and used after it, so three history
variables name the exceptions: `ordered` (the latest update of the credential was computed
while nobody else held one), `stale` (its entry was computed from a snapshot that had been
overtaken) and `ignored` (its removal fell into the window of another). A fourth, `forgotten`,
names the credentials whose entry a reload dropped and of which nobody has sent an update
since. They stay in `ordered`: `ManagerFollows` excuses them only while they have no entry, and
a session only until the reload has refreshed the entries (`Unannounced`). For a key that was
removed by the same edit there is no such end: the manager keeps it.

### RelaySession

One session. `pending`, `channel` and `shut` are the `sync.Map` and the channels in it; a
`call` is in `request` (`Store`, `Load`, `Write`) and then in `NonStream` or `Stream`
(`Receive`, `ReceiveClosed`, `GiveUp`); each has a `watcher`, the goroutine that waits for
its context; `reader` is `session.run` with `dispatch` (look up, send, close, delete: four
steps); `cleanup` goes through the map with `Range` and then replaces it, without a lock.
While it is being replaced (`Replacing`) a lookup may miss, find, or meet the half-written
map. A send on a closed channel is `Crash`: nobody recovers it, and the process ends.

### SessionAffinity

The session-affinity selector and its cache, with several picks at a time. A pick is the
sequence `Hit` or `Miss` (`GetAndRefresh` and `Get`), `Peek`, `Check`, `Drop` (the read, the
look at the clock and the deletion of `Get` on the key of the first turn), `Choose` (the
wrapped selector) and `Bind` (`Set`). Expiry and `cleanup` read the clock before they take
the lock, so each holds an old reading. `SetSelector` is a change of the routing settings.
`promise`, `used` and `alone` are history.

## 4. Runs

| Run | Shows | Instance |
|---|---|---|
| `credential` | `TypeOK`, `CooldownsEnd`, `AggregateExact`, `NoCrossRelease` | two models, or one when an embedder reports results without a model (`OneModelIfEmbedded`), clock to 3; the quota maximum (3) cuts the second step of the backoff (2, 4), and every hold ends within the clock |
| `registry` | `TypeOK`, `CountsMatchClients`, `CacheCoherent`, `ListSound`, `MarksEndWithBinding`, `RegisteredAfresh` | two clients, two models of which one can be marked and listed twice, a provider or none, clock to 3 with a quota window of 2; late results too |
| `auth_sync` | `TypeOK`, `SchedulerRepaired`, `BindingRepaired`, `CooldownReconciled`, `Heals` (liveness) | two goroutines, two contents, four operations of all kinds and any number of resynchronisations; updates may overlap (`InlineUpdates`); `FairSpec` assumes nothing of requests, no symmetry |
| `auth_sync_disabled` | violated: `EnabledByOperator` | refreshes and toggles, three operations |
| `auto_refresh` | `TypeOK`, `NeverLost`, `NoMissedWake`, `RefreshTriggered` (liveness) | one credential, one worker, one caller, a job channel of one; holds of 1 and 2, a token good for 2, a round of at most 1; two changes; `FairSpec` |
| `auto_refresh_forgotten` | violated: `FreshnessEvaluated` | the same |
| `auth_scheduler` | `TypeOK`, `OneProvider`, `IndexCurrent`, `Rotates`, `ImplementsChoice` (refinement) | three credentials, two providers, two priorities, two parents, one model; clock to 1, three changes |
| `requests` | `TypeOK`, `CallsBounded`, `OneSource`, `SuccessRecorded`, `CancelledStops`, `OneResult`, `InvalidIsFinal`, `Settles` (liveness) | two credentials with pools of two and of one model, a retry round for one of them, credits for one; `max-retry-credentials` 0 or 1, one bootstrap retry, one further chunk; `FairSpec` |
| `requests_lost_error` | violated: `ErrorSurfaced` | the same |
| `auth_updates` | `UpdatesTypeOK`, `ManagerFollows`, `SourcesFollowed` | one file, key, relay session, reload and hook, one version or a broken file; the file and the key of one provider, the session of another; a queue of one; two changes |
| `relay_session` | `SuccessIsComplete`, `CrashNeedsAnEnd`, `CallsEnd` (liveness) | two calls, the context of one may end; a buffer of one, two messages; `FairSpec` |
| `session_affinity` | `Sticky`, `Retained` | two credentials, the keys of the first and the later turns of a conversation, two picks; bindings good for 1, clock to 3 |

The bounds. `MaxNow`, `MaxCopies`, `MaxOps`, `MaxInFlight`, `MaxChanges`, `MaxMessages`,
`MaxChunks` and `Lag` bound what is unbounded in the code; `Repeated`, `MarkedModels`,
`Mortal` and `OneModelIfEmbedded` keep a run small by letting one of two identical things do
what either can. They are the only bounds, and are named so. Two models and two clients are
enough for "one must not be charged for the other". Two goroutines at a time are enough for
a race between two operations, and four operations for a race, what it leaves behind, and
the operation that repairs it. In `auto_refresh` the pending hold is as short as a round may
be, so a credential falls due again while its job still waits, and the channel of one (64 or
more in the code, with 16 workers) does fill up and block the loop. Three credentials are
what a rotation needs for a cursor to be wrong about one of them, and three changes what it
takes to fill two of them in and change one. In `requests` every retry that the code has is
allowed once. A queue, or a buffer, of one fills up with one message behind the one that is
being handled; the code has 256 and 8. The proofs below do away with the bounds for the
invariants they cover. No run checks for anything that a bound keeps from happening: each
property has a mutant of the code that its run refutes.

Deadlock is checked in all runs but two. In `auth_updates` the outside may have used up its
changes, and then nothing is left to do; in `relay_session` a panic ends the process, and a client that has said all it will may leave a call waiting, as in the code. None of the
others may stop: requests still pick and resynchronise, results still reach a credential
when the clock has run out, and `RequestLoop` says where it is over (`Over`).

Fairness. `FairSpec` assumes that a started operation goes on (`WF` of each task's steps:
Go schedules goroutines that are not blocked). In `AuthSync` nothing is
assumed of requests, results or updates: a resynchronisation is started by a pick that fails as
a whole (`pickNextMixed` then calls `syncScheduler` and asks again), and while another
credential serves the model no pick need ever fail. So `Heals` has its condition in itself: *if*
resynchronisations keep coming, the credential is again and again in the lists or not usable. In
`AutoRefresh` the loop, the workers, a `queueReschedule` that has begun, and time go on.
That an upstream answers in the end (`WF` of `Answer`, and in `RequestLoop` of a call and of
a stream that is read) is an assumption about the outside: the code has no timeout of a
request as a whole, and a call that never returns takes its goroutine away for good. In
`RelaySession` nothing is assumed of the client, of contexts or of the heartbeat: `CallsEnd`
speaks of calls whose answer was read, whose context has ended or whose session is closed.

### What the violated runs found

Each quotes, in `PROJECT.json` "findings", the comment that the code contradicts.

* `refreshAuth` stores what it read before the upstream call: a credential that was disabled
  meanwhile is enabled again.
* A credential whose `LastError` is a 401 leaves the refresh queue. `MarkResult` sets that
  error and clears it again on a later result, and tells the loop of neither: when the loop
  looked in between, the token is not refreshed again until the credential is stored anew.
  `NeverLost` and `RefreshTriggered` hold for all other credentials.
* When a stream fails before its first byte, the error and the closed data channel become
  ready together, and the peek loop of the HTTP handlers may take the closed channel: the
  client gets status 200 and an empty stream.

### Observations

Behaviour met while modelling that contradicts no sentence of the repository, or that a
property states as an exception.

* Registry. `GetModelCount` and the list subtract a client that is both over quota and
  suspended twice; one 429 makes it both. A client that lists a model twice and is suspended
  for it still counts once (`ListSound` exempts it).
* Synchronisation. A catalog refresh between the two halves of a removal registers the
  removed credential again. `MarkResult` and `syncScheduler` insert their clone after
  releasing the mutex, so an insert may undo a later `Update`; `SchedulerRepaired` says that
  the next operation that runs alone repairs it, and `Heals` that picks which fail as a whole
  do. While another credential serves the model and nothing happens to this one, it may stay
  out of use.
* Scheduler. Between `NextRetryAfter` and `Quota.NextRecoverAt` a better credential that is
  free may be passed over. Every pick that fails rebuilds the scheduler, which starts all
  cursors afresh, and cursors are positions, so membership that flaps may favour some.
* Requests. `wrapStreamResult` reports a failure also when the error in a chunk comes from
  the client's leaving, and for an empty stream whatever the context; the credits fallback
  of unary calls looks at the context once per credential, not per model, and goes on after
  an error that is the request's own fault (`InvalidIsFinal` speaks of errors found before
  the fallback); the `Retry-After` of a 429 that arrives in the
  bootstrap is lost in a type assertion; `max-retry-credentials` is read once per `Execute`.
* Updates. A file that is removed within a second of its replacement stays a credential; the
  configuration is hashed after the reload has read it; `refreshAuthState` takes its
  snapshot before the lock, and may overwrite a newer entry; the management hook applies its update at once, and an
  older queued one then overwrites it for good; updates held by two goroutines may arrive in
  the other order; `Manager.Stop` between the insertion of a session and its announcement
  leaves the credential of a closed session; a file that is removed between `Manager.Load`
  and the first snapshot stays; a file whose entry a reload forgot and that is gone when the
  refresh reads the directory gets no Delete from the refresh (its removal event sends one).
  A reload that changes the excluded models of a provider forgets all entries of that provider
  and lets the refresh add them again. An API key that the same edit removed is then neither in
  the old table nor in the new, so nobody sends its Delete: the manager keeps it, and requests
  go on using it, until the program starts anew. `ManagerFollows` names this exception.
  A reload may store the configuration it read over a newer one that the hook has set
  meanwhile; the next reload sets that right, unless the hash was taken of the newer file. The
  branch that replaces a session of the same name cannot be
  reached, because the names are random.
* Relay. `dispatch` and `cleanup` may send on a channel that a watcher has closed, which ends
  the process (`CrashNeedsAnEnd` says when it cannot); `cleanup` overwrites a `sync.Map` that
  others use; `NonStream` returns a truncated body as a success when a message was dropped or
  the context ended (`SuccessIsComplete` names both).
* Session affinity. `InvalidateAuth` is never called, although its comment says when; `Get`
  may delete a binding renewed since it looked (`Retained` names it); `GetAndRefresh` may
  shorten an expiry with its old clock; a change of the routing settings empties all bindings
  and leaves the old cleanup goroutine running; conversations that begin with the same
  messages share a key.

## 5. Proofs

All theorems hold for any finite set of models and clients, any number of goroutines,
operations, requests, contents and any hold times that satisfy the named assumptions
(`HoldAssumption`: positive holds, and a quota maximum within the twelve powers of two of
the table; `RegistryAssumption`, `AuthSyncAssumption`, `ClockAssumption`,
`ModelsAssumption`, `AutoRefreshAssumption`, `RequestAssumption`, `SchedulerAssumption`,
`LoopAssumption`, `RelayAssumption`, `AffinityAssumption`, `SourcesAssumption`: no goroutine
and no identifier has two roles, `ProviderAssumption`: every identifier has a provider, and
`BoundsAssumption`: the queue to the service has room for one update).

* **CredentialProofs.** `TypeCorrect`, `CooldownsEndAlways`, `AggregateExactAlways` (which
  speaks of the server itself, not of an embedder) and `NoCrossReleaseAlways`. The exactness
  of the aggregate compares stored fields with the present instant, so it is not inductive by itself. The
  invariant `IInv` is `TypeOK /\ Sound(cred, now)`: the record has its type, every cooldown
  is bounded, the status "disabled" never outlives the flag, and the aggregate `Matches` the
  models in terms that do not mention the present unless no instant is stored: a stored
  `NextRetryAfter` is the least of the models' and all of them are unavailable. From that,
  both sides of the property become false at the same instant as time passes. A lemma per
  function says that it keeps `Sound`, and the steps cite the lemmas.

  The second half is about `AuthUpdates`, where credentials come from: `UpdatesTypeCorrect`,
  `ManagerAlwaysFollows` and `SourcesAlwaysFollowed`, for any files, keys, channels, reloads
  and hooks, and a queue of any size. Neither property is inductive. `UpdatesInv` strengthens
  them part by part:
  * `Placed`, `HandsFull` and `SeenOK` say where each goroutine can be and what it then has in
    its hands or has read. `OwnMoves` is their use: a goroutine is moved by its own actions only.
  * `InOrder`, for `ManagerFollows`: of a credential whose latest update none could overtake,
    and whose entry no reload has forgotten since, one goroutine at most holds an update, and
    that update is the entry; nothing is on its way where a hook holds it, for a hook goes past the queue; and if nobody holds one, the last of
    what is on its way is the entry. `TravelDelivers` says that batch, queue and consumer keep
    the last update the last.
  * `ForgottenOK`, for the exception of `ManagerFollows`: what a reload forgot has no entry
    until somebody sends an update of it, and a session that was forgotten is still a runtime
    credential with a refresh to come, which then gives it its entry back (`ReloadEnds`).
  * `Sessions`, for the relay: the entry of a channel is what the runtime credentials say,
    unless it is forgotten (`Entered`), and before its session is announced nothing on its way
    says that it exists (`NotAnnounced`): else an update of an earlier refresh could arrive with it.
  * `FilesWatched`: what was last read of a file is what the disk holds, or the file is
    broken, or an event is still to come. For a file that is gone the event has to be a removal,
    because a write event finds nothing to read and is dropped.
  * `Refreshed`: a refresh is under way, or the entries of files and keys are what was last
    read of them; `ConfigKept`: a reload is due or under way, or the config in force is that of
    the file, or the hash last taken is.

  When nothing is busy, the last five are `SourcesFollowed`.
* **ModelRegistryProofs.** `RegistryTypeCorrect`, `MarksEndWithBindingAlways`,
  `CacheCoherentAlways`, `RegisteredAfreshAlways`, `CountsMatchClientsAlways`,
  `ListSoundAlways`. The invariant of the cache is `CacheInv`: a cache that may still
  be used holds the list that would be built now *and* the expiry that would be computed
  now. The second half is what makes it inductive: it says that no quota window of the
  tables ends before the cache does, so a tick that leaves the cache usable changes no list.
  `CountsMatchClients` compares a counter with a sum over the clients. The sum is stated as the
  number of pairs of a client and one of its copies (`Held`), so that a change of one client
  splits it into that client's copies and the rest (`HeldSplit`) and no induction over the
  clients is needed; `RebindCounted` follows the difference algorithm of `RegisterClient` with
  what it gives back and takes, in all and per provider. `ListSound` then needs only that the
  marks that hide a registration cannot cover more clients than hold it (`SuspendedCoverCount`).
* **AuthSyncProofs.** `AuthSyncTypeCorrect`, `SchedulerAlwaysRepaired`,
  `BindingAlwaysRepaired`, `CooldownAlwaysReconciled`. The invariant `IInv` has a phase per
  program and position (`ResultPhase`, `UpdatePhase`, ...): what the task's completed steps
  have established *if it has run alone so far* (its copy is the manager's record, the
  binding follows `disabled`, no cooldown is left). `Solitary` says that while one task runs
  alone all others are idle, so nobody can disturb its phase; the start of another task ends
  "alone", and the phase is then vacuous. When a task that was alone ends, its last phase
  gives the property. One lemma per critical section; `Advanced`, `OtherPhase` and `Moved`
  hold what all of them share.
* **AutoRefreshProofs.** `AutoRefreshTypeCorrect`, `CredentialsNeverLost`,
  `WakesNeverMissed`. `NeverLost` speaks of credentials that can be refreshed, and is not
  inductive: a result may clear the error of a credential whose entry in the queue nobody
  vouched for. `Kept` therefore says of every entry, whatever the credential's state, that it
  is in time unless the loop is still to look at the credential; `Structure` says what the
  loop holds at each of its places (the credential it is about to send is in the dirty set).
  Each step either leaves a credential alone, puts it in the queue in time, or sees to it
  that somebody is coming: `KeptIfUntouched`, `KeptIfRescheduled` and `KeptIfComing`.
  `OthersPreserve` and `ThenPreserves` do the same for workers and callers.

* **AuthSchedulerProofs.** `SchedulerTypes`, `AlwaysOneProvider`, `IndexAlwaysCurrent`,
  `SchedulerChooses`, the refinement, and `AlwaysRotates`. The invariant has three parts:
  `Basics` (types),
  `Shards` (each shard that is built is `ShardOK` for its provider's snapshots: its entries are
  right by the snapshot (`EntryOK`), and its index and blocked list are what a rebuild would
  make of them) and `Places` (a credential is with the provider
  `authProviders` names, and no other has it). The refinement is step by step: a pick
  promotes first, after which a ready entry is a free credential and one held back is held
  back by one of its two instants (`Fresh`), so the best the index gives is a choice that the
  look at every credential could make. `Rotates` needs a second inductive invariant beside
  this one, `TurnOK`: the remembered picks are the last ones before the cursors. A ready list
  is a set in order of its keys, so a cursor is a place in it, and `Distance` says how many
  picks are left before a credential is met (`Distances`: no two credentials have the same).
  A pick takes the credential at distance 0, lowers every other distance by one modulo the
  size and gives the picked one the largest (`NextIsFirst`); so the last pick but n stands n
  places behind the cursor (`Turning`, `TurningAppend`), and as many picks as the ring has
  places are of different credentials. For virtual credentials the ring is that of their
  parents. For a route with several providers the slots of all tiers together are one ring,
  cut into a segment for each provider: the route's cursor goes through the slots, and
  the own cursor of the provider is as far from a credential as the route's cursor is from
  that credential's slot (`Served`, `TurnsAcross`, `TurnsAcrossAppend`). The first invariant
  says that no credential is in the tiers of two providers (`GoodApart`) and that what is
  picked from is what a rebuild would make, so a rebuild keeps the ring and the places
  (`EnsuredSteady`). The property, and so the theorem, is about picks for one request while
  the indexes stay as they are: a change of a credential, a promotion or a pick for another
  request starts a new rotation from wherever the cursors then stand, which may be beyond a
  list that shrank or was regrouped.
* **RequestLoopProofs.** `RequestTypes`, `AnswerHasOneSource`, `AnswerIsRecorded`,
  `CancellationIsNoticed`, `CallsHaveOneResult`, `InvalidRequestsEnd`, `CallsAreBounded`. The
  goroutines take
  turns: `Turns` says which of them can be where at the same time (the forwarder runs only
  while the handler reads, the conductor only while it does not). `ServedLast`, `Results`,
  `InvalidEnds`, `LateEnds`, `CreditsLast` and `Ends` say, for each place a goroutine may be
  at, what has been sent, recorded and attempted by then; a step of one goroutine changes
  what the others' parts mention only where `Turns` says they are elsewhere. `CallsBounded`
  rests on `Within`: the calls made and the ones the credential in hand may still make
  (`Pending`) fit into what the starts of the stream that are over were granted, plus a full
  set of models per finished round, plus the models of the credentials tried in this one; in
  the credits fallback what is left to try fits into what is left of the grant. Again the
  models of a set of credentials are counted as pairs (`ModelsSplit`).
* **RelaySessionProofs.** `SessionTypes`, `AnswersAreComplete`, `PanicsNeedAnEnd`. `TurnsOK` and
  `CallOK` say where the goroutines can be, and that a call that was not sent has no messages;
  `CalmOK` that as long as no context has ended and the session is up, the map holds open
  channels only, and what the reader looked up stays in it; `Visited` that cleanup meets every
  call that was sent; `Answered` that whoever closed a channel left a terminal message in it,
  and that what was received, what is buffered and what the reader holds make up what the
  client sent; `Complete` is the property.
* **SessionAffinityProofs.** `AffinityTypes`, `SessionsStick`, `BindingsRetained`. `Kept` says
  that a promise that still stands is covered by a binding of the cache that lasts at least as
  long, unless a pick that is under way will void it; `Apart`, `LookedUp`, `Dropping` and
  `Inheriting` say what a pick that is alone has learned and that nobody can have changed it;
  `ClocksOK` orders the old readings of the clock. `MovesPreserve`, `ReturnPreserves` and
  `TimePreserves` hold what the steps share.

Only model-checked: `Heals`, `RefreshTriggered`, `Settles` and `CallsEnd` (liveness under
fairness is out of the prover's reach), and the violations. A proof covers the definitions
of these modules, not the Go code: that the definitions are the code is what the line map in `PROJECT.json` is there to review.

## 6. Not modelled, and why

* Most of the source by lines. The models cover the scheduling core, a few per cent of the
  implementation: the rest is conversions between dialects (the largest part), one HTTP client per
  provider, management handlers that read and write configuration values, the configuration's
  parsing and defaults, login flows, storage backends and logging. None of it keeps state that
  two actors change, beyond what the modules above have; its correctness is about the shape of
  documents and the behaviour of external services, which a model checker does not reach.
* Persistence (`persist`) and hooks of the manager: no scheduling field depends on them.
* The home dispatcher: the scheduler is then a remote program that is not in this repository.
* The legacy `RoundRobinSelector` and `FillFirstSelector`, which the scheduler stands in for
  unless a selector of an embedder or the session affinity is configured; whom they may
  choose is `CredentialChoice`.
* Several models of one credential under concurrency: `Credential` has several models with
  atomic operations, `AuthSync` one model with interleaved ones; the code treats the models
  of a credential independently but for the aggregate, which `Credential` covers.
* Results other than success and quota error in `AuthSync`: they differ in which registry
  mark they set, which `ModelRegistry` covers.
* The end of `StartAutoRefresh`'s context and a second start: the loop ends, or begins again
  with `Rebuild`. Two refreshes of one credential at a time, when one takes longer than the
  pending backoff.
* A token refresh is an upstream call whose outcome is free: success, failure, cancellation.
* The watcher's end (`Stop`, `stopDispatch`), a change of the auth directory, a configuration
  file that is empty or does not parse (the reload then does nothing), and home mode.
* Building the service, its servers, and shutdown.
* The usage queue and the request event store: chains of atomic bounded queues that drop
  records when full, and whose content nothing in the program depends on.
