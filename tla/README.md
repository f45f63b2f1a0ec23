# TLA+ models of ds2api

ds2api serves OpenAI-, Claude- and Gemini-shaped APIs out of a pool of upstream
DeepSeek accounts. This directory holds TLA+ specifications of the parts of it that keep
state, the TLC configurations that check them on small instances, and proofs of the main
results for all instances.

Paths below are relative to `src/`; `pool_*.go` is in `internal/account/`.

## 1. The system

A request passes through

    HTTP surface -> promptcompat -> auth.Resolver.Determine -> account.Pool
      -> completionruntime.StartCompletion -> deepseek/client (+ proof of work)
      -> stream / sse -> assistantturn / toolstream -> format

and gives its account back with `auth.Resolver.Release`. While it streams it writes its
progress to the chat history, and at its end its tokens to the usage ledger.
Administrators change the configuration at any time, timers and the clock act on the pool,
a supervisor runs the Mihomo proxy through which accounts call upstream, and a Vercel
deployment keeps a request's account in a lease while a Node process streams.

| component | state | operations | what is hard |
|---|---|---|---|
| account pool (`pool_core`, `pool_acquire`, `pool_waiters`, `pool_limits`, `pool_inflight`) | the queue, slots in use per account, waiter channels, limits, all under `Pool.mu` | `Acquire`, `AcquireWait`, `Release`, `Reset`, `ApplyRuntimeLimits`, `Status` | waiters against releases, cancellations and rebuilds; state read before the lock |
| per-minute limit (`pool_rate_limit`) | a window, a count and a timer per account | check, record, `SyncRateLimits`, timer callback | callbacks that wait for the lock; lazy resets |
| daily limit (`pool_daily_limit`) | date, counts, a file written at most once per interval | check, record, prune, flush, start-up | midnight, crashes, writes that fail, rebuilds |
| request authentication (`internal/auth`) | a `RequestAuth` per request; consecutive failures per account | `Determine`, `SwitchAccount`, `RecoverAuthFailure`, `MarkAuthFailure`, `Release` | every call may fail half-way; failures counted over requests that run side by side |
| client calls and start of a completion (`deepseek/client`, `completionruntime`) | session, attempts, kind of the last failure | `CreateSession`, `GetPow`, `CallCompletion`, `StartCompletion` | nested retry loops that change the account under their caller |
| stream of a completion (`completionruntime/stream_retry.go`, `client_continue.go`, `stream/engine.go`, `openai/chat`) | the attempt, the open bodies, what was shown | retry, resume, switch, continue, finalise | the last frame against ticker, idle time-out, context and the pipe's goroutine |
| Vercel stream leases (`openai/chat/vercel_stream.go`, `js/chat-stream`) | lease map with expiry | prepare, switch, release, sweep | release or expiry during a switch; a function that dies |
| elastic pool (`account/elastic.go`) | enabled and disabled accounts in the configuration | reconcile in `Store.Update` | the busy accounts are read before the update |
| configuration store (`internal/config`) | configuration, dirty marks, two files | load, `Update`, `saveLocked`, migration | memory changes before a save that may fail, or be cut short |
| chat history (`chathistory`, `responsehistory`, `chat_history.go`) | entries, an index file, a file per entry | start, update, delete, clear, limit, load | a failure or crash between two files; an entry deleted under its request |
| usage ledger (`usagestats`, `usage_backfill.go`) | counts, a file, a marker | record, flush, clear, backfill | snapshots written outside the lock; counting once |
| Mihomo supervisor (`internal/mihomo`) | child process, port bindings, health | apply, self-heal, reconcile, bind, refresh | restarts beside requests in flight; edits beside an Apply |
| protocol conversion, prompts, formats, tool-call text, devid, web UI | none, or data only | - | - |

`PROJECT.json` lists them all with their files, and the hazards with the line where each
one bites and the properties that watch it.

What makes the parts correct:

* pool: a slot is granted below the account's limit and below the global one, counted
  once, given back once and never lost; whoever waits is served or told; a rebuild keeps
  what is in use;
* rate limit: an account marked unavailable comes back;
* daily limit: no account serves more than its maximum, none is charged for what it did
  not serve, a crash gives no second quota;
* requests: each ends, with no slot left behind, and an account is retired for failures
  that follow each other only;
* streams: one last frame, which agrees with the history; a retry speaks in the
  conversation that was broken off; text of one message only; every body is closed;
* leases: a slot is held by one lease at a time and comes back;
* configuration: what was saved survives, what was not is still marked; the queue follows
  it; a standby replaces an account that fails;
* records: no entry is lost but by deletion, each request has one entry and is counted
  once;
* Mihomo: the child serves the configuration, is repaired, and accounts leave a node whose
  link is down.

## 2. The modules

    Accounts                      the constant Account
      RateLimit                   per-minute limit: operators of the pool's actions
      DailyLimit                  daily limit and its file: operators of the pool's actions
        DailyQuota                the daily limit alone, with crashes and restarts
      AccountPool                 the pool, with both limits, waiters, administrators, timers
      RequestAuth                 what requests do with the pool
      StreamLease                 the Vercel leases and the Node functions that use them
      ElasticPool                 the elastic pool: operators of ConfigStore's updates
        ConfigStore               the configuration in memory and in its files, with the pool's queue
      AutoContinue, StreamRetry   the bodies of a streamed completion, and the handler that reads them
      NodeBinding                 bindings of accounts to exit nodes: operators of Mihomo's edits
        Mihomo                    the supervisor, its child, the watcher, editors and requests
    ChatHistory, UsageStats       the two stores: operators of ChatRecords' actions
      ChatRecords                 the sessions of requests over both stores
    SlotPool, DurableValue, Reply the abstract specifications
    MC*.tla, *.cfg                values of the constants for TLC
    *_proofs.tla                  the theorems

Three small specifications say what is promised across components:

* `SlotPool`: a request takes at most one slot, an account is granted only below a limit, a
  slot is given back once, and a count is otherwise only forgotten with an account that was
  taken out. `AccountPool` implements it from the pool's side (`SlotsAsPromised`),
  `RequestAuth` and `StreamLease` from the callers' side (`SlotsGivenBackOnce`,
  `SlotsAsPromised`).
* `DurableValue`: a file holds a value the program had, or was damaged by a write that was
  cut short, and a restart finds what the file holds. Both files of `ConfigStore` implement
  it (`FilesSound`), and so does every entry of the history (`EntriesSurvive`).
* `Reply`: a stream ends once, and the client and the history are told the same.
  `StreamRetry` implements it (`ReplyAsPromised`).

### AccountPool, RateLimit, DailyLimit

Every section under `Pool.mu` is one action, with all it does: `Grant` is the successful
`acquireLocked` with `bumpQueue` and the records of both limits; a check that resets an
elapsed window or rolls the date does so in the action that checks (`CheckRates`,
`CheckDaily`, over exactly the accounts the scan puts through `canAcquireIDLocked`).
The gaps between sections are kept:

* `AcquireWait` is `Call`, `CheckContext`, then `TakeSlot`, `Enqueue` or `Refuse`, then
  `Wake` or `GiveUp`. `select` may take either branch when both are ready. A channel is
  named by the request that sleeps on it, and is closed when it is no longer queued.
* A handler that changes an account is `StoreAccount` (`Store.Update`), `ResetReads` (what
  `Reset` reads before it locks) and `ResetInstalls`. The request goroutines that mute,
  ban or cool down accounts do the same.
* The settings handler is `StoreSettings`, `SettingsRead`, `ApplyRuntimeLimits`,
  `SyncRateLimits`, `SyncDailyLimits`.
* A timer fires (`FireTimer`) and its callback gets the lock later (`TimerCallback`);
  nothing can stop it in between.

An account in the store is `schedulable`, `resting` (muted or cooling down, keeps its
place in the queue) or `out`. Time is abstract: a rate window is absent, zero, open or
over, a day is a number. What an account
record holds besides and the JSON of the file are left out.

`DailyQuota` takes the daily limit out of the pool so that crashes, restarts and failing
writes can be explored over several days. A crash keeps `disk` and nothing else.

### RequestAuth

One record per request holds what `RequestAuth` and the local variables of the calls on
its stack hold: whose token it uses, whose token made the session, the accounts tried,
released, used and failed, the outcome of the one refresh per account, the attempts and
`lastFailureKind`. Steps end where the code waits: for a slot, a login, a call upstream or
another lock; so two requests interleave between `MarkAuthFailure`, which counts, and
`Retire`, which is `persistAuthFailed`. What upstream answers is a choice, bounded by
three constants: only accounts of `Rejectable` have logins or fresh tokens rejected, only
those of `Expirable` have stale stored tokens, only those of `Restable` meet captchas and
mutes. `caller` says who continues after an account was changed or refreshed: Determine,
the loop of `CreateSession` or `GetPow`, the captcha branch of `CreateSession`, or
`StartCompletion`. `held` is the slot a request really has, `row` the
requests whose failures of an account follow each other, with `None` for those that have
ended; no guard reads either.

`Store.Update` and the `Pool.Reset` after it are one step here, since `AccountPool` takes
them apart. The elastic pool is off.

### StreamLease

A call of the Node function (prepare, switch, release) is a handler of its own in the Go
process, so that one whose caller has given up goes on. The function may die at any point
(`Vanish`), a call of switch may fail before its answer (`Finish`), the release may be lost.
Every handler but that of proof of work sweeps expired leases first, which any refused call
does as well (`Refused`). What a handler pops from the map under `leaseMu` it releases
afterwards (`popped`), and `Resolver.Release` looks at `releasedAccounts` before it returns
the slot (`giving`): between the two, a switch may work on the same `RequestAuth`, which has
no lock. `raced` notes the leases for which that happened; no guard reads it.

### ConfigStore, ElasticPool

A writer reads the accounts in flight, runs `Store.Update` with its mutation and the
reconciliation of the elastic pool, marks what is dirty, writes the file of the
subscriptions and then `config.json`, and rebuilds the pool. A write may fail, or be cut
short by a crash (`Torn`). The configuration has what `elastic.go` and the queue read, and
the subscriptions as one value; `Written` is what of it goes into `config.json`. `Load`
covers a missing file, the environment variable, an older `config.json` that still holds the
subscriptions, and a file that cannot be read, which ends the server.

### AutoContinue, StreamRetry, Reply

`AutoContinue` has the goroutine `pumpAutoContinue` of each response with its
`continueState`, and its pipe. A line is what it tells: an id, thinking, text, a status, the
end marker, an error, a verdict. `StreamRetry` is the handler: it reads lines (`ReadLine`,
`ReadEnd`), meets keep-alives, the idle time-out and the end of the context, and then ends,
resumes, retries, or switches the account, as `ExecuteStreamWithRetry` and
`consumeChatStreamAttempt` do. `voices` notes the messages whose text the client has seen.

### NodeBinding, Mihomo

`NodeBinding` has the edits that `Store.Update` applies: binding by hand, automatic
assignment, unbinding, refresh of a subscription, garbage collection and port allocation.
`Mihomo` has `doApply` in its steps, one at a time, over a snapshot of the configuration;
the child with its exits, noticed by a goroutine; `trySelfHeal`, the health sweep and
`reconcileBindings` of the watcher, which looks at the requests in flight before it edits and
applies; and editors, links that break and mend, and requests.

### ChatHistory, UsageStats, ChatRecords

`ChatHistory` has `saveLocked` as what it leaves of entry files and index: all of it, any
prefix of it when a write fails, or any prefix and a dead process. `UsageStats` takes its
snapshot (`FlushBegins`) and writes the file (`FlushEnds`) in two steps. `ChatRecords` has the
sessions of requests: start, progress, end, and `retryMissingEntry` when the entry is gone,
beside an operator who deletes, clears, sets limits and switches recording off; and the
backfill at start-up.

## 3. The runs

| run | what it asks | instance | distinct states |
|---|---|---|---|
| `pool_slots` | `NoStrandedWaiter`, `LimitedAccountRecovers`, `EveryCallReturns`, `GlobalLimitKept`, `NeverQueuesBesideFreeAccount` | 4 requests: two that use only one account, one that uses only the other, and a newcomer that takes either and does not wait; 2 accounts, 1 administrator with 1 write of an account or of the settings, rate limits | 349 283 |
| `pool_rebuild` | `NeverOversold`, `SlotsAsPromised` | 3 cancellable requests, 2 accounts, both limits, pollers, 2 days, 2 administrators, 3 writes | 2 283 446 |
| `quota` | `NeverOvercharged`, `ExhaustedStaysLimited`, `QueuedQuotaKept`, `FileCatchesUp` | 2 accounts, 3 days with failing writes on the second, 2 crashes, limit off, 2 or 3 | 2 315 237 |
| `auth_slots` | `NothingLeftBehind`, `SlotsGivenBackOnce`, `OnlyFailuresInARow` | 2 requests, 2 one-slot accounts, one of them rejectable | 2 736 959 |
| `auth_ends` | `EveryRequestEnds` | 1 request, 2 accounts, 2 attempts, every kind of failure | 95 652 |
| `store` | `UnsavedIsDirty`, `SavedIsDurable`, `FilesSound`, `ElasticAsPromised`, `StandbyTakesOver`, `QueueFollowsConfig` | 2 writers, 3 accounts, two values of the subscriptions, 3 updates of 14 kinds, 1 crash, no file, a plain one or one of an older version | 2 295 011 |
| `leases` | `StreamsOnItsSlot`, `SlotsAsPromised`, `AbandonedSlotReturns` | 2 functions, 2 one-slot accounts, leases of one tick | 1 288 074 |
| `stream` | `RetriesItsConversation`, `OneVoice`, `BodiesClosed`, `ReplyAsPromised`, `InterruptedIsNoFinish`, `EveryReplyEnds` | 2 accounts, 3 responses, 3 lines, 1 retry, 1 continuation round, 2 keep-alives | 583 897 |
| `mihomo` | `BridgeFollowsConfig`, `CrashIsRepaired`, `ListenersCatchUp`, `DeadNodesAreLeft` | 2 accounts, 2 nodes, 1 editor with 1 edit, 1 fault, 1 request | 538 666 |
| `records` | `PendingCoversFiles`, `LostOnlyByDeletion`, `OneEntryPerRequest`, `FinishedIsFinal`, `NeverCountedTwice`, `EntriesSurvive` | 2 requests, 3 entries, limits 0 to 2, 1 failing save or crash | 4 280 428 |
| `mihomo_exits` | `ExitsNotShared`: violated, section 6 | as `mihomo` | - |
| `leases_leak` | `SlotsComeBack`: violated, section 6 | as `leases` | - |

The type invariants (`PoolTypeOK`, `TypeOK`, `AuthTypeOK` and so on) are no properties of the
runs: they are proved, see section 5.

Why the bounds are enough. Two accounts are the least with a choice, and with a switch
that can fail or succeed; three let a standby wait beside two that are enabled. Three
requests are the least with a holder, a waiter and one that passes or cancels, and
`pool_slots` has four: a holder and a waiter of the same account, or two waiters of which a
release wakes one, beside a newcomer that passes the queue. Three writes
let one administrator disable and re-enable an account while the other has read the store
and not yet installed it; three updates let a failed save be followed by one of the other
file and a third that saves. One write of `pool_slots` changes the settings under a waiter, in
three sections, or mutes an account that it waits for.
Two crashes cover a crash during the recovery of another; three days cover a file that is
two days old. `MaxGrants` is above every maximum, so a count may pass it. `MaxAttempts` 2
lets a loop use up its attempts after a refresh, after a switch and after neither; in
`auth_slots` it is 1 to afford two requests, and `NoOther` then ends in the restart of
`StartCompletion`. Three responses are what one retry and two accounts can open
(`RetryAssumption`); with three lines a response can show an id, text and a status, or two of
them can each show something; four lines were also run, as were three accounts with two.
A lease of one tick expires at every point of a switch or release. One edit beside the
watcher's own and one fault are the least that race; two edits were also run for safety.
Three entries let a request have its entry evicted and made again under a limit of one.
Symmetry is used over requests and writers only where they are interchangeable and only
with safety properties. `CHECK_DEADLOCK` is off where the models stop: requests are finite,
days, writes, edits and crashes are bounded; `records` never stops.

Each property also has a mutant: a definition with a plausible bug (a release that wakes
nobody, a timer that is not re-armed, a slot released twice, a dirty mark that is not set, a
body left open, a backfill that runs again...), under which the run fails. They are the
`Bug...` operators, next to what they break.

## 4. Fairness

* `AccountPool!FairSpec`: as long as a goroutine can run, a holder of an account can end, a
  window can elapse or a timer can fire, some of that happens. That is less than the Go
  scheduler promises each goroutine, and enough, since each takes finitely many steps; a
  generation ends by the idle timeouts of the stream. Nobody has to call, cancel, poll or
  change settings.
* `DailyQuota!Spec`: the interval passes, a due timer fires, and a stopped process is
  started again, or nothing could be said of what it finds.
* `RequestAuth!FairSpec`: a request under way goes on, since logins and calls have
  timeouts and a generation ends.
* `StreamLease!FairSpec`: some handler goes on as long as one can, which is enough since each
  takes finitely many steps; time passes, and calls keep coming (`Refused`): the code sweeps
  leases in its handlers only, so that without further calls nothing expires. The Node function
  owes nothing.
* `StreamRetry!FairSpec`: the handler goes on, since its calls have timeouts and the engine has
  a ticker, and a goroutine ends with its context. The upstream need not send or end anything.
* `Mihomo!FairSpec`: an Apply that runs goes on, and when the mutex is free one of the
  callers that wait for it gets it, whichever; the watcher goes on, the throttle of the
  self-heal ends (strong, since an Apply may be under way each time), and requests under way
  end. Nobody has to edit anything, and links need not mend.

`ConfigStore` and `ChatRecords` have safety properties only.

## 5. What is proved

TLAPS checks the following for all values of the constants that satisfy the named
assumptions (`PoolAssumption`: finitely many accounts and requests, positive per-account
limits; `AuthAssumption`: `None` is no account and no request, limits are positive; `QuotaAssumption`:
maxima are numbers, some accounts are never removed; `HistoryAssumption` and
`UsageAssumption`: limits are numbers, the default limit is positive, `None` is no number; `LeaseAssumption`:
`None` is none of the other values, the limit is positive; `StoreAssumption`: `None` and `Torn`
are no configurations and no subscriptions, an empty configuration has none; `RetryAssumption` and
`ContinueAssumption`: finitely many accounts, `None` is none of the other values, the limit of
keep-alives is positive, and there are as many responses as retries and accounts can open;
`BindingAssumption` and `MihomoAssumption`: finitely many nodes, the watcher and the start are no
editors, the first configuration has one node per port, the threshold of failures is positive).

| theorem | states |
|---|---|
| `AccountPool_proofs!TypeCorrect` | `Spec => []PoolTypeOK` |
| `AccountPool_proofs!SlotsNeverLeak` | `Spec => []NoLeakedSlot` |
| `AccountPool_proofs!KeptAccountsNeverOversold` | `Spec => []NeverOversold` |
| `AccountPool_proofs!PoolImplementsSlotPool` | `Spec => SlotsAsPromised` |
| `AccountPool_proofs!GlobalLimitHolds` | `Spec => GlobalLimitKept` |
| `AccountPool_proofs!LimitedAccountsRecover` | `Spec => []LimitedAccountRecovers` |
| `AccountPool_proofs!NoCallQueuesBesideFreeAccount` | `Spec => NeverQueuesBesideFreeAccount` |
| `AccountPool_proofs!QueuedWaitersSleep` | `Spec => []WaitersAreAsleep` |
| `AccountPool_proofs!NoWaiterStranded` | `UndisturbedWaits` implies `Spec => []NoStrandedWaiter` |
| `RequestAuth_proofs!AuthTypesAreRight` | `Spec => []AuthTypeOK` |
| `RequestAuth_proofs!NothingIsLeftBehind` | `Spec => []NothingLeftBehind` |
| `RequestAuth_proofs!RequestsImplementSlotPool` | `Spec => SlotsGivenBackOnce` |
| `RequestAuth_proofs!RetiredForFailuresInARow` | `Spec => OnlyFailuresInARow` |
| `DailyQuota_proofs!QuotaTypesAreRight` | `Spec => []TypeOK` |
| `DailyQuota_proofs!NobodyIsOvercharged` | `Spec => []NeverOvercharged` |
| `DailyQuota_proofs!ExhaustedStay` | `Spec => []ExhaustedStaysLimited` |
| `DailyQuota_proofs!QuotaIsKept` | `Spec => []QueuedQuotaKept` |
| `ChatRecords_proofs!RecordTypesAreRight` | `Spec => []RecordsTypeOK` |
| `ChatRecords_proofs!PendingCovers` | `Spec => []PendingCoversFiles` |
| `ChatRecords_proofs!OnlyDeletionsLose` | `Spec => []LostOnlyByDeletion` |
| `ChatRecords_proofs!EntriesAreSingle` | `Spec => []OneEntryPerRequest` |
| `ChatRecords_proofs!OverIsFinal` | `Spec => []FinishedIsFinal` |
| `ChatRecords_proofs!CountedOnce` | `Spec => []NeverCountedTwice` |
| `ChatRecords_proofs!HistoryIsDurable` | `Spec => EntriesSurvive` |
| `StreamLease_proofs!LeaseTypesAreRight` | `Spec => []LeaseTypeOK` |
| `StreamLease_proofs!StreamsWhereItHolds` | `Spec => []StreamsOnItsSlot` |
| `StreamLease_proofs!LeasesImplementSlotPool` | `Spec => SlotsAsPromised` |
| `ConfigStore_proofs!StoreTypesAreRight` | `Spec => []ConfigTypeOK` |
| `ConfigStore_proofs!UnsavedStaysDirty` | `Spec => []UnsavedIsDirty` |
| `ConfigStore_proofs!QueueFollows` | `Spec => []QueueFollowsConfig` |
| `ConfigStore_proofs!WhatIsSavedIsFound` | `Spec => SavedIsDurable` |
| `ConfigStore_proofs!FilesImplementDurableValue` | `Spec => FilesSound` |
| `ConfigStore_proofs!ElasticEnablesWhatItPromises` | `Spec => ElasticAsPromised` |
| `ConfigStore_proofs!StandbyAlwaysTakesOver` | `StandbyAtFirst` implies `Spec => []StandbyTakesOver` |
| `StreamRetry_proofs!StreamTypesAreRight` | `Spec => []StreamTypeOK` |
| `StreamRetry_proofs!TextIsOfOneMessage` | `Spec => []OneVoice` |
| `StreamRetry_proofs!EveryBodyIsClosed` | `Spec => []BodiesClosed` |
| `StreamRetry_proofs!StreamImplementsReply` | `Spec => ReplyAsPromised` |
| `StreamRetry_proofs!BrokenOffIsNotFinished` | `Spec => InterruptedIsNoFinish` |
| `StreamRetry_proofs!RetriesStayInTheConversation` | `RetryMax <= 1` implies `Spec => []RetriesItsConversation` |
| `Mihomo_proofs!BridgeTypesAreRight` | `Spec => []MihomoTypeOK` |
| `Mihomo_proofs!BridgeFollows` | `Spec => []BridgeFollowsConfig` |

With these every invariant of a passing run, and every property of one that is not about
liveness, is a theorem.

**The pool.** Types come first: lemmas give the type of what each operator of the limits
and the queues yields, and `TypeStep` goes through the actions. `NoLeakedSlot` and
`NeverOversold` are not inductive. `SlotInv` adds that a request is in its holding phase
exactly when it holds an account (`HeldOK`), that every limit in force, stored, or carried
by a handler was configured (`CapsOK`), and that an account nobody may remove is in the
store *and in every queue that a Reset has read but not yet installed* (`KeptOK`). The last
is why an older snapshot, installed late, still cannot forget the count of such an account.
The steps reduce to four: a grant, a release, a reset, and the rest, which leave counts
and holders alone (`SlotFrame`). `PoolImplementsSlotPool` maps a grant to `Take`, a release
to `Give`, an installing `Reset` to `Forget` and everything else to a stutter.

The global limit is checked against the sum of the counters (`currentInUseLocked`), which the
model computes with a fold. `Sums` relates such a sum to the number of holders; the library's
induction theorems cannot be used for it, since they take a predicate as a parameter, so
`InductionOnNat` and `InductionOnSubsets` state induction for *sets*, from the
well-foundedness of the order of the naturals. The counters may fall short of the holders of
accounts that a `Reset` forgot, so what is kept is the limit on the accounts that stay
configured.

Accounts at their limit recover because of `RatesOK`: an entry that is unavailable has a window,
and an open window a timer. Every operator of the limiter keeps that (`RateOperators`).

**The waiters.** `WaitersAreAsleep` comes first: a channel is in the queue exactly once, and
only while its goroutine sleeps on it. `WaitInv` then says what a sleeping waiter lives on
(`HelpComes`): a `Reset` that ends by waking all, a slot that is held and will be released, a
goroutine awake in `AcquireWait` that will take what is free or queue itself, or an account
whose timer will wake all; and that each waiter could be served by some account
(`WaitersCouldBeServed`), which a `Reset` may change only by waking everybody. A quiet pool has
none of the four, so it has no waiter at all (`QuietHasNoWaiter`), which is more than
`NoStrandedWaiter`. The theorem is about configurations that satisfy `UndisturbedWaits`, and
each part of it is needed; TLC finds a waiter that sleeps beside a free account without it:

* a request that is cancelled while it is woken takes the wake-up with it (section 6);
* with a quota for the day, a woken waiter whose account is exhausted by then is refused and
  leaves; the wake-up is lost for one that waits for another free account;
* with a limit per minute, a scan resets the elapsed window of *every* account it looks at and
  stops its timer, without waking anybody (`pool_rate_limit.go:122`), before it looks at the
  filter (`pool_acquire.go:82`). A request that may not use the account, or a look at the
  status, so takes the wake-up away from one that waits for it. Hence no limit per minute, or
  requests that want the same and nobody polling.

`pool_slots` has a limit per minute and requests with different wants, and so is not an instance
of the theorem: there the requests that wait look at their one account only, and the newcomer,
which looks at both, takes one whose window has elapsed, or finds it in use, so that a release
will wake a waiter. The third loss cannot happen, nobody is cancelled, and `NoStrandedWaiter`
holds.

**The requests.** `ReqInv(q, h)` relates the state `q` of a request to the slot `h` it
really holds. Its core is `SlotOf`: in the phases without an account the request has no
slot, and otherwise it has that of its account *unless the account is in `released`*. That a
release is made once depends on it, and to keep it inductive `ReqInv` also says that
`released` is within `tried` (so a switch cannot come back to an account that was
released), that Determine, whose releases are not noted, runs with nothing released, and
where each caller may be. `FailuresNoted` says that a positive count of failures has somebody in
the row, and that a request in the row has failed with the account; `Moved`, that a request
that may move has tried, and left, every account it failed with, but for the one it is
switching from. So a request that retires an account it failed with itself is `Stuck`, and
`OnlyFailuresInARow` follows. Each group of actions has a lemma (`DetermineGood`,
`EnsureGood`, `CallGood`, `RecoverGood`, `SwitchGood`, `EndGood`, `OthersGood`) that shows
`GoodStep`: the invariant afterwards, a `SlotPool` step or a stutter, and the action
property; the theorems are corollaries.

**The daily limit.** `QuotaInv` joins the three properties with what makes them inductive:
`DatesPassed`, no date in memory or file is in the future, so a new day always starts a new
count; `ExhaustedCharged`, an account that used its quota up is charged for it in the file
and, while the process runs, in memory, on a day on which the file can be written;
`AllCounted`, as long as nothing crashed a limit that was in force all day has counted all that
its accounts served. Overcharging is excluded for the counts in memory and in the file alike,
which is what a restart needs.

**The records.** `RecordsInv` is a conjunction of four parts. `StoreInv` is about history and
files: types, `PendingCoversFiles`, `LostOnlyByDeletion`, that an entry and its file belong to
the same request, and that no request has two files; it is what `LoadHistory` needs to restore
`OneEntryPerRequest` after a crash in the middle of a save. `SessionInv` ties the entry a
session believes in to the store, `FinishedIsFinal` is inductive beside it, and `LedgerInv`
says that ledger, file and every snapshot on its way to the file count a request at most once,
and not at all before its end; the backfill adds a history of single entries to an empty
ledger. `KeptBounded` proves of the eviction that
it leaves no more entries than the limit, which type correctness of the limit rests on.
`HistoryIsDurable` is a refinement for each entry. Its step is `CommitSurvives`: an index that
is written names the entries of memory, whose files are up to date by `PendingCoversFiles`; one
that is not written names what it named, each file of those is the old one or that of the entry
in memory, and, since what is to be deleted is never written again, a history that could not be
loaded before a save cut short cannot be loaded after it.

**The leases.** `LeaseInv` says of each request how far its handlers are (`Stages`), who may
release it while its lease is in the map (`Leased`: nobody but its own switch), that one handler
at most owes a release and what it returns is still held (`Single`, for requests whose lease did
not end under a switch), and how a switch stands with the slots (`Switches`). Steps of other
requests either leave a request alone or sweep its lease (`UntouchedRow`, `SweptRow`); each
group of handlers has a lemma for the request it works on. `StreamsOnItsSlot` needs no
condition on `raced`; that each slot is returned once does, and `leases_leak` shows why.

**The configuration.** `StoreInv` adds to types, `UnsavedIsDirty` and `QueueFollowsConfig` that one
writer saves at a time and owes a rebuilding of the pool until it has made it (`WritersInv`), and
`MigrationInv`: a `config.json` that has subscriptions is due to be rewritten; subscriptions that
are not those of memory are due; and once a save has come to `config.json`, they are those of
memory. The last is what makes a save durable: the file of the subscriptions is written first,
and nobody changes memory in between. `SavedIsDurable` follows by `SameConfig`, since a
configuration is what `config.json` holds of it and its subscriptions; `FilesSound` from what a
write, or a part of it, does to what a restart would read (`WritesFiles`), and from `RestartReads`.

**The elastic pool.** The loop of the reconciliation goes through the accounts of a group by
priority and enables each usable one while it has enabled fewer than the count; the model
counts them with a recursive function along that order. `EnabledAmongCounts` proves, with
induction for sets, that the function exists and satisfies its equations, which its definition by
`CHOOSE` alone does not say; `CountsAreGood` that at each place it counts the usable accounts
before it as long as they are no more than the group's count, and that count or more, for busy
ones, from then on; and so `AppliesAsPromised` that the loop enables just
those that fewer usable accounts precede, which is what the comment at `elastic.go:14` says and
`Promised` states without a loop. `StandbyTakesOver` follows for a reconciled configuration
(`ReconcileStandby`), and every change of the accounts ends with a reconciliation
(`MutatedStandby`). It has to hold of `config.json` too, since a restart takes that as it is:
`StandbyAtFirst` asks it of the files a program may first be started with, because a file
edited by hand is not reconciled when it is loaded.

**The streams.** `StreamInv` is about the handler (`Handles`), the bodies and the reply. `Counted`
says that each response was opened for a retry or for an account that was not tried before;
types rest on it, since only so many responses exist. `Spoken` says that the shown text is of
the message that is read, and that there is none where a new message will be begun: `AttemptGoes`
proves that of `Failure`, which never fails a turn that has text, whatever error an earlier attempt
left behind. `OpenedSoFar` is why a body that is opened was not open before. The goroutines
change their own pipe only and never reopen a closed one (`Runs`), so they leave all of it alone.
`RetriesStayInTheConversation` assumes what `EmptyOutputRetryMaxAttempts` returns, 1. Its invariant,
`Conversation`, says that as long as a retry is left nothing was retried and no account was
switched. With a second retry that fails, and so would the property: after a switch the message id, and
after a challenge the payload, are still those of the account before.

**The bridge.** Each edit of the bindings has a lemma that it gives no two nodes one port and leaves
the bridge on or off (`Kept`); the watcher's holds for whatever it looked at before (`ReconciledKept`).
`BridgeInv` adds three facts. `Newest`: an Apply under way has the ports of the present
configuration, unless another one is asked for. `Staged`: from the restart on, `runtime.yaml` is what
its snapshot says, and nothing runs until the child is started. `Serves` is the property without its
condition on enabled accounts: every listener leads to the node of its port. That each port is of one
node makes a configuration serve itself (`RuntimeServes`). An edit either asks for an Apply or
moves no port (`EditConsistent`): it is why disabling an account or returning it to automatic
scheduling may leave the child alone.

**Only model-checked.** Liveness: `EveryCallReturns`, `FileCatchesUp`, `EveryRequestEnds`,
`AbandonedSlotReturns`, `EveryReplyEnds`, `CrashIsRepaired`, `ListenersCatchUp` and `DeadNodesAreLeft`, which rest
on fairness and are outside the prover's fragment; and `NoStrandedWaiter` beyond `UndisturbedWaits`.
What the two violation runs refute is not a theorem, of course.

## 6. Where the code and what is said of it part

Two runs end in a counterexample that the code can follow:

* `leases_leak`: a lease that is released or expires while a switch works on its `RequestAuth`
  leaves the map at once, and the switch takes a slot afterwards that nobody returns
  (`vercel_stream.go:276`, `:456`). `http_internal.js:200` says of a failed release that the
  expiry of the lease still prevents permanent leaks. The run's fairness lets handlers go on,
  time pass and other calls sweep.
* `mihomo_exits`: when a node leaves its subscription its port is freed, but the managed proxy
  that an account still names is kept (`mihomo/binding.go:46`); the port goes to the next node
  that needs one (`config/mihomo.go:184`), and accounts bound to different nodes leave by one
  exit. `docs/MIHOMO_BRIDGE.md:27` says that different accounts never share an exit address,
  and `:28` that bindings to vanished nodes are cleared.

Others were met while modelling and have no run of their own.

Pool and requests:

* a release wakes a waiter whose context is cancelled as well; if `select` takes `ctx.Done`,
  nobody else is woken, and a waiter may sleep beside a free account (`pool_acquire.go:44`).
  `pool_slots` asks `NoStrandedWaiter` of requests that are not cancelled;
* an account disabled and enabled again on the same day has its daily quota again
  (`pool_daily_limit.go:244` against `docs/account-daily-limit.md:35`);
* `SwitchAccount` releases before it finds no other account, and the retry loops go on with
  the account they have left: a completion without a slot (`auth/request.go:427`);
* `GetPow` changes the account after the session was created on another
  (`client_auth.go:524`); the clients' switches during a stream do the same;
* a network error in `CreateSession` leaves the kind of an earlier rejection in place; it is
  counted as a rejection of the fresh token, and two retire a healthy account
  (`client_auth.go:404`);
* `CreateSession` (`client_auth.go:397`) and `GetPowForTarget` (`:472`) take the HTTP clients of
  an account once, before their loops: after a switch the new account is called through the
  proxy of the old one, where `client_upload.go:82` takes them anew and
  `docs/MIHOMO_BRIDGE.md:26` promises one exit per account;
* a late callback of a rate timer wipes the window that the next request opened
  (`pool_rate_limit.go:88`), so that the account may serve more than its rate; a status poll, or a scan by a request that may not use the
  account, that resets an elapsed window wakes no waiter, and its timer is gone
  (`:122`); these are behaviours of `TimerCallback` and `Look`;
* of two overlapping `Reset`s the older snapshot may be installed last (`pool_core.go:53`);
* a request that still generates on an account that was taken out is no longer counted as
  in flight (`pool_core.go:99`); `SlotPool`'s `Forget` admits that;
* when there is no other account, or the request is pinned to it, one request can count the
  same account's failure twice, in the loop of the call and in `StartCompletion`, and retire
  it alone, where `auth_failure.go:22` and `:84` count adjacent requests.
  `OnlyFailuresInARow` excepts just that (`Stuck`);
* a login that succeeds between another request's `MarkAuthFailure` and its
  `persistAuthFailed` resets the count and lifts nothing yet, and the account is retired after
  it (`auth_failure.go:109`); `OnlyFailuresInARow` looks at the decision, not at the write;
* Determine gives up after as many tries as there are accounts in the queue, counting tried
  accounts that have left it (`auth/request.go:149`);
* `elastic.go:18` says that all accounts share `GlobalCount` when `PerPool` is off; the
  code applies it to each pool type.

Leases and streams:

* the Node function reads the reason of a switch but drops `auth_failed`
  (`vercel_stream_impl.js:71`, `:698`), so failures there are never counted;
* after a switch whose payload could not be prepared the lease still names a session of the
  account before; only a call of the Vercel handlers sweeps;
* an empty continuation round ends the pipe cleanly, and partial text is finalised as
  "stop", where the comment at `client_continue.go:344` wants no partial answer; an `error`
  event after partial text ends the same way;
* `pumpAutoContinue` takes the consumer's close (`io.ErrClosedPipe`) for an interruption and
  opens up to 32 rounds that nobody reads; `detectMutedCompletion` wraps the body in
  `io.NopCloser`, so that closing it closes nothing;
* `upstreamErr` and `responseMessageID` of an attempt are never reset for the next; after a
  switch a response that is not 200 is read as an empty stream; `RetryPow` falls back to the
  proof of work that was used already.

Tool calls (read, not modelled):

* text that is only white space is not noted (`tool_sieve_state.go:84`), so that a line feed which
  arrives alone does not begin a line: a fence that follows in the next chunk is not seen, and
  whether an example inside it is taken for a call depends on how the stream was cut.

Configuration:

* an account muted by a request stays disabled after the mute until a later
  reconciliation, and one that an administrator disables may be enabled again by the
  reconciliation of the same transaction;
* a save that fails has changed memory, but the pool is not rebuilt;
* subscriptions that move out of a `config.json` of an older version are written first; if
  `config.json` could then not be rewritten, removing them later (or damaging their file) and
  restarting brings the old ones back (`store.go:406`, `:412`). `FilesSound` says so in
  `OldSubsReturn`, its only exception;
* `config.json` is not written atomically: a crash may leave a file that cannot be read, and
  the server exits; the torn first file of an empty configuration is not repaired before the
  next change;
* the snapshot of busy accounts misses those whose count was forgotten by a `Reset`, and those
  that become busy before the edit, which may put them to sleep under their request
  (`auth/request.go:324`).

Mihomo:

* an exit noticed between `waitReady` and `running = true` leaves the supervisor with
  `running` over a dead child. The watcher does not repair that: its Apply finds the
  configuration unchanged while `running` is set and skips the restart
  (`mihomo/manager.go:316`), so that the child stays dead until `runtime.yaml` changes.
  `CrashIsRepaired`, which speaks of `running = FALSE`, excepts it;
* an Apply that fails before `stopProcess` leaves `running = FALSE` over a live child. Since
  the control port answers, the self-heal does nothing, and neither the health sweep nor the
  search for missing listeners looks at a bridge that is not `running`; it lasts until the next
  Apply, which restarts the child. `DeadNodesAreLeft` and `ListenersCatchUp` speak of a bridge
  that runs;
* the watcher looks for requests under way once, before it edits and applies
  (`mihomo/autoassign.go:186`): a request granted after that look is cut by the restart, and a
  healing Apply or one of an administrator looks at nobody, where
  `docs/MIHOMO_BRIDGE.md:173` has scheduling give way to any request under way;
* the reconciliation re-checks only `Disabled` in its `Update`, so that a manual binding made
  meanwhile is overwritten; it starves under continuous load;
* an account bound to a node that a refresh removed stays stuck.

Records:

* a crash between the removal of detail files and the writing of the index makes the history
  unusable until someone repairs it; detail files the index does not name are never removed; an
  entry cut by a crash stays "streaming";
* of two overlapping `flushNow` the older may be renamed last and bring back a ledger that was
  cleared (`usagestats/store.go:289` clears and writes at once); a cleared ledger is filled again by
  the backfill if its marker could not be written (`usage_backfill.go:15`);
* the progress of a running request makes its cleared or evicted entry again.

## 7. What is left out

**Data without shared state.** Protocol conversion, prompts, formats, tool-call text and its
streaming sieve, parsing of SSE lines and of subscriptions, device identities, TLS and HTTP, the
hash of the proof of work and the web UI compute text from text. A model of them would spell
them out character by character; their tests are the better check. Together they are the larger
part of the source.

**State under one mutex, in one section each.** The prefetched challenges (`pow.go`), the
response store of the responses API, capture and samples: an entry is put, taken or expired
under a lock and nothing else depends on it.

**Abstractions inside the models.** Node names, latencies and their order, the child's secret
and changes of its API port, the streak of real failures and proxies that are not managed are
left out of `Mihomo`, and the throttle of the self-heal is a choice. History entries are numbered
in the order they were made; "stopped" is counted as "success"; import, legacy formats,
failures to write the marker and the history session of a Vercel release are left out of
`ChatRecords`. `ConfigStore` has no Vercel write-back and its `Replace` is an `Update`.
`RequestAuth` has neither uploads, `MarkTokenInvalid` nor callers with their own token.
`StreamRetry` has no repair of tool calls and no segments.

## 8. Running

    tlc -config MCAccountPool_slots.cfg MCAccountPool     (and MCAccountPool_rebuild.cfg)
    tlc -config MCRequestAuth_slots.cfg MCRequestAuth     (and MCRequestAuth_ends.cfg)
    tlc -config MCDailyQuota.cfg MCDailyQuota             (likewise MCConfigStore, MCChatRecords)
    tlc -config MCMihomo.cfg MCMihomo                     (and MCMihomo_exits.cfg)
    tlc -config StreamLease.cfg StreamLease               (and StreamLease_leak.cfg)
    tlc -config StreamRetry.cfg StreamRetry
    tlapm AccountPool_proofs.tla                          (likewise the other *_proofs.tla)

The largest runs take between two and four minutes with two workers.
