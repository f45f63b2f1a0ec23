----------------------------- MODULE AccountPool -----------------------------
(***************************************************************************)
(* The account pool (internal/account/pool_*.go): request goroutines take  *)
(* and give back slots on upstream accounts, wait in a FIFO queue when     *)
(* there is none, and administrators change the account store and the      *)
(* limits under them.                                                      *)
(*                                                                         *)
(* Every section that the code runs under Pool.mu is one action.  The gaps *)
(* between sections are kept: AcquireWait checks its context, then locks,  *)
(* then sleeps on its channel; Reset reads the store before it locks; an   *)
(* administrator's handler writes the store, and resets the pool later.    *)
(*                                                                         *)
(* A request calls Acquire or AcquireWait once and holds at most one slot. *)
(* A waiter channel is named by the request that sleeps on it, and it is   *)
(* closed when that request is no longer in waiters.                       *)
(***************************************************************************)
EXTENDS RateLimit, DailyLimit, Integers, Sequences, FiniteSets, FiniteSetsExt

CONSTANTS
  Request, Admin, None,
  Position,      \* an account's index in the configuration
  TokenSets,     \* the sets of accounts that may hold a login token at a Reset
  Wants,         \* what a request asks for: target, exclude, filter
  NonBlocking,   \* the requests that call Acquire; the others call AcquireWait
  Cancellable,   \* the requests whose context may be cancelled
  Removable,     \* accounts that may be disabled, banned, deleted, and come back
  Restable,      \* accounts that may be muted or cool down
  Settings,      \* the runtime settings an administrator may store
  Pollers,       \* whether Status and the account list are polled
  MaxWrites, MaxDay      \* bounds: store updates, calendar days

ASSUME PoolAssumption ==
  /\ IsFiniteSet(Account) /\ IsFiniteSet(Request)
  /\ None \notin Account
  /\ Position \in [Account -> Nat]
  /\ TokenSets \subseteq SUBSET Account
  /\ Wants \in [Request -> [target : Account \union {None},
                            exclude : SUBSET Account, filter : SUBSET Account]]
  /\ Removable \subseteq Account /\ Restable \subseteq Account
  /\ Settings \subseteq [maxPer : Nat \ {0}, maxQueue : Nat, global : Nat,
                         rateMax : Nat, dailyMax : Nat]
  /\ MaxWrites \in Nat /\ MaxDay \in Nat /\ FailingDays \subseteq Nat

VARIABLES
  store,      \* what the configuration says of an account
  conf,       \* the stored limits: maxPer; maxQueue and global, 0 when not set
  queue, inUse, waiters, limits,                     \* the pool
  phase, held, cancelled,                            \* the requests
  admin,      \* an administrator's handler: its next step and what it has read
  writes      \* store updates so far

poolVars == <<queue, inUse, waiters, limits>>
requestVars == <<phase, held, cancelled>>
storeVars == <<store, conf, rateMax, dailyMax, writes>>
vars == <<poolVars, requestVars, storeVars, admin, rateVars, dailyVars, today>>

-----------------------------------------------------------------------------
\* What the store says.  "schedulable" is Account.IsSchedulable; "resting" is
\* muted or cooling down, which keeps its place in the queue; "out" is disabled,
\* banned, failed to authenticate, or deleted.
StoreStates == {"schedulable", "resting", "out"}

Phases == {"idle", "entered", "checked", "waiting", "holding", "failed", "done"}

Holders(a) == {r \in Request : held[r] = a}
Holding == {r \in Request : held[r] # None}
InWaiters(r) == \E i \in DOMAIN waiters : waiters[i] = r
Queued(a) == \E i \in DOMAIN queue : queue[i] = a

\* defaultRecommendedConcurrency, RuntimeAccountMaxQueue, RuntimeGlobalMaxInflight
Recommended(n, maxPer) == n * maxPer
LimitsFor(c, n) ==
  LET default == Recommended(n, c.maxPer) IN
  [maxPer |-> c.maxPer,
   maxQueue |-> IF c.maxQueue > 0 THEN c.maxQueue ELSE default,
   global |-> IF c.global > 0 THEN c.global ELSE default]

\* The queue Reset builds: the accounts that are not out, those with a token
\* first, in configuration order.
Before(a, b, tokens) ==
  \/ a \in tokens /\ b \notin tokens
  \/ (a \in tokens <=> b \in tokens) /\ Position[a] < Position[b]

QueuesOf(ids, tokens) ==
  {q \in [1 .. Cardinality(ids) -> ids] :
     \A i, j \in 1 .. Cardinality(ids) : i < j => Before(q[i], q[j], tokens)}

InQueueable == {a \in Account : store[a] # "out"}

\* A handler between two of its steps, with what it has read so far.
Limits == [maxPer : Nat \ {0}, maxQueue : Nat, global : Nat]
Handlers ==
  [step : {"idle", "stored", "configured", "syncRate", "syncDaily"}]
  \union [step : {"read"}, queue : Seq(Account), limits : Limits]
  \union [step : {"limits"}, limits : Limits]

Idle == [step |-> "idle"]

Init ==
  /\ RateInit /\ DailyInit
  /\ \E s \in Settings :
       /\ conf = [maxPer |-> s.maxPer, maxQueue |-> s.maxQueue, global |-> s.global]
       /\ rateMax = s.rateMax /\ dailyMax = s.dailyMax
  /\ store = [a \in Account |-> "schedulable"]
  /\ \E tokens \in TokenSets : queue \in QueuesOf(InQueueable, tokens)
  /\ limits = LimitsFor(conf, Cardinality(InQueueable))
  /\ inUse = [a \in Account |-> 0] /\ waiters = <<>>
  /\ phase = [r \in Request |-> "idle"] /\ held = [r \in Request |-> None]
  /\ cancelled = {}
  /\ admin = [d \in Admin |-> Idle] /\ writes = 0

-----------------------------------------------------------------------------
(* Choosing an account: pool_limits.go, pool_acquire.go                      *)

CurrentInUse == MapThenSumSet(LAMBDA a : inUse[a], Account)

BugNoGlobalLimit(a) ==
  ~RateLimited(a) /\ ~DailyLimited(a) /\ inUse[a] < limits.maxPer

\* canAcquireIDLocked
CanAcquireID(a) ==
  /\ ~RateLimited(a) /\ ~DailyLimited(a)
  /\ inUse[a] < limits.maxPer
  /\ limits.global > 0 => CurrentInUse < limits.global

Wanted(r, a) ==
  /\ a \notin Wants[r].exclude /\ a \in Wants[r].filter
  /\ store[a] = "schedulable"

Grantable(r, a) == CanAcquireID(a) /\ Wanted(r, a)

BugHeadOnly(r, a) ==
  Grantable(r, a) /\ queue # <<>> /\ Head(queue) = a

\* What acquireLocked chooses: the target, or the first of the queue.
Chosen(r, a) ==
  /\ Grantable(r, a)
  /\ \/ Wants[r].target = a
     \/ /\ Wants[r].target = None
        /\ \E i \in DOMAIN queue :
             queue[i] = a /\ \A j \in 1 .. i - 1 : ~Grantable(r, queue[j])

CanServe(r) == \E a \in Account : Chosen(r, a)

\* The accounts that the scan puts through canAcquireIDLocked: up to its choice.
Scanned(r) ==
  (IF Wants[r].target # None THEN {Wants[r].target}
   ELSE {queue[i] : i \in {j \in DOMAIN queue :
                             \A k \in 1 .. j - 1 : ~Grantable(r, queue[k])}})
  \ Wants[r].exclude

\* bumpQueue: to the back, if it is in the queue at all.
Bumped(q, a) ==
  [i \in DOMAIN q |->
     IF \A j \in 1 .. i : q[j] # a THEN q[i]
     ELSE IF i < Len(q) THEN q[i + 1] ELSE a]

\* acquireLocked when it succeeds.
Grant(r, a) ==
  /\ phase' = [phase EXCEPT ![r] = "holding"]
  /\ held' = [held EXCEPT ![r] = a]
  /\ inUse' = [inUse EXCEPT ![a] = @ + 1]
  /\ queue' = Bumped(queue, a)
  /\ RecordRate(Scanned(r), a) /\ RecordDaily(a)
  /\ UNCHANGED <<waiters, limits, callbacks>>

-----------------------------------------------------------------------------
(* Waiting: pool_waiters.go                                                  *)

HasRoom == Len(waiters) < limits.maxQueue

\* The accounts canQueueLocked would let a request wait for: in use or rate
\* limited, but not out of quota for the day.
CanQueueFor(r) ==
  {a \in Account :
     /\ a = Wants[r].target \/ (Wants[r].target = None /\ Queued(a))
     /\ ~DailyLimited(a) /\ Wanted(r, a)}

CanQueue(r) == HasRoom /\ CanQueueFor(r) # {}

\* The daily checks of a failed acquireLocked and of the canQueueLocked after it.
DailyChecked(r) ==
  {a \in Scanned(r) : ~RateLimited(a)} \union (IF HasRoom THEN Scanned(r) ELSE {})

\* notifyWaiterLocked and drainWaitersLocked
NotifyWaiter == waiters' = IF waiters = <<>> THEN <<>> ELSE Tail(waiters)

BugDrainsOne == NotifyWaiter

DrainWaiters == waiters' = <<>>

\* removeWaiterLocked
RemoveWaiter(r) ==
  waiters' = IF InWaiters(r)
             THEN [k \in 1 .. Len(waiters) - 1 |->
                     IF \A j \in 1 .. k : waiters[j] # r THEN waiters[k]
                     ELSE waiters[k + 1]]
             ELSE waiters

-----------------------------------------------------------------------------
(* The requests                                                              *)

Call(r) ==
  /\ phase[r] = "idle" /\ r \notin NonBlocking
  /\ phase' = [phase EXCEPT ![r] = "entered"]
  /\ UNCHANGED <<poolVars, held, cancelled, storeVars, admin, rateVars, dailyVars,
                 today>>

\* ctx.Err at the top of AcquireWait's loop.
CheckContext(r) ==
  /\ phase[r] = "entered"
  /\ phase' = [phase EXCEPT ![r] = IF r \in cancelled THEN "failed" ELSE "checked"]
  /\ UNCHANGED <<poolVars, held, cancelled, storeVars, admin, rateVars, dailyVars,
                 today>>

\* AcquireWait under the lock: take a slot,
TakeSlot(r) ==
  /\ phase[r] = "checked"
  /\ \E a \in Account : Chosen(r, a) /\ Grant(r, a)
  /\ UNCHANGED <<cancelled, storeVars, admin, today>>

\* ... or wait for one,
Enqueue(r) ==
  /\ phase[r] = "checked" /\ ~CanServe(r) /\ CanQueue(r)
  /\ waiters' = Append(waiters, r)
  /\ phase' = [phase EXCEPT ![r] = "waiting"]
  /\ CheckRates(Scanned(r)) /\ CheckDaily(DailyChecked(r))
  /\ UNCHANGED <<queue, inUse, limits, held, cancelled, storeVars, admin, callbacks,
                 today>>

\* ... or give up.
Refuse(r) ==
  /\ phase[r] = "checked" /\ ~CanServe(r) /\ ~CanQueue(r)
  /\ phase' = [phase EXCEPT ![r] = "failed"]
  /\ CheckRates(Scanned(r)) /\ CheckDaily(DailyChecked(r))
  /\ UNCHANGED <<poolVars, held, cancelled, storeVars, admin, callbacks, today>>

\* The select, on the closed channel: around the loop once more.
Wake(r) ==
  /\ phase[r] = "waiting" /\ ~InWaiters(r)
  /\ phase' = [phase EXCEPT ![r] = "entered"]
  /\ UNCHANGED <<poolVars, held, cancelled, storeVars, admin, rateVars, dailyVars,
                 today>>

\* The select, on ctx.Done.  With both ready it may pick either, and a wake-up
\* that a release has already spent on this request is then dropped.
GiveUp(r) ==
  /\ phase[r] = "waiting" /\ r \in cancelled
  /\ RemoveWaiter(r)
  /\ phase' = [phase EXCEPT ![r] = "failed"]
  /\ UNCHANGED <<queue, inUse, limits, held, cancelled, storeVars, admin, rateVars,
                 dailyVars, today>>

\* Acquire
TryAcquire(r) ==
  /\ phase[r] = "idle" /\ r \in NonBlocking
  /\ \/ \E a \in Account : Chosen(r, a) /\ Grant(r, a)
     \/ /\ ~CanServe(r)
        /\ phase' = [phase EXCEPT ![r] = "failed"]
        /\ CheckRates(Scanned(r)) /\ CheckDaily({a \in Scanned(r) : ~RateLimited(a)})
        /\ UNCHANGED <<poolVars, held, callbacks>>
  /\ UNCHANGED <<cancelled, storeVars, admin, today>>

BugReleaseSilently(a) ==
  /\ inUse' = [inUse EXCEPT ![a] = IF @ > 0 THEN @ - 1 ELSE 0]
  /\ UNCHANGED waiters

BugReleaseKeepsLast(a) ==
  IF inUse[a] <= 1 THEN UNCHANGED <<inUse, waiters>>
  ELSE inUse' = [inUse EXCEPT ![a] = @ - 1] /\ NotifyWaiter

\* Pool.Release: nothing happens, and nobody is woken, for an account whose count
\* is already zero.
ReleaseSlot(a) ==
  IF inUse[a] = 0 THEN UNCHANGED <<inUse, waiters>>
  ELSE inUse' = [inUse EXCEPT ![a] = @ - 1] /\ NotifyWaiter

Release(r) ==
  /\ phase[r] = "holding"
  /\ phase' = [phase EXCEPT ![r] = "done"]
  /\ held' = [held EXCEPT ![r] = None]
  /\ ReleaseSlot(held[r])
  /\ UNCHANGED <<queue, limits, cancelled, storeVars, admin, rateVars, dailyVars,
                 today>>

Cancel(r) ==
  /\ r \in Cancellable \ cancelled
  /\ phase[r] \in {"entered", "checked", "waiting"}
  /\ cancelled' = cancelled \union {r}
  /\ UNCHANGED <<poolVars, phase, held, storeVars, admin, rateVars, dailyVars, today>>

-----------------------------------------------------------------------------
(* The administrators' handlers, and the request goroutines that mute, ban   *)
(* and cool accounts down: Store.Update, then Pool.Reset                     *)

StoreAccount(d, a, s) ==
  /\ admin[d].step = "idle" /\ writes < MaxWrites
  /\ s # store[a]
  /\ \/ a \in Removable /\ s \in {"out", "schedulable"}
     \/ a \in Restable /\ s = "resting" /\ store[a] = "schedulable"
  /\ store' = [store EXCEPT ![a] = s]
  /\ writes' = writes + 1
  /\ admin' = [admin EXCEPT ![d] = [step |-> "stored"]]
  /\ UNCHANGED <<poolVars, requestVars, conf, rateMax, dailyMax, rateVars, dailyVars,
                 today>>

\* A mute or a cooldown ends by the clock; nobody is told.
RestEnds(a) ==
  /\ store[a] = "resting"
  /\ store' = [store EXCEPT ![a] = "schedulable"]
  /\ UNCHANGED <<poolVars, requestVars, conf, rateMax, dailyMax, writes, admin,
                 rateVars, dailyVars, today>>

\* Reset before it locks.  It also writes p.maxInflightPerAccount here, without
\* the lock.
ResetReads(d) ==
  /\ admin[d].step = "stored"
  /\ \E tokens \in TokenSets : \E q \in QueuesOf(InQueueable, tokens) :
       admin' = [admin EXCEPT ![d] =
                   [step |-> "read", queue |-> q, limits |-> LimitsFor(conf, Len(q))]]
  /\ limits' = [limits EXCEPT !.maxPer = conf.maxPer]
  /\ UNCHANGED <<queue, inUse, waiters, requestVars, storeVars, rateVars, dailyVars,
                 today>>

BugForgetInUse(Q) == inUse' = [a \in Account |-> 0]

\* Reset keeps the counts of the accounts in the new queue, and no others.
PruneInUse(Q) == inUse' = [a \in Account |-> IF a \in Q THEN inUse[a] ELSE 0]

\* Reset under the lock, with the queue and the limits it read before.
ResetInstalls(d) ==
  /\ admin[d].step = "read"
  /\ queue' = admin[d].queue
  /\ limits' = [admin[d].limits EXCEPT !.maxPer = limits.maxPer]
  /\ LET Q == {admin[d].queue[i] : i \in DOMAIN admin[d].queue} IN
     PruneInUse(Q) /\ PruneDaily(Q)
  /\ DrainWaiters /\ ClearRateLimits
  /\ admin' = [admin EXCEPT ![d] = Idle]
  /\ UNCHANGED <<requestVars, storeVars, callbacks, today>>

-----------------------------------------------------------------------------
(* The settings handler: Store.Update, then applyRuntimeSettings             *)

StoreSettings(d, s) ==
  /\ admin[d].step = "idle" /\ writes < MaxWrites
  /\ conf' = [maxPer |-> s.maxPer, maxQueue |-> s.maxQueue, global |-> s.global]
  /\ rateMax' = s.rateMax /\ dailyMax' = s.dailyMax
  /\ <<conf', rateMax', dailyMax'>> # <<conf, rateMax, dailyMax>>
  /\ writes' = writes + 1
  /\ admin' = [admin EXCEPT ![d] = [step |-> "configured"]]
  /\ UNCHANGED <<poolVars, requestVars, store, rateVars, dailyVars, today>>

\* SchedulableCount, then the limits that follow from it.
SettingsRead(d) ==
  /\ admin[d].step = "configured"
  /\ admin' = [admin EXCEPT ![d] =
                 [step |-> "limits", limits |-> LimitsFor(conf, Len(queue))]]
  /\ UNCHANGED <<poolVars, requestVars, storeVars, rateVars, dailyVars, today>>

\* ApplyRuntimeLimits: whatever the limits were raised by, one waiter is woken.
ApplyRuntimeLimits(d) ==
  /\ admin[d].step = "limits"
  /\ LET l == admin[d].limits
         default == IF queue = <<>> THEN l.maxPer ELSE l.maxPer * Len(queue)
     IN limits' = [l EXCEPT !.global = IF @ > 0 THEN @ ELSE default]
  /\ NotifyWaiter
  /\ admin' = [admin EXCEPT ![d] = [step |-> "syncRate"]]
  /\ UNCHANGED <<queue, inUse, requestVars, storeVars, rateVars, dailyVars, today>>

SyncRateLimits(d) ==
  /\ admin[d].step = "syncRate"
  /\ SyncRates
  /\ IF SyncRatesRecovers THEN DrainWaiters ELSE UNCHANGED waiters
  /\ admin' = [admin EXCEPT ![d] = [step |-> "syncDaily"]]
  /\ UNCHANGED <<queue, inUse, limits, requestVars, storeVars, callbacks, dailyVars,
                 today>>

SyncDailyLimits(d) ==
  /\ admin[d].step = "syncDaily"
  /\ SyncDaily
  /\ IF SyncDailyDrains THEN DrainWaiters ELSE UNCHANGED waiters
  /\ admin' = [admin EXCEPT ![d] = Idle]
  /\ UNCHANGED <<queue, inUse, limits, requestVars, storeVars, rateVars, today>>

-----------------------------------------------------------------------------
(* Time, timers and readers                                                  *)

WindowEnds(a) ==
  /\ WindowElapses(a)
  /\ UNCHANGED <<poolVars, requestVars, store, conf, dailyMax, writes, admin, dailyVars,
                 today>>

FireTimer(a) ==
  /\ TimerFires(a)
  /\ UNCHANGED <<poolVars, requestVars, store, conf, dailyMax, writes, admin, dailyVars,
                 today>>

\* resetAccountRateLimit
TimerCallback(a) ==
  /\ ResetRate(a)
  /\ IF RateResetDrains(a) THEN DrainWaiters ELSE UNCHANGED waiters
  /\ UNCHANGED <<queue, inUse, limits, requestVars, store, conf, dailyMax, writes,
                 admin, dailyVars, today>>

\* Status and IsAccountRateLimited, as they look at a.  Looking resets an elapsed
\* window and rolls the date.
Look(a) ==
  /\ Pollers
  /\ CheckRates({a}) /\ CheckDaily(IF RateLimited(a) THEN {} ELSE {a})
  /\ UNCHANGED <<poolVars, requestVars, storeVars, admin, callbacks, today>>

Midnight ==
  /\ dailyMax > 0 /\ today < MaxDay /\ NextDay
  /\ UNCHANGED <<poolVars, requestVars, store, conf, rateMax, writes, admin, rateVars>>

PersistTimers ==
  /\ IntervalPasses \/ Flush
  /\ UNCHANGED <<poolVars, requestVars, store, conf, rateMax, writes, admin, rateVars>>

-----------------------------------------------------------------------------
RequestStep(r) ==
  \/ Call(r) \/ CheckContext(r) \/ TakeSlot(r) \/ Enqueue(r) \/ Refuse(r)
  \/ Wake(r) \/ GiveUp(r) \/ TryAcquire(r) \/ Release(r) \/ Cancel(r)

AdminStep(d) ==
  \/ \E a \in Account, s \in StoreStates : StoreAccount(d, a, s)
  \/ ResetReads(d) \/ ResetInstalls(d)
  \/ \E s \in Settings : StoreSettings(d, s)
  \/ SettingsRead(d) \/ ApplyRuntimeLimits(d) \/ SyncRateLimits(d) \/ SyncDailyLimits(d)

ClockStep(a) ==
  RestEnds(a) \/ WindowEnds(a) \/ FireTimer(a) \/ TimerCallback(a) \/ Look(a)

Next ==
  \/ \E r \in Request : RequestStep(r)
  \/ \E d \in Admin : AdminStep(d)
  \/ \E a \in Account : ClockStep(a)
  \/ Midnight \/ PersistTimers

\* As long as a goroutine can run, a request that holds an account can end, or a timer
\* or window is under way, some of that happens.  Nobody has to call, to cancel, to poll
\* or to change the configuration.
Progress ==
  \/ \E r \in Request :
       CheckContext(r) \/ TakeSlot(r) \/ Enqueue(r) \/ Refuse(r) \/ Wake(r) \/ Release(r)
  \/ \E d \in Admin :
       \/ ResetReads(d) \/ ResetInstalls(d) \/ SettingsRead(d)
       \/ ApplyRuntimeLimits(d) \/ SyncRateLimits(d) \/ SyncDailyLimits(d)
  \/ \E a \in Account : WindowEnds(a) \/ FireTimer(a) \/ TimerCallback(a)

Spec == Init /\ [][Next]_vars

FairSpec == Spec /\ WF_vars(Progress)

-----------------------------------------------------------------------------
(* Properties                                                                *)

PoolTypeOK ==
  /\ RateTypeOK /\ DailyTypeOK
  /\ store \in [Account -> StoreStates]
  /\ conf \in Limits
  /\ queue \in Seq(Account)
  /\ inUse \in [Account -> Nat]
  /\ waiters \in Seq(Request)
  /\ limits \in Limits
  /\ phase \in [Request -> Phases]
  /\ held \in [Request -> Account \union {None}]
  /\ cancelled \subseteq Request
  /\ admin \in [Admin -> Handlers]
  /\ writes \in Nat

\* The pool never counts a slot that no request holds: whatever resets, limit
\* changes, cancellations and releases do, capacity is never lost for good.
\* (Pool.Release, the pruning in Reset, and acquireLocked's inUse++.)
NoLeakedSlot == \A a \in Account : inUse[a] <= Cardinality(Holders(a))

Slots == INSTANCE SlotPool
           WITH Caps <- {s.maxPer : s \in Settings}, removable <- Removable

\* The pool keeps what SlotPool promises: a slot is granted only below the account's
\* limit, given back once, and otherwise only forgotten with an account that was taken
\* out, whatever its queues, limits, timers and administrators do.
SlotsAsPromised == Slots!Spec

\* An account that is never taken out of the configuration is counted exactly,
\* through any resets (the comment at pool_core.go:92), and is never granted
\* beyond the largest per-account limit that was ever configured.
NeverOversold ==
  \A a \in Account \ Removable :
    /\ inUse[a] = Cardinality(Holders(a))
    /\ \E s \in Settings : Cardinality(Holders(a)) <= s.maxPer

\* No slot is granted while the requests that hold accounts which stay configured
\* reach the global limit in force, which the pool only knows through the per-account
\* counters (currentInUseLocked).
GlobalLimitKept ==
  [][\A r \in Request :
       phase[r] # "holding" /\ phase'[r] = "holding" =>
         Cardinality({q \in Request : held'[q] \in Account \ Removable})
           <= limits.global]_vars

\* Every channel in the waiter queue belongs to a goroutine that is asleep on it,
\* and no goroutine is there twice: a notification never goes to a channel that
\* nobody reads.
WaitersAreAsleep ==
  /\ \A i \in DOMAIN waiters : phase[waiters[i]] = "waiting"
  /\ \A i, j \in DOMAIN waiters : waiters[i] = waiters[j] => i = j

\* Nothing that could still wake a waiter is going on.
Quiet ==
  /\ Holding = {}
  /\ \A r \in Request : phase[r] \notin {"entered", "checked"}
                        /\ (phase[r] = "waiting" => InWaiters(r))
  /\ \A d \in Admin : admin[d] = Idle
  /\ \A a \in Account : callbacks[a] = 0 /\ ~rate[a].timer

\* No request sleeps on in a quiet pool beside an account it could have: a
\* released slot reaches a request that waits for it (pool_waiters.go:7 and :39,
\* the queue waits for "the slot that the release of an account frees").
NoStrandedWaiter ==
  Quiet => \A r \in Request : phase[r] = "waiting" => ~CanServe(r)

\* AcquireWait returns: no request waits for ever (pool_waiters.go:9).
EveryCallReturns ==
  \A r \in Request \ NonBlocking :
    phase[r] = "entered" ~> phase[r] \in {"holding", "failed", "done"}

\* An account that the limiter has marked unavailable has a running window, so the
\* next look at it after the window, or its timer, brings it back.
LimitedAccountRecovers ==
  \A a \in Account :
    rate[a].unavailable =>
      \/ rate[a].window = "over"
      \/ rate[a].window = "open" /\ rate[a].timer

\* A call that can be served at once never queues or fails, although it may pass
\* requests that wait (TakeSlot needs no turn): a refused or sleeping request found
\* every account it may use busy, limited or unschedulable at that moment.
NeverQueuesBesideFreeAccount ==
  [][\A r \in Request :
       phase[r] = "checked" /\ phase'[r] \in {"waiting", "failed"} =>
         \A a \in Account :
           ~( /\ Wants[r].target \in {None, a} /\ Queued(a) /\ Wanted(r, a)
              /\ Cardinality(Holders(a)) < limits.maxPer
              /\ Cardinality(Holding) < limits.global
              /\ ~RateLimited(a) /\ ~DailyLimited(a))]_vars
=============================================================================
