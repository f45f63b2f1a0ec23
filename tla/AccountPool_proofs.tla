------------------------- MODULE AccountPool_proofs -------------------------
(***************************************************************************)
(* What holds of the account pool for every set of accounts, requests and  *)
(* handlers, and every configuration: type correctness, that no slot is    *)
(* ever lost (NoLeakedSlot), that an account which stays configured is     *)
(* counted exactly and never granted beyond its limit (NeverOversold) nor  *)
(* all of them beyond the global one, that the pool implements SlotPool,   *)
(* that an account at its rate limit recovers, and that no waiter is left  *)
(* in the queue beside an account that would serve it.                     *)
(***************************************************************************)
EXTENDS AccountPool, FiniteSetTheorems, TLAPS

-----------------------------------------------------------------------------
(* Lemmas about the operators of the model                                   *)

\* The limiter's operators give entries again (pool_rate_limit.go).
LEMMA RateTypes ==
  ASSUME RateTypeOK, NEW S
  PROVE  /\ CheckRates(S) => rate' \in [Account -> Entries]
         /\ \A g \in Account : RecordRate(S, g) => rate' \in [Account -> Entries]
         /\ ClearRateLimits => rate' \in [Account -> Entries]
         /\ SyncRates => rate' \in [Account -> Entries]
<1> USE DEF Entries, Windows
<1>1. NoEntry \in Entries /\ ClearedEntry \in Entries
  BY DEF NoEntry, ClearedEntry
<1>2. \A a \in Account : rate[a] \in Entries
  BY DEF RateTypeOK
<1>3. \A a \in Account : RateChecked(a) \in Entries
  BY <1>1, <1>2 DEF RateChecked
<1>4. ASSUME NEW e \in Entries
      PROVE  Recorded(e) \in Entries
  <2> DEFINE fresh == e.window # "open"
             n == IF fresh THEN 1 ELSE e.count + 1
  <2>1. n \in Nat /\ fresh \in BOOLEAN
    OBVIOUS
  <2>2. ((~fresh /\ e.unavailable) \/ n >= rateMax) \in BOOLEAN
    OBVIOUS
  <2>3. (IF fresh THEN TRUE ELSE e.timer) \in BOOLEAN
    OBVIOUS
  <2> HIDE DEF fresh, n
  <2>4. [window |-> "open", count |-> n, timer |-> IF fresh THEN TRUE ELSE e.timer,
         unavailable |-> (~fresh /\ e.unavailable) \/ n >= rateMax] \in Entries
    BY <2>1, <2>2, <2>3
  <2> QED
    BY <2>4 DEF Recorded, fresh, n
<1>5. \A e \in Entries : SyncedEntry(e, rateMax) \in Entries
  BY <1>1 DEF SyncedEntry, RateTypeOK
<1> QED
  BY <1>1, <1>2, <1>3, <1>4, <1>5
     DEF CheckRates, RecordRate, ClearRateLimits, SyncRates

LEMMA EntryUpdates ==
  ASSUME NEW e \in Entries
  PROVE  /\ [e EXCEPT !.window = "over"] \in Entries
         /\ [e EXCEPT !.timer = FALSE] \in Entries
BY DEF Entries, Windows

\* The quota's operators keep its types (pool_daily_limit.go).
LEMMA DailyTypes ==
  ASSUME DailyTypeOK, NEW S
  PROVE  /\ CheckDaily(S) /\ UNCHANGED <<dailyMax, today>> => DailyTypeOK'
         /\ \A g \in Account :
              RecordDaily(g) /\ UNCHANGED <<dailyMax, today>> => DailyTypeOK'
         /\ PruneDaily(S) /\ UNCHANGED <<dailyMax, today>> => DailyTypeOK'
         /\ SyncDaily /\ UNCHANGED <<dailyMax, today>> => DailyTypeOK'
         /\ (IntervalPasses \/ Flush \/ NextDay) => DailyTypeOK'
         /\ UNCHANGED <<dailyVars, today>> /\ dailyMax' \in Nat => DailyTypeOK'
<1>1. NoCounts \in [Account -> Nat] /\ TodaysCounts \in [Account -> Nat]
  BY DEF NoCounts, TodaysCounts, DailyTypeOK
<1>2. ASSUME NEW date \in Nat, NEW counts \in [Account -> Nat], Persist(date, counts)
      PROVE  disk' \in Counters
  BY <1>2 DEF Persist, Counters, DailyTypeOK
<1>3. CheckDaily(S) /\ UNCHANGED <<dailyMax, today>> => DailyTypeOK'
  BY <1>1, <1>2 DEF CheckDaily, DailyTypeOK, dailyVars
<1>4. ASSUME NEW g \in Account, RecordDaily(g), UNCHANGED <<dailyMax, today>>
      PROVE  DailyTypeOK'
  <2>1. CASE dailyMax = 0
    BY <1>4, <2>1 DEF RecordDaily, DailyTypeOK, dailyVars
  <2>2. CASE dailyMax # 0
    <3> DEFINE counts == [TodaysCounts EXCEPT ![g] = @ + 1]
    <3>1. counts \in [Account -> Nat]
      BY <1>1
    <3>2. /\ dailyDate' = today /\ dailyCounts' = counts
          /\ \/ Persist(today, counts) /\ UNCHANGED <<recent, flush>>
             \/ PersistThrottled(counts)
      BY <1>4, <2>2 DEF RecordDaily
    <3> HIDE DEF counts
    <3>3. CASE Persist(today, counts) /\ UNCHANGED <<recent, flush>>
      BY <1>2, <1>4, <3>1, <3>2, <3>3 DEF DailyTypeOK
    <3>4. CASE PersistThrottled(counts)
      BY <1>1, <1>2, <1>4, <3>1, <3>2, <3>4 DEF DailyTypeOK, PersistThrottled
    <3> QED
      BY <3>2, <3>3, <3>4
  <2> QED
    BY <2>1, <2>2
<1>5. PruneDaily(S) /\ UNCHANGED <<dailyMax, today>> => DailyTypeOK'
  BY DEF PruneDaily, DailyTypeOK
<1>6. SyncDaily /\ UNCHANGED <<dailyMax, today>> => DailyTypeOK'
  BY <1>1, <1>2 DEF SyncDaily, CheckDaily, DailyTypeOK, dailyVars
<1>7. (IntervalPasses \/ Flush \/ NextDay) => DailyTypeOK'
  <2>1. IntervalPasses => DailyTypeOK'
    BY DEF IntervalPasses, DailyTypeOK
  <2>2. Flush => DailyTypeOK'
    BY <1>2 DEF Flush, DailyTypeOK
  <2>3. NextDay => DailyTypeOK'
    BY DEF NextDay, DailyTypeOK, dailyVars
  <2> QED
    BY <2>1, <2>2, <2>3
<1>8. UNCHANGED <<dailyVars, today>> /\ dailyMax' \in Nat => DailyTypeOK'
  BY DEF DailyTypeOK, dailyVars
<1> QED
  BY <1>3, <1>4, <1>5, <1>6, <1>7, <1>8

\* Reset's queue is a sequence of accounts in which every queueable account
\* stands (pool_core.go:62).
LEMMA QueuesOfAccounts ==
  ASSUME PoolAssumption, NEW ids \in SUBSET Account, NEW tokens,
         NEW q \in QueuesOf(ids, tokens)
  PROVE  /\ q \in Seq(Account)
         /\ Len(q) \in Nat
         /\ \A a \in ids : \E i \in DOMAIN q : q[i] = a
<1> DEFINE n == Cardinality(ids)
<1>1. IsFiniteSet(ids) /\ n \in Nat
  BY FS_Subset, FS_CardinalityType DEF PoolAssumption
<1>2. /\ q \in [1 .. n -> ids]
      /\ \A i, j \in 1 .. n : i < j => Before(q[i], q[j], tokens)
  BY DEF QueuesOf
<1>3. q \in Seq(Account) /\ Len(q) = n
  <2>1. q \in [1 .. n -> Account]
    BY <1>2
  <2> QED
    BY <1>1, <2>1
<1>4. q \in Injection(1 .. n, ids)
  <2>1. ASSUME NEW i \in 1 .. n, NEW j \in 1 .. n, q[i] = q[j]
        PROVE  i = j
    <3>1. ASSUME NEW k \in 1 .. n, NEW l \in 1 .. n, k < l, q[k] = q[l]
          PROVE  FALSE
      <4>1. Before(q[k], q[k], tokens) /\ q[k] \in Account
        BY <1>2, <3>1
      <4>2. Position[q[k]] \in Nat
        BY <4>1 DEF PoolAssumption
      <4> QED
        BY <4>1, <4>2 DEF Before
    <3> QED
      BY <1>1, <2>1, <3>1
  <2> QED
    BY <1>2, <2>1 DEF Injection, IsInjective
<1>5. IsFiniteSet(1 .. n) /\ Cardinality(1 .. n) = n
  <2> HIDE DEF n
  <2>1. 1 \in Int /\ n \in Int
    BY <1>1
  <2>2. Cardinality(1 .. n) = IF 1 > n THEN 0 ELSE n - 1 + 1
    BY <2>1, FS_Interval
  <2> QED
    BY <1>1, <2>1, <2>2, FS_Interval
<1>6. q \in Surjection(1 .. n, ids)
  BY <1>1, <1>4, <1>5, FS_Injection
<1>7. DOMAIN q = 1 .. n
  BY <1>2
<1> QED
  BY <1>1, <1>3, <1>6, <1>7 DEF Surjection

\* bumpQueue, notifyWaiterLocked and removeWaiterLocked give sequences again.
LEMMA QueueTypes ==
  ASSUME queue \in Seq(Account), NEW a \in Account
  PROVE  Bumped(queue, a) \in Seq(Account)
<1>1. Bumped(queue, a) \in [1 .. Len(queue) -> Account]
  BY DEF Bumped
<1> QED
  BY <1>1

LEMMA WaiterTypes ==
  ASSUME waiters \in Seq(Request), NEW r \in Request
  PROVE  /\ NotifyWaiter => waiters' \in Seq(Request)
         /\ DrainWaiters => waiters' \in Seq(Request)
         /\ RemoveWaiter(r) => waiters' \in Seq(Request)
         /\ Append(waiters, r) \in Seq(Request)
<1>1. NotifyWaiter => waiters' \in Seq(Request)
  BY DEF NotifyWaiter
<1>2. RemoveWaiter(r) => waiters' \in Seq(Request)
  <2>1. CASE ~InWaiters(r)
    BY <2>1 DEF RemoveWaiter
  <2>2. CASE InWaiters(r)
    <3>1. Len(waiters) \in Nat \ {0}
      BY <2>2 DEF InWaiters
    <3>2. RemoveWaiter(r) => waiters' \in [1 .. Len(waiters) - 1 -> Request]
      BY <2>2, <3>1 DEF RemoveWaiter
    <3> QED
      BY <3>1, <3>2
  <2> QED
    BY <2>1, <2>2
<1>3. DrainWaiters => waiters' \in Seq(Request)
  BY DEF DrainWaiters
<1>4. Append(waiters, r) \in Seq(Request)
  OBVIOUS
<1> QED
  BY <1>1, <1>2, <1>3, <1>4

LEMMA WaiterDrain ==
  ASSUME waiters \in Seq(Request)
  PROVE  (UNCHANGED waiters \/ DrainWaiters) => waiters' \in Seq(Request)
<1>1. UNCHANGED waiters => waiters' \in Seq(Request)
  OBVIOUS
<1>2. DrainWaiters => waiters' \in Seq(Request)
  BY DEF DrainWaiters
<1> QED
  BY <1>1, <1>2

\* The limits that follow from a configuration and a queue length.
LEMMA LimitsForType ==
  ASSUME NEW c \in Limits, NEW n \in Nat
  PROVE  LimitsFor(c, n) \in Limits /\ LimitsFor(c, n).maxPer = c.maxPer
BY DEF LimitsFor, Limits, Recommended

-----------------------------------------------------------------------------
(* Type correctness                                                          *)

LEMMA TypeInit == ASSUME PoolAssumption, Init PROVE PoolTypeOK
<1>1. RateTypeOK
  <2>1. NoEntry \in Entries
    BY DEF NoEntry, Entries, Windows
  <2> QED
    BY <2>1 DEF Init, RateInit, RateTypeOK, PoolAssumption
<1>2. DailyTypeOK
  <2>1. NoCounts \in [Account -> Nat]
    BY DEF NoCounts
  <2>2. dailyMax \in Nat
    BY DEF Init, PoolAssumption
  <2>3. NoFile \in Counters
    BY <2>1 DEF NoFile, Counters
  <2> QED
    BY <2>1, <2>2, <2>3 DEF Init, DailyInit, DailyTypeOK
<1>3. conf \in Limits
  BY DEF Init, Limits, PoolAssumption
<1>4. queue \in Seq(Account)
  <2>1. InQueueable \in SUBSET Account
    BY DEF InQueueable
  <2> QED
    BY <2>1, QueuesOfAccounts DEF Init
<1>5. limits \in Limits
  <2>1. Cardinality(InQueueable) \in Nat
    BY FS_Subset, FS_CardinalityType DEF InQueueable, PoolAssumption
  <2> QED
    BY <1>3, <2>1, LimitsForType DEF Init
<1>6. admin \in [Admin -> Handlers]
  BY DEF Init, Handlers, Idle
<1> QED
  BY <1>1, <1>2, <1>3, <1>4, <1>5, <1>6 DEF Init, PoolTypeOK, StoreStates, Phases

\* What the type invariant says of a handler that has read a queue or limits.
LEMMA HandlerTypes ==
  ASSUME PoolTypeOK, NEW d \in Admin
  PROVE  /\ admin[d].step = "read" =>
              admin[d].queue \in Seq(Account) /\ admin[d].limits \in Limits
         /\ admin[d].step = "limits" => admin[d].limits \in Limits
<1>1. admin[d] \in Handlers
  BY DEF PoolTypeOK
<1> QED
  BY <1>1 DEF Handlers

\* The slot a grant hands out, and the types it leaves.
LEMMA GrantTypes ==
  ASSUME PoolTypeOK, NEW r \in Request, NEW a \in Account, Grant(r, a),
         UNCHANGED <<cancelled, storeVars, admin, today>>
  PROVE  PoolTypeOK'
<1>1. RateTypeOK'
  BY RateTypes DEF PoolTypeOK, Grant, RateTypeOK, storeVars
<1>2. DailyTypeOK'
  BY DailyTypes DEF PoolTypeOK, Grant, storeVars
<1>3. queue' \in Seq(Account)
  BY QueueTypes DEF PoolTypeOK, Grant
<1> QED
  BY <1>1, <1>2, <1>3 DEF PoolTypeOK, Grant, storeVars, Phases

LEMMA TypeStep == ASSUME PoolAssumption, PoolTypeOK, [Next]_vars PROVE PoolTypeOK'
<1> USE DEF poolVars, requestVars, storeVars, rateVars, StoreStates, Phases
<1>0. ASSUME UNCHANGED <<rate, callbacks, rateMax>> PROVE RateTypeOK'
  BY <1>0 DEF PoolTypeOK, RateTypeOK
<1>1. ASSUME UNCHANGED <<dailyVars, today, dailyMax>> PROVE DailyTypeOK'
  BY <1>1, DailyTypes DEF PoolTypeOK, DailyTypeOK
<1>2. ASSUME NEW r \in Request, RequestStep(r) PROVE PoolTypeOK'
  <2>1. CASE Call(r)
    BY <1>0, <1>1, <2>1 DEF Call, PoolTypeOK
  <2>2. CASE CheckContext(r)
    BY <1>0, <1>1, <2>2 DEF CheckContext, PoolTypeOK
  <2>3. CASE TakeSlot(r)
    BY <2>3, GrantTypes DEF TakeSlot
  <2>4. CASE Enqueue(r)
    <3>1. RateTypeOK'
      BY <2>4, RateTypes DEF Enqueue, PoolTypeOK, RateTypeOK
    <3>2. DailyTypeOK'
      BY <2>4, DailyTypes DEF Enqueue, PoolTypeOK
    <3>3. waiters' \in Seq(Request)
      BY <2>4, WaiterTypes DEF Enqueue, PoolTypeOK
    <3> QED
      BY <2>4, <3>1, <3>2, <3>3 DEF Enqueue, PoolTypeOK
  <2>5. CASE Refuse(r)
    <3>1. RateTypeOK'
      BY <2>5, RateTypes DEF Refuse, PoolTypeOK, RateTypeOK
    <3>2. DailyTypeOK'
      BY <2>5, DailyTypes DEF Refuse, PoolTypeOK
    <3> QED
      BY <2>5, <3>1, <3>2 DEF Refuse, PoolTypeOK
  <2>6. CASE Wake(r)
    BY <1>0, <1>1, <2>6 DEF Wake, PoolTypeOK
  <2>7. CASE GiveUp(r)
    <3>1. waiters' \in Seq(Request)
      BY <2>7, WaiterTypes DEF GiveUp, PoolTypeOK
    <3> QED
      BY <1>0, <1>1, <2>7, <3>1 DEF GiveUp, PoolTypeOK
  <2>8. CASE TryAcquire(r)
    <3>1. CASE \E a \in Account : Chosen(r, a) /\ Grant(r, a)
      BY <2>8, <3>1, GrantTypes DEF TryAcquire
    <3>2. CASE ~\E a \in Account : Chosen(r, a) /\ Grant(r, a)
      <4>1. RateTypeOK'
        BY <2>8, <3>2, RateTypes DEF TryAcquire, PoolTypeOK, RateTypeOK
      <4>2. DailyTypeOK'
        BY <2>8, <3>2, DailyTypes DEF TryAcquire, PoolTypeOK
      <4> QED
        BY <2>8, <3>2, <4>1, <4>2 DEF TryAcquire, PoolTypeOK
    <3> QED
      BY <3>1, <3>2
  <2>9. CASE Release(r)
    <3>0. ReleaseSlot(held[r]) /\ inUse \in [Account -> Nat]
      BY <2>9 DEF Release, PoolTypeOK
    <3>1. waiters' \in Seq(Request)
      BY <3>0, WaiterTypes DEF ReleaseSlot, PoolTypeOK
    <3>2. inUse' \in [Account -> Nat]
      <4>1. CASE held[r] \in Account
        BY <3>0, <4>1 DEF ReleaseSlot
      <4>2. CASE held[r] \notin Account
        <5>1. [inUse EXCEPT ![held[r]] = @ - 1] = inUse
          BY <3>0, <4>2
        <5> QED
          BY <3>0, <5>1 DEF ReleaseSlot
      <4> QED
        BY <4>1, <4>2
    <3> QED
      BY <1>0, <1>1, <2>9, <3>1, <3>2 DEF Release, PoolTypeOK
  <2>10. CASE Cancel(r)
    BY <1>0, <1>1, <2>10 DEF Cancel, PoolTypeOK
  <2> QED
    BY <1>2, <2>1, <2>2, <2>3, <2>4, <2>5, <2>6, <2>7, <2>8, <2>9, <2>10
       DEF RequestStep
<1>3. ASSUME NEW d \in Admin, AdminStep(d) PROVE PoolTypeOK'
  <2>0. \A step \in {"idle", "stored", "configured", "syncRate", "syncDaily"} :
          [step |-> step] \in Handlers
    BY DEF Handlers
  <2>1. CASE \E a \in Account, s \in StoreStates : StoreAccount(d, a, s)
    BY <1>0, <1>1, <2>0, <2>1 DEF StoreAccount, PoolTypeOK
  <2>2. CASE ResetReads(d)
    <3>0. PICK tokens \in TokenSets : \E q \in QueuesOf(InQueueable, tokens) :
            admin' = [admin EXCEPT ![d] =
              [step |-> "read", queue |-> q, limits |-> LimitsFor(conf, Len(q))]]
      BY <2>2 DEF ResetReads
    <3>1. PICK q \in QueuesOf(InQueueable, tokens) :
            admin' = [admin EXCEPT ![d] =
              [step |-> "read", queue |-> q, limits |-> LimitsFor(conf, Len(q))]]
      BY <3>0
    <3>2. q \in Seq(Account) /\ LimitsFor(conf, Len(q)) \in Limits
      BY QueuesOfAccounts, LimitsForType DEF InQueueable, PoolTypeOK
    <3>3. admin' \in [Admin -> Handlers]
      BY <3>1, <3>2 DEF PoolTypeOK, Handlers
    <3>4. limits' \in Limits
      BY <2>2 DEF ResetReads, PoolTypeOK, Limits
    <3> QED
      BY <1>0, <1>1, <2>2, <3>3, <3>4 DEF ResetReads, PoolTypeOK
  <2>3. CASE ResetInstalls(d)
    <3>1. queue' \in Seq(Account) /\ limits' \in Limits
      BY <2>3, HandlerTypes DEF ResetInstalls, PoolTypeOK, Limits
    <3>2. admin' \in [Admin -> Handlers]
      BY <2>0, <2>3 DEF ResetInstalls, PoolTypeOK, Idle
    <3>3. RateTypeOK'
      BY <2>3, RateTypes DEF ResetInstalls, PoolTypeOK, RateTypeOK
    <3>4. DailyTypeOK'
      BY <2>3, DailyTypes DEF ResetInstalls, PoolTypeOK
    <3> QED
      BY <2>3, <3>1, <3>2, <3>3, <3>4
         DEF ResetInstalls, PoolTypeOK, PruneInUse, DrainWaiters
  <2>4. CASE \E s \in Settings : StoreSettings(d, s)
    <3>1. PICK s \in Settings : StoreSettings(d, s)
      BY <2>4
    <3>2. conf' \in Limits /\ rateMax' \in Nat /\ dailyMax' \in Nat
      BY <3>1 DEF StoreSettings, Limits, PoolAssumption
    <3>3. DailyTypeOK'
      BY <3>1, <3>2, DailyTypes DEF StoreSettings, PoolTypeOK
    <3>4. RateTypeOK'
      BY <3>1, <3>2 DEF StoreSettings, PoolTypeOK, RateTypeOK
    <3> QED
      BY <2>0, <3>1, <3>2, <3>3, <3>4 DEF StoreSettings, PoolTypeOK
  <2>5. CASE SettingsRead(d)
    <3>1. admin' \in [Admin -> Handlers]
      BY <2>5, LimitsForType DEF SettingsRead, PoolTypeOK, Handlers
    <3> QED
      BY <1>0, <1>1, <2>5, <3>1 DEF SettingsRead, PoolTypeOK
  <2>6. CASE ApplyRuntimeLimits(d)
    <3>1. admin[d].limits \in Limits
      BY <2>6, HandlerTypes DEF ApplyRuntimeLimits
    <3>2. limits' \in Limits
      <4> DEFINE l == admin[d].limits
                 default == IF queue = <<>> THEN l.maxPer ELSE l.maxPer * Len(queue)
      <4>1. \A m, n \in Nat : m * n \in Nat
        OBVIOUS
      <4>2. default \in Nat
        <5>1. l.maxPer \in Nat /\ Len(queue) \in Nat
          BY <3>1 DEF PoolTypeOK, Limits
        <5> QED
          BY <4>1, <5>1
      <4>3. limits' = [l EXCEPT !.global = IF @ > 0 THEN @ ELSE default]
        BY <2>6 DEF ApplyRuntimeLimits
      <4> HIDE DEF default
      <4> QED
        BY <3>1, <4>2, <4>3 DEF Limits
    <3>3. waiters' \in Seq(Request)
      BY <2>6 DEF ApplyRuntimeLimits, NotifyWaiter, PoolTypeOK
    <3> QED
      BY <1>0, <1>1, <2>0, <2>6, <3>2, <3>3 DEF ApplyRuntimeLimits, PoolTypeOK
  <2>7. CASE SyncRateLimits(d)
    <3>1. RateTypeOK'
      BY <2>7, RateTypes DEF SyncRateLimits, PoolTypeOK, RateTypeOK
    <3>2. waiters' \in Seq(Request)
      BY <2>7, WaiterDrain DEF SyncRateLimits, PoolTypeOK
    <3> QED
      BY <1>1, <2>0, <2>7, <3>1, <3>2 DEF SyncRateLimits, PoolTypeOK
  <2>8. CASE SyncDailyLimits(d)
    <3>1. DailyTypeOK'
      BY <2>8, DailyTypes DEF SyncDailyLimits, PoolTypeOK
    <3>2. waiters' \in Seq(Request)
      BY <2>8, WaiterDrain DEF SyncDailyLimits, PoolTypeOK
    <3>3. admin' \in [Admin -> Handlers]
      BY <2>0, <2>8 DEF SyncDailyLimits, PoolTypeOK, Idle
    <3> QED
      BY <1>0, <2>8, <3>1, <3>2, <3>3 DEF SyncDailyLimits, PoolTypeOK
  <2> QED
    BY <1>3, <2>1, <2>2, <2>3, <2>4, <2>5, <2>6, <2>7, <2>8 DEF AdminStep
<1>4. ASSUME NEW a \in Account, ClockStep(a) PROVE PoolTypeOK'
  <2>1. CASE RestEnds(a)
    BY <1>0, <1>1, <2>1 DEF RestEnds, PoolTypeOK
  <2>2. CASE WindowEnds(a)
    <3>1. RateTypeOK'
      <4>1. [rate[a] EXCEPT !.window = "over"] \in Entries
        BY EntryUpdates DEF PoolTypeOK, RateTypeOK
      <4> QED
        BY <2>2, <4>1 DEF WindowEnds, WindowElapses, PoolTypeOK, RateTypeOK
    <3> QED
      BY <1>1, <2>2, <3>1 DEF WindowEnds, PoolTypeOK
  <2>3. CASE FireTimer(a)
    <3>1. RateTypeOK'
      <4>1. [rate[a] EXCEPT !.timer = FALSE] \in Entries
        BY EntryUpdates DEF PoolTypeOK, RateTypeOK
      <4> QED
        BY <2>3, <4>1 DEF FireTimer, TimerFires, PoolTypeOK, RateTypeOK
    <3> QED
      BY <1>1, <2>3, <3>1 DEF FireTimer, PoolTypeOK
  <2>4. CASE TimerCallback(a)
    <3>1. ClearedEntry \in Entries
      BY DEF ClearedEntry, NoEntry, Entries, Windows
    <3>2. RateTypeOK'
      BY <2>4, <3>1 DEF TimerCallback, ResetRate, PoolTypeOK, RateTypeOK
    <3>3. waiters' \in Seq(Request)
      BY <2>4, WaiterDrain DEF TimerCallback, PoolTypeOK
    <3> QED
      BY <1>1, <2>4, <3>2, <3>3 DEF TimerCallback, PoolTypeOK
  <2>5. CASE Look(a)
    <3>1. RateTypeOK'
      BY <2>5, RateTypes DEF Look, PoolTypeOK, RateTypeOK
    <3>2. DailyTypeOK'
      BY <2>5, DailyTypes DEF Look, PoolTypeOK
    <3> QED
      BY <2>5, <3>1, <3>2 DEF Look, PoolTypeOK
  <2> QED
    BY <1>4, <2>1, <2>2, <2>3, <2>4, <2>5 DEF ClockStep
<1>5. CASE Midnight
  BY <1>0, <1>5, DailyTypes DEF Midnight, PoolTypeOK, NextDay
<1>6. CASE PersistTimers
  BY <1>0, <1>6, DailyTypes DEF PersistTimers, PoolTypeOK, IntervalPasses, Flush
<1>7. CASE UNCHANGED vars
  BY <1>0, <1>1, <1>7 DEF vars, PoolTypeOK
<1> QED
  BY <1>2, <1>3, <1>4, <1>5, <1>6, <1>7 DEF Next

\* Type correctness of the pool, its limiters and its requests.
THEOREM TypeCorrect == Spec => []PoolTypeOK
<1>1. Init => PoolTypeOK
  BY PoolAssumption, TypeInit
<1>2. PoolTypeOK /\ [Next]_vars => PoolTypeOK'
  BY PoolAssumption, TypeStep
<1> QED
  BY <1>1, <1>2, PTL DEF Spec

-----------------------------------------------------------------------------
(* Slots: the inductive invariant                                            *)

\* The limits anyone has configured per account.
Caps == {s.maxPer : s \in Settings}

\* The account a stands in the sequence q.
InSequence(q, a) == \E i \in DOMAIN q : q[i] = a

\* A request is in its holding phase exactly when it holds an account.
HeldOK == \A r \in Request : held[r] # None <=> phase[r] = "holding"

\* Every limit in force, stored or on its way through a handler was configured.
CapsOK ==
  /\ limits.maxPer \in Caps /\ conf.maxPer \in Caps
  /\ \A d \in Admin : admin[d].step = "limits" => admin[d].limits.maxPer \in Caps

\* An account that nobody may remove is in the store, and in every queue that a
\* Reset has read and not yet installed.
KeptOK ==
  \A a \in Account \ Removable :
    /\ store[a] # "out"
    /\ \A d \in Admin : admin[d].step = "read" => InSequence(admin[d].queue, a)

SlotInv == HeldOK /\ CapsOK /\ KeptOK /\ NoLeakedSlot /\ NeverOversold

LEMMA HoldersFinite ==
  ASSUME PoolAssumption, NEW a
  PROVE  IsFiniteSet(Holders(a)) /\ Cardinality(Holders(a)) \in Nat
BY FS_Subset, FS_CardinalityType DEF Holders, PoolAssumption

LEMMA CapsAreBounds ==
  ASSUME NEW c \in Caps, NEW n, n <= c
  PROVE  \E s \in Settings : n <= s.maxPer
BY DEF Caps

LEMMA SlotInit == ASSUME PoolAssumption, Init PROVE SlotInv
<1>1. \A a : Holders(a) = {} \/ a = None
  BY DEF Init, Holders
<1>2. \A a \in Account : Cardinality(Holders(a)) = 0
  BY <1>1, FS_EmptySet DEF PoolAssumption
<1>3. PICK s \in Settings : conf.maxPer = s.maxPer /\ s.maxPer \in Nat \ {0}
  BY DEF Init, PoolAssumption
<1>4. limits.maxPer = conf.maxPer
  BY DEF Init, LimitsFor
<1>5. HeldOK /\ KeptOK
  BY DEF Init, HeldOK, KeptOK, Idle
<1>6. CapsOK
  BY <1>3, <1>4 DEF Init, CapsOK, Caps, Idle
<1>7. \A a \in Account : inUse[a] = 0
  BY DEF Init
<1>8. 0 <= 0 /\ 0 <= s.maxPer
  BY <1>3
<1>9. NoLeakedSlot /\ NeverOversold
  BY <1>2, <1>3, <1>7, <1>8 DEF NoLeakedSlot, NeverOversold
<1> QED
  BY <1>5, <1>6, <1>9 DEF SlotInv

\* A step that touches neither slots nor limits nor configuration.
LEMMA SlotFrame ==
  ASSUME SlotInv, HeldOK',
         UNCHANGED <<inUse, held, limits, conf, admin, store>>
  PROVE  SlotInv'
<1>1. CapsOK' /\ KeptOK'
  BY DEF SlotInv, CapsOK, KeptOK
<1>2. \A a \in Account : Holders(a)' = Holders(a)
  BY DEF Holders
<1>3. NoLeakedSlot' /\ NeverOversold'
  BY <1>2 DEF SlotInv, NoLeakedSlot, NeverOversold
<1> QED
  BY <1>1, <1>3 DEF SlotInv

\* A step of a handler: the slots stay, the rest is shown by the step.
LEMMA HandlerFrame ==
  ASSUME SlotInv, CapsOK', KeptOK', UNCHANGED <<inUse, held, phase>>
  PROVE  SlotInv'
<1>1. HeldOK'
  BY DEF SlotInv, HeldOK
<1>2. \A a \in Account : Holders(a)' = Holders(a)
  BY DEF Holders
<1>3. NoLeakedSlot' /\ NeverOversold'
  BY <1>2 DEF SlotInv, NoLeakedSlot, NeverOversold
<1> QED
  BY <1>1, <1>3 DEF SlotInv

\* acquireLocked: one more holder, one more slot counted, below the limit.
LEMMA GrantKeepsSlots ==
  ASSUME PoolAssumption, PoolTypeOK, SlotInv, NEW r \in Request, NEW a \in Account,
         phase[r] # "holding", Chosen(r, a), Grant(r, a),
         UNCHANGED <<storeVars, admin>>
  PROVE  SlotInv'
<1>1. held[r] = None /\ a # None
  BY DEF SlotInv, HeldOK, PoolAssumption, PoolTypeOK
<1>2. /\ held' = [held EXCEPT ![r] = a]
      /\ inUse' = [inUse EXCEPT ![a] = @ + 1]
      /\ phase' = [phase EXCEPT ![r] = "holding"]
      /\ UNCHANGED limits
  BY DEF Grant
<1>3. HeldOK'
  BY <1>1, <1>2 DEF SlotInv, HeldOK, PoolTypeOK
<1>4. CapsOK' /\ KeptOK'
  BY <1>2 DEF SlotInv, CapsOK, KeptOK, storeVars
<1>5. Holders(a)' = Holders(a) \union {r} /\ r \notin Holders(a)
  BY <1>1, <1>2 DEF Holders, PoolTypeOK
<1>6. Cardinality(Holders(a)') = Cardinality(Holders(a)) + 1
  BY <1>5, HoldersFinite, FS_AddElement
<1>7. \A b \in Account \ {a} : Holders(b)' = Holders(b) /\ inUse'[b] = inUse[b]
  BY <1>1, <1>2 DEF Holders, PoolTypeOK, PoolAssumption
<1>8. inUse'[a] = inUse[a] + 1 /\ inUse[a] \in Nat
  BY <1>2 DEF PoolTypeOK
<1>9. NoLeakedSlot'
  <2>1. inUse'[a] <= Cardinality(Holders(a)')
    BY <1>6, <1>8, HoldersFinite DEF SlotInv, NoLeakedSlot
  <2> QED
    BY <1>7, <2>1 DEF SlotInv, NoLeakedSlot
<1>10. NeverOversold'
  <2>1. inUse[a] < limits.maxPer /\ limits.maxPer \in Nat
    BY DEF Chosen, Grantable, CanAcquireID, PoolTypeOK, Limits
  <2>2. ASSUME a \notin Removable
        PROVE  /\ inUse'[a] = Cardinality(Holders(a)')
               /\ \E s \in Settings : Cardinality(Holders(a)') <= s.maxPer
    <3>1. inUse[a] = Cardinality(Holders(a))
      BY <2>2 DEF SlotInv, NeverOversold
    <3>2. Cardinality(Holders(a)') <= limits.maxPer
      BY <1>6, <1>8, <2>1, <3>1
    <3>3. limits.maxPer \in Caps
      BY DEF SlotInv, CapsOK
    <3> QED
      BY <1>6, <1>8, <3>1, <3>2, <3>3, CapsAreBounds
  <2> QED
    BY <1>7, <2>2 DEF SlotInv, NeverOversold
<1> QED
  BY <1>3, <1>4, <1>9, <1>10 DEF SlotInv

\* Release: one holder less, and one slot less unless it was pruned.
LEMMA ReleaseKeepsSlots ==
  ASSUME PoolAssumption, PoolTypeOK, SlotInv, NEW r \in Request, Release(r)
  PROVE  SlotInv'
<1>1. PICK a \in Account : a = held[r] /\ a # None
  BY DEF SlotInv, HeldOK, Release, PoolTypeOK
<1>2. /\ held' = [held EXCEPT ![r] = None]
      /\ phase' = [phase EXCEPT ![r] = "done"]
      /\ inUse' = IF inUse[a] = 0 THEN inUse ELSE [inUse EXCEPT ![a] = @ - 1]
      /\ UNCHANGED <<limits, conf, admin, store>>
  BY <1>1 DEF Release, ReleaseSlot, storeVars
<1>3. HeldOK'
  BY <1>2 DEF SlotInv, HeldOK, PoolTypeOK
<1>4. CapsOK' /\ KeptOK'
  BY <1>2 DEF SlotInv, CapsOK, KeptOK
<1>5. Holders(a)' = Holders(a) \ {r} /\ r \in Holders(a)
  BY <1>1, <1>2 DEF Holders, PoolTypeOK
<1>6. Cardinality(Holders(a)') = Cardinality(Holders(a)) - 1
  BY <1>5, HoldersFinite, FS_RemoveElement
<1>7. \A b \in Account \ {a} : Holders(b)' = Holders(b) /\ inUse'[b] = inUse[b]
  BY <1>1, <1>2 DEF Holders, PoolTypeOK, PoolAssumption
<1>8. inUse[a] \in Nat /\ inUse'[a] = IF inUse[a] = 0 THEN 0 ELSE inUse[a] - 1
  BY <1>1, <1>2 DEF PoolTypeOK
<1>9. Cardinality(Holders(a)) \in Nat /\ Cardinality(Holders(a)') \in Nat
  <2>1. Cardinality(Holders(a)) \in Nat /\ Cardinality(Holders(a)) # 0
    BY <1>5, HoldersFinite, FS_EmptySet
  <2> QED
    BY <1>6, <2>1
<1>10. NoLeakedSlot'
  <2>1. inUse[a] <= Cardinality(Holders(a))
    BY <1>1 DEF SlotInv, NoLeakedSlot
  <2>2. inUse'[a] <= Cardinality(Holders(a)')
    BY <1>6, <1>8, <1>9, <2>1
  <2> QED
    BY <1>7, <2>2 DEF SlotInv, NoLeakedSlot
<1>11. NeverOversold'
  <2>1. ASSUME a \notin Removable
        PROVE  /\ inUse'[a] = Cardinality(Holders(a)')
               /\ \E s \in Settings : Cardinality(Holders(a)') <= s.maxPer
    <3>1. PICK s \in Settings : /\ inUse[a] = Cardinality(Holders(a))
                                /\ Cardinality(Holders(a)) <= s.maxPer
      BY <1>1, <2>1 DEF SlotInv, NeverOversold
    <3>2. s.maxPer \in Nat
      BY DEF PoolAssumption
    <3>3. Cardinality(Holders(a)') <= s.maxPer
      BY <1>6, <1>9, <3>1, <3>2
    <3> QED
      BY <1>6, <1>8, <1>9, <3>1, <3>3
  <2> QED
    BY <1>7, <2>1 DEF SlotInv, NeverOversold
<1> QED
  BY <1>3, <1>4, <1>10, <1>11 DEF SlotInv

\* Reset keeps the counts of the accounts in its queue, hence of those that are
\* never removed; the others it can only lower.
LEMMA ResetKeepsSlots ==
  ASSUME PoolAssumption, PoolTypeOK, SlotInv, NEW d \in Admin, ResetInstalls(d)
  PROVE  SlotInv'
<1> DEFINE Q == {admin[d].queue[i] : i \in DOMAIN admin[d].queue}
<1>1. /\ inUse' = [a \in Account |-> IF a \in Q THEN inUse[a] ELSE 0]
      /\ admin' = [admin EXCEPT ![d] = Idle]
      /\ limits'.maxPer = limits.maxPer
      /\ UNCHANGED <<held, phase, conf, store>>
  <2>1. admin[d].limits \in Limits
    BY HandlerTypes DEF ResetInstalls
  <2>2. limits'.maxPer = limits.maxPer
    BY <2>1 DEF ResetInstalls, Limits
  <2> QED
    BY <2>2 DEF ResetInstalls, PruneInUse, requestVars, storeVars
<1>2. HeldOK'
  BY <1>1 DEF SlotInv, HeldOK
<1>3. CapsOK' /\ KeptOK'
  BY <1>1 DEF SlotInv, CapsOK, KeptOK, Idle, PoolTypeOK
<1>4. \A a \in Account : Holders(a)' = Holders(a)
  BY <1>1 DEF Holders
<1>5. \A a \in Account \ Removable : a \in Q
  BY DEF SlotInv, KeptOK, InSequence, ResetInstalls
<1> HIDE DEF Q
<1>6. NoLeakedSlot'
  BY <1>1, <1>4, HoldersFinite DEF SlotInv, NoLeakedSlot, PoolTypeOK
<1>7. NeverOversold'
  BY <1>1, <1>4, <1>5 DEF SlotInv, NeverOversold
<1> QED
  BY <1>2, <1>3, <1>6, <1>7 DEF SlotInv

LEMMA SlotStep ==
  ASSUME PoolAssumption, PoolTypeOK, SlotInv, [Next]_vars
  PROVE  SlotInv'
<1> USE DEF poolVars, requestVars, storeVars
<1>1. ASSUME NEW r \in Request, RequestStep(r) PROVE SlotInv'
  <2>1. CASE Call(r) \/ CheckContext(r) \/ Enqueue(r) \/ Refuse(r) \/ Wake(r)
             \/ GiveUp(r) \/ Cancel(r)
    <3>1. HeldOK'
      BY <2>1 DEF Call, CheckContext, Enqueue, Refuse, Wake, GiveUp, Cancel,
                  SlotInv, HeldOK, PoolTypeOK
    <3>2. UNCHANGED <<inUse, held, limits, conf, admin, store>>
      BY <2>1 DEF Call, CheckContext, Enqueue, Refuse, Wake, GiveUp, Cancel
    <3> QED
      BY <3>1, <3>2, SlotFrame
  <2>2. CASE TakeSlot(r)
    BY <2>2, GrantKeepsSlots DEF TakeSlot
  <2>3. CASE TryAcquire(r)
    <3>1. CASE \E a \in Account : Chosen(r, a) /\ Grant(r, a)
      BY <2>3, <3>1, GrantKeepsSlots DEF TryAcquire
    <3>2. CASE ~\E a \in Account : Chosen(r, a) /\ Grant(r, a)
      <4>1. HeldOK' /\ UNCHANGED <<inUse, held, limits, conf, admin, store>>
        BY <2>3, <3>2 DEF TryAcquire, SlotInv, HeldOK, PoolTypeOK
      <4> QED
        BY <4>1, SlotFrame
    <3> QED
      BY <3>1, <3>2
  <2>4. CASE Release(r)
    BY <2>4, ReleaseKeepsSlots
  <2> QED
    BY <1>1, <2>1, <2>2, <2>3, <2>4 DEF RequestStep
<1>2. ASSUME NEW d \in Admin, AdminStep(d) PROVE SlotInv'
  <2>1. CASE \E a \in Account, s \in StoreStates : StoreAccount(d, a, s)
    <3>1. PICK a \in Account, s \in StoreStates : StoreAccount(d, a, s)
      BY <2>1
    <3>2. KeptOK'
      BY <3>1 DEF StoreAccount, SlotInv, KeptOK, PoolTypeOK
    <3>3. CapsOK'
      BY <3>1 DEF StoreAccount, SlotInv, CapsOK, PoolTypeOK
    <3> QED
      BY <3>1, <3>2, <3>3, HandlerFrame DEF StoreAccount
  <2>2. CASE ResetReads(d)
    <3>1. /\ UNCHANGED <<inUse, held, phase, conf, store>>
          /\ limits'.maxPer = conf.maxPer
      BY <2>2 DEF ResetReads, PoolTypeOK, Limits
    <3>2. PICK tokens \in TokenSets : \E q \in QueuesOf(InQueueable, tokens) :
            admin' = [admin EXCEPT ![d] =
              [step |-> "read", queue |-> q, limits |-> LimitsFor(conf, Len(q))]]
      BY <2>2 DEF ResetReads
    <3>3. PICK q \in QueuesOf(InQueueable, tokens) :
            admin' = [admin EXCEPT ![d] =
              [step |-> "read", queue |-> q, limits |-> LimitsFor(conf, Len(q))]]
      BY <3>2
    <3>4. \A a \in InQueueable : InSequence(q, a)
      <4>1. InQueueable \in SUBSET Account
        BY DEF InQueueable
      <4>2. \A a \in InQueueable : \E i \in DOMAIN q : q[i] = a
        BY <4>1, QueuesOfAccounts
      <4> QED
        BY <4>2 DEF InSequence
    <3>5. KeptOK'
      BY <3>1, <3>3, <3>4 DEF SlotInv, KeptOK, InQueueable, PoolTypeOK
    <3>6. CapsOK'
      BY <3>1, <3>3 DEF SlotInv, CapsOK, PoolTypeOK
    <3> QED
      BY <3>1, <3>5, <3>6, HandlerFrame
  <2>3. CASE ResetInstalls(d)
    BY <2>3, ResetKeepsSlots
  <2>4. CASE \E s \in Settings : StoreSettings(d, s)
    <3>1. PICK s \in Settings : StoreSettings(d, s)
      BY <2>4
    <3>2. CapsOK'
      BY <3>1 DEF StoreSettings, SlotInv, CapsOK, Caps, PoolTypeOK
    <3>3. KeptOK'
      BY <3>1 DEF StoreSettings, SlotInv, KeptOK, PoolTypeOK
    <3> QED
      BY <3>1, <3>2, <3>3, HandlerFrame DEF StoreSettings
  <2>5. CASE SettingsRead(d)
    <3>1. LimitsFor(conf, Len(queue)).maxPer = conf.maxPer
      BY LimitsForType DEF PoolTypeOK
    <3>2. CapsOK'
      BY <2>5, <3>1 DEF SettingsRead, SlotInv, CapsOK, PoolTypeOK
    <3>3. KeptOK'
      BY <2>5 DEF SettingsRead, SlotInv, KeptOK, PoolTypeOK
    <3> QED
      BY <2>5, <3>2, <3>3, HandlerFrame DEF SettingsRead
  <2>6. CASE ApplyRuntimeLimits(d)
    <3>1. admin[d].step = "limits" /\ admin[d].limits \in Limits
      BY <2>6, HandlerTypes DEF ApplyRuntimeLimits
    <3>2. limits'.maxPer = admin[d].limits.maxPer
      BY <2>6, <3>1 DEF ApplyRuntimeLimits, Limits
    <3>3. CapsOK'
      BY <2>6, <3>1, <3>2 DEF ApplyRuntimeLimits, SlotInv, CapsOK, PoolTypeOK
    <3>4. KeptOK'
      BY <2>6 DEF ApplyRuntimeLimits, SlotInv, KeptOK, PoolTypeOK
    <3> QED
      BY <2>6, <3>3, <3>4, HandlerFrame DEF ApplyRuntimeLimits
  <2>7. CASE SyncRateLimits(d) \/ SyncDailyLimits(d)
    <3>1. /\ UNCHANGED <<inUse, held, phase, limits, conf, store>>
          /\ \/ admin' = [admin EXCEPT ![d] = [step |-> "idle"]]
             \/ admin' = [admin EXCEPT ![d] = [step |-> "syncDaily"]]
      BY <2>7 DEF SyncRateLimits, SyncDailyLimits, Idle
    <3>2. CapsOK'
      <4>1. CASE admin' = [admin EXCEPT ![d] = [step |-> "idle"]]
        BY <3>1, <4>1 DEF SlotInv, CapsOK, PoolTypeOK
      <4>2. CASE admin' = [admin EXCEPT ![d] = [step |-> "syncDaily"]]
        BY <3>1, <4>2 DEF SlotInv, CapsOK, PoolTypeOK
      <4> QED
        BY <3>1, <4>1, <4>2
    <3>3. KeptOK'
      <4>1. CASE admin' = [admin EXCEPT ![d] = [step |-> "idle"]]
        BY <3>1, <4>1 DEF SlotInv, KeptOK, PoolTypeOK
      <4>2. CASE admin' = [admin EXCEPT ![d] = [step |-> "syncDaily"]]
        BY <3>1, <4>2 DEF SlotInv, KeptOK, PoolTypeOK
      <4> QED
        BY <3>1, <4>1, <4>2
    <3> QED
      BY <3>1, <3>2, <3>3, HandlerFrame
  <2> QED
    BY <1>2, <2>1, <2>2, <2>3, <2>4, <2>5, <2>6, <2>7 DEF AdminStep
<1>3. ASSUME NEW a \in Account, ClockStep(a) PROVE SlotInv'
  <2>1. CASE RestEnds(a)
    <3>1. CapsOK' /\ KeptOK'
      BY <2>1 DEF RestEnds, SlotInv, CapsOK, KeptOK, PoolTypeOK
    <3> QED
      BY <2>1, <3>1, HandlerFrame DEF RestEnds
  <2>2. CASE WindowEnds(a) \/ FireTimer(a) \/ TimerCallback(a) \/ Look(a)
    <3>1. UNCHANGED <<inUse, held, phase, limits, conf, admin, store>>
      BY <2>2 DEF WindowEnds, FireTimer, TimerCallback, Look
    <3>2. HeldOK'
      BY <3>1 DEF SlotInv, HeldOK
    <3> QED
      BY <3>1, <3>2, SlotFrame
  <2> QED
    BY <1>3, <2>1, <2>2 DEF ClockStep
<1>4. CASE Midnight \/ PersistTimers \/ UNCHANGED vars
  <2>1. UNCHANGED <<inUse, held, phase, limits, conf, admin, store>>
    BY <1>4 DEF Midnight, PersistTimers, vars
  <2>2. HeldOK'
    BY <2>1 DEF SlotInv, HeldOK
  <2> QED
    BY <2>1, <2>2, SlotFrame
<1> QED
  BY <1>1, <1>2, <1>3, <1>4 DEF Next

LEMMA SlotsInvariant == Spec => [](PoolTypeOK /\ SlotInv)
<1>1. Init => PoolTypeOK /\ SlotInv
  BY PoolAssumption, TypeInit, SlotInit
<1>2. PoolTypeOK /\ SlotInv /\ [Next]_vars => (PoolTypeOK /\ SlotInv)'
  BY PoolAssumption, TypeStep, SlotStep
<1> QED
  BY <1>1, <1>2, PTL DEF Spec

\* No execution of the pool, however it is reconfigured, ever counts a slot that
\* nobody holds: Pool.inUse never leaks capacity.
THEOREM SlotsNeverLeak == Spec => []NoLeakedSlot
<1>1. PoolTypeOK /\ SlotInv => NoLeakedSlot
  BY DEF SlotInv
<1> QED
  BY <1>1, SlotsInvariant, PTL

\* The promise of the comment at pool_core.go:92: an account that is not removed is
\* counted exactly through every Reset, and never serves more requests at once than
\* a configured limit allows.
THEOREM KeptAccountsNeverOversold == Spec => []NeverOversold
<1>1. PoolTypeOK /\ SlotInv => NeverOversold
  BY DEF SlotInv
<1> QED
  BY <1>1, SlotsInvariant, PTL

-----------------------------------------------------------------------------
(* The pool implements SlotPool                                              *)

LEMMA GrantTakes ==
  ASSUME PoolTypeOK, SlotInv, NEW r \in Request, NEW a \in Account,
         phase[r] # "holding", Chosen(r, a), Grant(r, a)
  PROVE  Slots!Take(r, a)
<1>1. held[r] = None
  BY DEF SlotInv, HeldOK
<1>2. inUse[a] < limits.maxPer /\ limits.maxPer \in Caps
  BY DEF Chosen, Grantable, CanAcquireID, SlotInv, CapsOK
<1> QED
  BY <1>1, <1>2 DEF Grant, Slots!Take, Caps

LEMMA ReleaseGives ==
  ASSUME PoolTypeOK, SlotInv, NEW r \in Request, Release(r)
  PROVE  \E a \in Account : Slots!Give(r, a)
<1>1. PICK a \in Account : a = held[r]
  BY DEF SlotInv, HeldOK, Release, PoolTypeOK
<1>2. /\ held' = [held EXCEPT ![r] = None]
      /\ inUse' = IF inUse[a] = 0 THEN inUse ELSE [inUse EXCEPT ![a] = @ - 1]
  BY <1>1 DEF Release, ReleaseSlot
<1>3. inUse' = [inUse EXCEPT ![a] = IF @ = 0 THEN 0 ELSE @ - 1]
  BY <1>2 DEF PoolTypeOK
<1> QED
  BY <1>1, <1>2, <1>3 DEF Slots!Give

\* A Reset forgets the counts of the accounts outside its queue, and those can all
\* be removed.
LEMMA ResetForgets ==
  ASSUME PoolTypeOK, SlotInv, NEW d \in Admin, ResetInstalls(d)
  PROVE  \E A \in SUBSET Removable : Slots!Forget(A)
<1> DEFINE Q == {admin[d].queue[i] : i \in DOMAIN admin[d].queue}
           A == Removable \ Q
<1>1. /\ inUse' = [a \in Account |-> IF a \in Q THEN inUse[a] ELSE 0]
      /\ UNCHANGED held
  BY DEF ResetInstalls, PruneInUse, requestVars
<1>2. \A a \in Account \ Removable : a \in Q
  BY DEF SlotInv, KeptOK, InSequence, ResetInstalls
<1> HIDE DEF Q
<1>3. inUse' = [a \in Account |-> IF a \in A THEN 0 ELSE inUse[a]]
  BY <1>1, <1>2
<1>4. A \in SUBSET Removable
  OBVIOUS
<1> QED
  BY <1>1, <1>3, <1>4 DEF Slots!Forget

\* Every step of the pool is a step of SlotPool, or leaves the slots alone.
LEMMA PoolStepsImplement ==
  ASSUME PoolAssumption, PoolTypeOK, SlotInv, [Next]_vars
  PROVE  [Slots!Next]_(Slots!slotVars)
<1> USE DEF poolVars, requestVars, storeVars, Slots!slotVars, Slots!Next
<1>1. ASSUME NEW r \in Request, RequestStep(r) PROVE [Slots!Next]_(Slots!slotVars)
  <2>1. CASE Call(r) \/ CheckContext(r) \/ Enqueue(r) \/ Refuse(r) \/ Wake(r)
             \/ GiveUp(r) \/ Cancel(r)
    BY <2>1 DEF Call, CheckContext, Enqueue, Refuse, Wake, GiveUp, Cancel
  <2>2. CASE TakeSlot(r)
    BY <2>2, GrantTakes DEF TakeSlot
  <2>3. CASE TryAcquire(r)
    <3>1. CASE \E a \in Account : Chosen(r, a) /\ Grant(r, a)
      BY <2>3, <3>1, GrantTakes DEF TryAcquire
    <3>2. CASE ~\E a \in Account : Chosen(r, a) /\ Grant(r, a)
      BY <2>3, <3>2 DEF TryAcquire
    <3> QED
      BY <3>1, <3>2
  <2>4. CASE Release(r)
    BY <2>4, ReleaseGives
  <2> QED
    BY <1>1, <2>1, <2>2, <2>3, <2>4 DEF RequestStep
<1>2. ASSUME NEW d \in Admin, AdminStep(d) PROVE [Slots!Next]_(Slots!slotVars)
  <2>1. CASE ResetInstalls(d)
    BY <2>1, ResetForgets
  <2>2. CASE ~ResetInstalls(d)
    BY <1>2, <2>2 DEF AdminStep, StoreAccount, ResetReads, StoreSettings, SettingsRead,
                      ApplyRuntimeLimits, SyncRateLimits, SyncDailyLimits
  <2> QED
    BY <2>1, <2>2
<1>3. CASE \E a \in Account : ClockStep(a)
  BY <1>3 DEF ClockStep, RestEnds, WindowEnds, FireTimer, TimerCallback, Look
<1>4. CASE Midnight \/ PersistTimers \/ UNCHANGED vars
  BY <1>4 DEF Midnight, PersistTimers, vars
<1> QED
  BY <1>1, <1>2, <1>3, <1>4 DEF Next

\* For every set of accounts, requests, handlers and configurations, the pool with
\* its queue, waiters, timers, quotas and Resets does to the slots only what
\* SlotPool allows: grants below a configured limit, one return for every grant,
\* and counts forgotten only of accounts that may be removed (pool_core.go:92).
THEOREM PoolImplementsSlotPool == Spec => SlotsAsPromised
<1>1. Init => Slots!Init
  BY DEF Init, Slots!Init
<1>2. PoolTypeOK /\ SlotInv /\ [Next]_vars => [Slots!Next]_(Slots!slotVars)
  BY PoolAssumption, PoolStepsImplement
<1> QED
  BY <1>1, <1>2, SlotsInvariant, PTL DEF Spec, SlotsAsPromised, Slots!Spec

-----------------------------------------------------------------------------
(* The limiter: a running window has its timer                               *)

\* A window that has not elapsed has its timer armed, and only an entry with a
\* window is marked unavailable.
EntryOK(e) ==
  /\ e.window = "open" => e.timer
  /\ e.unavailable => e.window \in {"open", "over"}

RatesOK == \A a \in Account : EntryOK(rate[a])

\* Every operator of the limiter keeps that (pool_rate_limit.go).
LEMMA RateOperators ==
  ASSUME RateTypeOK, RatesOK, NEW S
  PROVE  /\ CheckRates(S) => RatesOK'
         /\ \A g \in Account : RecordRate(S, g) => RatesOK'
         /\ ClearRateLimits => RatesOK'
         /\ SyncRates => RatesOK'
<1>1. EntryOK(NoEntry) /\ EntryOK(ClearedEntry)
  BY DEF EntryOK, NoEntry, ClearedEntry
<1>2. \A a \in Account : EntryOK(rate[a])
  BY DEF RatesOK
<1>3. \A a \in Account : EntryOK(RateChecked(a))
  BY <1>1, <1>2 DEF RateChecked
<1>4. ASSUME NEW e, EntryOK(e)
      PROVE  EntryOK(Recorded(e))
  BY <1>4 DEF EntryOK, Recorded
<1>5. ASSUME NEW e \in Entries, EntryOK(e)
      PROVE  EntryOK(SyncedEntry(e, rateMax))
  <2>1. [e EXCEPT !.unavailable = @ /\ e.count >= rateMax].window = e.window
    BY DEF Entries
  <2>2. [e EXCEPT !.unavailable = @ /\ e.count >= rateMax].timer = e.timer
    BY DEF Entries
  <2>3. [e EXCEPT !.unavailable = @ /\ e.count >= rateMax].unavailable => e.unavailable
    BY DEF Entries
  <2> QED
    BY <1>1, <1>5, <2>1, <2>2, <2>3 DEF EntryOK, SyncedEntry
<1>6. \A a \in Account : rate[a] \in Entries
  BY DEF RateTypeOK
<1>7. CheckRates(S) => RatesOK'
  BY <1>2, <1>3 DEF CheckRates, RatesOK
<1>8. ASSUME NEW g \in Account, RecordRate(S, g) PROVE RatesOK'
  BY <1>2, <1>3, <1>4, <1>8 DEF RecordRate, RatesOK
<1>9. ClearRateLimits => RatesOK'
  BY <1>1 DEF ClearRateLimits, RatesOK
<1>10. SyncRates => RatesOK'
  BY <1>2, <1>5, <1>6 DEF SyncRates, RatesOK
<1> QED
  BY <1>7, <1>8, <1>9, <1>10

\* ... and so do the passing of time and the timers.
LEMMA RateClock ==
  ASSUME RateTypeOK, RatesOK, NEW a \in Account,
         WindowElapses(a) \/ TimerFires(a) \/ ResetRate(a)
  PROVE  RatesOK'
<1>1. ASSUME NEW b \in Account \ {a} PROVE rate'[b] = rate[b]
  BY DEF WindowElapses, TimerFires, ResetRate, RateTypeOK
<1>2. rate[a] \in Entries /\ EntryOK(rate[a])
  BY DEF RateTypeOK, RatesOK
<1>3. EntryOK(rate'[a])
  <2>1. CASE WindowElapses(a)
    <3>1. rate'[a] = [rate[a] EXCEPT !.window = "over"]
      BY <2>1 DEF WindowElapses, RateTypeOK
    <3>2. rate'[a].window = "over"
      BY <1>2, <3>1 DEF Entries
    <3> QED
      BY <3>2 DEF EntryOK
  <2>2. CASE TimerFires(a)
    <3>1. rate'[a] = [rate[a] EXCEPT !.timer = FALSE]
      BY <2>2 DEF TimerFires, RateTypeOK
    <3>2. rate'[a].window = "over"
      BY <1>2, <2>2, <3>1 DEF Entries, TimerFires
    <3> QED
      BY <3>2 DEF EntryOK
  <2>3. CASE ResetRate(a)
    <3>1. rate'[a] \in {rate[a], ClearedEntry}
      BY <2>3 DEF ResetRate, RateTypeOK
    <3>2. EntryOK(ClearedEntry)
      BY DEF EntryOK, ClearedEntry, NoEntry
    <3> QED
      BY <1>2, <3>1, <3>2
  <2> QED
    BY <2>1, <2>2, <2>3
<1> QED
  BY <1>1, <1>2, <1>3 DEF RatesOK

\* What a step does to the limiter: nothing, one of its operators, or its clock.
LEMMA RateSteps ==
  ASSUME [Next]_vars
  PROVE  \/ UNCHANGED rate
         \/ \E S : CheckRates(S)
         \/ \E S : \E g \in Account : RecordRate(S, g)
         \/ ClearRateLimits \/ SyncRates
         \/ \E a \in Account : WindowElapses(a) \/ TimerFires(a) \/ ResetRate(a)
<1>1. ASSUME NEW r \in Request, RequestStep(r)
      PROVE  \/ UNCHANGED rate
             \/ CheckRates(Scanned(r))
             \/ \E a \in Account : RecordRate(Scanned(r), a)
  <2>1. CASE Call(r) \/ CheckContext(r) \/ Wake(r) \/ GiveUp(r) \/ Release(r) \/ Cancel(r)
    BY <2>1 DEF Call, CheckContext, Wake, GiveUp, Release, Cancel, rateVars
  <2>2. CASE TakeSlot(r) \/ Enqueue(r) \/ Refuse(r) \/ TryAcquire(r)
    BY <2>2 DEF TakeSlot, Enqueue, Refuse, TryAcquire, Grant
  <2> QED
    BY <1>1, <2>1, <2>2 DEF RequestStep
<1>2. ASSUME NEW d \in Admin, AdminStep(d)
      PROVE  UNCHANGED rate \/ ClearRateLimits \/ SyncRates
  BY <1>2 DEF AdminStep, StoreAccount, ResetReads, ResetInstalls, StoreSettings,
              SettingsRead, ApplyRuntimeLimits, SyncRateLimits, SyncDailyLimits, rateVars
<1>3. ASSUME NEW a \in Account, ClockStep(a)
      PROVE  \/ UNCHANGED rate \/ CheckRates({a})
             \/ WindowElapses(a) \/ TimerFires(a) \/ ResetRate(a)
  BY <1>3 DEF ClockStep, RestEnds, WindowEnds, FireTimer, TimerCallback, Look, rateVars
<1>4. CASE Midnight \/ PersistTimers \/ UNCHANGED vars
  BY <1>4 DEF Midnight, PersistTimers, vars, rateVars
<1> QED
  BY <1>1, <1>2, <1>3, <1>4 DEF Next

LEMMA RatesStep == ASSUME PoolTypeOK, RatesOK, [Next]_vars PROVE RatesOK'
<1>1. RateTypeOK
  BY DEF PoolTypeOK
<1>2. UNCHANGED rate => RatesOK'
  BY DEF RatesOK
<1> QED
  BY <1>1, <1>2, RateOperators, RateClock, RateSteps

\* An account that the limiter has marked unavailable always has a window that ends
\* and, until it does, a timer that will bring it back: no pattern of requests, limit
\* changes, Resets and late callbacks leaves it blocked for good
\* (resetAccountRateLimit, pool_rate_limit.go).
THEOREM LimitedAccountsRecover == Spec => []LimitedAccountRecovers
<1>1. Init => RatesOK
  <2>1. EntryOK(NoEntry)
    BY DEF EntryOK, NoEntry
  <2> QED
    <3>1. Init => \A a \in Account : rate[a] = NoEntry
      BY DEF Init, RateInit
    <3> QED
      BY <2>1, <3>1 DEF RatesOK
<1>2. PoolTypeOK /\ RatesOK /\ [Next]_vars => RatesOK'
  BY RatesStep
<1>3. RatesOK => LimitedAccountRecovers
  BY DEF RatesOK, EntryOK, LimitedAccountRecovers
<1> QED
  BY <1>1, <1>2, <1>3, TypeCorrect, PTL DEF Spec
-----------------------------------------------------------------------------
(* Induction                                                                 *)

\* A set of numbers with 0 that is closed under successor holds them all: induction
\* with a set for the property, from the least element of what would be left out.
LEMMA InductionOnNat ==
  ASSUME NEW S, 0 \in S, \A n \in Nat : n \in S => n + 1 \in S
  PROVE  Nat \subseteq S
<1> SUFFICES ASSUME Nat \ S # {} PROVE FALSE
  OBVIOUS
<1>1. PICK m \in Nat \ S : \A n \in Nat \ S : <<n, m>> \notin OpToRel(<, Nat)
  BY WFMin, NatLessThanWellFounded
<1>2. m # 0 /\ m - 1 \in Nat /\ (m - 1) + 1 = m /\ m - 1 < m
  <2>1. m \in Nat /\ m # 0
    BY <1>1
  <2> QED
    BY <2>1
<1>3. <<m - 1, m>> \in OpToRel(<, Nat)
  BY <1>1, <1>2 DEF OpToRel
<1>4. m - 1 \in S
  BY <1>1, <1>2, <1>3
<1> QED
  BY <1>1, <1>2, <1>4

\* What holds of the empty set, and of a set with one element more, holds of every subset.
LEMMA InductionOnSubsets ==
  ASSUME NEW D, IsFiniteSet(D), NEW P, {} \in P,
         \A s \in SUBSET D : \A x \in D \ s : s \in P => s \union {x} \in P
  PROVE  SUBSET D \subseteq P
<1> DEFINE Sized(n) == {s \in SUBSET D : Cardinality(s) = n}
           S == {n \in Nat : Sized(n) \subseteq P}
<1>1. \A s \in SUBSET D : IsFiniteSet(s) /\ Cardinality(s) \in Nat
  BY FS_Subset, FS_CardinalityType
<1>2. 0 \in S
  <2>1. \A s \in Sized(0) : s = {}
    BY <1>1, FS_EmptySet
  <2> QED
    BY <2>1
<1>3. ASSUME NEW n \in Nat, n \in S PROVE n + 1 \in S
  <2>1. ASSUME NEW s \in Sized(n + 1) PROVE s \in P
    <3>0. IsFiniteSet(s) /\ s \in SUBSET D /\ Cardinality(s) = n + 1
      BY <1>1
    <3>1. PICK x : x \in s
      <4>1. s # {}
        BY <3>0, FS_EmptySet
      <4> QED
        BY <4>1
    <3>2. Cardinality(s \ {x}) = n /\ s \ {x} \in SUBSET D
      <4>1. Cardinality(s \ {x}) = Cardinality(s) - 1
        BY <3>0, <3>1, FS_RemoveElement
      <4>2. s \ {x} \in SUBSET D
        BY <3>0
      <4> QED
        BY <1>3, <3>0, <4>1, <4>2
    <3>3. s \ {x} \in P
      BY <1>3, <3>2
    <3>4. s = (s \ {x}) \union {x} /\ x \in D \ (s \ {x})
      BY <3>0, <3>1
    <3> QED
      BY <3>2, <3>3, <3>4
  <2> QED
    BY <2>1
<1>4. Nat \subseteq S
  <2> HIDE DEF S
  <2> QED
    BY <1>2, <1>3, InductionOnNat
<1> QED
  BY <1>1, <1>4
-----------------------------------------------------------------------------
(* currentInUseLocked: the counts of all accounts, summed up                 *)

PickOf(s) == CHOOSE x \in s : TRUE

\* The sums of f that CurrentInUse computes on its way, over each set of accounts.
Sums(f) ==
  CHOOSE g : g = [s \in SUBSET Account |->
                    IF s = {} THEN 0 ELSE f[PickOf(s)] + g[s \ {PickOf(s)}]]


LEMMA CurrentInUseIsSum == CurrentInUse = Sums(inUse)[Account]
BY Zenon DEF CurrentInUse, MapThenSumSet, MapThenFoldSet, Sums, PickOf

\* The recursion has a solution: it exists over the sets of up to n accounts.
LEMMA SumsExist ==
  ASSUME IsFiniteSet(Account), NEW f \in [Account -> Nat]
  PROVE  \E g \in [SUBSET Account -> Nat] :
           g = [s \in SUBSET Account |->
                  IF s = {} THEN 0 ELSE f[PickOf(s)] + g[s \ {PickOf(s)}]]
<1> DEFINE Upto(n) == {s \in SUBSET Account : Cardinality(s) <= n}
           Solves(g, n) ==
             /\ g \in [Upto(n) -> Nat]
             /\ \A s \in Upto(n) :
                  g[s] = IF s = {} THEN 0 ELSE f[PickOf(s)] + g[s \ {PickOf(s)}]
           S == {n \in Nat : \E g : Solves(g, n)}
<1>1. \A s \in SUBSET Account : IsFiniteSet(s) /\ Cardinality(s) \in Nat
  BY FS_Subset, FS_CardinalityType
<1>2. \A s \in SUBSET Account : s # {} => PickOf(s) \in s /\ f[PickOf(s)] \in Nat
  BY DEF PickOf
<1>3. ASSUME NEW n \in Nat, NEW s \in Upto(n + 1), s # {}
      PROVE  s \ {PickOf(s)} \in Upto(n)
  <2>1. Cardinality(s \ {PickOf(s)}) = Cardinality(s) - 1
    BY <1>1, <1>2, <1>3, FS_RemoveElement
  <2>2. Cardinality(s) \in Nat /\ Cardinality(s) <= n + 1
    BY <1>1
  <2>3. Cardinality(s) - 1 <= n
    BY <2>2
  <2> QED
    BY <2>1, <2>3
<1>4. 0 \in S
  <2> DEFINE g == [s \in Upto(0) |-> 0]
  <2>1. \A s \in Upto(0) : s = {}
    BY <1>1, FS_EmptySet
  <2>2. Solves(g, 0)
    BY <2>1
  <2> QED
    BY <2>2
<1>5. ASSUME NEW n \in Nat, n \in S PROVE n + 1 \in S
  <2>1. PICK g : Solves(g, n)
    BY <1>5
  <2> DEFINE h == [s \in Upto(n + 1) |->
                     IF s = {} THEN 0 ELSE f[PickOf(s)] + g[s \ {PickOf(s)}]]
  <2>2. h \in [Upto(n + 1) -> Nat]
    <3>1. ASSUME NEW s \in Upto(n + 1), s # {}
          PROVE  f[PickOf(s)] + g[s \ {PickOf(s)}] \in Nat
      <4>1. g[s \ {PickOf(s)}] \in Nat
        BY <1>3, <2>1, <3>1
      <4>2. f[PickOf(s)] \in Nat
        BY <1>2, <3>1
      <4> QED
        BY <4>1, <4>2
    <3> QED
      BY <3>1
  <2>3. \A s \in Upto(n) : s \in Upto(n + 1) /\ h[s] = g[s]
    <3>1. \A s \in Upto(n) : s \in Upto(n + 1)
      BY <1>1
    <3> QED
      BY <2>1, <3>1
  <2>4. \A s \in Upto(n + 1) :
          h[s] = IF s = {} THEN 0 ELSE f[PickOf(s)] + h[s \ {PickOf(s)}]
    <3>1. ASSUME NEW s \in Upto(n + 1), s # {}
          PROVE  h[s] = f[PickOf(s)] + h[s \ {PickOf(s)}]
      <4>1. h[s] = f[PickOf(s)] + g[s \ {PickOf(s)}]
        BY <3>1
      <4>2. h[s \ {PickOf(s)}] = g[s \ {PickOf(s)}]
        BY <1>3, <2>3, <3>1
      <4> QED
        BY <4>1, <4>2
    <3>2. \A s \in Upto(n + 1) : s = {} => h[s] = 0
      OBVIOUS
    <3> HIDE DEF h
    <3> QED
      BY <3>1, <3>2
  <2>5. Solves(h, n + 1)
    BY <2>2, <2>4
  <2>6. n + 1 \in Nat
    OBVIOUS
  <2> HIDE DEF Solves
  <2> QED
    BY <2>5, <2>6
<1>6. Nat \subseteq S
  <2> HIDE DEF S
  <2> QED
    BY <1>4, <1>5, InductionOnNat
<1>7. Upto(Cardinality(Account)) = SUBSET Account
  BY FS_Subset
<1>8. Cardinality(Account) \in S
  BY <1>6, FS_CardinalityType
<1>9. PICK g : Solves(g, Cardinality(Account))
  BY <1>8
<1>10. /\ g \in [SUBSET Account -> Nat]
       /\ \A s \in SUBSET Account :
            g[s] = IF s = {} THEN 0 ELSE f[PickOf(s)] + g[s \ {PickOf(s)}]
  BY <1>7, <1>9
<1>11. g = [s \in SUBSET Account |->
              IF s = {} THEN 0 ELSE f[PickOf(s)] + g[s \ {PickOf(s)}]]
  BY <1>10
<1> QED
  BY <1>10, <1>11

\* So the sums are numbers, none over no account, and otherwise one term more than over
\* the rest.
LEMMA SumsAre ==
  ASSUME IsFiniteSet(Account), NEW f \in [Account -> Nat]
  PROVE  /\ Sums(f)[{}] = 0
         /\ \A s \in SUBSET Account : Sums(f)[s] \in Nat
         /\ \A s \in SUBSET Account :
              s # {} => Sums(f)[s] = f[PickOf(s)] + Sums(f)[s \ {PickOf(s)}]
<1>1. PICK g \in [SUBSET Account -> Nat] :
           g = [s \in SUBSET Account |->
                  IF s = {} THEN 0 ELSE f[PickOf(s)] + g[s \ {PickOf(s)}]]
  BY SumsExist
<1>2. Sums(f) = [s \in SUBSET Account |->
                   IF s = {} THEN 0 ELSE f[PickOf(s)] + Sums(f)[s \ {PickOf(s)}]]
  BY <1>1, Zenon DEF Sums
<1> DEFINE h == Sums(f)
<1>3. /\ h[{}] = 0
      /\ \A s \in SUBSET Account : s # {} => h[s] = f[PickOf(s)] + h[s \ {PickOf(s)}]
  <2> HIDE DEF h
  <2>1. h = [s \in SUBSET Account |->
                   IF s = {} THEN 0 ELSE f[PickOf(s)] + h[s \ {PickOf(s)}]]
    BY <1>2 DEF h
  <2>2. {} \in SUBSET Account
    OBVIOUS
  <2>3. \A s \in SUBSET Account :
           h[s] = IF s = {} THEN 0 ELSE f[PickOf(s)] + h[s \ {PickOf(s)}]
    BY <2>1, Zenon
  <2> QED
    BY <2>2, <2>3
<1> HIDE DEF h
<1>4. SUBSET Account \subseteq {s \in SUBSET Account : h[s] \in Nat}
  <2> DEFINE Sized(n) == {s \in SUBSET Account : Cardinality(s) = n}
             S == {n \in Nat : \A s \in Sized(n) : h[s] \in Nat}
  <2>1. \A s \in SUBSET Account : IsFiniteSet(s) /\ Cardinality(s) \in Nat
    BY FS_Subset, FS_CardinalityType
  <2>2. 0 \in S
    <3>1. \A s \in Sized(0) : s = {}
      BY <2>1, FS_EmptySet
    <3>2. \A s \in Sized(0) : h[s] = 0
      BY <1>3, <3>1
    <3>3. 0 \in Nat
      OBVIOUS
    <3> HIDE DEF Sized
    <3> QED
      BY <3>2, <3>3
  <2>3. ASSUME NEW n \in Nat, n \in S PROVE n + 1 \in S
    <3>1. ASSUME NEW s \in Sized(n + 1) PROVE h[s] \in Nat
      <4>1. s # {} /\ PickOf(s) \in s
        <5>1. s # {}
          BY <2>1, FS_EmptySet
        <5> QED
          BY <5>1 DEF PickOf
      <4>2. Cardinality(s \ {PickOf(s)}) = Cardinality(s) - 1
        BY <2>1, <4>1, FS_RemoveElement
      <4>3. s \ {PickOf(s)} \in Sized(n)
        <5>1. Cardinality(s) = n + 1 /\ s \ {PickOf(s)} \in SUBSET Account
          OBVIOUS
        <5> QED
          BY <4>2, <5>1
      <4>4. h[s \ {PickOf(s)}] \in Nat
        BY <2>3, <4>3
      <4>5. f[PickOf(s)] \in Nat
        BY <4>1
      <4>6. h[s] = f[PickOf(s)] + h[s \ {PickOf(s)}]
        BY <1>3, <4>1
      <4> QED
        BY <4>4, <4>5, <4>6
    <3> QED
      BY <3>1
  <2>4. Nat \subseteq S
    <3> HIDE DEF S
    <3> QED
      BY <2>2, <2>3, InductionOnNat
  <2> QED
    BY <2>1, <2>4
<1> QED
  BY <1>3, <1>4 DEF h

\* Whichever account is taken out, the sum loses its term.
LEMMA SumsAdd ==
  ASSUME IsFiniteSet(Account), NEW f \in [Account -> Nat]
  PROVE  \A s \in SUBSET Account : \A x \in s : Sums(f)[s] = f[x] + Sums(f)[s \ {x}]
<1> DEFINE h == Sums(f)
           Sized(n) == {s \in SUBSET Account : Cardinality(s) = n}
           S == {n \in Nat : \A s \in Sized(n) : \A x \in s : h[s] = f[x] + h[s \ {x}]}
<1>1. \A s \in SUBSET Account : IsFiniteSet(s) /\ Cardinality(s) \in Nat
  BY FS_Subset, FS_CardinalityType
<1>2. /\ \A s \in SUBSET Account : h[s] \in Nat
      /\ \A s \in SUBSET Account : s # {} => h[s] = f[PickOf(s)] + h[s \ {PickOf(s)}]
  BY SumsAre
<1> HIDE DEF h
<1>3. 0 \in S
  <2>1. \A s \in Sized(0) : s = {}
    BY <1>1, FS_EmptySet
  <2> QED
    BY <2>1
<1>4. ASSUME NEW n \in Nat, n \in S PROVE n + 1 \in S
  <2>1. ASSUME NEW s \in Sized(n + 1), NEW x \in s
        PROVE  h[s] = f[x] + h[s \ {x}]
    <3> DEFINE p == PickOf(s)
    <3>1. p \in s /\ s \in SUBSET Account
      BY DEF PickOf
    <3>2. h[s] = f[p] + h[s \ {p}]
      BY <1>2, <3>1
    <3>3. \A y \in s : s \ {y} \in Sized(n)
      <4>1. ASSUME NEW y \in s PROVE s \ {y} \in Sized(n)
        <5>1. Cardinality(s \ {y}) = Cardinality(s) - 1
          BY <1>1, FS_RemoveElement
        <5>2. Cardinality(s) = n + 1 /\ s \ {y} \in SUBSET Account
          OBVIOUS
        <5> QED
          BY <5>1, <5>2
      <4> QED
        BY <4>1
    <3> HIDE DEF p
    <3>4. CASE x = p
      BY <3>2, <3>4
    <3>5. CASE x # p
      <4>1. h[s \ {p}] = f[x] + h[(s \ {p}) \ {x}]
        BY <1>4, <3>1, <3>3, <3>5
      <4>2. h[s \ {x}] = f[p] + h[(s \ {x}) \ {p}]
        BY <1>4, <3>1, <3>3, <3>5
      <4>3. (s \ {p}) \ {x} = (s \ {x}) \ {p}
        OBVIOUS
      <4>4. /\ f[p] \in Nat /\ f[x] \in Nat
            /\ h[(s \ {x}) \ {p}] \in Nat /\ h[s \ {x}] \in Nat /\ h[s \ {p}] \in Nat
        BY <1>2, <3>1
      <4> QED
        BY <3>2, <4>1, <4>2, <4>3, <4>4
    <3> QED
      BY <3>4, <3>5
  <2>2. n + 1 \in Nat
    OBVIOUS
  <2> QED
    BY <2>1, <2>2
<1>5. Nat \subseteq S
  <2> HIDE DEF S
  <2> QED
    BY <1>3, <1>4, InductionOnNat
<1> QED
  BY <1>1, <1>5 DEF h

\* The sum of nothing is zero, and of something is not.
LEMMA CurrentInUsePositive ==
  ASSUME IsFiniteSet(Account), inUse \in [Account -> Nat]
  PROVE  /\ CurrentInUse \in Nat
         /\ CurrentInUse > 0 => \E a \in Account : inUse[a] > 0
<1> DEFINE P == {s \in SUBSET Account : Sums(inUse)[s] > 0 => \E a \in s : inUse[a] > 0}
<1>1. {} \in P
  BY SumsAre
<1>2. ASSUME NEW s \in SUBSET Account, NEW x \in Account \ s, s \in P
      PROVE  s \union {x} \in P
  <2>1. (s \union {x}) \ {x} = s /\ s \union {x} \in SUBSET Account
    OBVIOUS
  <2>2. Sums(inUse)[s \union {x}] = inUse[x] + Sums(inUse)[s]
    BY <2>1, SumsAdd
  <2>3. Sums(inUse)[s] \in Nat /\ inUse[x] \in Nat
    BY SumsAre
  <2>4. ASSUME Sums(inUse)[s \union {x}] > 0, inUse[x] = 0
        PROVE  \E a \in s : inUse[a] > 0
    BY <1>2, <2>2, <2>3, <2>4
  <2>5. inUse[x] # 0 => inUse[x] > 0
    BY <2>3
  <2> QED
    BY <2>1, <2>4, <2>5
<1>3. SUBSET Account \subseteq P
  <2> HIDE DEF P
  <2> QED
    BY <1>1, <1>2, InductionOnSubsets
<1>4. Account \in P /\ Account \in SUBSET Account
  BY <1>3
<1> QED
  BY <1>4, SumsAre, CurrentInUseIsSum

\* The requests that hold an account of s.
HoldersIn(s) == {r \in Request : held[r] \in s}

\* What the counters say together, against the requests: never more than hold an
\* account, and at least those that hold one which is counted exactly.
LEMMA CurrentInUseCounts ==
  ASSUME PoolAssumption, inUse \in [Account -> Nat], NEW K \in SUBSET Account,
         \A a \in Account : inUse[a] <= Cardinality(Holders(a)),
         \A a \in K : inUse[a] = Cardinality(Holders(a))
  PROVE  /\ CurrentInUse <= Cardinality(HoldersIn(Account))
         /\ Cardinality(HoldersIn(K)) <= CurrentInUse
<1> DEFINE h == Sums(inUse)
           P == {s \in SUBSET Account :
                   /\ h[s] <= Cardinality(HoldersIn(s))
                   /\ Cardinality(HoldersIn(s \intersect K)) <= h[s]}
<1>1. \A s : IsFiniteSet(HoldersIn(s)) /\ Cardinality(HoldersIn(s)) \in Nat
  BY FS_Subset, FS_CardinalityType DEF HoldersIn, PoolAssumption
<1>2. h[{}] = 0 /\ \A s \in SUBSET Account : h[s] \in Nat
  BY SumsAre DEF PoolAssumption
<1>3. \A s \in SUBSET Account : \A x \in s : h[s] = inUse[x] + h[s \ {x}]
  BY SumsAdd DEF PoolAssumption
<1> HIDE DEF h
<1>4. {} \in P
  <2>1. HoldersIn({}) = {} /\ {} \intersect K = {}
    BY DEF HoldersIn
  <2>2. Cardinality(HoldersIn({})) = 0
    BY <2>1, FS_EmptySet
  <2> QED
    BY <1>2, <2>1, <2>2
<1>5. ASSUME NEW s \in SUBSET Account, NEW x \in Account \ s, s \in P
      PROVE  s \union {x} \in P
  <2>1. (s \union {x}) \ {x} = s /\ s \union {x} \in SUBSET Account /\ x \in s \union {x}
    OBVIOUS
  <2>2. h[s \union {x}] = inUse[x] + h[s]
    BY <1>3, <2>1
  <2>3. ASSUME NEW t, x \notin t
        PROVE  Cardinality(HoldersIn(t \union {x}))
                 = Cardinality(HoldersIn(t)) + Cardinality(Holders(x))
    <3>1. /\ HoldersIn(t \union {x}) = HoldersIn(t) \union Holders(x)
          /\ HoldersIn(t) \intersect Holders(x) = {}
      BY <2>3 DEF HoldersIn, Holders
    <3>2. Cardinality(HoldersIn(t \union {x}))
            = Cardinality(HoldersIn(t)) + Cardinality(Holders(x)) - Cardinality({})
      BY <1>1, <3>1, HoldersFinite, FS_Union
    <3> QED
      BY <1>1, <3>2, HoldersFinite, FS_EmptySet
  <2>4. h[s \union {x}] <= Cardinality(HoldersIn(s \union {x}))
    <3>1. Cardinality(HoldersIn(s \union {x}))
            = Cardinality(HoldersIn(s)) + Cardinality(Holders(x))
      BY <2>3
    <3>2. inUse[x] <= Cardinality(Holders(x)) /\ h[s] <= Cardinality(HoldersIn(s))
      BY <1>5
    <3>3. inUse[x] \in Nat /\ h[s] \in Nat
      BY <1>2
    <3> QED
      BY <1>1, <2>2, <3>1, <3>2, <3>3, HoldersFinite
  <2>5. Cardinality(HoldersIn((s \union {x}) \intersect K)) <= h[s \union {x}]
    <3>1. Cardinality(HoldersIn(s \intersect K)) <= h[s]
      BY <1>5
    <3>2. inUse[x] \in Nat /\ h[s] \in Nat
      BY <1>2
    <3>3. CASE x \in K
      <4>1. (s \union {x}) \intersect K = (s \intersect K) \union {x} /\ x \notin s \intersect K
        BY <3>3
      <4>2. Cardinality(HoldersIn((s \intersect K) \union {x}))
              = Cardinality(HoldersIn(s \intersect K)) + Cardinality(Holders(x))
        BY <2>3, <4>1
      <4>3. inUse[x] = Cardinality(Holders(x))
        BY <3>3
      <4>4. Cardinality(HoldersIn((s \intersect K) \union {x})) <= h[s \union {x}]
        BY <1>1, <2>2, <3>1, <3>2, <4>2, <4>3
      <4> QED
        BY <4>1, <4>4
    <3>4. CASE x \notin K
      <4>1. (s \union {x}) \intersect K = s \intersect K
        BY <3>4
      <4>2. Cardinality(HoldersIn(s \intersect K)) <= h[s \union {x}]
        BY <1>1, <2>2, <3>1, <3>2
      <4> QED
        BY <4>1, <4>2
    <3> QED
      BY <3>3, <3>4
  <2> QED
    BY <2>1, <2>4, <2>5
<1>6. SUBSET Account \subseteq P
  <2>1. IsFiniteSet(Account)
    BY DEF PoolAssumption
  <2> HIDE DEF P
  <2> QED
    BY <1>4, <1>5, <2>1, InductionOnSubsets
<1>7. Account \in P /\ Account \intersect K = K
  BY <1>6
<1> QED
  BY <1>7, CurrentInUseIsSum DEF h
-----------------------------------------------------------------------------
(* The queue of the waiters                                                  *)

InSeq(s, x) == \E i \in DOMAIN s : s[i] = x

Distinct(s) == \A i, j \in DOMAIN s : s[i] = s[j] => i = j

\* A set of numbers has a least one.
LEMMA LeastNumber ==
  ASSUME NEW T \in SUBSET Nat, T # {}
  PROVE  \E m \in T : \A n \in T : m <= n
<1>1. PICK m \in T : \A n \in T : <<n, m>> \notin OpToRel(<, Nat)
  BY WFMin, NatLessThanWellFounded
<1>2. ASSUME NEW n \in T, n < m PROVE FALSE
  BY <1>1, <1>2 DEF OpToRel
<1> QED
  BY <1>2

\* notifyWaiterLocked takes the head, and only that.
LEMMA TailOfWaiters ==
  ASSUME NEW s \in Seq(Request), s # <<>>, Distinct(s)
  PROVE  /\ Distinct(Tail(s))
         /\ \A x : InSeq(Tail(s), x) <=> InSeq(s, x) /\ x # s[1]
<1>1. /\ Len(s) \in Nat \ {0} /\ DOMAIN s = 1 .. Len(s)
      /\ DOMAIN Tail(s) = 1 .. Len(s) - 1
      /\ \A i \in 1 .. Len(s) - 1 : Tail(s)[i] = s[i + 1]
  OBVIOUS
<1>2. Distinct(Tail(s))
  <2>1. ASSUME NEW i \in 1 .. Len(s) - 1, NEW j \in 1 .. Len(s) - 1,
               Tail(s)[i] = Tail(s)[j]
        PROVE  i = j
    <3>1. s[i + 1] = s[j + 1] /\ i + 1 \in 1 .. Len(s) /\ j + 1 \in 1 .. Len(s)
      BY <1>1, <2>1
    <3>2. i + 1 = j + 1
      BY <1>1, <3>1 DEF Distinct
    <3> QED
      BY <3>2
  <2> QED
    BY <1>1, <2>1 DEF Distinct
<1>3. ASSUME NEW x, InSeq(Tail(s), x) PROVE InSeq(s, x) /\ x # s[1]
  <2>1. PICK i \in 1 .. Len(s) - 1 : s[i + 1] = x
    BY <1>1, <1>3 DEF InSeq
  <2>2. i + 1 \in 1 .. Len(s) /\ 1 \in 1 .. Len(s) /\ i + 1 # 1
    BY <1>1
  <2> QED
    BY <1>1, <2>1, <2>2 DEF InSeq, Distinct
<1>4. ASSUME NEW x, InSeq(s, x), x # s[1] PROVE InSeq(Tail(s), x)
  <2>1. PICK i \in 1 .. Len(s) : s[i] = x
    BY <1>1, <1>4 DEF InSeq
  <2>2. i - 1 \in 1 .. Len(s) - 1 /\ (i - 1) + 1 = i
    BY <1>1, <1>4, <2>1
  <2> QED
    BY <1>1, <2>1, <2>2 DEF InSeq
<1> QED
  BY <1>2, <1>3, <1>4

\* removeWaiterLocked takes its waiter, and only that.
LEMMA RemovedWaiter ==
  ASSUME waiters \in Seq(Request), Distinct(waiters), NEW r \in Request, RemoveWaiter(r)
  PROVE  /\ Distinct(waiters')
         /\ \A x : InSeq(waiters', x) <=> InSeq(waiters, x) /\ x # r
<1>1. CASE ~InWaiters(r)
  BY <1>1 DEF RemoveWaiter, InWaiters, InSeq
<1>2. CASE InWaiters(r)
  <2> DEFINE n == Len(waiters)
  <2>1. n \in Nat /\ DOMAIN waiters = 1 .. n
    OBVIOUS
  <2>2. PICK i \in 1 .. n : waiters[i] = r
    BY <1>2 DEF InWaiters
  <2> HIDE DEF n
  <2>3. \A k \in 1 .. n - 1 : (\A j \in 1 .. k : waiters[j] # r) <=> k < i
    BY <2>1, <2>2 DEF Distinct
  <2>4. waiters' = [k \in 1 .. n - 1 |-> IF \A j \in 1 .. k : waiters[j] # r
                                         THEN waiters[k] ELSE waiters[k + 1]]
    BY <1>2 DEF RemoveWaiter, n
  <2>5. /\ DOMAIN waiters' = 1 .. n - 1
        /\ \A k \in 1 .. n - 1 : waiters'[k] = IF k < i THEN waiters[k] ELSE waiters[k + 1]
    BY <2>3, <2>4
  <2>6. Distinct(waiters')
    <3>1. ASSUME NEW k \in 1 .. n - 1, NEW l \in 1 .. n - 1, waiters'[k] = waiters'[l]
          PROVE  k = l
      <4> DEFINE at(m) == IF m < i THEN m ELSE m + 1
      <4>1. /\ at(k) \in 1 .. n /\ waiters'[k] = waiters[at(k)]
            /\ at(l) \in 1 .. n /\ waiters'[l] = waiters[at(l)]
        BY <2>1, <2>2, <2>5
      <4>2. at(k) = at(l)
        BY <2>1, <3>1, <4>1 DEF Distinct
      <4> QED
        BY <2>1, <2>2, <4>2
    <3> QED
      BY <2>5, <3>1 DEF Distinct
  <2>7. ASSUME NEW x, InSeq(waiters', x) PROVE InSeq(waiters, x) /\ x # r
    <3>1. PICK k \in 1 .. n - 1 : waiters'[k] = x
      BY <2>5, <2>7 DEF InSeq
    <3>2. PICK m \in 1 .. n : waiters[m] = x /\ m # i
      BY <2>1, <2>2, <2>5, <3>1
    <3> QED
      BY <2>1, <2>2, <3>2 DEF InSeq, Distinct
  <2>8. ASSUME NEW x, InSeq(waiters, x), x # r PROVE InSeq(waiters', x)
    <3>1. PICK m \in 1 .. n : waiters[m] = x /\ m # i
      BY <2>1, <2>2, <2>8 DEF InSeq
    <3>2. CASE m < i
      <4>1. m \in 1 .. n - 1 /\ waiters'[m] = waiters[m]
        BY <2>1, <2>2, <2>5, <3>2
      <4> QED
        BY <2>5, <3>1, <4>1 DEF InSeq
    <3>3. CASE m > i
      <4>1. m - 1 \in 1 .. n - 1 /\ waiters'[m - 1] = waiters[m]
        BY <2>1, <2>2, <2>5, <3>3
      <4> QED
        BY <2>5, <3>1, <4>1 DEF InSeq
    <3> QED
      BY <2>1, <2>2, <3>1, <3>2, <3>3
  <2> QED
    BY <2>6, <2>7, <2>8
<1> QED
  BY <1>1, <1>2

\* A new waiter stands behind the others.
LEMMA AppendedWaiter ==
  ASSUME waiters \in Seq(Request), Distinct(waiters), NEW r \in Request,
         ~InSeq(waiters, r), waiters' = Append(waiters, r)
  PROVE  /\ Distinct(waiters')
         /\ \A x : InSeq(waiters', x) <=> InSeq(waiters, x) \/ x = r
<1> DEFINE n == Len(waiters)
<1>1. /\ n \in Nat /\ DOMAIN waiters = 1 .. n
      /\ DOMAIN waiters' = 1 .. n + 1
      /\ \A i \in 1 .. n + 1 : waiters'[i] = IF i = n + 1 THEN r ELSE waiters[i]
  OBVIOUS
<1>2. \A i \in 1 .. n : waiters[i] # r
  BY <1>1 DEF InSeq
<1> HIDE DEF n
<1>3. n + 1 \in 1 .. n + 1 /\ \A i \in 1 .. n + 1 : i # n + 1 => i \in 1 .. n
  BY <1>1
<1>4. \A i \in 1 .. n : i \in 1 .. n + 1 /\ i # n + 1
  BY <1>1
<1>5. Distinct(waiters')
  BY <1>1, <1>2, <1>3, <1>4 DEF Distinct
<1> QED
  BY <1>1, <1>3, <1>4, <1>5 DEF InSeq
\* Waking one waiter, all of them or none.
LEMMA ShrunkWaiters ==
  ASSUME waiters \in Seq(Request), Distinct(waiters),
         UNCHANGED waiters \/ NotifyWaiter \/ DrainWaiters
  PROVE  /\ Distinct(waiters')
         /\ \A x : InSeq(waiters', x) => InSeq(waiters, x)
<1>1. CASE UNCHANGED waiters
  BY <1>1 DEF Distinct, InSeq
<1>2. CASE waiters' = <<>>
  BY <1>2 DEF Distinct, InSeq
<1>3. CASE waiters # <<>> /\ waiters' = Tail(waiters)
  BY <1>3, TailOfWaiters
<1> QED
  BY <1>1, <1>2, <1>3 DEF NotifyWaiter, DrainWaiters

LEMMA AsleepIs ==
  ASSUME waiters \in Seq(Request)
  PROVE  WaitersAreAsleep <=>
           /\ Distinct(waiters)
           /\ \A x : InSeq(waiters, x) => phase[x] = "waiting"
BY DEF WaitersAreAsleep, Distinct, InSeq

\* A step that wakes waiters, or none, and changes the phase at most of a request that
\* does not sleep in the queue afterwards.
LEMMA AsleepFrame ==
  ASSUME PoolTypeOK, PoolTypeOK', WaitersAreAsleep,
         Distinct(waiters'), NEW r,
         \A x : InSeq(waiters', x) => InSeq(waiters, x) /\ x # r,
         \A x \in Request : x # r => phase'[x] = phase[x]
  PROVE  WaitersAreAsleep'
<1>1. waiters \in Seq(Request) /\ waiters' \in Seq(Request)
  BY DEF PoolTypeOK
<1>2. \A x : InSeq(waiters', x) => x \in Request
  BY <1>1 DEF InSeq
<1>3. \A x : InSeq(waiters', x) => phase'[x] = "waiting"
  BY <1>1, <1>2, AsleepIs
<1> QED
  BY <1>1, <1>3 DEF WaitersAreAsleep, Distinct, InSeq

LEMMA AsleepStep ==
  ASSUME PoolAssumption, PoolTypeOK, WaitersAreAsleep, [Next]_vars
  PROVE  WaitersAreAsleep'
<1>1. PoolTypeOK'
  BY TypeStep
<1>2. /\ waiters \in Seq(Request) /\ Distinct(waiters)
      /\ \A x : InSeq(waiters, x) => phase[x] = "waiting"
  BY AsleepIs DEF PoolTypeOK
<1>3. \A x : InWaiters(x) <=> InSeq(waiters, x)
  BY DEF InWaiters, InSeq
<1>4. ASSUME NEW r \in Request, RequestStep(r) PROVE WaitersAreAsleep'
  <2>1. CASE Call(r) \/ CheckContext(r) \/ TakeSlot(r) \/ Refuse(r) \/ Wake(r)
             \/ TryAcquire(r) \/ Cancel(r)
    <3>1. /\ UNCHANGED waiters
          /\ \A x \in Request : x # r => phase'[x] = phase[x]
          /\ phase'[r] # phase[r] => ~InSeq(waiters, r)
      <4>1. CASE Call(r) \/ CheckContext(r) \/ Refuse(r) \/ Cancel(r)
        BY <1>2, <4>1 DEF Call, CheckContext, Refuse, Cancel, poolVars, PoolTypeOK
      <4>2. CASE TakeSlot(r) \/ TryAcquire(r)
        BY <1>2, <4>2 DEF TakeSlot, TryAcquire, Grant, poolVars, PoolTypeOK
      <4>3. CASE Wake(r)
        BY <1>3, <4>3 DEF Wake, poolVars, PoolTypeOK
      <4> QED
        BY <2>1, <4>1, <4>2, <4>3
    <3>2. CASE phase'[r] # phase[r]
      <4>1. Distinct(waiters') /\ \A x : InSeq(waiters', x) => InSeq(waiters, x) /\ x # r
        BY <1>2, <3>1, <3>2
      <4> QED
        BY <1>1, <3>1, <4>1, AsleepFrame
    <3>3. CASE phase'[r] = phase[r]
      <4>1. \A x \in Request : phase'[x] = phase[x]
        BY <3>1, <3>3
      <4> QED
        BY <1>2, <3>1, <4>1 DEF WaitersAreAsleep
    <3> QED
      BY <3>2, <3>3
  <2>2. CASE Enqueue(r)
    <3>1. /\ waiters' = Append(waiters, r)
          /\ phase[r] = "checked" /\ phase' = [phase EXCEPT ![r] = "waiting"]
      BY <2>2 DEF Enqueue
    <3>2. ~InSeq(waiters, r)
      BY <1>2, <3>1
    <3>3. Distinct(waiters') /\ \A x : InSeq(waiters', x) => InSeq(waiters, x) \/ x = r
      BY <1>2, <3>1, <3>2, AppendedWaiter
    <3>4. \A x : InSeq(waiters', x) => phase'[x] = "waiting"
      <4>1. phase \in [Request -> Phases]
        BY DEF PoolTypeOK
      <4>2. \A x : InSeq(waiters, x) => x \in Request
        BY <1>2 DEF InSeq
      <4> QED
        BY <1>2, <3>1, <3>3, <4>1, <4>2
    <3> QED
      BY <3>3, <3>4 DEF WaitersAreAsleep, Distinct, InSeq
  <2>3. CASE GiveUp(r)
    <3>1. /\ Distinct(waiters')
          /\ \A x : InSeq(waiters', x) => InSeq(waiters, x) /\ x # r
      BY <1>2, <2>3, RemovedWaiter DEF GiveUp
    <3>2. \A x \in Request : x # r => phase'[x] = phase[x]
      BY <2>3 DEF GiveUp, PoolTypeOK
    <3> QED
      BY <1>1, <3>1, <3>2, AsleepFrame
  <2>4. CASE Release(r)
    <3>1. UNCHANGED waiters \/ NotifyWaiter
      BY <2>4 DEF Release, ReleaseSlot
    <3>2. /\ Distinct(waiters')
          /\ \A x : InSeq(waiters', x) => InSeq(waiters, x)
      BY <1>2, <3>1, ShrunkWaiters
    <3>3. ~InSeq(waiters, r)
      BY <1>2, <2>4 DEF Release
    <3>4. \A x \in Request : x # r => phase'[x] = phase[x]
      BY <2>4 DEF Release, PoolTypeOK
    <3> QED
      BY <1>1, <3>2, <3>3, <3>4, AsleepFrame
  <2> QED
    BY <1>4, <2>1, <2>2, <2>3, <2>4 DEF RequestStep
<1>5. ASSUME UNCHANGED phase, UNCHANGED waiters \/ NotifyWaiter \/ DrainWaiters
      PROVE  WaitersAreAsleep'
  <2>1. /\ Distinct(waiters')
        /\ \A x : InSeq(waiters', x) => InSeq(waiters, x)
    BY <1>2, <1>5, ShrunkWaiters
  <2>2. \A x : InSeq(waiters', x) => phase'[x] = "waiting"
    BY <1>2, <1>5, <2>1
  <2> QED
    BY <2>1, <2>2 DEF WaitersAreAsleep, Distinct, InSeq
<1>6. ASSUME NEW d \in Admin, AdminStep(d) PROVE WaitersAreAsleep'
  <2>1. UNCHANGED phase /\ (UNCHANGED waiters \/ NotifyWaiter \/ DrainWaiters)
    BY <1>6 DEF AdminStep, StoreAccount, ResetReads, ResetInstalls, StoreSettings,
                SettingsRead, ApplyRuntimeLimits, SyncRateLimits, SyncDailyLimits,
                requestVars, poolVars
  <2> QED
    BY <1>5, <2>1
<1>7. ASSUME NEW a \in Account, ClockStep(a) PROVE WaitersAreAsleep'
  <2>1. UNCHANGED phase /\ (UNCHANGED waiters \/ NotifyWaiter \/ DrainWaiters)
    BY <1>7 DEF ClockStep, RestEnds, WindowEnds, FireTimer, TimerCallback, Look,
                requestVars, poolVars
  <2> QED
    BY <1>5, <2>1
<1>8. CASE Midnight \/ PersistTimers \/ UNCHANGED vars
  <2>1. UNCHANGED phase /\ UNCHANGED waiters
    BY <1>8 DEF Midnight, PersistTimers, vars, requestVars, poolVars
  <2> QED
    BY <1>5, <2>1
<1> QED
  BY <1>4, <1>6, <1>7, <1>8 DEF Next

\* The channels in the queue are those of goroutines that sleep on them, each once: no
\* notification is ever spent on a channel that nobody reads, or twice on one waiter
\* (notifyWaiterLocked, removeWaiterLocked, drainWaitersLocked).
THEOREM QueuedWaitersSleep == Spec => []WaitersAreAsleep
<1>1. Init => WaitersAreAsleep
  BY DEF Init, WaitersAreAsleep
<1>2. PoolTypeOK /\ WaitersAreAsleep /\ [Next]_vars => WaitersAreAsleep'
  BY PoolAssumption, AsleepStep
<1> QED
  BY <1>1, <1>2, TypeCorrect, PTL DEF Spec
-----------------------------------------------------------------------------
(* Choosing: who is not served found nothing                                 *)

\* The accounts that acquireLocked may look at for r.
Reachable(r) == {a \in Account : Wants[r].target = a \/ (Wants[r].target = None /\ Queued(a))}

\* The scan finds one if there is one: the first in the queue.
LEMMA ServedIfGrantable ==
  ASSUME PoolAssumption, PoolTypeOK, NEW r \in Request, NEW a \in Reachable(r),
         Grantable(r, a)
  PROVE  CanServe(r)
<1>1. a \in Account
  BY DEF Reachable
<1>2. CASE Wants[r].target = a
  BY <1>1, <1>2 DEF CanServe, Chosen
<1>3. CASE Wants[r].target = None /\ Queued(a)
  <2> DEFINE T == {i \in DOMAIN queue : Grantable(r, queue[i])}
  <2>1. queue \in Seq(Account) /\ DOMAIN queue = 1 .. Len(queue) /\ Len(queue) \in Nat
    BY DEF PoolTypeOK
  <2>2. T \in SUBSET Nat /\ T # {}
    BY <1>3, <2>1 DEF Queued
  <2>3. PICK m \in T : \A n \in T : m <= n
    BY <2>2, LeastNumber
  <2>4. \A j \in 1 .. m - 1 : ~Grantable(r, queue[j])
    <3>1. ASSUME NEW j \in 1 .. m - 1, Grantable(r, queue[j]) PROVE FALSE
      <4>1. j \in T /\ j < m /\ m \in Nat /\ j \in Nat
        BY <2>1, <2>2, <3>1
      <4> QED
        BY <2>3, <4>1
    <3> QED
      BY <3>1
  <2>5. Chosen(r, queue[m]) /\ queue[m] \in Account
    BY <1>3, <2>1, <2>3, <2>4 DEF Chosen
  <2> QED
    BY <2>5 DEF CanServe
<1> QED
  BY <1>2, <1>3 DEF Reachable

LEMMA HoldingIs ==
  ASSUME PoolTypeOK, PoolAssumption
  PROVE  Holding = HoldersIn(Account)
BY DEF Holding, HoldersIn, PoolTypeOK, PoolAssumption

\* A request of the fast path or of the wait loop that is turned away or put to sleep
\* has scanned in the same critical section, and every account it may use was then
\* busy, limited or not schedulable (acquireLocked, canAcquireIDLocked).
LEMMA NoFreeAccountBeside ==
  ASSUME PoolAssumption, PoolTypeOK, SlotInv, NEW r \in Request, ~CanServe(r),
         NEW a \in Account, Wants[r].target \in {None, a}, Queued(a), Wanted(r, a),
         Cardinality(Holders(a)) < limits.maxPer, Cardinality(Holding) < limits.global,
         ~RateLimited(a), ~DailyLimited(a)
  PROVE  FALSE
<1>1. inUse \in [Account -> Nat] /\ limits.maxPer \in Nat /\ limits.global \in Nat
  BY DEF PoolTypeOK, Limits
<1>2. \A b \in Account : inUse[b] <= Cardinality(Holders(b))
  BY DEF SlotInv, NoLeakedSlot
<1>3. CurrentInUse <= Cardinality(HoldersIn(Account)) /\ CurrentInUse \in Nat
  <2>1. {} \in SUBSET Account /\ IsFiniteSet(Account)
    BY DEF PoolAssumption
  <2> QED
    BY <1>1, <1>2, <2>1, CurrentInUseCounts, CurrentInUsePositive
<1>4. Cardinality(Holding) \in Nat /\ Cardinality(Holders(a)) \in Nat
  BY FS_Subset, FS_CardinalityType, HoldersFinite DEF Holding, PoolAssumption
<1>5. inUse[a] < limits.maxPer
  BY <1>1, <1>2, <1>4
<1>6. CurrentInUse < limits.global
  BY <1>1, <1>3, <1>4, HoldingIs
<1>7. Grantable(r, a)
  BY <1>5, <1>6 DEF Grantable, CanAcquireID
<1>8. a \in Reachable(r)
  BY DEF Reachable
<1> QED
  BY <1>7, <1>8, ServedIfGrantable

\* AcquireWait gives a request no answer but a slot as long as an account is free for it.
LEMMA TurnedAwayUnserved ==
  ASSUME PoolTypeOK, [Next]_vars, NEW r \in Request,
         phase[r] = "checked", phase'[r] \in {"waiting", "failed"}
  PROVE  ~CanServe(r)
<1>1. ASSUME NEW q \in Request, RequestStep(q) PROVE ~CanServe(r)
  <2>1. CASE q = r
    <3>1. Enqueue(r) \/ Refuse(r)
      BY <1>1, <2>1 DEF RequestStep, Call, CheckContext, TakeSlot, Grant, Wake, GiveUp,
                        TryAcquire, Release, Cancel, PoolTypeOK
    <3> QED
      BY <3>1 DEF Enqueue, Refuse
  <2>2. CASE q # r
    <3>1. phase'[r] = phase[r]
      <4>1. CASE Call(q) \/ CheckContext(q) \/ Enqueue(q) \/ Refuse(q) \/ Wake(q)
                 \/ GiveUp(q) \/ Release(q) \/ Cancel(q)
        BY <2>2, <4>1 DEF Call, CheckContext, Enqueue, Refuse, Wake, GiveUp, Release,
                          Cancel, PoolTypeOK
      <4>2. CASE TakeSlot(q) \/ TryAcquire(q)
        BY <2>2, <4>2 DEF TakeSlot, TryAcquire, Grant, PoolTypeOK
      <4> QED
        BY <1>1, <4>1, <4>2 DEF RequestStep
    <3> QED
      BY <3>1
  <2> QED
    BY <2>1, <2>2
<1>2. CASE UNCHANGED phase
  BY <1>2
<1>3. ASSUME NEW d \in Admin, AdminStep(d) PROVE UNCHANGED phase
  BY <1>3 DEF AdminStep, StoreAccount, ResetReads, ResetInstalls, StoreSettings,
              SettingsRead, ApplyRuntimeLimits, SyncRateLimits, SyncDailyLimits, requestVars
<1>4. ASSUME NEW a \in Account, ClockStep(a) PROVE UNCHANGED phase
  BY <1>4 DEF ClockStep, RestEnds, WindowEnds, FireTimer, TimerCallback, Look, requestVars
<1>5. Midnight \/ PersistTimers \/ UNCHANGED vars => UNCHANGED phase
  BY DEF Midnight, PersistTimers, vars, requestVars
<1> QED
  BY <1>1, <1>2, <1>3, <1>4, <1>5 DEF Next

\* For every configuration of the pool: no call is refused or put to sleep beside an
\* account that the requests leave free, although the pool only counts slots, which
\* Resets forget, and knows the global use only as the sum of those counts.
THEOREM NoCallQueuesBesideFreeAccount == Spec => NeverQueuesBesideFreeAccount
<1>1. PoolTypeOK /\ SlotInv /\ [Next]_vars =>
        [\A r \in Request :
           phase[r] = "checked" /\ phase'[r] \in {"waiting", "failed"} =>
             \A a \in Account :
               ~( /\ Wants[r].target \in {None, a} /\ Queued(a) /\ Wanted(r, a)
                  /\ Cardinality(Holders(a)) < limits.maxPer
                  /\ Cardinality(Holding) < limits.global
                  /\ ~RateLimited(a) /\ ~DailyLimited(a))]_vars
  BY PoolAssumption, TurnedAwayUnserved, NoFreeAccountBeside
<1> QED
  BY <1>1, SlotsInvariant, PTL DEF Spec, NeverQueuesBesideFreeAccount
-----------------------------------------------------------------------------
(* The global limit                                                          *)

Kept == Account \ Removable

\* As long as an account stays configured, the queue is never empty and the limits that
\* follow from its length are limits: zero would mean none.
GlobalOK ==
  Kept # {} =>
    /\ limits.global > 0
    /\ \A d \in Admin : admin[d].step = "read" => admin[d].limits.global > 0

LEMMA PositiveProduct == \A m, n \in Nat : m > 0 /\ n > 0 => m * n > 0
OBVIOUS

LEMMA LimitsForPositive ==
  ASSUME NEW c \in Limits, NEW n \in Nat, n > 0
  PROVE  LimitsFor(c, n).global > 0
<1>1. c.maxPer \in Nat /\ c.maxPer > 0 /\ c.global \in Nat
  BY DEF Limits
<1>2. n * c.maxPer > 0
  BY <1>1, PositiveProduct
<1> QED
  BY <1>1, <1>2 DEF LimitsFor, Recommended

\* The queue a Reset reads holds the accounts that stay.
LEMMA KeptQueueNotEmpty ==
  ASSUME PoolAssumption, PoolTypeOK, Kept # {}, \A a \in Kept : store[a] # "out",
         NEW tokens, NEW q \in QueuesOf(InQueueable, tokens)
  PROVE  Len(q) \in Nat /\ Len(q) > 0 /\ Cardinality(InQueueable) > 0
<1>1. PICK a \in InQueueable : TRUE
  BY DEF Kept, InQueueable
<1>2. InQueueable \in SUBSET Account /\ IsFiniteSet(InQueueable)
  BY FS_Subset DEF InQueueable, PoolAssumption
<1>3. q \in Seq(Account) /\ Len(q) \in Nat /\ \E i \in DOMAIN q : q[i] = a
  BY <1>1, <1>2, QueuesOfAccounts
<1>4. Cardinality(InQueueable) \in Nat /\ Cardinality(InQueueable) # 0
  BY <1>1, <1>2, FS_EmptySet, FS_CardinalityType
<1> QED
  BY <1>3, <1>4

LEMMA GlobalInit == ASSUME PoolAssumption, Init PROVE GlobalOK
<1>1. PoolTypeOK
  BY TypeInit
<1>2. PICK tokens \in TokenSets : queue \in QueuesOf(InQueueable, tokens)
  BY DEF Init
<1>3. \A a \in Kept : store[a] # "out"
  BY DEF Init, Kept
<1>4. limits = LimitsFor(conf, Cardinality(InQueueable)) /\ conf \in Limits
  BY <1>1 DEF Init, PoolTypeOK
<1>5. Cardinality(InQueueable) \in Nat
  BY FS_Subset, FS_CardinalityType DEF InQueueable, PoolAssumption
<1>6. Kept # {} => limits.global > 0
  BY <1>1, <1>2, <1>3, <1>4, <1>5, KeptQueueNotEmpty, LimitsForPositive
<1>7. \A d \in Admin : admin[d].step # "read"
  BY DEF Init, Idle
<1> QED
  BY <1>6, <1>7 DEF GlobalOK

LEMMA GlobalStep ==
  ASSUME PoolAssumption, PoolTypeOK, SlotInv, GlobalOK, [Next]_vars
  PROVE  GlobalOK'
<1>0. ASSUME UNCHANGED <<limits, admin>> PROVE GlobalOK'
  BY <1>0 DEF GlobalOK, Kept
<1>1. ASSUME NEW r \in Request, RequestStep(r) PROVE GlobalOK'
  <2>1. UNCHANGED <<limits, admin>>
    BY <1>1 DEF RequestStep, Call, CheckContext, TakeSlot, Grant, Enqueue, Refuse, Wake,
                GiveUp, TryAcquire, Release, Cancel, poolVars
  <2> QED
    BY <1>0, <2>1
<1>2. ASSUME NEW d \in Admin, AdminStep(d) PROVE GlobalOK'
  <2>0. admin \in [Admin -> Handlers]
    BY DEF PoolTypeOK
  <2>1. ASSUME NEW h, admin' = [admin EXCEPT ![d] = h], h.step # "read",
               Kept # {} => limits'.global > 0
        PROVE  GlobalOK'
    BY <2>0, <2>1 DEF GlobalOK, Kept
  <2>2. CASE ResetReads(d)
    <3>1. PICK tokens \in TokenSets : \E q \in QueuesOf(InQueueable, tokens) :
            admin' = [admin EXCEPT ![d] =
              [step |-> "read", queue |-> q, limits |-> LimitsFor(conf, Len(q))]]
      BY <2>2 DEF ResetReads
    <3>2. PICK q \in QueuesOf(InQueueable, tokens) :
            admin' = [admin EXCEPT ![d] =
              [step |-> "read", queue |-> q, limits |-> LimitsFor(conf, Len(q))]]
      BY <3>1
    <3>3. Kept # {} => LimitsFor(conf, Len(q)).global > 0
      <4>1. \A a \in Kept : store[a] # "out"
        BY DEF SlotInv, KeptOK, Kept
      <4> QED
        BY <4>1, KeptQueueNotEmpty, LimitsForPositive DEF PoolTypeOK
    <3>4. limits'.global = limits.global
      BY <2>2 DEF ResetReads, PoolTypeOK, Limits
    <3> QED
      BY <2>0, <3>2, <3>3, <3>4 DEF GlobalOK, Kept
  <2>3. CASE ResetInstalls(d)
    <3>1. admin[d].step = "read" /\ admin[d].limits \in Limits
      BY <2>3, HandlerTypes DEF ResetInstalls
    <3>2. limits'.global = admin[d].limits.global /\ admin' = [admin EXCEPT ![d] = Idle]
      BY <2>3, <3>1 DEF ResetInstalls, Limits
    <3> QED
      BY <2>1, <3>1, <3>2 DEF GlobalOK, Idle
  <2>4. CASE ApplyRuntimeLimits(d)
    <3> DEFINE l == admin[d].limits
               default == IF queue = <<>> THEN l.maxPer ELSE l.maxPer * Len(queue)
    <3>1. l \in Limits /\ queue \in Seq(Account)
      BY <2>4, HandlerTypes DEF ApplyRuntimeLimits, PoolTypeOK
    <3>2. default > 0
      <4>1. l.maxPer \in Nat /\ l.maxPer > 0 /\ Len(queue) \in Nat
        BY <3>1 DEF Limits
      <4>2. queue # <<>> => Len(queue) > 0
        BY <3>1
      <4> QED
        BY <4>1, <4>2, PositiveProduct
    <3>3. limits' = [l EXCEPT !.global = IF @ > 0 THEN @ ELSE default]
      BY <2>4 DEF ApplyRuntimeLimits
    <3> HIDE DEF default
    <3>4. limits'.global > 0
      BY <3>1, <3>2, <3>3 DEF Limits
    <3>5. admin' = [admin EXCEPT ![d] = [step |-> "syncRate"]]
      BY <2>4 DEF ApplyRuntimeLimits
    <3>6. [step |-> "syncRate"].step # "read"
      OBVIOUS
    <3> QED
      BY <2>1, <3>4, <3>5, <3>6
  <2>5. CASE (\E a \in Account, s \in StoreStates : StoreAccount(d, a, s))
             \/ (\E s \in Settings : StoreSettings(d, s))
             \/ SettingsRead(d) \/ SyncRateLimits(d) \/ SyncDailyLimits(d)
    <3>1. /\ UNCHANGED limits
          /\ \E h : admin' = [admin EXCEPT ![d] = h] /\ h.step # "read"
      <4>1. /\ [step |-> "stored"].step # "read" /\ [step |-> "configured"].step # "read"
            /\ [step |-> "syncDaily"].step # "read" /\ Idle.step # "read"
            /\ \A x : [step |-> "limits", limits |-> x].step # "read"
        BY DEF Idle
      <4>2. CASE \E a \in Account, s \in StoreStates : StoreAccount(d, a, s)
        BY <4>1, <4>2 DEF StoreAccount, poolVars
      <4>3. CASE \E s \in Settings : StoreSettings(d, s)
        BY <4>1, <4>3 DEF StoreSettings, poolVars
      <4>4. CASE SettingsRead(d)
        BY <4>1, <4>4 DEF SettingsRead, poolVars
      <4>5. CASE SyncRateLimits(d) \/ SyncDailyLimits(d)
        BY <4>1, <4>5 DEF SyncRateLimits, SyncDailyLimits
      <4> QED
        BY <2>5, <4>2, <4>3, <4>4, <4>5
    <3>2. PICK h : admin' = [admin EXCEPT ![d] = h] /\ h.step # "read"
      BY <3>1
    <3> QED
      BY <2>1, <3>1, <3>2 DEF GlobalOK
  <2> QED
    BY <1>2, <2>2, <2>3, <2>4, <2>5 DEF AdminStep
<1>3. ASSUME NEW a \in Account, ClockStep(a) PROVE GlobalOK'
  <2>1. UNCHANGED <<limits, admin>>
    BY <1>3 DEF ClockStep, RestEnds, WindowEnds, FireTimer, TimerCallback, Look, poolVars
  <2> QED
    BY <1>0, <2>1
<1>4. CASE Midnight \/ PersistTimers \/ UNCHANGED vars
  <2>1. UNCHANGED <<limits, admin>>
    BY <1>4 DEF Midnight, PersistTimers, vars, poolVars
  <2> QED
    BY <1>0, <2>1
<1> QED
  BY <1>1, <1>2, <1>3, <1>4 DEF Next

\* One slot more, counted before against the limit together with all the others.
LEMMA GrantBelowGlobal ==
  ASSUME PoolAssumption, PoolTypeOK, SlotInv, GlobalOK,
         NEW r \in Request, NEW a \in Account, phase[r] # "holding",
         CanAcquireID(a), held' = [held EXCEPT ![r] = a]
  PROVE  Cardinality({q \in Request : held'[q] \in Kept}) <= limits.global
<1> DEFINE new == {q \in Request : held'[q] \in Kept}
<1>1. limits.global \in Nat /\ held[r] = None /\ None \notin Kept
  BY DEF PoolTypeOK, Limits, SlotInv, HeldOK, Kept, PoolAssumption
<1>2. /\ IsFiniteSet(HoldersIn(Kept)) /\ Cardinality(HoldersIn(Kept)) \in Nat
      /\ IsFiniteSet(new) /\ Cardinality(new) \in Nat
  BY FS_Subset, FS_CardinalityType DEF HoldersIn, PoolAssumption
<1>3. Cardinality(HoldersIn(Kept)) <= CurrentInUse /\ CurrentInUse \in Nat
  <2>1. Kept \in SUBSET Account /\ IsFiniteSet(Account) /\ inUse \in [Account -> Nat]
    BY DEF Kept, PoolAssumption, PoolTypeOK
  <2>2. /\ \A b \in Account : inUse[b] <= Cardinality(Holders(b))
        /\ \A b \in Kept : inUse[b] = Cardinality(Holders(b))
    BY DEF SlotInv, NoLeakedSlot, NeverOversold, Kept
  <2> QED
    BY <2>1, <2>2, CurrentInUseCounts, CurrentInUsePositive
<1>4. CASE Kept = {}
  <2>1. Cardinality(new) = 0
    <3>1. new = {}
      BY <1>4
    <3>2. Cardinality({}) = 0
      BY FS_EmptySet
    <3> HIDE DEF new
    <3> QED
      BY <3>1, <3>2
  <2> HIDE DEF new
  <2>2. Cardinality(new) <= limits.global
    BY <1>1, <2>1
  <2> QED
    BY <2>2 DEF new
<1>5. CASE Kept # {}
  <2>1. CurrentInUse < limits.global
    BY <1>5 DEF GlobalOK, CanAcquireID
  <2>2. new \in SUBSET (HoldersIn(Kept) \union {r})
    BY DEF HoldersIn, PoolTypeOK
  <2>3. /\ IsFiniteSet(HoldersIn(Kept) \union {r})
        /\ Cardinality(HoldersIn(Kept) \union {r}) <= Cardinality(HoldersIn(Kept)) + 1
    <3> DEFINE S == HoldersIn(Kept)
    <3>1. IsFiniteSet(S) /\ Cardinality(S) \in Nat
      BY <1>2
    <3> HIDE DEF S
    <3>2. /\ IsFiniteSet(S \union {r})
          /\ \/ Cardinality(S \union {r}) = Cardinality(S)
             \/ Cardinality(S \union {r}) = Cardinality(S) + 1
      BY <3>1, FS_AddElement
    <3>3. Cardinality(S \union {r}) <= Cardinality(S) + 1
      BY <3>1, <3>2
    <3> QED
      BY <3>2, <3>3 DEF S
  <2>4. Cardinality(new) <= Cardinality(HoldersIn(Kept) \union {r})
    BY <2>2, <2>3, FS_Subset
  <2>5. Cardinality(HoldersIn(Kept) \union {r}) \in Nat
    BY <2>3, FS_CardinalityType
  <2> HIDE DEF new
  <2>6. Cardinality(new) <= limits.global
    BY <1>1, <1>2, <1>3, <2>1, <2>3, <2>4, <2>5
  <2> QED
    BY <2>6 DEF new
<1> QED
  BY <1>4, <1>5

\* Only a grant makes a request a holder.
LEMMA HolderWasGranted ==
  ASSUME PoolTypeOK, [Next]_vars, NEW r \in Request,
         phase[r] # "holding", phase'[r] = "holding"
  PROVE  \E a \in Account : CanAcquireID(a) /\ held' = [held EXCEPT ![r] = a]
<1>1. ASSUME NEW q \in Request, RequestStep(q)
      PROVE  \E a \in Account : CanAcquireID(a) /\ held' = [held EXCEPT ![r] = a]
  <2>1. CASE \E a \in Account : Chosen(q, a) /\ Grant(q, a)
    <3>1. q = r
      BY <2>1 DEF Grant, PoolTypeOK
    <3> QED
      BY <2>1, <3>1 DEF Grant, Chosen, Grantable
  <2>2. CASE ~\E a \in Account : Chosen(q, a) /\ Grant(q, a)
    <3>1. phase'[r] # "holding"
      BY <1>1, <2>2 DEF RequestStep, Call, CheckContext, TakeSlot, Enqueue, Refuse, Wake,
                        GiveUp, TryAcquire, Release, Cancel, PoolTypeOK
    <3> QED
      BY <3>1
  <2> QED
    BY <2>1, <2>2
<1>2. CASE UNCHANGED phase
  BY <1>2
<1>3. ASSUME NEW d \in Admin, AdminStep(d) PROVE UNCHANGED phase
  BY <1>3 DEF AdminStep, StoreAccount, ResetReads, ResetInstalls, StoreSettings,
              SettingsRead, ApplyRuntimeLimits, SyncRateLimits, SyncDailyLimits, requestVars
<1>4. ASSUME NEW a \in Account, ClockStep(a) PROVE UNCHANGED phase
  BY <1>4 DEF ClockStep, RestEnds, WindowEnds, FireTimer, TimerCallback, Look, requestVars
<1>5. Midnight \/ PersistTimers \/ UNCHANGED vars => UNCHANGED phase
  BY DEF Midnight, PersistTimers, vars, requestVars
<1> QED
  BY <1>1, <1>2, <1>3, <1>4, <1>5 DEF Next

\* The global limit in force bounds every grant, for any set of accounts and requests:
\* the requests that hold accounts which stay configured are at most so many, whatever
\* Resets forget and however the limits change under running requests.
THEOREM GlobalLimitHolds == Spec => GlobalLimitKept
<1>1. Init => GlobalOK
  BY PoolAssumption, GlobalInit
<1>2. PoolTypeOK /\ SlotInv /\ GlobalOK /\ [Next]_vars => GlobalOK'
  BY PoolAssumption, GlobalStep
<1>3. PoolTypeOK /\ SlotInv /\ GlobalOK /\ [Next]_vars =>
        [\A r \in Request :
           phase[r] # "holding" /\ phase'[r] = "holding" =>
             Cardinality({q \in Request : held'[q] \in Account \ Removable})
               <= limits.global]_vars
  <2> SUFFICES ASSUME PoolTypeOK, SlotInv, GlobalOK, [Next]_vars, NEW r \in Request,
                      phase[r] # "holding", phase'[r] = "holding"
               PROVE  Cardinality({q \in Request : held'[q] \in Account \ Removable})
                        <= limits.global
    OBVIOUS
  <2>1. PICK a \in Account : CanAcquireID(a) /\ held' = [held EXCEPT ![r] = a]
    BY HolderWasGranted
  <2> QED
    BY <2>1, PoolAssumption, GrantBelowGlobal DEF Kept
<1> QED
  BY <1>1, <1>2, <1>3, SlotsInvariant, PTL DEF Spec, GlobalLimitKept
-----------------------------------------------------------------------------
(* Nobody is left waiting                                                    *)

\* A Reset is under way: it ends by waking everybody.
ResetPending == \E d \in Admin : admin[d].step \in {"stored", "read"}

\* A goroutine in AcquireWait that is not asleep: it has a scan before it.
Awake(r) == phase[r] \in {"waiting", "entered", "checked"} /\ ~InWaiters(r)

\* The limiter's timer will reset the entry of a, and wake everybody.
Recovering(a) == rate[a].unavailable /\ (rate[a].timer \/ callbacks[a] > 0)

\* What a sleeping waiter lives on: a Reset, a slot that will be released, a goroutine
\* that will take one, or wait in its turn, or an account that comes back.
HelpComes ==
  \/ ResetPending
  \/ \E a \in Account : inUse[a] > 0
  \/ \E r \in Request : Awake(r) /\ CanQueueFor(r) # {}
  \/ \E r \in Request : \E a \in CanQueueFor(r) : Recovering(a)

WaitersHope == waiters # <<>> => HelpComes

WaitersCouldBeServed ==
  ResetPending \/ \A r \in Request : InWaiters(r) => CanQueueFor(r) # {}

\* What the theorem assumes of the configuration.
NoRateLimit == \A s \in Settings : s.rateMax = 0
AllAlike == ~Pollers /\ \A r, q \in Request : Wants[r] = Wants[q]
UndisturbedWaits ==
  /\ Cancellable = {}
  /\ \A s \in Settings : s.dailyMax = 0
  /\ NoRateLimit \/ AllAlike

Undisturbed == cancelled = {} /\ dailyMax = 0 /\ (NoRateLimit => rateMax = 0)

LEMMA UndisturbedInit == ASSUME UndisturbedWaits, Init PROVE Undisturbed
BY DEF UndisturbedWaits, Init, Undisturbed, NoRateLimit

LEMMA UndisturbedStep ==
  ASSUME UndisturbedWaits, Undisturbed, [Next]_vars PROVE Undisturbed'
<1>1. ASSUME UNCHANGED <<cancelled, dailyMax, rateMax>> PROVE Undisturbed'
  BY <1>1 DEF Undisturbed
<1>2. ASSUME NEW r \in Request, RequestStep(r) PROVE Undisturbed'
  <2>1. ~Cancel(r)
    BY DEF Cancel, UndisturbedWaits
  <2>2. UNCHANGED <<cancelled, dailyMax, rateMax>>
    BY <1>2, <2>1 DEF RequestStep, Call, CheckContext, TakeSlot, Enqueue, Refuse, Wake,
                      GiveUp, TryAcquire, Release, storeVars
  <2> QED
    BY <1>1, <2>2
<1>3. ASSUME NEW d \in Admin, AdminStep(d) PROVE Undisturbed'
  <2>1. CASE \E s \in Settings : StoreSettings(d, s)
    BY <2>1 DEF StoreSettings, Undisturbed, UndisturbedWaits, NoRateLimit, requestVars
  <2>2. CASE ~\E s \in Settings : StoreSettings(d, s)
    <3>1. UNCHANGED <<cancelled, dailyMax, rateMax>>
      BY <1>3, <2>2 DEF AdminStep, StoreAccount, ResetReads, ResetInstalls, SettingsRead,
                        ApplyRuntimeLimits, SyncRateLimits, SyncDailyLimits, storeVars,
                        requestVars
    <3> QED
      BY <1>1, <3>1
  <2> QED
    BY <2>1, <2>2
<1>4. ASSUME NEW a \in Account, ClockStep(a) PROVE Undisturbed'
  <2>1. UNCHANGED <<cancelled, dailyMax, rateMax>>
    BY <1>4 DEF ClockStep, RestEnds, WindowEnds, FireTimer, TimerCallback, Look,
                WindowElapses, TimerFires, ResetRate, storeVars, requestVars
  <2> QED
    BY <1>1, <2>1
<1>5. CASE Midnight \/ PersistTimers \/ UNCHANGED vars
  <2>1. UNCHANGED <<cancelled, dailyMax, rateMax>>
    BY <1>5 DEF Midnight, NextDay, PersistTimers, IntervalPasses, Flush, vars, storeVars,
                requestVars
  <2> QED
    BY <1>1, <2>1
<1> QED
  BY <1>2, <1>3, <1>4, <1>5 DEF Next

\* bumpQueue moves an account, and loses none.
LEMMA BumpedKeeps ==
  ASSUME queue \in Seq(Account), NEW g \in Account, queue' = Bumped(queue, g),
         NEW a \in Account, Queued(a)
  PROVE  Queued(a)'
<1> DEFINE n == Len(queue)
<1>1. n \in Nat /\ DOMAIN queue = 1 .. n
  OBVIOUS
<1>2. PICK k \in 1 .. n : queue[k] = a
  BY <1>1 DEF Queued
<1>3. queue' = [i \in 1 .. n |->
                  IF \A j \in 1 .. i : queue[j] # g THEN queue[i]
                  ELSE IF i < n THEN queue[i + 1] ELSE g]
  BY <1>1 DEF Bumped
<1> HIDE DEF n
<1>4. DOMAIN queue' = 1 .. n
  BY <1>3
<1>5. CASE \A j \in 1 .. k : queue[j] # g
  BY <1>2, <1>3, <1>4, <1>5 DEF Queued
<1>6. CASE a = g
  <2>1. n \in 1 .. n /\ ~(n < n) /\ k \in 1 .. n /\ queue[k] = g
    BY <1>1, <1>2, <1>6
  <2>2. queue'[n] = g
    BY <1>3, <2>1
  <2> QED
    BY <1>4, <1>6, <2>1, <2>2 DEF Queued
<1>7. CASE a # g /\ ~\A j \in 1 .. k : queue[j] # g
  <2>1. PICK j \in 1 .. k : queue[j] = g
    BY <1>7
  <2>2. j # k /\ k - 1 \in 1 .. n /\ j \in 1 .. k - 1 /\ k - 1 < n /\ (k - 1) + 1 = k
    BY <1>1, <1>2, <1>7, <2>1
  <2>3. queue'[k - 1] = queue[k]
    BY <1>3, <2>1, <2>2
  <2> QED
    BY <1>2, <1>4, <2>2, <2>3 DEF Queued
<1> QED
  BY <1>5, <1>6, <1>7

\* As long as no account leaves the queue or the schedule, nobody can queue for less.
LEMMA CanQueueForGrows ==
  ASSUME dailyMax = 0, dailyMax' = 0, NEW r \in Request,
         \A a \in Account : Queued(a) => Queued(a)',
         \A a \in Account : store[a] = "schedulable" => store'[a] = "schedulable"
  PROVE  CanQueueFor(r) \subseteq CanQueueFor(r)'
<1>1. \A a \in Account : ~DailyLimited(a)'
  <2>1. ~(0 > 0)
    OBVIOUS
  <2> QED
    BY <2>1 DEF DailyLimited
<1> QED
  BY <1>1 DEF CanQueueFor, Wanted

\* A step that takes nothing away from those who wait.
LEMMA HelpStays ==
  ASSUME WaitersHope, waiters' # <<>> => waiters # <<>>,
         ResetPending => ResetPending',
         \A a \in Account : inUse[a] > 0 => inUse'[a] > 0,
         \A r \in Request : CanQueueFor(r) \subseteq CanQueueFor(r)',
         \A r \in Request : Awake(r) => Awake(r)',
         \A a \in Account : Recovering(a) => Recovering(a)'
  PROVE  WaitersHope'
<1>1. CASE \E a \in Account : inUse[a] > 0
  BY <1>1 DEF WaitersHope, HelpComes
<1>2. CASE \E r \in Request : Awake(r) /\ CanQueueFor(r) # {}
  <2>1. PICK r \in Request : Awake(r) /\ CanQueueFor(r) # {}
    BY <1>2
  <2>2. Awake(r)' /\ CanQueueFor(r)' # {}
    BY <2>1
  <2> QED
    BY <2>2 DEF WaitersHope, HelpComes
<1>3. CASE \E r \in Request : \E a \in CanQueueFor(r) : Recovering(a)
  <2>1. PICK r \in Request : \E a \in CanQueueFor(r) : Recovering(a)
    BY <1>3
  <2>2. PICK a \in CanQueueFor(r) : Recovering(a)
    BY <2>1
  <2>3. a \in CanQueueFor(r)' /\ Recovering(a)'
    BY <2>2 DEF CanQueueFor
  <2> QED
    BY <2>3 DEF WaitersHope, HelpComes
<1>4. CASE ResetPending
  BY <1>4 DEF WaitersHope, HelpComes
<1> QED
  BY <1>1, <1>2, <1>3, <1>4 DEF WaitersHope, HelpComes
\* A waiter that a release wakes has not lost its account in the meantime.
LEMMA WokenWaiterHopes ==
  ASSUME PoolTypeOK, WaitersAreAsleep, WaitersCouldBeServed, NotifyWaiter, waiters' # <<>>,
         ResetPending => ResetPending',
         \A r \in Request : CanQueueFor(r) \subseteq CanQueueFor(r)',
         \A r \in Request : phase[r] = "waiting" => phase'[r] = "waiting"
  PROVE  HelpComes'
<1>1. waiters \in Seq(Request) /\ waiters # <<>> /\ Distinct(waiters)
  BY AsleepIs DEF PoolTypeOK, NotifyWaiter
<1>2. waiters' = Tail(waiters)
  BY <1>1 DEF NotifyWaiter
<1>3. PICK w \in Request : w = waiters[1]
  BY <1>1
<1>4. InWaiters(w) /\ phase[w] = "waiting"
  <2>1. 1 \in DOMAIN waiters
    BY <1>1
  <2> QED
    BY <1>3, <2>1 DEF InWaiters, WaitersAreAsleep
<1>5. ~InWaiters(w)'
  <2>1. ~InSeq(Tail(waiters), w)
    BY <1>1, <1>3, TailOfWaiters
  <2> QED
    BY <1>2, <2>1 DEF InWaiters, InSeq
<1>6. CASE ResetPending
  BY <1>6 DEF HelpComes
<1>7. CASE ~ResetPending
  <2>1. CanQueueFor(w)' # {}
    BY <1>3, <1>4, <1>7 DEF WaitersCouldBeServed
  <2>2. Awake(w)'
    BY <1>3, <1>4, <1>5 DEF Awake
  <2> QED
    BY <1>3, <2>1, <2>2 DEF HelpComes
<1> QED
  BY <1>6, <1>7

\* A scan that fails for a request with an account to wait for has met a slot in use or
\* a limited account, whose window is running and stays as it is.
LEMMA FailedScan ==
  ASSUME PoolAssumption, PoolTypeOK, RatesOK, Undisturbed,
         NEW r \in Request, ~CanServe(r), CanQueueFor(r) # {}
  PROVE  \/ \E a \in Account : inUse[a] > 0
         \/ \E a \in CanQueueFor(r) : Recovering(a) /\ RateChecked(a) = rate[a]
<1>1. PICK a \in Account : a \in CanQueueFor(r)
  BY DEF CanQueueFor
<1>2. a \in Reachable(r) /\ Wanted(r, a) /\ ~DailyLimited(a)
  BY <1>1 DEF CanQueueFor, Reachable
<1>3. ~CanAcquireID(a)
  BY <1>2, ServedIfGrantable DEF Grantable
<1>4. /\ inUse \in [Account -> Nat] /\ limits.maxPer \in Nat /\ limits.maxPer > 0
      /\ limits.global \in Nat /\ IsFiniteSet(Account)
  BY DEF PoolTypeOK, Limits, PoolAssumption
<1>5. CASE RateLimited(a)
  <2>1. rate[a].unavailable /\ rate[a].window # "over"
    BY <1>5 DEF RateLimited
  <2>2. rate[a].timer
    BY <2>1 DEF RatesOK, EntryOK
  <2>3. RateChecked(a) = rate[a]
    BY <2>1 DEF RateChecked
  <2> QED
    BY <1>1, <2>1, <2>2, <2>3 DEF Recovering
<1>6. CASE ~(inUse[a] < limits.maxPer)
  <2>1. inUse[a] > 0
    BY <1>4, <1>6
  <2> QED
    BY <2>1
<1>7. CASE limits.global > 0 /\ ~(CurrentInUse < limits.global)
  <2>1. CurrentInUse \in Nat
    BY <1>4, CurrentInUsePositive
  <2>2. CurrentInUse > 0
    BY <1>4, <1>7, <2>1
  <2> QED
    BY <1>4, <2>2, CurrentInUsePositive
<1> QED
  BY <1>2, <1>3, <1>5, <1>6, <1>7 DEF CanAcquireID

\* What a request leaves alone: the queue keeps its accounts, and a Reset its way.
LEMMA RequestTakesNoAccount ==
  ASSUME PoolTypeOK, Undisturbed, Undisturbed', NEW q \in Request, RequestStep(q)
  PROVE  /\ ResetPending => ResetPending'
         /\ \A r \in Request : CanQueueFor(r) \subseteq CanQueueFor(r)'
<1>1. UNCHANGED <<admin, store>>
  BY DEF RequestStep, Call, CheckContext, TakeSlot, Enqueue, Refuse, Wake, GiveUp,
         TryAcquire, Release, Cancel, storeVars
<1>2. UNCHANGED queue \/ \E g \in Account : queue' = Bumped(queue, g)
  <2>1. CASE Call(q) \/ CheckContext(q) \/ Enqueue(q) \/ Refuse(q) \/ Wake(q)
             \/ GiveUp(q) \/ Release(q) \/ Cancel(q)
    BY <2>1 DEF Call, CheckContext, Enqueue, Refuse, Wake, GiveUp, Release, Cancel, poolVars
  <2>2. CASE TakeSlot(q) \/ TryAcquire(q)
    BY <2>2 DEF TakeSlot, TryAcquire, Grant, poolVars
  <2> QED
    BY <2>1, <2>2 DEF RequestStep
<1>3. \A a \in Account : Queued(a) => Queued(a)'
  BY <1>2, BumpedKeeps DEF PoolTypeOK, Queued
<1>4. dailyMax = 0 /\ dailyMax' = 0
  BY DEF Undisturbed
<1>5. ResetPending => ResetPending'
  BY <1>1 DEF ResetPending
<1>6. \A r \in Request : CanQueueFor(r) \subseteq CanQueueFor(r)'
  BY <1>1, <1>3, <1>4, CanQueueForGrows
<1> QED
  BY <1>5, <1>6
\* What is preserved together.
WaitInv ==
  /\ PoolTypeOK /\ RatesOK /\ SlotInv /\ WaitersAreAsleep
  /\ Undisturbed /\ WaitersHope /\ WaitersCouldBeServed

\* A scan that fails leaves those who wait their hope, and finds one for a new waiter.
LEMMA HopeAfterScan ==
  ASSUME PoolAssumption, UndisturbedWaits, WaitInv, NEW q \in Request, NEW S,
         ~CanServe(q), CheckRates(S), UNCHANGED <<inUse, callbacks>>,
         CanQueueFor(q) = {} =>
           UNCHANGED waiters /\ \A r \in Request : r # q /\ Awake(r) => Awake(r)',
         ResetPending => ResetPending',
         \A r \in Request : CanQueueFor(r) \subseteq CanQueueFor(r)'
  PROVE  WaitersHope'
<1>1. \A a \in Account : RateChecked(a) = rate[a] /\ Recovering(a) => Recovering(a)'
  BY DEF CheckRates, Recovering
<1>2. CASE CanQueueFor(q) # {}
  <2>1. CASE \E a \in Account : inUse[a] > 0
    BY <2>1 DEF WaitersHope, HelpComes
  <2>2. CASE \E a \in CanQueueFor(q) : Recovering(a) /\ RateChecked(a) = rate[a]
    <3>1. PICK a \in CanQueueFor(q) : Recovering(a) /\ RateChecked(a) = rate[a]
      BY <2>2
    <3>2. a \in CanQueueFor(q)' /\ Recovering(a)'
      BY <1>1, <3>1 DEF CanQueueFor
    <3> QED
      BY <3>2 DEF WaitersHope, HelpComes
  <2> QED
    BY <1>2, <2>1, <2>2, FailedScan DEF WaitInv
<1>3. CASE CanQueueFor(q) = {} /\ NoRateLimit
  <2>1. rateMax = 0 /\ ~(0 > 0) /\ rate \in [Account -> Entries]
    BY <1>3 DEF WaitInv, Undisturbed, PoolTypeOK, RateTypeOK
  <2>2. \A a \in Account : RateChecked(a) = rate[a]
    BY <2>1 DEF RateChecked
  <2>3. CASE \E r \in Request : Awake(r) /\ CanQueueFor(r) # {}
    <3>1. PICK r \in Request : Awake(r) /\ CanQueueFor(r) # {}
      BY <2>3
    <3>2. Awake(r)' /\ CanQueueFor(r)' # {}
      BY <1>3, <3>1
    <3> QED
      BY <3>2 DEF WaitersHope, HelpComes
  <2>4. CASE \E r \in Request : \E a \in CanQueueFor(r) : Recovering(a)
    <3>1. PICK r \in Request : \E a \in CanQueueFor(r) : Recovering(a)
      BY <2>4
    <3>2. PICK a \in CanQueueFor(r) : Recovering(a)
      BY <3>1
    <3>3. a \in CanQueueFor(r)' /\ Recovering(a)'
      BY <1>1, <2>2, <3>2 DEF CanQueueFor
    <3> QED
      BY <3>3 DEF WaitersHope, HelpComes
  <2>5. CASE ResetPending \/ (\E a \in Account : inUse[a] > 0) \/ waiters = <<>>
    BY <1>3, <2>5 DEF WaitersHope, HelpComes
  <2> QED
    BY <2>3, <2>4, <2>5 DEF WaitInv, WaitersHope, HelpComes
<1>4. CASE CanQueueFor(q) = {} /\ AllAlike
  <2>1. \A r \in Request : CanQueueFor(r) = {}
    BY <1>4 DEF AllAlike, CanQueueFor, Wanted
  <2>2. ResetPending \/ (\E a \in Account : inUse[a] > 0) \/ waiters = <<>>
    BY <2>1 DEF WaitInv, WaitersHope, HelpComes
  <2> QED
    BY <1>4, <2>2 DEF WaitersHope, HelpComes
<1> QED
  BY <1>2, <1>3, <1>4 DEF UndisturbedWaits

LEMMA HopeAfterRequest ==
  ASSUME PoolAssumption, UndisturbedWaits, WaitInv, Undisturbed',
         NEW q \in Request, RequestStep(q)
  PROVE  WaitersHope'
<1>1. PoolTypeOK /\ Undisturbed /\ WaitersHope /\ WaitersCouldBeServed /\ WaitersAreAsleep
  BY DEF WaitInv
<1>2. /\ ResetPending => ResetPending'
      /\ \A r \in Request : CanQueueFor(r) \subseteq CanQueueFor(r)'
  BY <1>1, RequestTakesNoAccount
<1>3. /\ phase \in [Request -> Phases] /\ inUse \in [Account -> Nat]
      /\ held \in [Request -> Account \union {None}] /\ waiters \in Seq(Request)
  BY <1>1 DEF PoolTypeOK
<1>4. CASE Call(q) \/ CheckContext(q) \/ Wake(q) \/ (Release(q) /\ inUse[held[q]] = 0)
  <2>1. /\ UNCHANGED <<waiters, inUse, rate, callbacks>>
    BY <1>4 DEF Call, CheckContext, Wake, Release, ReleaseSlot, poolVars, rateVars
  <2>2. \A r \in Request : Awake(r) => Awake(r)'
    <3>1. q \notin cancelled
      BY <1>1 DEF Undisturbed
    <3> QED
      BY <1>3, <1>4, <2>1, <3>1 DEF Call, CheckContext, Wake, Release, Awake, InWaiters
  <2>3. \A a \in Account : Recovering(a) => Recovering(a)'
    BY <2>1 DEF Recovering
  <2> QED
    BY <1>1, <1>2, <2>1, <2>2, <2>3, HelpStays
<1>5. CASE \E a \in Account : Grant(q, a)
  <2>1. PICK a \in Account : inUse' = [inUse EXCEPT ![a] = @ + 1]
    BY <1>5 DEF Grant
  <2>2. inUse[a] \in Nat /\ inUse'[a] = inUse[a] + 1
    BY <1>3, <2>1
  <2>3. inUse'[a] > 0
    BY <2>2
  <2> QED
    BY <2>3 DEF WaitersHope, HelpComes
<1>6. CASE Enqueue(q) \/ Refuse(q) \/ (TryAcquire(q) /\ ~\E a \in Account : Grant(q, a))
  <2>1. ~CanServe(q) /\ CheckRates(Scanned(q)) /\ UNCHANGED <<inUse, callbacks>>
    BY <1>6 DEF Enqueue, Refuse, TryAcquire, poolVars
  <2>2. CanQueueFor(q) = {} =>
          UNCHANGED waiters /\ \A r \in Request : r # q /\ Awake(r) => Awake(r)'
    <3>1. CanQueueFor(q) = {} => ~Enqueue(q)
      BY DEF Enqueue, CanQueue
    <3>2. Refuse(q) \/ (TryAcquire(q) /\ ~\E a \in Account : Grant(q, a)) =>
            UNCHANGED waiters /\ phase' = [phase EXCEPT ![q] = "failed"]
      BY DEF Refuse, TryAcquire, poolVars
    <3>3. phase' = [phase EXCEPT ![q] = "failed"] =>
            \A r \in Request : r # q => phase'[r] = phase[r]
      BY <1>3
    <3> QED
      BY <1>6, <3>1, <3>2, <3>3 DEF Awake, InWaiters
  <2> QED
    BY <1>2, <2>1, <2>2, HopeAfterScan
<1>7. CASE Release(q) /\ inUse[held[q]] # 0
  <2>1. NotifyWaiter /\ phase[q] = "holding" /\ phase' = [phase EXCEPT ![q] = "done"]
    BY <1>7 DEF Release, ReleaseSlot
  <2>2. \A r \in Request : phase[r] = "waiting" => phase'[r] = "waiting"
    BY <1>3, <2>1
  <2> QED
    BY <1>1, <1>2, <2>1, <2>2, WokenWaiterHopes DEF WaitersHope
<1>8. ~GiveUp(q) /\ ~Cancel(q)
  BY <1>1 DEF GiveUp, Cancel, Undisturbed, UndisturbedWaits
<1>9. TakeSlot(q) => \E a \in Account : Grant(q, a)
  BY DEF TakeSlot
<1> QED
  BY <1>4, <1>5, <1>6, <1>7, <1>8, <1>9 DEF RequestStep
\* The administrators' handlers: what they take away, a Reset will give back.
LEMMA HopeAfterHandler ==
  ASSUME PoolAssumption, UndisturbedWaits, WaitInv, Undisturbed',
         NEW d \in Admin, AdminStep(d)
  PROVE  WaitersHope' /\ WaitersCouldBeServed'
<1>1. PoolTypeOK /\ Undisturbed /\ WaitersHope /\ WaitersCouldBeServed /\ WaitersAreAsleep
  BY DEF WaitInv
<1>2. /\ admin \in [Admin -> Handlers] /\ rate \in [Account -> Entries]
      /\ waiters \in Seq(Request) /\ dailyMax = 0 /\ dailyMax' = 0
  BY <1>1 DEF PoolTypeOK, RateTypeOK, Undisturbed
<1>3. CASE (\E a \in Account, s \in StoreStates : StoreAccount(d, a, s)) \/ ResetReads(d)
  <2>1. admin'[d].step \in {"stored", "read"}
    BY <1>2, <1>3 DEF StoreAccount, ResetReads
  <2> QED
    BY <2>1 DEF ResetPending, WaitersHope, HelpComes, WaitersCouldBeServed
<1>4. CASE ResetInstalls(d)
  <2>1. waiters' = <<>>
    BY <1>4 DEF ResetInstalls, DrainWaiters
  <2> QED
    BY <2>1 DEF WaitersHope, WaitersCouldBeServed, InWaiters
<1>5. CASE \/ (\E s \in Settings : StoreSettings(d, s)) \/ SettingsRead(d)
           \/ ApplyRuntimeLimits(d) \/ SyncRateLimits(d) \/ SyncDailyLimits(d)
  <2>1. UNCHANGED <<store, queue, inUse, phase, callbacks>>
    BY <1>5 DEF StoreSettings, SettingsRead, ApplyRuntimeLimits, SyncRateLimits,
                SyncDailyLimits, poolVars, requestVars, rateVars, storeVars
  <2>2. ResetPending => ResetPending'
    <3>1. admin[d].step \notin {"stored", "read"}
      BY <1>5 DEF StoreSettings, SettingsRead, ApplyRuntimeLimits, SyncRateLimits,
                  SyncDailyLimits
    <3>2. \A c \in Admin : c # d => admin'[c] = admin[c]
      BY <1>2, <1>5 DEF StoreSettings, SettingsRead, ApplyRuntimeLimits, SyncRateLimits,
                        SyncDailyLimits
    <3> QED
      BY <3>1, <3>2 DEF ResetPending
  <2>3. \A r \in Request : CanQueueFor(r) \subseteq CanQueueFor(r)'
    BY <1>2, <2>1, CanQueueForGrows DEF Queued
  <2>4. CASE ApplyRuntimeLimits(d)
    <3>1. NotifyWaiter
      BY <2>4 DEF ApplyRuntimeLimits
    <3>2. \A r \in Request : InWaiters(r)' => InWaiters(r)
      BY <1>2, <3>1, <1>1, AsleepIs, ShrunkWaiters DEF InWaiters, InSeq
    <3>3. WaitersHope'
      BY <1>1, <2>1, <2>2, <2>3, <3>1, WokenWaiterHopes DEF WaitersHope
    <3> QED
      BY <1>1, <2>2, <2>3, <3>2, <3>3 DEF WaitersCouldBeServed
  <2>5. CASE ~ApplyRuntimeLimits(d) /\ waiters' # <<>>
    <3>1. UNCHANGED waiters
      BY <1>5, <2>5 DEF StoreSettings, SettingsRead, SyncRateLimits, SyncDailyLimits,
                        poolVars, DrainWaiters
    <3>2. \A a \in Account : Recovering(a) => Recovering(a)'
      <4>1. CASE SyncRateLimits(d)
        <5>1. ~SyncRatesRecovers
          BY <2>5, <4>1 DEF SyncRateLimits, DrainWaiters
        <5>2. ASSUME NEW a \in Account, Recovering(a) PROVE Recovering(a)'
          <6>1. rate'[a] = SyncedEntry(rate[a], rateMax) /\ rate'[a].unavailable
            BY <4>1, <5>1, <5>2 DEF SyncRateLimits, SyncRates, SyncRatesRecovers, Recovering
          <6>2. ~ClearedEntry.unavailable
            BY DEF ClearedEntry, NoEntry
          <6>3. rate'[a].timer = rate[a].timer
            BY <1>2, <6>1, <6>2 DEF SyncedEntry, Entries
          <6> QED
            BY <2>1, <5>2, <6>1, <6>3 DEF Recovering
        <5> QED
          BY <5>2
      <4>2. CASE ~SyncRateLimits(d)
        <5>1. UNCHANGED rate
          BY <1>5, <2>5, <4>2 DEF StoreSettings, SettingsRead, SyncDailyLimits, rateVars
        <5> QED
          BY <2>1, <5>1 DEF Recovering
      <4> QED
        BY <4>1, <4>2
    <3>3. \A r \in Request : (Awake(r) => Awake(r)') /\ (InWaiters(r)' => InWaiters(r))
      BY <2>1, <3>1 DEF Awake, InWaiters
    <3>4. WaitersHope'
      BY <1>1, <2>1, <2>2, <2>3, <3>1, <3>2, <3>3, HelpStays
    <3> QED
      BY <1>1, <2>2, <2>3, <3>3, <3>4 DEF WaitersCouldBeServed
  <2>6. CASE waiters' = <<>>
    BY <2>6 DEF WaitersHope, WaitersCouldBeServed, InWaiters
  <2> QED
    BY <2>4, <2>5, <2>6
<1> QED
  BY <1>3, <1>4, <1>5 DEF AdminStep

\* The clock: a timer that is spent leaves its callback, and the callback wakes everybody.
LEMMA HopeAfterClock ==
  ASSUME PoolAssumption, UndisturbedWaits, WaitInv, Undisturbed',
         NEW b \in Account, ClockStep(b)
  PROVE  WaitersHope' /\ WaitersCouldBeServed'
<1>1. PoolTypeOK /\ RatesOK /\ Undisturbed /\ WaitersHope /\ WaitersCouldBeServed
  BY DEF WaitInv
<1>2. /\ rate \in [Account -> Entries] /\ callbacks \in [Account -> Nat]
      /\ dailyMax = 0 /\ dailyMax' = 0 /\ store \in [Account -> StoreStates]
  BY <1>1 DEF PoolTypeOK, RateTypeOK, Undisturbed
<1>3. UNCHANGED <<queue, inUse, phase, admin>>
  BY DEF ClockStep, RestEnds, WindowEnds, FireTimer, TimerCallback, Look, poolVars,
         requestVars
<1>4. \A a \in Account : store[a] = "schedulable" => store'[a] = "schedulable"
  BY <1>2 DEF ClockStep, RestEnds, WindowEnds, FireTimer, TimerCallback, Look, storeVars
<1>5. \A r \in Request : CanQueueFor(r) \subseteq CanQueueFor(r)'
  BY <1>2, <1>3, <1>4, CanQueueForGrows DEF Queued
<1>6. ResetPending => ResetPending'
  BY <1>3 DEF ResetPending
<1>7. CASE waiters' = <<>>
  BY <1>7 DEF WaitersHope, WaitersCouldBeServed, InWaiters
<1>8. CASE waiters' # <<>>
  <2>1. UNCHANGED waiters
    BY <1>8 DEF ClockStep, RestEnds, WindowEnds, FireTimer, TimerCallback, Look, poolVars,
                DrainWaiters
  <2>2. \A a \in Account : Recovering(a) => Recovering(a)'
    <3>1. CASE RestEnds(b)
      BY <3>1 DEF RestEnds, rateVars, Recovering
    <3>2. CASE WindowEnds(b)
      <4>1. /\ UNCHANGED callbacks
            /\ \A a \in Account : /\ rate'[a].unavailable = rate[a].unavailable
                                  /\ rate'[a].timer = rate[a].timer
        BY <1>2, <3>2 DEF WindowEnds, WindowElapses, Entries
      <4> QED
        BY <4>1 DEF Recovering
    <3>3. CASE FireTimer(b)
      <4>1. /\ rate' = [rate EXCEPT ![b].timer = FALSE]
            /\ callbacks' = [callbacks EXCEPT ![b] = @ + 1]
        BY <3>3 DEF FireTimer, TimerFires
      <4>2. \A a \in Account : rate'[a].unavailable = rate[a].unavailable
        BY <1>2, <4>1 DEF Entries
      <4>3. callbacks'[b] > 0
        <5>1. callbacks[b] \in Nat /\ callbacks'[b] = callbacks[b] + 1
          BY <1>2, <4>1
        <5> QED
          BY <5>1
      <4>4. \A a \in Account : a # b => rate'[a] = rate[a] /\ callbacks'[a] = callbacks[a]
        BY <1>2, <4>1
      <4> QED
        BY <4>2, <4>3, <4>4 DEF Recovering
    <3>4. CASE TimerCallback(b)
      <4>1. rate[b].window = "absent"
        BY <1>8, <3>4 DEF TimerCallback, RateResetDrains, DrainWaiters
      <4>2. ~Recovering(b)
        BY <1>1, <4>1 DEF RatesOK, EntryOK, Recovering
      <4>3. \A a \in Account : a # b => rate'[a] = rate[a] /\ callbacks'[a] = callbacks[a]
        BY <1>2, <3>4 DEF TimerCallback, ResetRate
      <4> QED
        BY <4>2, <4>3 DEF Recovering
    <3>5. CASE Look(b)
      <4>1. CheckRates({b}) /\ UNCHANGED callbacks /\ Pollers
        BY <3>5 DEF Look
      <4>2. rateMax = 0 /\ ~(0 > 0)
        BY <1>1, <4>1 DEF UndisturbedWaits, AllAlike, Undisturbed
      <4>3. \A a \in Account : rate'[a] = rate[a]
        BY <4>1, <4>2 DEF CheckRates, RateChecked
      <4> QED
        BY <4>1, <4>3 DEF Recovering
    <3> QED
      BY <3>1, <3>2, <3>3, <3>4, <3>5 DEF ClockStep
  <2>3. \A r \in Request : (Awake(r) => Awake(r)') /\ (InWaiters(r)' => InWaiters(r))
    BY <1>3, <2>1 DEF Awake, InWaiters
  <2>4. WaitersHope'
    BY <1>1, <1>3, <1>5, <1>6, <2>1, <2>2, <2>3, HelpStays
  <2> QED
    BY <1>1, <1>5, <1>6, <2>3, <2>4 DEF WaitersCouldBeServed
<1> QED
  BY <1>7, <1>8

\* Whoever joins the queue has an account to wait for, and the others keep theirs.
LEMMA RequestsCouldBeServed ==
  ASSUME PoolAssumption, WaitInv, Undisturbed', NEW q \in Request, RequestStep(q)
  PROVE  WaitersCouldBeServed'
<1>1. PoolTypeOK /\ Undisturbed /\ WaitersCouldBeServed /\ WaitersAreAsleep
  BY DEF WaitInv
<1>2. /\ ResetPending => ResetPending'
      /\ \A r \in Request : CanQueueFor(r) \subseteq CanQueueFor(r)'
  BY <1>1, RequestTakesNoAccount
<1>3. waiters \in Seq(Request) /\ Distinct(waiters)
      /\ \A x : InSeq(waiters, x) => phase[x] = "waiting"
  BY <1>1, AsleepIs DEF PoolTypeOK
<1>4. CASE Enqueue(q)
  <2>1. waiters' = Append(waiters, q) /\ CanQueueFor(q) # {} /\ ~InSeq(waiters, q)
    BY <1>3, <1>4 DEF Enqueue, CanQueue
  <2>2. \A r \in Request : InWaiters(r)' => InWaiters(r) \/ r = q
    BY <1>3, <2>1, AppendedWaiter DEF InWaiters, InSeq
  <2> QED
    BY <1>1, <1>2, <2>1, <2>2 DEF WaitersCouldBeServed
<1>5. CASE ~Enqueue(q)
  <2>1. UNCHANGED waiters \/ NotifyWaiter \/ RemoveWaiter(q)
    BY <1>5 DEF RequestStep, Call, CheckContext, TakeSlot, Grant, Refuse, Wake, GiveUp,
                TryAcquire, Release, ReleaseSlot, Cancel, poolVars
  <2>2. \A r \in Request : InWaiters(r)' => InWaiters(r)
    BY <1>3, <2>1, ShrunkWaiters, RemovedWaiter DEF InWaiters, InSeq
  <2> QED
    BY <1>1, <1>2, <2>2 DEF WaitersCouldBeServed
<1> QED
  BY <1>4, <1>5

LEMMA WaitStep ==
  ASSUME PoolAssumption, UndisturbedWaits, WaitInv, [Next]_vars
  PROVE  WaitersHope' /\ WaitersCouldBeServed'
<1>1. Undisturbed'
  BY UndisturbedStep DEF WaitInv
<1>2. ASSUME NEW q \in Request, RequestStep(q) PROVE WaitersHope' /\ WaitersCouldBeServed'
  BY <1>1, <1>2, HopeAfterRequest, RequestsCouldBeServed
<1>3. ASSUME NEW d \in Admin, AdminStep(d) PROVE WaitersHope' /\ WaitersCouldBeServed'
  BY <1>1, <1>3, HopeAfterHandler
<1>4. ASSUME NEW a \in Account, ClockStep(a) PROVE WaitersHope' /\ WaitersCouldBeServed'
  BY <1>1, <1>4, HopeAfterClock
<1>5. CASE Midnight \/ PersistTimers \/ UNCHANGED vars
  <2>1. ~Midnight
    <3>1. ~(0 > 0)
      OBVIOUS
    <3> QED
      BY <3>1 DEF Midnight, WaitInv, Undisturbed
  <2>2. UNCHANGED <<poolVars, requestVars, store, admin, rateVars>>
    BY <1>5, <2>1 DEF PersistTimers, vars, storeVars
  <2>3. dailyMax = 0 /\ dailyMax' = 0
    BY <1>1 DEF WaitInv, Undisturbed
  <2>4. \A r \in Request : CanQueueFor(r) \subseteq CanQueueFor(r)'
    BY <2>2, <2>3, CanQueueForGrows DEF Queued, poolVars
  <2>5. /\ ResetPending => ResetPending'
        /\ \A r \in Request : (Awake(r) => Awake(r)') /\ (InWaiters(r)' => InWaiters(r))
        /\ \A a \in Account : Recovering(a) => Recovering(a)'
    BY <2>2 DEF ResetPending, Awake, InWaiters, Recovering, poolVars, requestVars, rateVars
  <2>6. WaitersHope'
    BY <2>2, <2>4, <2>5, HelpStays DEF poolVars, WaitInv
  <2> QED
    BY <2>4, <2>5, <2>6 DEF WaitInv, WaitersCouldBeServed
<1> QED
  BY <1>2, <1>3, <1>4, <1>5 DEF Next

\* In a quiet pool nothing is left to hope for, so that nobody waits.
LEMMA QuietHasNoWaiter ==
  ASSUME PoolAssumption, PoolTypeOK, SlotInv, WaitersHope, Quiet
  PROVE  \A r \in Request : phase[r] # "waiting"
<1>1. \A a \in Account : ~(inUse[a] > 0)
  <2>1. ASSUME NEW a \in Account PROVE ~(inUse[a] > 0)
    <3>1. Cardinality(Holders(a)) = 0
      <4>1. Holders(a) = {}
        BY DEF Quiet, Holding, Holders, PoolAssumption
      <4>2. Cardinality({}) = 0
        BY FS_EmptySet
      <4> QED
        BY <4>1, <4>2
    <3>2. inUse[a] \in Nat /\ inUse[a] <= Cardinality(Holders(a))
      BY DEF PoolTypeOK, SlotInv, NoLeakedSlot
    <3> QED
      BY <3>1, <3>2
  <2> QED
    BY <2>1
<1>2. ~ResetPending
  BY DEF Quiet, ResetPending, Idle
<1>3. \A r \in Request : ~Awake(r)
  BY DEF Quiet, Awake
<1>4. \A a \in Account : ~Recovering(a)
  <2>1. ~(0 > 0)
    OBVIOUS
  <2> QED
    BY <2>1 DEF Quiet, Recovering
<1>5. waiters = <<>>
  <2>1. ~\E r \in Request : \E a \in CanQueueFor(r) : Recovering(a)
    BY <1>4 DEF CanQueueFor
  <2> QED
    BY <1>1, <1>2, <1>3, <2>1 DEF WaitersHope, HelpComes
<1>6. \A r \in Request : ~InWaiters(r)
  BY <1>5 DEF InWaiters
<1> QED
  BY <1>6 DEF Quiet

\* No wake-up is lost: with no quota for the day and contexts that live on, a waiter
\* always has something to come, so that a pool in which nothing goes on has no waiter,
\* whatever releases, Resets, timers and changes of limits went on at once, provided
\* that nothing but the waiters themselves ends a limiter's window: either there is no
\* limit per minute, or all requests may use the same accounts and nobody polls.
THEOREM NoWaiterStranded ==
  ASSUME UndisturbedWaits
  PROVE  Spec => []NoStrandedWaiter
<1>1. Init => Undisturbed /\ WaitersHope /\ WaitersCouldBeServed
  BY UndisturbedInit DEF Init, WaitersHope, WaitersCouldBeServed, InWaiters
<1>2. PoolTypeOK /\ SlotInv /\ RatesOK /\ WaitersAreAsleep
      /\ Undisturbed /\ WaitersHope /\ WaitersCouldBeServed /\ [Next]_vars
        => Undisturbed' /\ WaitersHope' /\ WaitersCouldBeServed'
  BY PoolAssumption, UndisturbedStep, WaitStep DEF WaitInv
<1>3. PoolTypeOK /\ SlotInv /\ WaitersHope => NoStrandedWaiter
  BY PoolAssumption, QuietHasNoWaiter DEF NoStrandedWaiter
<1>4. Init => RatesOK
  <2>1. EntryOK(NoEntry)
    BY DEF EntryOK, NoEntry
  <2>2. Init => \A a \in Account : rate[a] = NoEntry
    BY DEF Init, RateInit
  <2> QED
    BY <2>1, <2>2 DEF RatesOK
<1>5. PoolTypeOK /\ RatesOK /\ [Next]_vars => RatesOK'
  BY RatesStep
<1> QED
  BY <1>1, <1>2, <1>3, <1>4, <1>5, SlotsInvariant, QueuedWaitersSleep, PTL DEF Spec
=============================================================================
