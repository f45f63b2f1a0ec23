-------------------------- MODULE DailyQuota_proofs --------------------------
(***************************************************************************)
(* What holds of the daily quota for every set of accounts, every sequence *)
(* of limits and every pattern of failing writes and crashes: nobody is    *)
(* overcharged, who is exhausted stays so through crashes, and who stays   *)
(* in the queue is never granted more than the limit.                      *)
(***************************************************************************)
EXTENDS DailyQuota, TLAPS

\* No date is in the future.
DatesPassed == today >= 1 /\ dailyDate <= today /\ disk.date <= today

\* Who used the quota up is so charged in memory and, on a day on which the file can be
\* written, in the file.
ExhaustedCharged ==
  /\ exhausted # {} => dailyMax > 0
  /\ DiskWorks =>
       \A a \in exhausted \ Removable :
         /\ disk.date = today /\ disk.counts[a] >= dailyMax
         /\ up => dailyDate = today /\ dailyCounts[a] >= dailyMax

\* As long as nothing crashed, a limit that was in force all day has counted all.
AllCounted ==
  /\ crashes = 0 => up
  /\ metered => dailyMax > 0
  /\ crashes = 0 /\ metered =>
       \A a \in Account \ Removable : TodaysCounts[a] = servedToday[a]

QuotaInv ==
  TypeOK /\ DatesPassed /\ NeverOvercharged /\ ExhaustedCharged /\ AllCounted

-----------------------------------------------------------------------------
LEMMA NoCountsType == NoCounts \in [Account -> Nat] /\ \A a \in Account : NoCounts[a] = 0
BY DEF NoCounts

\* Today's counts are never more than what was served, and are those of memory on a day
\* that memory knows.
LEMMA TodaysCountsBounded ==
  ASSUME TypeOK, NeverOvercharged
  PROVE  /\ TodaysCounts \in [Account -> Nat]
         /\ \A a \in Account : TodaysCounts[a] <= servedToday[a]
         /\ dailyDate = today => TodaysCounts = dailyCounts
<1>1. TodaysCounts \in [Account -> Nat]
  BY NoCountsType DEF TodaysCounts, TypeOK, DailyTypeOK
<1>2. ASSUME NEW a \in Account
      PROVE  TodaysCounts[a] <= servedToday[a]
  BY NoCountsType DEF TodaysCounts, Rolls, TypeOK, DailyTypeOK, NeverOvercharged
<1>3. dailyDate = today => TodaysCounts = dailyCounts
  BY DEF TodaysCounts, Rolls
<1> QED
  BY <1>1, <1>2, <1>3

\* A write of the file, or its failure on a day on which it may fail.
LEMMA Written ==
  ASSUME TypeOK, NEW date \in Nat, NEW counts \in [Account -> Nat], Persist(date, counts)
  PROVE  /\ disk' \in Counters
         /\ (disk' = disk \/ (disk'.date = date /\ disk'.counts = counts))
         /\ DiskWorks => disk'.date = date /\ disk'.counts = counts
BY DEF Persist, Counters, TypeOK, DailyTypeOK, DiskWorks

LEMMA QuotaInit == ASSUME QuotaAssumption, Init PROVE QuotaInv
<1>1. TypeOK
  <2>1. DailyTypeOK
    BY NoCountsType DEF QuotaAssumption, Init, DailyInit, DailyTypeOK, Counters, NoFile
  <2>2. metered \in BOOLEAN /\ crashes \in 0 .. MaxCrashes
    BY DEF QuotaAssumption, Init
  <2> QED
    BY <2>1, <2>2, NoCountsType DEF Init, TypeOK
<1>2. DatesPassed /\ NeverOvercharged
  BY NoCountsType DEF Init, DailyInit, DatesPassed, NeverOvercharged, NoFile
<1>3. ExhaustedCharged
  BY DEF Init, ExhaustedCharged
<1>4. AllCounted
  BY NoCountsType DEF Init, DailyInit, AllCounted, TodaysCounts, Rolls
<1> QED
  BY <1>1, <1>2, <1>3, <1>4 DEF QuotaInv

-----------------------------------------------------------------------------
\* What RecordDaily does to the counters: one more for the granted account.
LEMMA Counted ==
  ASSUME TypeOK, NeverOvercharged, DatesPassed, NEW a \in Account, RecordDaily(a),
         dailyMax > 0
  PROVE  /\ dailyDate' = today /\ dailyCounts' = [TodaysCounts EXCEPT ![a] = @ + 1]
         /\ dailyCounts' \in [Account -> Nat]
         /\ recent' \in BOOLEAN /\ flush' \in {"none", "armed", "due"}
         /\ disk' \in Counters
         /\ \/ disk' = disk
            \/ disk'.date = today /\ disk'.counts \in {dailyCounts', NoCounts}
         /\ DiskWorks /\ disk'.date = today /\ disk'.counts = NoCounts /\ disk' # disk
              => Rolls \/ dailyCounts' = NoCounts
         /\ DiskWorks /\ dailyCounts'[a] >= dailyMax
              => disk'.date = today /\ disk'.counts = dailyCounts'
<1> DEFINE counts == [TodaysCounts EXCEPT ![a] = @ + 1]
<1>1. counts \in [Account -> Nat] /\ today \in Nat
  BY TodaysCountsBounded DEF TypeOK, DailyTypeOK
<1>2. /\ dailyDate' = today /\ dailyCounts' = counts
      /\ IF counts[a] >= dailyMax
         THEN Persist(today, counts) /\ UNCHANGED <<recent, flush>>
         ELSE PersistThrottled(counts)
  BY DEF RecordDaily, TypeOK, DailyTypeOK
<1> HIDE DEF counts
<1>3. CASE counts[a] >= dailyMax
  BY <1>1, <1>2, <1>3, Written DEF TypeOK, DailyTypeOK, counts
<1>4. CASE ~(counts[a] >= dailyMax)
  <2>1. PersistThrottled(counts)
    BY <1>2, <1>4
  <2>2. CASE ~recent
    BY <1>1, <1>2, <1>4, <2>1, <2>2, Written DEF PersistThrottled, TypeOK, DailyTypeOK, counts
  <2>3. CASE recent /\ Rolls
    BY <1>1, <1>2, <1>4, <2>1, <2>3, Written, NoCountsType
       DEF PersistThrottled, TypeOK, DailyTypeOK, counts
  <2>4. CASE recent /\ ~Rolls
    BY <1>1, <1>2, <1>4, <2>1, <2>4 DEF PersistThrottled, TypeOK, DailyTypeOK, counts
  <2> QED
    BY <2>2, <2>3, <2>4
<1> QED
  BY <1>3, <1>4

LEMMA GrantKeeps ==
  ASSUME QuotaAssumption, QuotaInv, NEW a \in Account, Grant(a)
  PROVE  QuotaInv'
<1> USE DEF QuotaInv
<1>0. /\ servedToday' = [servedToday EXCEPT ![a] = @ + 1]
      /\ UNCHANGED <<dailyMax, today, up, queued, syncDue, crashes, metered>>
      /\ RecordDaily(a) /\ up /\ ~DailyLimited(a)
  BY DEF Grant, envVars
<1>1. CASE dailyMax = 0
  <2>1. UNCHANGED dailyVars /\ exhausted' = exhausted /\ exhausted = {}
    BY <1>0, <1>1 DEF Grant, RecordDaily, ExhaustedCharged
  <2>2. TypeOK' /\ DatesPassed'
    BY <1>0, <2>1 DEF TypeOK, DailyTypeOK, dailyVars, DatesPassed
  <2>3. NeverOvercharged'
    BY <1>0, <2>1 DEF NeverOvercharged, dailyVars, TypeOK, DailyTypeOK, Counters
  <2>4. ExhaustedCharged' /\ AllCounted'
    BY <1>0, <1>1, <2>1 DEF ExhaustedCharged, AllCounted
  <2> QED
    BY <2>2, <2>3, <2>4
<1>2. CASE dailyMax > 0
  <2>1. /\ TodaysCounts \in [Account -> Nat]
        /\ \A b \in Account : TodaysCounts[b] <= servedToday[b]
        /\ dailyDate = today => TodaysCounts = dailyCounts
    BY TodaysCountsBounded
  <2>2. /\ dailyDate' = today /\ dailyCounts' = [TodaysCounts EXCEPT ![a] = @ + 1]
        /\ dailyCounts' \in [Account -> Nat]
        /\ recent' \in BOOLEAN /\ flush' \in {"none", "armed", "due"}
        /\ disk' \in Counters
        /\ \/ disk' = disk
           \/ disk'.date = today /\ disk'.counts \in {dailyCounts', NoCounts}
        /\ DiskWorks /\ disk'.date = today /\ disk'.counts = NoCounts /\ disk' # disk
             => Rolls \/ dailyCounts' = NoCounts
        /\ DiskWorks /\ dailyCounts'[a] >= dailyMax
             => disk'.date = today /\ disk'.counts = dailyCounts'
    BY <1>0, <1>2, Counted
  <2>3. exhausted' = IF dailyCounts'[a] >= dailyMax THEN exhausted \union {a} ELSE exhausted
    BY <1>2 DEF Grant
  <2>4. TypeOK'
    BY <1>0, <2>2, <2>3 DEF TypeOK, DailyTypeOK
  <2>5. DatesPassed'
    BY <1>0, <2>2 DEF DatesPassed, TypeOK, DailyTypeOK
  <2>6. NeverOvercharged'
    <3>1. \A b \in Account : dailyCounts'[b] <= servedToday'[b]
      BY <1>0, <2>1, <2>2 DEF TypeOK
    <3>2. \A b \in Account : NoCounts[b] <= servedToday'[b]
      BY <1>0, NoCountsType DEF TypeOK
    <3>3. ASSUME NEW b \in Account, disk'.date = today
          PROVE  disk'.counts[b] <= servedToday'[b]
      <4>1. CASE disk' = disk
        BY <1>0, <3>3, <4>1 DEF NeverOvercharged, TypeOK, DailyTypeOK, Counters
      <4> QED
        BY <2>2, <3>1, <3>2, <4>1
    <3> QED
      BY <1>0, <3>1, <3>3 DEF NeverOvercharged
  <2>7. ExhaustedCharged'
    <3> SUFFICES ASSUME DiskWorks, NEW b \in exhausted' \ Removable
                 PROVE  /\ disk'.date = today /\ disk'.counts[b] >= dailyMax
                        /\ dailyCounts'[b] >= dailyMax
      BY <1>0, <1>2, <2>2 DEF ExhaustedCharged, DiskWorks
    <3>0. b \in Account
      BY <2>3 DEF TypeOK
    <3>1. CASE b = a /\ dailyCounts'[a] >= dailyMax
      BY <2>2, <3>1
    <3>2. CASE b \in exhausted
      <4>1. /\ disk.date = today /\ disk.counts[b] >= dailyMax
            /\ dailyDate = today /\ dailyCounts[b] >= dailyMax
        BY <1>0, <3>2 DEF ExhaustedCharged
      <4>2. dailyCounts'[b] >= dailyMax
        BY <2>1, <2>2, <3>0, <4>1 DEF TypeOK, DailyTypeOK
      <4>3. disk' = disk \/ (disk'.date = today /\ disk'.counts = dailyCounts')
        <5>1. ~Rolls /\ dailyCounts' # NoCounts
          BY <1>2, <3>0, <4>1, <4>2, NoCountsType DEF Rolls, TypeOK, DailyTypeOK
        <5> QED
          BY <2>2, <5>1
      <4> QED
        BY <4>1, <4>2, <4>3
    <3> QED
      BY <2>3, <3>1, <3>2
  <2>8. AllCounted'
    <3>1. TodaysCounts' = dailyCounts'
      BY <1>0, <2>2 DEF TodaysCounts, Rolls
    <3> QED
      BY <1>0, <2>1, <2>2, <3>1 DEF AllCounted, TypeOK
  <2> QED
    BY <2>4, <2>5, <2>6, <2>7, <2>8
<1> QED
  BY <1>1, <1>2 DEF TypeOK, DailyTypeOK

\* The first check of a new day, by whoever makes it.
LEMMA RollKeeps ==
  ASSUME QuotaAssumption, QuotaInv, Rolls, up, today' = today,
         dailyDate' = today, dailyCounts' = NoCounts, Persist(today, NoCounts),
         UNCHANGED <<dailyMax, recent, flush, up, queued, crashes, servedToday, metered>>,
         syncDue' \in BOOLEAN, exhausted' \in {exhausted, {}}, dailyMax = 0 => ~metered
  PROVE  QuotaInv'
<1> USE DEF QuotaInv
<1>1. /\ disk' \in Counters
      /\ (disk' = disk \/ (disk'.date = today /\ disk'.counts = NoCounts))
  BY Written, NoCountsType DEF TypeOK, DailyTypeOK
<1>2. TypeOK' /\ DatesPassed'
  BY <1>1, NoCountsType DEF TypeOK, DailyTypeOK, DatesPassed
<1>3. NeverOvercharged'
  BY <1>1, NoCountsType DEF NeverOvercharged, TypeOK
<1>4. ExhaustedCharged'
  BY <1>1 DEF ExhaustedCharged, DiskWorks, Rolls
<1>5. AllCounted'
  BY DEF AllCounted, TodaysCounts, Rolls
<1> QED
  BY <1>2, <1>3, <1>4, <1>5

LEMMA LookKeeps == ASSUME QuotaAssumption, QuotaInv, Look PROVE QuotaInv'
<1>1. CASE dailyMax > 0 /\ queued # {} /\ Rolls
  BY <1>1, RollKeeps DEF Look, CheckDaily, envVars, ghosts, QuotaInv, TypeOK
<1>2. CASE ~(dailyMax > 0 /\ queued # {} /\ Rolls)
  <2>1. UNCHANGED vars
    BY <1>2 DEF Look, CheckDaily, vars
  <2> QED
    BY <2>1 DEF vars, envVars, dailyVars, ghosts, QuotaInv, TypeOK, DailyTypeOK, DatesPassed,
                NeverOvercharged, ExhaustedCharged, AllCounted, TodaysCounts, Rolls, DiskWorks
<1> QED
  BY <1>1, <1>2

LEMMA RebuildKeeps ==
  ASSUME QuotaAssumption, QuotaInv, NEW R \in SUBSET Removable, Rebuild(Account \ R)
  PROVE  QuotaInv'
<1> USE DEF QuotaInv
<1> DEFINE Q == Account \ R
<1>1. /\ dailyCounts' = [a \in Account |-> IF a \in Q THEN dailyCounts[a] ELSE 0]
      /\ queued' = Q
      /\ UNCHANGED <<dailyMax, today, dailyDate, disk, recent, flush, up, syncDue, crashes,
                     servedToday, exhausted, metered>>
  BY DEF Rebuild, PruneDaily, envVars, ghosts
<1>2. TypeOK' /\ DatesPassed'
  BY <1>1 DEF TypeOK, DailyTypeOK, DatesPassed
<1>3. NeverOvercharged'
  BY <1>1 DEF NeverOvercharged, TypeOK
<1>4. \A a \in Account \ Removable : dailyCounts'[a] = dailyCounts[a]
  BY <1>1
<1>5. ExhaustedCharged'
  BY <1>1, <1>4 DEF ExhaustedCharged, DiskWorks, TypeOK
<1>6. AllCounted'
  BY <1>1, <1>4 DEF AllCounted, TodaysCounts, Rolls
<1> QED
  BY <1>2, <1>3, <1>5, <1>6

LEMMA StoreKeeps ==
  ASSUME QuotaAssumption, QuotaInv, NEW max \in Maxima, StoreLimit(max)
  PROVE  QuotaInv'
<1> USE DEF QuotaInv
<1>1. TypeOK'
  BY DEF StoreLimit, QuotaAssumption, TypeOK, DailyTypeOK, dailyVars
<1>2. DatesPassed' /\ NeverOvercharged' /\ ExhaustedCharged'
  BY DEF StoreLimit, DatesPassed, NeverOvercharged, ExhaustedCharged, dailyVars
<1>3. AllCounted'
  BY DEF StoreLimit, AllCounted, TodaysCounts, Rolls, dailyVars
<1> QED
  BY <1>1, <1>2, <1>3

LEMMA SyncKeeps == ASSUME QuotaAssumption, QuotaInv, SyncLimit PROVE QuotaInv'
<1> USE DEF QuotaInv
<1>0. /\ up /\ syncDue' = FALSE /\ SyncDaily
      /\ exhausted' = IF dailyMax = 0 THEN {} ELSE exhausted
      /\ UNCHANGED <<dailyMax, today, up, queued, crashes, servedToday, metered>>
  BY DEF SyncLimit, envVars
<1>1. CASE UNCHANGED dailyVars
  <2>1. TypeOK' /\ DatesPassed' /\ NeverOvercharged'
    BY <1>0, <1>1 DEF TypeOK, DailyTypeOK, DatesPassed, NeverOvercharged, dailyVars
  <2>2. ExhaustedCharged' /\ AllCounted'
    BY <1>0, <1>1 DEF ExhaustedCharged, AllCounted, DiskWorks, TodaysCounts, Rolls, dailyVars,
                      TypeOK, DailyTypeOK
  <2> QED
    BY <2>1, <2>2
<1>2. CASE /\ dailyMax > 0 /\ Rolls
           /\ dailyDate' = today /\ dailyCounts' = NoCounts
           /\ Persist(today, NoCounts) /\ UNCHANGED <<recent, flush>>
  <2>1. /\ exhausted' \in {exhausted, {}} /\ syncDue' \in BOOLEAN
        /\ ~(dailyMax = 0)
    <3>1. ~(dailyMax = 0)
      BY <1>2 DEF TypeOK, DailyTypeOK
    <3> QED
      BY <1>0, <1>2, <3>1
  <2> QED
    BY <1>0, <1>2, <2>1, RollKeeps
<1>3. CASE /\ dailyMax = 0
           /\ dailyDate' = today /\ dailyCounts' = NoCounts
           /\ Persist(today, NoCounts) /\ UNCHANGED <<recent, flush>>
  <2>1. /\ disk' \in Counters
        /\ (disk' = disk \/ (disk'.date = today /\ disk'.counts = NoCounts))
    BY <1>3, Written, NoCountsType DEF TypeOK, DailyTypeOK
  <2>2. TypeOK' /\ DatesPassed'
    <3>1. DailyTypeOK'
      BY <1>0, <1>3, <2>1, NoCountsType DEF TypeOK, DailyTypeOK
    <3>2. TypeOK'
      BY <1>0, <1>3, <3>1 DEF TypeOK
    <3> QED
      BY <1>0, <1>3, <2>1, <3>2 DEF DatesPassed, TypeOK, DailyTypeOK
  <2>3. NeverOvercharged'
    BY <1>0, <1>3, <2>1, NoCountsType DEF NeverOvercharged, TypeOK
  <2>4. ExhaustedCharged' /\ AllCounted'
    BY <1>0, <1>3 DEF ExhaustedCharged, AllCounted
  <2> QED
    BY <2>2, <2>3, <2>4
<1> QED
  BY <1>0, <1>1, <1>2, <1>3 DEF SyncDaily, CheckDaily, TypeOK, DailyTypeOK

LEMMA MidnightKeeps == ASSUME QuotaAssumption, QuotaInv, Midnight PROVE QuotaInv'
<1> USE DEF QuotaInv
<1>0. /\ today' = today + 1 /\ servedToday' = NoCounts /\ exhausted' = {}
      /\ metered' = (dailyMax > 0)
      /\ UNCHANGED <<dailyMax, dailyDate, dailyCounts, disk, recent, flush, up, queued,
                     syncDue, crashes>>
  BY DEF Midnight, NextDay, dailyVars
<1>1. TypeOK' /\ DatesPassed'
  BY <1>0, NoCountsType DEF TypeOK, DailyTypeOK, DatesPassed, Counters
<1>2. dailyDate' # today' /\ disk'.date # today'
  BY <1>0 DEF DatesPassed, TypeOK, DailyTypeOK, Counters
<1>3. NeverOvercharged' /\ ExhaustedCharged' /\ AllCounted'
  BY <1>0, <1>2 DEF NeverOvercharged, ExhaustedCharged, AllCounted, TodaysCounts, Rolls
<1> QED
  BY <1>1, <1>3

LEMMA TimersKeep == ASSUME QuotaAssumption, QuotaInv, Tick \/ FlushTimer PROVE QuotaInv'
<1> USE DEF QuotaInv
<1>1. CASE Tick
  <2>1. TypeOK' /\ DatesPassed' /\ NeverOvercharged'
    BY <1>1 DEF Tick, IntervalPasses, ghosts, TypeOK, DailyTypeOK, DatesPassed, NeverOvercharged
  <2>2. ExhaustedCharged' /\ AllCounted'
    BY <1>1 DEF Tick, IntervalPasses, ghosts, ExhaustedCharged, AllCounted, DiskWorks,
                TodaysCounts, Rolls
  <2> QED
    BY <2>1, <2>2
<1>2. CASE FlushTimer
  <2>0. /\ up /\ flush' = "none" /\ recent' = TRUE /\ Persist(dailyDate, dailyCounts)
        /\ UNCHANGED <<dailyMax, today, dailyDate, dailyCounts, up, queued, syncDue, crashes,
                       servedToday, exhausted, metered>>
    BY <1>2 DEF FlushTimer, Flush, ghosts
  <2>1. /\ disk' \in Counters
        /\ (disk' = disk \/ (disk'.date = dailyDate /\ disk'.counts = dailyCounts))
    BY <2>0, Written DEF TypeOK, DailyTypeOK
  <2>2. TypeOK' /\ DatesPassed'
    BY <2>0, <2>1 DEF TypeOK, DailyTypeOK, DatesPassed
  <2>3. NeverOvercharged'
    BY <2>0, <2>1 DEF NeverOvercharged, TypeOK
  <2>4. ExhaustedCharged' /\ AllCounted'
    BY <2>0, <2>1 DEF ExhaustedCharged, AllCounted, DiskWorks, TodaysCounts, Rolls
  <2> QED
    BY <2>2, <2>3, <2>4
<1> QED
  BY <1>1, <1>2

LEMMA CrashKeeps == ASSUME QuotaAssumption, QuotaInv, Crash PROVE QuotaInv'
<1> USE DEF QuotaInv
<1>0. /\ up' = FALSE /\ crashes' = crashes + 1 /\ crashes < MaxCrashes
      /\ dailyDate' = 0 /\ dailyCounts' = NoCounts
      /\ recent' = FALSE /\ flush' = "none" /\ syncDue' = FALSE
      /\ UNCHANGED <<dailyMax, today, disk, queued, servedToday, exhausted, metered>>
  BY DEF Crash, envVars, ghosts
<1>1. TypeOK' /\ DatesPassed'
  <2>1. DailyTypeOK'
    BY <1>0, NoCountsType DEF TypeOK, DailyTypeOK
  <2>2. crashes' \in 0 .. MaxCrashes
    BY <1>0 DEF TypeOK, QuotaAssumption
  <2>3. TypeOK'
    BY <1>0, <2>1, <2>2 DEF TypeOK
  <2> QED
    BY <1>0, <2>3 DEF DatesPassed, TypeOK, DailyTypeOK
<1>2. NeverOvercharged'
  BY <1>0, NoCountsType DEF NeverOvercharged, TypeOK
<1>3. ExhaustedCharged'
  BY <1>0 DEF ExhaustedCharged, DiskWorks
<1>4. AllCounted'
  BY <1>0 DEF AllCounted, TypeOK
<1> QED
  BY <1>1, <1>2, <1>3, <1>4

\* startupDailyLimitCheck resumes the counts of the same day.
LEMMA RestartKeeps == ASSUME QuotaAssumption, QuotaInv, Restart PROVE QuotaInv'
<1> USE DEF QuotaInv
<1>0. /\ ~up /\ up' = TRUE
      /\ dailyDate' = IF disk.date = 0 THEN 0 ELSE today
      /\ dailyCounts' = IF disk.date = today THEN disk.counts ELSE NoCounts
      /\ IF disk.date \in {0, today} THEN UNCHANGED disk ELSE Persist(today, NoCounts)
      /\ recent' = (disk.date # 0) /\ flush' = "none"
      /\ UNCHANGED <<dailyMax, today, queued, syncDue, crashes, servedToday, exhausted, metered>>
  BY DEF Restart, Startup, envVars, ghosts
<1>1. /\ disk' \in Counters
      /\ \/ disk' = disk
         \/ disk.date # today /\ disk'.date = today /\ disk'.counts = NoCounts
  BY <1>0, Written, NoCountsType DEF TypeOK, DailyTypeOK
<1>2. TypeOK' /\ DatesPassed'
  BY <1>0, <1>1, NoCountsType DEF TypeOK, DailyTypeOK, DatesPassed, Counters
<1>3. NeverOvercharged'
  BY <1>0, <1>1, NoCountsType DEF NeverOvercharged, TypeOK
<1>4. ExhaustedCharged'
  BY <1>0, <1>1 DEF ExhaustedCharged, DiskWorks, DatesPassed
<1>5. AllCounted'
  BY <1>0 DEF AllCounted
<1> QED
  BY <1>2, <1>3, <1>4, <1>5

LEMMA QuotaStep == ASSUME QuotaAssumption, QuotaInv, [Next]_vars PROVE QuotaInv'
<1>1. CASE UNCHANGED vars
  BY <1>1 DEF vars, envVars, dailyVars, ghosts, QuotaInv, TypeOK, DailyTypeOK, DatesPassed,
              NeverOvercharged, ExhaustedCharged, AllCounted, TodaysCounts, Rolls, DiskWorks
<1> QED
  BY <1>1, GrantKeeps, LookKeeps, RebuildKeeps, StoreKeeps, SyncKeeps, MidnightKeeps,
     TimersKeep, CrashKeeps, RestartKeeps DEF Next

LEMMA QuotaInvariant == Spec => []QuotaInv
<1>1. Init => QuotaInv
  BY QuotaInit, QuotaAssumption
<1>2. QuotaInv /\ [Next]_vars => QuotaInv'
  BY QuotaStep, QuotaAssumption
<1> QED
  BY <1>1, <1>2, PTL DEF Spec

-----------------------------------------------------------------------------
\* The quota's variables keep their types, also across crashes and failing writes.
THEOREM QuotaTypesAreRight == Spec => []TypeOK
<1>1. QuotaInv => TypeOK
  BY DEF QuotaInv
<1> QED
  BY <1>1, QuotaInvariant, PTL

\* Neither memory nor the file charges an account for what it did not serve today
\* (startupDailyLimitCheck, rollDailyLimitDateLocked).
THEOREM NobodyIsOvercharged == Spec => []NeverOvercharged
<1>1. QuotaInv => NeverOvercharged
  BY DEF QuotaInv
<1> QED
  BY <1>1, QuotaInvariant, PTL

\* On a day on which the file can be written, a used up quota stays used up until midnight
\* (recordAccountDailyRequestLocked).
THEOREM ExhaustedStay == Spec => []ExhaustedStaysLimited
<1>1. QuotaInv => ExhaustedStaysLimited
  <2> SUFFICES ASSUME QuotaInv, DiskWorks, NEW a \in exhausted \ Removable
               PROVE  IF up THEN DailyLimited(a)
                      ELSE dailyMax > 0 => disk.date = today /\ disk.counts[a] >= dailyMax
    BY DEF ExhaustedStaysLimited
  <2>1. /\ dailyMax > 0 /\ disk.date = today /\ disk.counts[a] >= dailyMax
        /\ up => dailyDate = today /\ dailyCounts[a] >= dailyMax
    BY DEF QuotaInv, ExhaustedCharged
  <2> QED
    BY <2>1 DEF DailyLimited, TodaysCounts, Rolls
<1> QED
  BY <1>1, QuotaInvariant, PTL

\* An account that stays in the queue is never granted more than the limit in force
\* (isDailyLimitedLocked).
THEOREM QuotaIsKept == Spec => QueuedQuotaKept
<1>1. ASSUME QuotaInv, [Next]_vars, NEW a \in Account \ Removable, crashes = 0, metered,
             servedToday'[a] > servedToday[a]
      PROVE  servedToday[a] < dailyMax
  <2>0. QuotaInv /\ servedToday \in [Account -> Nat]
    BY <1>1 DEF QuotaInv, TypeOK
  <2>1. ASSUME NEW b \in Account, Grant(b)
        PROVE  servedToday[a] < dailyMax
    <3>1. a = b
      BY <1>1, <2>0, <2>1 DEF Grant
    <3>2. ~DailyLimited(a) /\ dailyMax > 0 /\ TodaysCounts[a] = servedToday[a]
      BY <1>1, <2>0, <2>1, <3>1 DEF Grant, QuotaInv, AllCounted
    <3> QED
      BY <2>0, <3>2 DEF DailyLimited, QuotaInv, TypeOK, DailyTypeOK
  <2>2. CASE Midnight
    BY <1>1, <2>0, <2>2, NoCountsType DEF Midnight
  <2>3. CASE ~Midnight /\ ~\E b \in Account : Grant(b)
    <3>1. servedToday' = servedToday
      BY <1>1, <2>3 DEF Next, Look, Rebuild, StoreLimit, SyncLimit, Tick, FlushTimer, Crash,
                        Restart, vars, ghosts
    <3> QED
      BY <1>1, <2>0, <3>1
  <2> QED
    BY <2>1, <2>2, <2>3
<1>2. QuotaInv /\ [Next]_vars =>
        [\A a \in Account \ Removable :
           /\ crashes = 0 /\ metered
           /\ servedToday'[a] > servedToday[a]
           => servedToday[a] < dailyMax]_vars
  BY <1>1
<1> QED
  BY <1>2, QuotaInvariant, PTL DEF Spec, QueuedQuotaKept
=============================================================================
