----------------------------- MODULE DailyQuota -----------------------------
(***************************************************************************)
(* The daily quota on its own: a pool that grants requests, is rebuilt, is *)
(* reconfigured, crashes and is started again, over the quota's file.      *)
(* Everything else of the pool is left to AccountPool.                     *)
(***************************************************************************)
EXTENDS DailyLimit

CONSTANTS Removable,    \* the accounts an administrator or the elastic pool disables
          Maxima,       \* the values runtime.account_daily_limit takes
          MaxDay, MaxGrants, MaxCrashes    \* bounds of the model

ASSUME QuotaAssumption ==
  /\ Removable \subseteq Account /\ Maxima \subseteq Nat
  /\ MaxDay \in Nat /\ MaxCrashes \in Nat

VARIABLES
  up,           \* the process runs
  queued,       \* the accounts of p.queue
  syncDue,      \* the settings handler has stored a limit and not yet synced
  crashes,
  servedToday,  \* ghost: requests granted today, whatever the counters say
  exhausted,    \* ghost: accounts whose quota was used up today
  metered       \* ghost: a limit has been in force all day

envVars == <<dailyMax, today>>
ghosts == <<servedToday, exhausted, metered>>
vars == <<envVars, dailyVars, up, queued, syncDue, crashes, ghosts>>

Init ==
  /\ DailyInit
  /\ dailyMax \in Maxima
  /\ up = TRUE /\ queued = Account /\ syncDue = FALSE /\ crashes = 0
  /\ servedToday = NoCounts /\ exhausted = {} /\ metered = (dailyMax > 0)

\* acquireLocked of an account that nothing else keeps from being granted.
Grant(a) ==
  /\ up /\ a \in queued /\ ~DailyLimited(a)
  /\ servedToday[a] < MaxGrants
  /\ RecordDaily(a)
  /\ servedToday' = [servedToday EXCEPT ![a] = @ + 1]
  /\ exhausted' = IF dailyMax > 0 /\ dailyCounts'[a] >= dailyMax
                  THEN exhausted \union {a} ELSE exhausted
  /\ UNCHANGED <<envVars, up, queued, syncDue, crashes, metered>>

\* Status, IsAccountDailyLimited, canQueueLocked or DailyLimitExhausted.
Look ==
  /\ up /\ CheckDaily(queued)
  /\ UNCHANGED <<envVars, up, queued, syncDue, crashes, ghosts>>

\* Reset with the queue Q.
Rebuild(Q) ==
  /\ up /\ Q # queued
  /\ queued' = Q /\ PruneDaily(Q)
  /\ UNCHANGED <<envVars, up, syncDue, crashes, ghosts>>

\* The settings handler: Store.Update, and later applyRuntimeSettings.
StoreLimit(max) ==
  /\ up /\ ~syncDue /\ max # dailyMax
  /\ dailyMax' = max /\ syncDue' = TRUE /\ exhausted' = {}
  /\ metered' = (metered /\ max > 0)
  /\ UNCHANGED <<today, dailyVars, up, queued, crashes, servedToday>>

SyncLimit ==
  /\ up /\ syncDue
  /\ SyncDaily
  /\ syncDue' = FALSE
  /\ exhausted' = IF dailyMax = 0 THEN {} ELSE exhausted
  /\ UNCHANGED <<envVars, up, queued, crashes, servedToday, metered>>

Midnight ==
  /\ today < MaxDay /\ NextDay
  /\ servedToday' = NoCounts /\ exhausted' = {} /\ metered' = (dailyMax > 0)
  /\ UNCHANGED <<up, queued, syncDue, crashes>>

Tick == up /\ IntervalPasses /\ UNCHANGED <<up, queued, syncDue, crashes, ghosts>>

FlushTimer == up /\ Flush /\ UNCHANGED <<up, queued, syncDue, crashes, ghosts>>

\* The memory of a crashed process is gone: Restart does not read it.
Crash ==
  /\ up /\ crashes < MaxCrashes
  /\ up' = FALSE /\ crashes' = crashes + 1
  /\ dailyDate' = 0 /\ dailyCounts' = NoCounts
  /\ recent' = FALSE /\ flush' = "none" /\ syncDue' = FALSE
  /\ UNCHANGED <<envVars, disk, queued, ghosts>>

Restart ==
  /\ ~up /\ up' = TRUE
  /\ Startup(disk)
  /\ UNCHANGED <<envVars, queued, syncDue, crashes, ghosts>>

Next ==
  \/ \E a \in Account : Grant(a)
  \/ Look
  \/ \E R \in SUBSET Removable : Rebuild(Account \ R)
  \/ \E max \in Maxima : StoreLimit(max)
  \/ SyncLimit \/ Midnight \/ Tick \/ FlushTimer \/ Crash \/ Restart

\* The runtime fires due timers and a stopped process is started again; requests,
\* administrators and crashes owe us nothing.
Spec == Init /\ [][Next]_vars /\ WF_vars(Tick) /\ WF_vars(FlushTimer) /\ WF_vars(Restart)

-----------------------------------------------------------------------------
TypeOK ==
  /\ DailyTypeOK
  /\ up \in BOOLEAN /\ syncDue \in BOOLEAN
  /\ queued \subseteq Account /\ exhausted \subseteq Account
  /\ crashes \in 0 .. MaxCrashes /\ metered \in BOOLEAN
  /\ servedToday \in [Account -> Nat]

\* No account that stays in the queue is granted a request beyond the limit that is in
\* force then, across date rolls, flushes, failing writes and rebuilds, whenever the limit
\* is raised or lowered (pool_daily_limit.go:24: an account at its limit is not scheduled
\* again).  A crash may lose the counts of one interval, and an account that leaves the
\* queue loses its own (pruneDailyCountsLocked).
QueuedQuotaKept ==
  [][\A a \in Account \ Removable :
       /\ crashes = 0 /\ metered
       /\ servedToday'[a] > servedToday[a]
       => servedToday[a] < dailyMax]_vars

DiskWorks == today \notin FailingDays

\* An account that used its quota up stays unavailable until midnight, through
\* any number of crashes: the using-up request is written without throttling
\* (pool_daily_limit.go:157), so no restart gives it a second quota, whatever writes
\* failed on the days before.
ExhaustedStaysLimited ==
  DiskWorks =>
    \A a \in exhausted \ Removable :
      IF up THEN DailyLimited(a)
      ELSE dailyMax > 0 => disk.date = today /\ disk.counts[a] >= dailyMax

\* Neither the file nor memory ever charges an account for a request it did not
\* serve today, so a restart or a day's roll never costs quota.
NeverOvercharged ==
  \A a \in Account :
    /\ disk.date = today => disk.counts[a] <= servedToday[a]
    /\ dailyDate = today => dailyCounts[a] <= servedToday[a]

\* The last counts of a burst reach the file without a further request: the flush
\* timer makes up for every throttled write (persistDailyLimitsThrottledLocked), on a
\* day on which the file can be written.  Only what a rebuild of the queue drops in
\* memory may stay in the file.
FileCatchesUp ==
  []<>(up /\ DiskWorks /\ dailyDate = today =>
         /\ disk.date = dailyDate
         /\ \A a \in Account \ Removable : disk.counts[a] = dailyCounts[a])

=============================================================================
