----------------------------- MODULE DailyLimit -----------------------------
(***************************************************************************)
(* The per-account daily request quota of the account pool                 *)
(* (internal/account/pool_daily_limit.go) with the file its counters are   *)
(* kept in.  Like RateLimit, the operators are the bodies of *Locked       *)
(* methods that larger pool operations call under Pool.mu; the steps of    *)
(* its own are the flush timer and the passing of time.                    *)
(*                                                                         *)
(* A GMT+8 calendar day is a number from 1 on; 0 is the empty date of a    *)
(* pool that has counted nothing, and of a file that does not exist.  A    *)
(* missing map entry is a count of 0.                                      *)
(***************************************************************************)
EXTENDS Accounts

CONSTANT FailingDays   \* the days on which writing the file may fail

VARIABLES
  dailyMax,     \* runtime.account_daily_limit: max per day, 0 when not active
  today,        \* the current day
  dailyDate, dailyCounts,
  disk,         \* the content of account_daily_limit.json
  recent,       \* dailyLastPersist is less than an interval ago
  flush         \* dailyFlushTimer: "none", "armed", or "due" once fired

dailyVars == <<dailyDate, dailyCounts, disk, recent, flush>>

NoCounts == [a \in Account |-> 0]

Counters == [date : Nat, counts : [Account -> Nat]]

DailyTypeOK ==
  /\ dailyMax \in Nat
  /\ today \in Nat /\ dailyDate \in Nat
  /\ dailyCounts \in [Account -> Nat]
  /\ disk \in Counters
  /\ recent \in BOOLEAN
  /\ flush \in {"none", "armed", "due"}

NoFile == [date |-> 0, counts |-> NoCounts]

\* persistDailyLimitsLocked: a failed write is only logged.
Persist(date, counts) ==
  \/ disk' = [date |-> date, counts |-> counts]
  \/ today \in FailingDays /\ UNCHANGED disk

BugResumeAnyDay(file) ==
  /\ dailyDate' = today /\ dailyCounts' = file.counts
  /\ UNCHANGED disk
  /\ recent' = (file.date # 0) /\ flush' = "none"

\* What NewPool builds from the file: startupDailyLimitCheck resumes the
\* counters of the same day, and starts empty (and says so on disk) otherwise.
Startup(file) ==
  /\ dailyDate' = IF file.date = 0 THEN 0 ELSE today
  /\ dailyCounts' = IF file.date = today THEN file.counts ELSE NoCounts
  /\ IF file.date \in {0, today} THEN UNCHANGED disk ELSE Persist(today, NoCounts)
  /\ recent' = (file.date # 0)
  /\ flush' = "none"

DailyInit ==
  /\ today = 1
  /\ dailyDate = 0 /\ dailyCounts = NoCounts
  /\ disk = NoFile
  /\ recent = FALSE /\ flush = "none"

-----------------------------------------------------------------------------
\* rollDailyLimitDateLocked: the counters of another day are not today's.
Rolls == dailyDate # today
TodaysCounts == IF Rolls THEN NoCounts ELSE dailyCounts

\* isDailyLimitedLocked
BugOneTooMany(a) == dailyMax > 0 /\ TodaysCounts[a] > dailyMax
DailyLimited(a) == dailyMax > 0 /\ TodaysCounts[a] >= dailyMax

\* The quota's part of an operation that checked the accounts of S and granted
\* none: the first check of a new day rolls the date and persists.
CheckDaily(S) ==
  IF dailyMax > 0 /\ S # {} /\ Rolls
  THEN /\ dailyDate' = today /\ dailyCounts' = NoCounts
       /\ Persist(today, NoCounts)
       /\ UNCHANGED <<recent, flush>>
  ELSE UNCHANGED dailyVars

BugLeadingWriteOnly(counts) ==
  IF ~recent
  THEN recent' = TRUE /\ Persist(today, counts) /\ UNCHANGED flush
  ELSE UNCHANGED <<recent, disk, flush>>

\* persistDailyLimitsThrottledLocked: the first write of an interval happens at
\* once, a later one is left to the flush timer.
PersistThrottled(counts) ==
  IF ~recent
  THEN recent' = TRUE /\ Persist(today, counts) /\ UNCHANGED flush
  ELSE /\ flush' = IF flush = "none" THEN "armed" ELSE flush
       /\ IF Rolls THEN Persist(today, NoCounts) ELSE UNCHANGED disk
       /\ UNCHANGED recent

BugAlwaysThrottled(g) ==
  IF dailyMax = 0 THEN UNCHANGED dailyVars
  ELSE LET counts == [TodaysCounts EXCEPT ![g] = @ + 1] IN
       /\ dailyDate' = today /\ dailyCounts' = counts
       /\ PersistThrottled(counts)

\* recordAccountDailyRequestLocked: the request that uses the quota up is
\* written at once.
RecordDaily(g) ==
  IF dailyMax = 0 THEN UNCHANGED dailyVars
  ELSE LET counts == [TodaysCounts EXCEPT ![g] = @ + 1] IN
       /\ dailyDate' = today /\ dailyCounts' = counts
       /\ IF counts[g] >= dailyMax
          THEN Persist(today, counts) /\ UNCHANGED <<recent, flush>>
          ELSE PersistThrottled(counts)

\* pruneDailyCountsLocked: only in memory.
PruneDaily(Q) ==
  /\ dailyCounts' = [a \in Account |-> IF a \in Q THEN dailyCounts[a] ELSE 0]
  /\ UNCHANGED <<dailyDate, disk, recent, flush>>

\* SyncDailyLimits.  It drains the waiters in all cases but one.
SyncDaily ==
  IF dailyMax > 0 THEN CheckDaily(Account)
  ELSE IF dailyCounts # NoCounts
  THEN /\ dailyCounts' = NoCounts /\ dailyDate' = today
       /\ Persist(today, NoCounts)
       /\ UNCHANGED <<recent, flush>>
  ELSE UNCHANGED dailyVars

SyncDailyDrains == dailyMax > 0 \/ dailyCounts # NoCounts

-----------------------------------------------------------------------------
NextDay ==
  /\ today' = today + 1
  /\ UNCHANGED <<dailyMax, dailyVars>>

\* The persist interval has passed since dailyLastPersist.
IntervalPasses ==
  /\ recent \/ flush = "armed"
  /\ recent' = FALSE
  /\ flush' = IF flush = "armed" THEN "due" ELSE flush
  /\ UNCHANGED <<dailyMax, today, dailyDate, dailyCounts, disk>>

\* The callback of dailyFlushTimer.
Flush ==
  /\ flush = "due"
  /\ flush' = "none" /\ recent' = TRUE
  /\ Persist(dailyDate, dailyCounts)
  /\ UNCHANGED <<dailyMax, today, dailyDate, dailyCounts>>

=============================================================================
