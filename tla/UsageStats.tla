----------------------------- MODULE UsageStats -----------------------------
(***************************************************************************)
(* The token ledger (internal/usagestats): counts in memory, and a file    *)
(* that a ticker and the operations of the console write from a snapshot,  *)
(* outside the lock.  What is counted for a request is its number of       *)
(* calls; dates, models, prices and tokens are left out.                   *)
(***************************************************************************)
EXTENDS Naturals

CONSTANTS Request, None

ASSUME UsageAssumption == None \notin Nat

VARIABLES
  recording,    \* settings.Enabled
  ledger,       \* entries: how often each request is counted
  unflushed,    \* dirty
  ledgerFile,   \* the file
  flush,        \* what each flusher writes, and whether its revision is the current one
  backfilled    \* the marker file of the backfill is there

ledgerVars == <<recording, ledger, unflushed, ledgerFile, flush, backfilled>>

Flusher == {"ticker", "console"}

Empty == [r \in Request |-> 0]

LedgerInit ==
  /\ recording = TRUE
  /\ ledger = Empty /\ ledgerFile = Empty /\ unflushed = FALSE
  /\ flush = [f \in Flusher |-> None]
  /\ backfilled = FALSE

\* dataChangedLocked: no snapshot under way is of the new revision.
Outdated(fs) == [f \in Flusher |-> IF fs[f] = None THEN None ELSE [fs[f] EXCEPT !.current = FALSE]]

DataChanges(l) ==
  /\ ledger' = l /\ unflushed' = TRUE
  /\ flush' = Outdated(flush)
  /\ UNCHANGED <<recording, ledgerFile, backfilled>>

Record(r) ==
  IF recording THEN DataChanges([ledger EXCEPT ![r] = @ + 1]) ELSE UNCHANGED ledgerVars

\* flushNow, first part: the snapshot, under the lock.
FlushBegins(f) ==
  /\ unflushed /\ flush[f] = None
  /\ flush' = [flush EXCEPT ![f] = [counts |-> ledger, current |-> TRUE]]
  /\ UNCHANGED <<recording, ledger, unflushed, ledgerFile, backfilled>>

\* Its last part: the file is written without the lock, and a change since the snapshot
\* leaves the ledger dirty.  (A change between the write and the return to the lock
\* leaves it dirty as well, and marks it dirty again.)
FlushEnds(f) ==
  /\ flush[f] # None
  /\ ledgerFile' = flush[f].counts
  /\ unflushed' = (unflushed /\ ~flush[f].current)
  /\ flush' = [flush EXCEPT ![f] = None]
  /\ UNCHANGED <<recording, ledger, backfilled>>

FlushFails(f) ==
  /\ flush[f] # None
  /\ flush' = [flush EXCEPT ![f] = None]
  /\ UNCHANGED <<recording, ledger, unflushed, ledgerFile, backfilled>>

\* Clear: the change, and the beginning of the flush that follows it.
ClearLedger ==
  /\ flush["console"] = None
  /\ ledger' = Empty /\ unflushed' = TRUE
  /\ flush' = [Outdated(flush) EXCEPT !["console"] =
                 [counts |-> Empty, current |-> TRUE]]
  /\ UNCHANGED <<recording, ledgerFile, backfilled>>

\* SaveSettings.
SetRecording ==
  /\ recording' = ~recording
  /\ UNCHANGED <<ledger, unflushed, ledgerFile, flush, backfilled>>

BugAlwaysBackfills == TRUE

\* Backfill: only into an empty ledger.
MayBackfill == ledgerFile = Empty

\* New, and backfillUsageStatsOnce with the finished requests of the history.  A ledger
\* that is not empty is left alone; a save that fails leaves the marker for another
\* start.
LedgerLoads(finished, saved) ==
  /\ flush' = [f \in Flusher |-> None]
  /\ UNCHANGED recording
  /\ IF ~recording \/ backfilled \/ finished = Empty
       THEN /\ ledger' = ledgerFile /\ unflushed' = FALSE
            /\ UNCHANGED <<ledgerFile, backfilled>>
       ELSE /\ ledger' = IF MayBackfill
                           THEN [r \in Request |-> ledgerFile[r] + finished[r]]
                           ELSE ledgerFile
            /\ ledgerFile' = IF saved THEN ledger' ELSE ledgerFile
            /\ unflushed' = (ledger' # ledgerFile')
            /\ backfilled' = (saved \/ ~MayBackfill)
=============================================================================
