---------------------------- MODULE ChatRecords ----------------------------
(***************************************************************************)
(* What a request leaves behind: its entry in the chat history, kept by    *)
(* its session (chat_history.go, responsehistory/session.go), and its      *)
(* count in the token ledger.  The session and an operator of the console  *)
(* share the stores: an entry may be gone at any of the session's writes.  *)
(***************************************************************************)
EXTENDS ChatHistory, UsageStats

VARIABLE session     \* of each request: its stage, its entry, the status it is writing

vars == <<historyVars, ledgerVars, session>>

\* A request that its client ends is recorded as one that succeeds: "stopped" is left out.
Status == {"streaming", "progress", "success", "error"}
Final == {"success", "error"}

\* The statuses whose entry carries a usage.
Counted == {"success"}

Fresh == [stage |-> "new", entry |-> None, writes |-> None]

Init == HistoryInit /\ LedgerInit /\ session = [r \in Request |-> Fresh]

Detail(r, st) == [of |-> r, status |-> st]

\* The entry of a finished session is not written again.
After(st) == IF st \in Final THEN "over" ELSE "live"

-----------------------------------------------------------------------------
(* The session of a request.                                                *)

Goes(r, s) == session' = [session EXCEPT ![r] = s]

\* startChatHistoryWithUsage: an entry of its own, unless the history is off or unusable.
\* A save that fails leaves the entry in memory.
Begin(r) ==
  /\ up /\ session[r].stage = "new"
  /\ IF broken \/ limit = 0
       THEN /\ Goes(r, [Fresh EXCEPT !.stage = "live"])
            /\ UNCHANGED historyVars
       ELSE /\ StartEntry(Detail(r, "streaming"))
            /\ Goes(r, [Fresh EXCEPT !.stage = "live", !.entry = created + 1])
  /\ UNCHANGED ledgerVars

BugFailureIsMissing(r, st) ==
  IF dirty' = {} THEN [session[r] EXCEPT !.stage = After(st), !.writes = None]
                 ELSE [session[r] EXCEPT !.stage = "missing", !.writes = st]

\* The session after a write of its entry; a save that failed is only logged.
Wrote(r, st) == [session[r] EXCEPT !.stage = After(st), !.writes = None]

\* An answer to Update: nothing to write, written (or only the save failed), or the
\* entry is gone.
Persist(r, st) ==
  LET s == session[r] IN
  CASE s.entry = None ->
         /\ Goes(r, Wrote(r, st))
         /\ UNCHANGED historyVars
    [] s.entry \in DOMAIN entries ->
         /\ Update(s.entry, Detail(r, st))
         /\ Goes(r, Wrote(r, st))
    [] OTHER ->
         /\ Goes(r, [s EXCEPT !.stage = "missing", !.writes = st])
         /\ UNCHANGED historyVars

\* progress.
Progress(r) ==
  /\ up /\ session[r].stage = "live"
  /\ Persist(r, "progress")
  /\ UNCHANGED ledgerVars

\* success, error and stopped: the ledger first, then, as a step of its own, the history.
End(r) ==
  /\ up /\ session[r].stage = "live"
  /\ \E st \in Final :
       /\ IF st \in Counted THEN Record(r) ELSE UNCHANGED ledgerVars
       /\ Goes(r, [session[r] EXCEPT !.stage = "ending", !.writes = st])
  /\ UNCHANGED historyVars

PersistEnd(r) ==
  /\ up /\ session[r].stage = "ending"
  /\ Persist(r, session[r].writes)
  /\ UNCHANGED ledgerVars

BugKeepsOldEntry(r, i) == session[r].entry

\* The entry of the session after its entry i was created anew.
Recreated(r, i) == i

\* retryMissingEntry: the entry that was deleted comes back under a new name.
Recreate(r) ==
  /\ up /\ session[r].stage = "missing"
  /\ LET s == session[r] IN
     IF limit = 0
       THEN /\ Goes(r, [s EXCEPT !.stage = After(s.writes), !.entry = None, !.writes = None])
            /\ UNCHANGED historyVars
       ELSE /\ StartEntry(Detail(r, "streaming"))
            /\ Goes(r, [s EXCEPT !.stage = "again", !.entry = Recreated(r, created + 1)])
  /\ UNCHANGED ledgerVars

\* handlePersistError: the write is tried once more; without its entry again, the
\* session gives up.
PersistAgain(r) ==
  /\ up /\ session[r].stage = "again"
  /\ LET s == session[r] IN
     IF s.entry \in DOMAIN entries
       THEN /\ Update(s.entry, Detail(r, s.writes))
            /\ Goes(r, Wrote(r, s.writes))
       ELSE /\ Goes(r, [s EXCEPT !.stage = After(s.writes), !.entry = None, !.writes = None])
            /\ UNCHANGED historyVars
  /\ UNCHANGED ledgerVars

\* discard, of a request whose direct token is refused.
Discard(r) ==
  /\ up /\ session[r].stage = "live"
  /\ IF session[r].entry \in DOMAIN entries
       THEN Delete({session[r].entry}) ELSE UNCHANGED historyVars
  /\ Goes(r, [session[r] EXCEPT !.stage = "over"])
  /\ UNCHANGED ledgerVars

-----------------------------------------------------------------------------
(* The console, the ticker, and the program's end and start.                *)

DeleteEntry ==
  /\ Usable /\ \E i \in DOMAIN entries : Delete({i})
  /\ UNCHANGED <<ledgerVars, session>>

ClearHistory ==
  /\ Usable /\ Delete(DOMAIN entries)
  /\ UNCHANGED <<ledgerVars, session>>

ChangeLimit ==
  /\ Usable /\ \E l \in Limits : SetLimit(l)
  /\ UNCHANGED <<ledgerVars, session>>

FlushLedger ==
  /\ up
  /\ \/ FlushBegins("ticker")
     \/ \E f \in Flusher : FlushEnds(f) \/ FlushFails(f)
  /\ UNCHANGED <<historyVars, session>>

ConsoleClearsLedger == up /\ ClearLedger /\ UNCHANGED <<historyVars, session>>

ConsoleSetsRecording == up /\ SetRecording /\ UNCHANGED <<historyVars, session>>

Crash == CrashHistory /\ UNCHANGED <<ledgerVars, session>>

\* How often the finished requests of the loaded history would be counted.
Finished ==
  [r \in Request |-> Cardinality({i \in DOMAIN entries' :
                       entries'[i].of = r /\ entries'[i].status \in Counted})]

\* NewApp: the requests that were under way are no more.
Restart ==
  /\ LoadHistory
  /\ \E saved \in BOOLEAN : LedgerLoads(Finished, saved)
  /\ session' = [r \in Request |->
                   IF session[r].stage = "new" THEN Fresh ELSE [Fresh EXCEPT !.stage = "gone"]]

Next ==
  \/ \E r \in Request :
       Begin(r) \/ Progress(r) \/ End(r) \/ PersistEnd(r)
         \/ Recreate(r) \/ PersistAgain(r) \/ Discard(r)
  \/ DeleteEntry \/ ClearHistory \/ ChangeLimit
  \/ FlushLedger \/ ConsoleClearsLedger \/ ConsoleSetsRecording
  \/ Crash \/ Restart

Spec == Init /\ [][Next]_vars

-----------------------------------------------------------------------------
(* Properties                                                                *)

RecordsTypeOK ==
  /\ {up, broken, recording, unflushed, backfilled} \subseteq BOOLEAN
  /\ limit \in Limits /\ index.limit \in Limits
  /\ created \in 0 .. MaxEntries /\ faults \in 0 .. MaxFaults
  /\ DOMAIN entries \union DOMAIN files \union dirty \union deleted \union index.items
       \subseteq 1 .. created
  /\ \A i \in DOMAIN entries : entries[i].of \in Request /\ entries[i].status \in Status
  /\ \A i \in DOMAIN files : files[i].of \in Request /\ files[i].status \in Status
  /\ limit # 0 => Cardinality(DOMAIN entries) <= limit

\* Nothing is forgotten by a save that fails: as long as a file differs from memory, its
\* entry is pending, to be written or to be removed, and no entry is both (the marks of
\* saveLocked).
PendingCoversFiles ==
  Usable =>
    /\ \A i \in DOMAIN entries \ dirty : i \in DOMAIN files /\ files[i] = entries[i]
    /\ index.items \ DOMAIN entries \subseteq deleted
    /\ dirty \subseteq DOMAIN entries /\ deleted \intersect DOMAIN entries = {}

\* The index only names a file that is gone while a deletion is under way: the history
\* survives every crash but one in the middle of a deletion (loadLocked).
LostOnlyByDeletion == Usable => index.items \ DOMAIN files \subseteq deleted

\* A request has one entry, however often its entry was deleted, by the limit or by hand,
\* between two of its writes, and whatever saves failed (retryMissingEntry).
OneEntryPerRequest ==
  Usable => \A i, j \in DOMAIN entries : entries[i].of = entries[j].of => i = j

\* Once a request is over, the history does not show it as running.
FinishedIsFinal ==
  Usable =>
    \A i \in DOMAIN entries :
      session[entries[i].of].stage = "over" => entries[i].status \in Final

\* Neither the flushes nor the backfill from the history count a request twice
\* (usage_backfill.go:16).
NeverCountedTwice ==
  \A r \in Request : ledger[r] <= 1 /\ ledgerFile[r] <= 1

\* What a restart finds of an entry is what the program had, before or after its last
\* operation, unless the history cannot be loaded at all.
EntryFile(i) == INSTANCE DurableValue WITH
  Damaged <- {},
  value <- IF broken THEN {} ELSE {IF i \in DOMAIN entries THEN entries[i] ELSE None},
  stable <- IF ~Loadable THEN {}
            ELSE {IF i \in index.items \intersect DOMAIN files THEN files[i] ELSE None}
EntriesSurvive ==
  /\ \A i \in Id : EntryFile(i)!Init
  /\ [][\A i \in Id : EntryFile(i)!Next]_vars
=============================================================================
