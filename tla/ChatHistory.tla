---------------------------- MODULE ChatHistory ----------------------------
(***************************************************************************)
(* The store of the chat history (internal/chathistory): entries in        *)
(* memory, one file per entry, and an index file that names the entries.   *)
(* An operation changes memory and saves under one lock, so nobody but a   *)
(* restart sees the files in between; a save may fail, or the program may  *)
(* end, after any of its steps.  An entry is its request and its status:   *)
(* texts, revisions and summaries are left out.  Entries are numbered in   *)
(* the order of their creation; the index of the newest is the greatest.   *)
(***************************************************************************)
EXTENDS Naturals, FiniteSets

CONSTANTS
  Limits,         \* the limits that an operator sets; 0 turns the history off
  DefaultLimit,
  MaxEntries,     \* bound: entries ever created
  MaxFaults       \* bound: saves that fail or are cut short, and crashes

ASSUME HistoryAssumption ==
  /\ Limits \subseteq Nat /\ DefaultLimit \in Limits \ {0}
  /\ MaxEntries \in Nat /\ MaxFaults \in Nat

VARIABLES
  up,           \* the program runs
  broken,       \* Store.err: the files could not be loaded
  entries,      \* details
  limit,        \* state.Limit
  dirty,        \* entries whose file is out of date
  deleted,      \* entries whose file is to be removed
  files,        \* the detail files
  index,        \* the index file: its limit and the entries it names
  created,      \* entries created so far
  faults        \* saves failed and crashes so far

historyVars == <<up, broken, entries, limit, dirty, deleted, files, index, created, faults>>

Id == 1 .. MaxEntries

NoEntries == [i \in {} |-> 0]

HistoryInit ==
  /\ up = TRUE /\ broken = FALSE
  /\ entries = NoEntries /\ files = NoEntries
  /\ limit = DefaultLimit
  /\ index = [limit |-> DefaultLimit, items |-> {}]
  /\ dirty = {} /\ deleted = {}
  /\ created = 0 /\ faults = 0

\* rebuildIndexLocked: the newest, up to the limit; the others are deleted.
Kept(ids, l) ==
  IF l = 0 THEN ids ELSE {i \in ids : Cardinality({j \in ids : j > i}) < l}

\* saveLocked, the files: the files of removed go first, then those of written come.
FilesWithout(removed, written) ==
  files' = [i \in (DOMAIN files \ removed) \union written |->
              IF i \in written THEN entries'[i] ELSE files[i]]

Saved(gone, changed) ==
  /\ FilesWithout(gone, changed)
  /\ index' = [limit |-> limit', items |-> DOMAIN entries']
  /\ dirty' = {} /\ deleted' = {}
  /\ UNCHANGED <<up, faults>>

BugForgetsPending(changed) == {}
BugRemovedIsDone(gone, removed) == gone \ removed

\* What is pending after a save that does not reach its end: everything that was, done or
\* not, until an index is written.
StillDirty(changed) == changed
StillDeleted(gone, removed) == gone

\* A save that fails before its end; when the program ends instead, only the files
\* matter.
CutShort(gone, changed) ==
  /\ faults < MaxFaults /\ faults' = faults + 1
  /\ up' \in BOOLEAN
  /\ \E removed \in SUBSET gone, written \in SUBSET changed :
       /\ written # {} => removed = gone
       /\ FilesWithout(removed, written)
       /\ dirty' = StillDirty(changed)
       /\ deleted' = StillDeleted(gone, removed)
  /\ UNCHANGED index

\* markDetailDirtyLocked and markDetailDeletedLocked: an entry is in one of the sets.
NowDeleted(dropped, touched) == (deleted \ touched) \union dropped
NowDirty(dropped, touched) == (dirty \union touched) \ dropped

\* The end of each operation: the entries are e, but for those over the limit l; those
\* of touched changed.
Commit(e, l, touched) ==
  LET kept == Kept(DOMAIN e, l)
      dropped == (DOMAIN entries \union DOMAIN e) \ kept
      gone == NowDeleted(dropped, touched)
      changed == NowDirty(dropped, touched)
  IN /\ entries' = [i \in kept |-> e[i]]
     /\ limit' = l
     /\ Saved(gone, changed) \/ CutShort(gone, changed)
     /\ UNCHANGED broken

With(e, i, d) == [j \in DOMAIN e \union {i} |-> IF j = i THEN d ELSE e[j]]
Without(e, S) == [j \in DOMAIN e \ S |-> e[j]]

-----------------------------------------------------------------------------
Usable == up /\ ~broken

\* Start, with a limit that is not 0.  The new entry is the newest: it stays.
StartEntry(d) ==
  /\ created < MaxEntries /\ created' = created + 1
  /\ Commit(With(entries, created + 1, d), limit, {created + 1})

Update(i, d) == Commit(With(entries, i, d), limit, {i}) /\ UNCHANGED created

\* Delete, and Clear.
Delete(S) == Commit(Without(entries, S), limit, {}) /\ UNCHANGED created

SetLimit(l) == Commit(entries, l, {}) /\ UNCHANGED created

CrashHistory ==
  /\ up /\ faults < MaxFaults
  /\ up' = FALSE /\ faults' = faults + 1
  /\ UNCHANGED <<broken, entries, limit, dirty, deleted, files, index, created>>

BugEveryFile == DOMAIN files

\* The entries that a start loads.
Named == index.items

\* loadLocked: an index that names a file that is gone makes the store unusable.
Loadable == Named \subseteq DOMAIN files

LoadHistory ==
  /\ ~up /\ up' = TRUE
  /\ broken' = ~Loadable
  /\ entries' = IF Loadable THEN [i \in Named |-> files[i]] ELSE NoEntries
  /\ limit' = index.limit
  /\ dirty' = {} /\ deleted' = {}
  /\ UNCHANGED <<files, index, created, faults>>
=============================================================================
