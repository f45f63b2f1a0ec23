------------------------- MODULE ChatRecords_proofs -------------------------
(***************************************************************************)
(* What holds of the chat history and of the token ledger for every set of *)
(* requests, every limit and any number of saves that fail or are cut      *)
(* short: the pending sets cover the files, only a deletion can make the   *)
(* history unreadable, an entry is found again as it was before or after   *)
(* its last operation, a request has one entry, which is final when the    *)
(* request is over, and is counted at most once.                           *)
(***************************************************************************)
EXTENDS ChatRecords, FiniteSetTheorems, TLAPS

Details == [of : Request, status : Status]

Stages == {"new", "live", "ending", "missing", "again", "over", "gone"}

Sessions == [stage : Stages, entry : (1 .. created) \union {None}, writes : Status \union {None}]

\* The parts of the store, in memory and on disk, are of their types, and the limit is kept.
StoreTypes ==
  /\ up \in BOOLEAN /\ broken \in BOOLEAN
  /\ created \in 0 .. MaxEntries /\ faults \in 0 .. MaxFaults
  /\ limit \in Limits
  /\ index \in [limit : Limits, items : SUBSET (1 .. created)]
  /\ DOMAIN entries \subseteq 1 .. created /\ entries \in [DOMAIN entries -> Details]
  /\ DOMAIN files \subseteq 1 .. created /\ files \in [DOMAIN files -> Details]
  /\ dirty \subseteq 1 .. created /\ deleted \subseteq 1 .. created
  /\ limit # 0 => Cardinality(DOMAIN entries) <= limit
  /\ index.limit # 0 => Cardinality(index.items) <= index.limit

\* An entry and its file are of one request.
SameOwner ==
  Usable => \A i \in DOMAIN entries \intersect DOMAIN files : entries[i].of = files[i].of

\* The files that the index names are of different requests.
OneFilePerRequest ==
  \A i, j \in index.items \intersect DOMAIN files : files[i].of = files[j].of => i = j

StoreInv ==
  /\ StoreTypes
  /\ PendingCoversFiles /\ LostOnlyByDeletion
  /\ SameOwner /\ OneFilePerRequest

\* While a program runs, a session knows the one entry of its request; a new request has
\* neither entry nor file, and what is missing does not come back.
SessionInv ==
  /\ session \in [Request -> Sessions]
  /\ \A r \in Request :
       /\ session[r].stage = "new" => session[r].entry = None
       /\ session[r].stage \in {"missing", "again"} =>
            session[r].entry # None /\ session[r].writes \in Status
       /\ session[r].stage = "ending" => session[r].writes \in Final
       /\ up /\ broken => session[r].entry = None
  /\ \A i \in DOMAIN files : session[files[i].of].stage # "new"
  /\ Usable =>
       /\ \A r \in Request : session[r].stage = "missing" => session[r].entry \notin DOMAIN entries
       /\ \A r \in Request : session[r].entry \in DOMAIN entries =>
            entries[session[r].entry].of = r
       /\ \A i \in DOMAIN entries :
            session[entries[i].of].stage # "gone" => session[entries[i].of].entry = i

\* A request is not counted before its end.
Uncounted(r) ==
  \/ session[r].stage \in {"new", "live"}
  \/ session[r].stage \in {"missing", "again"} /\ session[r].writes \notin Final

Flushes == [counts : [Request -> Nat], current : BOOLEAN]

AtMostOnce(l) == \A r \in Request : l[r] <= 1 /\ (Uncounted(r) => l[r] = 0)

LedgerInv ==
  /\ recording \in BOOLEAN /\ unflushed \in BOOLEAN /\ backfilled \in BOOLEAN
  /\ ledger \in [Request -> Nat] /\ ledgerFile \in [Request -> Nat]
  /\ flush \in [Flusher -> {None} \union Flushes]
  /\ AtMostOnce(ledger) /\ AtMostOnce(ledgerFile)
  /\ \A f \in Flusher : flush[f] # None => AtMostOnce(flush[f].counts)

RecordsInv ==
  StoreInv /\ OneEntryPerRequest /\ SessionInv /\ FinishedIsFinal /\ LedgerInv

-----------------------------------------------------------------------------
(* The store.                                                               *)

\* rebuildIndexLocked keeps no more entries than the limit: the rank of an entry, the
\* number of newer ones, is below it, and no two have the same rank.
LEMMA KeptBounded ==
  ASSUME NEW n \in Nat, NEW ids \in SUBSET (1 .. n), NEW l \in Nat \ {0}
  PROVE  Cardinality(Kept(ids, l)) <= l
<1> DEFINE newer(i) == {j \in ids : j > i}
           rank == [i \in Kept(ids, l) |-> Cardinality(newer(i))]
<1>0. \A j \in ids : j \in Nat
  OBVIOUS
<1>1. IsFiniteSet(1 .. n) /\ IsFiniteSet(ids) /\ Kept(ids, l) \subseteq ids
  <2>1. IsFiniteSet(1 .. n)
    BY FS_Interval
  <2> QED
    BY <2>1, FS_Subset DEF Kept
<1>2. \A i : IsFiniteSet(newer(i)) /\ Cardinality(newer(i)) \in Nat
  <2> TAKE i
  <2>1. newer(i) \in SUBSET ids
    OBVIOUS
  <2> HIDE DEF newer
  <2> QED
    BY <1>1, <2>1, FS_Subset, FS_CardinalityType
<1>3. \A i \in Kept(ids, l) : Cardinality(newer(i)) < l
  BY DEF Kept
<1>4. ASSUME NEW i \in Kept(ids, l), NEW k \in Kept(ids, l), i < k
      PROVE  Cardinality(newer(k)) < Cardinality(newer(i))
  <2>0. i \in ids /\ k \in ids /\ i \in Nat /\ k \in Nat
    BY <1>0, <1>1
  <2>1. newer(k) \in SUBSET newer(i) /\ k \in newer(i) /\ k \notin newer(k)
    <3>1. \A j \in ids : j > k => j > i
      BY <1>0, <1>4, <2>0
    <3>2. k \in newer(i) /\ k \notin newer(k)
      BY <1>4, <2>0
    <3> QED
      BY <3>1, <3>2
  <2> HIDE DEF newer
  <2>2. /\ Cardinality(newer(k)) <= Cardinality(newer(i))
        /\ Cardinality(newer(k)) = Cardinality(newer(i)) => newer(k) = newer(i)
    BY <1>2, <2>1, FS_Subset
  <2> QED
    BY <1>2, <2>1, <2>2
<1> HIDE DEF newer
<1>5. rank \in Injection(Kept(ids, l), 0 .. l - 1)
  <2>1. rank \in [Kept(ids, l) -> 0 .. l - 1]
    BY <1>2, <1>3
  <2>2. ASSUME NEW i \in Kept(ids, l), NEW k \in Kept(ids, l), rank[i] = rank[k]
        PROVE  i = k
    <3>1. i \in Nat /\ k \in Nat
      BY <1>0, <1>1
    <3>2. Cardinality(newer(i)) = Cardinality(newer(k))
      BY <2>2
    <3> QED
      BY <1>2, <1>4, <3>1, <3>2
  <2> HIDE DEF rank
  <2> QED
    BY <2>1, <2>2 DEF Injection, IsInjective
<1>6. IsFiniteSet(0 .. l - 1) /\ Cardinality(0 .. l - 1) = l
  BY FS_Interval
<1> QED
  BY <1>5, <1>6, FS_Injection

\* What an operation hands to the save: entries of before, new ones under a name never
\* used, all changed ones among touched, and no two of one request.
Proper(e, touched) ==
  /\ DOMAIN e \subseteq 1 .. created' /\ e \in [DOMAIN e -> Details]
  /\ touched \subseteq DOMAIN e
  /\ DOMAIN e \subseteq DOMAIN entries \union {created'}
  /\ created' \in {created, created + 1} /\ created' <= MaxEntries
  /\ created' \in DOMAIN e \ DOMAIN entries => created' = created + 1
  /\ \A i \in DOMAIN e \ touched : i \in DOMAIN entries /\ e[i] = entries[i]
  /\ \A i \in DOMAIN e \intersect DOMAIN entries : e[i].of = entries[i].of
  /\ \A i, j \in DOMAIN e : e[i].of = e[j].of => i = j

\* The files of a save, complete or cut short.
LEMMA FilesOfSave ==
  ASSUME NEW removed, NEW written, FilesWithout(removed, written)
  PROVE  /\ DOMAIN files' = (DOMAIN files \ removed) \union written
         /\ \A i \in written : files'[i] = entries'[i]
         /\ \A i \in DOMAIN files \ (removed \union written) : files'[i] = files[i]
         /\ files' = [i \in DOMAIN files' |-> files'[i]]
BY DEF FilesWithout

\* An operation on the history keeps all that the files and the pending sets promise,
\* whether its save is complete, fails or is cut short (saveLocked).
LEMMA CommitKeeps ==
  ASSUME HistoryAssumption, StoreInv, Usable, NEW e, NEW l \in Limits, NEW touched,
         Proper(e, touched), Commit(e, l, touched)
  PROVE  /\ StoreInv' /\ OneEntryPerRequest'
         /\ DOMAIN entries' \subseteq DOMAIN e /\ \A i \in DOMAIN entries' : entries'[i] = e[i]
         /\ \A i \in DOMAIN files' :
              (i \in DOMAIN files /\ files'[i] = files[i]) \/ (i \in DOMAIN e /\ files'[i] = e[i])
         /\ UNCHANGED broken
<1> DEFINE kept == Kept(DOMAIN e, l)
           dropped == (DOMAIN entries \union DOMAIN e) \ kept
           gone == NowDeleted(dropped, touched)
           changed == NowDirty(dropped, touched)
<1>1. /\ entries' = [i \in kept |-> e[i]] /\ limit' = l
      /\ Saved(gone, changed) \/ CutShort(gone, changed)
      /\ UNCHANGED broken
  BY DEF Commit
<1>2. kept \subseteq DOMAIN e
  BY DEF Kept
<1>3. /\ DOMAIN entries' = kept /\ \A i \in kept : entries'[i] = e[i]
      /\ entries' \in [kept -> Details]
  BY <1>1, <1>2 DEF Proper
<1>4. l # 0 => Cardinality(kept) <= l
  BY KeptBounded DEF HistoryAssumption, Proper, StoreInv, StoreTypes
<1> HIDE DEF kept
<1>5. /\ gone = (deleted \ touched) \union dropped
      /\ changed = (dirty \union touched) \ dropped
  BY DEF NowDeleted, NowDirty
<1>6. /\ dirty \subseteq DOMAIN entries /\ deleted \intersect DOMAIN entries = {}
      /\ \A i \in DOMAIN entries \ dirty : i \in DOMAIN files /\ files[i] = entries[i]
      /\ index.items \ DOMAIN entries \subseteq deleted
      /\ index.items \ DOMAIN files \subseteq deleted
      /\ \A i \in DOMAIN entries \intersect DOMAIN files : entries[i].of = files[i].of
  BY DEF StoreInv, PendingCoversFiles, LostOnlyByDeletion, SameOwner
<1>7. /\ dirty \subseteq 1 .. created /\ deleted \subseteq 1 .. created
      /\ DOMAIN files \subseteq 1 .. created /\ index.items \subseteq 1 .. created
      /\ DOMAIN entries \subseteq 1 .. created /\ created \in Nat
      /\ created + 1 \notin 1 .. created /\ 1 .. created \subseteq 1 .. created'
      /\ created' \in 0 .. MaxEntries
  BY DEF StoreInv, StoreTypes, Proper, HistoryAssumption
<1> HIDE DEF dropped, gone, changed
<1>8. /\ changed \subseteq kept /\ gone \intersect kept = {}
      /\ \A i \in kept \ changed : i \in DOMAIN files /\ files[i] = e[i]
      /\ index.items \ kept \subseteq gone /\ index.items \ DOMAIN files \subseteq gone
      /\ gone \subseteq 1 .. created' /\ changed \subseteq 1 .. created'
  <2>1. dropped = (DOMAIN entries \union DOMAIN e) \ kept
    BY DEF dropped
  <2>2. touched \subseteq DOMAIN e /\ DOMAIN e \subseteq DOMAIN entries \union {created'}
        /\ (created' \in DOMAIN e \ DOMAIN entries => created' = created + 1)
        /\ \A i \in DOMAIN e \ touched : i \in DOMAIN entries /\ e[i] = entries[i]
        /\ DOMAIN e \subseteq 1 .. created'
    BY DEF Proper
  <2>3. changed \subseteq kept /\ changed \subseteq 1 .. created'
    BY <1>2, <1>5, <1>6, <1>7, <2>1, <2>2
  <2>4. deleted \intersect DOMAIN e = {}
    BY <1>6, <1>7, <2>2
  <2>5. gone \intersect kept = {} /\ gone \subseteq 1 .. created'
    <3>1. gone \intersect kept = {}
      BY <1>2, <1>5, <2>1, <2>4
    <3>2. dropped \subseteq 1 .. created' /\ deleted \subseteq 1 .. created'
      BY <1>7, <2>1, <2>2
    <3> QED
      BY <1>5, <3>1, <3>2
  <2>6. \A i \in kept \ changed : i \in DOMAIN files /\ files[i] = e[i]
    BY <1>2, <1>5, <1>6, <2>1, <2>2
  <2>7. index.items \ kept \subseteq gone /\ index.items \ DOMAIN files \subseteq gone
    BY <1>2, <1>5, <1>6, <1>7, <2>1, <2>2, <2>4
  <2> QED
    BY <2>3, <2>5, <2>6, <2>7
<1>9. \A i \in kept \intersect DOMAIN files : e[i].of = files[i].of
  BY <1>2, <1>6, <1>7 DEF Proper
<1>10. OneEntryPerRequest'
  BY <1>2, <1>3 DEF OneEntryPerRequest, Proper
<1>11. CASE Saved(gone, changed)
  <2>1. /\ index' = [limit |-> l, items |-> kept] /\ dirty' = {} /\ deleted' = {}
        /\ UNCHANGED <<up, faults>>
    BY <1>1, <1>3, <1>11 DEF Saved
  <2>2. /\ DOMAIN files' = (DOMAIN files \ gone) \union changed
        /\ \A i \in changed : files'[i] = e[i]
        /\ \A i \in DOMAIN files \ (gone \union changed) : files'[i] = files[i]
        /\ files' = [i \in DOMAIN files' |-> files'[i]]
    BY <1>3, <1>8, <1>11, FilesOfSave DEF Saved
  <2>3. \A i \in kept : i \in DOMAIN files' /\ files'[i] = e[i]
    BY <1>8, <2>2
  <2>4. \A i \in DOMAIN files' :
              (i \in DOMAIN files /\ files'[i] = files[i]) \/ (i \in DOMAIN e /\ files'[i] = e[i])
    BY <1>2, <1>8, <2>2
  <2>5. /\ DOMAIN files' \subseteq 1 .. created'
        /\ \A i \in DOMAIN files' : files'[i] \in Details
    BY <1>7, <1>8, <2>2, <2>4 DEF StoreInv, StoreTypes, Proper
  <2>6. StoreTypes'
    BY <1>1, <1>2, <1>3, <1>4, <1>7, <2>1, <2>2, <2>5 DEF StoreInv, StoreTypes, Proper
  <2>7. PendingCoversFiles' /\ LostOnlyByDeletion' /\ SameOwner'
    BY <1>3, <2>1, <2>3 DEF PendingCoversFiles, LostOnlyByDeletion, SameOwner
  <2>8. OneFilePerRequest'
    BY <1>2, <2>1, <2>3 DEF OneFilePerRequest, Proper
  <2>20. StoreInv'
    BY <2>6, <2>7, <2>8 DEF StoreInv
  <2>21. DOMAIN entries' \subseteq DOMAIN e /\ \A i \in DOMAIN entries' : entries'[i] = e[i]
    BY <1>2, <1>3
  <2> QED
    BY <1>1, <1>10, <2>4, <2>20, <2>21
<1>12. CASE CutShort(gone, changed)
  <2>1. PICK removed \in SUBSET gone, written \in SUBSET changed :
          FilesWithout(removed, written)
    BY <1>12 DEF CutShort
  <2>2. /\ index' = index /\ dirty' = changed /\ deleted' = gone
        /\ up' \in BOOLEAN /\ faults' = faults + 1 /\ faults < MaxFaults
    BY <1>12 DEF CutShort, StillDirty, StillDeleted
  <2>3. /\ DOMAIN files' = (DOMAIN files \ removed) \union written
        /\ \A i \in written : files'[i] = e[i]
        /\ \A i \in DOMAIN files \ (removed \union written) : files'[i] = files[i]
        /\ files' = [i \in DOMAIN files' |-> files'[i]]
    BY <1>3, <1>8, <2>1, FilesOfSave
  <2>4. \A i \in DOMAIN files' :
              (i \in DOMAIN files /\ files'[i] = files[i]) \/ (i \in DOMAIN e /\ files'[i] = e[i])
    BY <1>2, <1>8, <2>3
  <2>5. /\ DOMAIN files' \subseteq 1 .. created'
        /\ \A i \in DOMAIN files' : files'[i] \in Details
    BY <1>7, <1>8, <2>3, <2>4 DEF StoreInv, StoreTypes, Proper
  <2>6. StoreTypes'
    <3>1. faults' \in 0 .. MaxFaults
      BY <2>2 DEF StoreInv, StoreTypes, HistoryAssumption
    <3> QED
      BY <1>1, <1>2, <1>3, <1>4, <1>7, <1>8, <2>2, <2>3, <2>5, <3>1
         DEF StoreInv, StoreTypes, Proper
  <2>7. \A i \in kept \ changed : i \in DOMAIN files' /\ files'[i] = e[i]
    BY <1>8, <2>1, <2>3
  <2>8. PendingCoversFiles'
    BY <1>3, <1>8, <2>2, <2>7 DEF PendingCoversFiles
  <2>9. LostOnlyByDeletion'
    BY <1>8, <2>1, <2>2, <2>3 DEF LostOnlyByDeletion
  <2>10. SameOwner'
    BY <1>3, <1>9, <2>1, <2>3, <2>4 DEF SameOwner
  <2>11. \A i \in index.items \intersect DOMAIN files' :
           i \in DOMAIN files /\ files'[i].of = files[i].of
    BY <1>8, <1>9, <2>1, <2>3
  <2>12. OneFilePerRequest'
    BY <2>2, <2>11 DEF OneFilePerRequest, StoreInv
  <2>20. StoreInv'
    BY <2>6, <2>8, <2>9, <2>10, <2>12 DEF StoreInv
  <2>21. DOMAIN entries' \subseteq DOMAIN e /\ \A i \in DOMAIN entries' : entries'[i] = e[i]
    BY <1>2, <1>3
  <2> QED
    BY <1>1, <1>10, <2>4, <2>20, <2>21
<1> QED
  BY <1>1, <1>11, <1>12

\* What a restart finds of an entry is what memory held before or after the step, or the
\* file that was there; a restart itself takes what the files hold.
InMemory(i) == IF broken THEN {} ELSE {IF i \in DOMAIN entries THEN entries[i] ELSE None}
OnDisk(i) ==
  IF ~Loadable THEN {} ELSE {IF i \in index.items \intersect DOMAIN files THEN files[i] ELSE None}

Survives(i) ==
  \/ up /\ OnDisk(i)' \in {OnDisk(i), InMemory(i), InMemory(i)', {}}
  \/ ~up /\ up' /\ OnDisk(i)' = OnDisk(i) /\ (OnDisk(i) # {} => InMemory(i)' = OnDisk(i))

AllSurvive == \A i \in Id : Survives(i)

\* An index that is written names the entries of memory, whose files are up to date.  One
\* that is not written names what it named: each file of those is the old one or that of
\* the entry, and none that was gone comes back (saveLocked).
LEMMA CommitSurvives ==
  ASSUME HistoryAssumption, StoreInv, Usable, NEW e, NEW l \in Limits, NEW touched,
         Proper(e, touched), Commit(e, l, touched)
  PROVE  AllSurvive
<1> DEFINE kept == Kept(DOMAIN e, l)
           dropped == (DOMAIN entries \union DOMAIN e) \ kept
           gone == NowDeleted(dropped, touched)
           changed == NowDirty(dropped, touched)
<1>1. /\ entries' = [i \in kept |-> e[i]] /\ UNCHANGED broken /\ up /\ ~broken
      /\ Saved(gone, changed) \/ CutShort(gone, changed)
  BY DEF Commit, Usable
<1>2. kept \subseteq DOMAIN e
  BY DEF Kept
<1> HIDE DEF kept
<1>3. /\ gone = (deleted \ touched) \union dropped
      /\ changed = (dirty \union touched) \ dropped
      /\ dropped = (DOMAIN entries \union DOMAIN e) \ kept
  BY DEF NowDeleted, NowDirty
<1> HIDE DEF dropped, gone, changed
<1>4. /\ dirty \subseteq DOMAIN entries
      /\ \A i \in DOMAIN entries \ dirty : i \in DOMAIN files /\ files[i] = entries[i]
      /\ index.items \ DOMAIN files \subseteq deleted
      /\ deleted \intersect DOMAIN entries = {} /\ deleted \subseteq 1 .. created
      /\ created \in Nat /\ created + 1 \notin 1 .. created
  BY DEF StoreInv, StoreTypes, PendingCoversFiles, LostOnlyByDeletion
<1>5. /\ touched \subseteq DOMAIN e /\ DOMAIN e \subseteq DOMAIN entries \union {created'}
      /\ created' \in DOMAIN e \ DOMAIN entries => created' = created + 1
      /\ \A i \in DOMAIN e \ touched : i \in DOMAIN entries /\ e[i] = entries[i]
  BY DEF Proper
<1>6. changed \subseteq kept /\ changed \intersect deleted = {}
  BY <1>2, <1>3, <1>4, <1>5
<1>7. \A i \in kept \ changed : i \in DOMAIN files /\ files[i] = e[i] /\ i \notin gone
  BY <1>2, <1>3, <1>4, <1>5
<1> SUFFICES ASSUME NEW i \in Id, OnDisk(i)' # {}
             PROVE  OnDisk(i)' \in {OnDisk(i), InMemory(i), InMemory(i)', {}}
  BY <1>1 DEF AllSurvive, Survives
<1>8. /\ index'.items \subseteq DOMAIN files'
      /\ OnDisk(i)' = {IF i \in index'.items THEN files'[i] ELSE None}
      /\ InMemory(i)' = {IF i \in kept THEN e[i] ELSE None}
  BY <1>1 DEF OnDisk, InMemory, Loadable, Named
<1>9. CASE Saved(gone, changed)
  <2>1. /\ index'.items = kept
        /\ \A j \in changed : files'[j] = e[j]
        /\ \A j \in DOMAIN files \ (gone \union changed) : files'[j] = files[j]
    BY <1>1, <1>6, <1>9, FilesOfSave DEF Saved
  <2> QED
    BY <1>7, <1>8, <2>1
<1>10. CASE CutShort(gone, changed)
  <2>1. PICK removed \in SUBSET gone, written \in SUBSET changed : FilesWithout(removed, written)
    BY <1>10 DEF CutShort
  <2>2. /\ index' = index
        /\ DOMAIN files' = (DOMAIN files \ removed) \union written
        /\ \A j \in written : files'[j] = e[j]
        /\ \A j \in DOMAIN files \ (removed \union written) : files'[j] = files[j]
    BY <1>1, <1>6, <1>10, <2>1, FilesOfSave DEF CutShort
  <2>3. index.items \subseteq DOMAIN files
    BY <1>4, <1>6, <1>8, <2>1, <2>2
  <2>4. OnDisk(i) = {IF i \in index.items THEN files[i] ELSE None}
    BY <2>3 DEF OnDisk, Loadable, Named
  <2> QED
    BY <1>6, <1>8, <2>1, <2>2, <2>3, <2>4
<1> QED
  BY <1>1, <1>9, <1>10

\* The three ways in which the operations use it.  A new entry, of a request that has
\* none (Start).
LEMMA StartKeeps ==
  ASSUME HistoryAssumption, StoreInv, OneEntryPerRequest, Usable, NEW r \in Request,
         \A i \in DOMAIN entries : entries[i].of # r,
         StartEntry(Detail(r, "streaming"))
  PROVE  /\ StoreInv' /\ OneEntryPerRequest' /\ created' = created + 1 /\ UNCHANGED broken
         /\ AllSurvive
         /\ \A i \in DOMAIN entries' :
              (i = created + 1 /\ entries'[i].of = r) \/ (i \in DOMAIN entries /\ entries'[i] = entries[i])
         /\ \A i \in DOMAIN files' :
              \/ files'[i].of = r
              \/ i \in DOMAIN files /\ files'[i] = files[i]
              \/ i \in DOMAIN entries /\ files'[i] = entries[i]
<1> DEFINE d == Detail(r, "streaming")
           n == created + 1
           e == With(entries, n, d)
<1>1. /\ DOMAIN e = DOMAIN entries \union {n} /\ e[n] = d
      /\ \A j \in DOMAIN entries : j # n => e[j] = entries[j]
      /\ e = [j \in DOMAIN e |-> e[j]]
  BY DEF With
<1>2. d \in Details /\ d.of = r
  BY DEF Detail, Details, Status
<1>3. n \notin DOMAIN entries /\ created \in Nat /\ created' = n /\ n <= MaxEntries
      /\ DOMAIN entries \subseteq 1 .. n /\ n \in 1 .. n
      /\ Commit(e, limit, {n}) /\ limit \in Limits
  BY DEF StoreInv, StoreTypes, HistoryAssumption, StartEntry
<1> HIDE DEF e, d, n
<1>4. \A j \in DOMAIN e : e[j] \in Details
  BY <1>1, <1>2, <1>3 DEF StoreInv, StoreTypes
<1>5. \A i, j \in DOMAIN e : e[i].of = e[j].of => i = j
  BY <1>1, <1>2, <1>3 DEF OneEntryPerRequest
<1>6. Proper(e, {n})
  <2>1. created' \in {created, created + 1}
    BY <1>3 DEF n
  <2>2. created' \in DOMAIN e \ DOMAIN entries => created' = created + 1
    BY <1>3 DEF n
  <2> QED
    BY <1>1, <1>3, <1>4, <1>5, <2>1, <2>2 DEF Proper
<1>7. /\ StoreInv' /\ OneEntryPerRequest'
      /\ DOMAIN entries' \subseteq DOMAIN e /\ \A i \in DOMAIN entries' : entries'[i] = e[i]
      /\ \A i \in DOMAIN files' :
           (i \in DOMAIN files /\ files'[i] = files[i]) \/ (i \in DOMAIN e /\ files'[i] = e[i])
      /\ UNCHANGED broken
  BY <1>3, <1>6, CommitKeeps
<1>8. AllSurvive
  BY <1>3, <1>6, CommitSurvives
<1> QED
  BY <1>1, <1>2, <1>3, <1>7, <1>8 DEF n

\* A change of the entry of a request (Update).
LEMMA UpdateKeeps ==
  ASSUME HistoryAssumption, StoreInv, OneEntryPerRequest, Usable, NEW r \in Request,
         NEW st \in Status, NEW i \in DOMAIN entries, entries[i].of = r,
         Update(i, Detail(r, st))
  PROVE  /\ StoreInv' /\ OneEntryPerRequest' /\ created' = created /\ UNCHANGED broken
         /\ AllSurvive
         /\ DOMAIN entries' \subseteq DOMAIN entries
         /\ i \in DOMAIN entries' => entries'[i] = Detail(r, st)
         /\ \A j \in DOMAIN entries' : j # i => entries'[j] = entries[j]
         /\ \A j \in DOMAIN files' :
              \/ files'[j].of = r
              \/ j \in DOMAIN files /\ files'[j] = files[j]
              \/ j \in DOMAIN entries /\ files'[j] = entries[j]
<1> DEFINE d == Detail(r, st)
           e == With(entries, i, d)
<1>1. /\ DOMAIN e = DOMAIN entries /\ e[i] = d
      /\ \A j \in DOMAIN entries : j # i => e[j] = entries[j]
      /\ e = [j \in DOMAIN e |-> e[j]]
  BY DEF With
<1>2. d \in Details /\ d.of = r
  BY DEF Detail, Details
<1>3. created' = created /\ created \in Nat /\ created <= MaxEntries
      /\ DOMAIN entries \subseteq 1 .. created
      /\ Commit(e, limit, {i}) /\ limit \in Limits
  BY DEF StoreInv, StoreTypes, HistoryAssumption, Update
<1> HIDE DEF e, d
<1>4. \A j \in DOMAIN e : e[j] \in Details /\ e[j].of = entries[j].of
  BY <1>1, <1>2 DEF StoreInv, StoreTypes
<1>5. \A k, j \in DOMAIN e : e[k].of = e[j].of => k = j
  BY <1>1, <1>4 DEF OneEntryPerRequest
<1>6. Proper(e, {i})
  <2>1. created' \notin DOMAIN e \ DOMAIN entries
    BY <1>1
  <2> QED
    BY <1>1, <1>3, <1>4, <1>5, <2>1 DEF Proper
<1>7. /\ StoreInv' /\ OneEntryPerRequest'
      /\ DOMAIN entries' \subseteq DOMAIN e /\ \A j \in DOMAIN entries' : entries'[j] = e[j]
      /\ \A j \in DOMAIN files' :
           (j \in DOMAIN files /\ files'[j] = files[j]) \/ (j \in DOMAIN e /\ files'[j] = e[j])
      /\ UNCHANGED broken
  BY <1>3, <1>6, CommitKeeps
<1>8. \A j \in DOMAIN e : j = i \/ e[j] = entries[j]
  BY <1>1
<1>9. AllSurvive
  BY <1>3, <1>6, CommitSurvives
<1> QED
  BY <1>1, <1>2, <1>3, <1>7, <1>8, <1>9 DEF d

\* Entries that go, or a new limit (Delete, Clear, SetLimit).
LEMMA RemovalKeeps ==
  ASSUME HistoryAssumption, StoreInv, OneEntryPerRequest, Usable,
         \/ \E S \in SUBSET DOMAIN entries : Delete(S)
         \/ \E l \in Limits : SetLimit(l)
  PROVE  /\ StoreInv' /\ OneEntryPerRequest' /\ created' = created /\ UNCHANGED broken
         /\ AllSurvive
         /\ DOMAIN entries' \subseteq DOMAIN entries
         /\ \A j \in DOMAIN entries' : entries'[j] = entries[j]
         /\ \A j \in DOMAIN files' :
              \/ j \in DOMAIN files /\ files'[j] = files[j]
              \/ j \in DOMAIN entries /\ files'[j] = entries[j]
<1>1. PICK S \in SUBSET DOMAIN entries, l \in Limits :
        Commit(Without(entries, S), l, {}) /\ created' = created
  <2>1. CASE \E S \in SUBSET DOMAIN entries : Delete(S)
    BY <2>1 DEF Delete, StoreInv, StoreTypes
  <2>2. CASE \E l \in Limits : SetLimit(l)
    <3>1. entries = Without(entries, {})
      BY DEF Without, StoreInv, StoreTypes
    <3> QED
      BY <2>2, <3>1 DEF SetLimit
  <2> QED
    BY <2>1, <2>2
<1> DEFINE e == Without(entries, S)
<1>2. /\ DOMAIN e = DOMAIN entries \ S /\ e = [j \in DOMAIN e |-> e[j]]
      /\ \A j \in DOMAIN e : e[j] = entries[j]
  BY DEF Without
<1>3. created \in Nat /\ created <= MaxEntries /\ DOMAIN entries \subseteq 1 .. created
  BY DEF StoreInv, StoreTypes, HistoryAssumption
<1> HIDE DEF e
<1>4. \A j \in DOMAIN e : e[j] \in Details
  BY <1>2 DEF StoreInv, StoreTypes
<1>5. Proper(e, {})
  BY <1>1, <1>2, <1>3, <1>4 DEF Proper, OneEntryPerRequest
<1>6. /\ StoreInv' /\ OneEntryPerRequest'
      /\ DOMAIN entries' \subseteq DOMAIN e /\ \A j \in DOMAIN entries' : entries'[j] = e[j]
      /\ \A j \in DOMAIN files' :
           (j \in DOMAIN files /\ files'[j] = files[j]) \/ (j \in DOMAIN e /\ files'[j] = e[j])
      /\ UNCHANGED broken
  BY <1>1, <1>5, CommitKeeps DEF e
<1>7. AllSurvive
  BY <1>1, <1>5, CommitSurvives DEF e
<1> QED
  BY <1>1, <1>2, <1>6, <1>7

-----------------------------------------------------------------------------
(* The sessions.                                                            *)

\* What an action of the session of r may do to entries and files of other requests, and
\* what it leaves: entries and files of r, and those there were.
OthersAsTheyWere(r) ==
  /\ up /\ created' \in {created, created + 1} /\ broken' = broken
  /\ \A i \in DOMAIN entries' :
       \/ i = created + 1 /\ entries'[i].of = r
       \/ /\ i \in DOMAIN entries /\ entries'[i].of = entries[i].of
          /\ entries'[i].of = r \/ entries'[i] = entries[i]
  /\ \A i \in DOMAIN files' :
       \/ files'[i].of = r
       \/ i \in DOMAIN files /\ files'[i] = files[i]
       \/ ~broken /\ i \in DOMAIN entries /\ files'[i] = entries[i]

\* The session s of r after it agrees with the entries.
Agrees(r, s) ==
  /\ s \in [stage : Stages \ {"new", "gone"}, entry : (1 .. created') \union {None},
            writes : Status \union {None}]
  /\ s.stage \in {"missing", "again"} => s.entry # None /\ s.writes \in Status
  /\ s.stage = "ending" => s.writes \in Final
  /\ broken => s.entry = None
  /\ ~broken =>
       /\ s.stage = "missing" => s.entry \notin DOMAIN entries'
       /\ s.entry \in DOMAIN entries' => entries'[s.entry].of = r
       /\ \A i \in DOMAIN entries' : entries'[i].of = r => s.entry = i
       /\ s.stage = "over" =>
            \A i \in DOMAIN entries' : entries'[i].of = r => entries'[i].status \in Final

LEMMA OthersKept ==
  ASSUME UsageAssumption, StoreInv, StoreInv', SessionInv, FinishedIsFinal,
         NEW r \in Request, NEW s, Goes(r, s), OthersAsTheyWere(r), Agrees(r, s)
  PROVE  SessionInv' /\ FinishedIsFinal'
<1>1. /\ session \in [Request -> Sessions] /\ session' = [session EXCEPT ![r] = s]
      /\ session'[r] = s /\ \A q \in Request \ {r} : session'[q] = session[q]
  BY DEF SessionInv, Goes
<1>2. created \in Nat /\ created' \in Nat /\ 1 .. created \subseteq 1 .. created'
      /\ created + 1 \notin 1 .. created /\ None \notin 1 .. created /\ None \notin 1 .. created'
      /\ DOMAIN entries \subseteq 1 .. created /\ DOMAIN entries' \subseteq 1 .. created'
      /\ (\A i \in DOMAIN entries : entries[i] \in Details)
      /\ (\A i \in DOMAIN entries' : entries'[i] \in Details)
      /\ (\A i \in DOMAIN files : files[i] \in Details)
      /\ (\A i \in DOMAIN files' : files'[i] \in Details)
  BY DEF OthersAsTheyWere, UsageAssumption, StoreInv, StoreTypes
<1>3. session' \in [Request -> Sessions']
  <2>1. s \in Sessions'
    BY DEF Agrees, Sessions
  <2>2. \A q \in Request : session[q] \in Sessions'
    BY <1>1, <1>2 DEF Sessions
  <2> QED
    BY <1>1, <2>1, <2>2
<1>4. \A q \in Request :
        /\ session'[q].stage = "new" => session'[q].entry = None
        /\ session'[q].stage \in {"missing", "again"} =>
             session'[q].entry # None /\ session'[q].writes \in Status
        /\ session'[q].stage = "ending" => session'[q].writes \in Final
        /\ up' /\ broken' => session'[q].entry = None
  BY <1>1 DEF SessionInv, Agrees, OthersAsTheyWere
<1>5. \A i \in DOMAIN files' : session'[files'[i].of].stage # "new"
  <2> SUFFICES ASSUME NEW i \in DOMAIN files', files'[i].of # r
               PROVE  session[files'[i].of].stage # "new"
    BY <1>1, <1>2 DEF Agrees, Details
  <2>1. CASE i \in DOMAIN files /\ files'[i] = files[i]
    BY <2>1 DEF SessionInv
  <2>2. CASE ~broken /\ i \in DOMAIN entries /\ files'[i] = entries[i]
    <3>1. Usable /\ entries[i].of \in Request
      BY <1>2, <2>2 DEF Usable, OthersAsTheyWere, Details
    <3>2. session[entries[i].of].stage # "gone" => session[entries[i].of].entry = i
      BY <2>2, <3>1 DEF SessionInv
    <3>3. session[entries[i].of].stage = "new" => session[entries[i].of].entry = None
      BY <3>1 DEF SessionInv
    <3> QED
      BY <1>2, <2>2, <3>2, <3>3
  <2> QED
    BY <2>1, <2>2 DEF OthersAsTheyWere
<1>6. ASSUME Usable'
      PROVE  /\ \A q \in Request :
                  session'[q].stage = "missing" => session'[q].entry \notin DOMAIN entries'
             /\ \A q \in Request : session'[q].entry \in DOMAIN entries' =>
                  entries'[session'[q].entry].of = q
             /\ \A i \in DOMAIN entries' :
                  /\ session'[entries'[i].of].stage # "gone" => session'[entries'[i].of].entry = i
                  /\ session'[entries'[i].of].stage = "over" => entries'[i].status \in Final
  <2>1. Usable /\ ~broken
    BY <1>6 DEF Usable, OthersAsTheyWere
  <2>2. ASSUME NEW q \in Request \ {r}, session[q].entry \in DOMAIN entries'
        PROVE  session[q].entry \in DOMAIN entries /\ entries'[session[q].entry].of = q
               /\ session[q].stage # "missing"
    <3>1. session[q].entry \in DOMAIN entries
          /\ entries'[session[q].entry].of = entries[session[q].entry].of
      <4>1. session[q].entry # created + 1
        BY <1>1, <1>2, <2>2 DEF Sessions, OthersAsTheyWere
      <4> QED
        BY <2>2, <4>1 DEF OthersAsTheyWere
    <3> QED
      BY <2>1, <3>1 DEF SessionInv
  <2>3. \A q \in Request :
          /\ session'[q].stage = "missing" => session'[q].entry \notin DOMAIN entries'
          /\ session'[q].entry \in DOMAIN entries' => entries'[session'[q].entry].of = q
    BY <1>1, <2>1, <2>2 DEF Agrees
  <2>4. ASSUME NEW i \in DOMAIN entries'
        PROVE  /\ session'[entries'[i].of].stage # "gone" => session'[entries'[i].of].entry = i
               /\ session'[entries'[i].of].stage = "over" => entries'[i].status \in Final
    <3>1. CASE entries'[i].of = r
      BY <1>1, <2>1, <2>4, <3>1 DEF Agrees
    <3>2. CASE entries'[i].of # r
      <4>1. i \in DOMAIN entries /\ entries'[i] = entries[i]
        BY <2>4, <3>2 DEF OthersAsTheyWere
      <4>2. entries[i].of \in Request \ {r}
        BY <1>2, <3>2, <4>1 DEF Details
      <4> QED
        BY <1>1, <2>1, <4>1, <4>2 DEF SessionInv, FinishedIsFinal
    <3> QED
      BY <3>1, <3>2
  <2> QED
    BY <2>3, <2>4
<1>7. SessionInv'
  BY <1>3, <1>4, <1>5, <1>6 DEF SessionInv
<1>8. FinishedIsFinal'
  BY <1>6 DEF FinishedIsFinal
<1> QED
  BY <1>7, <1>8

\* What the store and the sessions keep.
HistoryInv == StoreInv /\ OneEntryPerRequest /\ SessionInv /\ FinishedIsFinal

LEMMA NothingWritten ==
  ASSUME HistoryInv, UNCHANGED historyVars, up, NEW r \in Request
  PROVE  StoreInv' /\ OneEntryPerRequest' /\ OthersAsTheyWere(r)
BY DEF HistoryInv, historyVars, StoreInv, StoreTypes, PendingCoversFiles, LostOnlyByDeletion,
       SameOwner, OneFilePerRequest, OneEntryPerRequest, Usable, OthersAsTheyWere

\* The facts about the session of r that its actions use.
LEMMA SessionFacts ==
  ASSUME UsageAssumption, HistoryInv, NEW r \in Request, up
  PROVE  /\ session[r] \in Sessions /\ created \in Nat
         /\ DOMAIN entries \subseteq 1 .. created /\ None \notin DOMAIN entries
         /\ broken => session[r].entry = None
         /\ ~broken =>
              /\ session[r].entry \in DOMAIN entries => entries[session[r].entry].of = r
              /\ session[r].stage # "gone" =>
                   \A i \in DOMAIN entries : entries[i].of = r => session[r].entry = i
              /\ session[r].stage = "over" =>
                   \A i \in DOMAIN entries : entries[i].of = r => entries[i].status \in Final
<1>1. DOMAIN entries \subseteq 1 .. created /\ created \in Nat
  BY DEF HistoryInv, StoreInv, StoreTypes
<1> QED
  BY <1>1 DEF HistoryInv, SessionInv, FinishedIsFinal, UsageAssumption, Usable
\* One lemma for each action of a session.
LEMMA BeginKeeps ==
  ASSUME HistoryAssumption, UsageAssumption, HistoryInv, NEW r \in Request, Begin(r)
  PROVE  HistoryInv'
<1>1. up /\ session[r].stage = "new" /\ session[r].entry = None
  BY DEF Begin, HistoryInv, SessionInv
<1> DEFINE idle == [Fresh EXCEPT !.stage = "live"]
           begun == [Fresh EXCEPT !.stage = "live", !.entry = created + 1]
<1>2. /\ \A i \in DOMAIN entries : ~broken => entries[i].of # r
      /\ None \notin DOMAIN entries
  BY <1>1, SessionFacts
<1>3. CASE broken \/ limit = 0
  <2>1. Goes(r, idle) /\ UNCHANGED historyVars
    BY <1>3 DEF Begin
  <2>2. StoreInv' /\ OneEntryPerRequest' /\ OthersAsTheyWere(r)
    BY <1>1, <2>1, NothingWritten
  <2>3. Agrees(r, idle)
    <3>1. idle = [stage |-> "live", entry |-> None, writes |-> None]
      BY DEF Fresh
    <3>2. UNCHANGED <<entries, created>>
      BY <2>1 DEF historyVars
    <3> HIDE DEF idle
    <3> QED
      BY <1>2, <3>1, <3>2 DEF Agrees, Stages
  <2> QED
    BY <2>1, <2>2, <2>3, OthersKept DEF HistoryInv
<1>4. CASE ~(broken \/ limit = 0)
  <2>1. Goes(r, begun) /\ StartEntry(Detail(r, "streaming"))
    BY <1>4 DEF Begin
  <2>2. /\ StoreInv' /\ OneEntryPerRequest' /\ created' = created + 1 /\ UNCHANGED broken
        /\ \A i \in DOMAIN entries' :
              (i = created + 1 /\ entries'[i].of = r) \/ (i \in DOMAIN entries /\ entries'[i] = entries[i])
        /\ \A i \in DOMAIN files' :
              \/ files'[i].of = r
              \/ i \in DOMAIN files /\ files'[i] = files[i]
              \/ i \in DOMAIN entries /\ files'[i] = entries[i]
    BY <1>1, <1>2, <1>4, <2>1, StartKeeps DEF HistoryInv, Usable
  <2>3. OthersAsTheyWere(r)
    BY <1>1, <1>4, <2>2 DEF OthersAsTheyWere
  <2>4. created + 1 \in 1 .. created' /\ created + 1 \notin DOMAIN entries
    BY <1>1, <2>2, SessionFacts
  <2>5. Agrees(r, begun)
    BY <1>2, <1>4, <2>2, <2>4 DEF Agrees, Fresh, Stages, Final
  <2> QED
    BY <2>1, <2>2, <2>3, <2>5, OthersKept DEF HistoryInv
<1> QED
  BY <1>3, <1>4

LEMMA PersistKeeps ==
  ASSUME HistoryAssumption, UsageAssumption, HistoryInv, NEW r \in Request, NEW st \in Status,
         up, session[r].stage \notin {"new", "gone"}, Persist(r, st)
  PROVE  HistoryInv'
<1> DEFINE s == session[r]
<1>1. /\ s \in Sessions /\ created \in Nat /\ None \notin DOMAIN entries
      /\ broken => s.entry = None
      /\ ~broken =>
           /\ s.entry \in DOMAIN entries => entries[s.entry].of = r
           /\ \A i \in DOMAIN entries : entries[i].of = r => s.entry = i
  BY SessionFacts
<1>2. /\ Wrote(r, st) = [s EXCEPT !.stage = After(st), !.writes = None]
      /\ After(st) \in {"live", "over"} /\ (After(st) = "over" => st \in Final)
  BY DEF Wrote, After
<1>3. CASE s.entry = None
  <2>1. Goes(r, Wrote(r, st)) /\ UNCHANGED historyVars
    BY <1>1, <1>3 DEF Persist
  <2>2. StoreInv' /\ OneEntryPerRequest' /\ OthersAsTheyWere(r)
    BY <2>1, NothingWritten
  <2>3. Agrees(r, Wrote(r, st))
    BY <1>1, <1>2, <1>3, <2>1 DEF Agrees, Sessions, Stages, historyVars
  <2> QED
    BY <2>1, <2>2, <2>3, OthersKept DEF HistoryInv
<1>4. CASE s.entry # None /\ s.entry \in DOMAIN entries
  <2>1. Goes(r, Wrote(r, st)) /\ Update(s.entry, Detail(r, st)) /\ Usable
    BY <1>1, <1>4 DEF Persist, Usable
  <2>2. entries[s.entry].of = r
    BY <1>1, <1>4
  <2>3. /\ StoreInv' /\ OneEntryPerRequest' /\ created' = created /\ UNCHANGED broken
        /\ DOMAIN entries' \subseteq DOMAIN entries
        /\ s.entry \in DOMAIN entries' => entries'[s.entry] = Detail(r, st)
        /\ \A j \in DOMAIN entries' : j # s.entry => entries'[j] = entries[j]
        /\ \A j \in DOMAIN files' :
              \/ files'[j].of = r
              \/ j \in DOMAIN files /\ files'[j] = files[j]
              \/ j \in DOMAIN entries /\ files'[j] = entries[j]
    BY <1>4, <2>1, <2>2, UpdateKeeps DEF HistoryInv
  <2>4. Detail(r, st).of = r /\ Detail(r, st).status = st
    BY DEF Detail
  <2>5. OthersAsTheyWere(r)
    BY <2>1, <2>2, <2>3, <2>4 DEF OthersAsTheyWere, Usable
  <2>6. Agrees(r, Wrote(r, st))
    <3>1. \A i \in DOMAIN entries' : entries'[i].of = r => i = s.entry
      BY <1>1, <2>1, <2>3 DEF Usable
    <3>2. Wrote(r, st) \in [stage : {"live", "over"}, entry : (1 .. created') \union {None},
                            writes : {None}]
          /\ Wrote(r, st).entry = s.entry /\ Wrote(r, st).stage = After(st)
      BY <1>1, <1>2, <2>3 DEF Sessions
    <3>3. \A i \in DOMAIN entries' : entries'[i].of = r => entries'[i].status = st
      BY <2>3, <2>4, <3>1
    <3>4. s.entry \in DOMAIN entries' => entries'[s.entry].of = r
      BY <2>3, <2>4
    <3> QED
      BY <1>2, <2>1, <3>1, <3>2, <3>3, <3>4 DEF Agrees, Stages, Usable
  <2> QED
    BY <2>1, <2>3, <2>5, <2>6, OthersKept DEF HistoryInv
<1>5. CASE s.entry # None /\ s.entry \notin DOMAIN entries
  <2>1. /\ Goes(r, [s EXCEPT !.stage = "missing", !.writes = st])
        /\ UNCHANGED historyVars
    BY <1>5 DEF Persist
  <2>2. StoreInv' /\ OneEntryPerRequest' /\ OthersAsTheyWere(r)
    BY <2>1, NothingWritten
  <2>3. Agrees(r, [s EXCEPT !.stage = "missing", !.writes = st])
    BY <1>1, <1>5, <2>1 DEF Agrees, Sessions, Stages, historyVars
  <2> QED
    BY <2>1, <2>2, <2>3, OthersKept DEF HistoryInv
<1> QED
  BY <1>3, <1>4, <1>5

LEMMA EndKeeps ==
  ASSUME UsageAssumption, HistoryInv, NEW r \in Request, End(r)
  PROVE  HistoryInv'
<1>1. PICK st \in Final : Goes(r, [session[r] EXCEPT !.stage = "ending", !.writes = st])
  BY DEF End
<1>2. up /\ session[r].stage = "live" /\ UNCHANGED historyVars
  BY DEF End
<1>3. StoreInv' /\ OneEntryPerRequest' /\ OthersAsTheyWere(r)
  BY <1>2, NothingWritten
<1>4. Agrees(r, [session[r] EXCEPT !.stage = "ending", !.writes = st])
  <2> DEFINE s == [session[r] EXCEPT !.stage = "ending", !.writes = st]
  <2>1. /\ session[r] \in Sessions
        /\ broken => session[r].entry = None
        /\ ~broken =>
             /\ session[r].entry \in DOMAIN entries => entries[session[r].entry].of = r
             /\ \A i \in DOMAIN entries : entries[i].of = r => session[r].entry = i
    BY <1>2, SessionFacts
  <2>2. /\ s \in [stage : {"ending"}, entry : (1 .. created) \union {None}, writes : {st}]
        /\ s.entry = session[r].entry
    BY <2>1 DEF Sessions
  <2>3. UNCHANGED <<entries, created>> /\ st \in Status
    BY <1>2 DEF historyVars, Final, Status
  <2> HIDE DEF s
  <2>5. Agrees(r, s)
    BY <2>1, <2>2, <2>3 DEF Agrees, Stages
  <2> QED
    BY <2>5 DEF s
<1> QED
  BY <1>1, <1>3, <1>4, OthersKept DEF HistoryInv

LEMMA RecreateKeeps ==
  ASSUME HistoryAssumption, UsageAssumption, HistoryInv, NEW r \in Request, Recreate(r)
  PROVE  HistoryInv'
<1> DEFINE s == session[r]
           given == [s EXCEPT !.stage = After(s.writes), !.entry = None, !.writes = None]
           anew == [s EXCEPT !.stage = "again", !.entry = created + 1]
<1>1. /\ up /\ s.stage = "missing" /\ s.entry # None /\ s.writes \in Status
      /\ Usable => s.entry \notin DOMAIN entries
  BY DEF Recreate, HistoryInv, SessionInv
<1>2. /\ s \in Sessions /\ created \in Nat /\ DOMAIN entries \subseteq 1 .. created /\ ~broken
      /\ None \notin DOMAIN entries
      /\ \A i \in DOMAIN entries : entries[i].of # r
  BY <1>1, SessionFacts DEF Usable
<1>3. CASE limit = 0
  <2>1. Goes(r, given) /\ UNCHANGED historyVars
    BY <1>3 DEF Recreate
  <2>2. StoreInv' /\ OneEntryPerRequest' /\ OthersAsTheyWere(r)
    BY <1>1, <2>1, NothingWritten
  <2>3. Agrees(r, given)
    <3>1. given \in [stage : {After(s.writes)}, entry : {None}, writes : {None}]
      BY <1>2 DEF Sessions
    <3>2. UNCHANGED <<entries, created>> /\ After(s.writes) \in {"live", "over"}
      BY <2>1 DEF historyVars, After
    <3> HIDE DEF given
    <3> QED
      BY <1>2, <3>1, <3>2 DEF Agrees, Stages
  <2> QED
    BY <2>1, <2>2, <2>3, OthersKept DEF HistoryInv
<1>4. CASE limit # 0
  <2>1. Goes(r, anew) /\ StartEntry(Detail(r, "streaming"))
    BY <1>4 DEF Recreate, Recreated
  <2>2. /\ StoreInv' /\ OneEntryPerRequest' /\ created' = created + 1 /\ UNCHANGED broken
        /\ \A i \in DOMAIN entries' :
              (i = created + 1 /\ entries'[i].of = r) \/ (i \in DOMAIN entries /\ entries'[i] = entries[i])
        /\ \A i \in DOMAIN files' :
              \/ files'[i].of = r
              \/ i \in DOMAIN files /\ files'[i] = files[i]
              \/ i \in DOMAIN entries /\ files'[i] = entries[i]
    BY <1>1, <1>2, <2>1, StartKeeps DEF HistoryInv, Usable
  <2>3. OthersAsTheyWere(r)
    BY <1>1, <1>2, <2>2 DEF OthersAsTheyWere
  <2>4. created + 1 \in 1 .. created' /\ created + 1 \notin DOMAIN entries
    BY <1>2, <2>2
  <2>5. created + 1 # None
    BY <1>2 DEF UsageAssumption
  <2>6. Agrees(r, anew)
    BY <1>1, <1>2, <2>2, <2>4, <2>5 DEF Agrees, Sessions, Stages
  <2> QED
    BY <2>1, <2>2, <2>3, <2>6, OthersKept DEF HistoryInv
<1> QED
  BY <1>3, <1>4
LEMMA PersistAgainKeeps ==
  ASSUME HistoryAssumption, UsageAssumption, HistoryInv, NEW r \in Request, PersistAgain(r)
  PROVE  HistoryInv'
<1> DEFINE s == session[r]
           given == [s EXCEPT !.stage = After(s.writes), !.entry = None, !.writes = None]
<1>1. up /\ s.stage = "again" /\ s.entry # None /\ s.writes \in Status
  BY DEF PersistAgain, HistoryInv, SessionInv
<1>2. /\ s \in Sessions /\ None \notin DOMAIN entries /\ ~broken
      /\ \A i \in DOMAIN entries : entries[i].of = r => s.entry = i
  BY <1>1, SessionFacts
<1>3. CASE s.entry \in DOMAIN entries
  <2>1. Persist(r, s.writes)
    BY <1>1, <1>3 DEF PersistAgain, Persist
  <2> QED
    BY <1>1, <2>1, PersistKeeps
<1>4. CASE s.entry \notin DOMAIN entries
  <2>1. Goes(r, given) /\ UNCHANGED historyVars
    BY <1>4 DEF PersistAgain
  <2>2. StoreInv' /\ OneEntryPerRequest' /\ OthersAsTheyWere(r)
    BY <1>1, <2>1, NothingWritten
  <2>3. Agrees(r, given)
    <3>1. given \in [stage : {After(s.writes)}, entry : {None}, writes : {None}]
      BY <1>2 DEF Sessions
    <3>2. UNCHANGED <<entries, created>> /\ After(s.writes) \in {"live", "over"}
      BY <2>1 DEF historyVars, After
    <3>3. \A i \in DOMAIN entries : entries[i].of # r
      BY <1>2, <1>4
    <3> HIDE DEF given
    <3> QED
      BY <1>2, <3>1, <3>2, <3>3 DEF Agrees, Stages
  <2> QED
    BY <2>1, <2>2, <2>3, OthersKept DEF HistoryInv
<1> QED
  BY <1>3, <1>4

LEMMA DiscardKeeps ==
  ASSUME HistoryAssumption, UsageAssumption, HistoryInv, NEW r \in Request, Discard(r)
  PROVE  HistoryInv'
<1> DEFINE s == session[r]
           over == [s EXCEPT !.stage = "over"]
<1>1. up /\ s.stage = "live" /\ Goes(r, over)
  BY DEF Discard
<1>2. /\ s \in Sessions /\ created \in Nat /\ DOMAIN entries \subseteq 1 .. created
      /\ broken => s.entry = None
      /\ None \notin DOMAIN entries
      /\ ~broken => \A i \in DOMAIN entries : entries[i].of = r => s.entry = i
  BY <1>1, SessionFacts
<1>3. over \in [stage : {"over"}, entry : (1 .. created) \union {None}, writes : Status \union {None}]
      /\ over.entry = s.entry
  BY <1>2 DEF Sessions
<1> HIDE DEF over
<1>4. CASE s.entry \in DOMAIN entries
  <2>1. Delete({s.entry}) /\ Usable
    BY <1>1, <1>2, <1>4 DEF Discard, Usable
  <2>2. \E S \in SUBSET DOMAIN entries : Delete(S)
    BY <1>4, <2>1
  <2>3. /\ StoreInv' /\ OneEntryPerRequest' /\ created' = created /\ UNCHANGED broken
        /\ DOMAIN entries' \subseteq DOMAIN entries
        /\ \A j \in DOMAIN entries' : entries'[j] = entries[j]
        /\ \A j \in DOMAIN files' :
              \/ j \in DOMAIN files /\ files'[j] = files[j]
              \/ j \in DOMAIN entries /\ files'[j] = entries[j]
    BY <2>1, <2>2, RemovalKeeps DEF HistoryInv
  <2>4. s.entry \notin DOMAIN entries'
    BY <2>1 DEF Delete, Commit, Kept, Without
  <2>5. OthersAsTheyWere(r)
    BY <2>1, <2>3 DEF OthersAsTheyWere, Usable
  <2>6. \A i \in DOMAIN entries' : entries'[i].of # r
    BY <1>2, <2>1, <2>3, <2>4 DEF Usable
  <2>7. Agrees(r, over)
    BY <1>2, <1>3, <2>3, <2>4, <2>6 DEF Agrees, Stages
  <2> QED
    BY <1>1, <2>3, <2>5, <2>7, OthersKept DEF HistoryInv
<1>5. CASE s.entry \notin DOMAIN entries
  <2>1. UNCHANGED historyVars
    BY <1>5 DEF Discard
  <2>2. StoreInv' /\ OneEntryPerRequest' /\ OthersAsTheyWere(r)
    BY <1>1, <2>1, NothingWritten
  <2>3. UNCHANGED <<entries, created>>
    BY <2>1 DEF historyVars
  <2>4. ~broken => \A i \in DOMAIN entries : entries[i].of # r
    BY <1>2, <1>5
  <2>5. Agrees(r, over)
    BY <1>2, <1>3, <1>5, <2>3, <2>4 DEF Agrees, Stages
  <2> QED
    BY <1>1, <2>2, <2>5, OthersKept DEF HistoryInv
<1> QED
  BY <1>4, <1>5

\* The operator of the console takes entries away, whosever they are.
LEMMA ConsoleKeeps ==
  ASSUME HistoryAssumption, UsageAssumption, HistoryInv, DeleteEntry \/ ClearHistory \/ ChangeLimit
  PROVE  HistoryInv'
<1>1. Usable /\ UNCHANGED session
  BY DEF DeleteEntry, ClearHistory, ChangeLimit
<1>2. \/ \E S \in SUBSET DOMAIN entries : Delete(S)
      \/ \E l \in Limits : SetLimit(l)
  <2>1. \A i \in DOMAIN entries : {i} \in SUBSET DOMAIN entries
    OBVIOUS
  <2> QED
    BY <2>1 DEF DeleteEntry, ClearHistory, ChangeLimit
<1>3. /\ StoreInv' /\ OneEntryPerRequest' /\ created' = created /\ UNCHANGED broken
      /\ DOMAIN entries' \subseteq DOMAIN entries
      /\ \A j \in DOMAIN entries' : entries'[j] = entries[j]
      /\ \A j \in DOMAIN files' :
           \/ j \in DOMAIN files /\ files'[j] = files[j]
           \/ j \in DOMAIN entries /\ files'[j] = entries[j]
  BY <1>1, <1>2, RemovalKeeps DEF HistoryInv
<1>4. \A j \in DOMAIN entries : entries[j].of \in Request /\ session[entries[j].of].stage # "new"
  <2> SUFFICES ASSUME NEW j \in DOMAIN entries
               PROVE  entries[j].of \in Request /\ session[entries[j].of].stage # "new"
    OBVIOUS
  <2>1. entries[j].of \in Request
    BY DEF HistoryInv, StoreInv, StoreTypes, Details
  <2> QED
    BY <1>1, <2>1, SessionFacts DEF HistoryInv, SessionInv, Usable
<1>5. SessionInv'
  <2>1. session' \in [Request -> Sessions']
    BY <1>1, <1>3 DEF HistoryInv, SessionInv, Sessions
  <2>2. \A i \in DOMAIN files' : session'[files'[i].of].stage # "new"
    BY <1>1, <1>3, <1>4 DEF HistoryInv, SessionInv
  <2> QED
    BY <1>1, <1>3, <2>1, <2>2 DEF HistoryInv, SessionInv, Usable
<1>6. FinishedIsFinal'
  BY <1>1, <1>3 DEF HistoryInv, FinishedIsFinal
<1> QED
  BY <1>3, <1>5, <1>6 DEF HistoryInv

LEMMA CrashKeeps ==
  ASSUME HistoryAssumption, HistoryInv, Crash
  PROVE  HistoryInv'
<1>1. /\ up' = FALSE /\ faults' = faults + 1 /\ faults < MaxFaults
      /\ UNCHANGED <<broken, entries, limit, dirty, deleted, files, index, created, session>>
  BY DEF Crash, CrashHistory
<1>2. faults' \in 0 .. MaxFaults
  BY <1>1 DEF HistoryInv, StoreInv, StoreTypes, HistoryAssumption
<1>3. StoreTypes'
  BY <1>1, <1>2 DEF HistoryInv, StoreInv, StoreTypes
<1>4. ~Usable'
  BY <1>1 DEF Usable
<1>5. StoreInv' /\ OneEntryPerRequest' /\ FinishedIsFinal'
  BY <1>1, <1>3, <1>4 DEF HistoryInv, StoreInv, PendingCoversFiles, LostOnlyByDeletion,
                          SameOwner, OneFilePerRequest, OneEntryPerRequest, FinishedIsFinal
<1>6. SessionInv'
  BY <1>1, <1>4 DEF HistoryInv, SessionInv, Sessions
<1> QED
  BY <1>5, <1>6 DEF HistoryInv

\* A start takes what the files hold; the sessions before it are no more.
LEMMA RestartKeeps ==
  ASSUME HistoryAssumption, UsageAssumption, HistoryInv, Restart
  PROVE  HistoryInv'
<1>1. /\ up' = TRUE /\ broken' = ~Loadable /\ limit' = index.limit
      /\ dirty' = {} /\ deleted' = {} /\ UNCHANGED <<files, index, created, faults>>
      /\ entries' = IF Loadable THEN [i \in index.items |-> files[i]] ELSE NoEntries
  BY DEF Restart, LoadHistory, Named
<1>2. session' = [r \in Request |->
                    IF session[r].stage = "new" THEN Fresh ELSE [Fresh EXCEPT !.stage = "gone"]]
  BY DEF Restart
<1>3. /\ DOMAIN entries' \subseteq index.items /\ DOMAIN entries' \subseteq DOMAIN files
      /\ \A i \in DOMAIN entries' : entries'[i] = files[i]
      /\ entries' = [i \in DOMAIN entries' |-> entries'[i]]
      /\ Usable' => DOMAIN entries' = index.items
      /\ Cardinality(DOMAIN entries') = Cardinality(index.items) \/ DOMAIN entries' = {}
  <2>1. CASE Loadable
    BY <1>1, <2>1 DEF Loadable, Named
  <2>2. CASE ~Loadable
    BY <1>1, <2>2 DEF NoEntries, Usable
  <2> QED
    BY <2>1, <2>2
<1>4. StoreTypes'
  <2>1. limit' # 0 => Cardinality(DOMAIN entries') <= limit'
    <3>1. Cardinality({}) = 0 /\ index.limit \in Nat
      BY FS_EmptySet DEF HistoryInv, StoreInv, StoreTypes, HistoryAssumption
    <3>2. index.limit # 0 => Cardinality(index.items) <= index.limit
      BY DEF HistoryInv, StoreInv, StoreTypes
    <3>3. \/ Cardinality(DOMAIN entries') = Cardinality(index.items)
          \/ Cardinality(DOMAIN entries') = 0
      BY <1>3, <3>1
    <3>4. limit' = index.limit
      BY <1>1
    <3> QED
      BY <3>1, <3>2, <3>3, <3>4
  <2>2. \A i \in DOMAIN entries' : entries'[i] \in Details
    BY <1>3 DEF HistoryInv, StoreInv, StoreTypes
  <2> QED
    BY <1>1, <1>3, <2>1, <2>2 DEF HistoryInv, StoreInv, StoreTypes
<1>5. PendingCoversFiles' /\ LostOnlyByDeletion' /\ SameOwner' /\ OneFilePerRequest'
  BY <1>1, <1>3 DEF HistoryInv, StoreInv, PendingCoversFiles, LostOnlyByDeletion, SameOwner,
                    OneFilePerRequest
<1>6. OneEntryPerRequest'
  BY <1>3 DEF HistoryInv, StoreInv, OneFilePerRequest, OneEntryPerRequest
<1>7. \A r \in Request :
        /\ session'[r] \in [stage : {"new", "gone"}, entry : {None}, writes : {None}]
        /\ session'[r].stage = "new" <=> session[r].stage = "new"
  BY <1>2 DEF Fresh
<1>8. session' \in [Request -> Sessions']
  BY <1>2, <1>7 DEF Sessions, Stages
<1>9. \A i \in DOMAIN files : files[i].of \in Request /\ session[files[i].of].stage # "new"
  BY DEF HistoryInv, StoreInv, StoreTypes, SessionInv, Details
<1>10. None \notin DOMAIN entries'
  BY <1>3 DEF HistoryInv, StoreInv, StoreTypes, UsageAssumption
<1>11. \A i \in DOMAIN entries' : entries'[i].of \in Request /\ session'[entries'[i].of].stage = "gone"
  BY <1>3, <1>7, <1>9
<1>12. SessionInv'
  BY <1>1, <1>7, <1>8, <1>9, <1>10, <1>11 DEF SessionInv
<1>13. FinishedIsFinal'
  BY <1>11 DEF FinishedIsFinal
<1> QED
  BY <1>4, <1>5, <1>6, <1>12, <1>13 DEF HistoryInv, StoreInv
-----------------------------------------------------------------------------
(* The ledger.                                                              *)

\* A step that leaves the ledger alone, and after which no other request is uncounted.
LEMMA LedgerFrame ==
  ASSUME LedgerInv, UNCHANGED ledgerVars, \A r \in Request : Uncounted(r)' => Uncounted(r)
  PROVE  LedgerInv'
BY DEF LedgerInv, AtMostOnce, ledgerVars

LEMMA UncountedOnlyFrom ==
  ASSUME SessionInv, LedgerInv, NEW r \in Request, NEW s, Goes(r, s), UNCHANGED ledgerVars,
         \/ s.stage = "live"
         \/ s.stage \in {"missing", "again"} /\ s.writes \notin Final
         => Uncounted(r),
         s.stage # "new"
  PROVE  LedgerInv'
<1>1. session'[r] = s /\ \A q \in Request \ {r} : session'[q] = session[q]
  BY DEF SessionInv, Goes
<1>2. \A q \in Request : Uncounted(q)' => Uncounted(q)
  BY <1>1 DEF Uncounted
<1> QED
  BY <1>2, LedgerFrame

\* New and smaller counts are fine: the change of the ledger, and what a flush holds.
LEMMA OutdatedKeeps ==
  ASSUME NEW fs, fs \in [Flusher -> {None} \union Flushes],
         \A f \in Flusher : fs[f] # None => AtMostOnce(fs[f].counts)
  PROVE  /\ Outdated(fs) \in [Flusher -> {None} \union Flushes]
         /\ \A f \in Flusher : Outdated(fs)[f] # None => AtMostOnce(Outdated(fs)[f].counts)
<1>1. \A f \in Flusher : Outdated(fs)[f] = IF fs[f] = None THEN None
                                           ELSE [fs[f] EXCEPT !.current = FALSE]
  BY DEF Outdated
<1>2. \A f \in Flusher : fs[f] # None =>
        /\ [fs[f] EXCEPT !.current = FALSE] \in Flushes
        /\ [fs[f] EXCEPT !.current = FALSE].counts = fs[f].counts
  BY DEF Flushes
<1>3. Outdated(fs) \in [Flusher -> {None} \union Flushes]
  BY <1>1, <1>2 DEF Outdated
<1>4. \A f \in Flusher : Outdated(fs)[f] # None => AtMostOnce(Outdated(fs)[f].counts)
  BY <1>1, <1>2
<1> QED
  BY <1>3, <1>4

\* A request is counted at its end, which its session reaches once.
LEMMA EndCounts ==
  ASSUME SessionInv, LedgerInv, NEW r \in Request, End(r)
  PROVE  LedgerInv'
<1>1. PICK st \in Final :
        /\ IF st \in Counted THEN Record(r) ELSE UNCHANGED ledgerVars
        /\ Goes(r, [session[r] EXCEPT !.stage = "ending", !.writes = st])
  BY DEF End
<1>2. session[r].stage = "live" /\ session[r] \in Sessions
  BY DEF End, SessionInv
<1>3. /\ session'[r].stage = "ending"
      /\ \A q \in Request \ {r} : session'[q] = session[q]
  BY <1>1, <1>2 DEF SessionInv, Goes, Sessions
<1>4. /\ \A q \in Request : Uncounted(q)' => Uncounted(q) /\ q # r
      /\ Uncounted(r)
  BY <1>2, <1>3 DEF Uncounted
<1>5. CASE UNCHANGED ledgerVars
  BY <1>4, <1>5, LedgerFrame
<1>6. CASE recording /\ DataChanges([ledger EXCEPT ![r] = @ + 1])
  <2>1. /\ ledger' = [ledger EXCEPT ![r] = @ + 1] /\ unflushed' = TRUE
        /\ flush' = Outdated(flush) /\ UNCHANGED <<recording, ledgerFile, backfilled>>
    BY <1>6 DEF DataChanges
  <2>2. ledger[r] = 0 /\ ledger \in [Request -> Nat]
    BY <1>4 DEF LedgerInv, AtMostOnce
  <2>3. ledger' \in [Request -> Nat] /\ ledger'[r] = 1
        /\ \A q \in Request \ {r} : ledger'[q] = ledger[q]
    BY <2>1, <2>2
  <2>4. AtMostOnce(ledger)'
    BY <1>4, <2>3 DEF LedgerInv, AtMostOnce
  <2>5. /\ flush' \in [Flusher -> {None} \union Flushes]
        /\ \A f \in Flusher : flush'[f] # None => AtMostOnce(flush'[f].counts)
    BY <2>1, OutdatedKeeps DEF LedgerInv
  <2>6. AtMostOnce(ledgerFile)' /\ \A f \in Flusher : flush'[f] # None => AtMostOnce(flush[f].counts)'
    BY <1>4, <2>1, <2>5 DEF LedgerInv, AtMostOnce
  <2> QED
    BY <2>1, <2>3, <2>4, <2>5, <2>6 DEF LedgerInv
<1> QED
  BY <1>1, <1>5, <1>6 DEF Record

\* Flushes and the operations of the console move counts that are right.
LEMMA LedgerMovesKeep ==
  ASSUME LedgerInv, FlushLedger \/ ConsoleClearsLedger \/ ConsoleSetsRecording
  PROVE  LedgerInv'
<1>1. UNCHANGED session /\ \A r \in Request : Uncounted(r)' <=> Uncounted(r)
  BY DEF FlushLedger, ConsoleClearsLedger, ConsoleSetsRecording, Uncounted
<1>2. ASSUME NEW l
      PROVE  (\A r \in Request : l[r] <= 1 /\ (Uncounted(r) => l[r] = 0)) =>
             (\A r \in Request : l[r] <= 1 /\ (Uncounted(r)' => l[r] = 0))
  BY <1>1
<1> DEFINE Right(l) == \A r \in Request : l[r] <= 1 /\ (Uncounted(r)' => l[r] = 0)
<1>3. /\ Right(ledger) /\ Right(ledgerFile)
      /\ \A f \in Flusher : flush[f] # None => Right(flush[f].counts)
  BY <1>2 DEF LedgerInv, AtMostOnce
<1> DEFINE RightNext ==
             /\ recording' \in BOOLEAN /\ unflushed' \in BOOLEAN /\ backfilled' \in BOOLEAN
             /\ ledger' \in [Request -> Nat] /\ ledgerFile' \in [Request -> Nat]
             /\ flush' \in [Flusher -> {None} \union Flushes]
             /\ Right(ledger') /\ Right(ledgerFile')
             /\ \A f \in Flusher : flush'[f] # None => Right(flush'[f].counts)
<1>4. SUFFICES RightNext
  BY DEF LedgerInv, AtMostOnce
<1>5. Empty \in [Request -> Nat] /\ Right(Empty)
  BY DEF Empty
<1> HIDE DEF Right
<1>6. ASSUME NEW f \in Flusher, FlushBegins(f)
      PROVE  RightNext
  <2>1. [counts |-> ledger, current |-> TRUE] \in Flushes
    BY DEF LedgerInv, Flushes
  <2> QED
    BY <1>3, <1>6, <2>1 DEF FlushBegins, LedgerInv
<1>7. ASSUME NEW f \in Flusher, FlushEnds(f)
      PROVE  RightNext
  <2>1. flush[f] \in Flushes
    BY <1>7 DEF FlushEnds, LedgerInv
  <2> QED
    BY <1>3, <1>7, <2>1 DEF FlushEnds, LedgerInv, Flushes
<1>8. ASSUME NEW f \in Flusher, FlushFails(f)
      PROVE  RightNext
  BY <1>3, <1>8 DEF FlushFails, LedgerInv
<1>9. CASE ClearLedger
  <2> DEFINE emptied == [counts |-> Empty, current |-> TRUE]
  <2>1. emptied \in Flushes /\ emptied.counts = Empty
    BY <1>5 DEF Flushes
  <2>2. /\ Outdated(flush) \in [Flusher -> {None} \union Flushes]
        /\ \A f \in Flusher : Outdated(flush)[f] # None => Outdated(flush)[f].counts = flush[f].counts
                                                          /\ flush[f] # None
    <3>1. \A f \in Flusher : flush[f] # None =>
            /\ [flush[f] EXCEPT !.current = FALSE] \in Flushes
            /\ [flush[f] EXCEPT !.current = FALSE].counts = flush[f].counts
      BY DEF LedgerInv, Flushes
    <3> QED
      BY <3>1 DEF Outdated
  <2> HIDE DEF emptied
  <2>3. /\ ledger' = Empty /\ unflushed' = TRUE /\ UNCHANGED <<recording, ledgerFile, backfilled>>
        /\ flush' = [Outdated(flush) EXCEPT !["console"] = emptied]
    BY <1>9 DEF ClearLedger, emptied
  <2>4. /\ flush' \in [Flusher -> {None} \union Flushes]
        /\ \A f \in Flusher : flush'[f] # None => Right(flush'[f].counts)
    <3>1. "console" \in Flusher
      BY DEF Flusher
    <3> QED
      BY <1>3, <1>5, <2>1, <2>2, <2>3, <3>1
  <2> QED
    BY <1>3, <1>5, <2>3, <2>4 DEF LedgerInv
<1>10. CASE SetRecording
  BY <1>3, <1>10 DEF SetRecording, LedgerInv
<1> QED
  BY <1>6, <1>7, <1>8, <1>9, <1>10
     DEF FlushLedger, ConsoleClearsLedger, ConsoleSetsRecording, Flusher
\* A set in which any two members are equal has no more than one.
LEMMA AtMostOneMember ==
  ASSUME NEW S, \A i, j \in S : i = j
  PROVE  Cardinality(S) \in {0, 1} /\ (S = {} => Cardinality(S) = 0)
<1>1. CASE S = {}
  BY <1>1, FS_EmptySet
<1>2. CASE S # {}
  <2>1. PICK i : S = {i}
    BY <1>2
  <2> QED
    BY <1>2, <2>1, FS_Singleton
<1> QED
  BY <1>1, <1>2

\* The backfill counts the one entry of a finished request, and only when nothing is
\* counted yet.
LEMMA RestartCounts ==
  ASSUME HistoryInv, HistoryInv', LedgerInv, Restart
  PROVE  LedgerInv'
<1>1. PICK saved \in BOOLEAN : LedgerLoads(Finished, saved)
  BY DEF Restart
<1>2. \A r \in Request : Uncounted(r)' => session[r].stage = "new" /\ session'[r].stage = "new"
  BY DEF Restart, Fresh, Uncounted
<1>3. ASSUME NEW r \in Request
      PROVE  Finished[r] \in {0, 1} /\ (Uncounted(r)' => Finished[r] = 0)
  <2> DEFINE S == {i \in DOMAIN entries' : entries'[i].of = r /\ entries'[i].status \in Counted}
  <2>1. Finished[r] = Cardinality(S)
    BY DEF Finished
  <2>2. \A i, j \in S : i = j
    <3>1. CASE Usable'
      BY <3>1 DEF HistoryInv, OneEntryPerRequest
    <3>2. CASE ~Usable'
      BY <3>2 DEF Restart, LoadHistory, Usable, NoEntries
    <3> QED
      BY <3>1, <3>2
  <2>3. Uncounted(r)' => S = {}
    <3>1. \A i \in DOMAIN entries' : i \in DOMAIN files /\ entries'[i] = files[i]
      BY DEF Restart, LoadHistory, Loadable, NoEntries
    <3> QED
      BY <1>2, <3>1 DEF HistoryInv, SessionInv
  <2> HIDE DEF S
  <2> QED
    BY <2>1, <2>2, <2>3, AtMostOneMember
<1>4. \A r \in Request : ledgerFile[r] \in Nat /\ ledgerFile[r] <= 1
                         /\ (Uncounted(r)' => ledgerFile[r] = 0)
  BY <1>2 DEF LedgerInv, AtMostOnce, Uncounted
<1>5. /\ flush' = [f \in Flusher |-> None] /\ recording' = recording
  BY <1>1 DEF LedgerLoads
<1> DEFINE Right(l) == l \in [Request -> Nat]
                       /\ \A r \in Request : l[r] <= 1 /\ (Uncounted(r)' => l[r] = 0)
           sum == [r \in Request |-> ledgerFile[r] + Finished[r]]
<1>6. Right(ledgerFile)
  BY <1>4 DEF LedgerInv
<1>7. MayBackfill => Right(sum)
  <2> SUFFICES ASSUME MayBackfill PROVE Right(sum)
    OBVIOUS
  <2>1. \A r \in Request : ledgerFile[r] = 0
    BY DEF MayBackfill, Empty
  <2>2. \A r \in Request : sum[r] \in Nat /\ sum[r] = Finished[r]
    BY <1>3, <2>1
  <2>3. sum \in [Request -> Nat]
    BY <2>2
  <2> HIDE DEF sum
  <2> QED
    BY <1>3, <2>2, <2>3
<1> HIDE DEF Right
<1>8. /\ Right(ledger') /\ Right(ledgerFile')
      /\ unflushed' \in BOOLEAN /\ backfilled' \in BOOLEAN
  <2>1. CASE ~recording \/ backfilled \/ Finished = Empty
    BY <1>1, <1>6, <2>1 DEF LedgerLoads, LedgerInv
  <2>2. CASE ~(~recording \/ backfilled \/ Finished = Empty)
    <3>1. /\ ledger' = IF MayBackfill THEN sum ELSE ledgerFile
          /\ ledgerFile' = IF saved THEN ledger' ELSE ledgerFile
          /\ unflushed' = (ledger' # ledgerFile')
          /\ backfilled' = (saved \/ ~MayBackfill)
      BY <1>1, <2>2 DEF LedgerLoads
    <3> HIDE DEF sum
    <3>2. Right(ledger') /\ Right(ledgerFile')
      BY <1>6, <1>7, <3>1
    <3>3. (saved \/ ~MayBackfill) \in BOOLEAN /\ (ledger' # ledgerFile') \in BOOLEAN
      OBVIOUS
    <3> QED
      BY <3>1, <3>2, <3>3, Zenon
  <2> QED
    BY <2>1, <2>2
<1> QED
  BY <1>5, <1>8 DEF LedgerInv, AtMostOnce, Right

-----------------------------------------------------------------------------
(* Every step.                                                              *)

LEMMA RecordsInit ==
  ASSUME HistoryAssumption, UsageAssumption, Init
  PROVE  RecordsInv
<1>1. /\ up = TRUE /\ broken = FALSE /\ entries = NoEntries /\ files = NoEntries
      /\ limit = DefaultLimit /\ index = [limit |-> DefaultLimit, items |-> {}]
      /\ dirty = {} /\ deleted = {} /\ created = 0 /\ faults = 0
      /\ session = [r \in Request |-> Fresh]
  BY DEF Init, HistoryInit
<1>2. DOMAIN entries = {} /\ DOMAIN files = {}
      /\ entries = [i \in DOMAIN entries |-> entries[i]] /\ files = [i \in DOMAIN files |-> files[i]]
  BY <1>1 DEF NoEntries
<1>3. StoreTypes
  <2>1. Cardinality({}) = 0
    BY FS_EmptySet
  <2>2. /\ limit \in Limits /\ limit \in Nat /\ index.limit = limit /\ index.items = {}
        /\ created \in 0 .. MaxEntries /\ faults \in 0 .. MaxFaults
    BY <1>1 DEF HistoryAssumption
  <2>3. index \in [limit : Limits, items : SUBSET (1 .. created)]
    BY <1>1, <2>2
  <2>4. limit # 0 => 0 <= limit
    BY <2>2
  <2>5. /\ up \in BOOLEAN /\ broken \in BOOLEAN
        /\ entries \in [DOMAIN entries -> Details] /\ files \in [DOMAIN files -> Details]
    BY <1>1, <1>2
  <2> QED
    BY <1>1, <1>2, <2>1, <2>2, <2>3, <2>4, <2>5 DEF StoreTypes
<1>4. StoreInv /\ OneEntryPerRequest /\ FinishedIsFinal
  BY <1>1, <1>2, <1>3 DEF StoreInv, PendingCoversFiles, LostOnlyByDeletion, SameOwner,
                          OneFilePerRequest, OneEntryPerRequest, FinishedIsFinal
<1>5. SessionInv
  <2>1. Fresh \in Sessions /\ Fresh.stage = "new" /\ Fresh.entry = None
    BY DEF Fresh, Sessions, Stages
  <2> HIDE DEF Fresh
  <2>2. \A r \in Request : session[r] = Fresh
    BY <1>1
  <2>3. session \in [Request -> Sessions]
    BY <1>1, <2>1
  <2> QED
    BY <1>2, <2>1, <2>2, <2>3 DEF SessionInv
<1>6. LedgerInv
  <2>1. /\ recording = TRUE /\ unflushed = FALSE /\ backfilled = FALSE
        /\ ledger = Empty /\ ledgerFile = Empty /\ flush = [f \in Flusher |-> None]
    BY DEF Init, LedgerInit
  <2>2. Empty \in [Request -> Nat] /\ \A r \in Request : Empty[r] = 0
    BY DEF Empty
  <2>3. AtMostOnce(Empty)
    BY <2>2 DEF AtMostOnce
  <2>4. recording \in BOOLEAN /\ unflushed \in BOOLEAN /\ backfilled \in BOOLEAN
    BY <2>1
  <2> QED
    BY <2>1, <2>2, <2>3, <2>4 DEF LedgerInv
<1> QED
  BY <1>4, <1>5, <1>6 DEF RecordsInv

\* What an action of a session leaves to be counted.
LEMMA SessionCounts ==
  ASSUME SessionInv, LedgerInv, NEW r \in Request,
         Begin(r) \/ Progress(r) \/ PersistEnd(r) \/ Recreate(r) \/ PersistAgain(r) \/ Discard(r)
  PROVE  LedgerInv'
<1>1. session[r] \in Sessions /\ UNCHANGED ledgerVars
  BY DEF SessionInv, Begin, Progress, PersistEnd, Recreate, PersistAgain, Discard
<1>2. \A s : Goes(r, s) => session'[r] = s /\ \A q \in Request \ {r} : session'[q] = session[q]
  BY DEF SessionInv, Goes
<1>3. SUFFICES \E s : Goes(r, s) /\ s.stage # "new"
                      /\ (\/ s.stage = "live"
                          \/ s.stage \in {"missing", "again"} /\ s.writes \notin Final
                          => Uncounted(r))
  BY <1>1, UncountedOnlyFrom
<1>4. CASE Begin(r)
  <2>1. Uncounted(r)
    BY <1>4 DEF Begin, Uncounted
  <2>2. \E s : Goes(r, s) /\ s.stage = "live"
    <3>1. [Fresh EXCEPT !.stage = "live"].stage = "live"
      BY DEF Fresh
    <3>2. [Fresh EXCEPT !.stage = "live", !.entry = created + 1].stage = "live"
      BY DEF Fresh
    <3>3. \/ Goes(r, [Fresh EXCEPT !.stage = "live"])
          \/ Goes(r, [Fresh EXCEPT !.stage = "live", !.entry = created + 1])
      BY <1>4 DEF Begin
    <3> QED
      BY <3>1, <3>2, <3>3
  <2> QED
    BY <2>1, <2>2
<1>5. ASSUME NEW st \in Status, Persist(r, st)
      PROVE  \E s : Goes(r, s) /\ s.stage \in {"live", "over", "missing"}
                    /\ (s.stage = "live" => st \notin Final) /\ (s.stage = "missing" => s.writes = st)
  <2> DEFINE gone == [session[r] EXCEPT !.stage = "missing", !.writes = st]
  <2>1. gone.stage = "missing" /\ gone.writes = st
    BY <1>1 DEF Sessions
  <2>2. /\ Wrote(r, st).stage = After(st) /\ After(st) \in {"live", "over"}
        /\ After(st) = "live" => st \notin Final
    BY <1>1 DEF Sessions, Wrote, After
  <2>3. Goes(r, gone) \/ Goes(r, Wrote(r, st))
    BY <1>5 DEF Persist
  <2> QED
    BY <2>1, <2>2, <2>3
<1>6. CASE Progress(r)
  <2>1. Uncounted(r) /\ Persist(r, "progress") /\ "progress" \in Status
    BY <1>6 DEF Progress, Uncounted, Status
  <2>2. PICK s : Goes(r, s) /\ s.stage \in {"live", "over", "missing"}
    BY <1>5, <2>1
  <2> QED
    BY <2>1, <2>2
<1>7. CASE PersistEnd(r)
  <2>1. session[r].writes \in Final /\ Persist(r, session[r].writes) /\ session[r].writes \in Status
    BY <1>7 DEF PersistEnd, SessionInv, Final, Status
  <2>2. PICK s : Goes(r, s) /\ s.stage \in {"live", "over", "missing"}
                 /\ (s.stage = "live" => session[r].writes \notin Final)
                 /\ (s.stage = "missing" => s.writes = session[r].writes)
    BY <1>5, <2>1
  <2> QED
    BY <2>1, <2>2
<1>8. CASE Recreate(r) \/ PersistAgain(r)
  <2> DEFINE given == [session[r] EXCEPT !.stage = After(session[r].writes), !.entry = None,
                                         !.writes = None]
             anew == [session[r] EXCEPT !.stage = "again", !.entry = created + 1]
             wrote == Wrote(r, session[r].writes)
  <2>1. session[r].stage \in {"missing", "again"} /\ (session[r].writes \notin Final => Uncounted(r))
    BY <1>8 DEF Recreate, PersistAgain, Uncounted
  <2>2. /\ given.stage = After(session[r].writes) /\ wrote.stage = After(session[r].writes)
        /\ anew.stage = "again" /\ anew.writes = session[r].writes
    BY <1>1 DEF Sessions, Wrote
  <2>3. /\ After(session[r].writes) \in {"live", "over"}
        /\ After(session[r].writes) = "live" => session[r].writes \notin Final
    BY DEF After
  <2>4. Goes(r, given) \/ Goes(r, anew) \/ Goes(r, wrote)
    BY <1>8 DEF Recreate, PersistAgain, Recreated
  <2> HIDE DEF given, anew, wrote
  <2> QED
    BY <2>1, <2>2, <2>3, <2>4
<1>9. CASE Discard(r)
  <2>1. Goes(r, [session[r] EXCEPT !.stage = "over"])
    BY <1>9 DEF Discard
  <2>2. [session[r] EXCEPT !.stage = "over"].stage = "over"
    BY <1>1 DEF Sessions
  <2> QED
    BY <2>1, <2>2
<1> QED
  BY <1>4, <1>6, <1>7, <1>8, <1>9

LEMMA RecordsStep ==
  ASSUME HistoryAssumption, UsageAssumption, RecordsInv, [Next]_vars
  PROVE  RecordsInv'
<1>1. HistoryInv /\ SessionInv /\ LedgerInv
  BY DEF RecordsInv, HistoryInv
<1>2. SUFFICES HistoryInv' /\ LedgerInv'
  BY DEF RecordsInv, HistoryInv
<1>3. ASSUME NEW r \in Request,
             Begin(r) \/ Progress(r) \/ PersistEnd(r) \/ Recreate(r) \/ PersistAgain(r) \/ Discard(r)
      PROVE  HistoryInv' /\ LedgerInv'
  <2>1. LedgerInv'
    BY <1>1, <1>3, SessionCounts
  <2>2. CASE Progress(r)
    <3>1. up /\ session[r].stage = "live" /\ Persist(r, "progress") /\ "progress" \in Status
      BY <2>2 DEF Progress, Status
    <3> QED
      BY <1>1, <2>1, <3>1, PersistKeeps
  <2>3. CASE PersistEnd(r)
    <3>1. /\ up /\ session[r].stage = "ending" /\ Persist(r, session[r].writes)
          /\ session[r].writes \in Status
      BY <1>1, <2>3 DEF PersistEnd, SessionInv, Final, Status
    <3> QED
      BY <1>1, <2>1, <3>1, PersistKeeps
  <2> QED
    BY <1>1, <1>3, <2>1, <2>2, <2>3, BeginKeeps, RecreateKeeps, PersistAgainKeeps, DiscardKeeps
<1>4. ASSUME NEW r \in Request, End(r)
      PROVE  HistoryInv' /\ LedgerInv'
  BY <1>1, <1>4, EndKeeps, EndCounts
<1>5. CASE DeleteEntry \/ ClearHistory \/ ChangeLimit
  <2>1. UNCHANGED <<ledgerVars, session>>
    BY <1>5 DEF DeleteEntry, ClearHistory, ChangeLimit
  <2> QED
    BY <1>1, <1>5, <2>1, ConsoleKeeps, LedgerFrame DEF Uncounted
<1>6. CASE FlushLedger \/ ConsoleClearsLedger \/ ConsoleSetsRecording
  <2>1. UNCHANGED <<historyVars, session>>
    BY <1>6 DEF FlushLedger, ConsoleClearsLedger, ConsoleSetsRecording
  <2>2. HistoryInv'
    BY <1>1, <2>1 DEF HistoryInv, historyVars, StoreInv, StoreTypes, PendingCoversFiles,
       LostOnlyByDeletion, SameOwner, OneFilePerRequest, OneEntryPerRequest, Usable, SessionInv,
       Sessions, FinishedIsFinal
  <2> QED
    BY <1>1, <1>6, <2>2, LedgerMovesKeep
<1>7. CASE Crash
  <2>1. UNCHANGED <<ledgerVars, session>>
    BY <1>7 DEF Crash
  <2> QED
    BY <1>1, <1>7, <2>1, CrashKeeps, LedgerFrame DEF Uncounted
<1>8. CASE Restart
  BY <1>1, <1>8, RestartKeeps, RestartCounts
<1>9. CASE UNCHANGED vars
  <2>1. UNCHANGED <<historyVars, ledgerVars, session>>
    BY <1>9 DEF vars
  <2>2. HistoryInv'
    BY <1>1, <2>1 DEF HistoryInv, historyVars, StoreInv, StoreTypes, PendingCoversFiles,
       LostOnlyByDeletion, SameOwner, OneFilePerRequest, OneEntryPerRequest, Usable, SessionInv,
       Sessions, FinishedIsFinal
  <2> QED
    BY <1>1, <2>1, <2>2, LedgerFrame DEF Uncounted
<1> QED
  BY <1>3, <1>4, <1>5, <1>6, <1>7, <1>8, <1>9 DEF Next

LEMMA RecordsInvariant == Spec => []RecordsInv
<1>1. Init => RecordsInv
  BY RecordsInit, HistoryAssumption, UsageAssumption
<1>2. RecordsInv /\ [Next]_vars => RecordsInv'
  BY RecordsStep, HistoryAssumption, UsageAssumption
<1> QED
  BY <1>1, <1>2, PTL DEF Spec

-----------------------------------------------------------------------------
(* The theorems.                                                            *)

\* The stores are of their types, and the history keeps no more entries than its limit
\* (rebuildIndexLocked), whatever fails.
THEOREM RecordTypesAreRight == Spec => []RecordsTypeOK
<1>1. RecordsInv => RecordsTypeOK
  <2> SUFFICES ASSUME RecordsInv PROVE RecordsTypeOK
    OBVIOUS
  <2>1. StoreTypes /\ LedgerInv
    BY DEF RecordsInv, StoreInv
  <2>2. {up, broken, recording, unflushed, backfilled} \subseteq BOOLEAN
    BY <2>1 DEF StoreTypes, LedgerInv
  <2>3. /\ \A i \in DOMAIN entries : entries[i] \in Details
        /\ \A i \in DOMAIN files : files[i] \in Details
    BY <2>1 DEF StoreTypes
  <2> QED
    BY <2>1, <2>2, <2>3 DEF RecordsTypeOK, StoreTypes, Details
<1> QED
  BY <1>1, RecordsInvariant, PTL

\* A save that fails or is cut short leaves every difference between memory and files in
\* the pending sets (saveLocked).
THEOREM PendingCovers == Spec => []PendingCoversFiles
<1>1. RecordsInv => PendingCoversFiles
  BY DEF RecordsInv, StoreInv
<1> QED
  BY <1>1, RecordsInvariant, PTL

\* Only a deletion that is under way can make the history unreadable (loadLocked).
THEOREM OnlyDeletionsLose == Spec => []LostOnlyByDeletion
<1>1. RecordsInv => LostOnlyByDeletion
  BY DEF RecordsInv, StoreInv
<1> QED
  BY <1>1, RecordsInvariant, PTL

\* No request has two entries (retryMissingEntry).
THEOREM EntriesAreSingle == Spec => []OneEntryPerRequest
<1>1. RecordsInv => OneEntryPerRequest
  BY DEF RecordsInv
<1> QED
  BY <1>1, RecordsInvariant, PTL

\* The entry of a request that is over is final (persistUpdate, handlePersistError).
THEOREM OverIsFinal == Spec => []FinishedIsFinal
<1>1. RecordsInv => FinishedIsFinal
  BY DEF RecordsInv
<1> QED
  BY <1>1, RecordsInvariant, PTL

\* Neither memory nor the file counts a request twice (Record, Backfill).
THEOREM CountedOnce == Spec => []NeverCountedTwice
<1>1. RecordsInv => NeverCountedTwice
  BY DEF RecordsInv, LedgerInv, AtMostOnce, NeverCountedTwice
<1> QED
  BY <1>1, RecordsInvariant, PTL
-----------------------------------------------------------------------------
(* What a restart finds of an entry.                                         *)

LEMMA NothingWrittenSurvives ==
  ASSUME UNCHANGED <<broken, entries, files, index>>, up
  PROVE  AllSurvive
<1> SUFFICES ASSUME NEW i \in Id PROVE OnDisk(i)' = OnDisk(i)
  BY DEF AllSurvive, Survives
<1> QED
  BY DEF OnDisk, Loadable, Named

\* The sessions write by one operation of the store, or not at all.
LEMMA SessionSurvives ==
  ASSUME HistoryAssumption, UsageAssumption, HistoryInv, NEW r \in Request,
         Begin(r) \/ Progress(r) \/ End(r) \/ PersistEnd(r) \/ Recreate(r)
           \/ PersistAgain(r) \/ Discard(r)
  PROVE  AllSurvive
<1> DEFINE s == session[r]
<1>1. up
  BY DEF Begin, Progress, End, PersistEnd, Recreate, PersistAgain, Discard
<1>2. /\ None \notin DOMAIN entries
      /\ broken => s.entry = None
      /\ ~broken =>
           /\ s.entry \in DOMAIN entries => entries[s.entry].of = r
           /\ s.stage # "gone" => \A i \in DOMAIN entries : entries[i].of = r => s.entry = i
  BY <1>1, SessionFacts
<1>3. /\ s.stage = "new" => s.entry = None
      /\ s.stage \in {"missing", "again"} => s.entry # None /\ s.writes \in Status
      /\ s.stage = "ending" => s.writes \in Status
      /\ Usable /\ s.stage = "missing" => s.entry \notin DOMAIN entries
  BY DEF HistoryInv, SessionInv, Final, Status
<1>4. CASE UNCHANGED historyVars
  BY <1>1, <1>4, NothingWrittenSurvives DEF historyVars
<1>5. CASE StartEntry(Detail(r, "streaming")) /\ Usable /\ s.stage \in {"new", "missing"}
  <2>1. \A i \in DOMAIN entries : entries[i].of # r
    BY <1>2, <1>3, <1>5 DEF Usable
  <2> QED
    BY <1>5, <2>1, StartKeeps DEF HistoryInv
<1>6. ASSUME NEW st \in Status, s.entry \in DOMAIN entries, Update(s.entry, Detail(r, st))
      PROVE  AllSurvive
  <2>1. Usable /\ entries[s.entry].of = r
    BY <1>1, <1>2, <1>6 DEF Usable
  <2> QED
    BY <1>6, <2>1, UpdateKeeps DEF HistoryInv
<1>7. ASSUME s.entry \in DOMAIN entries, Delete({s.entry})
      PROVE  AllSurvive
  <2>1. Usable /\ \E S \in SUBSET DOMAIN entries : Delete(S)
    BY <1>1, <1>2, <1>7 DEF Usable
  <2> QED
    BY <2>1, RemovalKeeps DEF HistoryInv
<1>8. ASSUME NEW st \in Status, Persist(r, st)
      PROVE  AllSurvive
  BY <1>4, <1>6, <1>8 DEF Persist
<1>9. CASE Begin(r)
  BY <1>1, <1>4, <1>5, <1>9 DEF Begin, Usable
<1>10. CASE Progress(r) \/ PersistEnd(r)
  BY <1>3, <1>8, <1>10 DEF Progress, PersistEnd, Status
<1>11. CASE Recreate(r)
  BY <1>1, <1>2, <1>3, <1>4, <1>5, <1>11 DEF Recreate, Usable
<1>12. CASE PersistAgain(r)
  BY <1>3, <1>4, <1>6, <1>12 DEF PersistAgain
<1>13. CASE Discard(r)
  BY <1>4, <1>7, <1>13 DEF Discard
<1>14. CASE End(r)
  BY <1>4, <1>14 DEF End
<1> QED
  BY <1>9, <1>10, <1>11, <1>12, <1>13, <1>14

\* A start finds what the files hold: the entries that the index names, or nothing.
LEMMA RestartSurvives ==
  ASSUME LoadHistory
  PROVE  AllSurvive
<1>1. /\ ~up /\ up' /\ broken' = ~Loadable /\ UNCHANGED <<files, index>>
      /\ entries' = IF Loadable THEN [i \in index.items |-> files[i]] ELSE NoEntries
  BY DEF LoadHistory, Named
<1> SUFFICES ASSUME NEW i \in Id
             PROVE  OnDisk(i)' = OnDisk(i) /\ (OnDisk(i) # {} => InMemory(i)' = OnDisk(i))
  BY <1>1 DEF AllSurvive, Survives
<1>2. OnDisk(i)' = OnDisk(i)
  BY <1>1 DEF OnDisk, Loadable, Named
<1>3. CASE Loadable
  <2>1. DOMAIN entries' = index.items /\ index.items \subseteq DOMAIN files
        /\ \A j \in index.items : entries'[j] = files[j]
    BY <1>1, <1>3 DEF Loadable, Named
  <2> QED
    BY <1>1, <1>2, <1>3, <2>1 DEF InMemory, OnDisk
<1>4. CASE ~Loadable
  BY <1>2, <1>4 DEF OnDisk
<1> QED
  BY <1>3, <1>4

LEMMA StepSurvives ==
  ASSUME HistoryAssumption, UsageAssumption, RecordsInv, Next
  PROVE  AllSurvive
<1>1. HistoryInv
  BY DEF RecordsInv, HistoryInv
<1>2. CASE \E r \in Request : Begin(r) \/ Progress(r) \/ End(r) \/ PersistEnd(r)
             \/ Recreate(r) \/ PersistAgain(r) \/ Discard(r)
  BY <1>1, <1>2, SessionSurvives
<1>3. CASE DeleteEntry \/ ClearHistory \/ ChangeLimit
  <2>1. Usable
    BY <1>3 DEF DeleteEntry, ClearHistory, ChangeLimit
  <2>2. \/ \E S \in SUBSET DOMAIN entries : Delete(S)
        \/ \E l \in Limits : SetLimit(l)
    <3>1. \A i \in DOMAIN entries : {i} \in SUBSET DOMAIN entries
      OBVIOUS
    <3> QED
      BY <1>3, <3>1 DEF DeleteEntry, ClearHistory, ChangeLimit
  <2> QED
    BY <1>1, <2>1, <2>2, RemovalKeeps DEF HistoryInv
<1>4. CASE FlushLedger \/ ConsoleClearsLedger \/ ConsoleSetsRecording \/ Crash
  <2>1. up /\ UNCHANGED <<broken, entries, files, index>>
    BY <1>4 DEF FlushLedger, ConsoleClearsLedger, ConsoleSetsRecording, Crash, CrashHistory,
                historyVars
  <2> QED
    BY <2>1, NothingWrittenSurvives
<1>5. CASE Restart
  BY <1>5, RestartSurvives DEF Restart
<1> QED
  BY <1>2, <1>3, <1>4, <1>5 DEF Next

\* The history implements a durable store of each of its entries: a restart finds the entry
\* as the program had it before or after its last operation, whatever save failed or was cut
\* short, unless the history cannot be loaded at all (saveLocked, loadLocked).
THEOREM HistoryIsDurable == Spec => EntriesSurvive
<1>1. Init => \A i \in Id : EntryFile(i)!Init
  BY DEF Init, HistoryInit, NoEntries, EntryFile!Init, Loadable, Named
<1>2. RecordsInv /\ RecordsInv' /\ [Next]_vars => [\A i \in Id : EntryFile(i)!Next]_vars
  <2> SUFFICES ASSUME RecordsInv, RecordsInv', Next PROVE \A i \in Id : EntryFile(i)!Next
    OBVIOUS
  <2>1. AllSurvive /\ up \in BOOLEAN /\ up' \in BOOLEAN
    BY StepSurvives, HistoryAssumption, UsageAssumption DEF RecordsInv, StoreInv, StoreTypes
  <2> QED
    BY <2>1 DEF AllSurvive, Survives, InMemory, OnDisk,
                EntryFile!Next, EntryFile!Work, EntryFile!Stop, EntryFile!Start
<1> QED
  BY <1>1, <1>2, RecordsInvariant, PTL DEF Spec, EntriesSurvive
=============================================================================
