---------------------------- MODULE ConfigStore ----------------------------
(***************************************************************************)
(* The configuration store (internal/config/store.go) with its two files,  *)
(* and those who change accounts in it: requests that find an account      *)
(* muted, banned or failing, logins, and administrators.  Each reads the   *)
(* accounts in flight, runs Store.Update, which reconciles the elastic     *)
(* pool and writes the files, and then rebuilds the pool's queue.          *)
(*                                                                         *)
(* Store.mu is held from Mutate to the last write.  Of a configuration the *)
(* module keeps what elastic.go reads and, as one value, the subscriptions *)
(* and ports of Mihomo, which have a file of their own.  Tokens are in no  *)
(* file and left out.  No two requests use an account at the same time.    *)
(***************************************************************************)
EXTENDS ElasticPool

CONSTANTS
  Writer,       \* goroutines that update the store
  Subscriptions, \* what Mihomo may have in the configuration
  None, Torn,   \* no subscriptions or no file; a file damaged by a write
  Updates,      \* the updates that writers make
  FirstConfigs, \* what config.json may hold at first
  EmptyConfig,  \* the configuration without a file
  MaxUpdates, MaxCrashes, MaxTime    \* bounds of the model

Config ==
  [present : SUBSET Account, banned : SUBSET Account, authFailed : SUBSET Account,
   disabled : SUBSET Account, mutedUntil : [Account -> Nat], priority : [Account -> Nat],
   elastic : Elastic, mihomo : Subscriptions \union {None}]

AccountUpdates == {"mute", "ban", "authFailed", "unban", "loggedIn", "enable", "disable",
                   "delete", "add", "token"}

ASSUME StoreAssumption ==
  /\ None # Torn /\ {None, Torn} \intersect (Subscriptions \union {EmptyConfig}) = {}
  /\ EmptyConfig \in Config /\ EmptyConfig.mihomo = None
  /\ FirstConfigs \subseteq Config \union {None} /\ {None, Torn} \intersect Config = {}
  /\ Updates \subseteq [op : AccountUpdates, account : Account]
                        \union [op : {"edit"}, account : Account, priority : Nat]
                        \union [op : {"nodes"}, mihomo : Subscriptions \union {None}]
                        \union [op : {"elastic"}, elastic : Elastic]
  /\ MaxUpdates \in Nat /\ MaxCrashes \in Nat /\ MaxTime \in Nat

VARIABLES
  up,           \* the process runs
  cfg,          \* s.cfg
  cfgDirty, mihomoDirty, mihomoMigratePending,
  envOnly,      \* the source is an environment variable: nothing is written
  file, subs,   \* config.json and mihomo_subscriptions.json
  writer,       \* how far a writer is, and what it carries
  queue, inUse, \* the pool's
  working,      \* the accounts that requests generate on
  updates, crashes,
  unsaved       \* ghost: an update was not saved, and the queue not rebuilt since

files == <<file, subs>>
dirty == <<cfgDirty, mihomoDirty, mihomoMigratePending>>
pool == <<queue, inUse, working>>
bounds == <<updates, crashes>>
vars == <<now, up, cfg, dirty, envOnly, files, writer, pool, bounds, unsaved>>

Idle == [phase |-> "idle", busy |-> {}, resets |-> FALSE]

Locked == \E w \in Writer : writer[w].phase \in {"subs", "config"}

Content(f) == IF f = None THEN EmptyConfig ELSE f

\* loadMihomoSubscriptionsFile over what config.json holds, which has no subscriptions
\* unless a version before their own file wrote it
Load(f, s) ==
  IF s \in {None, Torn} THEN Content(f) ELSE [Content(f) EXCEPT !.mihomo = s]

BugFlagNotWritten(c) == [c EXCEPT !.mihomo = None, !.authFailed = {}]

\* saveLocked's snapshot for config.json
Written(c) == [c EXCEPT !.mihomo = None]

\* What Pool.Reset puts in the queue
InQueue(c) == Enabled(c) \ (c.banned \union c.authFailed)

Schedulable(c) == {a \in Enabled(c) : ~Hard(c, a)}

Loaded(f, s) ==
  /\ cfgDirty' = FALSE /\ mihomoDirty' = FALSE
  /\ mihomoMigratePending' = (Content(f).mihomo # None)
  /\ cfg' = Load(f, s)
  /\ queue' = InQueue(cfg') /\ inUse' = {} /\ working' = {}
  /\ unsaved' = FALSE

Init ==
  /\ now = 0 /\ up = TRUE
  /\ envOnly \in BOOLEAN
  /\ file \in FirstConfigs /\ subs = None
  /\ cfg = Load(file, subs)
  /\ cfgDirty = FALSE /\ mihomoDirty = FALSE
  /\ mihomoMigratePending = (Content(file).mihomo # None)
  /\ writer = [w \in Writer |-> Idle]
  /\ queue = InQueue(cfg) /\ inUse = {} /\ working = {}
  /\ updates = 0 /\ crashes = 0 /\ unsaved = FALSE

-----------------------------------------------------------------------------
(* The updates.  An update is a record of op and what it is about.           *)

\* What is set before the elastic pool is reconciled.
Marked(c, u) ==
  LET a == u.account IN
  CASE u.op = "mute"       -> [c EXCEPT !.mutedUntil[a] = now + 1]
    [] u.op = "ban"        -> [c EXCEPT !.banned = @ \union {a}, !.disabled = @ \union {a}]
    [] u.op = "authFailed" -> [c EXCEPT !.authFailed = @ \union {a},
                                        !.disabled = @ \union {a}]
    [] u.op = "unban"      -> [c EXCEPT !.banned = @ \ {a}, !.disabled = @ \ {a}]
    [] u.op \in {"loggedIn", "enable"} ->
                              [c EXCEPT !.authFailed = @ \ {a}, !.disabled = @ \ {a}]
    [] u.op = "disable"    -> [c EXCEPT !.disabled = @ \union {a}]
    [] u.op = "edit"       -> [c EXCEPT !.priority[a] = u.priority]
    [] u.op = "delete"     -> [c EXCEPT !.present = @ \ {a}, !.banned = @ \ {a},
                                        !.authFailed = @ \ {a}, !.disabled = @ \ {a},
                                        !.mutedUntil[a] = 0]
    [] u.op = "add"        -> [c EXCEPT !.present = @ \union {a}]

\* A login that finds the account's flag already lifted changes nothing.
NothingToLift(c, u) ==
  \/ u.op = "unban" /\ u.account \notin c.banned
  \/ u.op = "loggedIn" /\ u.account \notin c.authFailed

Mutated(c, u, busy) ==
  CASE u.op = "nodes"   -> [c EXCEPT !.mihomo = u.mihomo]
    [] u.op = "token"   -> c
    [] u.op = "elastic" ->
         IF u.elastic.enabled
         THEN ReconcileElasticPool([c EXCEPT !.elastic = u.elastic], busy)
         ELSE EnableAllAccounts([c EXCEPT !.elastic = u.elastic])
    [] OTHER ->
         IF NothingToLift(c, u) THEN c ELSE ReconcileElasticPool(Marked(c, u), busy)

\* An update of an account that is not there, and adding one that is, is refused.
Accepted(c, u) ==
  CASE u.op \in {"nodes", "elastic"} -> TRUE
    [] u.op = "add" -> u.account \notin c.present
    [] OTHER -> u.account \in c.present

BugResetIfElastic(c, u) == c.elastic.enabled /\ u.op \notin {"nodes", "token"}

\* The updates of accounts are followed by Pool.Reset, in three cases only if they did
\* something.
Resets(c, u) ==
  CASE u.op \in {"nodes", "token"} -> FALSE
    [] u.op = "loggedIn" -> ~NothingToLift(c, u)
    [] u.op = "edit" -> c.elastic.enabled
    [] OTHER -> TRUE

Goto(w, f) == writer' = [writer EXCEPT ![w].phase = f]

\* Store.mu is released; err is nil.
Saved(w) ==
  writer' = [writer EXCEPT ![w] = IF writer[w].resets THEN [Idle EXCEPT !.phase = "resetting"]
                                  ELSE Idle]

\* Pool.InUseIDs, before the transaction
ReadBusy(w) ==
  /\ up /\ writer[w].phase = "idle" /\ updates < MaxUpdates
  /\ writer' = [writer EXCEPT ![w] = [Idle EXCEPT !.phase = "read", !.busy = inUse]]
  /\ updates' = updates + 1
  /\ UNCHANGED <<now, up, cfg, dirty, envOnly, files, pool, crashes, unsaved>>

BugOnlyConfigDirty(c) ==
  /\ cfgDirty' = (cfgDirty \/ Written(c) # Written(cfg))
  /\ UNCHANGED <<mihomoDirty, mihomoMigratePending>>

\* markDirty
MarkDirty(c) ==
  /\ cfgDirty' = (cfgDirty \/ Written(c) # Written(cfg))
  /\ mihomoDirty' = (mihomoDirty \/ c.mihomo # cfg.mihomo)
  /\ UNCHANGED mihomoMigratePending

\* Store.Update up to the writes, and UpdateAccountToken, which reads nothing before.
\* From the environment nothing is saved, and err is nil.
Mutate(w, u) ==
  /\ up /\ writer[w].phase = "read" /\ ~Locked
  /\ Accepted(cfg, u)
  /\ cfg' = Mutated(cfg, u, writer[w].busy)
  /\ MarkDirty(cfg')
  /\ LET resets == Resets(cfg, u) IN
     writer' = [writer EXCEPT ![w] =
       [Idle EXCEPT !.resets = resets,
                    !.phase = CASE ~envOnly -> "subs"
                                [] envOnly /\ resets -> "resetting"
                                [] OTHER -> "idle"]]
  /\ UNCHANGED <<now, up, envOnly, files, pool, bounds, unsaved>>

Refuse(w, u) ==
  /\ up /\ writer[w].phase = "read" /\ ~Locked
  /\ ~Accepted(cfg, u)
  /\ writer' = [writer EXCEPT ![w] = Idle]
  /\ UNCHANGED <<now, up, cfg, dirty, envOnly, files, pool, bounds, unsaved>>

BugOnlyMigrated == mihomoMigratePending

BugNotMigrated == mihomoDirty

\* saveLocked: first the subscriptions,
SubsDue == mihomoDirty \/ mihomoMigratePending
ConfigDue == cfgDirty \/ mihomoMigratePending \/ file = None

SaveSubs(w) ==
  /\ up /\ writer[w].phase = "subs"
  /\ IF SubsDue THEN subs' = cfg.mihomo /\ mihomoDirty' = FALSE
     ELSE UNCHANGED <<subs, mihomoDirty>>
  /\ Goto(w, "config")
  /\ UNCHANGED <<now, up, cfg, cfgDirty, mihomoMigratePending, envOnly, file, pool, bounds,
                 unsaved>>

\* ... then the rest,
SaveConfig(w) ==
  /\ up /\ writer[w].phase = "config"
  /\ IF ConfigDue
     THEN file' = Written(cfg) /\ cfgDirty' = FALSE /\ mihomoMigratePending' = FALSE
     ELSE UNCHANGED <<file, cfgDirty, mihomoMigratePending>>
  /\ Saved(w)
  /\ UNCHANGED <<now, up, cfg, mihomoDirty, envOnly, subs, pool, bounds, unsaved>>

\* What a write that does not come to its end leaves.  Subscriptions that are gone are
\* removed, not written.
CutShort(w) ==
  \/ /\ writer[w].phase = "subs" /\ SubsDue /\ UNCHANGED file
     /\ subs' \in {subs} \union (IF cfg.mihomo = None THEN {} ELSE {Torn})
  \/ /\ writer[w].phase = "config" /\ ConfigDue /\ UNCHANGED subs
     /\ file' \in {file, Torn}

\* A write fails: the caller gets the error, memory stays changed and the pool is not
\* rebuilt.
WriteFails(w) ==
  /\ up /\ CutShort(w)
  /\ writer' = [writer EXCEPT ![w] = Idle]
  /\ unsaved' = TRUE
  /\ UNCHANGED <<now, up, cfg, dirty, envOnly, pool, bounds>>

\* Pool.Reset
ResetPool(w) ==
  /\ up /\ writer[w].phase = "resetting" /\ ~Locked
  /\ queue' = InQueue(cfg)
  /\ inUse' = inUse \intersect queue'
  /\ unsaved' = FALSE
  /\ writer' = [writer EXCEPT ![w] = Idle]
  /\ UNCHANGED <<now, up, cfg, dirty, envOnly, files, working, bounds>>

-----------------------------------------------------------------------------
(* Requests, time, crashes                                                   *)

Acquire(a) ==
  /\ up /\ ~Locked
  /\ a \in queue \intersect Schedulable(cfg) /\ a \notin inUse \union working
  /\ inUse' = inUse \union {a} /\ working' = working \union {a}
  /\ UNCHANGED <<now, up, cfg, dirty, envOnly, files, writer, queue, bounds, unsaved>>

Release(a) ==
  /\ up /\ a \in working
  /\ inUse' = inUse \ {a} /\ working' = working \ {a}
  /\ UNCHANGED <<now, up, cfg, dirty, envOnly, files, writer, queue, bounds, unsaved>>

Tick ==
  /\ now < MaxTime /\ now' = now + 1
  /\ UNCHANGED <<up, cfg, dirty, envOnly, files, writer, pool, bounds, unsaved>>

Crash ==
  /\ up /\ crashes < MaxCrashes
  /\ up' = FALSE /\ crashes' = crashes + 1
  /\ UNCHANGED files \/ \E w \in Writer : CutShort(w)
  /\ writer' = [w \in Writer |-> Idle]
  /\ UNCHANGED <<now, cfg, dirty, envOnly, pool, updates, unsaved>>

\* LoadStoreWithError and NewPool.  With a damaged config.json the program exits.
Restart ==
  /\ ~up /\ file # Torn
  /\ up' = TRUE
  /\ Loaded(file, subs)
  /\ UNCHANGED <<now, envOnly, files, writer, bounds>>

Next ==
  \/ \E w \in Writer :
       \/ ReadBusy(w) \/ SaveSubs(w) \/ SaveConfig(w) \/ WriteFails(w) \/ ResetPool(w)
       \/ \E u \in Updates : Mutate(w, u) \/ Refuse(w, u)
  \/ \E a \in Account : Acquire(a) \/ Release(a)
  \/ Tick \/ Crash \/ Restart

Spec == Init /\ [][Next]_vars

-----------------------------------------------------------------------------
(* Properties                                                                *)

ConfigTypeOK ==
  /\ now \in 0 .. MaxTime /\ updates \in 0 .. MaxUpdates /\ crashes \in 0 .. MaxCrashes
  /\ up \in BOOLEAN /\ envOnly \in BOOLEAN /\ unsaved \in BOOLEAN
  /\ cfgDirty \in BOOLEAN /\ mihomoDirty \in BOOLEAN /\ mihomoMigratePending \in BOOLEAN
  /\ cfg \in Config /\ file \in Config \union {None, Torn}
  /\ subs \in Subscriptions \union {None, Torn}
  /\ queue \subseteq Account /\ working \subseteq Account /\ inUse \subseteq working
  /\ writer \in [Writer -> [phase : {"idle", "read", "subs", "config", "resetting"},
                            busy : SUBSET Account, resets : BOOLEAN]]

\* No change is forgotten: as long as a file differs from memory, after any failed or
\* interrupted save, something is marked dirty, so that the next save of anything writes
\* it (markDirty, saveLocked).  Only the first file, created for an empty configuration,
\* may stay damaged: once it is there nothing is due.
UnsavedIsDirty ==
  up =>
    /\ Written(cfg) # Written(IF file = Torn THEN EmptyConfig ELSE Content(file))
         => cfgDirty \/ mihomoMigratePending
    /\ file # Torn /\ Load(file, subs).mihomo # cfg.mihomo
         => mihomoDirty \/ mihomoMigratePending

\* An update that reports success is what a restart will find.
SavedIsDurable ==
  [][\A w \in Writer : SaveConfig(w) =>
       IF file' = Torn THEN Written(cfg) = Written(EmptyConfig)
       ELSE Load(file', subs') = cfg']_vars

\* config.json always holds a configuration the program had, or is damaged, and so does
\* the file of the subscriptions, also while they move out of a config.json of an older
\* version; a restart goes on with that.  Only if that config.json could not be rewritten,
\* removing or damaging the newer file lets its old subscriptions come back.
ConfigFile == INSTANCE DurableValue WITH
  Damaged <- Torn, value <- [cfg EXCEPT !.mihomo = None],
  stable <- IF file = Torn THEN Torn ELSE [Content(file) EXCEPT !.mihomo = None]
SubsFile == INSTANCE DurableValue WITH
  Damaged <- Torn, value <- cfg.mihomo,
  stable <- IF subs \notin {None, Torn} THEN subs
            ELSE IF file = Torn THEN Torn
            ELSE IF Content(file).mihomo # None THEN Content(file).mihomo ELSE subs
OldSubsReturn ==
  /\ subs \notin {None, Torn} /\ subs' \in {None, Torn}
  /\ file' # Torn /\ Content(file').mihomo # None
FilesSound ==
  /\ ConfigFile!Spec
  /\ SubsFile!Init /\ [][OldSubsReturn \/ SubsFile!Next]_(SubsFile!fileVars)

\* A reconciliation enables the accounts that elastic.go:14 names, with the accounts
\* that were busy when the writer looked, whatever became of them since.
ElasticAsPromised ==
  [][\A w \in Writer :
       /\ writer[w].phase = "read" /\ writer'[w].phase # "read"
       /\ cfg'.elastic.enabled /\ Written(cfg') # Written(cfg)
       => Enabled(cfg') = Promised(cfg', writer[w].busy)]_vars

\* While the elastic pool is on, a group always has its count of usable accounts, or all
\* that were never muted: a standby takes the place of an account that fails
\* (auth/request.go:317).
StandbyTakesOver ==
  cfg.elastic.enabled =>
    \A a \in cfg.present :
      LET usable(b) == b \notin cfg.banned \union cfg.authFailed
          group == Group(cfg, PoolType[a])
      IN \/ \A b \in group : usable(b) /\ cfg.mutedUntil[b] = 0 => b \notin cfg.disabled
         \/ Cardinality({b \in group : b \notin cfg.disabled /\ usable(b)})
              >= cfg.elastic.count[PoolType[a]]

\* The pool's queue holds what the configuration enables, unless a writer is about to
\* rebuild it, or its save failed.
QueueFollowsConfig ==
  up /\ ~unsaved /\ (\A w \in Writer : ~writer[w].resets /\ writer[w].phase # "resetting")
    => queue = InQueue(cfg)
=============================================================================
