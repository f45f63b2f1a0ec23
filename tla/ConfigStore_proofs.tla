------------------------- MODULE ConfigStore_proofs -------------------------
(***************************************************************************)
(* What holds of the configuration and its files for every set of writers, *)
(* accounts and subscriptions, through failing and torn writes, crashes    *)
(* and the migration of an older config.json: nothing unsaved is           *)
(* forgotten, what is saved is found again, the pool's queue follows, a    *)
(* reconciliation of the elastic pool enables as many accounts as it       *)
(* promises, and a standby takes over for an account that fails.           *)
(***************************************************************************)
EXTENDS ConfigStore, FiniteSetTheorems, TLAPS

InSave(w) == writer[w].phase \in {"subs", "config"}

\* One writer holds Store.mu; none saves what came from the environment; a Reset is owed
\* by a writer that saves, or is about to happen.
WritersInv ==
  \A w \in Writer :
    /\ \A v \in Writer : InSave(w) /\ InSave(v) => v = w
    /\ InSave(w) => up /\ ~envOnly
    /\ writer[w].resets => InSave(w) \/ writer[w].phase = "resetting"
    /\ writer[w].phase # "idle" => up

SubsAsInMemory == IF subs \in {None, Torn} THEN cfg.mihomo = None ELSE subs = cfg.mihomo

\* A config.json that has subscriptions is one to be rewritten.  Subscriptions that are not
\* those of memory are due, and written before config.json is.
MigrationInv ==
  up =>
    /\ file \notin {None, Torn} /\ file.mihomo # None => mihomoMigratePending
    /\ mihomoDirty \/ mihomoMigratePending \/ SubsAsInMemory
    /\ \A w \in Writer : writer[w].phase = "config" => ~mihomoDirty /\ SubsAsInMemory

StoreInv ==
  ConfigTypeOK /\ WritersInv /\ MigrationInv /\ UnsavedIsDirty /\ QueueFollowsConfig

-----------------------------------------------------------------------------
(* Types                                                                     *)

LEMMA ReconcileType ==
  ASSUME NEW c \in Config, NEW busy
  PROVE  /\ ReconcileElasticPool(c, busy) \in Config
         /\ \E d \in SUBSET Account : ReconcileElasticPool(c, busy) \in {c, [c EXCEPT !.disabled = d]}
<1> DEFINE asleep ==
      {a \in c.present :
         ~ApplyElasticState(c, a, EnabledAmong(c, PoolType[a], busy)[Cardinality(InFront(c, a))], busy)}
<1>1. ReconcileElasticPool(c, busy) = IF c.elastic.enabled THEN [c EXCEPT !.disabled = asleep] ELSE c
  BY DEF ReconcileElasticPool
<1>2. asleep \in SUBSET Account
  BY DEF Config
<1> HIDE DEF asleep
<1> QED
  BY <1>1, <1>2 DEF Config

LEMMA MarkedType ==
  ASSUME NEW c \in Config, now \in Nat,
         NEW u \in [op : AccountUpdates, account : Account]
                     \union [op : {"edit"}, account : Account, priority : Nat],
         u.op # "token"
  PROVE  Marked(c, u) \in Config
<1>1. u.account \in Account
  OBVIOUS
<1>2. CASE u.op = "edit"
  <2>1. u.priority \in Nat
    BY <1>2 DEF AccountUpdates
  <2>2. Marked(c, u) = [c EXCEPT !.priority[u.account] = u.priority]
    BY <1>2 DEF Marked
  <2> QED
    BY <1>1, <2>1, <2>2 DEF Config
<1>3. CASE u.op = "mute"
  <2>1. Marked(c, u) = [c EXCEPT !.mutedUntil[u.account] = now + 1]
    BY <1>3 DEF Marked
  <2> QED
    BY <1>1, <2>1 DEF Config
<1>4. CASE u.op \in {"ban", "authFailed", "unban", "loggedIn", "enable", "disable"}
  BY <1>1, <1>4 DEF Marked, Config
<1>5. CASE u.op \in {"delete", "add"}
  BY <1>1, <1>5 DEF Marked, Config
<1> QED
  BY <1>2, <1>3, <1>4, <1>5 DEF AccountUpdates

LEMMA MutatedType ==
  ASSUME NEW c \in Config, now \in Nat, NEW u \in Updates, NEW busy
  PROVE  Mutated(c, u, busy) \in Config
<1>1. CASE u.op = "nodes"
  <2>1. u.mihomo \in Subscriptions \union {None}
    BY <1>1, StoreAssumption DEF AccountUpdates
  <2> QED
    BY <1>1, <2>1 DEF Mutated, Config
<1>2. CASE u.op = "token"
  BY <1>2 DEF Mutated
<1>3. CASE u.op = "elastic"
  <2>1. u.elastic \in Elastic
    BY <1>3, StoreAssumption DEF AccountUpdates
  <2>2. [c EXCEPT !.elastic = u.elastic] \in Config
    BY <2>1 DEF Config
  <2>3. EnableAllAccounts([c EXCEPT !.elastic = u.elastic]) \in Config
    BY <2>2 DEF EnableAllAccounts, Config
  <2> QED
    BY <1>3, <2>2, <2>3, ReconcileType DEF Mutated
<1>4. CASE u.op \notin {"nodes", "token", "elastic"}
  <2>1. u \in [op : AccountUpdates, account : Account]
                \union [op : {"edit"}, account : Account, priority : Nat]
    BY <1>4, StoreAssumption
  <2>2. Mutated(c, u, busy) =
          IF NothingToLift(c, u) THEN c ELSE ReconcileElasticPool(Marked(c, u), busy)
    BY <1>4 DEF Mutated
  <2> QED
    BY <1>4, <2>1, <2>2, MarkedType, ReconcileType
<1> QED
  BY <1>1, <1>2, <1>3, <1>4

\* An update after which the pool is not rebuilt leaves the queue as it was.
LEMMA NoResetNoChange ==
  ASSUME NEW c \in Config, NEW u \in Updates, NEW busy, ~Resets(c, u)
  PROVE  InQueue(Mutated(c, u, busy)) = InQueue(c)
<1>1. CASE u.op \in {"nodes", "token"}
  BY <1>1 DEF Mutated, InQueue, Enabled, Config
<1>2. CASE u.op = "loggedIn"
  BY <1>2 DEF Resets, Mutated
<1>3. CASE u.op = "edit"
  <2>1. ~c.elastic.enabled /\ ~NothingToLift(c, u)
    BY <1>3 DEF Resets, NothingToLift
  <2>2. Mutated(c, u, busy) = ReconcileElasticPool([c EXCEPT !.priority[u.account] = u.priority], busy)
    BY <1>3, <2>1 DEF Mutated, Marked
  <2>3. Mutated(c, u, busy) = [c EXCEPT !.priority[u.account] = u.priority]
    BY <2>1, <2>2 DEF ReconcileElasticPool, Config
  <2> QED
    BY <2>3 DEF InQueue, Enabled, Config
<1> QED
  BY <1>1, <1>2, <1>3 DEF Resets

\* Loading and saving are each other's inverse.
LEMMA WrittenType ==
  ASSUME NEW c \in Config
  PROVE  Written(c) \in Config /\ Written(c).mihomo = None /\ Written(Written(c)) = Written(c)
  BY DEF Written, Config

LEMMA SameConfig ==
  ASSUME NEW c \in Config, NEW d \in Config, Written(c) = Written(d), c.mihomo = d.mihomo
  PROVE  c = d
<1>1. c = [Written(c) EXCEPT !.mihomo = c.mihomo]
  BY DEF Written, Config
<1>2. d = [Written(d) EXCEPT !.mihomo = d.mihomo]
  BY DEF Written, Config
<1> QED
  BY <1>1, <1>2

LEMMA LoadType ==
  ASSUME NEW f \in Config \union {None}, NEW s \in Subscriptions \union {None, Torn}
  PROVE  /\ Content(f) \in Config /\ Load(f, s) \in Config
         /\ Written(Load(f, s)) = Written(Content(f))
         /\ Load(f, s).mihomo = IF s \in {None, Torn} THEN Content(f).mihomo ELSE s
<1>1. Content(f) \in Config
  BY StoreAssumption DEF Content
<1>2. CASE s \in {None, Torn}
  BY <1>1, <1>2 DEF Load
<1>3. CASE s \notin {None, Torn}
  BY <1>1, <1>3 DEF Load, Written, Config
<1> QED
  BY <1>1, <1>2, <1>3

-----------------------------------------------------------------------------
(* The first state                                                           *)

LEMMA StoreInit == Init => StoreInv
<1> SUFFICES ASSUME Init PROVE StoreInv
  OBVIOUS
<1>1. file \in Config \union {None} /\ subs = None
  BY StoreAssumption DEF Init
<1>2. /\ cfg \in Config /\ Written(cfg) = Written(Content(file))
      /\ cfg.mihomo = Content(file).mihomo
  BY <1>1, LoadType, StoreAssumption DEF Init
<1>3. file # Torn /\ (file # None => Content(file) = file)
  BY <1>1, StoreAssumption DEF Content
<1>4. ConfigTypeOK
  <2>1. InQueue(cfg) \subseteq Account
    BY <1>2 DEF InQueue, Enabled, Config
  <2>2. Idle \in [phase : {"idle", "read", "subs", "config", "resetting"},
                  busy : SUBSET Account, resets : BOOLEAN]
    BY DEF Idle
  <2>3. /\ up \in BOOLEAN /\ envOnly \in BOOLEAN /\ unsaved \in BOOLEAN
        /\ cfgDirty \in BOOLEAN /\ mihomoDirty \in BOOLEAN /\ mihomoMigratePending \in BOOLEAN
    BY Zenon DEF Init
  <2>4. now \in 0 .. MaxTime /\ updates \in 0 .. MaxUpdates /\ crashes \in 0 .. MaxCrashes
    BY StoreAssumption DEF Init
  <2>5. /\ queue \subseteq Account /\ working \subseteq Account /\ inUse \subseteq working
        /\ writer \in [Writer -> [phase : {"idle", "read", "subs", "config", "resetting"},
                                  busy : SUBSET Account, resets : BOOLEAN]]
    BY <2>1, <2>2 DEF Init
  <2> QED
    BY <1>1, <1>2, <2>3, <2>4, <2>5 DEF ConfigTypeOK
<1>5. WritersInv
  BY DEF Init, WritersInv, InSave, Idle
<1>6. MigrationInv
  <2>1. Content(None).mihomo = None
    BY StoreAssumption DEF Content
  <2>2. \A w \in Writer : writer[w].phase = "idle"
    BY DEF Init, Idle
  <2> QED
    BY <1>1, <1>2, <1>3, <2>1, <2>2 DEF Init, MigrationInv, SubsAsInMemory
<1>7. UnsavedIsDirty
  BY <1>1, <1>2, <1>3, LoadType DEF Init, UnsavedIsDirty
<1>8. QueueFollowsConfig
  BY DEF Init, QueueFollowsConfig
<1> QED
  BY <1>4, <1>5, <1>6, <1>7, <1>8 DEF StoreInv
-----------------------------------------------------------------------------
(* The steps                                                                 *)

\* A step of one writer.
LEMMA WriterTypes ==
  ASSUME ConfigTypeOK, NEW w \in Writer
  PROVE  /\ writer[w].phase \in {"idle", "read", "subs", "config", "resetting"}
         /\ writer[w].busy \in SUBSET Account /\ writer[w].resets \in BOOLEAN
  BY DEF ConfigTypeOK

\* What writer w becomes does not matter to the others.
LEMMA WriterStep ==
  ASSUME ConfigTypeOK, WritersInv, NEW w \in Writer,
         NEW r \in [phase : {"idle", "read", "subs", "config", "resetting"},
                    busy : SUBSET Account, resets : BOOLEAN],
         writer' = [writer EXCEPT ![w] = r],
         up' = up, envOnly' = envOnly, up,
         r.phase \in {"subs", "config"} => ~envOnly /\ \A v \in Writer : InSave(v) => v = w,
         r.resets => r.phase \in {"subs", "config", "resetting"}
  PROVE  WritersInv' /\ \A v \in Writer : v # w => writer'[v] = writer[v]
<1>1. /\ \A v \in Writer : v # w => writer'[v] = writer[v]
      /\ writer'[w] = r
  BY DEF ConfigTypeOK
<1> QED
  BY <1>1 DEF WritersInv, InSave

LEMMA ReadBusyGood ==
  ASSUME StoreInv, NEW w \in Writer, ReadBusy(w)
  PROVE  StoreInv'
<1> USE DEF ReadBusy, files, dirty, pool, bounds
<1> DEFINE r == [Idle EXCEPT !.phase = "read", !.busy = inUse]
<1>1. r \in [phase : {"idle", "read", "subs", "config", "resetting"},
             busy : SUBSET Account, resets : BOOLEAN] /\ r.phase = "read" /\ ~r.resets
  BY DEF Idle, StoreInv, ConfigTypeOK
<1>2. writer' = [writer EXCEPT ![w] = r]
  OBVIOUS
<1> HIDE DEF r
<1>3. WritersInv' /\ \A v \in Writer : v # w => writer'[v] = writer[v]
  BY <1>1, <1>2, WriterStep DEF StoreInv
<1>4. ConfigTypeOK'
  <2>1. updates' \in 0 .. MaxUpdates
    BY StoreAssumption DEF StoreInv, ConfigTypeOK
  <2>2. writer' \in [Writer -> [phase : {"idle", "read", "subs", "config", "resetting"},
                               busy : SUBSET Account, resets : BOOLEAN]]
    BY <1>1, <1>2 DEF StoreInv, ConfigTypeOK
  <2> QED
    BY <2>1, <2>2 DEF StoreInv, ConfigTypeOK
<1>5. writer'[w] = r
  BY <1>2 DEF StoreInv, ConfigTypeOK
<1>6. MigrationInv'
  BY <1>1, <1>3, <1>5 DEF StoreInv, MigrationInv, SubsAsInMemory
<1>7. UnsavedIsDirty'
  BY DEF StoreInv, UnsavedIsDirty
<1>8. QueueFollowsConfig'
  <2>1. ~writer[w].resets /\ writer[w].phase # "resetting"
    BY DEF StoreInv, WritersInv, InSave
  <2> QED
    BY <1>3, <2>1 DEF StoreInv, QueueFollowsConfig
<1> QED
  BY <1>3, <1>4, <1>6, <1>7, <1>8 DEF StoreInv
\* Mutate and Refuse.
LEMMA MutateGood ==
  ASSUME StoreInv, NEW w \in Writer, NEW u \in Updates, Mutate(w, u)
  PROVE  StoreInv'
<1> USE DEF files, dirty, pool, bounds
<1> DEFINE resets == Resets(cfg, u)
<1> DEFINE r == [Idle EXCEPT !.resets = resets,
                             !.phase = CASE ~envOnly -> "subs"
                                         [] envOnly /\ resets -> "resetting"
                                         [] OTHER -> "idle"]
<1>1. /\ up /\ writer[w].phase = "read" /\ ~Locked
      /\ cfg' = Mutated(cfg, u, writer[w].busy) /\ MarkDirty(cfg')
      /\ writer' = [writer EXCEPT ![w] = r]
      /\ UNCHANGED <<now, up, envOnly, file, subs, queue, inUse, working, updates, crashes, unsaved>>
  BY DEF Mutate
<1>2. resets \in BOOLEAN
  BY DEF Resets, NothingToLift, StoreInv, ConfigTypeOK, Config, Elastic
<1> HIDE DEF resets
<1>3. /\ r.phase = IF ~envOnly THEN "subs" ELSE IF resets THEN "resetting" ELSE "idle"
      /\ r.resets = resets /\ r.busy = {}
  BY <1>2 DEF Idle
<1>4. r \in [phase : {"idle", "read", "subs", "config", "resetting"},
             busy : SUBSET Account, resets : BOOLEAN]
  BY <1>2, <1>3 DEF Idle
<1>5. /\ r.phase \in {"subs", "config"} => ~envOnly
      /\ r.resets => r.phase \in {"subs", "config", "resetting"}
      /\ r.phase # "config" /\ (resets => r.resets)
  BY <1>3
<1> HIDE DEF r
<1>6. WritersInv' /\ \A v \in Writer : v # w => writer'[v] = writer[v]
  <2>1. \A v \in Writer : ~InSave(v)
    BY <1>1 DEF Locked, InSave
  <2> QED
    BY <1>1, <1>4, <1>5, <2>1, WriterStep DEF StoreInv
<1>7. writer'[w] = r
  BY <1>1 DEF StoreInv, ConfigTypeOK
<1>8. cfg \in Config /\ cfg' \in Config
  <2>1. now \in Nat
    BY StoreAssumption DEF StoreInv, ConfigTypeOK
  <2> QED
    BY <1>1, <2>1, MutatedType DEF StoreInv, ConfigTypeOK
<1>9. ConfigTypeOK'
  <2>1. cfgDirty' \in BOOLEAN /\ mihomoDirty' \in BOOLEAN /\ mihomoMigratePending' \in BOOLEAN
    BY <1>1, Zenon DEF MarkDirty, StoreInv, ConfigTypeOK
  <2>2. writer' \in [Writer -> [phase : {"idle", "read", "subs", "config", "resetting"},
                               busy : SUBSET Account, resets : BOOLEAN]]
    BY <1>1, <1>4 DEF StoreInv, ConfigTypeOK
  <2> QED
    BY <1>1, <1>8, <2>1, <2>2 DEF StoreInv, ConfigTypeOK
<1>10. MigrationInv'
  <2>1. \A v \in Writer : writer'[v].phase # "config"
    BY <1>1, <1>5, <1>6, <1>7 DEF Locked
  <2>2. cfg'.mihomo # cfg.mihomo => mihomoDirty'
    BY <1>1 DEF MarkDirty
  <2>3. (mihomoDirty => mihomoDirty') /\ mihomoMigratePending' = mihomoMigratePending
    BY <1>1 DEF MarkDirty
  <2> QED
    BY <1>1, <2>1, <2>2, <2>3 DEF StoreInv, MigrationInv, SubsAsInMemory
<1>11. UnsavedIsDirty'
  <2>1. /\ Written(cfg') # Written(cfg) => cfgDirty'
        /\ cfg'.mihomo # cfg.mihomo => mihomoDirty'
        /\ (cfgDirty => cfgDirty') /\ (mihomoDirty => mihomoDirty')
        /\ mihomoMigratePending' = mihomoMigratePending
    BY <1>1 DEF MarkDirty
  <2> QED
    BY <1>1, <2>1 DEF StoreInv, UnsavedIsDirty
<1>12. QueueFollowsConfig'
  <2>1. ~writer[w].resets /\ writer[w].phase # "resetting"
    BY <1>1 DEF StoreInv, WritersInv, InSave
  <2>2. ~resets => InQueue(cfg') = InQueue(cfg)
    BY <1>1, <1>8, NoResetNoChange DEF resets
  <2> QED
    BY <1>1, <1>5, <1>6, <1>7, <2>1, <2>2 DEF StoreInv, QueueFollowsConfig
<1> QED
  BY <1>6, <1>9, <1>10, <1>11, <1>12 DEF StoreInv
LEMMA IdleType ==
  Idle \in [phase : {"idle", "read", "subs", "config", "resetting"},
            busy : SUBSET Account, resets : BOOLEAN]
  BY DEF Idle

LEMMA RefuseGood ==
  ASSUME StoreInv, NEW w \in Writer, NEW u \in Updates, Refuse(w, u)
  PROVE  StoreInv'
<1> USE DEF Refuse, files, dirty, pool, bounds
<1>1. Idle.phase = "idle" /\ ~Idle.resets
  BY DEF Idle
<1>2. WritersInv' /\ \A v \in Writer : v # w => writer'[v] = writer[v]
  BY <1>1, IdleType, WriterStep DEF StoreInv
<1>3. writer'[w] = Idle
  BY DEF StoreInv, ConfigTypeOK
<1>4. ConfigTypeOK'
  BY IdleType DEF StoreInv, ConfigTypeOK
<1>5. MigrationInv'
  BY <1>1, <1>2, <1>3 DEF StoreInv, MigrationInv, SubsAsInMemory
<1>6. UnsavedIsDirty'
  BY DEF StoreInv, UnsavedIsDirty
<1>7. QueueFollowsConfig'
  <2>1. ~writer[w].resets /\ writer[w].phase # "resetting"
    BY DEF StoreInv, WritersInv, InSave
  <2> QED
    BY <1>2, <2>1 DEF StoreInv, QueueFollowsConfig
<1> QED
  BY <1>2, <1>4, <1>5, <1>6, <1>7 DEF StoreInv

\* The writer that saves is the only one.
LEMMA Alone ==
  ASSUME StoreInv, NEW w \in Writer, InSave(w)
  PROVE  up /\ ~envOnly /\ \A v \in Writer : InSave(v) => v = w
  BY DEF StoreInv, WritersInv

LEMMA SaveSubsGood ==
  ASSUME StoreInv, NEW w \in Writer, SaveSubs(w)
  PROVE  StoreInv'
<1> USE DEF files, dirty, pool, bounds
<1> DEFINE r == [writer[w] EXCEPT !.phase = "config"]
<1>1. /\ up /\ writer[w].phase = "subs"
      /\ IF SubsDue THEN subs' = cfg.mihomo /\ mihomoDirty' = FALSE
         ELSE UNCHANGED <<subs, mihomoDirty>>
      /\ writer' = [writer EXCEPT ![w] = r]
      /\ UNCHANGED <<now, up, cfg, cfgDirty, mihomoMigratePending, envOnly, file, queue, inUse,
                     working, updates, crashes, unsaved>>
  BY DEF SaveSubs, Goto, StoreInv, ConfigTypeOK
<1>2. /\ r \in [phase : {"idle", "read", "subs", "config", "resetting"},
                busy : SUBSET Account, resets : BOOLEAN]
      /\ r.phase = "config" /\ r.resets = writer[w].resets
  BY DEF StoreInv, ConfigTypeOK
<1> HIDE DEF r
<1>3. ~envOnly /\ \A v \in Writer : InSave(v) => v = w
  BY <1>1, Alone DEF InSave
<1>4. WritersInv' /\ \A v \in Writer : v # w => writer'[v] = writer[v]
  BY <1>1, <1>2, <1>3, WriterStep DEF StoreInv
<1>5. writer'[w] = r
  BY <1>1 DEF StoreInv, ConfigTypeOK
<1>6. cfg \in Config /\ cfg.mihomo \in Subscriptions \union {None}
  BY DEF StoreInv, ConfigTypeOK, Config
<1>7. ConfigTypeOK'
  <2>1. mihomoDirty' \in BOOLEAN /\ subs' \in Subscriptions \union {None, Torn}
    BY <1>1, <1>6 DEF StoreInv, ConfigTypeOK
  <2>2. writer' \in [Writer -> [phase : {"idle", "read", "subs", "config", "resetting"},
                               busy : SUBSET Account, resets : BOOLEAN]]
    BY <1>1, <1>2 DEF StoreInv, ConfigTypeOK
  <2> QED
    BY <1>1, <2>1, <2>2 DEF StoreInv, ConfigTypeOK
<1>8. mihomoDirty' = FALSE /\ SubsAsInMemory'
  <2>1. CASE SubsDue
    BY <1>1, <1>6, <2>1, StoreAssumption DEF SubsAsInMemory
  <2>2. CASE ~SubsDue
    BY <1>1, <2>2 DEF SubsDue, StoreInv, MigrationInv, SubsAsInMemory, ConfigTypeOK
  <2> QED
    BY <2>1, <2>2
<1>9. MigrationInv'
  BY <1>1, <1>8 DEF StoreInv, MigrationInv
<1>10. UnsavedIsDirty'
  <2>1. CASE file = Torn
    BY <1>1, <2>1 DEF StoreInv, UnsavedIsDirty
  <2>2. CASE file # Torn
    <3>1. file \in Config \union {None}
      BY <2>2 DEF StoreInv, ConfigTypeOK
    <3>2. Load(file, subs').mihomo = IF subs' \in {None, Torn} THEN Content(file).mihomo ELSE subs'
      BY <1>7, <3>1, LoadType DEF ConfigTypeOK
    <3>3. Content(file).mihomo # None => mihomoMigratePending
      BY <1>1, <3>1, <2>2, StoreAssumption DEF Content, StoreInv, MigrationInv
    <3> QED
      BY <1>1, <1>8, <3>2, <3>3 DEF StoreInv, UnsavedIsDirty, SubsAsInMemory
  <2> QED
    BY <2>1, <2>2
<1>11. QueueFollowsConfig'
  BY <1>1, <1>2, <1>4, <1>5 DEF StoreInv, QueueFollowsConfig
<1> QED
  BY <1>4, <1>7, <1>9, <1>10, <1>11 DEF StoreInv

LEMMA SaveConfigGood ==
  ASSUME StoreInv, NEW w \in Writer, SaveConfig(w)
  PROVE  StoreInv'
<1> USE DEF files, dirty, pool, bounds
<1> DEFINE r == IF writer[w].resets THEN [Idle EXCEPT !.phase = "resetting"] ELSE Idle
<1>1. /\ up /\ writer[w].phase = "config"
      /\ IF ConfigDue
         THEN file' = Written(cfg) /\ cfgDirty' = FALSE /\ mihomoMigratePending' = FALSE
         ELSE UNCHANGED <<file, cfgDirty, mihomoMigratePending>>
      /\ writer' = [writer EXCEPT ![w] = r]
      /\ UNCHANGED <<now, up, cfg, mihomoDirty, envOnly, subs, queue, inUse, working, updates,
                     crashes, unsaved>>
  BY DEF SaveConfig, Saved
<1>2. /\ r \in [phase : {"idle", "read", "subs", "config", "resetting"},
                busy : SUBSET Account, resets : BOOLEAN]
      /\ r.phase = (IF writer[w].resets THEN "resetting" ELSE "idle") /\ ~r.resets
  BY DEF Idle
<1> HIDE DEF r
<1>3. WritersInv' /\ \A v \in Writer : v # w => writer'[v] = writer[v]
  BY <1>1, <1>2, WriterStep DEF StoreInv
<1>4. writer'[w] = r
  BY <1>1 DEF StoreInv, ConfigTypeOK
<1>5. /\ cfg \in Config /\ Written(cfg) \in Config /\ Written(cfg).mihomo = None
      /\ Written(Written(cfg)) = Written(cfg)
  BY WrittenType DEF StoreInv, ConfigTypeOK
<1>6. Written(cfg) \notin {None, Torn}
  BY <1>5, StoreAssumption
<1>7. ConfigTypeOK'
  <2>1. /\ cfgDirty' \in BOOLEAN /\ mihomoMigratePending' \in BOOLEAN
        /\ file' \in Config \union {None, Torn}
    BY <1>1, <1>5 DEF StoreInv, ConfigTypeOK
  <2>2. writer' \in [Writer -> [phase : {"idle", "read", "subs", "config", "resetting"},
                               busy : SUBSET Account, resets : BOOLEAN]]
    BY <1>1, <1>2 DEF StoreInv, ConfigTypeOK
  <2> QED
    BY <1>1, <2>1, <2>2 DEF StoreInv, ConfigTypeOK
<1>8. SubsAsInMemory /\ ~mihomoDirty
  BY <1>1 DEF StoreInv, MigrationInv
<1>9. MigrationInv'
  <2>1. SubsAsInMemory' /\ ~mihomoDirty'
    BY <1>1, <1>8 DEF SubsAsInMemory
  <2>2. CASE ConfigDue
    BY <1>1, <1>5, <2>1, <2>2 DEF MigrationInv
  <2>3. CASE ~ConfigDue
    BY <1>1, <2>1, <2>3 DEF StoreInv, MigrationInv
  <2> QED
    BY <2>2, <2>3
<1>10. UnsavedIsDirty'
  <2>1. CASE ConfigDue
    <3>1. file' = Written(cfg) /\ Content(file') = Written(cfg) /\ file' # Torn
      BY <1>1, <1>6, <2>1 DEF Content
    <3>2. Load(file', subs').mihomo = IF subs' \in {None, Torn} THEN Content(file').mihomo ELSE subs'
      BY <1>5, <1>7, <3>1, LoadType DEF ConfigTypeOK
    <3> QED
      BY <1>1, <1>5, <1>8, <3>1, <3>2 DEF UnsavedIsDirty, SubsAsInMemory
  <2>2. CASE ~ConfigDue
    BY <1>1, <2>2 DEF StoreInv, UnsavedIsDirty
  <2> QED
    BY <2>1, <2>2
<1>11. QueueFollowsConfig'
  <2>1. CASE writer[w].resets
    BY <1>2, <1>4, <2>1 DEF QueueFollowsConfig
  <2>2. CASE ~writer[w].resets
    BY <1>1, <1>2, <1>3, <1>4, <2>2 DEF StoreInv, QueueFollowsConfig
  <2> QED
    BY <2>1, <2>2
<1> QED
  BY <1>3, <1>7, <1>9, <1>10, <1>11 DEF StoreInv
\* A write that is cut short: the files are what they were, or damaged, and what was due is.
LEMMA CutShortLeaves ==
  ASSUME StoreInv, NEW w \in Writer, CutShort(w)
  PROVE  /\ InSave(w)
         /\ file' \in Config \union {None, Torn} /\ subs' \in Subscriptions \union {None, Torn}
         /\ \/ /\ file' = file /\ SubsDue /\ writer[w].phase = "subs"
               /\ subs' = subs \/ (subs' = Torn /\ cfg.mihomo # None)
            \/ /\ subs' = subs /\ ConfigDue /\ writer[w].phase = "config"
               /\ file' \in {file, Torn}
  BY DEF CutShort, InSave, StoreInv, ConfigTypeOK

LEMMA WriteFailsGood ==
  ASSUME StoreInv, NEW w \in Writer, WriteFails(w)
  PROVE  StoreInv'
<1> USE DEF dirty, pool, bounds
<1>1. /\ up /\ writer' = [writer EXCEPT ![w] = Idle] /\ unsaved' = TRUE /\ CutShort(w)
      /\ UNCHANGED <<now, up, cfg, cfgDirty, mihomoDirty, mihomoMigratePending, envOnly, queue,
                     inUse, working, updates, crashes>>
  BY DEF WriteFails
<1>2. Idle.phase = "idle" /\ ~Idle.resets
  BY DEF Idle
<1>3. WritersInv' /\ \A v \in Writer : v # w => writer'[v] = writer[v]
  BY <1>1, <1>2, IdleType, WriterStep DEF StoreInv
<1>4. writer'[w] = Idle
  BY <1>1 DEF StoreInv, ConfigTypeOK
<1>5. ConfigTypeOK'
  <2>1. writer' \in [Writer -> [phase : {"idle", "read", "subs", "config", "resetting"},
                               busy : SUBSET Account, resets : BOOLEAN]]
    BY <1>1, IdleType DEF StoreInv, ConfigTypeOK
  <2> QED
    BY <1>1, <2>1, CutShortLeaves DEF StoreInv, ConfigTypeOK
<1>6. \A v \in Writer : writer'[v].phase # "config"
  BY <1>1, <1>2, <1>3, <1>4, CutShortLeaves, Alone DEF InSave
<1>7. \/ file' = file /\ SubsDue
      \/ subs' = subs /\ ConfigDue /\ file' \in {file, Torn}
  BY <1>1, CutShortLeaves
<1>8. MigrationInv'
  <2>1. mihomoDirty \/ mihomoMigratePending \/ (subs' = subs /\ SubsAsInMemory)
    BY <1>1, <1>7 DEF SubsDue, StoreInv, MigrationInv
  <2>2. (mihomoDirty \/ mihomoMigratePending \/ SubsAsInMemory)'
    BY <1>1, <2>1 DEF SubsAsInMemory
  <2>3. file' \notin {None, Torn} /\ file'.mihomo # None => mihomoMigratePending'
    BY <1>1, <1>7 DEF StoreInv, MigrationInv
  <2> QED
    BY <1>6, <2>2, <2>3 DEF MigrationInv
<1>9. UnsavedIsDirty'
  <2>1. CASE file' = file /\ SubsDue
    BY <1>1, <2>1 DEF SubsDue, StoreInv, UnsavedIsDirty
  <2>2. CASE subs' = subs /\ ConfigDue /\ file' = file
    BY <1>1, <2>2 DEF StoreInv, UnsavedIsDirty
  <2>3. CASE subs' = subs /\ ConfigDue /\ file' = Torn
    <3>1. file = None => Content(file) = EmptyConfig /\ file # Torn
      BY StoreAssumption DEF Content
    <3> QED
      BY <1>1, <2>3, <3>1 DEF ConfigDue, StoreInv, UnsavedIsDirty
  <2> QED
    BY <1>7, <2>1, <2>2, <2>3
<1>10. QueueFollowsConfig'
  BY <1>1 DEF QueueFollowsConfig
<1> QED
  BY <1>3, <1>5, <1>8, <1>9, <1>10 DEF StoreInv

LEMMA ResetPoolGood ==
  ASSUME StoreInv, NEW w \in Writer, ResetPool(w)
  PROVE  StoreInv'
<1> USE DEF ResetPool, files, dirty, pool, bounds
<1>1. Idle.phase = "idle" /\ ~Idle.resets
  BY DEF Idle
<1>2. WritersInv' /\ \A v \in Writer : v # w => writer'[v] = writer[v]
  BY <1>1, IdleType, WriterStep DEF StoreInv
<1>3. writer'[w] = Idle
  BY DEF StoreInv, ConfigTypeOK
<1>4. ConfigTypeOK'
  <2>1. InQueue(cfg) \subseteq Account
    BY DEF InQueue, Enabled, StoreInv, ConfigTypeOK, Config
  <2>2. writer' \in [Writer -> [phase : {"idle", "read", "subs", "config", "resetting"},
                               busy : SUBSET Account, resets : BOOLEAN]]
    BY IdleType DEF StoreInv, ConfigTypeOK
  <2> QED
    BY <2>1, <2>2 DEF StoreInv, ConfigTypeOK
<1>5. MigrationInv'
  BY <1>1, <1>2, <1>3 DEF StoreInv, MigrationInv, SubsAsInMemory
<1>6. UnsavedIsDirty'
  BY DEF StoreInv, UnsavedIsDirty
<1>7. QueueFollowsConfig'
  BY DEF QueueFollowsConfig, InQueue, Enabled
<1> QED
  BY <1>2, <1>4, <1>5, <1>6, <1>7 DEF StoreInv

\* Requests and time.
LEMMA OthersGood ==
  ASSUME StoreInv, (\E a \in Account : Acquire(a) \/ Release(a)) \/ Tick
  PROVE  StoreInv'
<1> USE DEF files, dirty, pool, bounds
<1>1. UNCHANGED <<up, cfg, cfgDirty, mihomoDirty, mihomoMigratePending, envOnly, file, subs,
                  writer, queue, updates, crashes, unsaved>>
  BY DEF Acquire, Release, Tick
<1>2. now' \in 0 .. MaxTime
  BY StoreAssumption DEF Acquire, Release, Tick, StoreInv, ConfigTypeOK
<1>3. working' \subseteq Account /\ inUse' \subseteq working'
  BY DEF Acquire, Release, Tick, StoreInv, ConfigTypeOK
<1>4. ConfigTypeOK'
  BY <1>1, <1>2, <1>3 DEF StoreInv, ConfigTypeOK
<1>5. WritersInv' /\ MigrationInv' /\ UnsavedIsDirty'
  BY <1>1 DEF StoreInv, WritersInv, InSave, MigrationInv, SubsAsInMemory, UnsavedIsDirty
<1>6. QueueFollowsConfig'
  BY <1>1 DEF StoreInv, QueueFollowsConfig
<1> QED
  BY <1>4, <1>5, <1>6 DEF StoreInv

LEMMA CrashGood ==
  ASSUME StoreInv, Crash
  PROVE  StoreInv'
<1> USE DEF files, dirty, pool, bounds
<1>1. /\ up' = FALSE /\ crashes' = crashes + 1 /\ crashes < MaxCrashes
      /\ writer' = [w \in Writer |-> Idle]
      /\ UNCHANGED <<file, subs>> \/ \E w \in Writer : CutShort(w)
      /\ UNCHANGED <<now, cfg, cfgDirty, mihomoDirty, mihomoMigratePending, envOnly, queue,
                     inUse, working, updates, unsaved>>
  BY DEF Crash
<1>2. file' \in Config \union {None, Torn} /\ subs' \in Subscriptions \union {None, Torn}
  BY <1>1, CutShortLeaves DEF StoreInv, ConfigTypeOK
<1>3. crashes' \in 0 .. MaxCrashes
  BY <1>1, StoreAssumption DEF StoreInv, ConfigTypeOK
<1>4. ConfigTypeOK'
  BY <1>1, <1>2, <1>3, IdleType DEF StoreInv, ConfigTypeOK
<1>5. WritersInv'
  <2>1. \A w \in Writer : writer'[w].phase = "idle" /\ ~writer'[w].resets
    BY <1>1 DEF Idle
  <2> QED
    BY <2>1 DEF WritersInv, InSave
<1>6. MigrationInv' /\ UnsavedIsDirty' /\ QueueFollowsConfig'
  BY <1>1 DEF MigrationInv, UnsavedIsDirty, QueueFollowsConfig
<1> QED
  BY <1>4, <1>5, <1>6 DEF StoreInv

LEMMA RestartGood ==
  ASSUME StoreInv, Restart
  PROVE  StoreInv'
<1> USE DEF files, bounds
<1>1. /\ ~up /\ file # Torn /\ up' = TRUE
      /\ cfgDirty' = FALSE /\ mihomoDirty' = FALSE
      /\ mihomoMigratePending' = (Content(file).mihomo # None)
      /\ cfg' = Load(file, subs) /\ unsaved' = FALSE
      /\ queue' = InQueue(cfg') /\ inUse' = {} /\ working' = {}
      /\ UNCHANGED <<now, envOnly, file, subs, writer, updates, crashes>>
  BY DEF Restart, Loaded
<1>2. file \in Config \union {None} /\ subs \in Subscriptions \union {None, Torn}
  BY <1>1 DEF StoreInv, ConfigTypeOK
<1>3. /\ cfg' \in Config /\ Written(cfg') = Written(Content(file))
      /\ cfg'.mihomo = IF subs \in {None, Torn} THEN Content(file).mihomo ELSE subs
  BY <1>1, <1>2, LoadType
<1>4. (file # None => Content(file) = file) /\ Content(None).mihomo = None
  BY StoreAssumption DEF Content
<1>5. \A w \in Writer : writer[w].phase = "idle"
  BY <1>1 DEF StoreInv, WritersInv
<1>6. ConfigTypeOK'
  <2>1. InQueue(cfg') \subseteq Account
    BY <1>3 DEF InQueue, Enabled, Config
  <2>2. mihomoMigratePending' \in BOOLEAN
    BY <1>1, Zenon
  <2> QED
    BY <1>1, <1>3, <2>1, <2>2 DEF StoreInv, ConfigTypeOK
<1>7. WritersInv'
  BY <1>1, <1>5 DEF StoreInv, WritersInv, InSave
<1>8. MigrationInv'
  BY <1>1, <1>3, <1>4, <1>5 DEF MigrationInv, SubsAsInMemory
<1>9. UnsavedIsDirty'
  BY <1>1, <1>3 DEF UnsavedIsDirty
<1>10. QueueFollowsConfig'
  BY <1>1 DEF QueueFollowsConfig
<1> QED
  BY <1>6, <1>7, <1>8, <1>9, <1>10 DEF StoreInv

LEMMA StoreStep == StoreInv /\ [Next]_vars => StoreInv'
<1> SUFFICES ASSUME StoreInv, [Next]_vars PROVE StoreInv'
  OBVIOUS
<1>1. CASE Next
  BY <1>1, ReadBusyGood, SaveSubsGood, SaveConfigGood, WriteFailsGood, ResetPoolGood,
     MutateGood, RefuseGood, OthersGood, CrashGood, RestartGood DEF Next
<1>2. CASE UNCHANGED vars
  BY <1>2 DEF vars, files, dirty, pool, bounds, StoreInv, ConfigTypeOK, WritersInv, InSave,
     MigrationInv, SubsAsInMemory, UnsavedIsDirty, QueueFollowsConfig
<1> QED
  BY <1>1, <1>2
-----------------------------------------------------------------------------
(* The theorems                                                              *)

LEMMA StoreInvariant == Spec => []StoreInv
  BY StoreInit, StoreStep, PTL DEF Spec

\* The configuration, its files and the writers keep their types, through every update of
\* an account, failing write and restart.
THEOREM StoreTypesAreRight == Spec => []ConfigTypeOK
<1>1. StoreInv => ConfigTypeOK
  BY DEF StoreInv
<1> QED
  BY <1>1, StoreInvariant, PTL

\* Nothing that a save failed to write is forgotten (markDirty, saveLocked).
THEOREM UnsavedStaysDirty == Spec => []UnsavedIsDirty
<1>1. StoreInv => UnsavedIsDirty
  BY DEF StoreInv
<1> QED
  BY <1>1, StoreInvariant, PTL

\* The queue follows the configuration, except while a Reset is owed or after a failed save.
THEOREM QueueFollows == Spec => []QueueFollowsConfig
<1>1. StoreInv => QueueFollowsConfig
  BY DEF StoreInv
<1> QED
  BY <1>1, StoreInvariant, PTL

\* A restart finds what an update that reported success left in memory.
LEMMA SaveConfigDurable ==
  ASSUME StoreInv, NEW w \in Writer, SaveConfig(w)
  PROVE  IF file' = Torn THEN Written(cfg) = Written(EmptyConfig)
         ELSE Load(file', subs') = cfg'
<1>1. /\ cfg' = cfg /\ subs' = subs /\ up
      /\ IF ConfigDue
         THEN file' = Written(cfg) /\ mihomoMigratePending' = FALSE
         ELSE UNCHANGED <<file, cfgDirty, mihomoMigratePending>>
      /\ SubsAsInMemory /\ ~mihomoDirty
  BY DEF SaveConfig, StoreInv, MigrationInv
<1>2. /\ cfg \in Config /\ Written(cfg) \in Config /\ Written(cfg).mihomo = None
      /\ Written(Written(cfg)) = Written(cfg)
  BY WrittenType DEF StoreInv, ConfigTypeOK
<1>3. Written(cfg) \notin {None, Torn}
  BY <1>2, StoreAssumption
<1>4. subs' \in Subscriptions \union {None, Torn}
  BY <1>1 DEF StoreInv, ConfigTypeOK
<1>5. ASSUME file' \in Config \union {None}, Written(Content(file')) = Written(cfg),
             Content(file').mihomo = None
      PROVE  Load(file', subs') = cfg'
  <2>1. /\ Load(file', subs') \in Config /\ Written(Load(file', subs')) = Written(cfg)
        /\ Load(file', subs').mihomo = IF subs' \in {None, Torn} THEN None ELSE subs'
    BY <1>4, <1>5, LoadType
  <2>2. Load(file', subs').mihomo = cfg.mihomo
    BY <1>1, <2>1 DEF SubsAsInMemory
  <2> QED
    BY <1>1, <1>2, <2>1, <2>2, SameConfig
<1>6. CASE ConfigDue
  BY <1>1, <1>2, <1>3, <1>5, <1>6 DEF Content
<1>7. CASE ~ConfigDue
  <2>1. ~cfgDirty /\ ~mihomoMigratePending /\ file # None /\ file' = file
    BY <1>1, <1>7 DEF ConfigDue
  <2>2. Written(cfg) = Written(IF file = Torn THEN EmptyConfig ELSE Content(file))
    BY <1>1, <2>1 DEF StoreInv, UnsavedIsDirty
  <2>3. CASE file = Torn
    BY <2>1, <2>2, <2>3
  <2>4. CASE file # Torn
    <3>1. file \in Config /\ Content(file) = file /\ file.mihomo = None
      BY <1>1, <2>1, <2>4 DEF Content, StoreInv, ConfigTypeOK, MigrationInv
    <3> QED
      BY <1>5, <2>1, <2>2, <2>4, <3>1
  <2> QED
    BY <2>3, <2>4
<1> QED
  BY <1>6, <1>7

THEOREM WhatIsSavedIsFound == Spec => SavedIsDurable
<1>1. StoreInv =>
        \A w \in Writer : SaveConfig(w) =>
          IF file' = Torn THEN Written(cfg) = Written(EmptyConfig)
          ELSE Load(file', subs') = cfg'
  BY SaveConfigDurable
<1> QED
  BY <1>1, StoreInvariant, PTL DEF SavedIsDurable
-----------------------------------------------------------------------------
(* The files implement DurableValue                                          *)

\* What a step does to the files, in the terms of DurableValue.
InConfigFile == IF file = Torn THEN Torn ELSE Written(Content(file))
InSubsFile ==
  IF subs \notin {None, Torn} THEN subs
  ELSE IF file = Torn THEN Torn
  ELSE IF Content(file).mihomo # None THEN Content(file).mihomo ELSE subs

\* The steps that touch no file.
QuietStep ==
  \/ \E w \in Writer :
       ReadBusy(w) \/ ResetPool(w) \/ \E u \in Updates : Mutate(w, u) \/ Refuse(w, u)
  \/ \E a \in Account : Acquire(a) \/ Release(a)
  \/ Tick \/ UNCHANGED vars

LEMMA QuietFiles ==
  QuietStep => UNCHANGED <<file, subs, up>> /\ (up \/ UNCHANGED cfg)
  BY DEF QuietStep, ReadBusy, ResetPool, Mutate, Refuse, Acquire, Release, Tick, vars, files, dirty, pool,
     bounds

\* The steps that write.
LEMMA WritesFiles ==
  ASSUME StoreInv, NEW w \in Writer,
         \/ SaveSubs(w) \/ SaveConfig(w) \/ WriteFails(w) \/ (Crash /\ CutShort(w))
  PROVE  /\ up /\ cfg' = cfg
         /\ InConfigFile' \in {InConfigFile, Written(cfg), Torn}
         /\ \/ InSubsFile' \in {InSubsFile, cfg.mihomo, Torn}
            \/ OldSubsReturn
<1>1. /\ cfg \in Config /\ Written(cfg) \in Config /\ Written(cfg).mihomo = None
      /\ Written(Written(cfg)) = Written(cfg) /\ Written(cfg) \notin {None, Torn}
  BY WrittenType, StoreAssumption DEF StoreInv, ConfigTypeOK
<1>2. cfg.mihomo \in Subscriptions \union {None} /\ None # Torn /\ Torn \notin Subscriptions
  BY <1>1, StoreAssumption DEF Config
<1>3. subs \in Subscriptions \union {None, Torn} /\ file \in Config \union {None, Torn}
  BY DEF StoreInv, ConfigTypeOK
<1>4. CASE SaveSubs(w) /\ SubsDue
  <2>1. up /\ cfg' = cfg /\ file' = file /\ subs' = cfg.mihomo
    BY <1>4 DEF SaveSubs
  <2>2. InConfigFile' = InConfigFile
    BY <2>1 DEF InConfigFile
  <2>3. CASE cfg.mihomo # None
    BY <1>2, <2>1, <2>2, <2>3 DEF InSubsFile
  <2>4. CASE cfg.mihomo = None
    BY <1>2, <2>1, <2>2, <2>4 DEF InSubsFile, OldSubsReturn
  <2> QED
    BY <2>3, <2>4
<1>5. CASE SaveSubs(w) /\ ~SubsDue
  BY <1>5 DEF SaveSubs, InConfigFile, InSubsFile
<1>6. CASE SaveConfig(w) /\ ConfigDue
  <2>1. up /\ cfg' = cfg /\ subs' = subs /\ file' = Written(cfg) /\ SubsAsInMemory
    BY <1>6 DEF SaveConfig, StoreInv, MigrationInv
  <2>2. Content(file') = Written(cfg) /\ file' # Torn
    BY <1>1, <2>1 DEF Content
  <2>3. InConfigFile' = Written(cfg)
    BY <1>1, <2>1, <2>2 DEF InConfigFile
  <2>4. InSubsFile' = subs
    BY <1>1, <2>1, <2>2 DEF InSubsFile
  <2> QED
    BY <2>1, <2>3, <2>4 DEF SubsAsInMemory, InSubsFile
<1>7. CASE SaveConfig(w) /\ ~ConfigDue
  BY <1>7 DEF SaveConfig, InConfigFile, InSubsFile
<1>8. CASE WriteFails(w) \/ (Crash /\ CutShort(w))
  <2>1. up /\ cfg' = cfg /\ CutShort(w)
    BY <1>8 DEF WriteFails, Crash
  <2>2. CASE file' = file /\ subs' \in {subs, Torn}
    BY <1>2, <2>1, <2>2 DEF InConfigFile, InSubsFile, OldSubsReturn
  <2>3. CASE subs' = subs /\ file' \in {file, Torn}
    BY <1>2, <2>1, <2>3 DEF InConfigFile, InSubsFile
  <2> QED
    BY <2>1, <2>2, <2>3, CutShortLeaves
<1> QED
  BY <1>4, <1>5, <1>6, <1>7, <1>8
LEMMA RestartReads ==
  ASSUME StoreInv, Restart
  PROVE  /\ ~up /\ up' /\ InConfigFile' = InConfigFile /\ InSubsFile' = InSubsFile
         /\ Written(cfg)' = InConfigFile
         /\ InSubsFile # Torn => (cfg.mihomo)' = InSubsFile
<1>1. /\ ~up /\ file # Torn /\ up' = TRUE /\ cfg' = Load(file, subs)
      /\ file' = file /\ subs' = subs
  BY DEF Restart, Loaded, files
<1>2. file \in Config \union {None} /\ subs \in Subscriptions \union {None, Torn}
  BY <1>1 DEF StoreInv, ConfigTypeOK
<1>3. /\ Written(cfg') = Written(Content(file))
      /\ cfg'.mihomo = IF subs \in {None, Torn} THEN Content(file).mihomo ELSE subs
  BY <1>1, <1>2, LoadType
<1> QED
  BY <1>1, <1>3 DEF InConfigFile, InSubsFile, Written

LEMMA FilesStep ==
  ASSUME StoreInv, [Next]_vars
  PROVE  /\ [ConfigFile!Next]_(ConfigFile!fileVars)
         /\ [OldSubsReturn \/ SubsFile!Next]_(SubsFile!fileVars)
<1> USE DEF ConfigFile!fileVars, SubsFile!fileVars
<1>1. ASSUME NEW w \in Writer,
             \/ SaveSubs(w) \/ SaveConfig(w) \/ WriteFails(w) \/ (Crash /\ CutShort(w))
      PROVE  ConfigFile!Next /\ (OldSubsReturn \/ SubsFile!Next)
  <2>1. /\ up /\ cfg' = cfg
        /\ InConfigFile' \in {InConfigFile, Written(cfg), Torn}
        /\ InSubsFile' \in {InSubsFile, cfg.mihomo, Torn} \/ OldSubsReturn
    BY <1>1, WritesFiles
  <2>2. up' \/ ~up'
    OBVIOUS
  <2>3. ConfigFile!Work \/ ConfigFile!Stop
    BY <2>1, <2>2 DEF ConfigFile!Work, ConfigFile!Stop, InConfigFile, Written
  <2>4. OldSubsReturn \/ SubsFile!Work \/ SubsFile!Stop
    BY <2>1, <2>2 DEF SubsFile!Work, SubsFile!Stop, InSubsFile
  <2> QED
    BY <2>3, <2>4 DEF ConfigFile!Next, SubsFile!Next
<1>2. CASE QuietStep
  <2>1. UNCHANGED <<file, subs, up>> /\ (up \/ UNCHANGED cfg)
    BY <1>2, QuietFiles
  <2>2. CASE up
    <3>1. ConfigFile!Work /\ SubsFile!Work
      BY <2>1, <2>2 DEF ConfigFile!Work, SubsFile!Work
    <3> QED
      BY <3>1 DEF ConfigFile!Next, SubsFile!Next
  <2>3. CASE UNCHANGED cfg
    BY <2>1, <2>3
  <2> QED
    BY <2>1, <2>2, <2>3
<1>3. CASE Crash /\ UNCHANGED files
  <2>1. up /\ ~up' /\ UNCHANGED <<file, subs>>
    BY <1>3 DEF Crash, files
  <2>2. ConfigFile!Stop /\ SubsFile!Stop
    BY <2>1 DEF ConfigFile!Stop, SubsFile!Stop
  <2> QED
    BY <2>2 DEF ConfigFile!Next, SubsFile!Next
<1>4. CASE Restart
  <2>1. ConfigFile!Start
    BY <1>4, RestartReads DEF ConfigFile!Start, InConfigFile, Written
  <2>2. SubsFile!Start
    BY <1>4, RestartReads DEF SubsFile!Start, InSubsFile
  <2> QED
    BY <2>1, <2>2 DEF ConfigFile!Next, SubsFile!Next
<1>5. Crash => UNCHANGED files \/ \E w \in Writer : CutShort(w)
  BY DEF Crash
<1> QED
  BY <1>1, <1>2, <1>3, <1>4, <1>5 DEF Next, QuietStep

LEMMA FilesInit == Init => ConfigFile!Init /\ SubsFile!Init
<1> SUFFICES ASSUME Init PROVE ConfigFile!Init /\ SubsFile!Init
  OBVIOUS
<1>1. file \in Config \union {None} /\ subs = None /\ cfg = Load(file, subs) /\ file # Torn
  BY StoreAssumption DEF Init
<1>2. cfg = Content(file)
  BY <1>1 DEF Load
<1> QED
  BY <1>1, <1>2 DEF ConfigFile!Init, SubsFile!Init

\* Both files hold what the program had, or are damaged, through updates, failing writes,
\* crashes and the migration, and a restart goes on with what they hold.
THEOREM FilesImplementDurableValue == Spec => FilesSound
<1>1. Init => ConfigFile!Init /\ SubsFile!Init
  BY FilesInit
<1>2. StoreInv /\ [Next]_vars =>
        /\ [ConfigFile!Next]_(ConfigFile!fileVars)
        /\ [OldSubsReturn \/ SubsFile!Next]_(SubsFile!fileVars)
  BY FilesStep
<1> QED
  BY <1>1, <1>2, StoreInvariant, PTL DEF Spec, FilesSound, ConfigFile!Spec
-----------------------------------------------------------------------------
(* Which accounts a reconciliation enables: the order of a group             *)

\* The place of an account in its group, from 0 on.
Rank(c, a) == Cardinality(InFront(c, a))

AtRank(c, type, n) == CHOOSE a \in Group(c, type) : Rank(c, a) = n - 1

LEMMA BeforeIsOrder ==
  ASSUME NEW c \in Config
  PROVE  /\ \A a \in Account : ~Before(c, a, a)
         /\ \A a, b \in Account : a # b => Before(c, a, b) \/ Before(c, b, a)
         /\ \A a, b, d \in Account : Before(c, a, b) /\ Before(c, b, d) => Before(c, a, d)
<1>1. c.priority \in [Account -> Nat] /\ Position \in [Account -> Nat]
  BY ElasticAssumption DEF Config
<1>2. \A a \in Account : ~Before(c, a, a)
  BY <1>1 DEF Before
<1>3. \A a, b \in Account : a # b => Before(c, a, b) \/ Before(c, b, a)
  <2>1. ASSUME NEW a \in Account, NEW b \in Account, a # b
        PROVE  Before(c, a, b) \/ Before(c, b, a)
    <3>1. Position[a] # Position[b]
      BY <2>1, ElasticAssumption
    <3>2. /\ c.priority[a] \in Nat /\ c.priority[b] \in Nat
          /\ Position[a] \in Nat /\ Position[b] \in Nat
      BY <1>1
    <3> QED
      BY <3>1, <3>2 DEF Before
  <2> QED
    BY <2>1
<1>4. \A a, b, d \in Account : Before(c, a, b) /\ Before(c, b, d) => Before(c, a, d)
  <2>1. ASSUME NEW a \in Account, NEW b \in Account, NEW d \in Account,
               Before(c, a, b), Before(c, b, d)
        PROVE  Before(c, a, d)
    <3>1. \A x \in {a, b, d} : c.priority[x] \in Nat /\ Position[x] \in Nat
      BY <1>1
    <3> QED
      BY <2>1, <3>1 DEF Before
  <2> QED
    BY <2>1
<1> QED
  BY <1>2, <1>3, <1>4

LEMMA GroupFinite ==
  ASSUME NEW c \in Config, NEW type
  PROVE  /\ Group(c, type) \in SUBSET Account /\ IsFiniteSet(Group(c, type))
         /\ Cardinality(Group(c, type)) \in Nat
<1>1. Group(c, type) \in SUBSET Account
  BY DEF Group, Config
<1> QED
  BY <1>1, FS_Subset, FS_CardinalityType, ElasticAssumption

\* The ranks of a group number its accounts in their order.
LEMMA RanksOrder ==
  ASSUME NEW c \in Config, NEW type
  PROVE  \A a, b \in Group(c, type) :
           /\ Rank(c, a) \in 0 .. Cardinality(Group(c, type)) - 1
           /\ Before(c, b, a) <=> Rank(c, b) < Rank(c, a)
           /\ Rank(c, b) = Rank(c, a) => b = a
<1> DEFINE G == Group(c, type)
<1>1. G \in SUBSET Account /\ IsFiniteSet(G) /\ Cardinality(G) \in Nat
  BY GroupFinite
<1>2. \A a \in G : InFront(c, a) = {b \in G : Before(c, b, a)}
  BY DEF InFront, Group
<1> HIDE DEF G
<1>3. \A a \in G : /\ IsFiniteSet(InFront(c, a)) /\ Rank(c, a) \in Nat
                   /\ InFront(c, a) \in SUBSET G /\ a \notin InFront(c, a)
  <2>1. ASSUME NEW a \in G
        PROVE  InFront(c, a) \in SUBSET G /\ a \notin InFront(c, a)
    BY <1>1, <1>2, BeforeIsOrder
  <2> QED
    BY <1>1, <2>1, FS_Subset, FS_CardinalityType DEF Rank
<1>4. \A a \in G : Rank(c, a) \in 0 .. Cardinality(G) - 1
  <2>1. ASSUME NEW a \in G PROVE Rank(c, a) \in 0 .. Cardinality(G) - 1
    <3>1. Rank(c, a) <= Cardinality(G) /\ Rank(c, a) # Cardinality(G)
      BY <1>1, <1>3, FS_Subset DEF Rank
    <3>2. Rank(c, a) \in Nat
      BY <1>3
    <3> QED
      BY <1>1, <3>1, <3>2
  <2> QED
    BY <2>1
<1>5. ASSUME NEW a \in G, NEW b \in G, Before(c, b, a) PROVE Rank(c, b) < Rank(c, a)
  <2>1. InFront(c, b) \in SUBSET InFront(c, a) /\ b \in InFront(c, a)
    BY <1>1, <1>2, <1>5, BeforeIsOrder
  <2>2. InFront(c, b) # InFront(c, a)
    BY <1>3, <2>1
  <2>3. Rank(c, b) <= Rank(c, a) /\ Rank(c, b) # Rank(c, a)
    BY <1>3, <2>1, <2>2, FS_Subset DEF Rank
  <2>4. Rank(c, a) \in Nat /\ Rank(c, b) \in Nat
    BY <1>3
  <2> QED
    BY <2>3, <2>4
<1>6. ASSUME NEW a \in G, NEW b \in G
      PROVE  /\ Before(c, b, a) <=> Rank(c, b) < Rank(c, a)
             /\ Rank(c, b) = Rank(c, a) => b = a
  <2>1. Rank(c, a) \in Nat /\ Rank(c, b) \in Nat
    BY <1>3
  <2>2. a # b => Before(c, a, b) \/ Before(c, b, a)
    BY <1>1, BeforeIsOrder
  <2>3. Before(c, a, b) => Rank(c, a) < Rank(c, b)
    BY <1>5
  <2>4. Before(c, b, a) => Rank(c, b) < Rank(c, a)
    BY <1>5
  <2> QED
    BY <2>1, <2>2, <2>3, <2>4
<1> QED
  BY <1>4, <1>6 DEF G

LEMMA AtRankIs ==
  ASSUME NEW c \in Config, NEW type, NEW n \in 1 .. Cardinality(Group(c, type))
  PROVE  AtRank(c, type, n) \in Group(c, type) /\ Rank(c, AtRank(c, type, n)) = n - 1
<1> DEFINE G == Group(c, type)
           N == Cardinality(G)
           T == 0 .. N - 1
           rank == [a \in G |-> Rank(c, a)]
<1>1. IsFiniteSet(G) /\ N \in Nat
  BY GroupFinite
<1>2. rank \in Injection(G, T)
  <2>1. \A a \in G : rank[a] \in T
    BY RanksOrder
  <2>2. \A a, b \in G : rank[a] = rank[b] => a = b
    BY RanksOrder
  <2> HIDE DEF T
  <2>3. rank \in [G -> T]
    BY <2>1
  <2> QED
    BY <2>2, <2>3 DEF Injection, IsInjective
<1>3. IsFiniteSet(T) /\ Cardinality(T) = N
  <2>1. 0 \in Int /\ N - 1 \in Int /\ (IF 0 > N - 1 THEN 0 ELSE (N - 1) - 0 + 1) = N
    BY <1>1
  <2> QED
    BY <2>1, FS_Interval
<1>4. rank \in Surjection(G, T)
  <2> HIDE DEF rank, T, G, N
  <2> QED
    BY <1>2, <1>3, FS_Injection DEF N
<1>5. n - 1 \in T
  BY <1>1
<1>6. \E a \in G : Rank(c, a) = n - 1
  <2>1. \E a \in G : rank[a] = n - 1
    BY <1>4, <1>5 DEF Surjection
  <2> QED
    BY <2>1
<1> QED
  BY <1>6 DEF AtRank
-----------------------------------------------------------------------------
(* ... and how many of its first accounts are enabled                        *)

\* A set of numbers with 0 that is closed under successor holds them all.
LEMMA InductionOnNat ==
  ASSUME NEW S, 0 \in S, \A n \in Nat : n \in S => n + 1 \in S
  PROVE  Nat \subseteq S
<1> SUFFICES ASSUME Nat \ S # {} PROVE FALSE
  OBVIOUS
<1>1. PICK m \in Nat \ S : \A n \in Nat \ S : <<n, m>> \notin OpToRel(<, Nat)
  BY WFMin, NatLessThanWellFounded
<1>2. m # 0 /\ m - 1 \in Nat /\ (m - 1) + 1 = m /\ m - 1 < m
  <2>1. m \in Nat /\ m # 0
    BY <1>1
  <2> QED
    BY <2>1
<1>3. <<m - 1, m>> \in OpToRel(<, Nat)
  BY <1>1, <1>2 DEF OpToRel
<1>4. m - 1 \in S
  BY <1>1, <1>2, <1>3
<1> QED
  BY <1>1, <1>2, <1>4

\* One more, or not: the n-th account after m enabled ones.
OneMore(c, type, busy, n, m) ==
  m + (IF ApplyElasticState(c, AtRank(c, type, n), m, busy) THEN 1 ELSE 0)

LEMMA EnabledAmongIs ==
  ASSUME NEW c, NEW type, NEW busy
  PROVE  EnabledAmong(c, type, busy) =
           CHOOSE among : among =
             [n \in 0 .. Cardinality(Group(c, type)) |->
                IF n = 0 THEN 0 ELSE OneMore(c, type, busy, n, among[n - 1])]
BY Zenon DEF EnabledAmong, OneMore, AtRank, Rank

\* What the loop over the first N accounts of a group computes.
CountsUpto(c, type, busy, N, g) ==
  /\ g \in [0 .. N -> Nat]
  /\ g[0] = 0
  /\ \A n \in 1 .. N : g[n] = OneMore(c, type, busy, n, g[n - 1])

\* It computes something: the recursion has a solution, up to any number.
LEMMA CountExists ==
  ASSUME NEW N \in Nat, NEW c, NEW type, NEW busy
  PROVE  \E g : CountsUpto(c, type, busy, N, g)
<1> DEFINE Solves(g, k) ==
             /\ g \in [0 .. k -> Nat]
             /\ g[0] = 0
             /\ \A n \in 1 .. k : g[n] = OneMore(c, type, busy, n, g[n - 1])
           S == {k \in Nat : \E g : Solves(g, k)}
<1>1. \A n, m \in Nat : OneMore(c, type, busy, n, m) \in Nat
  BY DEF OneMore
<1>2. 0 \in S
  <2> DEFINE g == [n \in 0 .. 0 |-> 0]
  <2>1. Solves(g, 0)
    OBVIOUS
  <2> QED
    BY <2>1
<1>3. ASSUME NEW k \in Nat, k \in S PROVE k + 1 \in S
  <2>1. PICK g : Solves(g, k)
    BY <1>3
  <2> DEFINE v == OneMore(c, type, busy, k + 1, g[k])
             h == [n \in 0 .. k + 1 |-> IF n = k + 1 THEN v ELSE g[n]]
  <2>2. g[k] \in Nat /\ k + 1 \in Nat
    BY <2>1
  <2>3. v \in Nat
    BY <1>1, <2>2
  <2> HIDE DEF v
  <2>4. /\ \A n \in 0 .. k : h[n] = g[n]
        /\ h[k + 1] = v
        /\ h \in [0 .. k + 1 -> Nat]
    BY <2>1, <2>3
  <2> HIDE DEF h
  <2>5. \A n \in 1 .. k + 1 : h[n] = OneMore(c, type, busy, n, h[n - 1])
    <3>1. ASSUME NEW n \in 1 .. k PROVE h[n] = OneMore(c, type, busy, n, h[n - 1])
      <4>1. n \in 0 .. k /\ n - 1 \in 0 .. k
        OBVIOUS
      <4> QED
        BY <2>1, <2>4, <4>1
    <3>2. h[k + 1] = OneMore(c, type, busy, k + 1, h[(k + 1) - 1])
      <4>1. (k + 1) - 1 = k /\ k \in 0 .. k
        OBVIOUS
      <4> QED
        BY <2>4, <4>1 DEF v
    <3>3. \A n \in 1 .. k + 1 : n \in 1 .. k \/ n = k + 1
      OBVIOUS
    <3> QED
      BY <3>1, <3>2, <3>3
  <2>6. h[0] = 0
    BY <2>1, <2>4
  <2>7. Solves(h, k + 1)
    BY <2>4, <2>5, <2>6
  <2> HIDE DEF Solves
  <2> QED
    BY <2>2, <2>7
<1>4. N \in S
  <2> HIDE DEF S
  <2> QED
    BY <1>2, <1>3, InductionOnNat
<1> QED
  BY <1>4 DEF CountsUpto

LEMMA EnabledAmongCounts ==
  ASSUME NEW c \in Config, NEW type, NEW busy
  PROVE  CountsUpto(c, type, busy, Cardinality(Group(c, type)), EnabledAmong(c, type, busy))
<1> DEFINE among == EnabledAmong(c, type, busy)
           N == Cardinality(Group(c, type))
<1>1. N \in Nat
  BY GroupFinite
<1>2. \E g : g = [n \in 0 .. N |->
                    IF n = 0 THEN 0 ELSE OneMore(c, type, busy, n, g[n - 1])]
  <2> HIDE DEF N
  <2>1. PICK g : CountsUpto(c, type, busy, N, g)
    BY <1>1, CountExists
  <2>2. \A n \in 0 .. N : n # 0 => n \in 1 .. N
    BY <1>1
  <2>3. g = [n \in 0 .. N |-> IF n = 0 THEN 0 ELSE OneMore(c, type, busy, n, g[n - 1])]
    BY <2>1, <2>2 DEF CountsUpto
  <2> QED
    BY <2>3
<1>3. /\ among = [n \in 0 .. N |->
                    IF n = 0 THEN 0 ELSE OneMore(c, type, busy, n, among[n - 1])]
  BY <1>2, EnabledAmongIs, Zenon
<1> HIDE DEF among
<1>4. among[0] = 0 /\ \A n \in 1 .. N : among[n] = OneMore(c, type, busy, n, among[n - 1])
  <2>1. 0 \in 0 .. N /\ \A n \in 1 .. N : n \in 0 .. N /\ n # 0
    BY <1>1
  <2> QED
    BY <1>3, <2>1
<1>5. among \in [0 .. N -> Nat]
  <2> DEFINE S == {n \in Nat : n \in 0 .. N => among[n] \in Nat}
  <2>1. 0 \in S
    BY <1>4
  <2>2. ASSUME NEW n \in Nat, n \in S PROVE n + 1 \in S
    <3>1. CASE n + 1 \in 0 .. N
      <4>1. n \in 0 .. N /\ n + 1 \in 1 .. N /\ (n + 1) - 1 = n
        BY <1>1, <3>1
      <4>2. among[n + 1] = OneMore(c, type, busy, n + 1, among[n]) /\ among[n] \in Nat
        BY <1>4, <2>2, <4>1
      <4>3. among[n + 1] \in Nat
        BY <4>2 DEF OneMore
      <4> QED
        BY <4>3
    <3>2. CASE n + 1 \notin 0 .. N
      BY <3>2
    <3> QED
      BY <3>1, <3>2
  <2>3. Nat \subseteq S
    <3> HIDE DEF S
    <3> QED
      BY <2>1, <2>2, InductionOnNat
  <2>4. \A n \in 0 .. N : among[n] \in Nat
    BY <1>1, <2>3
  <2>5. DOMAIN among = 0 .. N
    BY <1>3
  <2>6. among = [n \in 0 .. N |-> among[n]]
    BY <1>3, <2>5
  <2> QED
    BY <2>4, <2>6
<1> QED
  BY <1>4, <1>5 DEF among, CountsUpto
\* The first n accounts of a group, those of them that are in no hard state, and those
\* that the loop enables when it has counted g.
FirstOf(c, type, n) == {a \in Group(c, type) : Rank(c, a) < n}
Soft(c, type, n) == {a \in FirstOf(c, type, n) : ~Hard(c, a)}
On(c, type, busy, g, n) ==
  {a \in FirstOf(c, type, n) : ApplyElasticState(c, a, g[Rank(c, a)], busy)}

LEMMA FirstOfGrows ==
  ASSUME NEW c \in Config, NEW type, NEW n \in Nat, n + 1 <= Cardinality(Group(c, type))
  PROVE  LET a == AtRank(c, type, n + 1)
         IN  /\ a \in Group(c, type) /\ Rank(c, a) = n
             /\ FirstOf(c, type, n + 1) = FirstOf(c, type, n) \union {a}
             /\ a \notin FirstOf(c, type, n)
<1> DEFINE a == AtRank(c, type, n + 1)
<1>1. Cardinality(Group(c, type)) \in Nat
  BY GroupFinite
<1>2. n + 1 \in 1 .. Cardinality(Group(c, type)) /\ (n + 1) - 1 = n
  BY <1>1
<1>3. a \in Group(c, type) /\ Rank(c, a) = n
  BY <1>2, AtRankIs
<1> HIDE DEF a
<1>4. \A b \in Group(c, type) : Rank(c, b) \in Nat /\ (Rank(c, b) = n => b = a)
  <2>1. \A b \in Group(c, type) : /\ Rank(c, b) \in 0 .. Cardinality(Group(c, type)) - 1
                                  /\ Rank(c, b) = Rank(c, a) => b = a
    BY <1>3, RanksOrder
  <2> QED
    BY <1>1, <1>3, <2>1
<1>5. \A b \in Group(c, type) : Rank(c, b) < n + 1 <=> Rank(c, b) < n \/ b = a
  BY <1>3, <1>4
<1>6. FirstOf(c, type, n + 1) = FirstOf(c, type, n) \union {a}
  BY <1>3, <1>5 DEF FirstOf
<1>7. a \notin FirstOf(c, type, n)
  BY <1>3 DEF FirstOf
<1> QED
  BY <1>3, <1>6, <1>7 DEF a

LEMMA FirstOfFinite ==
  ASSUME NEW c \in Config, NEW type, NEW T, NEW n, T \in SUBSET FirstOf(c, type, n)
  PROVE  IsFiniteSet(T) /\ Cardinality(T) \in Nat
<1>1. T \in SUBSET Group(c, type)
  BY DEF FirstOf
<1> QED
  BY <1>1, GroupFinite, FS_Subset, FS_CardinalityType

\* The loop enables the accounts in no hard state as long as there are not enough; then
\* only those that are busy.
CountGood(c, type, busy, g, n) ==
  /\ g[n] = Cardinality(On(c, type, busy, g, n))
  /\ Cardinality(Soft(c, type, n)) <= c.elastic.count[type] =>
       g[n] = Cardinality(Soft(c, type, n))
  /\ Cardinality(Soft(c, type, n)) >= c.elastic.count[type] =>
       g[n] >= c.elastic.count[type]

LEMMA CountGoodInit ==
  ASSUME NEW c \in Config, NEW type \in {PoolType[a] : a \in Account}, NEW busy, NEW g,
         g[0] = 0
  PROVE  CountGood(c, type, busy, g, 0)
<1>1. FirstOf(c, type, 0) = {}
  <2>1. \A a \in Group(c, type) : ~(Rank(c, a) < 0)
    <3>1. ASSUME NEW a \in Group(c, type) PROVE ~(Rank(c, a) < 0)
      <4>1. Rank(c, a) \in 0 .. Cardinality(Group(c, type)) - 1
        BY RanksOrder
      <4> QED
        BY <4>1
    <3> QED
      BY <3>1
  <2> QED
    BY <2>1 DEF FirstOf
<1>2. Cardinality(On(c, type, busy, g, 0)) = 0 /\ Cardinality(Soft(c, type, 0)) = 0
  <2>1. On(c, type, busy, g, 0) = {} /\ Soft(c, type, 0) = {}
    BY <1>1 DEF On, Soft
  <2>2. Cardinality({}) = 0
    BY FS_EmptySet
  <2> QED
    BY <2>1, <2>2
<1>3. c.elastic.count[type] \in Nat
  BY DEF Config, Elastic
<1> QED
  BY <1>2, <1>3 DEF CountGood

LEMMA CountGoodStep ==
  ASSUME NEW c \in Config, NEW type \in {PoolType[a] : a \in Account}, NEW busy, NEW g,
         NEW n \in Nat, n + 1 <= Cardinality(Group(c, type)),
         g[n] \in Nat, g[n + 1] = OneMore(c, type, busy, n + 1, g[n]),
         CountGood(c, type, busy, g, n)
  PROVE  CountGood(c, type, busy, g, n + 1)
<1> DEFINE cnt == c.elastic.count[type]
           on(k) == Cardinality(On(c, type, busy, g, k))
           soft(k) == Cardinality(Soft(c, type, k))
<1>1. PICK a : /\ a = AtRank(c, type, n + 1)
               /\ a \in Group(c, type) /\ Rank(c, a) = n
               /\ FirstOf(c, type, n + 1) = FirstOf(c, type, n) \union {a}
               /\ a \notin FirstOf(c, type, n)
  BY FirstOfGrows
<1>2. cnt \in Nat /\ PoolType[a] = type
  BY <1>1 DEF Config, Elastic, Group
<1>3. /\ IsFiniteSet(On(c, type, busy, g, n)) /\ on(n) \in Nat
      /\ IsFiniteSet(Soft(c, type, n)) /\ soft(n) \in Nat
  <2>1. On(c, type, busy, g, n) \in SUBSET FirstOf(c, type, n)
    BY DEF On
  <2>2. Soft(c, type, n) \in SUBSET FirstOf(c, type, n)
    BY DEF Soft
  <2> QED
    BY <2>1, <2>2, FirstOfFinite
<1>4. ApplyElasticState(c, a, g[n], busy) <=> ~Hard(c, a) /\ (a \in busy \/ g[n] < cnt)
  BY <1>2 DEF ApplyElasticState
<1>5. /\ ApplyElasticState(c, a, g[n], busy) => on(n + 1) = on(n) + 1 /\ g[n + 1] = g[n] + 1
      /\ ~ApplyElasticState(c, a, g[n], busy) => on(n + 1) = on(n) /\ g[n + 1] = g[n]
  <2>1. CASE ApplyElasticState(c, a, g[n], busy)
    <3>1. On(c, type, busy, g, n + 1) = On(c, type, busy, g, n) \union {a}
      BY <1>1, <2>1 DEF On
    <3>2. a \notin On(c, type, busy, g, n)
      BY <1>1 DEF On
    <3>3. on(n + 1) = on(n) + 1
      BY <1>3, <3>1, <3>2, FS_AddElement
    <3>4. g[n + 1] = g[n] + 1
      BY <1>1, <2>1 DEF OneMore
    <3> QED
      BY <2>1, <3>3, <3>4
  <2>2. CASE ~ApplyElasticState(c, a, g[n], busy)
    <3>1. On(c, type, busy, g, n + 1) = On(c, type, busy, g, n)
      BY <1>1, <2>2 DEF On
    <3>2. g[n + 1] = g[n]
      BY <1>1, <2>2 DEF OneMore
    <3> QED
      BY <2>2, <3>1, <3>2
  <2> QED
    BY <2>1, <2>2
<1>6. /\ Hard(c, a) => soft(n + 1) = soft(n)
      /\ ~Hard(c, a) => soft(n + 1) = soft(n) + 1
  <2>1. CASE Hard(c, a)
    <3>1. Soft(c, type, n + 1) = Soft(c, type, n)
      BY <1>1, <2>1 DEF Soft
    <3> QED
      BY <2>1, <3>1
  <2>2. CASE ~Hard(c, a)
    <3>1. Soft(c, type, n + 1) = Soft(c, type, n) \union {a} /\ a \notin Soft(c, type, n)
      BY <1>1, <2>2 DEF Soft
    <3>2. soft(n + 1) = soft(n) + 1
      BY <1>3, <3>1, FS_AddElement
    <3> QED
      BY <2>2, <3>2
  <2> QED
    BY <2>1, <2>2
<1>7. /\ g[n] = on(n)
      /\ soft(n) <= cnt => g[n] = soft(n)
      /\ soft(n) >= cnt => g[n] >= cnt
  BY DEF CountGood
<1> HIDE DEF cnt, on, soft
<1>8. /\ g[n + 1] = on(n + 1)
      /\ soft(n + 1) <= cnt => g[n + 1] = soft(n + 1)
      /\ soft(n + 1) >= cnt => g[n + 1] >= cnt
  <2>1. CASE Hard(c, a)
    BY <1>4, <1>5, <1>6, <1>7, <2>1
  <2>2. CASE ~Hard(c, a) /\ ApplyElasticState(c, a, g[n], busy)
    <3>1. /\ soft(n + 1) = soft(n) + 1 /\ on(n + 1) = on(n) + 1 /\ g[n + 1] = g[n] + 1
      BY <1>5, <1>6, <2>2
    <3> QED
      BY <1>2, <1>3, <1>7, <3>1
  <2>3. CASE ~Hard(c, a) /\ ~ApplyElasticState(c, a, g[n], busy)
    <3>1. /\ soft(n + 1) = soft(n) + 1 /\ on(n + 1) = on(n) /\ g[n + 1] = g[n]
      BY <1>5, <1>6, <2>3
    <3>2. ~(g[n] < cnt)
      BY <1>4, <2>3
    <3> QED
      BY <1>2, <1>3, <1>7, <3>1, <3>2
  <2> QED
    BY <2>1, <2>2, <2>3
<1> QED
  BY <1>8 DEF CountGood, cnt, on, soft

LEMMA CountsAreGood ==
  ASSUME NEW c \in Config, NEW type \in {PoolType[a] : a \in Account}, NEW busy, NEW g,
         CountsUpto(c, type, busy, Cardinality(Group(c, type)), g),
         NEW n \in 0 .. Cardinality(Group(c, type))
  PROVE  CountGood(c, type, busy, g, n)
<1> DEFINE N == Cardinality(Group(c, type))
           S == {k \in Nat : k <= N => CountGood(c, type, busy, g, k)}
<1>1. N \in Nat
  BY GroupFinite
<1> HIDE DEF N
<1>2. /\ g \in [0 .. N -> Nat] /\ g[0] = 0
      /\ \A k \in 1 .. N : g[k] = OneMore(c, type, busy, k, g[k - 1])
  BY DEF CountsUpto, N
<1>3. 0 \in S
  BY <1>2, CountGoodInit
<1>4. ASSUME NEW k \in Nat, k \in S PROVE k + 1 \in S
  <2>1. ASSUME k + 1 <= N PROVE CountGood(c, type, busy, g, k + 1)
    <3>1. k <= N /\ k \in 0 .. N /\ k + 1 \in 1 .. N /\ (k + 1) - 1 = k
      BY <1>1, <2>1
    <3>2. g[k] \in Nat /\ g[k + 1] = OneMore(c, type, busy, k + 1, g[k])
      BY <1>2, <3>1
    <3> QED
      BY <1>4, <2>1, <3>1, <3>2, CountGoodStep DEF N
  <2>2. k + 1 \in Nat
    OBVIOUS
  <2> QED
    BY <2>1, <2>2
<1>5. n \in S
  <2>1. n \in Nat
    OBVIOUS
  <2> HIDE DEF S
  <2> QED
    BY <1>3, <1>4, <2>1, InductionOnNat
<1>6. n <= N
  BY <1>1 DEF N
<1> QED
  BY <1>5, <1>6
-----------------------------------------------------------------------------
(* What a reconciliation leaves                                              *)

\* Nothing that elastic.go reads is what it writes.
LEMMA DisabledIsNotRead ==
  ASSUME NEW c \in Config, NEW d \in SUBSET Account, NEW busy
  PROVE  LET r == [c EXCEPT !.disabled = d]
         IN  /\ Promised(r, busy) = Promised(c, busy)
             /\ r.present = c.present /\ r.disabled = d
             /\ r.elastic = c.elastic /\ r.banned = c.banned
             /\ r.authFailed = c.authFailed /\ r.mutedUntil = c.mutedUntil
             /\ \A type : Group(r, type) = Group(c, type)
<1> DEFINE r == [c EXCEPT !.disabled = d]
<1>1. /\ r.present = c.present /\ r.disabled = d
      /\ r.elastic = c.elastic /\ r.banned = c.banned
      /\ r.authFailed = c.authFailed /\ r.mutedUntil = c.mutedUntil
      /\ r.priority = c.priority
  BY DEF Config
<1> HIDE DEF r
<1>2. \A type : Group(r, type) = Group(c, type)
  BY <1>1 DEF Group
<1>3. \A a : Hard(r, a) <=> Hard(c, a)
  BY <1>1 DEF Hard, IsMuted
<1>4. \A a, b : Before(r, a, b) <=> Before(c, a, b)
  BY <1>1 DEF Before
<1>5. \A a : InFront(r, a) = InFront(c, a)
  BY <1>2, <1>4 DEF InFront
<1>6. \A a : {b \in InFront(r, a) : ~Hard(r, b)} = {b \in InFront(c, a) : ~Hard(c, b)}
  BY <1>3, <1>5
<1>7. Promised(r, busy) = Promised(c, busy)
  BY <1>1, <1>3, <1>6 DEF Promised
<1> QED
  BY <1>1, <1>2, <1>7 DEF r

EnabledBefore(c, a, busy) == EnabledAmong(c, PoolType[a], busy)[Rank(c, a)]

LEMMA ReconcileIs ==
  ASSUME NEW c \in Config, NEW busy, c.elastic.enabled
  PROVE  ReconcileElasticPool(c, busy) =
           [c EXCEPT !.disabled =
              {a \in c.present : ~ApplyElasticState(c, a, EnabledBefore(c, a, busy), busy)}]
BY DEF ReconcileElasticPool, EnabledBefore, Rank

\* What is in front of an account are those of smaller rank.
LEMMA InFrontIs ==
  ASSUME NEW c \in Config, NEW a \in c.present
  PROVE  /\ a \in Account /\ a \in Group(c, PoolType[a])
         /\ InFront(c, a) = FirstOf(c, PoolType[a], Rank(c, a))
         /\ Rank(c, a) \in 0 .. Cardinality(Group(c, PoolType[a]))
<1>1. a \in Account /\ a \in Group(c, PoolType[a])
  BY DEF Config, Group
<1>2. InFront(c, a) = FirstOf(c, PoolType[a], Rank(c, a))
  BY <1>1, RanksOrder DEF InFront, FirstOf
<1>3. /\ Rank(c, a) \in 0 .. Cardinality(Group(c, PoolType[a])) - 1
      /\ Cardinality(Group(c, PoolType[a])) \in Nat
  BY <1>1, RanksOrder, GroupFinite
<1>4. Rank(c, a) \in 0 .. Cardinality(Group(c, PoolType[a]))
  BY <1>3
<1> QED
  BY <1>1, <1>2, <1>4

\* The loop enables the accounts that the comment at elastic.go:14 names.
LEMMA AppliesAsPromised ==
  ASSUME NEW c \in Config, NEW a \in c.present, NEW busy
  PROVE  ApplyElasticState(c, a, EnabledBefore(c, a, busy), busy) <=> a \in Promised(c, busy)
<1> DEFINE type == PoolType[a]
           g == EnabledAmong(c, type, busy)
           n == Rank(c, a)
           cnt == c.elastic.count[type]
           soft == Cardinality(Soft(c, type, n))
<1>1. a \in Account /\ InFront(c, a) = FirstOf(c, type, n)
      /\ n \in 0 .. Cardinality(Group(c, type))
  BY InFrontIs
<1>2. CountsUpto(c, type, busy, Cardinality(Group(c, type)), g)
  BY EnabledAmongCounts
<1>3. CountGood(c, type, busy, g, n) /\ g[n] \in Nat
  <2>1. type \in {PoolType[b] : b \in Account}
    BY <1>1
  <2> QED
    BY <1>1, <1>2, <2>1, CountsAreGood DEF CountsUpto
<1>4. cnt \in Nat /\ soft \in Nat
  <2>1. cnt \in Nat
    BY <1>1 DEF Config, Elastic
  <2>2. Soft(c, type, n) \in SUBSET FirstOf(c, type, n)
    BY DEF Soft
  <2> QED
    BY <2>1, <2>2, FirstOfFinite
<1>5. (soft <= cnt => g[n] = soft) /\ (soft >= cnt => g[n] >= cnt)
  BY <1>3 DEF CountGood
<1>6. Soft(c, type, n) = {b \in InFront(c, a) : ~Hard(c, b)}
  BY <1>1 DEF Soft
<1> HIDE DEF type, n, cnt, g, soft
<1>7. g[n] < cnt <=> soft < cnt
  BY <1>3, <1>4, <1>5
<1>8. ApplyElasticState(c, a, g[n], busy) <=> ~Hard(c, a) /\ (a \in busy \/ g[n] < cnt)
  BY DEF ApplyElasticState, cnt, type
<1>9. a \in Promised(c, busy) <=> ~Hard(c, a) /\ (a \in busy \/ soft < cnt)
  BY <1>6 DEF Promised, soft, cnt, type
<1> QED
  BY <1>7, <1>8, <1>9 DEF EnabledBefore, g, n, type

LEMMA ReconcileEnablesPromised ==
  ASSUME NEW c \in Config, NEW busy, c.elastic.enabled
  PROVE  LET r == ReconcileElasticPool(c, busy)
         IN  Enabled(r) = Promised(r, busy)
<1> DEFINE d == {a \in c.present : ~ApplyElasticState(c, a, EnabledBefore(c, a, busy), busy)}
           r == [c EXCEPT !.disabled = d]
<1>1. ReconcileElasticPool(c, busy) = r
  BY ReconcileIs
<1>2. d \in SUBSET Account
  BY DEF Config
<1>3. c.present \ d = Promised(c, busy)
  <2>1. \A a \in c.present : a \notin d <=> a \in Promised(c, busy)
    BY AppliesAsPromised
  <2>2. Promised(c, busy) \subseteq c.present
    BY DEF Promised
  <2> HIDE DEF d
  <2> QED
    BY <2>1, <2>2
<1> HIDE DEF d
<1>4. /\ Promised(r, busy) = Promised(c, busy)
      /\ r.present = c.present /\ r.disabled = d
  BY <1>2, DisabledIsNotRead
<1> HIDE DEF r
<1> QED
  BY <1>1, <1>3, <1>4 DEF Enabled

\* StandbyTakesOver, of any configuration.
StandbyOf(c) ==
  c.elastic.enabled =>
    \A a \in c.present :
      LET usable(b) == b \notin c.banned \union c.authFailed
          group == Group(c, PoolType[a])
      IN \/ \A b \in group : usable(b) /\ c.mutedUntil[b] = 0 => b \notin c.disabled
         \/ Cardinality({b \in group : b \notin c.disabled /\ usable(b)})
              >= c.elastic.count[PoolType[a]]

LEMMA ReconcileStandby ==
  ASSUME NEW c \in Config, NEW busy, now \in Nat
  PROVE  StandbyOf(ReconcileElasticPool(c, busy))
<1> DEFINE d == {a \in c.present : ~ApplyElasticState(c, a, EnabledBefore(c, a, busy), busy)}
           r == [c EXCEPT !.disabled = d]
<1>1. CASE ~c.elastic.enabled
  BY <1>1 DEF ReconcileElasticPool, StandbyOf
<1>2. CASE c.elastic.enabled
  <2>1. ReconcileElasticPool(c, busy) = r /\ d \in SUBSET Account
    BY <1>2, ReconcileIs DEF Config
  <2>2. \A a \in c.present : a \notin d <=> a \in Promised(c, busy)
    BY AppliesAsPromised
  <2>3. \A a \in c.present :
          a \notin d <=> ApplyElasticState(c, a, EnabledBefore(c, a, busy), busy)
    OBVIOUS
  <2> HIDE DEF d
  <2>4. /\ r.present = c.present /\ r.disabled = d
        /\ r.elastic = c.elastic /\ r.banned = c.banned
        /\ r.authFailed = c.authFailed /\ r.mutedUntil = c.mutedUntil
        /\ \A type : Group(r, type) = Group(c, type)
    BY <2>1, DisabledIsNotRead
  <2> HIDE DEF r
  <2>5. ASSUME NEW a \in c.present
        PROVE  LET usable(b) == b \notin c.banned \union c.authFailed
                   group == Group(c, PoolType[a])
               IN \/ \A b \in group : usable(b) /\ c.mutedUntil[b] = 0 => b \notin d
                  \/ Cardinality({b \in group : b \notin d /\ usable(b)})
                       >= c.elastic.count[PoolType[a]]
    <3> DEFINE type == PoolType[a]
               G == Group(c, type)
               N == Cardinality(G)
               g == EnabledAmong(c, type, busy)
               cnt == c.elastic.count[type]
               soft == Soft(c, type, N)
               awake == {b \in G : b \notin d /\ b \notin c.banned \union c.authFailed}
    <3>1. a \in Account /\ type \in {PoolType[b] : b \in Account} /\ cnt \in Nat
      BY DEF Config, Elastic
    <3>2. N \in Nat /\ IsFiniteSet(G) /\ G \in SUBSET c.present
          /\ \A b \in G : PoolType[b] = type
      BY GroupFinite DEF Group
    <3>3. FirstOf(c, type, N) = G
      <4>1. ASSUME NEW b \in G PROVE Rank(c, b) < N
        <5>1. Rank(c, b) \in 0 .. N - 1
          BY RanksOrder
        <5> QED
          BY <3>2, <5>1
      <4> QED
        BY <4>1 DEF FirstOf
    <3>4. CountGood(c, type, busy, g, N)
      <4>1. N \in 0 .. N
        BY <3>2
      <4> QED
        BY <3>1, <4>1, EnabledAmongCounts, CountsAreGood
    <3>5. soft = {b \in G : ~Hard(c, b)} /\ IsFiniteSet(soft) /\ Cardinality(soft) \in Nat
      <4>1. soft \in SUBSET FirstOf(c, type, N)
        BY DEF Soft
      <4> QED
        BY <3>3, <4>1, FirstOfFinite DEF Soft
    <3>6. CASE Cardinality(soft) <= cnt
      <4>1. ASSUME NEW b \in G, b \notin c.banned \union c.authFailed, c.mutedUntil[b] = 0
            PROVE  b \notin d
        <5>1. ~Hard(c, b)
          <6>1. ~(0 > now)
            OBVIOUS
          <6> QED
            BY <4>1, <6>1 DEF Hard, IsMuted
        <5> DEFINE front == {x \in InFront(c, b) : ~Hard(c, x)}
        <5>2. front \in SUBSET soft /\ b \in soft /\ b \notin front
          <6>1. InFront(c, b) \in SUBSET G /\ b \notin InFront(c, b)
            BY <3>2, BeforeIsOrder DEF InFront, Group, Config
          <6> QED
            BY <3>5, <5>1, <6>1
        <5>3. IsFiniteSet(front) /\ Cardinality(front) \in Nat
              /\ Cardinality(front) <= Cardinality(soft)
              /\ Cardinality(front) # Cardinality(soft)
          BY <3>5, <5>2, FS_Subset, FS_CardinalityType
        <5>4. Cardinality(front) < cnt
          BY <3>1, <3>5, <3>6, <5>3
        <5>5. b \in Promised(c, busy)
          BY <3>2, <5>1, <5>4 DEF Promised
        <5> QED
          BY <2>2, <3>2, <5>5
      <4> QED
        BY <4>1
    <3>7. CASE Cardinality(soft) >= cnt
      <4>1. g[N] >= cnt /\ g[N] = Cardinality(On(c, type, busy, g, N))
        BY <3>4, <3>7 DEF CountGood
      <4>2. On(c, type, busy, g, N) \in SUBSET awake
        <5>1. ASSUME NEW b \in On(c, type, busy, g, N) PROVE b \in awake
          <6>1. b \in G /\ ApplyElasticState(c, b, EnabledBefore(c, b, busy), busy)
            BY <3>2, <3>3 DEF On, EnabledBefore
          <6>2. b \notin d
            BY <2>3, <3>2, <6>1
          <6>3. ~Hard(c, b)
            BY <6>1 DEF ApplyElasticState
          <6> QED
            BY <6>1, <6>2, <6>3 DEF Hard
        <5> QED
          BY <5>1
      <4>3. IsFiniteSet(awake) /\ Cardinality(awake) \in Nat
        <5>1. awake \in SUBSET G
          OBVIOUS
        <5> QED
          BY <3>2, <5>1, FS_Subset, FS_CardinalityType
      <4>4. /\ Cardinality(On(c, type, busy, g, N)) <= Cardinality(awake)
            /\ Cardinality(On(c, type, busy, g, N)) \in Nat
        <5> HIDE DEF awake
        <5> QED
          BY <4>2, <4>3, FS_Subset, FS_CardinalityType
      <4>5. Cardinality(awake) >= cnt
        <5> HIDE DEF awake, cnt
        <5> QED
          BY <3>1, <4>1, <4>3, <4>4
      <4> QED
        BY <4>5
    <3>8. Cardinality(soft) <= cnt \/ Cardinality(soft) >= cnt
      BY <3>1, <3>5
    <3> QED
      BY <3>6, <3>7, <3>8
  <2>6. StandbyOf(r)
    BY <2>4, <2>5, Zenon DEF StandbyOf
  <2> QED
    BY <2>1, <2>6 DEF r
<1> QED
  BY <1>1, <1>2
\* Who reads the accounts reads no subscriptions.
LEMMA MihomoIsNotRead ==
  ASSUME NEW c \in Config, NEW m
  PROVE  StandbyOf([c EXCEPT !.mihomo = m]) <=> StandbyOf(c)
<1> DEFINE r == [c EXCEPT !.mihomo = m]
<1>1. /\ r.present = c.present /\ r.disabled = c.disabled
      /\ r.elastic = c.elastic /\ r.banned = c.banned
      /\ r.authFailed = c.authFailed /\ r.mutedUntil = c.mutedUntil
  BY DEF Config
<1> HIDE DEF r
<1>2. \A type : Group(r, type) = Group(c, type)
  BY <1>1 DEF Group
<1>3. StandbyOf(r) <=> StandbyOf(c)
  BY <1>1, <1>2 DEF StandbyOf
<1> QED
  BY <1>3 DEF r

LEMMA MutatedStandby ==
  ASSUME NEW c \in Config, now \in Nat, NEW u \in Updates, NEW busy, StandbyOf(c)
  PROVE  StandbyOf(Mutated(c, u, busy))
<1>1. CASE u.op = "nodes"
  BY <1>1, MihomoIsNotRead DEF Mutated
<1>2. CASE u.op = "token"
  BY <1>2 DEF Mutated
<1>3. CASE u.op = "elastic"
  <2>1. u.elastic \in Elastic
    BY <1>3, StoreAssumption DEF AccountUpdates
  <2>2. [c EXCEPT !.elastic = u.elastic] \in Config
    BY <2>1 DEF Config
  <2>3. CASE u.elastic.enabled
    BY <1>3, <2>2, <2>3, ReconcileStandby DEF Mutated
  <2>4. CASE ~u.elastic.enabled
    <3>1. Mutated(c, u, busy) = EnableAllAccounts([c EXCEPT !.elastic = u.elastic])
      BY <1>3, <2>4 DEF Mutated
    <3>2. ~Mutated(c, u, busy).elastic.enabled
      BY <2>2, <2>4, <3>1 DEF EnableAllAccounts, Config
    <3> QED
      BY <3>2 DEF StandbyOf
  <2> QED
    BY <2>3, <2>4
<1>4. CASE u.op \notin {"nodes", "token", "elastic"}
  <2>1. u \in [op : AccountUpdates, account : Account]
                \union [op : {"edit"}, account : Account, priority : Nat]
    BY <1>4, StoreAssumption
  <2>2. Mutated(c, u, busy) =
          IF NothingToLift(c, u) THEN c ELSE ReconcileElasticPool(Marked(c, u), busy)
    BY <1>4 DEF Mutated
  <2>3. Marked(c, u) \in Config
    BY <1>4, <2>1, MarkedType
  <2> QED
    BY <2>2, <2>3, ReconcileStandby
<1> QED
  BY <1>1, <1>2, <1>3, <1>4

\* Memory has it, and so has config.json, from which a restart takes it again.
StandbyInv == StandbyOf(cfg) /\ (file \notin {None, Torn} => StandbyOf(file))

StandbyAtFirst == StandbyOf(EmptyConfig) /\ \A f \in FirstConfigs \ {None} : StandbyOf(f)

LEMMA LoadStandby ==
  ASSUME NEW f \in Config \union {None}, NEW s, StandbyOf(Content(f))
  PROVE  StandbyOf(Load(f, s))
<1>1. Content(f) \in Config
  BY StoreAssumption DEF Content
<1> QED
  BY <1>1, MihomoIsNotRead DEF Load

LEMMA StandbyStep ==
  ASSUME StandbyAtFirst, StoreInv, StandbyInv, [Next]_vars
  PROVE  StandbyInv'
<1>1. /\ cfg \in Config /\ file \in Config \union {None, Torn} /\ now \in Nat
      /\ None \notin Config /\ Torn \notin Config
  <2>1. now \in Nat
    BY StoreAssumption DEF StoreInv, ConfigTypeOK
  <2> QED
    BY <2>1, StoreAssumption DEF StoreInv, ConfigTypeOK
<1>2. ASSUME UNCHANGED <<cfg, file>> PROVE StandbyInv'
  BY <1>2 DEF StandbyInv
<1>3. ASSUME UNCHANGED cfg, file' \in {file, Torn, Written(cfg)} PROVE StandbyInv'
  <2>1. StandbyOf(Written(cfg))
    BY <1>1, MihomoIsNotRead DEF Written, StandbyInv
  <2> QED
    BY <1>3, <2>1 DEF StandbyInv
<1>4. ASSUME NEW w \in Writer, NEW u \in Updates, Mutate(w, u) PROVE StandbyInv'
  <2>1. cfg' = Mutated(cfg, u, writer[w].busy) /\ UNCHANGED file
    BY <1>4 DEF Mutate, files
  <2> QED
    BY <1>1, <2>1, MutatedStandby DEF StandbyInv
<1>5. CASE Restart
  <2>1. file # Torn /\ cfg' = Load(file, subs) /\ UNCHANGED file
    BY <1>5 DEF Restart, Loaded, files
  <2>2. StandbyOf(Content(file))
    BY <1>1, <2>1 DEF Content, StandbyInv, StandbyAtFirst
  <2> QED
    BY <1>1, <2>1, <2>2, LoadStandby DEF StandbyInv
<1>6. ASSUME NEW w \in Writer, SaveConfig(w) PROVE StandbyInv'
  <2>1. UNCHANGED cfg /\ file' \in {file, Torn, Written(cfg)}
    BY <1>6 DEF SaveConfig
  <2> QED
    BY <1>3, <2>1
<1>7. ASSUME NEW w \in Writer, WriteFails(w) \/ (Crash /\ CutShort(w)) PROVE StandbyInv'
  <2>1. UNCHANGED cfg /\ file' \in {file, Torn, Written(cfg)}
    BY <1>7 DEF WriteFails, Crash, CutShort
  <2> QED
    BY <1>3, <2>1
<1>8. CASE \/ \E w \in Writer :
                \/ ReadBusy(w) \/ SaveSubs(w) \/ ResetPool(w)
                \/ \E u \in Updates : Refuse(w, u)
           \/ \E a \in Account : Acquire(a) \/ Release(a)
           \/ Tick \/ (Crash /\ UNCHANGED files) \/ UNCHANGED vars
  <2>1. UNCHANGED <<cfg, file>>
    BY <1>8 DEF ReadBusy, SaveSubs, ResetPool, Refuse, Acquire, Release, Tick, Crash, vars,
                files
  <2> QED
    BY <1>2, <2>1
<1>9. Crash => UNCHANGED files \/ \E w \in Writer : CutShort(w)
  BY DEF Crash
<1> QED
  BY <1>4, <1>5, <1>6, <1>7, <1>8, <1>9 DEF Next

\* A standby takes over: if the configuration that the program starts with has in each
\* group its count of usable accounts enabled, or all that can be, then every later one has,
\* through every update, mute, ban, login, torn write and restart (ReconcileElasticPool in
\* Store.Update; auth/request.go:317).
THEOREM StandbyAlwaysTakesOver ==
  ASSUME StandbyAtFirst
  PROVE  Spec => []StandbyTakesOver
<1>1. Init => StandbyInv
  <2> SUFFICES ASSUME Init PROVE StandbyInv
    OBVIOUS
  <2>1. file \in FirstConfigs /\ file \in Config \union {None} /\ cfg = Load(file, subs)
    BY StoreAssumption DEF Init
  <2>2. StandbyOf(Content(file))
    BY <2>1 DEF Content, StandbyAtFirst
  <2>3. StandbyOf(cfg)
    BY <2>1, <2>2, LoadStandby
  <2>4. file \notin {None, Torn} => StandbyOf(file)
    BY <2>1 DEF StandbyAtFirst
  <2> QED
    BY <2>3, <2>4 DEF StandbyInv
<1>2. StoreInv /\ StandbyInv /\ [Next]_vars => StandbyInv'
  BY StandbyStep
<1>3. StandbyInv => StandbyTakesOver
  BY Zenon DEF StandbyInv, StandbyOf, StandbyTakesOver
<1> QED
  BY <1>1, <1>2, <1>3, StoreInvariant, PTL DEF Spec

\* The writer that Mutates is the only one that leaves its phase "read" with a change.
LEMMA MutationIsPromised ==
  ASSUME StoreInv, [Next]_vars, NEW w \in Writer,
         writer[w].phase = "read", writer'[w].phase # "read",
         cfg'.elastic.enabled, Written(cfg') # Written(cfg)
  PROVE  Enabled(cfg') = Promised(cfg', writer[w].busy)
<1>1. cfg \in Config /\ now \in Nat /\ up /\ writer \in [Writer ->
        [phase : {"idle", "read", "subs", "config", "resetting"},
         busy : SUBSET Account, resets : BOOLEAN]]
  BY StoreAssumption DEF StoreInv, ConfigTypeOK, WritersInv
<1>2. PICK v \in Writer : \E u \in Updates : Mutate(v, u)
  BY <1>1 DEF Next, ReadBusy, SaveSubs, SaveConfig, WriteFails, ResetPool, Refuse, Acquire,
              Release, Tick, Crash, Restart, vars
<1>3. v = w
  BY <1>1, <1>2 DEF Mutate
<1>4. PICK u \in Updates : cfg' = Mutated(cfg, u, writer[w].busy)
  BY <1>2, <1>3 DEF Mutate
<1>5. \E c \in Config : c.elastic.enabled /\ cfg' = ReconcileElasticPool(c, writer[w].busy)
  <2>1. CASE u.op \in {"nodes", "token"}
    <3>1. Written(cfg') = Written(cfg)
      BY <1>1, <1>4, <2>1 DEF Mutated, Written, Config
    <3> QED
      BY <3>1
  <2>2. CASE u.op = "elastic"
    <3>1. u.elastic \in Elastic
      BY <2>2, StoreAssumption DEF AccountUpdates
    <3>2. [cfg EXCEPT !.elastic = u.elastic] \in Config
      BY <1>1, <3>1 DEF Config
    <3>3. CASE u.elastic.enabled
      <4>1. [cfg EXCEPT !.elastic = u.elastic].elastic.enabled
        BY <1>1, <3>3 DEF Config
      <4> QED
        BY <1>4, <2>2, <3>2, <3>3, <4>1 DEF Mutated
    <3>4. CASE ~u.elastic.enabled
      <4>1. cfg' = EnableAllAccounts([cfg EXCEPT !.elastic = u.elastic])
        BY <1>4, <2>2, <3>4 DEF Mutated
      <4>2. ~cfg'.elastic.enabled
        BY <3>2, <3>4, <4>1 DEF EnableAllAccounts, Config
      <4> QED
        BY <4>2
    <3> QED
      BY <3>3, <3>4
  <2>3. CASE u.op \notin {"nodes", "token", "elastic"}
    <3>1. u \in [op : AccountUpdates, account : Account]
                  \union [op : {"edit"}, account : Account, priority : Nat]
      BY <2>3, StoreAssumption
    <3>2. Marked(cfg, u) \in Config
      BY <1>1, <2>3, <3>1, MarkedType
    <3>3. cfg' = IF NothingToLift(cfg, u) THEN cfg
                 ELSE ReconcileElasticPool(Marked(cfg, u), writer[w].busy)
      BY <1>4, <2>3 DEF Mutated
    <3>4. ~NothingToLift(cfg, u)
      BY <3>3
    <3>5. CASE Marked(cfg, u).elastic.enabled
      BY <3>2, <3>3, <3>4, <3>5
    <3>6. CASE ~Marked(cfg, u).elastic.enabled
      BY <3>3, <3>4, <3>6 DEF ReconcileElasticPool
    <3> QED
      BY <3>5, <3>6
  <2> QED
    BY <2>1, <2>2, <2>3
<1>6. PICK c \in Config :
        c.elastic.enabled /\ cfg' = ReconcileElasticPool(c, writer[w].busy)
  BY <1>5
<1> QED
  BY <1>6, ReconcileEnablesPromised

\* For any accounts, priorities and counts: the loop of the reconciliation enables the first
\* so many accounts of each group by priority, and the busy ones, as the comment at
\* elastic.go:14 has it, from the busy accounts that its writer read.
THEOREM ElasticEnablesWhatItPromises == Spec => ElasticAsPromised
<1>1. StoreInv /\ [Next]_vars =>
        [\A w \in Writer :
           /\ writer[w].phase = "read" /\ writer'[w].phase # "read"
           /\ cfg'.elastic.enabled /\ Written(cfg') # Written(cfg)
           => Enabled(cfg') = Promised(cfg', writer[w].busy)]_vars
  BY MutationIsPromised
<1> QED
  BY <1>1, StoreInvariant, PTL DEF Spec, ElasticAsPromised
=============================================================================
