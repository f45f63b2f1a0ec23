------------------------------- MODULE Mihomo -------------------------------
(* The supervisor of the Mihomo bridge: a child process that listens on one     *)
(* local port per bound node, restarted whenever the bindings change            *)
(* (internal/mihomo/manager.go), and the watcher that repairs and rebinds       *)
(* (autoassign.go, health.go).  Editors are the admin handlers of binding.go    *)
(* and of accounts and proxies.  Each edits the configuration in one            *)
(* Store.Update, then asks for an Apply; Applies run one at a time.             *)
EXTENDS NodeBinding

CONSTANTS
  Editor,        \* handlers that run at the same time
  Watcher, Boot, \* the watcher goroutine, and the goroutine of StartIfEnabled
  Starting,      \* configurations the server may be started with
  Busy,          \* bound: the accounts that take a request, one each
  FailThreshold, \* failures in a row that make a node dead
  MaxEdits,      \* bound: edits made by hand
  MaxFaults      \* bound: exits of the process, failed starts, missing binaries, links lost

ASSUME MihomoAssumption ==
  /\ Watcher \notin Editor /\ Boot \notin Editor \union {Watcher}
  /\ Starting \subseteq Fields /\ \A c \in Starting : SinglePorts(c)
  /\ Busy \subseteq Account
  /\ FailThreshold \in Nat \ {0} /\ MaxEdits \in Nat /\ MaxFaults \in Nat

VARIABLES
  config,   \* the bindings, as the Store holds them
  manager,  \* running, listenPorts, and whether lastErr is set
  file,     \* runtime.yaml, which is what a child that is alive was started with
  process,  \* the child: "none", "alive", or "exited" until its exit is noticed
  asking,   \* callers of Apply that wait for their turn
  apply,    \* the Apply under way: by whom, where in doApply, with which snapshot
  watcher,  \* where watcherLoop is, the snapshot it looked at and its dead nodes
  streak,   \* failStreak of each node
  wake,     \* reconcileCh holds a signal
  up,       \* nodes whose link works
  flying,   \* accounts that generate an answer
  coming,   \* accounts that will be asked for one
  edits, faults

vars == <<config, manager, file, process, asking, apply, watcher, streak, wake,
          up, flying, coming, edits, faults>>

Applier == Editor \union {Watcher, Boot}
Stages == {"idle", "decide", "stopped", "starting", "ready"}
Nothing == [listeners |-> {}, nodes |-> {}]

\* In place of a snapshot nobody works on.
Forgotten ==
  [enabled |-> FALSE, auto |-> FALSE, nodes |-> {}, status |-> [n \in Node |-> "unknown"],
   port |-> [n \in Node |-> 0], proxy |-> [n \in Node |-> 0],
   bound |-> [a \in Account |-> None],
   disabled |-> {}, manual |-> {}, noProxy |-> {}, cooling |-> {}]

Resting == [at |-> "idle", seen |-> Forgotten, dead |-> {}]

Init ==
  /\ config \in Starting
  /\ manager = [running |-> FALSE, ports |-> {}, failed |-> FALSE]
  /\ file = Nothing /\ process = "none"
  /\ asking = IF config.enabled THEN {Boot} ELSE {}
  /\ apply = [by |-> Boot, stage |-> "idle", config |-> Forgotten]
  /\ watcher = Resting
  /\ streak = [n \in Node |-> 0]
  /\ wake = FALSE /\ up = Node /\ flying = {} /\ coming = Busy
  /\ edits = 0 /\ faults = 0

Fault == faults < MaxFaults /\ faults' = faults + 1
supervisor == <<manager, file, process, asking, apply>>

-----------------------------------------------------------------------------
(* Apply and doApply                                                         *)

\* The next caller takes its turn and works on the configuration of that moment.
ApplyBegins(p) ==
  /\ p \in asking /\ apply.stage = "idle"
  /\ apply' = [by |-> p, stage |-> "decide", config |-> config]
  /\ asking' = asking \ {p}
  /\ UNCHANGED <<config, manager, file, process, watcher, streak, wake, up, flying, coming,
                 edits, faults>>

\* The Apply returns; the watcher goes on.  Every editor's handler ends with it.
Over ==
  /\ apply' = [by |-> Boot, stage |-> "idle", config |-> Forgotten]
  /\ watcher' = IF apply.by = Watcher
                  THEN [watcher EXCEPT !.at = IF @ = "healing" THEN "sweep" ELSE "idle"]
                  ELSE watcher

Failed == manager' = [manager EXCEPT !.failed = TRUE, !.running = FALSE]

AppliedPorts(m) ==
  [m EXCEPT !.running = TRUE, !.failed = FALSE, !.ports = PortsOf(Runtime(apply.config))]

Idle == UNCHANGED <<config, asking, streak, wake, up, flying, coming, edits>>

\* A disabled bridge has no process.
ApplyStops ==
  /\ apply.stage = "decide" /\ ~apply.config.enabled
  /\ process' = "none"
  /\ manager' = [manager EXCEPT !.running = FALSE, !.failed = FALSE, !.ports = {}]
  /\ Over
  /\ Idle /\ UNCHANGED <<file, faults>>

\* No binary, or runtime.yaml cannot be written: the child keeps what it has.
ApplyCannotPrepare ==
  /\ apply.stage = "decide" /\ apply.config.enabled
  /\ Fault
  /\ Failed /\ Over
  /\ Idle /\ UNCHANGED <<file, process>>

\* Nothing changed and the process is taken to run: no restart.  (The file is compared
\* under apiSecret, which is the secret it holds whenever `running` is set.)
BugSkipsDeadProcess(r) == file = r

BugPortsOnly(r) == manager.running /\ PortsOf(file) = PortsOf(r)

Unchanged(r) == manager.running /\ file = r

ApplySkips ==
  /\ apply.stage = "decide" /\ apply.config.enabled
  /\ Unchanged(Runtime(apply.config))
  /\ manager' = AppliedPorts(manager)
  /\ Over
  /\ Idle /\ UNCHANGED <<file, process, faults>>

\* runtime.yaml is written under a new secret, then the old process is killed.
ApplyRestarts ==
  /\ apply.stage = "decide" /\ apply.config.enabled
  /\ ~Unchanged(Runtime(apply.config))
  /\ file' = Runtime(apply.config)
  /\ process' = "none"
  /\ manager' = [manager EXCEPT !.running = FALSE]
  /\ apply' = [apply EXCEPT !.stage = "stopped"]
  /\ Idle /\ UNCHANGED <<watcher, faults>>

\* A port is taken by another program, or the child cannot be started.
ApplyCannotStart ==
  /\ apply.stage = "stopped"
  /\ Fault
  /\ Failed /\ Over
  /\ Idle /\ UNCHANGED <<file, process>>

ProcessStarts ==
  /\ apply.stage = "stopped"
  /\ process' = "alive"
  /\ apply' = [apply EXCEPT !.stage = "starting"]
  /\ Idle /\ UNCHANGED <<manager, file, watcher, faults>>

\* waitReady sees the exit of the child, or takes it to be ready.
StartFails ==
  /\ apply.stage = "starting" /\ process # "alive"
  /\ Failed /\ Over
  /\ Idle /\ UNCHANGED <<file, process, faults>>

StartSucceeds ==
  /\ apply.stage = "starting" /\ process = "alive"
  /\ apply' = [apply EXCEPT !.stage = "ready"]
  /\ Idle /\ UNCHANGED <<manager, file, process, watcher, faults>>

ApplySucceeds ==
  /\ apply.stage = "ready"
  /\ manager' = AppliedPorts(manager)
  /\ Over
  /\ Idle /\ UNCHANGED <<file, process, faults>>

ApplySteps ==
  \/ \E p \in Applier : ApplyBegins(p)
  \/ ApplyStops \/ ApplySkips \/ ApplyRestarts \/ ProcessStarts
  \/ StartFails \/ StartSucceeds \/ ApplySucceeds

-----------------------------------------------------------------------------
(* The child process                                                         *)

ProcessExits ==
  /\ process = "alive" /\ Fault
  /\ process' = "exited"
  /\ UNCHANGED <<config, manager, file, asking, apply, watcher, streak, wake, up, flying, coming,
                 edits>>

\* The goroutine that waits for the child, unless the child was replaced meanwhile.
ExitIsNoticed ==
  /\ process = "exited"
  /\ process' = "none"
  /\ manager' = [manager EXCEPT !.running = FALSE, !.failed = TRUE]
  /\ UNCHANGED <<config, file, asking, apply, watcher, streak, wake, up, flying, coming,
                 edits, faults>>

-----------------------------------------------------------------------------
(* The watcher                                                               *)

WatcherOnly == UNCHANGED <<supervisor, up, flying, coming, edits, faults>>

\* A tick: heal if the control port does not answer, at most once a minute.
Heals ==
  /\ watcher.at = "idle" /\ config.enabled /\ config.auto
  /\ process # "alive"
  /\ watcher' = [watcher EXCEPT !.at = "healing"]
  /\ asking' = asking \union {Watcher}
  /\ UNCHANGED <<config, manager, file, process, apply, streak, wake, up, flying, coming, edits,
                 faults>>

\* The control port answers, or the last heal is less than a minute ago.
Tick ==
  /\ watcher.at = "idle" /\ config.enabled /\ config.auto
  /\ watcher' = [watcher EXCEPT !.at = "sweep"]
  /\ UNCHANGED <<config, streak, wake>> /\ WatcherOnly

\* Through a running bridge the offered nodes are measured.
Measured(n) == IF n \in up THEN "ok" ELSE "fail"

Sweep ==
  /\ watcher.at = "sweep"
  /\ watcher' = [watcher EXCEPT !.at = "look"]
  /\ IF manager.running /\ process = "alive"
       THEN /\ config' = [config EXCEPT !.status =
                 [n \in Node |-> IF n \in config.nodes THEN Measured(n) ELSE @[n]]]
            /\ streak' = [n \in Node |->
                 IF n \notin config.nodes THEN streak[n]
                 ELSE IF n \in up THEN 0
                 ELSE IF streak[n] < FailThreshold THEN streak[n] + 1 ELSE streak[n]]
       ELSE UNCHANGED <<config, streak>>
  /\ UNCHANGED wake /\ WatcherOnly

\* A signal makes it reconcile at once, without heal or sweep.
Woken ==
  /\ watcher.at = "idle" /\ wake
  /\ wake' = FALSE
  /\ watcher' = [watcher EXCEPT !.at = "look"]
  /\ UNCHANGED <<config, streak>> /\ WatcherOnly

BugOneMoreFailure(c) == {n \in c.nodes : c.status[n] = "fail" /\ streak[n] > FailThreshold}

Dead(c) == {n \in c.nodes : c.status[n] = "fail" /\ streak[n] >= FailThreshold}

\* reconcileBindings looks, and gives way to any request under way.
MayReconcile == config.enabled /\ config.auto /\ flying = {}

\* Ports that should be listened on, and were not when the configuration was last applied.
BugNothingMissing(c) == {}

MissingListeners(c) ==
  IF manager.running THEN PortsOf(Runtime(c)) \ manager.ports ELSE {}

Changes(c) == Unbinds(c) \union Rebinds(c, Dead(c)) \union Backfills(c)

GivesWay ==
  /\ watcher.at = "look"
  /\ ~MayReconcile \/ (Changes(config) = {} /\ MissingListeners(config) = {})
  /\ watcher' = [watcher EXCEPT !.at = "idle"]
  /\ UNCHANGED <<config, streak, wake>> /\ WatcherOnly

Looks ==
  /\ watcher.at = "look" /\ MayReconcile /\ Changes(config) # {}
  /\ watcher' = [watcher EXCEPT !.at = "edit", !.seen = config, !.dead = Dead(config)]
  /\ UNCHANGED <<config, streak, wake>> /\ WatcherOnly

Reapplies ==
  /\ watcher.at = "look" /\ MayReconcile
  /\ Changes(config) = {} /\ MissingListeners(config) # {}
  /\ watcher' = [watcher EXCEPT !.at = "applying"]
  /\ asking' = asking \union {Watcher}
  /\ UNCHANGED <<config, manager, file, process, apply, streak, wake, up, flying, coming,
                 edits, faults>>

\* Store.Update: a chosen node that left the subscription since fails the whole edit.
Reconciles ==
  /\ watcher.at = "edit"
  /\ \E to \in Spreads(Placed(config, watcher.seen, watcher.dead),
                       Candidates(watcher.seen), Load(watcher.seen)) :
       IF \A a \in DOMAIN to : to[a] \in config.nodes
         THEN /\ config' \in Reconciled(config, watcher.seen, watcher.dead, to)
              /\ watcher' = [watcher EXCEPT
                   !.at = "applying", !.seen = Forgotten, !.dead = {}]
              /\ asking' = asking \union {Watcher}
         ELSE /\ watcher' = Resting
              /\ UNCHANGED <<config, asking>>
  /\ UNCHANGED <<manager, file, process, apply, streak, wake, up, flying, coming, edits, faults>>

WatcherSteps == Heals \/ Tick \/ Sweep \/ Woken \/ GivesWay \/ Looks \/ Reapplies \/ Reconciles

-----------------------------------------------------------------------------
(* The editors: binding.go, and the handlers of accounts and proxies          *)

\* An edit of the bindings that asks for an Apply (applyBestEffort).
EditsAndApplies(e, results) ==
  /\ edits < MaxEdits /\ edits' = edits + 1
  /\ e \notin asking /\ ~(apply.by = e /\ apply.stage # "idle")
  /\ config' \in results
  /\ asking' = asking \union {e}
  /\ UNCHANGED <<manager, file, process, apply, watcher, streak, wake, up, flying, coming,
                 faults>>

\* An edit elsewhere that only signals the watcher (RequestReconcile).
EditsAndSignals(c) ==
  /\ edits < MaxEdits /\ edits' = edits + 1
  /\ config' = c
  /\ wake' = TRUE
  /\ UNCHANGED <<supervisor, watcher, streak, up, flying, coming, faults>>

BindAccount(e, a, n) == n \in config.nodes /\ EditsAndApplies(e, BoundByHand(config, a, n))
UnbindAccount(e, a) == EditsAndApplies(e, {UnboundByHand(config, a)})

AssignAccounts(e) ==
  /\ Candidates(config) # {}
  /\ EditsAndApplies(e, AssignedAnew(config, Candidates(config)))

RefreshSubscription(e, nodes) ==
  config.nodes # {} /\ EditsAndApplies(e, {Refreshed(config, nodes)})

DeleteSubscription(e) ==
  config.nodes # {} /\ EditsAndApplies(e, {SubscriptionDeleted(config)})

UpdateSettings(e, enabled, auto) ==
  LET c == [config EXCEPT !.enabled = enabled, !.auto = auto] IN
    EditsAndApplies(e, {IF enabled THEN c ELSE ManagedCleared(c)})

\* Disabling or enabling an account, by hand or by the elastic pool.
ToggleAccount(a) ==
  EditsAndSignals([config EXCEPT !.disabled = IF a \in @ THEN @ \ {a} ELSE @ \union {a}])

ReturnToAuto(a) == EditsAndSignals(ReturnedToAuto(config, a))

Edits ==
  \/ \E e \in Editor :
       \/ \E a \in Account, n \in Node : BindAccount(e, a, n)
       \/ \E a \in Account : UnbindAccount(e, a)
       \/ AssignAccounts(e)
       \/ \E nodes \in SUBSET Node : RefreshSubscription(e, nodes)
       \/ DeleteSubscription(e)
       \/ \E enabled, auto \in BOOLEAN : UpdateSettings(e, enabled, auto)
  \/ \E a \in Account : ToggleAccount(a) \/ ReturnToAuto(a)

-----------------------------------------------------------------------------
(* Requests and links                                                        *)

RequestStarts(a) ==
  /\ a \in coming \ config.disabled
  /\ flying' = flying \union {a} /\ coming' = coming \ {a}
  /\ UNCHANGED <<config, supervisor, watcher, streak, wake, up, edits, faults>>

RequestEnds(a) ==
  /\ a \in flying
  /\ flying' = flying \ {a}
  /\ UNCHANGED <<config, supervisor, watcher, streak, wake, up, coming, edits, faults>>

LinkBreaks(n) ==
  /\ n \in up /\ Fault
  /\ up' = up \ {n}
  /\ UNCHANGED <<config, supervisor, watcher, streak, wake, flying, coming, edits>>

LinkMends(n) ==
  /\ n \notin up
  /\ up' = up \union {n}
  /\ UNCHANGED <<config, supervisor, watcher, streak, wake, flying, coming, edits, faults>>

\* Requests of an account fail on its node until the node counts as dead; the watcher is
\* told (ReportUpstreamResult, markNodeFailByTraffic).
RequestsFail(a) ==
  /\ a \in flying /\ config.bound[a] \in config.nodes \ up
  /\ config.port[config.bound[a]] # 0 /\ streak[config.bound[a]] < FailThreshold
  /\ config' = [config EXCEPT !.status[config.bound[a]] = "fail"]
  /\ streak' = [streak EXCEPT ![config.bound[a]] = FailThreshold]
  /\ wake' = TRUE
  /\ UNCHANGED <<supervisor, watcher, up, flying, coming, edits, faults>>

\* The 15 minutes in which an account is not moved again are over.
CooldownEnds(a) ==
  /\ a \in config.cooling
  /\ config' = [config EXCEPT !.cooling = @ \ {a}]
  /\ UNCHANGED <<supervisor, watcher, streak, wake, up, flying, coming, edits, faults>>

World ==
  \/ ProcessExits \/ ExitIsNoticed
  \/ ApplyCannotPrepare \/ ApplyCannotStart
  \/ \E a \in Account : RequestStarts(a) \/ RequestEnds(a) \/ RequestsFail(a) \/ CooldownEnds(a)
  \/ \E n \in Node : LinkBreaks(n) \/ LinkMends(n)

Next == ApplySteps \/ WatcherSteps \/ Edits \/ World

Spec == Init /\ [][Next]_vars

\* doApply and the watcher are goroutines that run; the waits for the child and for the
\* throttle end, and one of those that wait for their turn to apply gets it.  Requests end,
\* and they are not endless.  Nobody need edit anything.
FairSpec ==
  /\ Spec
  /\ WF_vars(ApplySteps) /\ WF_vars(ExitIsNoticed)
  /\ WF_vars(WatcherSteps) /\ SF_vars(Heals)
  /\ WF_vars(\E a \in Account : RequestEnds(a))

-----------------------------------------------------------------------------
(* Properties                                                                *)

\* The type of each variable.  No two nodes share a port, and a node with a port has its
\* managed proxy on that port (AllocateMihomoPort, gcLocked).
MihomoTypeOK ==
  /\ config \in Fields /\ SinglePorts(config)
  /\ manager \in [running : BOOLEAN, ports : SUBSET Port, failed : BOOLEAN]
  /\ process \in {"none", "alive", "exited"}
  /\ asking \subseteq Applier
  /\ apply \in [by : Applier, stage : Stages, config : Fields]
  /\ watcher \in [at : {"idle", "healing", "sweep", "look", "edit", "applying"},
                  seen : Fields, dead : SUBSET Node]
  /\ streak \in [Node -> 0..FailThreshold]
  /\ wake \in BOOLEAN /\ up \subseteq Node
  /\ flying \subseteq Account /\ coming \subseteq Busy

\* When no Apply is due or failed, the child serves what the configuration says: each
\* port leads to the node it belongs to, and a bridge turned off has no child.  However
\* edits and restarts overlap, none is lost ("later calls wait and work on the newest
\* configuration", Apply).
Settled == asking = {} /\ apply.stage = "idle" /\ ~manager.failed

BridgeFollowsConfig ==
  Settled =>
    /\ ~config.enabled => process = "none"
    /\ process = "alive" => \A l \in file.listeners : \A n \in Node :
         config.port[n] = l[1] /\ BoundTo(config, n) \ config.disabled # {} => l[2] = n

\* A child whose exit was noticed while no Apply was under way is started again, as long
\* as the bridge is on under automatic scheduling (trySelfHeal).  An exit noticed between
\* waitReady and the end of doApply is not: `running` is set over a dead child.
CrashIsRepaired ==
  config.enabled /\ config.auto /\ process # "alive" /\ ~manager.running /\ apply.stage = "idle"
    ~> process = "alive" \/ ~config.enabled \/ ~config.auto

\* Accounts that wake up with a port nobody listens on get their listeners back, when
\* requests pause: the watcher gives way as long as they follow each other.
Deaf ==
  IF config.enabled /\ config.auto /\ manager.running
    THEN {n \in Active(config) : config.port[n] \notin manager.ports}
    ELSE {}

ListenersCatchUp == Deaf # {} ~> Deaf = {}

\* Under a bridge that runs, an account that is scheduled automatically leaves a node
\* whose link is down, when another one works: the sweep finds out, and the watcher moves
\* the account once requests pause, whatever was edited between its look and its edit
\* (the first rule of reconcileBindings).  Not so an account whose node lost its port.
Stranded ==
  IF config.enabled /\ config.auto /\ manager.running /\ process = "alive"
       /\ config.nodes \intersect up # {}
    THEN {a \in Account \ (config.manual \union config.disabled \union config.cooling) :
            config.bound[a] \in config.nodes \ up /\ config.port[config.bound[a]] # 0}
    ELSE {}

DeadNodesAreLeft == Stranded # {} ~> Stranded = {}

\* Accounts bound to different nodes never leave by the same port
\* (docs/MIHOMO_BRIDGE.md:27, "different accounts share no exit address").
ExitsNotShared ==
  \A a, b \in Account \ config.disabled :
    config.bound[a] # None /\ config.bound[b] \notin {None, config.bound[a]} =>
      config.proxy[config.bound[a]] # config.proxy[config.bound[b]]
=============================================================================
