------------------------------ MODULE Mihomo_proofs ------------------------------
(***************************************************************************)
(* What holds of the Mihomo bridge for every number of accounts, nodes,    *)
(* editors, edits and faults: types, that no two nodes share a port, and   *)
(* that the child serves what the configuration says once every Apply that *)
(* was asked for is over.                                                  *)
(***************************************************************************)
EXTENDS Mihomo, FiniteSetTheorems, TLAPS

Good(c) == c \in Fields /\ SinglePorts(c)

\* An edit keeps the bridge as it is, on or off.
Kept(c, d) == Good(d) /\ d.enabled = c.enabled

-----------------------------------------------------------------------------
(* The edits of the configuration                                            *)

LEMMA PortsAreNumbers ==
  Cardinality(Node) \in Nat /\ Port \subseteq Nat /\ 0 \notin Port
BY BindingAssumption, FS_CardinalityType DEF Port

LEMMA SamePortsGood ==
  ASSUME NEW c, NEW d \in Fields, SinglePorts(c), d.port = c.port, d.proxy = c.proxy
  PROVE  Good(d)
BY DEF Good, SinglePorts

Flagged(c, manual, noProxy, cooling) ==
  [c EXCEPT !.manual = manual, !.noProxy = noProxy, !.cooling = cooling]

\* Who chose, who rests and who wants no proxy has nothing to do with ports.
LEMMA FlagsKept ==
  ASSUME NEW c, Good(c), NEW manual \in SUBSET Account, NEW noProxy \in SUBSET Account,
         NEW cooling \in SUBSET Account
  PROVE  /\ Kept(c, Flagged(c, manual, noProxy, cooling))
         /\ Flagged(c, manual, noProxy, cooling).port = c.port
<1> DEFINE d == [c EXCEPT !.manual = manual, !.noProxy = noProxy, !.cooling = cooling]
<1>1. c \in Fields /\ SinglePorts(c)
  BY DEF Good
<1>2. d \in Fields
  BY <1>1 DEF Fields
<1>3. d.port = c.port /\ d.proxy = c.proxy
  BY <1>1 DEF Fields
<1>4. d.enabled = c.enabled
  BY Zenon, <1>1 DEF Fields
<1> HIDE DEF d
<1>5. Good(d)
  BY <1>1, <1>2, <1>3, SamePortsGood
<1>6. Kept(c, d) /\ d.port = c.port
  BY <1>3, <1>4, <1>5 DEF Kept
<1> QED
  BY <1>6 DEF d, Flagged

LEMMA ClearedKept ==
  ASSUME NEW c, Good(c), NEW S
  PROVE  Kept(c, ClearedOf(c, S)) /\ ClearedOf(c, S).port = c.port
<1> DEFINE bound == [a \in Account |-> IF a \in S THEN None ELSE c.bound[a]]
           d == [c EXCEPT !.bound = bound]
<1>1. c \in Fields /\ SinglePorts(c)
  BY DEF Good
<1>2. bound \in [Account -> Node \union {None}]
  BY <1>1 DEF Fields
<1>3. d = ClearedOf(c, S)
  BY DEF ClearedOf
<1> HIDE DEF bound
<1>4. d \in Fields
  BY <1>1, <1>2 DEF Fields
<1>5. d.port = c.port /\ d.proxy = c.proxy
  BY <1>1 DEF Fields
<1>6. d.enabled = c.enabled
  BY Zenon, <1>1 DEF Fields
<1> HIDE DEF d
<1>7. Good(d)
  BY <1>1, <1>4, <1>5, SamePortsGood
<1> QED
  BY <1>3, <1>5, <1>6, <1>7 DEF Kept

LEMMA CollectedKept ==
  ASSUME NEW c, Good(c)
  PROVE  Kept(c, Collected(c))
<1> DEFINE kept == [n \in Node |-> IF BoundTo(c, n) = {} THEN 0 ELSE c.proxy[n]]
           lost == {a \in Account : \E n \in Node : c.bound[a] = n /\ kept[n] = 0}
           bound == [a \in Account |-> IF a \in lost THEN None ELSE c.bound[a]]
           manual == c.manual \ lost
           port == [n \in Node |-> IF n \in c.nodes /\ kept[n] # 0 THEN c.port[n] ELSE 0]
           d == [c EXCEPT !.proxy = kept, !.bound = bound, !.manual = manual, !.port = port]
<1>1. c \in Fields /\ SinglePorts(c)
  BY DEF Good
<1>2. d = Collected(c)
  BY DEF Collected
<1>3. kept \in [Node -> Port \union {0}] /\ port \in [Node -> Port \union {0}]
  BY <1>1 DEF Fields
<1>4. /\ \A m, n \in Node : port[m] # 0 /\ port[m] = port[n] => m = n
      /\ \A n \in Node : port[n] # 0 => kept[n] = port[n]
  BY <1>1 DEF SinglePorts
<1>5. bound \in [Account -> Node \union {None}] /\ manual \in SUBSET Account
  <2> HIDE DEF lost
  <2> QED
    BY <1>1 DEF Fields
<1> HIDE DEF kept, bound, manual, port
<1>6. d \in Fields
  BY <1>1, <1>3, <1>5 DEF Fields
<1>7. d.port = port /\ d.proxy = kept
  BY <1>1 DEF Fields
<1>8. d.enabled = c.enabled
  BY Zenon, <1>1 DEF Fields
<1> HIDE DEF d
<1>9. Good(d)
  BY <1>4, <1>6, <1>7 DEF Good, SinglePorts
<1> QED
  BY <1>2, <1>8, <1>9 DEF Kept

LEMMA AssignedKept ==
  ASSUME NEW c, Good(c), NEW A \in SUBSET Account, NEW to \in [A -> Node],
         NEW d \in Assigned(c, to)
  PROVE  Kept(c, d)
<1> DEFINE nodes == {to[a] : a \in DOMAIN to}
           new == {n \in nodes : c.port[n] = 0}
           bound == [a \in Account |-> IF a \in DOMAIN to THEN to[a] ELSE c.bound[a]]
<1>1. c \in Fields /\ SinglePorts(c) /\ nodes \in SUBSET Node
  BY DEF Good
<1>2. PICK p \in Ports(c, nodes) :
        d = [c EXCEPT !.port = p,
                      !.proxy = [n \in Node |-> IF n \in nodes THEN p[n] ELSE @[n]],
                      !.bound = [a \in Account |-> IF a \in DOMAIN to THEN to[a] ELSE @[a]]]
  BY DEF Assigned
<1>3. /\ p \in [Node -> Port \union {0}] /\ \A n \in Node \ new : p[n] = c.port[n]
      /\ {p[n] : n \in new} = LowestFree(c, Cardinality(new))
      /\ \A m, n \in new : p[m] = p[n] => m = n
  BY DEF Ports
<1> DEFINE proxy == [n \in Node |-> IF n \in nodes THEN p[n] ELSE c.proxy[n]]
<1>4. \A n \in new : p[n] \in Port /\ \A m \in Node : c.port[m] # p[n]
  <2>1. \A n \in new : p[n] \in LowestFree(c, Cardinality(new))
    BY <1>3
  <2> QED
    BY <2>1 DEF LowestFree
<1>5. \A m, n \in Node : p[m] # 0 /\ p[m] = p[n] => m = n
  <2> SUFFICES ASSUME NEW m \in Node, NEW n \in Node, p[m] # 0, p[m] = p[n] PROVE m = n
    OBVIOUS
  <2> HIDE DEF new
  <2>1. CASE m \in new /\ n \in new
    BY <1>3, <2>1
  <2>2. CASE m \notin new /\ n \notin new
    <3>1. c.port[m] # 0 /\ c.port[m] = c.port[n]
      BY <1>3, <2>2
    <3> QED
      BY <1>1, <3>1 DEF SinglePorts
  <2>3. CASE m \in new /\ n \notin new
    BY <1>3, <1>4, <2>3
  <2>4. CASE m \notin new /\ n \in new
    BY <1>3, <1>4, <2>4
  <2> QED
    BY <2>1, <2>2, <2>3, <2>4
<1>6. \A n \in Node : p[n] # 0 => proxy[n] = p[n]
  <2> SUFFICES ASSUME NEW n \in Node, p[n] # 0 PROVE proxy[n] = p[n]
    OBVIOUS
  <2>1. CASE n \in nodes
    BY <2>1
  <2>2. CASE n \notin nodes
    <3>1. p[n] = c.port[n]
      BY <1>3, <2>2
    <3> QED
      BY <1>1, <2>2, <3>1 DEF SinglePorts
  <2> QED
    BY <2>1, <2>2
<1>7. proxy \in [Node -> Port \union {0}] /\ bound \in [Account -> Node \union {None}]
  BY <1>1, <1>3 DEF Fields
<1>8. d = [c EXCEPT !.port = p, !.proxy = proxy, !.bound = bound]
  BY <1>2
<1> HIDE DEF proxy, bound
<1>9. d \in Fields
  BY <1>1, <1>3, <1>7, <1>8 DEF Fields
<1>10. d.port = p /\ d.proxy = proxy
  BY <1>1, <1>8 DEF Fields
<1>11. d.enabled = c.enabled
  BY Zenon, <1>1, <1>8 DEF Fields
<1> QED
  BY <1>5, <1>6, <1>9, <1>10, <1>11 DEF Kept, Good, SinglePorts
LEMMA BoundByHandKept ==
  ASSUME NEW c, Good(c), NEW a \in Account, NEW n \in Node, NEW r \in BoundByHand(c, a, n)
  PROVE  Kept(c, r)
<1>1. PICK d \in Assigned(c, [x \in {a} |-> n]) :
        r = Collected([d EXCEPT !.cooling = @ \ {a}, !.noProxy = @ \ {a},
                                !.manual = @ \union {a}])
  BY DEF BoundByHand
<1>2. {a} \in SUBSET Account /\ [x \in {a} |-> n] \in [{a} -> Node]
  OBVIOUS
<1>3. Kept(c, d)
  BY <1>1, <1>2, AssignedKept
<1>4. /\ d.manual \union {a} \in SUBSET Account /\ d.noProxy \ {a} \in SUBSET Account
      /\ d.cooling \ {a} \in SUBSET Account
  BY <1>3 DEF Kept, Good, Fields
<1> DEFINE e == Flagged(d, d.manual \union {a}, d.noProxy \ {a}, d.cooling \ {a})
<1>5. Kept(d, e)
  <2>1. Good(d)
    BY <1>3 DEF Kept
  <2> QED
    BY Zenon, <1>4, <2>1, FlagsKept
<1>6. r = Collected(e)
  BY <1>1, <1>3 DEF Flagged, Kept, Good, Fields
<1> HIDE DEF e
<1>7. Kept(e, r)
  BY <1>5, <1>6, CollectedKept DEF Kept
<1> QED
  BY <1>3, <1>5, <1>7 DEF Kept

LEMMA UnboundByHandKept ==
  ASSUME NEW c, Good(c), NEW a \in Account
  PROVE  Kept(c, UnboundByHand(c, a))
<1> DEFINE d == ClearedOf(c, {a})
           e == Flagged(d, d.manual \ {a}, d.noProxy \union {a}, d.cooling \ {a})
<1>1. Kept(c, d)
  BY ClearedKept
<1>2. UnboundByHand(c, a) = Collected(e)
  <2>1. e = [d EXCEPT !.cooling = d.cooling \ {a}, !.noProxy = d.noProxy \union {a},
                      !.manual = d.manual \ {a}]
    <3> HIDE DEF d
    <3> QED
      BY <1>1 DEF Flagged, Kept, Good, Fields
  <2> QED
    BY <2>1 DEF UnboundByHand
<1> HIDE DEF d
<1>3. /\ d.manual \ {a} \in SUBSET Account /\ d.noProxy \union {a} \in SUBSET Account
      /\ d.cooling \ {a} \in SUBSET Account
  BY <1>1 DEF Kept, Good, Fields
<1>4. Kept(d, e)
  <2>1. Good(d)
    BY <1>1 DEF Kept
  <2> QED
    BY Zenon, <1>3, <2>1, FlagsKept
<1> HIDE DEF e
<1>5. Kept(e, Collected(e))
  BY <1>4, CollectedKept DEF Kept
<1> QED
  BY <1>1, <1>2, <1>4, <1>5 DEF Kept

LEMMA ReturnedToAutoKept ==
  ASSUME NEW c, Good(c), NEW a \in Account
  PROVE  Kept(c, ReturnedToAuto(c, a)) /\ ReturnedToAuto(c, a).port = c.port
<1> DEFINE d == ClearedOf(c, {a})
           e == Flagged(d, d.manual \ {a}, d.noProxy \ {a}, d.cooling)
<1>1. Kept(c, d) /\ d.port = c.port
  BY ClearedKept
<1>2. ReturnedToAuto(c, a) = [d EXCEPT !.noProxy = d.noProxy \ {a}, !.manual = d.manual \ {a}]
  BY DEF ReturnedToAuto
<1> HIDE DEF d
<1>3. d \in Fields
  BY <1>1 DEF Kept, Good
<1>4. ReturnedToAuto(c, a) = e
  BY <1>2, <1>3 DEF Flagged, Fields
<1>5. /\ d.manual \ {a} \in SUBSET Account /\ d.noProxy \ {a} \in SUBSET Account
      /\ d.cooling \in SUBSET Account
  BY <1>3 DEF Fields
<1>6. Kept(d, e) /\ e.port = d.port
  <2>1. Good(d)
    BY <1>1 DEF Kept
  <2> QED
    BY Zenon, <1>5, <2>1, FlagsKept
<1> HIDE DEF e
<1> QED
  BY <1>1, <1>4, <1>6 DEF Kept

Offering(c, nodes, status, manual) ==
  [c EXCEPT !.nodes = nodes, !.status = status, !.manual = manual]

\* Nodes come and go, and what was measured of them.
LEMMA NodesKept ==
  ASSUME NEW c, Good(c), NEW nodes \in SUBSET Node,
         NEW status \in [Node -> {"unknown", "ok", "fail"}],
         NEW manual \in SUBSET Account
  PROVE  /\ Kept(c, Offering(c, nodes, status, manual))
         /\ Offering(c, nodes, status, manual).port = c.port
<1> DEFINE d == [c EXCEPT !.nodes = nodes, !.status = status, !.manual = manual]
<1>1. c \in Fields /\ SinglePorts(c)
  BY DEF Good
<1>2. d \in Fields
  BY <1>1 DEF Fields
<1>3. d.port = c.port /\ d.proxy = c.proxy
  BY <1>1 DEF Fields
<1>4. d.enabled = c.enabled
  BY Zenon, <1>1 DEF Fields
<1> HIDE DEF d
<1>5. Kept(c, d) /\ d.port = c.port
  BY <1>1, <1>2, <1>3, <1>4, SamePortsGood DEF Kept
<1> QED
  BY <1>5 DEF d, Offering

LEMMA RefreshedKept ==
  ASSUME NEW c, Good(c), NEW nodes \in SUBSET Node
  PROVE  Kept(c, Refreshed(c, nodes))
<1> DEFINE status == [n \in Node |-> "unknown"]
           d == Offering(c, nodes, status, c.manual)
<1>1. c \in Fields /\ c.manual \in SUBSET Account
  BY DEF Good, Fields
<1>2. Refreshed(c, nodes) = Collected(d)
  BY <1>1 DEF Refreshed, Offering, Fields
<1>3. status \in [Node -> {"unknown", "ok", "fail"}]
  OBVIOUS
<1> HIDE DEF status
<1>4. Kept(c, d)
  BY <1>1, <1>3, NodesKept
<1> HIDE DEF d
<1> QED
  BY <1>2, <1>4, CollectedKept DEF Kept

LEMMA SubscriptionDeletedKept ==
  ASSUME NEW c, Good(c)
  PROVE  Kept(c, SubscriptionDeleted(c))
<1> DEFINE dead == {a \in Account : \E n \in c.nodes : c.bound[a] = n /\ c.port[n] # 0}
           e == ClearedOf(c, dead)
           status == [n \in Node |-> "unknown"]
           d == Offering(e, {}, status, e.manual \ dead)
<1>1. Kept(c, e)
  BY ClearedKept
<1>2. SubscriptionDeleted(c) = Collected(d)
  <2>1. d = [e EXCEPT !.nodes = {}, !.manual = e.manual \ dead, !.status = status]
    <3> HIDE DEF e, dead, status
    <3> QED
      BY <1>1 DEF Offering, Kept, Good, Fields
  <2> QED
    BY <2>1 DEF SubscriptionDeleted
<1> HIDE DEF dead, e
<1>3. e.manual \ dead \in SUBSET Account
  BY <1>1 DEF Kept, Good, Fields
<1>4. status \in [Node -> {"unknown", "ok", "fail"}] /\ {} \in SUBSET Node
  OBVIOUS
<1> HIDE DEF status
<1>5. Kept(e, d)
  <2>1. Good(e)
    BY <1>1 DEF Kept
  <2> QED
    BY Zenon, <1>3, <1>4, <2>1, NodesKept
<1> HIDE DEF d
<1>6. Kept(d, Collected(d))
  BY <1>5, CollectedKept DEF Kept
<1> QED
  BY <1>2, <1>1, <1>5, <1>6 DEF Kept

LEMMA ManagedClearedKept ==
  ASSUME NEW c, Good(c)
  PROVE  Kept(c, ManagedCleared(c))
<1> DEFINE bound == {a \in Account : c.bound[a] # None}
           e == ClearedOf(c, bound)
           d == Flagged(e, e.manual \ bound, e.noProxy, e.cooling \ bound)
<1> HIDE DEF bound
<1>1. Kept(c, e)
  BY ClearedKept
<1>2. ManagedCleared(c) = Collected([e EXCEPT !.manual = e.manual \ bound,
                                              !.cooling = e.cooling \ bound])
  BY DEF ManagedCleared, bound
<1> HIDE DEF e
<1>3. e \in Fields
  BY <1>1 DEF Kept, Good
<1>4. ManagedCleared(c) = Collected(d)
  <2>1. d = [e EXCEPT !.manual = e.manual \ bound, !.cooling = e.cooling \ bound]
    BY <1>3 DEF Flagged, Fields
  <2> QED
    BY <1>2, <2>1
<1>5. /\ e.manual \ bound \in SUBSET Account /\ e.noProxy \in SUBSET Account
      /\ e.cooling \ bound \in SUBSET Account
  BY <1>3 DEF Fields
<1>6. Kept(e, d)
  <2>1. Good(e)
    BY <1>1 DEF Kept
  <2> QED
    BY Zenon, <1>5, <2>1, FlagsKept
<1> HIDE DEF d
<1>7. Kept(d, Collected(d))
  BY <1>6, CollectedKept DEF Kept
<1> QED
  BY <1>1, <1>4, <1>6, <1>7 DEF Kept

\* Accounts that rest, or rest no longer.
LEMMA CoolingKept ==
  ASSUME NEW c, Good(c), NEW cooling \in SUBSET Account
  PROVE  Kept(c, [c EXCEPT !.cooling = cooling]) /\ [c EXCEPT !.cooling = cooling].port = c.port
<1>1. c \in Fields /\ c.manual \in SUBSET Account /\ c.noProxy \in SUBSET Account
  BY DEF Good, Fields
<1>2. [c EXCEPT !.cooling = cooling] = Flagged(c, c.manual, c.noProxy, cooling)
  BY <1>1 DEF Flagged, Fields
<1> DEFINE d == Flagged(c, c.manual, c.noProxy, cooling)
<1>3. Kept(c, d) /\ d.port = c.port
  BY Zenon, <1>1, FlagsKept
<1> HIDE DEF d
<1>4. [c EXCEPT !.cooling = cooling] = d
  BY <1>2 DEF d
<1> QED
  BY <1>3, <1>4

LEMMA AssignedAnewKept ==
  ASSUME NEW c, Good(c), NEW nodes \in SUBSET Node, NEW r \in AssignedAnew(c, nodes)
  PROVE  Kept(c, r)
<1> DEFINE freed == Collected(ClearedOf(c, Account \ c.manual))
<1>1. Kept(c, freed)
  BY ClearedKept, CollectedKept DEF Kept
<1> HIDE DEF freed
<1>2. PICK to \in Spreads(Takers(c), nodes, [n \in Node |-> 0]) :
        \E d \in Assigned(freed, to) : r = Collected([d EXCEPT !.cooling = @ \ Takers(c)])
  BY DEF AssignedAnew, freed
<1>3. PICK d \in Assigned(freed, to) : r = Collected([d EXCEPT !.cooling = @ \ Takers(c)])
  BY <1>2
<1>4. Takers(c) \in SUBSET Account /\ to \in [Takers(c) -> Node]
  BY <1>2 DEF Takers, Spreads
<1>5. Kept(freed, d)
  BY <1>1, <1>4, AssignedKept DEF Kept
<1>6. d.cooling \ Takers(c) \in SUBSET Account
  BY <1>5 DEF Kept, Good, Fields
<1> DEFINE e == [d EXCEPT !.cooling = d.cooling \ Takers(c)]
<1>7. Kept(d, e) /\ r = Collected(e)
  BY <1>3, <1>5, <1>6, CoolingKept DEF Kept
<1> HIDE DEF e
<1>8. Kept(e, r)
  BY <1>7, CollectedKept DEF Kept
<1> QED
  BY <1>1, <1>5, <1>7, <1>8 DEF Kept

\* The edit of the watcher, whatever it looked at.
LEMMA ReconciledKept ==
  ASSUME NEW c, Good(c), NEW seen, seen \in Fields, NEW dead,
         NEW to \in Spreads(Placed(c, seen, dead), Candidates(seen), Load(seen)),
         NEW r \in Reconciled(c, seen, dead, to)
  PROVE  Kept(c, r)
<1> DEFINE cleared == ClearedOf(c, Unbinds(seen))
           moved == Rebinds(seen, dead) \ c.disabled
<1>1. Kept(c, cleared)
  BY ClearedKept
<1>2. PICK d \in Assigned(cleared, to) : r = Collected([d EXCEPT !.cooling = @ \union moved])
  BY DEF Reconciled
<1>3. Placed(c, seen, dead) \in SUBSET Account /\ moved \in SUBSET Account
  BY DEF Placed, Rebinds, Backfills
<1>4. to \in [Placed(c, seen, dead) -> Node]
  BY DEF Spreads, Candidates, Fields
<1> HIDE DEF cleared, moved
<1>5. Kept(cleared, d)
  BY <1>1, <1>2, <1>3, <1>4, AssignedKept DEF Kept
<1>6. d.cooling \union moved \in SUBSET Account
  BY <1>3, <1>5 DEF Kept, Good, Fields
<1> DEFINE e == [d EXCEPT !.cooling = d.cooling \union moved]
<1>7. Kept(d, e) /\ r = Collected(e)
  BY <1>2, <1>5, <1>6, CoolingKept DEF Kept
<1> HIDE DEF e
<1>8. Kept(e, r)
  BY <1>7, CollectedKept DEF Kept
<1> QED
  BY <1>1, <1>5, <1>7, <1>8 DEF Kept
-----------------------------------------------------------------------------
(* The supervisor                                                            *)

\* Each port the child listens on leads to the node it belongs to.
Served(c) ==
  \A l \in file.listeners : \A n \in Node : c.port[n] = l[1] => l[2] = n

\* What a settled bridge does.
Serves ==
  Settled => (~config.enabled => process = "none") /\ (process = "alive" => Served(config))

\* An Apply works on the newest configuration, unless another one is asked for.
Newest ==
  apply.stage # "idle" /\ asking = {} =>
    apply.config.enabled = config.enabled /\ apply.config.port = config.port

\* What an Apply has done so far.
Staged ==
  /\ apply.stage \in {"stopped", "starting", "ready"} =>
       apply.config.enabled /\ file = Runtime(apply.config)
  /\ apply.stage = "stopped" => process = "none"

Managers == [running : BOOLEAN, ports : SUBSET Port, failed : BOOLEAN]
Applies == [by : Applier, stage : Stages, config : Fields]
Watchers == [at : {"idle", "healing", "sweep", "look", "edit", "applying"},
             seen : Fields, dead : SUBSET Node]

SupervisorOK ==
  /\ manager \in Managers /\ process \in {"none", "alive", "exited"} /\ asking \subseteq Applier
  /\ apply \in Applies /\ SinglePorts(apply.config)

RestOK ==
  /\ streak \in [Node -> 0..FailThreshold] /\ wake \in BOOLEAN /\ up \subseteq Node
  /\ flying \subseteq Account /\ coming \subseteq Busy

BridgeInv ==
  /\ Good(config) /\ SupervisorOK /\ watcher \in Watchers /\ RestOK
  /\ Newest /\ Staged /\ Serves

LEMMA ForgottenGood == Good(Forgotten)
<1>1. [n \in Node |-> 0] \in [Node -> Port \union {0}]
  OBVIOUS
<1>2. Forgotten \in Fields
  BY <1>1 DEF Forgotten, Fields
<1>3. Forgotten.port = [n \in Node |-> 0]
  BY DEF Forgotten
<1> QED
  BY <1>2, <1>3 DEF Good, SinglePorts

\* No two nodes share a port, so that a configuration serves itself.
LEMMA RuntimeServes ==
  ASSUME NEW c, Good(c)
  PROVE  /\ \A l \in Runtime(c).listeners : \A n \in Node : c.port[n] = l[1] => l[2] = n
         /\ PortsOf(Runtime(c)) \in SUBSET Port
<1>1. c \in Fields /\ SinglePorts(c)
  BY DEF Good
<1>2. Runtime(c).listeners = {<<c.port[n], n>> : n \in Active(c)}
  BY DEF Runtime
<1>3. \A n \in Active(c) : n \in Node /\ c.port[n] # 0 /\ c.port[n] \in Port
  BY <1>1 DEF Active, Fields
<1>4. \A l \in Runtime(c).listeners :
        \E n \in Active(c) : l[1] = c.port[n] /\ l[2] = n
  BY <1>2
<1>5. \A l \in Runtime(c).listeners : \A n \in Node : c.port[n] = l[1] => l[2] = n
  BY <1>1, <1>3, <1>4 DEF SinglePorts
<1>6. PortsOf(Runtime(c)) \in SUBSET Port
  BY <1>3, <1>4 DEF PortsOf
<1> QED
  BY <1>5, <1>6

\* An edit that may move ports, or turn the bridge on or off, is followed by an Apply.
LEMMA EditConsistent ==
  ASSUME BridgeInv, UNCHANGED <<manager, file, process, apply>>,
         \/ asking' # {}
         \/ asking' = asking /\ config'.port = config.port /\ config'.enabled = config.enabled
  PROVE  (Newest /\ Staged /\ Serves)'
<1>1. Staged'
  BY DEF BridgeInv, Staged
<1>2. Newest'
  BY DEF BridgeInv, Newest
<1>3. Serves'
  <2>1. CASE asking' # {}
    BY <2>1 DEF Serves, Settled
  <2>2. CASE asking' = asking /\ config'.port = config.port /\ config'.enabled = config.enabled
    BY <2>2 DEF BridgeInv, Serves, Settled, Served
  <2> QED
    BY <2>1, <2>2
<1> QED
  BY <1>1, <1>2, <1>3

LEMMA EditGood ==
  ASSUME BridgeInv, UNCHANGED <<manager, file, process, apply>>,
         Good(config'), asking' \subseteq Applier,
         watcher' \in Watchers, RestOK',
         \/ asking' # {}
         \/ asking' = asking /\ config'.port = config.port /\ config'.enabled = config.enabled
  PROVE  BridgeInv'
BY EditConsistent DEF BridgeInv, SupervisorOK

\* A step that only the watcher, the requests or the links take notice of.
LEMMA AsideGood ==
  ASSUME BridgeInv, UNCHANGED <<config, manager, file, process, asking, apply>>,
         watcher' \in Watchers, RestOK'
  PROVE  BridgeInv'
BY EditGood DEF BridgeInv, SupervisorOK

-----------------------------------------------------------------------------
(* Applies                                                                   *)

LEMMA OverTypes ==
  ASSUME BridgeInv, Over
  PROVE  /\ apply' \in Applies /\ SinglePorts(apply'.config) /\ apply'.stage = "idle"
         /\ watcher' \in Watchers
<1>1. apply' = [by |-> Boot, stage |-> "idle", config |-> Forgotten]
  BY DEF Over
<1>2. apply' \in Applies /\ SinglePorts(apply'.config) /\ apply'.stage = "idle"
  BY <1>1, ForgottenGood DEF Applies, Applier, Stages, Good
<1>3. watcher' \in Watchers
  <2> DEFINE at == IF watcher.at = "healing" THEN "sweep" ELSE "idle"
  <2>1. watcher' = watcher \/ watcher' = [watcher EXCEPT !.at = at]
    BY DEF Over
  <2>2. at \in {"idle", "sweep"}
    OBVIOUS
  <2> HIDE DEF at
  <2> QED
    BY <2>1, <2>2 DEF BridgeInv, Watchers
<1> QED
  BY <1>2, <1>3

\* An Apply ends with a failure, or with a bridge that does what it should.
LEMMA OverGood ==
  ASSUME BridgeInv, Over, UNCHANGED <<config, asking, streak, wake, up, flying, coming>>,
         manager' \in Managers, process' \in {"none", "alive", "exited"},
         manager'.failed \/ (asking = {} => /\ ~config.enabled => process' = "none"
                                            /\ process' = "alive" => Served(config)')
  PROVE  BridgeInv'
<1>1. /\ apply' \in Applies /\ SinglePorts(apply'.config) /\ apply'.stage = "idle"
      /\ watcher' \in Watchers
  BY OverTypes
<1>2. Good(config') /\ SupervisorOK' /\ RestOK'
  BY <1>1 DEF BridgeInv, SupervisorOK, RestOK
<1>3. Newest' /\ Staged'
  BY <1>1 DEF Newest, Staged
<1>4. Serves'
  BY DEF Serves, Settled
<1> QED
  BY <1>1, <1>2, <1>3, <1>4 DEF BridgeInv

LEMMA FailureOver ==
  ASSUME BridgeInv, Failed, Over, UNCHANGED <<config, asking, streak, wake, up, flying, coming>>,
         UNCHANGED process
  PROVE  BridgeInv'
<1>1. manager' = [manager EXCEPT !.failed = TRUE, !.running = FALSE]
  BY DEF Failed
<1>2. manager \in Managers /\ process' \in {"none", "alive", "exited"}
  BY DEF BridgeInv, SupervisorOK
<1>3. manager' \in Managers
  BY <1>1, <1>2 DEF Managers
<1>4. manager'.failed
  BY Zenon, <1>1, <1>2 DEF Managers
<1> QED
  BY <1>2, <1>3, <1>4, OverGood

\* The child serves the newest configuration.
LEMMA SuccessOver ==
  ASSUME BridgeInv, manager' = AppliedPorts(manager), Over, file = Runtime(apply.config),
         apply.stage # "idle", apply.config.enabled,
         UNCHANGED <<config, asking, file, process, streak, wake, up, flying, coming>>
  PROVE  BridgeInv'
<1>1. manager \in Managers /\ process' \in {"none", "alive", "exited"} /\ Good(apply.config)
  BY DEF BridgeInv, SupervisorOK, Good, Applies
<1>2. PortsOf(Runtime(apply.config)) \in SUBSET Port
  BY <1>1, RuntimeServes
<1>3. manager' \in Managers
  <2> DEFINE ports == PortsOf(Runtime(apply.config))
  <2>1. manager' = [manager EXCEPT !.running = TRUE, !.failed = FALSE, !.ports = ports]
    BY DEF AppliedPorts
  <2>2. ports \in SUBSET Port
    BY <1>2
  <2> HIDE DEF ports
  <2> QED
    BY <1>1, <2>1, <2>2 DEF Managers
<1>4. ASSUME asking = {}
      PROVE  config.enabled /\ Served(config)'
  <2>1. config.enabled /\ apply.config.port = config.port
    BY Zenon, <1>4 DEF BridgeInv, Newest
  <2> QED
    BY <1>1, <2>1, RuntimeServes DEF Served
<1> QED
  BY <1>1, <1>3, <1>4, OverGood

LEMMA ApplyBeginsGood ==
  ASSUME BridgeInv, NEW p \in Applier, ApplyBegins(p)
  PROVE  BridgeInv'
<1>1. /\ apply' = [by |-> p, stage |-> "decide", config |-> config]
      /\ asking' = asking \ {p}
      /\ UNCHANGED <<config, manager, file, process, watcher, streak, wake, up, flying, coming>>
  BY DEF ApplyBegins
<1>2. Good(config') /\ SupervisorOK' /\ watcher' \in Watchers /\ RestOK'
  BY <1>1 DEF BridgeInv, SupervisorOK, RestOK, Good, Applies, Stages
<1>3. Newest' /\ Staged' /\ Serves'
  BY <1>1 DEF Newest, Staged, Serves, Settled
<1> QED
  BY <1>2, <1>3 DEF BridgeInv

LEMMA ApplyStopsGood ==
  ASSUME BridgeInv, ApplyStops
  PROVE  BridgeInv'
<1>1. /\ process' = "none" /\ Over
      /\ manager' = [manager EXCEPT !.running = FALSE, !.failed = FALSE, !.ports = {}]
      /\ UNCHANGED <<config, asking, streak, wake, up, flying, coming>>
  BY DEF ApplyStops, Idle
<1>2. manager' \in Managers
  BY <1>1 DEF BridgeInv, SupervisorOK, Managers
<1> QED
  BY <1>1, <1>2, OverGood

LEMMA ApplyRestartsGood ==
  ASSUME BridgeInv, ApplyRestarts
  PROVE  BridgeInv'
<1>1. /\ apply.stage = "decide" /\ apply.config.enabled
      /\ file' = Runtime(apply.config) /\ process' = "none"
      /\ manager' = [manager EXCEPT !.running = FALSE]
      /\ apply' = [apply EXCEPT !.stage = "stopped"]
      /\ UNCHANGED <<config, asking, streak, wake, up, flying, coming, watcher>>
  BY DEF ApplyRestarts, Idle
<1>2. apply \in Applies /\ manager \in Managers /\ SinglePorts(apply.config)
  BY DEF BridgeInv, SupervisorOK
<1>3. /\ apply' \in Applies /\ apply'.config = apply.config /\ apply'.stage = "stopped"
      /\ manager' \in Managers
  BY <1>1, <1>2 DEF Applies, Managers, Stages
<1>4. Good(config') /\ SupervisorOK' /\ watcher' \in Watchers /\ RestOK'
  BY <1>1, <1>2, <1>3 DEF BridgeInv, SupervisorOK, RestOK
<1>5. Newest'
  BY <1>1, <1>3 DEF BridgeInv, Newest
<1>6. Staged' /\ Serves'
  BY <1>1, <1>3 DEF Staged, Serves, Settled
<1> QED
  BY <1>4, <1>5, <1>6 DEF BridgeInv

\* The child is started, and taken to be ready.
LEMMA StartingGood ==
  ASSUME BridgeInv, ProcessStarts \/ StartSucceeds
  PROVE  BridgeInv'
<1>1. PICK stage \in {"starting", "ready"} :
        /\ apply' = [apply EXCEPT !.stage = stage]
        /\ apply.stage \in {"stopped", "starting"}
        /\ process' \in {"none", "alive", "exited"}
        /\ UNCHANGED <<config, asking, streak, wake, up, flying, coming, watcher, manager, file>>
  BY DEF ProcessStarts, StartSucceeds, Idle, BridgeInv, SupervisorOK
<1>2. apply \in Applies
  BY DEF BridgeInv, SupervisorOK
<1>3. apply' \in Applies /\ apply'.config = apply.config /\ apply'.stage = stage
  BY <1>1, <1>2 DEF Applies, Stages
<1>4. Good(config') /\ SupervisorOK' /\ watcher' \in Watchers /\ RestOK'
  BY <1>1, <1>3 DEF BridgeInv, SupervisorOK, RestOK
<1>5. Newest' /\ Staged' /\ Serves'
  BY <1>1, <1>3 DEF BridgeInv, Newest, Staged, Serves, Settled
<1> QED
  BY <1>4, <1>5 DEF BridgeInv

LEMMA ApplyGood ==
  ASSUME BridgeInv, ApplySteps
  PROVE  BridgeInv'
<1>1. CASE \E p \in Applier : ApplyBegins(p)
  BY <1>1, ApplyBeginsGood
<1>2. CASE ApplyStops
  BY <1>2, ApplyStopsGood
<1>3. CASE ApplySkips
  BY <1>3, SuccessOver DEF ApplySkips, Idle, Unchanged
<1>4. CASE ApplyRestarts
  BY <1>4, ApplyRestartsGood
<1>5. CASE ProcessStarts \/ StartSucceeds
  BY <1>5, StartingGood
<1>6. CASE StartFails
  BY <1>6, FailureOver DEF StartFails, Idle
<1>7. CASE ApplySucceeds
  BY <1>7, SuccessOver DEF ApplySucceeds, Idle, BridgeInv, Staged
<1> QED
  BY <1>1, <1>2, <1>3, <1>4, <1>5, <1>6, <1>7 DEF ApplySteps
-----------------------------------------------------------------------------
(* The watcher                                                               *)

\* It moves on, and nothing else changes.
LEMMA WatcherMoves ==
  ASSUME BridgeInv, watcher' \in Watchers, wake' \in BOOLEAN,
         UNCHANGED <<config, streak>>, WatcherOnly
  PROVE  BridgeInv'
<1>1. UNCHANGED <<config, manager, file, process, asking, apply, up, flying, coming, streak>>
  BY DEF WatcherOnly, supervisor
<1>2. RestOK'
  BY <1>1 DEF BridgeInv, RestOK
<1> QED
  BY <1>1, <1>2, AsideGood

LEMMA WatcherTypes ==
  ASSUME BridgeInv
  PROVE  /\ \A at \in {"idle", "healing", "sweep", "look", "edit", "applying"} :
              [watcher EXCEPT !.at = at] \in Watchers
         /\ Resting \in Watchers
<1>1. watcher \in Watchers
  BY DEF BridgeInv
<1>2. Forgotten \in Fields
  BY ForgottenGood DEF Good
<1> QED
  BY <1>1, <1>2 DEF Watchers, Resting

\* It asks for an Apply.
LEMMA WatcherAsks ==
  ASSUME BridgeInv, watcher' \in Watchers, Good(config'), asking' = asking \union {Watcher},
         UNCHANGED <<manager, file, process, apply, streak, wake, up, flying, coming>>
  PROVE  BridgeInv'
<1>1. asking' \subseteq Applier /\ asking' # {}
  BY DEF BridgeInv, SupervisorOK, Applier
<1>2. RestOK'
  BY DEF BridgeInv, RestOK
<1> QED
  BY <1>1, <1>2, EditGood

LEMMA HealsGood ==
  ASSUME BridgeInv, Heals
  PROVE  BridgeInv'
<1>1. watcher' \in Watchers
  BY WatcherTypes DEF Heals
<1>2. Good(config')
  BY DEF BridgeInv, Heals
<1> QED
  BY <1>1, <1>2, WatcherAsks DEF Heals

\* What is measured of the nodes moves no port.
LEMMA StatusKept ==
  ASSUME NEW c, Good(c), NEW status \in [Node -> {"unknown", "ok", "fail"}]
  PROVE  /\ Kept(c, [c EXCEPT !.status = status])
         /\ [c EXCEPT !.status = status].port = c.port
<1> DEFINE d == Offering(c, c.nodes, status, c.manual)
<1>1. c \in Fields /\ c.nodes \in SUBSET Node /\ c.manual \in SUBSET Account
  BY DEF Good, Fields
<1>2. [c EXCEPT !.status = status] = d
  BY <1>1 DEF Offering, Fields
<1>3. Kept(c, d) /\ d.port = c.port
  BY Zenon, <1>1, NodesKept
<1> HIDE DEF d
<1> QED
  BY <1>2, <1>3

LEMMA SweepGood ==
  ASSUME BridgeInv, Sweep
  PROVE  BridgeInv'
<1> DEFINE status == [n \in Node |-> IF n \in config.nodes THEN Measured(n) ELSE config.status[n]]
           counts == [n \in Node |->
                 IF n \notin config.nodes THEN streak[n]
                 ELSE IF n \in up THEN 0
                 ELSE IF streak[n] < FailThreshold THEN streak[n] + 1 ELSE streak[n]]
<1>1. watcher' \in Watchers
  BY WatcherTypes DEF Sweep
<1>2. UNCHANGED <<manager, file, process, asking, apply, wake, up, flying, coming>>
  BY DEF Sweep, WatcherOnly, supervisor
<1>3. \/ UNCHANGED <<config, streak>>
      \/ config' = [config EXCEPT !.status = status] /\ streak' = counts
  BY DEF Sweep
<1>4. status \in [Node -> {"unknown", "ok", "fail"}]
  BY DEF BridgeInv, Good, Fields, Measured
<1>5. counts \in [Node -> 0..FailThreshold]
  <2>1. streak \in [Node -> 0..FailThreshold]
    BY DEF BridgeInv, RestOK
  <2> QED
    BY <2>1, MihomoAssumption
<1> HIDE DEF status, counts
<1>6. Good(config') /\ config'.port = config.port /\ config'.enabled = config.enabled
  <2>1. Good(config)
    BY DEF BridgeInv
  <2>2. CASE UNCHANGED config
    BY <2>1, <2>2
  <2>3. CASE config' = [config EXCEPT !.status = status]
    BY <1>4, <2>1, <2>3, StatusKept DEF Kept
  <2> QED
    BY <1>3, <2>2, <2>3
<1>7. RestOK'
  BY <1>2, <1>3, <1>5 DEF BridgeInv, RestOK
<1>8. asking' \subseteq Applier
  BY <1>2 DEF BridgeInv, SupervisorOK
<1> QED
  BY <1>1, <1>2, <1>6, <1>7, <1>8, EditGood

LEMMA LooksGood ==
  ASSUME BridgeInv, Looks
  PROVE  BridgeInv'
<1>1. watcher' = [watcher EXCEPT !.at = "edit", !.seen = config, !.dead = Dead(config)]
  BY DEF Looks
<1>2. config \in Fields /\ Dead(config) \in SUBSET Node
  BY DEF BridgeInv, Good, Dead, Fields
<1>3. watcher' \in Watchers
  BY <1>1, <1>2 DEF BridgeInv, Watchers
<1>4. wake' \in BOOLEAN
  BY DEF Looks, BridgeInv, RestOK
<1> QED
  BY <1>3, <1>4, WatcherMoves DEF Looks

LEMMA ReappliesGood ==
  ASSUME BridgeInv, Reapplies
  PROVE  BridgeInv'
<1>1. watcher' \in Watchers
  BY WatcherTypes DEF Reapplies
<1>2. Good(config')
  BY DEF Reapplies, BridgeInv
<1> QED
  BY <1>1, <1>2, WatcherAsks DEF Reapplies

LEMMA ReconcilesGood ==
  ASSUME BridgeInv, Reconciles
  PROVE  BridgeInv'
<1>1. UNCHANGED <<manager, file, process, apply, streak, wake, up, flying, coming>>
  BY DEF Reconciles
<1>2. PICK to \in Spreads(Placed(config, watcher.seen, watcher.dead),
                          Candidates(watcher.seen), Load(watcher.seen)) :
        IF \A a \in DOMAIN to : to[a] \in config.nodes
          THEN /\ config' \in Reconciled(config, watcher.seen, watcher.dead, to)
               /\ watcher' = [watcher EXCEPT
                    !.at = "applying", !.seen = Forgotten, !.dead = {}]
               /\ asking' = asking \union {Watcher}
          ELSE /\ watcher' = Resting
               /\ UNCHANGED <<config, asking>>
  BY DEF Reconciles
<1>3. Good(config) /\ watcher.seen \in Fields
  BY DEF BridgeInv, Watchers
<1>4. CASE \A a \in DOMAIN to : to[a] \in config.nodes
  <2>1. Good(config')
    BY <1>2, <1>3, <1>4, ReconciledKept DEF Kept
  <2>2. watcher' = [watcher EXCEPT !.at = "applying", !.seen = Forgotten, !.dead = {}]
    BY <1>2, <1>4
  <2>3. Forgotten \in Fields
    BY ForgottenGood DEF Good
  <2>4. watcher' \in Watchers
    BY <2>2, <2>3 DEF BridgeInv, Watchers
  <2> QED
    BY <1>1, <1>2, <1>4, <2>1, <2>4, WatcherAsks
<1>5. CASE ~(\A a \in DOMAIN to : to[a] \in config.nodes)
  <2>1. watcher' \in Watchers /\ UNCHANGED <<config, asking>>
    BY <1>2, <1>5, WatcherTypes
  <2>2. RestOK'
    BY <1>1 DEF BridgeInv, RestOK
  <2> QED
    BY <1>1, <2>1, <2>2, AsideGood
<1> QED
  BY <1>4, <1>5

LEMMA WatcherGood ==
  ASSUME BridgeInv, WatcherSteps
  PROVE  BridgeInv'
<1>1. CASE Heals
  BY <1>1, HealsGood
<1>2. CASE Tick \/ Woken \/ GivesWay
  <2>1. watcher' \in Watchers
    BY <1>2, WatcherTypes DEF Tick, Woken, GivesWay
  <2>2. wake' \in BOOLEAN /\ UNCHANGED <<config, streak>> /\ WatcherOnly
    BY <1>2 DEF Tick, Woken, GivesWay, BridgeInv, RestOK
  <2> QED
    BY <2>1, <2>2, WatcherMoves
<1>3. CASE Sweep
  BY <1>3, SweepGood
<1>4. CASE Looks
  BY <1>4, LooksGood
<1>5. CASE Reapplies
  BY <1>5, ReappliesGood
<1>6. CASE Reconciles
  BY <1>6, ReconcilesGood
<1> QED
  BY <1>1, <1>2, <1>3, <1>4, <1>5, <1>6 DEF WatcherSteps

-----------------------------------------------------------------------------
(* Edits by hand, and the world                                              *)

LEMMA AppliedEditGood ==
  ASSUME BridgeInv, NEW e \in Editor, NEW results, \A c \in results : Good(c),
         EditsAndApplies(e, results)
  PROVE  BridgeInv'
<1>1. /\ config' \in results /\ asking' = asking \union {e}
      /\ UNCHANGED <<manager, file, process, apply, watcher, streak, wake, up, flying, coming>>
  BY DEF EditsAndApplies
<1>2. asking' \subseteq Applier /\ asking' # {}
  BY <1>1 DEF BridgeInv, SupervisorOK, Applier
<1>3. watcher' \in Watchers /\ RestOK'
  BY <1>1 DEF BridgeInv, RestOK
<1> QED
  BY <1>1, <1>2, <1>3, EditGood

LEMMA SignalledEditGood ==
  ASSUME BridgeInv, NEW c, Kept(config, c), c.port = config.port, EditsAndSignals(c)
  PROVE  BridgeInv'
<1>1. /\ config' = c /\ wake' = TRUE
      /\ UNCHANGED <<manager, file, process, asking, apply, watcher, streak, up, flying, coming>>
  BY DEF EditsAndSignals, supervisor
<1>2. watcher' \in Watchers /\ RestOK' /\ asking' \subseteq Applier
  BY <1>1 DEF BridgeInv, RestOK, SupervisorOK
<1> QED
  BY <1>1, <1>2, EditGood DEF Kept

\* The bridge is turned on or off, or its schedule is.
LEMMA SettingsGood ==
  ASSUME NEW c, Good(c), NEW enabled \in BOOLEAN, NEW auto \in BOOLEAN
  PROVE  Good([c EXCEPT !.enabled = enabled, !.auto = auto])
<1> DEFINE d == [c EXCEPT !.enabled = enabled, !.auto = auto]
<1>1. c \in Fields /\ SinglePorts(c)
  BY DEF Good
<1>2. d \in Fields
  BY <1>1 DEF Fields
<1>3. d.port = c.port /\ d.proxy = c.proxy
  BY <1>1 DEF Fields
<1> HIDE DEF d
<1>4. Good(d)
  BY <1>1, <1>2, <1>3, SamePortsGood
<1> QED
  BY <1>4 DEF d

LEMMA ToggledKept ==
  ASSUME NEW c, Good(c), NEW disabled \in SUBSET Account
  PROVE  Kept(c, [c EXCEPT !.disabled = disabled]) /\ [c EXCEPT !.disabled = disabled].port = c.port
<1> DEFINE d == [c EXCEPT !.disabled = disabled]
<1>1. c \in Fields /\ SinglePorts(c)
  BY DEF Good
<1>2. d \in Fields
  BY <1>1 DEF Fields
<1>3. d.port = c.port /\ d.proxy = c.proxy
  BY <1>1 DEF Fields
<1>4. d.enabled = c.enabled
  BY Zenon, <1>1 DEF Fields
<1> HIDE DEF d
<1>5. Kept(c, d) /\ d.port = c.port
  BY <1>1, <1>2, <1>3, <1>4, SamePortsGood DEF Kept
<1> QED
  BY <1>5 DEF d

LEMMA EditsGood ==
  ASSUME BridgeInv, Edits
  PROVE  BridgeInv'
<1>1. Good(config) /\ config \in Fields
  BY DEF BridgeInv, Good
<1>2. ASSUME NEW e \in Editor, NEW a \in Account, NEW n \in Node, BindAccount(e, a, n)
      PROVE  BridgeInv'
  <2>1. \A c \in BoundByHand(config, a, n) : Good(c)
    BY <1>1, BoundByHandKept DEF Kept
  <2> QED
    BY <1>2, <2>1, AppliedEditGood DEF BindAccount
<1>3. ASSUME NEW e \in Editor, NEW a \in Account, UnbindAccount(e, a)
      PROVE  BridgeInv'
  <2>1. \A c \in {UnboundByHand(config, a)} : Good(c)
    BY <1>1, UnboundByHandKept DEF Kept
  <2> QED
    BY <1>3, <2>1, AppliedEditGood DEF UnbindAccount
<1>4. ASSUME NEW e \in Editor, AssignAccounts(e)
      PROVE  BridgeInv'
  <2>1. Candidates(config) \in SUBSET Node
    BY <1>1 DEF Candidates, Fields
  <2>2. \A c \in AssignedAnew(config, Candidates(config)) : Good(c)
    <3> DEFINE nodes == Candidates(config)
    <3>1. nodes \in SUBSET Node
      BY <2>1
    <3> HIDE DEF nodes
    <3>2. \A c \in AssignedAnew(config, nodes) : Good(c)
      BY <1>1, <3>1, AssignedAnewKept DEF Kept
    <3> QED
      BY <3>2 DEF nodes
  <2> QED
    BY <1>4, <2>2, AppliedEditGood DEF AssignAccounts
<1>5. ASSUME NEW e \in Editor, NEW nodes \in SUBSET Node, RefreshSubscription(e, nodes)
      PROVE  BridgeInv'
  <2>1. \A c \in {Refreshed(config, nodes)} : Good(c)
    BY <1>1, RefreshedKept DEF Kept
  <2> QED
    BY <1>5, <2>1, AppliedEditGood DEF RefreshSubscription
<1>6. ASSUME NEW e \in Editor, DeleteSubscription(e)
      PROVE  BridgeInv'
  <2>1. \A c \in {SubscriptionDeleted(config)} : Good(c)
    BY <1>1, SubscriptionDeletedKept DEF Kept
  <2> QED
    BY <1>6, <2>1, AppliedEditGood DEF DeleteSubscription
<1>7. ASSUME NEW e \in Editor, NEW enabled \in BOOLEAN, NEW auto \in BOOLEAN,
             UpdateSettings(e, enabled, auto)
      PROVE  BridgeInv'
  <2> DEFINE c == [config EXCEPT !.enabled = enabled, !.auto = auto]
             results == {IF enabled THEN c ELSE ManagedCleared(c)}
  <2>1. Good(c)
    BY <1>1, SettingsGood
  <2>2. EditsAndApplies(e, results)
    BY <1>7 DEF UpdateSettings
  <2> HIDE DEF c
  <2>3. \A r \in results : Good(r)
    BY <2>1, ManagedClearedKept DEF Kept
  <2> HIDE DEF results
  <2> QED
    BY <2>2, <2>3, AppliedEditGood
<1>8. ASSUME NEW a \in Account, ToggleAccount(a)
      PROVE  BridgeInv'
  <2> DEFINE disabled == IF a \in config.disabled THEN config.disabled \ {a}
                         ELSE config.disabled \union {a}
             c == [config EXCEPT !.disabled = disabled]
  <2>1. disabled \in SUBSET Account
    BY <1>1 DEF Fields
  <2>2. EditsAndSignals(c)
    BY <1>8 DEF ToggleAccount
  <2> HIDE DEF disabled
  <2>3. Kept(config, c) /\ c.port = config.port
    BY <1>1, <2>1, ToggledKept
  <2> HIDE DEF c
  <2> QED
    BY <2>2, <2>3, SignalledEditGood
<1>9. ASSUME NEW a \in Account, ReturnToAuto(a)
      PROVE  BridgeInv'
  BY <1>1, <1>9, ReturnedToAutoKept, SignalledEditGood DEF ReturnToAuto
<1> QED
  BY <1>2, <1>3, <1>4, <1>5, <1>6, <1>7, <1>8, <1>9 DEF Edits

LEMMA ProcessGood ==
  ASSUME BridgeInv, ProcessExits \/ ExitIsNoticed
  PROVE  BridgeInv'
<1>1. /\ UNCHANGED <<config, file, asking, apply, watcher, streak, wake, up, flying, coming>>
      /\ process' \in {"none", "exited"} /\ (process = "none" => process' = "none")
      /\ \/ UNCHANGED manager
         \/ manager' = [manager EXCEPT !.running = FALSE, !.failed = TRUE]
  BY DEF ProcessExits, ExitIsNoticed
<1>2. manager \in Managers
  BY DEF BridgeInv, SupervisorOK
<1>3. manager' \in Managers
  BY <1>1, <1>2 DEF Managers
<1>4. ~manager'.failed => ~manager.failed
  BY Zenon, <1>1, <1>2 DEF Managers
<1>5. Good(config') /\ SupervisorOK' /\ watcher' \in Watchers /\ RestOK'
  BY <1>1, <1>3 DEF BridgeInv, SupervisorOK, RestOK
<1>6. Newest' /\ Staged'
  BY <1>1 DEF BridgeInv, Newest, Staged
<1>7. Serves'
  BY <1>1, <1>4 DEF BridgeInv, Serves, Settled
<1> QED
  BY <1>5, <1>6, <1>7 DEF BridgeInv

LEMMA RequestsFailGood ==
  ASSUME BridgeInv, NEW a \in Account, RequestsFail(a)
  PROVE  BridgeInv'
<1> DEFINE n == config.bound[a]
           status == [config.status EXCEPT ![n] = "fail"]
<1>1. Good(config) /\ config \in Fields
  BY DEF BridgeInv, Good
<1>2. /\ n \in Node /\ config' = [config EXCEPT !.status[n] = "fail"]
      /\ streak' = [streak EXCEPT ![n] = FailThreshold]
      /\ wake' = TRUE /\ UNCHANGED <<manager, file, process, asking, apply, watcher, up, flying, coming>>
  BY <1>1 DEF RequestsFail, supervisor, Fields
<1> HIDE DEF n
<1>3. status \in [Node -> {"unknown", "ok", "fail"}]
  BY <1>1, <1>2 DEF Fields
<1>4. config' = [config EXCEPT !.status = status]
  BY <1>1, <1>2 DEF Fields
<1> HIDE DEF status
<1>5. Kept(config, config') /\ config'.port = config.port
  BY <1>1, <1>3, <1>4, StatusKept
<1>6. RestOK'
  <2>1. FailThreshold \in 0..FailThreshold
    BY MihomoAssumption
  <2> QED
    BY <1>2, <2>1 DEF BridgeInv, RestOK
<1>7. watcher' \in Watchers /\ asking' \subseteq Applier
  BY <1>2 DEF BridgeInv, SupervisorOK
<1> QED
  BY <1>2, <1>5, <1>6, <1>7, EditGood DEF Kept

LEMMA CooldownEndsGood ==
  ASSUME BridgeInv, NEW a \in Account, CooldownEnds(a)
  PROVE  BridgeInv'
<1> DEFINE cooling == config.cooling \ {a}
<1>1. Good(config) /\ cooling \in SUBSET Account
  BY DEF BridgeInv, Good, Fields
<1>2. /\ config' = [config EXCEPT !.cooling = cooling]
      /\ UNCHANGED <<manager, file, process, asking, apply, watcher, streak, wake, up, flying, coming>>
  BY DEF CooldownEnds, supervisor
<1> HIDE DEF cooling
<1>3. Kept(config, config') /\ config'.port = config.port
  BY <1>1, <1>2, CoolingKept
<1>4. watcher' \in Watchers /\ RestOK' /\ asking' \subseteq Applier
  BY <1>2 DEF BridgeInv, RestOK, SupervisorOK
<1> QED
  BY <1>2, <1>3, <1>4, EditGood DEF Kept

LEMMA WorldGood ==
  ASSUME BridgeInv, World
  PROVE  BridgeInv'
<1>1. CASE ProcessExits \/ ExitIsNoticed
  BY <1>1, ProcessGood
<1>2. CASE ApplyCannotPrepare \/ ApplyCannotStart
  BY <1>2, FailureOver DEF ApplyCannotPrepare, ApplyCannotStart, Idle
<1>3. CASE \E a \in Account : RequestsFail(a)
  BY <1>3, RequestsFailGood
<1>4. CASE \E a \in Account : CooldownEnds(a)
  BY <1>4, CooldownEndsGood
<1>5. CASE \/ \E a \in Account : RequestStarts(a) \/ RequestEnds(a)
           \/ \E n \in Node : LinkBreaks(n) \/ LinkMends(n)
  <2>1. UNCHANGED <<config, manager, file, process, asking, apply, watcher, streak, wake>>
    BY <1>5 DEF RequestStarts, RequestEnds, LinkBreaks, LinkMends, supervisor
  <2>2. up' \subseteq Node /\ flying' \subseteq Account /\ coming' \subseteq Busy
    BY <1>5 DEF RequestStarts, RequestEnds, LinkBreaks, LinkMends, BridgeInv, RestOK
  <2>3. watcher' \in Watchers /\ RestOK'
    BY <2>1, <2>2 DEF BridgeInv, RestOK
  <2> QED
    BY <2>1, <2>3, AsideGood
<1> QED
  BY <1>1, <1>2, <1>3, <1>4, <1>5 DEF World

-----------------------------------------------------------------------------
(* The invariant                                                             *)

LEMMA BridgeInit ==
  ASSUME Init
  PROVE  BridgeInv
<1>1. Good(config)
  BY MihomoAssumption DEF Init, Good
<1>2. asking \subseteq Applier
  BY DEF Init, Applier
<1>3. SupervisorOK
  BY <1>2, ForgottenGood DEF Init, SupervisorOK, Managers, Applies, Applier, Stages, Good
<1>4. watcher \in Watchers
  BY ForgottenGood DEF Init, Resting, Watchers, Good
<1>5. RestOK
  <2>1. 0 \in 0..FailThreshold
    BY MihomoAssumption
  <2> QED
    BY <2>1, MihomoAssumption DEF Init, RestOK
<1>6. Newest /\ Staged /\ Serves
  BY DEF Init, Newest, Staged, Serves, Settled
<1> QED
  BY <1>1, <1>3, <1>4, <1>5, <1>6 DEF BridgeInv

LEMMA BridgeStep ==
  ASSUME BridgeInv, [Next]_vars
  PROVE  BridgeInv'
<1>1. CASE UNCHANGED vars
  BY <1>1 DEF vars, BridgeInv, SupervisorOK, RestOK, Newest, Staged, Serves, Settled, Served
<1>2. CASE ApplySteps
  BY <1>2, ApplyGood
<1>3. CASE WatcherSteps
  BY <1>3, WatcherGood
<1>4. CASE Edits
  BY <1>4, EditsGood
<1>5. CASE World
  BY <1>5, WorldGood
<1> QED
  BY <1>1, <1>2, <1>3, <1>4, <1>5 DEF Next

LEMMA BridgeInvariant == Spec => []BridgeInv
<1>1. Init => BridgeInv
  BY BridgeInit
<1>2. BridgeInv /\ [Next]_vars => BridgeInv'
  BY BridgeStep
<1> QED
  BY <1>1, <1>2, PTL DEF Spec

\* The types of the bridge's variables; no edit, by hand or of the watcher on what it saw
\* before, ever gives two nodes one port (AllocateMihomoPort).
THEOREM BridgeTypesAreRight == Spec => []MihomoTypeOK
<1>1. BridgeInv => MihomoTypeOK
  BY DEF BridgeInv, MihomoTypeOK, Good, SupervisorOK, RestOK, Managers, Applies, Watchers
<1> QED
  BY <1>1, BridgeInvariant, PTL

\* However edits, restarts, failures and exits overlap, once the last Apply that was asked
\* for has succeeded every port leads to the node it belongs to, and a bridge that is
\* turned off has no child (Apply, doApply).
THEOREM BridgeFollows == Spec => []BridgeFollowsConfig
<1>1. BridgeInv => BridgeFollowsConfig
  BY DEF BridgeInv, Serves, Served, BridgeFollowsConfig
<1> QED
  BY <1>1, BridgeInvariant, PTL
=============================================================================
