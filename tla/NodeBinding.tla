----------------------------- MODULE NodeBinding -----------------------------
(* The part of the configuration that binds accounts to the exit nodes of the   *)
(* Mihomo bridge, and the edits that Store.Update runs on it                    *)
(* (internal/mihomo/binding.go, autoassign.go, configgen.go).  A node has a     *)
(* local port (PortMap) and a managed proxy 127.0.0.1:port; an account is bound *)
(* to a node when its ProxyID names the managed proxy of that node.  The node   *)
(* names, links and latencies are left out; one subscription offers the nodes.   *)
EXTENDS Accounts, Naturals, FiniteSets

CONSTANTS
  None,          \* no node
  Node           \* nodes a subscription may offer

ASSUME BindingAssumption == IsFiniteSet(Node) /\ None \notin Node

Port == 1..Cardinality(Node)

\* No two nodes share a port, and a node with a port has a managed proxy of that port.
SinglePorts(c) ==
  /\ \A m, n \in Node : c.port[m] # 0 /\ c.port[m] = c.port[n] => m = n
  /\ \A n \in Node : c.port[n] # 0 => c.proxy[n] = c.port[n]

Fields ==
  [enabled : BOOLEAN, auto : BOOLEAN, nodes : SUBSET Node,
   status : [Node -> {"unknown", "ok", "fail"}],
   port : [Node -> Port \union {0}], proxy : [Node -> Port \union {0}],
   bound : [Account -> Node \union {None}],
   disabled : SUBSET Account, manual : SUBSET Account,
   noProxy : SUBSET Account, cooling : SUBSET Account]

BoundTo(c, n) == {a \in Account : c.bound[a] = n}

\* Ports for these nodes: a node keeps the one it has, the others take the lowest free
\* ones in some order, one each (AllocateMihomoPort).
LowestFree(c, k) ==
  LET free == {p \in Port : \A n \in Node : c.port[n] # p} IN
    {p \in free : Cardinality({q \in free : q < p}) < k}

Ports(c, nodes) ==
  LET new == {n \in nodes : c.port[n] = 0} IN
    {p \in [Node -> Port \union {0}] :
       /\ \A n \in Node \ new : p[n] = c.port[n]
       /\ {p[n] : n \in new} = LowestFree(c, Cardinality(new))
       /\ \A m, n \in new : p[m] = p[n] => m = n}

\* Each of these accounts gets its node: the node a port and a managed proxy with that
\* port, the account this proxy.
Assigned(c, to) ==
  LET nodes == {to[a] : a \in DOMAIN to} IN
    {[c EXCEPT !.port = p,
               !.proxy = [n \in Node |-> IF n \in nodes THEN p[n] ELSE @[n]],
               !.bound = [a \in Account |-> IF a \in DOMAIN to THEN to[a] ELSE @[a]]]
       : p \in Ports(c, nodes)}

\* Ways to place accounts on nodes one after the other, each on a node that then has the
\* fewest (pickLeastLoaded, and the turns of AssignAccounts).
Spreads(accounts, nodes, load) ==
  LET Total(to, n) == load[n] + Cardinality({a \in accounts : to[a] = n}) IN
    {to \in [accounts -> nodes] :
       \A a \in accounts, m \in nodes : Total(to, to[a]) <= Total(to, m) + 1}

\* What no account refers to is collected: first the ports of nodes the subscription no
\* longer offers, then the managed proxies no account names, then the bindings to a
\* proxy that is gone, then the ports without a proxy.
Collected(c) ==
  LET kept == [n \in Node |-> IF BoundTo(c, n) = {} THEN 0 ELSE c.proxy[n]]
      lost == {a \in Account : \E n \in Node : c.bound[a] = n /\ kept[n] = 0}
  IN [c EXCEPT
        !.proxy = kept,
        !.bound = [a \in Account |-> IF a \in lost THEN None ELSE @[a]],
        !.manual = @ \ lost,
        !.port = [n \in Node |-> IF n \in c.nodes /\ kept[n] # 0 THEN @[n] ELSE 0]]

ClearedOf(c, accounts) ==
  [c EXCEPT !.bound = [a \in Account |-> IF a \in accounts THEN None ELSE @[a]]]

\* Turning the bridge off ends every binding to a node, by hand or not.
ManagedCleared(c) ==
  LET bound == {a \in Account : c.bound[a] # None} IN
    Collected([ClearedOf(c, bound) EXCEPT !.manual = @ \ bound, !.cooling = @ \ bound])

BoundByHand(c, a, n) ==
  {Collected([d EXCEPT
     !.cooling = @ \ {a}, !.noProxy = @ \ {a}, !.manual = @ \union {a}])
     : d \in Assigned(c, [x \in {a} |-> n])}

UnboundByHand(c, a) ==
  Collected([ClearedOf(c, {a}) EXCEPT
    !.cooling = @ \ {a}, !.noProxy = @ \union {a}, !.manual = @ \ {a}])

\* The account goes back to automatic scheduling; nothing is collected here.
ReturnedToAuto(c, a) ==
  [ClearedOf(c, {a}) EXCEPT !.noProxy = @ \ {a}, !.manual = @ \ {a}]

\* A refresh replaces the nodes, and what was measured of them with it.
Refreshed(c, nodes) ==
  Collected([c EXCEPT !.nodes = nodes,
                      !.status = [n \in Node |-> "unknown"]])

\* The nodes of a deleted subscription leave, with the bindings of those that had a port.
SubscriptionDeleted(c) ==
  LET dead == {a \in Account : \E n \in c.nodes : c.bound[a] = n /\ c.port[n] # 0} IN
    Collected([ClearedOf(c, dead) EXCEPT
      !.nodes = {}, !.manual = @ \ dead, !.status = [n \in Node |-> "unknown"]])

-----------------------------------------------------------------------------
(* The automatic schedule                                                     *)

\* Enabled accounts bound to a node that has a port (nodeBoundCounts).
Load(c) ==
  [n \in Node |-> IF c.port[n] = 0 THEN 0 ELSE Cardinality(BoundTo(c, n) \ c.disabled)]

Candidates(c) == {n \in c.nodes : c.status[n] # "fail"}

\* What a look at the configuration decides: accounts to free, to move off a dead node,
\* and to give a first node.  Bindings made by hand are left alone.
Unbinds(c) == {a \in (Account \ c.manual) \intersect c.disabled : c.bound[a] # None}

Rebinds(c, dead) ==
  {a \in Account \ (c.manual \union c.disabled \union c.cooling) :
     /\ Candidates(c) # {}
     /\ \E n \in dead : c.port[n] # 0 /\ c.bound[a] = n}

Backfills(c) ==
  {a \in Account \ (c.manual \union c.disabled \union c.noProxy) :
     Candidates(c) # {} /\ c.bound[a] = None}

\* The edit of a reconcile that looked at `seen`: accounts disabled since are not given a
\* node; the others are moved as decided, whatever else happened to them since.
Placed(c, seen, dead) == (Rebinds(seen, dead) \union Backfills(seen)) \ c.disabled

Reconciled(c, seen, dead, to) ==
  {Collected([d EXCEPT !.cooling = @ \union (Rebinds(seen, dead) \ c.disabled)])
     : d \in Assigned(ClearedOf(c, Unbinds(seen)), to)}

\* Assign all accounts anew to these nodes, except what was bound by hand.
Takers(c) == Account \ (c.disabled \union c.noProxy \union c.manual)

AssignedAnew(c, nodes) ==
  LET freed == Collected(ClearedOf(c, Account \ c.manual)) IN
    {Collected([d EXCEPT !.cooling = @ \ Takers(c)]) : d \in
       UNION {Assigned(freed, to)
                : to \in Spreads(Takers(c), nodes, [n \in Node |-> 0])}}

-----------------------------------------------------------------------------
(* What the runtime configuration of the bridge holds                         *)

\* The nodes some enabled account is bound to, that are still offered (collectActiveBindings).
Active(c) ==
  {n \in c.nodes : c.port[n] # 0 /\ c.proxy[n] # 0 /\ BoundTo(c, n) \ c.disabled # {}}

\* One listener per active node, and the nodes traffic may leave by (BuildRuntimeYAML).
Runtime(c) ==
  [listeners |-> {<<c.port[n], n>> : n \in Active(c)}, nodes |-> c.nodes]

PortsOf(runtime) == {l[1] : l \in runtime.listeners}
=============================================================================
