---------------------------- MODULE ElasticPool ----------------------------
(***************************************************************************)
(* The elastic pool (internal/account/elastic.go): which accounts of the   *)
(* configuration are enabled and which sleep.  These are the operators     *)
(* that ConfigStore's updates apply; of its own the module has the clock.  *)
(*                                                                         *)
(* A configuration c is a record: present, banned, authFailed and disabled *)
(* are sets of accounts, mutedUntil and priority give each account a       *)
(* number, and elastic holds the settings, with a count per pool type.     *)
(***************************************************************************)
EXTENDS Accounts, FiniteSets

CONSTANTS
  PoolType,    \* an account's pool type
  Position     \* an account's index in config.Accounts

ASSUME ElasticAssumption ==
  /\ IsFiniteSet(Account)
  /\ Position \in [Account -> Nat]
  /\ \A a, b \in Account : Position[a] = Position[b] => a = b

Elastic == [enabled : BOOLEAN, count : [{PoolType[a] : a \in Account} -> Nat]]

VARIABLE now

IsMuted(c, a) == c.mutedUntil[a] > now

Hard(c, a) == IsMuted(c, a) \/ a \in c.banned \/ a \in c.authFailed

Group(c, type) == {a \in c.present : PoolType[a] = type}

\* The stable sort by priority.
Before(c, a, b) ==
  \/ c.priority[a] > c.priority[b]
  \/ c.priority[a] = c.priority[b] /\ Position[a] < Position[b]

InFront(c, a) == {b \in Group(c, PoolType[a]) : Before(c, b, a)}

BugBusyIgnored(c, a, enabled, busy) ==
  ~Hard(c, a) /\ enabled < c.elastic.count[PoolType[a]]

BugMutedTakeAPlace(c, a, enabled, busy) ==
  a \in busy \/ enabled < c.elastic.count[PoolType[a]]

\* applyElasticState: whether the account is enabled, when so many were before it.
ApplyElasticState(c, a, enabled, busy) ==
  ~Hard(c, a) /\ (a \in busy \/ enabled < c.elastic.count[PoolType[a]])

\* reconcileGroupFiltered: how many of the first n accounts of a group are enabled.
EnabledAmong(c, type, busy) ==
  LET Nth(n) == CHOOSE a \in Group(c, type) : Cardinality(InFront(c, a)) = n - 1
      among[n \in 0 .. Cardinality(Group(c, type))] ==
        IF n = 0 THEN 0
        ELSE among[n - 1] +
               IF ApplyElasticState(c, Nth(n), among[n - 1], busy) THEN 1 ELSE 0
  IN among

\* ReconcileElasticPoolWithBusy, without the bindings of device ids.
ReconcileElasticPool(c, busy) ==
  LET EnabledBefore(a) == EnabledAmong(c, PoolType[a], busy)[Cardinality(InFront(c, a))]
      asleep == {a \in c.present : ~ApplyElasticState(c, a, EnabledBefore(a), busy)}
  IN IF c.elastic.enabled THEN [c EXCEPT !.disabled = asleep] ELSE c

\* DisableAllAccounts, which enables them.
EnableAllAccounts(c) == [c EXCEPT !.disabled = {}]

-----------------------------------------------------------------------------
\* What the comment at elastic.go:14 promises: of each group the first so many accounts
\* by priority that are in no hard state, and those that are busy.
Promised(c, busy) ==
  {a \in c.present :
     /\ ~Hard(c, a)
     /\ \/ a \in busy
        \/ Cardinality({b \in InFront(c, a) : ~Hard(c, b)}) < c.elastic.count[PoolType[a]]}

Enabled(c) == c.present \ c.disabled
=============================================================================
