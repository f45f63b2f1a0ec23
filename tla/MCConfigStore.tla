---------------------------- MODULE MCConfigStore ----------------------------
\* Values of ConfigStore's constants for TLC.
EXTENDS ConfigStore, TLC

CONSTANTS a1, a2, a3, s1, s2, w1, w2

TwoWriters == {w1, w2}

\* The writers run the same code and no property names one.
SameWriters == Permutations(TwoWriters)

ThreeAccounts == {a1, a2, a3}
ConfigOrder == [a \in Account |-> IF a = a1 THEN 1 ELSE IF a = a2 THEN 2 ELSE 3]
OneType == [a \in Account |-> "default"]

Off == [enabled |-> FALSE, count |-> [t \in {"default"} |-> 0]]
Count(n) == [enabled |-> TRUE, count |-> [t \in {"default"} |-> n]]

NoConfig ==
  [present |-> {}, banned |-> {}, authFailed |-> {}, disabled |-> {},
   mutedUntil |-> [a \in Account |-> 0], priority |-> [a \in Account |-> 0],
   elastic |-> Off, mihomo |-> None]
TwoOfThree ==
  [NoConfig EXCEPT !.present = Account, !.disabled = {a3}, !.elastic = Count(2)]

\* An empty file, a plain one, and one of an older version.
Configs == {None, TwoOfThree, [TwoOfThree EXCEPT !.mihomo = s1]}

On(op, a) == [op |-> op, account |-> a]

Few ==
  {On("mute", a1), On("ban", a2), On("authFailed", a1), On("unban", a2), On("loggedIn", a1),
   On("disable", a2), On("delete", a1), On("add", a1), On("token", a2),
   [op |-> "edit", account |-> a3, priority |-> 1],
   [op |-> "elastic", elastic |-> Count(1)], [op |-> "elastic", elastic |-> Off],
   [op |-> "nodes", mihomo |-> s2], [op |-> "nodes", mihomo |-> None]}
=============================================================================
