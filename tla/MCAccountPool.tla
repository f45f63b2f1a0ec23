---------------------------- MODULE MCAccountPool ----------------------------
\* Values of AccountPool's constants for TLC.
EXTENDS AccountPool, TLC

CONSTANTS a1, a2, r1, r2, r3, r4

TwoAccounts == {a1, a2}
ConfigOrder == [a \in Account |-> IF a = a1 THEN 1 ELSE 2]
NoTokens == {{}}
TokenOfA2 == {{a2}}
OnlyA1 == {a1}
OnlyA2 == {a2}

\* Every request takes any account.
AnyAccount ==
  [r \in Request |-> [target |-> None, exclude |-> {}, filter |-> Account]]

\* Two requests that may only use a1, the first pinned to it and the second with a2
\* tried before, one that may only use a2, and a newcomer that takes either.
MixedWants ==
  [r \in Request |->
     [target |-> IF r = r1 THEN a1 ELSE None,
      exclude |-> CASE r = r2 -> {a2} [] r = r3 -> {a1} [] OTHER -> {},
      filter |-> Account]]

Setting(maxPer, maxQueue, global, rateLimit, dailyLimit) ==
  [maxPer |-> maxPer, maxQueue |-> maxQueue, global |-> global,
   rateMax |-> rateLimit, dailyMax |-> dailyLimit]

TwoSlotsTwoADay == {Setting(2, 0, 0, 0, 2)}

\* Two slots each, or a single one in all, once a minute, with a queue for everybody.
ManyLimits == {Setting(2, 0, 0, 0, 0), Setting(1, 3, 1, 1, 0)}

RequestSymmetry == Permutations(Request)
=============================================================================
