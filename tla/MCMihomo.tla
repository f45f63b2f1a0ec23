------------------------------ MODULE MCMihomo ------------------------------
\* Values of Mihomo's constants for TLC.
EXTENDS Mihomo

CONSTANTS a1, a2, n1, n2

TwoAccounts == {a1, a2}
TwoNodes == {n1, n2}

Unbound ==
  [enabled |-> TRUE, auto |-> TRUE, nodes |-> Node, status |-> [n \in Node |-> "ok"],
   port |-> [n \in Node |-> 0], proxy |-> [n \in Node |-> 0],
   bound |-> [a \in Account |-> None],
   disabled |-> {}, manual |-> {}, noProxy |-> {}, cooling |-> {}]

\* The user of a1 chose n1; a1 is awake, or sleeps.
ByHand ==
  UNION {{[c EXCEPT !.disabled = off] : off \in {{}, {a1}}} : c \in BoundByHand(Unbound, a1, n1)}
=============================================================================
