---------------------------- MODULE DurableValue ----------------------------
(***************************************************************************)
(* What a store with a file promises: the program sees a value; the file   *)
(* holds a value that the program saw, unless a write was cut short and    *)
(* damaged it; and a restart finds what the file holds.                    *)
(***************************************************************************)
CONSTANT Damaged

VARIABLES
  up,        \* the program runs
  value,     \* what it sees
  stable     \* what a restart would find

fileVars == <<up, value, stable>>

Init == value = stable

\* The program works: the value may change, and may be written, before or after.
Work == up /\ up' /\ stable' \in {stable, value, value', Damaged}

Stop == up /\ ~up' /\ stable' \in {stable, value, value', Damaged}

Start == ~up /\ up' /\ UNCHANGED stable /\ (stable # Damaged => value' = stable)

Next == Work \/ Stop \/ Start

Spec == Init /\ [][Next]_fileVars
=============================================================================
