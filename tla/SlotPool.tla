------------------------------ MODULE SlotPool ------------------------------
(***************************************************************************)
(* What the account pool promises its callers, without queues, limits that *)
(* change, timers or administrators: a request holds at most one slot, an  *)
(* account is only granted while its count is below a limit, and a slot is *)
(* given back once.  AccountPool and RequestAuth both implement it, from   *)
(* the pool's side and from the callers' side.                             *)
(***************************************************************************)
EXTENDS Accounts

CONSTANTS
  Request, None,
  Caps         \* the per-account limits that may be in force

VARIABLES
  inUse, held,
  removable    \* not the pool's: the accounts that may be taken out of it now

slotVars == <<inUse, held>>

Init ==
  /\ inUse = [a \in Account |-> 0]
  /\ held = [r \in Request |-> None]

Take(r, a) ==
  /\ held[r] = None
  /\ \E cap \in Caps : inUse[a] < cap
  /\ held' = [held EXCEPT ![r] = a]
  /\ inUse' = [inUse EXCEPT ![a] = @ + 1]

\* The count of an account that was taken out while requests held it may already
\* be zero.
Give(r, a) ==
  /\ held[r] = a
  /\ held' = [held EXCEPT ![r] = None]
  /\ inUse' = [inUse EXCEPT ![a] = IF @ = 0 THEN 0 ELSE @ - 1]

\* The accounts of A are taken out, and their counts forgotten.
Forget(A) ==
  /\ inUse' = [a \in Account |-> IF a \in A THEN 0 ELSE inUse[a]]
  /\ UNCHANGED held

Next ==
  \/ \E r \in Request, a \in Account : Take(r, a) \/ Give(r, a)
  \/ \E A \in SUBSET removable : Forget(A)

Spec == Init /\ [][Next]_slotVars
=============================================================================
