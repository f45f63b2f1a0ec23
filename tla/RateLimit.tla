------------------------------ MODULE RateLimit ------------------------------
(***************************************************************************)
(* The per-account, per-minute request limiter of the account pool         *)
(* (internal/account/pool_rate_limit.go).  The operators below are the     *)
(* bodies of its *Locked methods: every one of them runs under Pool.mu and *)
(* is a part of a larger pool operation, so AccountPool conjoins them to   *)
(* its own actions.  The only step of its own is the timer callback.       *)
(*                                                                         *)
(* Time is abstract.  windowStart and time.Now() only meet in the question *)
(* "has the window elapsed", so an entry's window is one of                *)
(*   "absent"  no entry in p.rateLimits,                                   *)
(*   "zero"    an entry whose windowStart is the zero time,                *)
(*   "open"    started, less than a window ago,                            *)
(*   "over"    started at least a window ago.                              *)
(***************************************************************************)
EXTENDS Accounts

VARIABLES
  rateMax,     \* runtime.account_rate_limit: max per minute, 0 when disabled
  rate,        \* p.rateLimits
  callbacks    \* per account, callbacks of fired timers that wait for Pool.mu

rateVars == <<rate, callbacks>>

Windows == {"absent", "zero", "open", "over"}

Entries == [window : Windows, count : Nat, unavailable : BOOLEAN, timer : BOOLEAN]

RateTypeOK ==
  /\ rateMax \in Nat
  /\ rate \in [Account -> Entries]
  /\ callbacks \in [Account -> Nat]

NoEntry == [window |-> "absent", count |-> 0, unavailable |-> FALSE, timer |-> FALSE]

\* An entry after a reset: it stays in the map with the zero time.
ClearedEntry == [NoEntry EXCEPT !.window = "zero"]

RateInit ==
  /\ rate = [a \in Account |-> NoEntry]
  /\ callbacks = [a \in Account |-> 0]

-----------------------------------------------------------------------------
\* isRateLimitedLocked: what it returns, and the reset it does on the way when
\* the window has elapsed (timer.Stop, no waiter is woken).
RateLimited(a) ==
  /\ rateMax > 0
  /\ rate[a].window # "over"
  /\ rate[a].unavailable

RateChecked(a) ==
  IF rateMax > 0 /\ rate[a].window = "over" THEN ClearedEntry ELSE rate[a]

BugTimerNotRearmed(e) ==
  LET fresh == e.window # "open"
      n == IF fresh THEN 1 ELSE e.count + 1
  IN [window |-> "open", count |-> n, timer |-> e.timer,
      unavailable |-> (~fresh /\ e.unavailable) \/ n >= rateMax]

\* recordAccountRateRequestLocked on entry e: open a window and arm its timer,
\* or count within the window; the limit-th request makes it unavailable.
Recorded(e) ==
  LET fresh == e.window # "open"
      n == IF fresh THEN 1 ELSE e.count + 1
  IN [window |-> "open", count |-> n, timer |-> IF fresh THEN TRUE ELSE e.timer,
      unavailable |-> (~fresh /\ e.unavailable) \/ n >= rateMax]

\* The limiter's part of a scan that looked at the accounts of S and granted none.
CheckRates(S) ==
  rate' = [a \in Account |-> IF a \in S THEN RateChecked(a) ELSE rate[a]]

\* The limiter's part of a scan of S that granted the account g.
RecordRate(S, g) ==
  rate' = [a \in Account |->
             IF a = g /\ rateMax > 0 THEN Recorded(RateChecked(a))
             ELSE IF a \in S THEN RateChecked(a) ELSE rate[a]]

ClearRateLimits == rate' = [a \in Account |-> NoEntry]

\* SyncRateLimits under the new maximum max: what it does to the entries, and
\* whether it drains the waiters.
SyncedEntry(e, max) ==
  IF e.window = "absent" THEN e
  ELSE IF max = 0 THEN ClearedEntry
  ELSE [e EXCEPT !.unavailable = @ /\ e.count >= max]

SyncRates ==
  rate' = [a \in Account |-> SyncedEntry(rate[a], rateMax)]

SyncRatesRecovers ==
  \E a \in Account : rate[a].unavailable /\ ~SyncedEntry(rate[a], rateMax).unavailable

-----------------------------------------------------------------------------
\* The window of a's entry elapses.
WindowElapses(a) ==
  /\ rate[a].window = "open"
  /\ rate' = [rate EXCEPT ![a].window = "over"]
  /\ UNCHANGED <<rateMax, callbacks>>

\* The runtime fires the timer that time.AfterFunc armed: its callback is now a
\* goroutine that no Stop reaches any more.
TimerFires(a) ==
  /\ rate[a].window = "over" /\ rate[a].timer
  /\ rate' = [rate EXCEPT ![a].timer = FALSE]
  /\ callbacks' = [callbacks EXCEPT ![a] = @ + 1]
  /\ UNCHANGED rateMax

\* resetAccountRateLimit, the callback, once it holds Pool.mu.  It resets
\* whatever entry it finds; the pool then drains its waiters (RateResetDrains).
ResetRate(a) ==
  /\ callbacks[a] > 0
  /\ callbacks' = [callbacks EXCEPT ![a] = @ - 1]
  /\ rate' = [rate EXCEPT ![a] = IF @.window = "absent" THEN @ ELSE ClearedEntry]
  /\ UNCHANGED rateMax

RateResetDrains(a) == rate[a].window # "absent"

=============================================================================
