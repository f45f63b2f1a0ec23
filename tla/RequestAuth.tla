----------------------------- MODULE RequestAuth -----------------------------
(***************************************************************************)
(* The callers of the account pool: a request that is served with managed  *)
(* accounts (internal/auth) and starts a completion upstream               *)
(* (completionruntime.StartCompletion over deepseek/client).  It takes a   *)
(* slot, logs in if it must, calls upstream, and when a call fails logs in *)
(* again or moves to another account; failures of authentication are       *)
(* counted per account, over all requests, and retire it.                  *)
(*                                                                         *)
(* Steps end where the code waits: for a slot, for a login, for upstream,  *)
(* or for another lock.  Store.Update and the Pool.Reset after it are one  *)
(* step here (AccountPool takes them apart); the elastic pool is off.      *)
(* What a call upstream or a login returns is a choice.  The request of a  *)
(* caller that brings its own token uses no account and is left out.       *)
(***************************************************************************)
EXTENDS Accounts, FiniteSets

CONSTANTS
  Request,     \* the goroutines that serve requests, one after the other
  None,
  Targets,     \* what requests are pinned to (X-Ds2-Target-Account); None: to nothing
  MaxSlots,    \* runtime.account_max_inflight
  MaxAttempts, \* the calls that CreateSession and GetPow may make
  Rejectable,  \* accounts whose login, or a token fresh from it, upstream may reject
  Expirable,   \* accounts whose stored token may have expired
  Restable     \* accounts that upstream may challenge or mute

ASSUME AuthAssumption ==
  /\ None \notin Account \union Request
  /\ Targets \subseteq Account \union {None}
  /\ MaxSlots \in Nat \ {0} /\ MaxAttempts \in Nat \ {0}
  /\ Rejectable \subseteq Account /\ Expirable \subseteq Account /\ Restable \subseteq Account

VARIABLES
  inUse,      \* Pool.inUse
  held,       \* the slot a request really has
  store,      \* what the configuration says of an account
  failures,   \* Resolver.authFailures
  req,        \* the RequestAuth, and how far its request has come
  row         \* ghost: whose failures of an account follow each other; None stands for
              \* the requests that have ended

vars == <<inUse, held, store, failures, req, row>>

-----------------------------------------------------------------------------
Threshold == 2      \* authFailureThreshold

StoreStates == {"ok", "resting", "authFailed", "banned"}

Phases == {"idle", "seeking", "waiting", "ensuring", "calling", "recovering", "banned",
           "retiring", "switching", "replacing", "generating", "ending"}

\* Who waits for the account: Determine, the retry loop of CreateSession or
\* GetPow, CreateSession after a captcha, or the retry loop of StartCompletion.
Callers == {"determine", "loop", "captcha", "start"}

AuthState ==
  [phase : Phases, caller : Callers,
   next : Phases,                              \* after "retiring" or "banned"
   stage : {"session", "pow", "completion"},   \* the call upstream
   target : Account \union {None},             \* TargetAccount
   account : Account \union {None},            \* AccountID
   token : Account \union {None},              \* whose token DeepSeekToken is
   expired : BOOLEAN,                          \* and that it has expired
   session : Account \union {None},            \* whose token created the session
   tried : SUBSET Account, released : SUBSET Account,
   used : SUBSET Account,                      \* authUsedAccounts
   failed : SUBSET Account,                    \* authFailedAccounts, with those
                                               \* that Determine met and dropped
   refresh : [Account -> {"no", "succeeded", "failed"}],
   attempts : 0 .. MaxAttempts,
   unauthorized : BOOLEAN]                     \* lastFailureKind

NewRequest ==
  [phase |-> "idle", caller |-> "determine", next |-> "idle", stage |-> "session",
   target |-> None, account |-> None, token |-> None, expired |-> FALSE,
   session |-> None,
   tried |-> {}, released |-> {}, used |-> {}, failed |-> {},
   refresh |-> [a \in Account |-> "no"],
   attempts |-> 0, unauthorized |-> FALSE]

Init ==
  /\ inUse = [a \in Account |-> 0]
  /\ held = [r \in Request |-> None]
  /\ store = [a \in Account |-> "ok"]
  /\ failures = [a \in Account |-> 0]
  /\ req = [r \in Request |-> NewRequest]
  /\ row = [a \in Account |-> {}]

-----------------------------------------------------------------------------
(* The pool and the store, as the requests see them                          *)

InQueue == {a \in Account : store[a] \in {"ok", "resting"}}

Acquirable(r) ==
  {a \in Account : /\ req[r].target \in {None, a}
                   /\ a \notin req[r].tried
                   /\ store[a] = "ok"
                   /\ inUse[a] < MaxSlots}

Acquire(r, a) ==
  /\ inUse' = [inUse EXCEPT ![a] = @ + 1]
  /\ held' = [held EXCEPT ![r] = a]

\* Pool.Release
PoolRelease(r, a) ==
  /\ inUse' = [inUse EXCEPT ![a] = IF @ = 0 THEN 0 ELSE @ - 1]
  /\ held' = [held EXCEPT ![r] = IF @ = a THEN None ELSE @]

BugReleaseTwice(r) == PoolRelease(r, req[r].account)

\* releaseAccountSlot: each account once per request.
ReleaseAccountSlot(r) ==
  IF req[r].account \in req[r].released THEN UNCHANGED <<inUse, held>>
  ELSE PoolRelease(r, req[r].account)

\* Reset after the store has taken a out of the queue.
Forget(a) == inUse' = [inUse EXCEPT ![a] = 0]

\* SetAccountMutedUntil, persistMutedUntil and persistCooldownUntil
Rest(a) == store' = [store EXCEPT ![a] = IF @ = "ok" THEN "resting" ELSE @]

\* A login that succeeds (loginWithDeviceID, NoteLoginSuccess): the failures are
\* forgotten, an account that was out for one of the given reasons comes back, and it
\* may turn out to be muted.
LoginLifts(a, reasons) ==
  /\ failures' = [failures EXCEPT ![a] = 0] /\ row' = [row EXCEPT ![a] = {}]
  /\ LET back == IF store[a] \in reasons THEN "ok" ELSE store[a] IN
     \E s \in {back} \union (IF a \in Restable /\ back = "ok" THEN {"resting"} ELSE {}) :
       store' = [store EXCEPT ![a] = s]

\* A request took its copy of the account before it was banned, and does not lift that.
LoginSucceeds(a) == LoginLifts(a, {"authFailed"})

Become(r, q) == req' = [req EXCEPT ![r] = q]

Goto(r, f) == Become(r, [req[r] EXCEPT !.phase = f])

\* MarkAuthFailure, on the way to phase f: from Threshold failures on, the account
\* is retired first.
MarkAuthFailure(r, q, f) ==
  LET a == q.account
      n == failures[a] + 1
  IN /\ failures' = [failures EXCEPT ![a] = n] /\ row' = [row EXCEPT ![a] = @ \union {r}]
     /\ LET noted == [q EXCEPT !.failed = @ \union {a}] IN
        Become(r, IF n >= Threshold THEN [noted EXCEPT !.phase = "retiring", !.next = f]
                  ELSE [noted EXCEPT !.phase = f])

\* persistAuthFailed
Retire(r) ==
  LET a == req[r].account IN
  /\ req[r].phase = "retiring"
  /\ store' = [store EXCEPT ![a] = IF @ = "banned" THEN @ ELSE "authFailed"]
  /\ Forget(a)
  /\ Become(r, [req[r] EXCEPT !.phase = req[r].next, !.next = "idle"])
  /\ UNCHANGED <<held, failures, row>>

PersistBanned(a) == store' = [store EXCEPT ![a] = "banned"] /\ Forget(a)

\* A login finds the account banned; it then fails like any other.
Ban(r) ==
  LET a == req[r].account IN
  /\ req[r].phase = "ensuring"
     \/ (req[r].phase = "recovering" /\ req[r].refresh[a] = "no")
  /\ a \in Rejectable
  /\ PersistBanned(a)
  /\ Become(r, [req[r] EXCEPT !.phase = "banned", !.next = req[r].phase])
  /\ UNCHANGED <<held, failures, row>>

LoginEnds(r, f) ==
  req[r].phase = f \/ (req[r].phase = "banned" /\ req[r].next = f)

\* The request is over: the RequestAuth is dropped.
Finish(r) ==
  /\ Become(r, NewRequest)
  /\ row' = [a \in Account |->
               IF a \in req[r].used \ req[r].failed THEN {}
               ELSE {IF q = r THEN None ELSE q : q \in row[a]}]

-----------------------------------------------------------------------------
(* Determine: acquireManagedRequestAuth                                      *)

\* Give up once as many accounts have been tried as there are, or the account one is
\* pinned to.
NoneLeft(r) ==
  IF req[r].target = None
  THEN Cardinality(req[r].tried) >= Cardinality(InQueue)
  ELSE req[r].tried # {}

\* With no account at all, the request ends where it began.
Determine(r) ==
  /\ req[r].phase = "idle" /\ ~NoneLeft(r)
  /\ \E t \in Targets :
       Become(r, [req[r] EXCEPT !.phase = "waiting", !.target = t])
  /\ UNCHANGED <<inUse, held, store, failures, row>>

TryNext(r) ==
  /\ req[r].phase = "seeking"
  /\ IF NoneLeft(r) THEN Finish(r) ELSE Goto(r, "waiting") /\ UNCHANGED row
  /\ UNCHANGED <<inUse, held, store, failures>>

\* AcquireWait.  What it waits for, and how it ends, is AccountPool's.
AcquireWait(r) ==
  /\ req[r].phase = "waiting"
  /\ \E a \in Acquirable(r) :
       /\ Acquire(r, a)
       /\ Become(r, [req[r] EXCEPT !.phase = "ensuring", !.account = a])
  /\ UNCHANGED <<store, failures, row>>

NoAccount(r) ==
  /\ req[r].phase = "waiting" /\ Acquirable(r) = {}
  /\ Finish(r)
  /\ UNCHANGED <<inUse, held, store, failures>>

-----------------------------------------------------------------------------
(* ensureManagedToken, for Determine and for SwitchAccount                   *)

\* A completion is started from the beginning.
Start(q) ==
  [q EXCEPT !.phase = "calling", !.caller = "start", !.stage = "session",
            !.session = None, !.attempts = 0, !.unauthorized = FALSE]

\* The loop of CreateSession or GetPow goes on.
Retry(q) ==
  [q EXCEPT !.phase = "calling", !.caller = "start", !.attempts = @ + 1]

\* StartCompletion takes over: how far the calls came is forgotten.
Over(q, f) == [Start(q) EXCEPT !.phase = f]

Usable(q) ==
  LET used == [q EXCEPT !.used = @ \union {q.account}] IN
  IF q.caller \in {"loop", "captcha"} THEN Retry(used) ELSE Start(used)

BugKeepSlot(r) == UNCHANGED <<inUse, held>>

\* Determine and SwitchAccount put an account back that they cannot use.
PutBack(r) ==
  IF req[r].caller = "determine" THEN PoolRelease(r, req[r].account)
  ELSE ReleaseAccountSlot(r)

Unusable(q) ==
  IF q.caller = "determine"
  THEN [q EXCEPT !.phase = "seeking", !.next = "idle", !.tried = @ \union {q.account}]
  ELSE [q EXCEPT !.phase = "replacing", !.next = "idle", !.tried = @ \union {q.account},
                 !.released = @ \union {q.account}]

LoggedIn(q) == [q EXCEPT !.token = q.account, !.expired = FALSE]

\* The account comes with a token that is not due for a refresh,
UseToken(r) ==
  /\ req[r].phase = "ensuring"
  /\ \E e \in BOOLEAN :
       /\ e => req[r].account \in Expirable
       /\ Become(r, Usable([req[r] EXCEPT !.token = req[r].account, !.expired = e]))
  /\ UNCHANGED <<inUse, held, store, failures, row>>

\* ... or it logs in,
LogIn(r) ==
  /\ req[r].phase = "ensuring"
  /\ LoginSucceeds(req[r].account)
  /\ Become(r, Usable(LoggedIn(req[r])))
  /\ UNCHANGED <<inUse, held>>

\* ... but cannot store the token,
LoginNotSaved(r) ==
  /\ req[r].phase = "ensuring"
  /\ LoginSucceeds(req[r].account)
  /\ PutBack(r)
  /\ Become(r, Unusable(LoggedIn(req[r])))

\* ... or is rejected, which counts against the account,
LoginRejected(r) ==
  LET q == Unusable(req[r]) IN
  /\ req[r].phase = "ensuring" /\ req[r].account \in Rejectable
  /\ PutBack(r)
  /\ MarkAuthFailure(r, q, q.phase)
  /\ UNCHANGED store

\* ... or fails for another reason, which does not,
LoginFails(r) ==
  /\ LoginEnds(r, "ensuring")
  /\ PutBack(r)
  /\ Become(r, Unusable(req[r]))
  /\ UNCHANGED <<store, failures, row>>

\* ... or finds that there is no device id left, which ends Determine.
NoDeviceID(r) ==
  /\ req[r].phase = "ensuring" /\ req[r].caller = "determine"
  /\ PutBack(r)
  /\ Finish(r)
  /\ UNCHANGED <<store, failures>>

-----------------------------------------------------------------------------
(* The calls upstream: CreateSession, GetPow, CallCompletion                 *)

MayCall(r) ==
  /\ req[r].phase = "calling"
  /\ req[r].stage = "completion" \/ req[r].attempts < MaxAttempts

\* The call succeeds.
CallSucceeds(r) ==
  /\ MayCall(r)
  /\ LET next == [req[r] EXCEPT !.attempts = 0, !.unauthorized = FALSE] IN
     Become(r, CASE req[r].stage = "session" ->
                      [next EXCEPT !.stage = "pow", !.session = req[r].token]
                 [] req[r].stage = "pow" -> [next EXCEPT !.stage = "completion"]
                 [] req[r].stage = "completion" -> [next EXCEPT !.phase = "generating"])
  /\ UNCHANGED <<inUse, held, store, failures, row>>

\* No answer.  A lost completion moves to another account, unless the client
\* has gone.
NoAnswer(r) ==
  /\ MayCall(r)
  /\ \/ /\ req[r].stage # "completion"
        /\ Become(r, [req[r] EXCEPT !.attempts = @ + 1,
                        !.unauthorized = @ /\ req[r].stage = "session"])
     \/ /\ req[r].stage = "completion"
        /\ \E f \in {"switching", "ending"} : Become(r, Over(req[r], f))
  /\ UNCHANGED <<inUse, held, store, failures, row>>

\* The way on after a call that failed: to phase f, on behalf of the retry loop it
\* was made in, or of StartCompletion.
Failed(q, f, u) ==
  IF q.stage = "completion" THEN Over(q, f)
  ELSE [q EXCEPT !.phase = f, !.caller = "loop", !.unauthorized = u]

MayReject(r) == req[r].token \in Rejectable \/ req[r].expired

\* Upstream rejects the token.
TokenRejected(r) ==
  /\ MayCall(r) /\ MayReject(r)
  /\ Become(r, Failed(req[r], "recovering", TRUE))
  /\ UNCHANGED <<inUse, held, store, failures, row>>

\* Upstream fails otherwise.  The message about a token that it may reject may still
\* sound like authentication.
CallFails(r) ==
  /\ MayCall(r)
  /\ \E u \in BOOLEAN :
       /\ u => MayReject(r)
       /\ Become(r, Failed(req[r], "switching", u))
  /\ UNCHANGED <<inUse, held, store, failures, row>>

\* A captcha, or a completion that finds the account muted: it has to rest.
Challenged(r) ==
  /\ MayCall(r) /\ req[r].token \in Restable
  /\ Rest(req[r].account)
  /\ Become(r, IF req[r].stage = "session"
               THEN [req[r] EXCEPT !.phase = "switching", !.caller = "captcha"]
               ELSE Failed(req[r], "switching", FALSE))
  /\ UNCHANGED <<inUse, held, failures, row>>

\* CreateSession or GetPow has used its attempts up; StartCompletion recovers as
\* its error says (canRetryOnAlternateAccount).
Exhausted(r) ==
  /\ req[r].phase = "calling" /\ ~MayCall(r)
  /\ Become(r, Over(req[r], IF req[r].unauthorized THEN "recovering" ELSE "switching"))
  /\ UNCHANGED <<inUse, held, store, failures, row>>

-----------------------------------------------------------------------------
(* RecoverAuthFailure                                                        *)

Refreshed(r, outcome) ==
  [req[r] EXCEPT !.refresh = [@ EXCEPT ![req[r].account] = outcome]]

\* Another account has to do, when this one was refreshed before: a new token that
\* is rejected counts against the account.
StillRejected(r) ==
  /\ req[r].phase = "recovering"
  /\ \/ /\ req[r].refresh[req[r].account] = "succeeded"
        /\ MarkAuthFailure(r, req[r], "switching")
     \/ /\ req[r].refresh[req[r].account] = "failed"
        /\ Goto(r, "switching") /\ UNCHANGED <<failures, row>>
  /\ UNCHANGED <<inUse, held, store>>

BugRefreshAgain(r) == req[r].phase = "recovering"

MayRefresh(r) ==
  req[r].phase = "recovering" /\ req[r].refresh[req[r].account] = "no"

\* RefreshTokenOnce: the same account goes on with a new token,
RefreshToken(r) ==
  /\ MayRefresh(r)
  /\ LoginSucceeds(req[r].account)
  /\ LET q == LoggedIn(Refreshed(r, "succeeded")) IN
     Become(r, IF q.caller = "loop" THEN [q EXCEPT !.phase = "calling", !.caller = "start"]
               ELSE Start(q))
  /\ UNCHANGED <<inUse, held>>

\* ... which cannot be stored,
RefreshNotSaved(r) ==
  /\ MayRefresh(r)
  /\ LoginSucceeds(req[r].account)
  /\ Become(r, [LoggedIn(Refreshed(r, "failed")) EXCEPT !.phase = "switching"])
  /\ UNCHANGED <<inUse, held>>

\* ... or the login is rejected, which counts against the account,
RefreshRejected(r) ==
  /\ MayRefresh(r) /\ req[r].account \in Rejectable
  /\ MarkAuthFailure(r, Refreshed(r, "failed"), "switching")
  /\ UNCHANGED <<inUse, held, store>>

\* ... or it fails for another reason, which does not.
RefreshFails(r) ==
  /\ LoginEnds(r, "recovering")
  /\ Become(r, [Refreshed(r, "failed") EXCEPT !.phase = "switching", !.next = "idle"])
  /\ UNCHANGED <<inUse, held, store, failures, row>>

-----------------------------------------------------------------------------
(* SwitchAccount                                                             *)

\* The account is given back first, so that a full pool can still serve the switch.
LeaveAccount(r) ==
  /\ req[r].phase = "switching" /\ req[r].target = None
  /\ ReleaseAccountSlot(r)
  /\ Become(r, [req[r] EXCEPT !.phase = "replacing",
                              !.tried = @ \union {req[r].account},
                              !.released = @ \union {req[r].account}])
  /\ UNCHANGED <<store, failures, row>>

TakeAnother(r) ==
  /\ req[r].phase = "replacing"
  /\ \E a \in Acquirable(r) :
       /\ Acquire(r, a)
       /\ Become(r, [req[r] EXCEPT !.phase = "ensuring", !.account = a])
  /\ UNCHANGED <<store, failures, row>>

\* There is no other account: a retry loop goes on with the one it has left.
NoOther(r) ==
  /\ \/ req[r].phase = "switching" /\ req[r].target # None
     \/ req[r].phase = "replacing" /\ Acquirable(r) = {}
  /\ CASE req[r].caller = "loop" -> Become(r, Retry(req[r]))
       [] req[r].caller = "captcha" ->
            Become(r, Over(req[r], "switching"))
       [] OTHER -> Become(r, Over(req[r], "ending"))
  /\ UNCHANGED <<inUse, held, store, failures, row>>

-----------------------------------------------------------------------------
(* The end of a request                                                      *)

Generated(r) ==
  /\ req[r].phase = "generating"
  /\ Become(r, Over(req[r], "ending"))
  /\ UNCHANGED <<inUse, held, store, failures, row>>

BugSettleNothing(r) == UNCHANGED failures

\* settleAuthFailures: an account that was used and did not fail starts afresh.
SettleAuthFailures(r) ==
  failures' = [a \in Account |->
                 IF a \in req[r].used \ req[r].failed THEN 0 ELSE failures[a]]

\* Resolver.Release
Release(r) ==
  /\ req[r].phase = "ending"
  /\ SettleAuthFailures(r)
  /\ ReleaseAccountSlot(r)
  /\ Finish(r)
  /\ UNCHANGED store

-----------------------------------------------------------------------------
(* Others                                                                    *)

\* An administrator tests an account's login: it succeeds, or finds the account banned.
TestAccount(a) ==
  /\ \/ LoginLifts(a, {"authFailed", "banned"}) /\ UNCHANGED inUse
     \/ a \in Rejectable /\ PersistBanned(a) /\ UNCHANGED <<failures, row>>
  /\ UNCHANGED <<held, req>>

RestEnds(a) ==
  /\ store[a] = "resting"
  /\ store' = [store EXCEPT ![a] = "ok"]
  /\ UNCHANGED <<inUse, held, failures, req, row>>

-----------------------------------------------------------------------------
\* What a request does once it has begun.
Step(r) ==
  \/ TryNext(r) \/ AcquireWait(r) \/ NoAccount(r)
  \/ UseToken(r) \/ LogIn(r) \/ LoginNotSaved(r) \/ LoginRejected(r) \/ LoginFails(r)
  \/ NoDeviceID(r) \/ Ban(r) \/ Retire(r)
  \/ CallSucceeds(r) \/ NoAnswer(r) \/ TokenRejected(r) \/ CallFails(r) \/ Challenged(r)
  \/ Exhausted(r)
  \/ StillRejected(r) \/ RefreshToken(r) \/ RefreshNotSaved(r) \/ RefreshRejected(r)
  \/ RefreshFails(r)
  \/ LeaveAccount(r) \/ TakeAnother(r) \/ NoOther(r)
  \/ Generated(r) \/ Release(r)

Next ==
  \/ \E r \in Request : Determine(r) \/ Step(r)
  \/ \E a \in Account : TestAccount(a) \/ RestEnds(a)

Spec == Init /\ [][Next]_vars

\* A request that has begun goes on: logins and calls upstream have timeouts, and a
\* generation ends.  Nobody has to call, and no administrator has to do anything.
FairSpec == Spec /\ \A r \in Request : WF_vars(Step(r))

-----------------------------------------------------------------------------
(* Properties                                                                *)

AuthTypeOK ==
  /\ inUse \in [Account -> Nat]
  /\ held \in [Request -> Account \union {None}]
  /\ store \in [Account -> StoreStates]
  /\ failures \in [Account -> Nat]
  /\ req \in [Request -> AuthState]
  /\ row \in [Account -> SUBSET (Request \union {None})]

\* What may be taken out of the pool: what upstream may reject, and what a request is
\* about to retire.
Leaving ==
  Rejectable \union {req[r].account : r \in {p \in Request : req[p].phase = "retiring"}}

Slots == INSTANCE SlotPool WITH Caps <- {MaxSlots}, removable <- Leaving

\* To the pool, the requests are callers that take a slot at a time, give each back
\* once, and never give back what they do not hold (releaseAccountSlot,
\* release_accounting_test.go), however logins, calls and switches fail.
SlotsGivenBackOnce == Slots!Spec

\* A request that has no account yet, or no longer, holds no slot: no way through
\* Determine and Release leaks one.
NothingLeftBehind ==
  \A r \in Request :
    req[r].phase \in {"idle", "seeking", "waiting", "replacing"} => held[r] = None

\* A request that cannot leave its account: it is pinned, or it gave the account back
\* and found no other.
Stuck(r) == req[r].target # None \/ req[r].account \in req[r].tried

\* An account is only retired for failures of several requests that follow each other,
\* without a login or a request in between that went well ("adjacent requests",
\* auth_failure.go:22 and :84).  The exception is what the code makes of a request that
\* failed with the account, had to stay with it, and fails again: it alone is enough.
OnlyFailuresInARow ==
  [][\A r \in Request :
       req'[r].phase = "retiring" /\ req[r].phase # "retiring" =>
         LET earlier == row[req'[r].account] IN
           earlier \ {r} # {} \/ (r \in earlier /\ Stuck(r))]_vars

\* Every request comes to an end: no chain of refreshed tokens, switches and retries
\* is endless (RefreshTokenOnce).
EveryRequestEnds == \A r \in Request : req[r].phase # "idle" ~> req[r].phase = "idle"
=============================================================================
