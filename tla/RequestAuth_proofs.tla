------------------------- MODULE RequestAuth_proofs -------------------------
(***************************************************************************)
(* What holds of the requests for every set of accounts and requests,      *)
(* every limit and number of attempts: their types, that they give back    *)
(* to the pool exactly what they took (SlotsGivenBackOnce), that a request *)
(* without an account holds no slot (NothingLeftBehind), and whose         *)
(* failures retire an account (OnlyFailuresInARow).                        *)
(***************************************************************************)
EXTENDS RequestAuth, TLAPS

-----------------------------------------------------------------------------
(* The inductive invariant                                                   *)

\* Where a request is, or will be once an account has been retired or banned.
PhaseOf(q) == IF q.phase \in {"retiring", "banned"} THEN q.next ELSE q.phase

\* The phases in which a request has no account, and those of Determine.
Away == {"idle", "seeking", "waiting", "replacing"}
Beginning == {"idle", "seeking", "waiting"}

\* The request in state q holds the slot h: that of its account, unless it has given
\* it back, which Determine does without noting it.
SlotOf(q, h) ==
  IF PhaseOf(q) \in Away THEN h = None
  ELSE q.account \in Account /\ h = IF q.account \in q.released THEN None ELSE q.account

\* A request that may move leaves an account that failed, and does not try it again;
\* it is on the way while it is switching.
Moved(q) ==
  q.target = None \/ PhaseOf(q) = "idle" =>
    q.failed \subseteq q.tried \union
                         IF PhaseOf(q) = "switching" THEN {q.account} ELSE {}

ReqInv(q, h) ==
  /\ PhaseOf(q) \notin {"retiring", "banned"}
  /\ q.phase = "retiring" => q.account \in Account
  /\ SlotOf(q, h)
  /\ q.released \subseteq q.tried
  /\ q.caller = "determine" => q.released = {} /\ q.used = {}
  /\ PhaseOf(q) \in Beginning => q.caller = "determine"
  /\ PhaseOf(q) \notin Beginning \union {"ensuring"} => q.caller # "determine"
  /\ PhaseOf(q) = "calling" => q.caller = "start"
  /\ PhaseOf(q) = "replacing" => q.account \in q.released
  /\ q.caller \in {"loop", "captcha"} => q.attempts < MaxAttempts
  /\ Moved(q)

\* A failure that counts has its request in the row, and a request in the row has
\* failed with the account.
FailuresNoted ==
  \A a \in Account :
    /\ failures[a] > 0 => row[a] # {}
    /\ \A r \in Request : r \in row[a] => a \in req[r].failed

AuthInv ==
  AuthTypeOK /\ (\A r \in Request : ReqInv(req[r], held[r])) /\ FailuresNoted

\* What a step shows: the invariant again, a step of SlotPool or none, and a
\* retirement only for an earlier failure of another request, or of one that is stuck.
RowStep ==
  \A r \in Request :
    req'[r].phase = "retiring" /\ req[r].phase # "retiring" =>
      LET earlier == row[req'[r].account] IN
        earlier \ {r} # {} \/ (r \in earlier /\ Stuck(r))

\* A request may retire an account: it does so already, or it fails again while it
\* logs in or recovers.
Recounts(r, q) ==
  \/ req[r].phase = "retiring"
  \/ /\ PhaseOf(req[r]) \in {"ensuring", "recovering"}
     /\ q.account = req[r].account /\ failures[q.account] > 0

\* The failures of an account stay as they are, or are forgotten.
Forgives ==
  /\ failures' \in [Account -> Nat]
  /\ row' \in [Account -> SUBSET (Request \union {None})]
  /\ \A a \in Account :
       \/ failures'[a] = failures[a] /\ row'[a] = row[a]
       \/ failures'[a] = 0 /\ row'[a] = {}

GoodStep == AuthInv' /\ [Slots!Next]_(Slots!slotVars) /\ RowStep

-----------------------------------------------------------------------------
(* Lemmas about the operators of the model                                   *)

LEMMA NewRequestState == NewRequest \in AuthState /\ ReqInv(NewRequest, None)
<1>1. NewRequest \in AuthState
  BY AuthAssumption DEF NewRequest, AuthState, Phases, Callers
<1>2. ReqInv(NewRequest, None)
  BY DEF ReqInv, SlotOf, PhaseOf, Away, Beginning, Moved, NewRequest
<1> QED
  BY <1>1, <1>2

\* Starting again, keeping account, failures and tried accounts (StartCompletion).
LEMMA StartState ==
  ASSUME NEW q \in AuthState
  PROVE  /\ Start(q) \in AuthState
         /\ Start(q).phase = "calling" /\ Start(q).caller = "start"
         /\ Start(q).account = q.account /\ Start(q).released = q.released
         /\ Start(q).tried = q.tried /\ Start(q).used = q.used
         /\ Start(q).failed = q.failed /\ Start(q).target = q.target
<1>1. 0 \in 0 .. MaxAttempts
  BY AuthAssumption
<1> QED
  BY <1>1 DEF Start, AuthState, Phases, Callers

LEMMA OverState ==
  ASSUME NEW q \in AuthState, NEW f \in Phases
  PROVE  /\ Over(q, f) \in AuthState
         /\ Over(q, f).phase = f /\ Over(q, f).caller = "start"
         /\ Over(q, f).account = q.account /\ Over(q, f).released = q.released
         /\ Over(q, f).tried = q.tried /\ Over(q, f).used = q.used
         /\ Over(q, f).failed = q.failed /\ Over(q, f).target = q.target
BY StartState DEF Over, AuthState

LEMMA RetryState ==
  ASSUME NEW q \in AuthState, q.attempts < MaxAttempts
  PROVE  /\ Retry(q) \in AuthState
         /\ Retry(q).phase = "calling" /\ Retry(q).caller = "start"
         /\ Retry(q).account = q.account /\ Retry(q).released = q.released
         /\ Retry(q).tried = q.tried /\ Retry(q).used = q.used
         /\ Retry(q).failed = q.failed /\ Retry(q).target = q.target
<1>1. q.attempts + 1 \in 0 .. MaxAttempts
  BY AuthAssumption DEF AuthState
<1> QED
  BY <1>1 DEF Retry, AuthState, Phases, Callers

LEMMA LoggedInState ==
  ASSUME NEW q \in AuthState
  PROVE  /\ LoggedIn(q) \in AuthState
         /\ LoggedIn(q).phase = q.phase /\ LoggedIn(q).caller = q.caller
         /\ LoggedIn(q).account = q.account /\ LoggedIn(q).released = q.released
         /\ LoggedIn(q).tried = q.tried /\ LoggedIn(q).used = q.used
         /\ LoggedIn(q).failed = q.failed
         /\ LoggedIn(q).target = q.target /\ LoggedIn(q).attempts = q.attempts
         /\ LoggedIn(q).next = q.next
BY DEF LoggedIn, AuthState

-----------------------------------------------------------------------------
(* What changes one request and leaves the others alone                      *)

\* One request goes to the state q and holds the slot h.
LEMMA OneRequest ==
  ASSUME AuthInv, NEW r \in Request, NEW q \in AuthState,
         NEW h \in Account \union {None},
         Become(r, q), held' = [held EXCEPT ![r] = h], ReqInv(q, h),
         inUse' \in [Account -> Nat], store' \in [Account -> StoreStates],
         failures' \in [Account -> Nat],
         row' \in [Account -> SUBSET (Request \union {None})],
         FailuresNoted', [Slots!Next]_(Slots!slotVars),
         q.phase = "retiring" => Recounts(r, q)
  PROVE  GoodStep
<1>1. req' = [req EXCEPT ![r] = q] /\ req' \in [Request -> AuthState]
  BY DEF Become, AuthInv, AuthTypeOK
<1>2. held' \in [Request -> Account \union {None}]
  BY DEF AuthInv, AuthTypeOK
<1>3. AuthTypeOK'
  BY <1>1, <1>2 DEF AuthTypeOK
<1>4. ASSUME NEW p \in Request PROVE ReqInv(req'[p], held'[p])
  <2>1. CASE p = r
    BY <1>1, <2>1 DEF AuthInv, AuthTypeOK
  <2>2. CASE p # r
    <3>1. req'[p] = req[p] /\ held'[p] = held[p]
      BY <1>1, <2>2 DEF AuthInv, AuthTypeOK
    <3> QED
      BY <3>1 DEF AuthInv
  <2> QED
    BY <2>1, <2>2
<1>5. RowStep
  <2> SUFFICES ASSUME NEW p \in Request,
                      req'[p].phase = "retiring", req[p].phase # "retiring"
               PROVE  LET earlier == row[req'[p].account] IN
                        earlier \ {p} # {} \/ (p \in earlier /\ Stuck(p))
    BY DEF RowStep
  <2>1. p = r /\ req'[r] = q
    BY <1>1 DEF AuthInv, AuthTypeOK
  <2>2. /\ q.account \in Account /\ q.account = req[r].account
        /\ failures[q.account] > 0 /\ PhaseOf(req[r]) \in {"ensuring", "recovering"}
    BY <2>1 DEF ReqInv, Recounts
  <2>3. row[q.account] # {}
    BY <2>2 DEF AuthInv, FailuresNoted
  <2>4. CASE r \in row[q.account]
    <3>1. q.account \in req[r].failed
      BY <2>2, <2>4 DEF AuthInv, FailuresNoted
    <3>2. Moved(req[r])
      BY DEF AuthInv, ReqInv
    <3>3. Stuck(r)
      BY <2>2, <3>1, <3>2 DEF Moved, Stuck
    <3> QED
      BY <2>1, <2>4, <3>3
  <2> QED
    BY <2>1, <2>3, <2>4
<1> QED
  BY <1>3, <1>4, <1>5 DEF GoodStep, AuthInv

\* A step that leaves the pool, the store and the failures alone.
LEMMA OnlyTheRequest ==
  ASSUME AuthInv, NEW r \in Request, NEW q \in AuthState,
         Become(r, q), ReqInv(q, held[r]), q.phase # "retiring",
         req[r].failed \subseteq q.failed,
         UNCHANGED <<inUse, held, store, failures, row>>
  PROVE  GoodStep
<1>1. held[r] \in Account \union {None} /\ held' = [held EXCEPT ![r] = held[r]]
  BY DEF AuthInv, AuthTypeOK
<1>2. req' = [req EXCEPT ![r] = q]
  BY DEF Become
<1>3. FailuresNoted'
  BY <1>2 DEF AuthInv, FailuresNoted, AuthTypeOK
<1>4. [Slots!Next]_(Slots!slotVars)
  BY DEF Slots!slotVars
<1> QED
  BY <1>1, <1>3, <1>4, OneRequest DEF AuthInv, AuthTypeOK

\* Failures are noted again, if the request notes those that are new.
LEMMA StillNoted ==
  ASSUME AuthInv, NEW r \in Request, NEW q \in AuthState, Become(r, q),
         req[r].failed \subseteq q.failed,
         \A a \in Account :
           \/ failures'[a] = failures[a] /\ row'[a] = row[a]
           \/ failures'[a] = 0 /\ row'[a] = {}
           \/ a \in q.failed /\ row'[a] = row[a] \union {r}
  PROVE  FailuresNoted'
<1>1. req' = [req EXCEPT ![r] = q] /\ FailuresNoted /\ req \in [Request -> AuthState]
  BY DEF AuthInv, AuthTypeOK, Become
<1>2. ASSUME NEW a \in Account, failures'[a] > 0 PROVE row'[a] # {}
  BY <1>1, <1>2 DEF FailuresNoted
<1>3. ASSUME NEW a \in Account, NEW p \in Request, p \in row'[a]
      PROVE  a \in req'[p].failed
  <2>1. p \in row[a] \/ (p = r /\ a \in q.failed)
    BY <1>3
  <2>2. p \in row[a] => a \in req[p].failed
    BY <1>1 DEF FailuresNoted
  <2>3. req'[p] = IF p = r THEN q ELSE req[p]
    BY <1>1
  <2> QED
    BY <2>1, <2>2, <2>3
<1> QED
  BY <1>2, <1>3 DEF FailuresNoted

LEMMA Unforgotten == ASSUME AuthInv, UNCHANGED <<failures, row>> PROVE Forgives
BY DEF AuthInv, AuthTypeOK, Forgives

\* A login that succeeds forgets failures, and keeps the store's type.
LEMMA LoginTypes ==
  ASSUME AuthInv, NEW a \in Account, NEW reasons, LoginLifts(a, reasons)
  PROVE  store' \in [Account -> StoreStates] /\ Forgives
BY DEF LoginLifts, AuthInv, AuthTypeOK, StoreStates, Forgives

\* AcquireWait and SwitchAccount take a slot as SlotPool allows.
LEMMA SlotTaken ==
  ASSUME AuthInv, NEW r \in Request, NEW a \in Account, a \in Acquirable(r),
         held[r] = None, Acquire(r, a)
  PROVE  /\ inUse' \in [Account -> Nat] /\ held' = [held EXCEPT ![r] = a]
         /\ [Slots!Next]_(Slots!slotVars)
<1>1. Slots!Take(r, a)
  BY DEF Acquirable, Acquire, Slots!Take
<1> QED
  BY <1>1 DEF Acquire, AuthInv, AuthTypeOK, Slots!Next

\* Pool.Release of the slot that the request holds.
LEMMA SlotGiven ==
  ASSUME AuthInv, NEW r \in Request, NEW a \in Account, held[r] = a, PoolRelease(r, a)
  PROVE  /\ inUse' \in [Account -> Nat] /\ held' = [held EXCEPT ![r] = None]
         /\ [Slots!Next]_(Slots!slotVars)
<1>1. inUse' \in [Account -> Nat]
  BY DEF PoolRelease, AuthInv, AuthTypeOK
<1>2. held' = [held EXCEPT ![r] = None]
  BY DEF PoolRelease
<1>3. Slots!Give(r, a)
  BY <1>2 DEF PoolRelease, Slots!Give
<1> QED
  BY <1>1, <1>2, <1>3 DEF Slots!Next

\* releaseAccountSlot leaves a request without a slot, whether it gave it back now
\* or before.
LEMMA AccountSlotGiven ==
  ASSUME AuthInv, NEW r \in Request, PhaseOf(req[r]) \notin Away, ReleaseAccountSlot(r)
  PROVE  /\ inUse' \in [Account -> Nat] /\ held' = [held EXCEPT ![r] = None]
         /\ [Slots!Next]_(Slots!slotVars)
<1>1. /\ req[r].account \in Account
      /\ held[r] = IF req[r].account \in req[r].released THEN None ELSE req[r].account
  BY DEF AuthInv, ReqInv, SlotOf
<1>2. CASE req[r].account \in req[r].released
  <2>1. UNCHANGED <<inUse, held>> /\ held[r] = None
    BY <1>1, <1>2 DEF ReleaseAccountSlot
  <2>2. held' = [held EXCEPT ![r] = None]
    BY <2>1 DEF AuthInv, AuthTypeOK
  <2> QED
    BY <2>1, <2>2 DEF AuthInv, AuthTypeOK, Slots!slotVars
<1>3. CASE req[r].account \notin req[r].released
  BY <1>1, <1>3, SlotGiven DEF ReleaseAccountSlot
<1> QED
  BY <1>2, <1>3

\* The facts about one request that every step starts from.
LEMMA OfRequest ==
  ASSUME AuthInv, NEW r \in Request
  PROVE  /\ req[r] \in AuthState /\ ReqInv(req[r], held[r])
         /\ held[r] \in Account \union {None}
BY DEF AuthInv, AuthTypeOK

\* The request is over: nothing is held, and what it noted stays noted.
LEMMA FinishGood ==
  ASSUME AuthAssumption, AuthInv, NEW r \in Request, Finish(r),
         held' = [held EXCEPT ![r] = None],
         inUse' \in [Account -> Nat], store' = store, failures' \in [Account -> Nat],
         [Slots!Next]_(Slots!slotVars),
         \A a \in Account : failures'[a] > 0 =>
           failures[a] > 0 /\ a \notin req[r].used \ req[r].failed
  PROVE  GoodStep
<1>1. req' = [req EXCEPT ![r] = NewRequest]
  BY DEF Finish, Become
<1>2. row' = [a \in Account |->
                IF a \in req[r].used \ req[r].failed THEN {}
                ELSE {IF q = r THEN None ELSE q : q \in row[a]}]
  BY DEF Finish
<1>3. row' \in [Account -> SUBSET (Request \union {None})]
  BY <1>2 DEF AuthInv, AuthTypeOK
<1>4. FailuresNoted'
  <2>1. ASSUME NEW a \in Account, failures'[a] > 0 PROVE row'[a] # {}
    <3>1. PICK q \in row[a] : TRUE
      BY <2>1 DEF AuthInv, FailuresNoted
    <3>2. row'[a] = {IF p = r THEN None ELSE p : p \in row[a]}
      BY <1>2, <2>1
    <3> QED
      BY <3>1, <3>2
  <2>2. ASSUME NEW a \in Account, NEW p \in Request, p \in row'[a]
        PROVE  a \in req'[p].failed
    <3>1. p # None
      BY AuthAssumption DEF AuthAssumption
    <3>2. p # r /\ p \in row[a]
      BY <1>2, <2>2, <3>1
    <3> QED
      BY <1>1, <3>2 DEF AuthInv, AuthTypeOK, FailuresNoted
  <2> QED
    BY <2>1, <2>2 DEF FailuresNoted
<1>5. NewRequest.phase # "retiring"
  BY DEF NewRequest
<1>6. Become(r, NewRequest)
  BY DEF Finish
<1> QED
  BY <1>3, <1>4, <1>5, <1>6, NewRequestState, OneRequest DEF AuthInv, AuthTypeOK

\* A request that goes on with its account, in one of the phases after Determine.
LEMMA Onward ==
  ASSUME NEW q \in AuthState, NEW p \in AuthState, NEW h, ReqInv(q, h),
         PhaseOf(q) \notin Away \union {"switching"},
         p.phase \in {"calling", "recovering", "switching", "generating", "ending"},
         p.account = q.account, p.released = q.released, q.tried \subseteq p.tried,
         p.target = q.target,
         \/ p.failed \subseteq q.failed
         \/ p.phase = "switching" /\ p.failed \subseteq q.failed \union {p.account},
         p.caller # "determine", p.phase = "calling" => p.caller = "start",
         p.caller \in {"loop", "captcha"} => p.attempts < MaxAttempts
  PROVE  ReqInv(p, h) /\ p.phase # "retiring"
BY DEF ReqInv, SlotOf, PhaseOf, Away, Beginning, Moved

\* A request between two accounts.
LEMMA Between ==
  ASSUME NEW p \in AuthState,
         p.released \subseteq p.tried, p.target = None => p.failed \subseteq p.tried,
         \/ p.phase = "seeking" /\ p.caller = "determine" /\ p.released = {} /\ p.used = {}
         \/ p.phase = "waiting" /\ p.caller = "determine" /\ p.released = {} /\ p.used = {}
         \/ p.phase = "replacing" /\ p.caller # "determine" /\ p.account \in p.released,
         p.caller \in {"loop", "captcha"} => p.attempts < MaxAttempts
  PROVE  ReqInv(p, None) /\ p.phase # "retiring"
BY DEF ReqInv, SlotOf, PhaseOf, Away, Beginning, Moved

-----------------------------------------------------------------------------
(* Determine                                                                 *)

LEMMA DetermineGood ==
  ASSUME AuthAssumption, AuthInv, NEW r \in Request,
         Determine(r) \/ TryNext(r) \/ AcquireWait(r) \/ NoAccount(r)
  PROVE  GoodStep
<1>0. /\ req[r] \in AuthState /\ ReqInv(req[r], held[r])
      /\ held[r] \in Account \union {None}
  BY OfRequest
<1>1. /\ req[r].phase \in Beginning
      /\ held[r] = None /\ req[r].caller = "determine"
      /\ req[r].released = {} /\ req[r].used = {}
      /\ req[r].target = None \/ req[r].phase = "idle" =>
           req[r].failed \subseteq req[r].tried
  BY <1>0 DEF Determine, TryNext, AcquireWait, NoAccount, ReqInv, SlotOf, PhaseOf, Away,
              Beginning, Moved
<1>2. held' = held => held' = [held EXCEPT ![r] = None]
  BY <1>1 DEF AuthInv, AuthTypeOK
<1>3. CASE Determine(r)
  <2>1. PICK t \in Targets :
          Become(r, [req[r] EXCEPT !.phase = "waiting", !.target = t])
    BY <1>3 DEF Determine
  <2> DEFINE q == [req[r] EXCEPT !.phase = "waiting", !.target = t]
  <2>2. /\ q \in AuthState
        /\ q.phase = "waiting" /\ q.caller = req[r].caller
        /\ q.released = req[r].released /\ q.tried = req[r].tried
        /\ q.used = req[r].used /\ q.failed = req[r].failed
    BY <1>0, AuthAssumption DEF AuthState, Phases, AuthAssumption
  <2> HIDE DEF q
  <2>3. ReqInv(q, held[r]) /\ q.phase # "retiring"
    BY <1>1, <1>3, <2>2, Between DEF Determine
  <2>4. Become(r, q) /\ UNCHANGED <<inUse, held, store, failures, row>>
    BY <1>3, <2>1 DEF Determine, q
  <2> QED
    BY <2>2, <2>3, <2>4, OnlyTheRequest
<1>4. CASE TryNext(r)
  <2>1. CASE NoneLeft(r)
    <3>1. Finish(r) /\ UNCHANGED <<inUse, held, store, failures>>
      BY <1>4, <2>1 DEF TryNext
    <3> QED
      BY <1>1, <1>2, <3>1, FinishGood DEF AuthInv, AuthTypeOK, Slots!slotVars
  <2>2. CASE ~NoneLeft(r)
    <3> DEFINE q == [req[r] EXCEPT !.phase = "waiting"]
    <3>1. /\ q \in AuthState
          /\ q.phase = "waiting" /\ q.caller = req[r].caller
          /\ q.released = req[r].released /\ q.tried = req[r].tried
          /\ q.used = req[r].used /\ q.failed = req[r].failed /\ q.target = req[r].target
      BY <1>0 DEF AuthState, Phases
    <3>2. Become(r, q) /\ UNCHANGED <<inUse, held, store, failures, row>>
      BY <1>4, <2>2 DEF TryNext, Goto
    <3> HIDE DEF q
    <3>3. ReqInv(q, held[r]) /\ q.phase # "retiring"
      BY <1>1, <3>1, Between
    <3> QED
      BY <3>1, <3>2, <3>3, OnlyTheRequest
  <2> QED
    BY <2>1, <2>2
<1>5. CASE AcquireWait(r)
  <2>1. PICK a \in Acquirable(r) :
          /\ Acquire(r, a)
          /\ Become(r, [req[r] EXCEPT !.phase = "ensuring", !.account = a])
    BY <1>5 DEF AcquireWait
  <2>2. a \in Account /\ UNCHANGED <<store, failures, row>>
    BY <1>5 DEF AcquireWait, Acquirable
  <2> DEFINE q == [req[r] EXCEPT !.phase = "ensuring", !.account = a]
  <2>3. /\ q \in AuthState
        /\ q.phase = "ensuring" /\ q.account = a /\ q.caller = req[r].caller
        /\ q.released = req[r].released /\ q.tried = req[r].tried
        /\ q.used = req[r].used /\ q.failed = req[r].failed /\ q.target = req[r].target
    BY <1>0, <2>2 DEF AuthState, Phases
  <2>4. Become(r, q)
    BY <2>1
  <2> HIDE DEF q
  <2>5. ReqInv(q, a)
    BY <1>1, <2>2, <2>3 DEF ReqInv, SlotOf, PhaseOf, Away, Beginning, Moved
  <2>6. /\ inUse' \in [Account -> Nat] /\ held' = [held EXCEPT ![r] = a]
        /\ [Slots!Next]_(Slots!slotVars)
    BY <1>1, <2>1, <2>2, SlotTaken
  <2>7. FailuresNoted'
    BY <2>2, <2>3, <2>4, StillNoted
  <2> QED
    BY <2>2, <2>3, <2>4, <2>5, <2>6, <2>7, OneRequest DEF AuthInv, AuthTypeOK
<1>6. CASE NoAccount(r)
  <2>1. Finish(r) /\ UNCHANGED <<inUse, held, store, failures>>
    BY <1>6 DEF NoAccount
  <2> QED
    BY <1>1, <1>2, <2>1, FinishGood DEF AuthInv, AuthTypeOK, Slots!slotVars
<1> QED
  BY <1>3, <1>4, <1>5, <1>6

-----------------------------------------------------------------------------
(* ensureManagedToken, and what retires an account                           *)

LEMMA UsableState ==
  ASSUME NEW q \in AuthState, q.account \in Account,
         q.caller \in {"loop", "captcha"} => q.attempts < MaxAttempts
  PROVE  /\ Usable(q) \in AuthState
         /\ Usable(q).phase = "calling" /\ Usable(q).caller = "start"
         /\ Usable(q).account = q.account /\ Usable(q).released = q.released
         /\ Usable(q).tried = q.tried /\ Usable(q).failed = q.failed
         /\ Usable(q).target = q.target
<1> DEFINE u == [q EXCEPT !.used = @ \union {q.account}]
<1>1. /\ u \in AuthState /\ u.attempts = q.attempts /\ u.account = q.account
      /\ u.released = q.released /\ u.tried = q.tried /\ u.failed = q.failed
      /\ u.target = q.target
  BY DEF AuthState
<1>2. Usable(q) = IF q.caller \in {"loop", "captcha"} THEN Retry(u) ELSE Start(u)
  BY DEF Usable, AuthState
<1> HIDE DEF u
<1> QED
  BY <1>1, <1>2, RetryState, StartState

LEMMA UnusableState ==
  ASSUME NEW q \in AuthState, q.account \in Account
  PROVE  /\ Unusable(q) \in AuthState
         /\ Unusable(q).phase = IF q.caller = "determine" THEN "seeking" ELSE "replacing"
         /\ Unusable(q).released =
              IF q.caller = "determine" THEN q.released ELSE q.released \union {q.account}
         /\ Unusable(q).tried = q.tried \union {q.account}
         /\ Unusable(q).caller = q.caller /\ Unusable(q).account = q.account
         /\ Unusable(q).used = q.used /\ Unusable(q).failed = q.failed
         /\ Unusable(q).target = q.target
         /\ Unusable(q).attempts = q.attempts
<1> DEFINE t == q.tried \union {q.account}
           u == q.released \union {q.account}
<1>0. t \in SUBSET Account /\ u \in SUBSET Account
  BY DEF AuthState
<1>1. CASE q.caller = "determine"
  <2>1. Unusable(q) = [q EXCEPT !.phase = "seeking", !.next = "idle", !.tried = t]
    BY <1>1 DEF Unusable
  <2> HIDE DEF t, u
  <2>2. [q EXCEPT !.phase = "seeking", !.next = "idle", !.tried = t] \in AuthState
    BY <1>0 DEF AuthState, Phases
  <2> QED
    BY <1>1, <2>1, <2>2 DEF AuthState, t
<1>2. CASE q.caller # "determine"
  <2>1. Unusable(q) =
          [q EXCEPT !.phase = "replacing", !.next = "idle", !.tried = t, !.released = u]
    BY <1>2 DEF Unusable
  <2> HIDE DEF t, u
  <2>2. [q EXCEPT !.phase = "replacing", !.next = "idle", !.tried = t, !.released = u]
          \in AuthState
    BY <1>0 DEF AuthState, Phases
  <2> QED
    BY <1>2, <2>1, <2>2 DEF AuthState, t, u
<1> QED
  BY <1>1, <1>2

\* Determine and SwitchAccount are left without a slot.
LEMMA PutBackGives ==
  ASSUME AuthInv, NEW r \in Request, PhaseOf(req[r]) = "ensuring", PutBack(r)
  PROVE  /\ inUse' \in [Account -> Nat] /\ held' = [held EXCEPT ![r] = None]
         /\ [Slots!Next]_(Slots!slotVars)
<1>1. CASE req[r].caller = "determine"
  <2>1. held[r] = req[r].account /\ req[r].account \in Account
    BY <1>1, OfRequest DEF ReqInv, SlotOf, Away
  <2> QED
    BY <1>1, <2>1, SlotGiven DEF PutBack
<1>2. CASE req[r].caller # "determine"
  BY <1>2, AccountSlotGiven DEF PutBack, Away
<1> QED
  BY <1>1, <1>2

\* From p a request may go on to phase f with slot h.
MayGo(p, f, h) ==
  \A q \in AuthState :
    (/\ q.phase = f /\ q.account = p.account /\ q.caller = p.caller
     /\ q.released = p.released /\ q.tried = p.tried /\ q.used = p.used
     /\ q.attempts = p.attempts /\ q.target = p.target
     /\ q.failed = p.failed \union {p.account}) => ReqInv(q, h)

\* MarkAuthFailure: the request notes the failure, and retires the account only when
\* there was one before.
LEMMA MarkedGood ==
  ASSUME AuthInv, NEW r \in Request, NEW p \in AuthState, p.account \in Account,
         NEW f \in Phases \ {"retiring", "banned"}, MarkAuthFailure(r, p, f),
         NEW h \in Account \union {None}, held' = [held EXCEPT ![r] = h],
         MayGo(p, f, h), UNCHANGED store,
         PhaseOf(req[r]) \in {"ensuring", "recovering"},
         p.account = req[r].account, req[r].failed \subseteq p.failed,
         inUse' \in [Account -> Nat], [Slots!Next]_(Slots!slotVars)
  PROVE  GoodStep
<1> DEFINE a == p.account
           n == failures[a] + 1
           g == p.failed \union {a}
           s == IF n >= Threshold THEN "retiring" ELSE f
           t == IF n >= Threshold THEN f ELSE p.next
           q == [p EXCEPT !.failed = g, !.next = t, !.phase = s]
           o == [p EXCEPT !.failed = g, !.phase = f]
<1>1. n \in Nat /\ failures[a] \in Nat
  BY DEF AuthInv, AuthTypeOK
<1>2. /\ failures' = [failures EXCEPT ![a] = n] /\ Become(r, q)
      /\ row' = [row EXCEPT ![a] = @ \union {r}]
  <2> DEFINE m == [p EXCEPT !.failed = g]
  <2>1. /\ failures' = [failures EXCEPT ![a] = n]
        /\ row' = [row EXCEPT ![a] = @ \union {r}]
        /\ Become(r, IF n >= Threshold THEN [m EXCEPT !.phase = "retiring", !.next = f]
                     ELSE [m EXCEPT !.phase = f])
    BY DEF MarkAuthFailure
  <2>2. q = IF n >= Threshold THEN [m EXCEPT !.phase = "retiring", !.next = f]
            ELSE [m EXCEPT !.phase = f]
    BY DEF AuthState
  <2> QED
    BY <2>1, <2>2
<1>3. q.phase = "retiring" => failures[a] > 0
  BY <1>1 DEF Threshold, AuthState
<1>4. /\ o \in AuthState /\ o.phase = f
      /\ o.account = a /\ o.caller = p.caller /\ o.released = p.released
      /\ o.tried = p.tried /\ o.used = p.used /\ o.attempts = p.attempts
      /\ o.target = p.target /\ o.failed = p.failed \union {a}
  <2>1. g \in SUBSET Account /\ f \in Phases
    BY DEF AuthState
  <2> HIDE DEF g
  <2>2. o \in AuthState
    BY <2>1 DEF AuthState
  <2> QED
    BY <2>2 DEF AuthState, g
<1>5. /\ q \in AuthState
      /\ q.phase = f \/ (q.phase = "retiring" /\ q.next = f)
      /\ q.account = a /\ q.caller = p.caller /\ q.released = p.released
      /\ q.tried = p.tried /\ q.used = p.used /\ q.attempts = p.attempts
      /\ q.failed = p.failed \union {a} /\ q.target = p.target
  <2> HIDE DEF n
  <2>0. g \in SUBSET Account /\ f \in Phases /\ p.next \in Phases
    BY DEF AuthState
  <2>1. /\ s \in Phases /\ t \in Phases
        /\ s = f \/ (s = "retiring" /\ t = f)
    BY <2>0 DEF Phases
  <2> HIDE DEF g, s, t
  <2>2. q \in AuthState
    BY <2>0, <2>1 DEF AuthState
  <2> QED
    BY <2>1, <2>2 DEF AuthState, g
<1> HIDE DEF q, n, o, g, s, t
<1>6. ReqInv(o, h)
  BY <1>4 DEF MayGo
<1>7. ReqInv(q, h)
  BY <1>4, <1>5, <1>6 DEF ReqInv, SlotOf, PhaseOf, Moved
<1>8. FailuresNoted'
  BY <1>2, <1>5, StillNoted DEF AuthInv, AuthTypeOK
<1>9. /\ failures' \in [Account -> Nat]
      /\ row' \in [Account -> SUBSET (Request \union {None})]
  BY <1>1, <1>2 DEF AuthInv, AuthTypeOK
<1>10. q.phase = "retiring" => Recounts(r, q)
  BY <1>3, <1>5 DEF Recounts, a
<1> QED
  BY <1>2, <1>5, <1>7, <1>8, <1>9, <1>10, OneRequest DEF AuthInv, AuthTypeOK

\* Reset after an account has gone: SlotPool's Forget.
LEMMA Forgotten ==
  ASSUME AuthInv, NEW a \in Account, a \in Leaving, Forget(a), UNCHANGED held
  PROVE  /\ inUse' \in [Account -> Nat]
         /\ \A r \in Request : held' = [held EXCEPT ![r] = held[r]]
         /\ [Slots!Next]_(Slots!slotVars)
<1>1. inUse' = [b \in Account |-> IF b \in {a} THEN 0 ELSE inUse[b]]
  BY DEF Forget, AuthInv, AuthTypeOK
<1>2. Slots!Forget({a})
  BY <1>1 DEF Slots!Forget
<1> QED
  BY <1>1, <1>2 DEF Slots!Next, AuthInv, AuthTypeOK

\* ensureManagedToken leaves the request with a usable account, or without one.
LEMMA EnsureGood ==
  ASSUME AuthAssumption, AuthInv, NEW r \in Request,
         \/ UseToken(r) \/ LogIn(r) \/ LoginNotSaved(r) \/ LoginRejected(r)
         \/ LoginFails(r) \/ NoDeviceID(r)
  PROVE  GoodStep
<1>0. /\ req[r] \in AuthState /\ ReqInv(req[r], held[r])
      /\ held[r] \in Account \union {None}
  BY OfRequest
<1>1. PhaseOf(req[r]) = "ensuring"
  BY DEF UseToken, LogIn, LoginNotSaved, LoginRejected, LoginFails, LoginEnds, NoDeviceID,
         PhaseOf
<1>2. /\ req[r].account \in Account
      /\ req[r].caller \in {"loop", "captcha"} => req[r].attempts < MaxAttempts
      /\ req[r].released \subseteq req[r].tried
      /\ req[r].caller = "determine" => req[r].released = {} /\ req[r].used = {}
      /\ req[r].target = None => req[r].failed \subseteq req[r].tried
  BY <1>0, <1>1 DEF ReqInv, SlotOf, Away, Moved
<1>3. held' = held => held' = [held EXCEPT ![r] = held[r]]
  BY DEF AuthInv, AuthTypeOK
<1>4. ASSUME NEW p \in AuthState, p.account = req[r].account, p.caller = req[r].caller,
             p.attempts = req[r].attempts, p.released = req[r].released,
             p.tried = req[r].tried, p.failed = req[r].failed, p.target = req[r].target
      PROVE  /\ Usable(p) \in AuthState /\ ReqInv(Usable(p), held[r])
             /\ Usable(p).phase # "retiring" /\ req[r].failed = Usable(p).failed
             /\ req[r].target = Usable(p).target
  BY <1>0, <1>1, <1>2, <1>4, UsableState, Onward DEF Away
<1>5. ASSUME NEW p \in AuthState, p.account = req[r].account, p.caller = req[r].caller,
             p.attempts = req[r].attempts, p.released = req[r].released,
             p.tried = req[r].tried, p.used = req[r].used, p.failed = req[r].failed,
             p.target = req[r].target
      PROVE  /\ Unusable(p) \in AuthState /\ ReqInv(Unusable(p), None)
             /\ Unusable(p).phase # "retiring" /\ req[r].failed = Unusable(p).failed
             /\ req[r].target = Unusable(p).target
  <2> DEFINE o == Unusable(p)
  <2>1. /\ o \in AuthState /\ o.caller = p.caller /\ o.used = p.used
        /\ o.account = p.account
        /\ o.attempts = p.attempts /\ o.failed = p.failed /\ o.target = p.target
        /\ o.phase = IF p.caller = "determine" THEN "seeking" ELSE "replacing"
        /\ o.released =
             IF p.caller = "determine" THEN p.released ELSE p.released \union {p.account}
        /\ o.tried = p.tried \union {p.account}
    BY <1>2, <1>5, UnusableState
  <2> HIDE DEF o
  <2>2. o.released \subseteq o.tried
    BY <1>2, <1>5, <2>1
  <2>3. \/ o.phase = "seeking" /\ o.caller = "determine" /\ o.released = {} /\ o.used = {}
        \/ o.phase = "replacing" /\ o.caller # "determine" /\ o.account \in o.released
    BY <1>2, <1>5, <2>1
  <2>4. ReqInv(o, None) /\ o.phase # "retiring"
    BY <1>2, <1>5, <2>1, <2>2, <2>3, Between
  <2> QED
    BY <1>5, <2>1, <2>4 DEF o
<1>6. CASE UseToken(r)
  <2>1. PICK e \in BOOLEAN :
          Become(r, Usable([req[r] EXCEPT !.token = req[r].account, !.expired = e]))
    BY <1>6 DEF UseToken
  <2> DEFINE p == [req[r] EXCEPT !.token = req[r].account, !.expired = e]
  <2>2. /\ p \in AuthState /\ p.account = req[r].account /\ p.caller = req[r].caller
        /\ p.attempts = req[r].attempts /\ p.released = req[r].released
        /\ p.tried = req[r].tried /\ p.failed = req[r].failed /\ p.target = req[r].target
    BY <1>0 DEF AuthState
  <2>3. Become(r, Usable(p))
    BY <2>1
  <2> HIDE DEF p
  <2> QED
    BY <1>4, <1>6, <2>2, <2>3, OnlyTheRequest DEF UseToken
<1>7. CASE LogIn(r)
  <2> DEFINE p == LoggedIn(req[r])
  <2>1. /\ p \in AuthState /\ p.account = req[r].account /\ p.caller = req[r].caller
        /\ p.attempts = req[r].attempts /\ p.released = req[r].released
        /\ p.tried = req[r].tried /\ p.failed = req[r].failed /\ p.target = req[r].target
    BY <1>0, LoggedInState
  <2>2. /\ Become(r, Usable(p)) /\ UNCHANGED <<inUse, held>>
        /\ LoginLifts(req[r].account, {"authFailed"})
    BY <1>7 DEF LogIn, LoginSucceeds
  <2> HIDE DEF p
  <2>3. store' \in [Account -> StoreStates] /\ Forgives
    BY <1>2, <2>2, LoginTypes
  <2>4. FailuresNoted'
    BY <1>4, <2>1, <2>2, <2>3, StillNoted DEF Forgives
  <2>5. [Slots!Next]_(Slots!slotVars)
    BY <2>2 DEF Slots!slotVars
  <2> QED
    BY <1>0, <1>3, <1>4, <2>1, <2>2, <2>3, <2>4, <2>5, OneRequest
       DEF AuthInv, AuthTypeOK, Forgives
<1>8. CASE LoginNotSaved(r)
  <2> DEFINE p == LoggedIn(req[r])
  <2>1. /\ p \in AuthState /\ p.account = req[r].account /\ p.caller = req[r].caller
        /\ p.attempts = req[r].attempts /\ p.released = req[r].released
        /\ p.tried = req[r].tried /\ p.failed = req[r].failed
        /\ p.target = req[r].target /\ p.used = req[r].used
    BY <1>0, LoggedInState
  <2>2. /\ Become(r, Unusable(p)) /\ PutBack(r)
        /\ LoginLifts(req[r].account, {"authFailed"})
    BY <1>8 DEF LoginNotSaved, LoginSucceeds
  <2> HIDE DEF p
  <2>3. store' \in [Account -> StoreStates] /\ Forgives
    BY <1>2, <2>2, LoginTypes
  <2>4. FailuresNoted'
    BY <1>5, <2>1, <2>2, <2>3, StillNoted DEF Forgives
  <2> QED
    BY <1>1, <1>5, <2>1, <2>2, <2>3, <2>4, PutBackGives, OneRequest
       DEF AuthInv, AuthTypeOK, Forgives
<1>9. CASE LoginRejected(r)
  <2> DEFINE q == Unusable(req[r])
  <2>1. PutBack(r) /\ MarkAuthFailure(r, q, q.phase) /\ UNCHANGED store
    BY <1>9 DEF LoginRejected
  <2>2. /\ q \in AuthState /\ q.account = req[r].account /\ q.failed = req[r].failed
        /\ q.target = req[r].target
        /\ q.phase \in Phases \ {"retiring", "banned"} /\ ReqInv(q, None)
    BY <1>0, <1>2, <1>5, UnusableState DEF Phases
  <2>3. q.account \in q.tried /\ q.phase \in {"seeking", "replacing"}
    BY <1>0, <1>2, UnusableState
  <2> HIDE DEF q
  <2>4. MayGo(q, q.phase, None)
    BY <2>2, <2>3 DEF MayGo, ReqInv, SlotOf, PhaseOf, Moved
  <2> QED
    BY <1>1, <1>2, <2>1, <2>2, <2>4, PutBackGives, MarkedGood
<1>10. CASE LoginFails(r)
  <2>1. /\ PutBack(r) /\ Become(r, Unusable(req[r]))
        /\ UNCHANGED <<store, failures, row>>
    BY <1>10 DEF LoginFails
  <2>2. FailuresNoted'
    BY <1>0, <1>5, <2>1, StillNoted
  <2> QED
    BY <1>0, <1>1, <1>5, <2>1, <2>2, PutBackGives, OneRequest DEF AuthInv, AuthTypeOK
<1>11. CASE NoDeviceID(r)
  <2>1. /\ PutBack(r) /\ Finish(r) /\ UNCHANGED <<store, failures>>
        /\ req[r].caller = "determine"
    BY <1>11 DEF NoDeviceID
  <2> QED
    BY <1>1, <1>2, <2>1, PutBackGives, FinishGood DEF AuthInv, AuthTypeOK
<1> QED
  BY <1>6, <1>7, <1>8, <1>9, <1>10, <1>11

\* An account that is retired or banned leaves the pool, the request stays.
LEMMA RetireGood ==
  ASSUME AuthInv, NEW r \in Request, Retire(r) \/ Ban(r)
  PROVE  GoodStep
<1>0. /\ req[r] \in AuthState /\ ReqInv(req[r], held[r])
      /\ held[r] \in Account \union {None}
  BY OfRequest
<1>1. req[r].account \in Account /\ req[r].account \in Leaving
  BY <1>0 DEF Retire, Ban, ReqInv, SlotOf, PhaseOf, Away, Leaving
<1>2. Forget(req[r].account) /\ UNCHANGED <<held, failures, row>>
  BY DEF Retire, Ban, PersistBanned
<1>3. store' \in [Account -> StoreStates]
  BY DEF Retire, Ban, PersistBanned, AuthInv, AuthTypeOK, StoreStates
<1>4. PICK f \in Phases, n \in Phases :
        /\ Become(r, [req[r] EXCEPT !.phase = f, !.next = n])
        /\ f # "retiring"
        /\ \/ req[r].phase = "retiring" /\ f = req[r].next
           \/ f = "banned" /\ n = req[r].phase
              /\ req[r].phase \in {"ensuring", "recovering"}
  <2>1. CASE Retire(r)
    <3>1. /\ Become(r, [req[r] EXCEPT !.phase = req[r].next, !.next = "idle"])
          /\ req[r].phase = "retiring"
      BY <2>1 DEF Retire
    <3>2. "idle" \in Phases
      BY DEF Phases
    <3>3. req[r].next \in Phases /\ req[r].next # "retiring"
      BY <1>0, <3>1 DEF AuthState, ReqInv, PhaseOf
    <3> QED
      BY <3>1, <3>2, <3>3
  <2>2. CASE Ban(r)
    <3>1. /\ Become(r, [req[r] EXCEPT !.phase = "banned", !.next = req[r].phase])
          /\ req[r].phase \in {"ensuring", "recovering"}
      BY <2>2 DEF Ban
    <3> QED
      BY <1>0, <3>1 DEF AuthState, Phases
  <2> QED
    BY <2>1, <2>2
<1> DEFINE q == [req[r] EXCEPT !.phase = f, !.next = n]
<1>5. /\ q \in AuthState /\ q.phase = f /\ q.next = n
      /\ q.account = req[r].account /\ q.caller = req[r].caller
      /\ q.released = req[r].released /\ q.tried = req[r].tried
      /\ q.used = req[r].used /\ q.failed = req[r].failed /\ q.target = req[r].target
      /\ q.attempts = req[r].attempts
  BY <1>0 DEF AuthState
<1> HIDE DEF q
<1>6. PhaseOf(q) = PhaseOf(req[r])
  BY <1>0, <1>4, <1>5 DEF PhaseOf, ReqInv
<1>7. ReqInv(q, held[r])
  BY <1>0, <1>4, <1>5, <1>6 DEF ReqInv, SlotOf, Moved
<1>8. Become(r, q)
  BY <1>4 DEF q
<1>9. FailuresNoted'
  BY <1>2, <1>5, <1>8, StillNoted
<1> QED
  BY <1>0, <1>1, <1>2, <1>3, <1>4, <1>5, <1>7, <1>8, <1>9, Forgotten, OneRequest
     DEF AuthInv, AuthTypeOK

-----------------------------------------------------------------------------
(* The calls upstream, RecoverAuthFailure, SwitchAccount                     *)

\* The request goes on with its account, and keeps its slot.
LEMMA GoesOn ==
  ASSUME AuthInv, NEW r \in Request, NEW q \in AuthState, Become(r, q),
         PhaseOf(req[r]) \notin Away \union {"switching"},
         q.phase \in {"calling", "recovering", "switching", "generating", "ending"},
         q.account = req[r].account, q.released = req[r].released,
         q.tried = req[r].tried, q.failed = req[r].failed, q.target = req[r].target,
         q.caller # "determine", q.phase = "calling" => q.caller = "start",
         q.caller \in {"loop", "captcha"} => q.attempts < MaxAttempts,
         UNCHANGED <<inUse, held>>, store' \in [Account -> StoreStates], Forgives
  PROVE  GoodStep
<1>1. /\ req[r] \in AuthState /\ ReqInv(req[r], held[r])
      /\ held[r] \in Account \union {None}
  BY OfRequest
<1>2. ReqInv(q, held[r]) /\ q.phase # "retiring"
  BY <1>1, Onward
<1>3. FailuresNoted'
  BY StillNoted DEF Forgives
<1>4. held' = [held EXCEPT ![r] = held[r]] /\ [Slots!Next]_(Slots!slotVars)
  BY DEF AuthInv, AuthTypeOK, Slots!slotVars
<1> QED
  BY <1>1, <1>2, <1>3, <1>4, OneRequest DEF AuthInv, AuthTypeOK, Forgives

LEMMA FailedState ==
  ASSUME NEW q \in AuthState, NEW f \in Phases, NEW u \in BOOLEAN,
         q.stage = "completion" \/ q.attempts < MaxAttempts
  PROVE  /\ Failed(q, f, u) \in AuthState
         /\ Failed(q, f, u).phase = f /\ Failed(q, f, u).caller \in {"start", "loop"}
         /\ Failed(q, f, u).account = q.account /\ Failed(q, f, u).failed = q.failed
         /\ Failed(q, f, u).target = q.target
         /\ Failed(q, f, u).released = q.released /\ Failed(q, f, u).tried = q.tried
         /\ Failed(q, f, u).caller = "loop" => Failed(q, f, u).attempts < MaxAttempts
<1>1. CASE q.stage = "completion"
  BY <1>1, OverState DEF Failed
<1>2. CASE q.stage # "completion"
  <2> DEFINE p == [q EXCEPT !.phase = f, !.caller = "loop", !.unauthorized = u]
  <2>1. p \in AuthState
    BY DEF AuthState, Callers
  <2>2. /\ p.phase = f /\ p.caller = "loop" /\ p.account = q.account
        /\ p.failed = q.failed
        /\ p.target = q.target /\ p.released = q.released /\ p.tried = q.tried
        /\ p.attempts = q.attempts
    BY DEF AuthState
  <2>3. Failed(q, f, u) = p
    BY <1>2 DEF Failed
  <2> HIDE DEF p
  <2> QED
    BY <1>2, <2>1, <2>2, <2>3
<1> QED
  BY <1>1, <1>2

LEMMA CallGood ==
  ASSUME AuthAssumption, AuthInv, NEW r \in Request,
         \/ CallSucceeds(r) \/ NoAnswer(r) \/ TokenRejected(r) \/ CallFails(r)
         \/ Challenged(r) \/ Exhausted(r)
  PROVE  GoodStep
<1>0. /\ req[r] \in AuthState /\ ReqInv(req[r], held[r])
  BY OfRequest
<1>1. req[r].phase = "calling" /\ UNCHANGED <<inUse, held, failures, row>>
  BY DEF CallSucceeds, NoAnswer, TokenRejected, CallFails, Challenged, Exhausted, MayCall
<1>2. PhaseOf(req[r]) \notin Away \union {"switching"} /\ req[r].caller = "start"
  BY <1>0, <1>1 DEF ReqInv, PhaseOf, Away
<1>3. Forgives
  BY <1>1, Unforgotten
<1>4. ASSUME UNCHANGED store PROVE store' \in [Account -> StoreStates]
  BY <1>4 DEF AuthInv, AuthTypeOK
<1>5. CASE CallSucceeds(r)
  <2> DEFINE n == [req[r] EXCEPT !.attempts = 0, !.unauthorized = FALSE]
             q == CASE req[r].stage = "session" ->
                         [n EXCEPT !.stage = "pow", !.session = req[r].token]
                    [] req[r].stage = "pow" -> [n EXCEPT !.stage = "completion"]
                    [] req[r].stage = "completion" -> [n EXCEPT !.phase = "generating"]
  <2>1. 0 \in 0 .. MaxAttempts /\ 0 < MaxAttempts
    BY AuthAssumption DEF AuthAssumption
  <2>2. /\ n \in AuthState /\ n.phase = "calling" /\ n.account = req[r].account
        /\ n.released = req[r].released /\ n.tried = req[r].tried
        /\ n.failed = req[r].failed
        /\ n.target = req[r].target /\ n.caller = req[r].caller /\ n.attempts = 0
        /\ n.stage = req[r].stage
    BY <1>0, <1>1, <2>1 DEF AuthState
  <2>3. Become(r, q)
    BY <1>5 DEF CallSucceeds
  <2>4. req[r].token \in Account \union {None}
        /\ req[r].stage \in {"session", "pow", "completion"}
    BY <1>0 DEF AuthState
  <2> HIDE DEF n
  <2>5. /\ q \in AuthState /\ q.phase \in {"calling", "generating"}
        /\ q.account = req[r].account
        /\ q.released = req[r].released /\ q.tried = req[r].tried
        /\ q.failed = req[r].failed
        /\ q.target = req[r].target /\ q.caller = req[r].caller /\ q.attempts = 0
    <3>1. CASE req[r].stage = "session"
      BY <2>2, <2>4, <3>1 DEF AuthState
    <3>2. CASE req[r].stage = "pow"
      BY <2>2, <3>2 DEF AuthState
    <3>3. CASE req[r].stage = "completion"
      BY <2>2, <3>3 DEF AuthState, Phases
    <3> QED
      BY <2>4, <3>1, <3>2, <3>3
  <2> HIDE DEF q
  <2>6. UNCHANGED store
    BY <1>5 DEF CallSucceeds
  <2> QED
    BY <1>1, <1>2, <1>3, <1>4, <2>1, <2>3, <2>5, <2>6, GoesOn
<1>6. CASE NoAnswer(r)
  <2>0. UNCHANGED store /\ MayCall(r)
    BY <1>6 DEF NoAnswer
  <2>1. CASE req[r].stage # "completion"
    <3> DEFINE n == req[r].attempts + 1
               u == req[r].unauthorized /\ req[r].stage = "session"
               q == [req[r] EXCEPT !.attempts = n, !.unauthorized = u]
    <3>1. n \in 0 .. MaxAttempts /\ u \in BOOLEAN
      BY <1>0, <2>0, <2>1, AuthAssumption DEF AuthState, MayCall, AuthAssumption
    <3>2. Become(r, q)
      BY <1>6, <2>1 DEF NoAnswer
    <3> HIDE DEF n, u
    <3>3. q \in AuthState
      BY <1>0, <3>1 DEF AuthState
    <3>4. /\ q.phase = "calling" /\ q.account = req[r].account
          /\ q.released = req[r].released /\ q.tried = req[r].tried
          /\ q.failed = req[r].failed
          /\ q.target = req[r].target /\ q.caller = req[r].caller /\ q.attempts = n
      BY <1>0, <1>1 DEF AuthState
    <3> HIDE DEF q
    <3> QED
      BY <1>1, <1>2, <1>3, <1>4, <2>0, <3>2, <3>3, <3>4, GoesOn
  <2>2. CASE req[r].stage = "completion"
    <3>1. PICK f \in {"switching", "ending"} : Become(r, Over(req[r], f))
      BY <1>6, <2>2 DEF NoAnswer
    <3>2. f \in Phases
      BY DEF Phases
    <3> QED
      BY <1>0, <1>1, <1>2, <1>3, <1>4, <2>0, <3>1, <3>2, OverState, GoesOn
  <2> QED
    BY <2>1, <2>2
<1>7. CASE TokenRejected(r)
  <2>1. Become(r, Failed(req[r], "recovering", TRUE)) /\ UNCHANGED store /\ MayCall(r)
    BY <1>7 DEF TokenRejected
  <2>2. "recovering" \in Phases /\ TRUE \in BOOLEAN
    BY DEF Phases
  <2> DEFINE q == Failed(req[r], "recovering", TRUE)
  <2>3. /\ q \in AuthState /\ q.phase = "recovering" /\ q.caller \in {"start", "loop"}
        /\ q.account = req[r].account /\ q.failed = req[r].failed
        /\ q.target = req[r].target
        /\ q.released = req[r].released /\ q.tried = req[r].tried
        /\ q.caller = "loop" => q.attempts < MaxAttempts
    <3>1. req[r].stage = "completion" \/ req[r].attempts < MaxAttempts
      BY <2>1 DEF MayCall
    <3> QED
      BY <1>0, <2>2, <3>1, FailedState, ZenonT(60)
  <2> HIDE DEF q
  <2> QED
    BY <1>1, <1>2, <1>3, <1>4, <2>1, <2>3, GoesOn DEF q
<1>8. CASE CallFails(r)
  <2>1. PICK u \in BOOLEAN : Become(r, Failed(req[r], "switching", u))
    BY <1>8 DEF CallFails
  <2>2. "switching" \in Phases /\ UNCHANGED store /\ MayCall(r)
    BY <1>8 DEF Phases, CallFails
  <2> QED
    BY <1>0, <1>1, <1>2, <1>3, <1>4, <2>1, <2>2, FailedState, GoesOn DEF MayCall
<1>9. CASE Challenged(r)
  <2>1. store' \in [Account -> StoreStates]
    BY <1>9 DEF Challenged, Rest, AuthInv, AuthTypeOK, StoreStates
  <2>2. MayCall(r)
    BY <1>9 DEF Challenged
  <2>3. CASE req[r].stage = "session"
    <3> DEFINE q == [req[r] EXCEPT !.phase = "switching", !.caller = "captcha"]
    <3>1. Become(r, q)
      BY <1>9, <2>3 DEF Challenged
    <3>2. /\ q \in AuthState /\ q.phase = "switching" /\ q.account = req[r].account
          /\ q.released = req[r].released /\ q.tried = req[r].tried
          /\ q.failed = req[r].failed /\ q.target = req[r].target /\ q.caller = "captcha"
          /\ q.attempts = req[r].attempts
      BY <1>0 DEF AuthState, Phases, Callers
    <3>3. req[r].attempts < MaxAttempts
      BY <2>2, <2>3 DEF MayCall
    <3> HIDE DEF q
    <3> QED
      BY <1>1, <1>2, <1>3, <2>1, <3>1, <3>2, <3>3, GoesOn
  <2>4. CASE req[r].stage # "session"
    <3>1. /\ Become(r, Failed(req[r], "switching", FALSE))
          /\ "switching" \in Phases /\ FALSE \in BOOLEAN
      BY <1>9, <2>4 DEF Challenged, Phases
    <3> DEFINE q == Failed(req[r], "switching", FALSE)
    <3>2. /\ q \in AuthState /\ q.phase = "switching" /\ q.caller \in {"start", "loop"}
          /\ q.account = req[r].account /\ q.failed = req[r].failed
          /\ q.target = req[r].target
          /\ q.released = req[r].released /\ q.tried = req[r].tried
          /\ q.caller = "loop" => q.attempts < MaxAttempts
      <4>1. req[r].stage = "completion" \/ req[r].attempts < MaxAttempts
        BY <2>2 DEF MayCall
      <4> QED
        BY <1>0, <3>1, <4>1, FailedState, ZenonT(60)
    <3> HIDE DEF q
    <3> QED
      BY <1>1, <1>2, <1>3, <2>1, <3>1, <3>2, GoesOn DEF q
  <2> QED
    BY <2>3, <2>4
<1>10. CASE Exhausted(r)
  <2>1. PICK f \in {"recovering", "switching"} : Become(r, Over(req[r], f))
    BY <1>10 DEF Exhausted
  <2>2. f \in Phases /\ UNCHANGED store
    BY <1>10 DEF Phases, Exhausted
  <2> QED
    BY <1>0, <1>1, <1>2, <1>3, <1>4, <2>1, <2>2, OverState, GoesOn
<1> QED
  BY <1>5, <1>6, <1>7, <1>8, <1>9, <1>10

LEMMA RefreshedState ==
  ASSUME NEW q \in AuthState, NEW r \in Request, q = req[r], q.account \in Account,
         NEW o \in {"succeeded", "failed"}
  PROVE  /\ Refreshed(r, o) \in AuthState
         /\ Refreshed(r, o).phase = q.phase /\ Refreshed(r, o).caller = q.caller
         /\ Refreshed(r, o).account = q.account /\ Refreshed(r, o).failed = q.failed
         /\ Refreshed(r, o).target = q.target
         /\ Refreshed(r, o).released = q.released /\ Refreshed(r, o).tried = q.tried
         /\ Refreshed(r, o).attempts = q.attempts /\ Refreshed(r, o).used = q.used
<1> DEFINE f == [q.refresh EXCEPT ![q.account] = o]
<1>1. f \in [Account -> {"no", "succeeded", "failed"}]
  BY DEF AuthState
<1>2. Refreshed(r, o) = [q EXCEPT !.refresh = f]
  BY DEF Refreshed, AuthState
<1> HIDE DEF f
<1> QED
  BY <1>1, <1>2 DEF AuthState

LEMMA RecoverGood ==
  ASSUME AuthAssumption, AuthInv, NEW r \in Request,
         \/ StillRejected(r) \/ RefreshToken(r) \/ RefreshNotSaved(r)
         \/ RefreshRejected(r) \/ RefreshFails(r)
  PROVE  GoodStep
<1>0. /\ req[r] \in AuthState /\ ReqInv(req[r], held[r])
      /\ held[r] \in Account \union {None}
  BY OfRequest
<1>1. PhaseOf(req[r]) = "recovering" /\ UNCHANGED <<inUse, held>>
  BY DEF StillRejected, RefreshToken, RefreshNotSaved, RefreshRejected, RefreshFails,
         MayRefresh, LoginEnds, PhaseOf
<1>2. /\ PhaseOf(req[r]) \notin Away \union {"switching"} /\ req[r].caller # "determine"
      /\ req[r].account \in Account
      /\ req[r].caller \in {"loop", "captcha"} => req[r].attempts < MaxAttempts
  BY <1>0, <1>1 DEF ReqInv, SlotOf, Away, Beginning
<1>3. /\ held' = [held EXCEPT ![r] = held[r]] /\ inUse' \in [Account -> Nat]
      /\ [Slots!Next]_(Slots!slotVars)
  BY <1>1 DEF AuthInv, AuthTypeOK, Slots!slotVars
<1>4. "switching" \in Phases \ {"retiring", "banned"}
  BY DEF Phases
<1>5. ASSUME NEW p \in AuthState, p.account = req[r].account, p.caller = req[r].caller,
             p.released = req[r].released, p.tried = req[r].tried,
             p.used = req[r].used, p.attempts = req[r].attempts,
             p.failed = req[r].failed,
             p.target = req[r].target, MarkAuthFailure(r, p, "switching"),
             UNCHANGED store
      PROVE  GoodStep
  <2>1. MayGo(p, "switching", held[r])
    BY <1>0, <1>2, <1>5, Onward DEF MayGo
  <2>2. p.account \in Account /\ req[r].failed \subseteq p.failed
        /\ UNCHANGED store /\ MarkAuthFailure(r, p, "switching")
    BY <1>1, <1>2, <1>5
  <2> QED
    BY <1>0, <1>1, <1>3, <1>4, <1>5, <2>1, <2>2, MarkedGood
<1>6. CASE StillRejected(r)
  <2>1. CASE MarkAuthFailure(r, req[r], "switching")
    BY <1>0, <1>5, <1>6, <2>1 DEF StillRejected
  <2>2. CASE Goto(r, "switching") /\ UNCHANGED <<failures, row>>
    <3> DEFINE q == [req[r] EXCEPT !.phase = "switching"]
    <3>1. /\ q \in AuthState /\ q.phase = "switching" /\ q.caller = req[r].caller
          /\ q.account = req[r].account /\ q.failed = req[r].failed
          /\ q.target = req[r].target
          /\ q.released = req[r].released /\ q.tried = req[r].tried
          /\ q.attempts = req[r].attempts
      BY <1>0, <1>4 DEF AuthState
    <3>2. Become(r, q) /\ UNCHANGED <<store, failures, row>>
      BY <1>6, <2>2 DEF Goto, StillRejected
    <3> HIDE DEF q
    <3> QED
      BY <1>1, <1>2, <3>1, <3>2, GoesOn, Unforgotten DEF AuthInv, AuthTypeOK
  <2> QED
    BY <1>6, <2>1, <2>2 DEF StillRejected
<1>7. CASE RefreshToken(r)
  <2> DEFINE q == LoggedIn(Refreshed(r, "succeeded"))
             p == [q EXCEPT !.phase = "calling", !.caller = "start"]
  <2>1. /\ q \in AuthState /\ q.caller = req[r].caller
        /\ q.account = req[r].account /\ q.failed = req[r].failed
        /\ q.target = req[r].target
        /\ q.released = req[r].released /\ q.tried = req[r].tried
    BY <1>0, <1>2, RefreshedState, LoggedInState
  <2>2. Become(r, IF q.caller = "loop" THEN p ELSE Start(q))
    BY <1>7 DEF RefreshToken
  <2>3. LoginLifts(req[r].account, {"authFailed"})
    BY <1>7 DEF RefreshToken, LoginSucceeds
  <2> HIDE DEF q
  <2>4. /\ p \in AuthState /\ p.phase = "calling" /\ p.caller = "start"
        /\ p.account = q.account /\ p.failed = q.failed /\ p.target = q.target
        /\ p.released = q.released /\ p.tried = q.tried
    BY <2>1 DEF AuthState, Phases, Callers
  <2> HIDE DEF p
  <2>5. PICK o \in {p, Start(q)} : Become(r, o)
    BY <2>2
  <2>6. /\ o \in AuthState /\ o.phase = "calling" /\ o.caller = "start"
        /\ o.account = q.account /\ o.failed = q.failed /\ o.target = q.target
        /\ o.released = q.released /\ o.tried = q.tried
    BY <2>1, <2>4, StartState
  <2>7. store' \in [Account -> StoreStates] /\ Forgives
    BY <1>2, <2>3, LoginTypes
  <2> QED
    BY <1>1, <1>2, <2>1, <2>5, <2>6, <2>7, GoesOn
<1>8. CASE RefreshNotSaved(r)
  <2> DEFINE p == LoggedIn(Refreshed(r, "failed"))
             q == [p EXCEPT !.phase = "switching"]
  <2>1. /\ p \in AuthState /\ p.caller = req[r].caller
        /\ p.account = req[r].account /\ p.failed = req[r].failed
        /\ p.target = req[r].target
        /\ p.released = req[r].released /\ p.tried = req[r].tried
        /\ p.attempts = req[r].attempts
    BY <1>0, <1>2, RefreshedState, LoggedInState
  <2>2. Become(r, q) /\ LoginLifts(req[r].account, {"authFailed"})
    BY <1>8 DEF RefreshNotSaved, LoginSucceeds
  <2> HIDE DEF p
  <2>3. /\ q \in AuthState /\ q.phase = "switching" /\ q.caller = p.caller
        /\ q.account = p.account /\ q.failed = p.failed /\ q.target = p.target
        /\ q.released = p.released /\ q.tried = p.tried /\ q.attempts = p.attempts
    BY <1>4, <2>1 DEF AuthState
  <2> HIDE DEF q
  <2>4. store' \in [Account -> StoreStates] /\ Forgives
    BY <1>2, <2>2, LoginTypes
  <2> QED
    BY <1>1, <1>2, <2>1, <2>2, <2>3, <2>4, GoesOn
<1>9. CASE RefreshRejected(r)
  BY <1>0, <1>2, <1>5, <1>9, RefreshedState DEF RefreshRejected
<1>10. CASE RefreshFails(r)
  <2> DEFINE p == Refreshed(r, "failed")
             q == [p EXCEPT !.phase = "switching", !.next = "idle"]
  <2>1. /\ p \in AuthState /\ p.caller = req[r].caller
        /\ p.account = req[r].account /\ p.failed = req[r].failed
        /\ p.target = req[r].target
        /\ p.released = req[r].released /\ p.tried = req[r].tried
        /\ p.attempts = req[r].attempts
    BY <1>0, <1>2, RefreshedState
  <2>2. Become(r, q) /\ UNCHANGED <<store, failures, row>>
    BY <1>10 DEF RefreshFails
  <2> HIDE DEF p
  <2>3. /\ q \in AuthState /\ q.phase = "switching" /\ q.caller = p.caller
        /\ q.account = p.account /\ q.failed = p.failed /\ q.target = p.target
        /\ q.released = p.released /\ q.tried = p.tried /\ q.attempts = p.attempts
    BY <1>4, <2>1 DEF AuthState, Phases
  <2> HIDE DEF q
  <2> QED
    BY <1>1, <1>2, <2>1, <2>2, <2>3, GoesOn, Unforgotten DEF AuthInv, AuthTypeOK
<1> QED
  BY <1>6, <1>7, <1>8, <1>9, <1>10

\* SwitchAccount: the account is given back, then another one is taken or there is none.
LEMMA SwitchGood ==
  ASSUME AuthAssumption, AuthInv, NEW r \in Request,
         LeaveAccount(r) \/ TakeAnother(r) \/ NoOther(r)
  PROVE  GoodStep
<1>0. /\ req[r] \in AuthState /\ ReqInv(req[r], held[r])
      /\ held[r] \in Account \union {None}
  BY OfRequest
<1>1. req[r].phase \in {"switching", "replacing"} /\ UNCHANGED <<store, failures, row>>
  BY DEF LeaveAccount, TakeAnother, NoOther
<1>2. /\ PhaseOf(req[r]) = req[r].phase /\ req[r].caller # "determine"
      /\ req[r].caller \in {"loop", "captcha"} => req[r].attempts < MaxAttempts
      /\ req[r].released \subseteq req[r].tried
      /\ req[r].phase = "switching" => req[r].account \in Account
      /\ req[r].phase = "replacing" =>
           /\ held[r] = None
           /\ req[r].account \in Account /\ req[r].account \in req[r].released
      /\ req[r].target = None =>
           req[r].failed \subseteq req[r].tried \union
             IF req[r].phase = "switching" THEN {req[r].account} ELSE {}
  BY <1>0, <1>1 DEF ReqInv, SlotOf, PhaseOf, Away, Beginning, AuthState, Moved
<1>3. CASE LeaveAccount(r)
  <2> DEFINE t == req[r].tried \union {req[r].account}
             u == req[r].released \union {req[r].account}
             q == [req[r] EXCEPT !.phase = "replacing", !.tried = t, !.released = u]
  <2>1. Become(r, q) /\ ReleaseAccountSlot(r) /\ req[r].phase = "switching"
    BY <1>3 DEF LeaveAccount
  <2>2. /\ t \in SUBSET Account /\ u \in SUBSET Account /\ u \subseteq t
        /\ req[r].account \in u
    BY <1>0, <1>2, <2>1 DEF AuthState
  <2> HIDE DEF t, u
  <2>3. /\ q \in AuthState /\ q.phase = "replacing" /\ q.tried = t /\ q.released = u
        /\ q.caller = req[r].caller /\ q.failed = req[r].failed
        /\ q.target = req[r].target
        /\ q.attempts = req[r].attempts /\ q.account = req[r].account
    BY <1>0, <2>2 DEF AuthState, Phases
  <2> HIDE DEF q
  <2>4. ReqInv(q, None) /\ q.phase # "retiring"
    BY <1>2, <2>1, <2>2, <2>3, Between DEF t
  <2>5. /\ inUse' \in [Account -> Nat] /\ held' = [held EXCEPT ![r] = None]
        /\ [Slots!Next]_(Slots!slotVars)
    BY <1>2, <2>1, AccountSlotGiven DEF Away
  <2>6. FailuresNoted'
    BY <1>1, <2>1, <2>3, StillNoted
  <2> QED
    BY <1>1, <2>1, <2>3, <2>4, <2>5, <2>6, OneRequest DEF AuthInv, AuthTypeOK
<1>4. CASE TakeAnother(r)
  <2>1. PICK a \in Acquirable(r) :
          /\ Acquire(r, a)
          /\ Become(r, [req[r] EXCEPT !.phase = "ensuring", !.account = a])
    BY <1>4 DEF TakeAnother
  <2> DEFINE q == [req[r] EXCEPT !.phase = "ensuring", !.account = a]
  <2>2. a \in Account /\ a \notin req[r].tried /\ req[r].phase = "replacing"
    BY <1>4 DEF TakeAnother, Acquirable
  <2>3. /\ q \in AuthState
        /\ q.phase = "ensuring" /\ q.account = a /\ q.caller = req[r].caller
        /\ q.released = req[r].released /\ q.tried = req[r].tried
        /\ q.failed = req[r].failed
        /\ q.target = req[r].target /\ q.attempts = req[r].attempts
    BY <1>0, <2>2 DEF AuthState, Phases
  <2>4. Become(r, q)
    BY <2>1
  <2> HIDE DEF q
  <2>5. ReqInv(q, a)
    BY <1>2, <2>2, <2>3 DEF ReqInv, SlotOf, PhaseOf, Away, Beginning, Moved
  <2>6. /\ inUse' \in [Account -> Nat] /\ held' = [held EXCEPT ![r] = a]
        /\ [Slots!Next]_(Slots!slotVars)
    BY <1>2, <2>1, <2>2, SlotTaken
  <2>7. FailuresNoted'
    BY <1>1, <2>3, <2>4, StillNoted
  <2> QED
    BY <1>1, <2>2, <2>3, <2>4, <2>5, <2>6, <2>7, OneRequest DEF AuthInv, AuthTypeOK
<1>5. CASE NoOther(r)
  <2>1. /\ UNCHANGED <<inUse, held, store, failures, row>>
        /\ \/ req[r].caller = "loop" /\ Become(r, Retry(req[r]))
           \/ \E f \in {"switching", "ending"} : Become(r, Over(req[r], f))
    BY <1>5 DEF NoOther
  <2>2. ASSUME NEW q \in AuthState, Become(r, q), q.account = req[r].account,
               q.released = req[r].released, q.tried = req[r].tried,
               q.failed = req[r].failed, q.target = req[r].target, q.caller = "start",
               q.phase \in {"calling", "switching", "ending"}
        PROVE  GoodStep
    <3>1. ReqInv(q, held[r]) /\ q.phase # "retiring"
      BY <1>0, <1>1, <1>2, <1>5, <2>2
         DEF ReqInv, SlotOf, PhaseOf, Away, Beginning, Moved, NoOther
    <3> QED
      BY <2>1, <2>2, <3>1, OnlyTheRequest
  <2>3. CASE req[r].caller = "loop" /\ Become(r, Retry(req[r]))
    BY <1>0, <1>2, <2>2, <2>3, RetryState
  <2>4. ASSUME NEW f \in {"switching", "ending"}, Become(r, Over(req[r], f))
        PROVE  GoodStep
    <3>1. f \in Phases
      BY DEF Phases
    <3> QED
      BY <1>0, <2>2, <2>4, <3>1, OverState
  <2> QED
    BY <2>1, <2>3, <2>4
<1> QED
  BY <1>3, <1>4, <1>5

-----------------------------------------------------------------------------
(* The end of a request, and others                                          *)

LEMMA EndGood ==
  ASSUME AuthAssumption, AuthInv, NEW r \in Request, Generated(r) \/ Release(r)
  PROVE  GoodStep
<1>0. /\ req[r] \in AuthState /\ ReqInv(req[r], held[r])
  BY OfRequest
<1>1. PhaseOf(req[r]) \notin Away /\ UNCHANGED store
  BY DEF Generated, Release, PhaseOf, Away
<1>2. CASE Generated(r)
  <2>1. /\ Become(r, Over(req[r], "ending")) /\ "ending" \in Phases
        /\ UNCHANGED <<inUse, held, failures, row>>
    BY <1>2 DEF Generated, Phases
  <2> QED
    BY <1>0, <1>1, <1>2, <2>1, OverState, GoesOn, Unforgotten
       DEF AuthInv, AuthTypeOK, Generated, PhaseOf
<1>3. CASE Release(r)
  <2>1. SettleAuthFailures(r) /\ ReleaseAccountSlot(r) /\ Finish(r)
    BY <1>3 DEF Release
  <2>2. /\ failures' \in [Account -> Nat]
        /\ \A a \in Account : failures'[a] > 0 =>
             failures[a] > 0 /\ a \notin req[r].used \ req[r].failed
    BY <2>1 DEF SettleAuthFailures, AuthInv, AuthTypeOK
  <2> QED
    BY <1>1, <2>1, <2>2, AccountSlotGiven, FinishGood
<1> QED
  BY <1>2, <1>3

\* An administrator, a clock, or nobody.
LEMMA OthersGood ==
  ASSUME AuthInv,
         (\E a \in Account : TestAccount(a) \/ RestEnds(a)) \/ UNCHANGED vars
  PROVE  GoodStep
<1>1. /\ UNCHANGED <<held, req>> /\ inUse' \in [Account -> Nat]
      /\ store' \in [Account -> StoreStates] /\ Forgives
      /\ [Slots!Next]_(Slots!slotVars)
  <2>1. ASSUME NEW a \in Account, LoginLifts(a, {"authFailed", "banned"}),
               UNCHANGED <<inUse, held, req>>
        PROVE  <1>1!:
    BY <2>1, LoginTypes DEF AuthInv, AuthTypeOK, Slots!slotVars
  <2>2. ASSUME NEW a \in Account, a \in Rejectable, PersistBanned(a),
               UNCHANGED <<failures, row, held, req>>
        PROVE  <1>1!:
    BY <2>2, Forgotten, Unforgotten
       DEF PersistBanned, Leaving, AuthInv, AuthTypeOK, StoreStates
  <2>3. ASSUME NEW a \in Account, RestEnds(a) PROVE <1>1!:
    BY <2>3, Unforgotten DEF RestEnds, AuthInv, AuthTypeOK, StoreStates, Slots!slotVars
  <2>4. CASE UNCHANGED vars
    BY <2>4, Unforgotten DEF vars, AuthInv, AuthTypeOK, Slots!slotVars
  <2> QED
    BY <2>1, <2>2, <2>3, <2>4 DEF TestAccount
<1>2. AuthTypeOK' /\ FailuresNoted' /\ RowStep
  BY <1>1 DEF AuthInv, AuthTypeOK, FailuresNoted, RowStep, Forgives
<1>3. \A r \in Request : ReqInv(req'[r], held'[r])
  BY <1>1 DEF AuthInv
<1> QED
  BY <1>1, <1>2, <1>3 DEF GoodStep, AuthInv

LEMMA StepGood ==
  ASSUME AuthAssumption, AuthInv, [Next]_vars
  PROVE  GoodStep
<1>1. ASSUME NEW r \in Request, Determine(r) \/ Step(r) PROVE GoodStep
  BY <1>1, DetermineGood, EnsureGood, RetireGood, CallGood, RecoverGood, SwitchGood,
     EndGood DEF Step
<1> QED
  BY <1>1, OthersGood DEF Next

LEMMA AuthInit == ASSUME AuthAssumption, Init PROVE AuthInv /\ Slots!Init
<1>1. AuthTypeOK
  BY NewRequestState DEF Init, AuthTypeOK, StoreStates
<1>2. \A r \in Request : ReqInv(req[r], held[r])
  BY NewRequestState DEF Init
<1>3. FailuresNoted
  <2>1. ASSUME NEW a \in Account PROVE ~(failures[a] > 0) /\ row[a] = {}
    BY DEF Init
  <2> QED
    BY <2>1 DEF FailuresNoted
<1> QED
  BY <1>1, <1>2, <1>3 DEF AuthInv, Init, Slots!Init

LEMMA AuthInvariant == Spec => []AuthInv
<1>1. AuthInv /\ [Next]_vars => AuthInv'
  BY AuthAssumption, StepGood DEF GoodStep
<1>2. Init => AuthInv
  BY AuthAssumption, AuthInit
<1> QED
  BY <1>1, <1>2, PTL DEF Spec

-----------------------------------------------------------------------------
(* The theorems                                                              *)

\* The types of the requests' state, whatever logins and upstream answer.
THEOREM AuthTypesAreRight == Spec => []AuthTypeOK
<1>1. AuthInv => AuthTypeOK
  BY DEF AuthInv
<1> QED
  BY <1>1, AuthInvariant, PTL

\* A request without an account, before Determine has found one, between two accounts,
\* or after Release, holds no slot.
THEOREM NothingIsLeftBehind == Spec => []NothingLeftBehind
<1>1. AuthInv => NothingLeftBehind
  BY DEF AuthInv, NothingLeftBehind, ReqInv, SlotOf, PhaseOf, Away
<1> QED
  BY <1>1, AuthInvariant, PTL

\* The requests, with all their logins, switches and retries, are good callers of the
\* pool: they take one slot at a time and give it back once (releaseAccountSlot).
THEOREM RequestsImplementSlotPool == Spec => SlotsGivenBackOnce
<1>1. Init => Slots!Init
  BY AuthAssumption, AuthInit
<1>2. AuthInv /\ [Next]_vars => [Slots!Next]_(Slots!slotVars)
  BY AuthAssumption, StepGood DEF GoodStep
<1> QED
  BY <1>1, <1>2, AuthInvariant, PTL DEF Spec, SlotsGivenBackOnce, Slots!Spec

\* An account is only retired for failures of several requests in a row, or of one
\* that has to stay with it (MarkAuthFailure, settleAuthFailures).
THEOREM RetiredForFailuresInARow == Spec => OnlyFailuresInARow
<1>1. AuthInv /\ [Next]_vars => RowStep
  BY AuthAssumption, StepGood DEF GoodStep
<1>2. AuthInv /\ [Next]_vars =>
        [\A r \in Request :
           req'[r].phase = "retiring" /\ req[r].phase # "retiring" =>
             LET earlier == row[req'[r].account] IN
               earlier \ {r} # {} \/ (r \in earlier /\ Stuck(r))]_vars
  BY <1>1 DEF RowStep
<1> QED
  BY <1>2, AuthInvariant, PTL DEF Spec, OnlyFailuresInARow
=============================================================================
