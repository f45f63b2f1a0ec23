---------------------------- MODULE StreamLease ----------------------------
(***************************************************************************)
(* The stream leases of the Vercel deployment                              *)
(* (internal/httpapi/openai/chat/vercel_stream.go): a Node function        *)
(* prepares a request in the Go process, streams from the upstream itself, *)
(* asks for another account when the upstream refuses one, and releases    *)
(* the lease at the end.  The Go process keeps the request's account slot  *)
(* in the lease meanwhile, and takes it back when the lease is over age.   *)
(*                                                                         *)
(* A call of the Node function is a handler of its own in the Go process,  *)
(* so a handler whose call was given up goes on.  RequestAuth has no lock: *)
(* reading releasedAccounts and returning the slot are two steps here.     *)
(* What the handlers do with tokens and sessions is RequestAuth's; the     *)
(* Node function never sends auth_failed, see the README.                  *)
(***************************************************************************)
EXTENDS Accounts, Naturals

CONSTANTS
  Stream,      \* requests of the Node function; a lease is named by its request
  None,
  Cap,         \* account_max_inflight
  TTL          \* ticks until a lease is over age

ASSUME LeaseAssumption ==
  /\ None \notin Account \union Stream \union (Stream \X Account)
  /\ None \notin [left : Nat, session : Account]
  /\ Cap \in Nat \ {0} /\ TTL \in Nat

Prepare(s) == <<s, "prepare">>
Switch(s) == <<s, "switch">>
Release(s) == <<s, "release">>
Visit == <<None, "refused">>     \* calls refused for their body or their secret
Handler == Stream \X {"prepare", "switch", "release"} \union {Visit}

VARIABLES
  node, on,      \* the Node function: how far it is, and the account it streams from
  lease,         \* h.streamLeases: the ticks left, and whose session it names
  account, tried, released,    \* RequestAuth
  inUse,         \* the pool's counts
  at,            \* how far a handler is
  popped,        \* the requests whose RequestAuth a handler must release
  giving,        \* the slot a handler is about to return: it was not returned yet
  raced          \* ghost: leases that ended while a switch worked on them

auths == <<account, tried, released>>
vars == <<node, on, lease, auths, inUse, at, popped, giving, raced>>

Held(s) == IF account[s] \in released[s] THEN None ELSE account[s]

Init ==
  /\ node = [s \in Stream |-> "new"] /\ on = [s \in Stream |-> None]
  /\ lease = [s \in Stream |-> None]
  /\ account = [s \in Stream |-> None]
  /\ tried = [s \in Stream |-> {}] /\ released = [s \in Stream |-> {}]
  /\ inUse = [a \in Account |-> 0]
  /\ at = [h \in Handler |-> "off"]
  /\ popped = [h \in Handler |-> {}] /\ giving = [h \in Handler |-> None]
  /\ raced = {}

Expired == {s \in Stream : lease[s] # None /\ lease[s].left = 0}

Switching == {s \in Stream : at[Switch(s)] \in {"give", "acquire", "login", "payload"}}

\* The leases in S leave the map, under leaseMu.
Pop(h, S) ==
  /\ lease' = [s \in Stream |-> IF s \in S THEN None ELSE lease[s]]
  /\ raced' = raced \union (S \intersect Switching)

Goto(h, phase) == at' = [at EXCEPT ![h] = phase]

\* A handler goes on when it has released what it popped.
Quiet(h) == popped[h] = {} /\ giving[h] = None

Owe(h, S) == popped' = [popped EXCEPT ![h] = @ \union S]

-----------------------------------------------------------------------------
(* Releasing a RequestAuth (auth/request.go)                                 *)

BugReadNothing(s, a) == <<s, a>>

\* Whether slot a of the request is still to be returned
Taken(s, a) == IF a \in released[s] THEN None ELSE <<s, a>>

\* Resolver.Release up to the look at releasedAccounts
ReleaseAuth(h) ==
  \E s \in popped[h] :
    /\ giving[h] = None
    /\ popped' = [popped EXCEPT ![h] = @ \ {s}]
    /\ giving' = [giving EXCEPT ![h] = Taken(s, account[s])]
    /\ UNCHANGED <<node, on, lease, auths, inUse, at, raced>>

\* releaseAccountSlot marks the account and Pool.Release decrements its count.
GiveBack(h) ==
  \E s \in Stream, a \in Account :
    /\ giving[h] = <<s, a>>
    /\ giving' = [giving EXCEPT ![h] = None]
    /\ released' = [released EXCEPT ![s] = @ \union {a}]
    /\ inUse' = [inUse EXCEPT ![a] = IF @ = 0 THEN 0 ELSE @ - 1]
    /\ UNCHANGED <<node, on, lease, account, tried, at, popped, raced>>

\* Pool.Acquire
Acquire(s, a) ==
  /\ inUse[a] < Cap
  /\ inUse' = [inUse EXCEPT ![a] = @ + 1]
  /\ account' = [account EXCEPT ![s] = a]

-----------------------------------------------------------------------------
(* The handlers                                                              *)

\* Every handler but that of proof of work first sweeps the leases: sweepExpiredStreamLeases.
Sweep(h) == Pop(h, Expired) /\ Owe(h, Expired)

\* A call that is refused for its secret or its body does no more.
Refused ==
  /\ Quiet(Visit) /\ Sweep(Visit)
  /\ UNCHANGED <<node, on, auths, inUse, at, giving>>

Determine(s) ==
  /\ at[Prepare(s)] = "start" /\ Quiet(Prepare(s))
  /\ \/ \E a \in Account : Acquire(s, a) /\ Goto(Prepare(s), "prepare") /\ UNCHANGED node
     \/ /\ Goto(Prepare(s), "done")
        /\ node' = [node EXCEPT ![s] = "gone"]
        /\ UNCHANGED <<account, inUse>>
  /\ UNCHANGED <<on, lease, tried, released, popped, giving, raced>>

BugSlotKept(s) ==
  /\ at[Prepare(s)] = "prepare"
  /\ node' = [node EXCEPT ![s] = "gone"]
  /\ Goto(Prepare(s), "done")
  /\ UNCHANGED <<on, lease, auths, inUse, popped, giving, raced>>

\* A step before holdStreamLease fails, and the deferred Release runs.
PrepareFails(s) ==
  /\ at[Prepare(s)] = "prepare"
  /\ node' = [node EXCEPT ![s] = "gone"]
  /\ Goto(Prepare(s), "done") /\ Owe(Prepare(s), {s})
  /\ UNCHANGED <<on, lease, auths, inUse, giving, raced>>

NewLease(s) == [left |-> TTL, session |-> account[s]]

HoldStreamLease(s) ==
  /\ at[Prepare(s)] = "prepare"
  /\ Goto(Prepare(s), "answer") /\ Owe(Prepare(s), Expired)
  /\ lease' = [t \in Stream |-> IF t = s THEN NewLease(s)
                                ELSE IF t \in Expired THEN None ELSE lease[t]]
  /\ raced' = raced \union (Expired \intersect Switching)
  /\ UNCHANGED <<node, on, auths, inUse, giving>>

\* The answer reaches a function that still waits for it.
PrepareAnswer(s) ==
  /\ at[Prepare(s)] = "answer" /\ Quiet(Prepare(s))
  /\ Goto(Prepare(s), "done")
  /\ IF node[s] = "preparing"
     THEN node' = [node EXCEPT ![s] = "streaming"] /\ on' = [on EXCEPT ![s] = account[s]]
     ELSE UNCHANGED <<node, on>>
  /\ UNCHANGED <<lease, auths, inUse, popped, giving, raced>>

SwitchAnswer(s, ok) ==
  /\ Goto(Switch(s), "off")
  /\ IF node[s] = "switching"
     THEN /\ node' = [node EXCEPT ![s] = IF ok THEN "streaming" ELSE "ending"]
          /\ on' = [on EXCEPT ![s] = IF ok THEN account[s] ELSE None]
     ELSE UNCHANGED <<node, on>>

LookupStreamLease(s) ==
  /\ at[Switch(s)] = "start" /\ Quiet(Switch(s))
  /\ IF lease[s] = None \/ s \in Expired
     THEN SwitchAnswer(s, FALSE)
     ELSE Goto(Switch(s), "give") /\ UNCHANGED <<node, on>>
  /\ UNCHANGED <<lease, auths, inUse, popped, giving, raced>>

\* SwitchAccount: the slot is returned before another is sought,
SwitchGive(s) ==
  /\ at[Switch(s)] = "give"
  /\ tried' = [tried EXCEPT ![s] = @ \union {account[s]}]
  /\ giving' = [giving EXCEPT ![Switch(s)] = Taken(s, account[s])]
  /\ Goto(Switch(s), "acquire")
  /\ UNCHANGED <<node, on, lease, account, released, inUse, popped, raced>>

\* ... of an account not yet tried,
SwitchAcquire(s) ==
  /\ at[Switch(s)] = "acquire" /\ Quiet(Switch(s))
  /\ \/ \E a \in Account \ tried[s] :
          Acquire(s, a) /\ Goto(Switch(s), "login") /\ UNCHANGED <<node, on>>
     \/ SwitchAnswer(s, FALSE) /\ UNCHANGED <<account, inUse>>
  /\ UNCHANGED <<lease, tried, released, popped, giving, raced>>

\* ... and given up for the next one when its login fails.
SwitchLogin(s) ==
  /\ at[Switch(s)] = "login"
  /\ \/ Goto(Switch(s), "payload") /\ UNCHANGED <<tried, giving>>
     \/ /\ tried' = [tried EXCEPT ![s] = @ \union {account[s]}]
        /\ giving' = [giving EXCEPT ![Switch(s)] = Taken(s, account[s])]
        /\ Goto(Switch(s), "acquire")
  /\ UNCHANGED <<node, on, lease, account, released, inUse, popped, raced>>

BugStateNotUpdated(s) == lease

\* updateStreamLeaseState
Updated(s) ==
  IF lease[s] = None THEN lease ELSE [lease EXCEPT ![s].session = account[s]]

\* PrepareCompletionPayload for the new account fails or not.
SwitchPayload(s) ==
  /\ at[Switch(s)] = "payload"
  /\ \/ SwitchAnswer(s, TRUE) /\ lease' = Updated(s)
     \/ SwitchAnswer(s, FALSE) /\ UNCHANGED lease
  /\ UNCHANGED <<auths, inUse, popped, giving, raced>>

\* releaseStreamLease: whoever takes the lease out of the map releases it.
ReleaseStreamLease(s) ==
  /\ at[Release(s)] = "start" /\ Quiet(Release(s))
  /\ Pop(Release(s), Expired \union {s}) /\ Owe(Release(s), Expired)
  /\ Goto(Release(s), IF lease[s] = None \/ s \in Expired THEN "done" ELSE "deleting")
  /\ UNCHANGED <<node, on, auths, inUse, giving>>

\* autoDeleteRemoteSession, and the deferred Release
ReleaseEnd(s) ==
  /\ at[Release(s)] = "deleting" /\ Quiet(Release(s))
  /\ Owe(Release(s), {s}) /\ Goto(Release(s), "done")
  /\ UNCHANGED <<node, on, lease, auths, inUse, giving, raced>>

-----------------------------------------------------------------------------
(* The Node function (internal/js/chat-stream/vercel_stream_impl.js)         *)

Call(h, s, from, to) ==
  /\ node[s] = from /\ at[h] = "off" /\ Quiet(h)
  /\ node' = [node EXCEPT ![s] = to]
  /\ Sweep(h) /\ Goto(h, "start")

CallPrepare(s) == Call(Prepare(s), s, "new", "preparing") /\ UNCHANGED <<on, auths, inUse, giving>>

\* The upstream refuses the account: mute, ban, an error status, no output.
CallSwitch(s) ==
  /\ Call(Switch(s), s, "streaming", "switching") /\ on' = [on EXCEPT ![s] = None]
  /\ UNCHANGED <<auths, inUse, giving>>

\* The stream ends, or the call of a switch fails before its answer.
Finish(s) ==
  /\ node[s] \in {"streaming", "switching"}
  /\ node' = [node EXCEPT ![s] = "ending"] /\ on' = [on EXCEPT ![s] = None]
  /\ UNCHANGED <<lease, auths, inUse, at, popped, giving, raced>>

\* releaseLease is called once, and its errors are ignored.
CallRelease(s) ==
  Call(Release(s), s, "ending", "gone") /\ UNCHANGED <<on, auths, inUse, giving>>

\* The function dies, or its call of release is lost.
Vanish(s) ==
  /\ node[s] \in {"preparing", "streaming", "switching", "ending"}
  /\ node' = [node EXCEPT ![s] = "gone"] /\ on' = [on EXCEPT ![s] = None]
  /\ UNCHANGED <<lease, auths, inUse, at, popped, giving, raced>>

Tick ==
  /\ lease' = [s \in Stream |-> IF lease[s] = None \/ s \in Expired THEN lease[s]
                                ELSE [lease[s] EXCEPT !.left = @ - 1]]
  /\ UNCHANGED <<node, on, auths, inUse, at, popped, giving, raced>>

PrepareStep(s) == Determine(s) \/ PrepareFails(s) \/ HoldStreamLease(s) \/ PrepareAnswer(s)
SwitchStep(s) ==
  LookupStreamLease(s) \/ SwitchGive(s) \/ SwitchAcquire(s) \/ SwitchLogin(s) \/ SwitchPayload(s)
ReleaseStep(s) == ReleaseStreamLease(s) \/ ReleaseEnd(s)
Return(h) == ReleaseAuth(h) \/ GiveBack(h)

Handlers ==
  \/ \E s \in Stream : PrepareStep(s) \/ SwitchStep(s) \/ ReleaseStep(s)
  \/ \E h \in Handler : Return(h)

Next ==
  \/ \E s \in Stream :
       CallPrepare(s) \/ CallSwitch(s) \/ Finish(s) \/ CallRelease(s) \/ Vanish(s)
  \/ Handlers \/ Refused \/ Tick

\* Handlers that run go on, time passes, and calls keep coming: without them nobody
\* sweeps.  That some handler goes on is enough, since none takes endless steps.  The Node
\* function owes nothing.
Fairness == WF_vars(Handlers) /\ WF_vars(Refused) /\ WF_vars(Tick)

Spec == Init /\ [][Next]_vars
FairSpec == Spec /\ Fairness

-----------------------------------------------------------------------------
(* Properties                                                                *)

LeaseTypeOK ==
  /\ node \in [Stream -> {"new", "preparing", "streaming", "switching", "ending", "gone"}]
  /\ on \in [Stream -> Account \union {None}]
  /\ lease \in [Stream -> [left : 0 .. TTL, session : Account] \union {None}]
  /\ account \in [Stream -> Account \union {None}]
  /\ tried \in [Stream -> SUBSET Account] /\ released \in [Stream -> SUBSET Account]
  /\ inUse \in [Account -> 0 .. Cap]
  /\ at \in [Handler -> {"off", "start", "prepare", "answer", "give", "acquire", "login",
                         "payload", "deleting", "done"}]
  /\ popped \in [Handler -> SUBSET Stream]
  /\ giving \in [Handler -> Stream \X Account \union {None}]
  /\ raced \subseteq Stream

\* While a function streams and its lease is kept, the account it streams from is the one
\* whose slot it holds, and its lease names a session of that account, whatever other
\* requests sweep meanwhile.
StreamsOnItsSlot ==
  \A s \in Stream : node[s] = "streaming" /\ lease[s] # None =>
    on[s] = Held(s) /\ on[s] = lease[s].session

\* Release, expiry, switches and failed preparations together use the pool as it
\* promises: at most one slot per request, each returned once, by whichever handler.  Only
\* a lease that ends while a switch works on it may break this (see SlotsComeBack).
Slots == INSTANCE SlotPool WITH
  Request <- Stream, Caps <- {Cap}, removable <- {}, held <- [s \in Stream |-> Held(s)]
SlotsAsPromised == [][raced' = {} => [Slots!Next]_(Slots!slotVars)]_vars

\* The slot of a function that is gone, also of one that died without a release, is
\* returned by the handlers or by the sweep of a later call.
Abandoned == {s \in Stream : node[s] = "gone" /\ Held(s) # None}
AbandonedSlotReturns == Abandoned \ raced # {} ~> Abandoned \ raced = {}

\* http_internal.js:200: an error of the release call does not matter, the expiry of the
\* lease still prevents permanent leaks.
SlotsComeBack == Abandoned # {} ~> Abandoned = {}
=============================================================================
