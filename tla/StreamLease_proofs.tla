------------------------- MODULE StreamLease_proofs -------------------------
(***************************************************************************)
(* What holds of the leases for every set of accounts and streams, every   *)
(* limit and every age: a function streams on the slot its lease holds,    *)
(* and, as long as no lease ended under a switch, each slot is taken and   *)
(* given back as the pool promises.                                        *)
(***************************************************************************)
EXTENDS StreamLease, TLAPS

\* Nobody is about to return a slot of s.
Unclaimed(s) ==
  \A h \in Handler : s \notin popped[h] /\ \A a \in Account : giving[h] # <<s, a>>

\* Where the handlers of s are, and what is not yet there while its request is prepared.
Stages(s) ==
  /\ at[Prepare(s)] \in {"off", "start", "prepare", "answer", "done"}
  /\ at[Switch(s)] \in {"off", "start", "give", "acquire", "login", "payload"}
  /\ at[Release(s)] \in {"off", "start", "deleting", "done"}
  /\ at[Prepare(s)] # "done" =>
       /\ at[Switch(s)] = "off" /\ at[Release(s)] = "off"
       /\ node[s] \in {"new", "preparing", "gone"} /\ s \notin raced
  /\ at[Prepare(s)] \in {"off", "start", "prepare"} =>
       /\ lease[s] = None /\ Unclaimed(s)
       /\ tried[s] = {} /\ released[s] = {}
  /\ at[Prepare(s)] \in {"off", "start"} => account[s] = None
  /\ account[s] = None =>
       /\ lease[s] = None /\ \A h \in Handler : s \notin popped[h]
       /\ at[Prepare(s)] \in {"off", "start", "done"}
       /\ at[Switch(s)] = "off" /\ at[Release(s)] = "off"
       /\ node[s] \in {"new", "preparing", "gone"}

\* A lease in the map: nobody else releases its request, and a function that streams has
\* the answer of the last call.
Leased(s) ==
  lease[s] # None =>
    /\ s \notin raced /\ at[Release(s)] # "deleting" /\ released[s] \subseteq tried[s]
    /\ \A h \in Handler :
         /\ s \notin popped[h]
         /\ \A a \in Account : giving[h] = <<s, a>> => h = Switch(s) /\ at[h] = "acquire"
    /\ at[Prepare(s)] = "answer" => released[s] = {} /\ lease[s].session = account[s]
    /\ node[s] = "streaming" =>
         /\ at[Switch(s)] = "off" /\ on[s] = account[s] /\ lease[s].session = account[s]
         /\ account[s] \notin released[s]

\* One handler at most is about to release the request, and what it returns is still held.
Single(s) ==
  s \notin raced =>
    /\ s \in Switching => lease[s] # None
    /\ \A h, k \in Handler : s \in popped[h] /\ s \in popped[k] => h = k
    /\ \A h, k \in Handler, a \in Account : s \in popped[h] => giving[k] # <<s, a>>
    /\ \A h, k \in Handler, a, b \in Account :
         giving[h] = <<s, a>> /\ giving[k] = <<s, b>> => h = k
    /\ \A h \in Handler, a \in Account :
         giving[h] = <<s, a>> => a = account[s] /\ a \notin released[s]
    /\ at[Release(s)] = "deleting" => lease[s] = None /\ Unclaimed(s)

\* How far a switch is with the slots of its request.
Switches(s) ==
  /\ at[Switch(s)] \in {"give", "login", "payload"} => Quiet(Switch(s))
  /\ at[Switch(s)] = "acquire" =>
       /\ popped[Switch(s)] = {} /\ account[s] \in tried[s]
       /\ giving[Switch(s)] \in {None, <<s, account[s]>>}
       /\ giving[Switch(s)] = None => account[s] \in released[s]
  /\ s \notin raced /\ at[Switch(s)] \in {"login", "payload"} => account[s] \notin released[s]

Row(s) == Stages(s) /\ Leased(s) /\ Single(s) /\ Switches(s)

LeaseInv == LeaseTypeOK /\ \A s \in Stream : Row(s)

-----------------------------------------------------------------------------
LEMMA Names ==
  /\ Visit \in Handler
  /\ \A s \in Stream :
       /\ Prepare(s) \in Handler /\ Switch(s) \in Handler /\ Release(s) \in Handler
       /\ Prepare(s) # Visit /\ Switch(s) # Visit /\ Release(s) # Visit
  /\ \A s, t \in Stream :
       /\ s # t => Prepare(s) # Prepare(t) /\ Switch(s) # Switch(t) /\ Release(s) # Release(t)
       /\ Prepare(s) # Switch(t) /\ Prepare(s) # Release(t) /\ Switch(s) # Release(t)
BY LeaseAssumption DEF Handler, Prepare, Switch, Release, Visit

LEMMA NoneIsNoSlot == \A s \in Stream, a \in Account : <<s, a>> # None
BY LeaseAssumption

\* What is the same of stream t, whatever happens to the others.
Same(t) ==
  /\ node'[t] = node[t] /\ on'[t] = on[t]
  /\ account'[t] = account[t] /\ tried'[t] = tried[t] /\ released'[t] = released[t]
  /\ at'[Prepare(t)] = at[Prepare(t)] /\ at'[Switch(t)] = at[Switch(t)]
  /\ at'[Release(t)] = at[Release(t)]
  /\ \A h \in Handler, a \in Account : giving'[h] = <<t, a>> <=> giving[h] = <<t, a>>
  /\ at[Switch(t)] \in {"give", "acquire", "login", "payload"} =>
       popped'[Switch(t)] = popped[Switch(t)] /\ giving'[Switch(t)] = giving[Switch(t)]

\* Nothing of importance happens to t.
Untouched(t) ==
  /\ Same(t)
  /\ (lease'[t] = None) <=> (lease[t] = None)
  /\ lease[t] # None => lease'[t].session = lease[t].session
  /\ (t \in raced') <=> (t \in raced)
  /\ \A h \in Handler : (t \in popped'[h]) <=> (t \in popped[h])

\* Handler h takes the lease of t out of the map.
Swept(t, h) ==
  /\ Same(t)
  /\ lease[t] # None /\ lease'[t] = None
  /\ (t \in raced') <=> (t \in raced \/ t \in Switching)
  /\ \A k \in Handler : (t \in popped'[k]) <=> (k = h \/ t \in popped[k])

LEMMA UntouchedRow ==
  ASSUME NEW t \in Stream, Row(t), Untouched(t)
  PROVE  Row(t)'
<1>0. (t \in Switching') <=> (t \in Switching)
  BY DEF Untouched, Same, Switching
<1>1. Stages(t)'
  BY DEF Row, Untouched, Same, Stages, Unclaimed
<1>2. Leased(t)'
  BY DEF Row, Untouched, Same, Leased
<1>3. Single(t)'
  BY <1>0 DEF Row, Untouched, Same, Single, Unclaimed
<1>4. Switches(t)'
  BY DEF Row, Untouched, Same, Switches, Quiet
<1> QED
  BY <1>1, <1>2, <1>3, <1>4 DEF Row

LEMMA SweptRow ==
  ASSUME NEW t \in Stream, NEW h \in Handler, Row(t), Swept(t, h)
  PROVE  Row(t)'
<1>0. (t \in Switching') <=> (t \in Switching)
  BY DEF Swept, Same, Switching
<1>a. t \notin raced /\ at[Release(t)] # "deleting" /\ \A k \in Handler : t \notin popped[k]
  BY DEF Row, Swept, Leased
<1>b. at[Prepare(t)] \in {"answer", "done"} /\ account[t] # None
  BY DEF Row, Swept, Stages
<1>1. Stages(t)'
  <2>1. at[Prepare(t)] = "answer" => t \notin Switching
    BY DEF Row, Stages, Switching
  <2> QED
    BY <1>a, <1>b, <2>1 DEF Row, Swept, Same, Stages, Unclaimed
<1>2. Leased(t)'
  BY DEF Swept, Leased
<1>3. Single(t)'
  <2> SUFFICES ASSUME t \notin raced' PROVE Single(t)'
    BY DEF Single
  <2>1. t \notin Switching /\ t \notin Switching'
    BY <1>0 DEF Swept
  <2>2. \A k \in Handler, a \in Account : giving[k] # <<t, a>>
    BY <2>1, Names DEF Row, Leased, Swept, Switching
  <2>3. \A k \in Handler, a \in Account : giving'[k] # <<t, a>>
    BY <2>2 DEF Swept, Same
  <2> QED
    BY <1>a, <2>1, <2>3 DEF Single, Swept, Same
<1>4. Switches(t)'
  BY <1>a DEF Row, Swept, Same, Switches, Quiet
<1> QED
  BY <1>1, <1>2, <1>3, <1>4 DEF Row

-----------------------------------------------------------------------------
LEMMA LeaseInit ==
  ASSUME Init
  PROVE  LeaseInv
<1>1. LeaseTypeOK
  BY LeaseAssumption DEF Init, LeaseTypeOK
<1>2. ASSUME NEW s \in Stream PROVE Row(s)
  <2>1. at[Prepare(s)] = "off" /\ at[Switch(s)] = "off" /\ at[Release(s)] = "off"
    BY Names DEF Init
  <2>2. Unclaimed(s) /\ \A h \in Handler : s \notin popped[h]
    BY LeaseAssumption DEF Init, Unclaimed
  <2>3. Stages(s) /\ Leased(s)
    BY <2>1, <2>2 DEF Init, Stages, Leased
  <2>4. Single(s) /\ Switches(s)
    BY <2>1, <2>2 DEF Init, Single, Switches, Switching, Unclaimed
  <2> QED
    BY <2>3, <2>4 DEF Row
<1> QED
  BY <1>1, <1>2 DEF LeaseInv

Nodes == {"new", "preparing", "streaming", "switching", "ending", "gone"}
Phases == {"off", "start", "prepare", "answer", "give", "acquire", "login", "payload",
           "deleting", "done"}
Leases == [left : 0 .. TTL, session : Account] \union {None}
Returns == Stream \X Account \union {None}

\* The types by their names.
Types ==
  /\ node \in [Stream -> Nodes] /\ on \in [Stream -> Account \union {None}]
  /\ lease \in [Stream -> Leases]
  /\ account \in [Stream -> Account \union {None}]
  /\ tried \in [Stream -> SUBSET Account] /\ released \in [Stream -> SUBSET Account]
  /\ inUse \in [Account -> 0 .. Cap]
  /\ at \in [Handler -> Phases] /\ popped \in [Handler -> SUBSET Stream]
  /\ giving \in [Handler -> Returns] /\ raced \in SUBSET Stream

LEMMA TypesNamed == (LeaseTypeOK <=> Types) /\ (LeaseTypeOK' <=> Types')
BY DEF LeaseTypeOK, Types, Nodes, Phases, Leases, Returns

LEMMA PartTypes ==
  ASSUME Types, NEW h \in Handler, NEW S \in SUBSET Stream
  PROVE  /\ \A p \in Phases : Goto(h, p) => at' \in [Handler -> Phases]
         /\ Pop(h, S) => lease' \in [Stream -> Leases] /\ raced' \in SUBSET Stream
         /\ Owe(h, S) => popped' \in [Handler -> SUBSET Stream]
         /\ \A x \in Returns :
              giving' = [giving EXCEPT ![h] = x] => giving' \in [Handler -> Returns]
<1>1. \A p \in Phases : Goto(h, p) => at' \in [Handler -> Phases]
  BY DEF Goto, Types
<1>2. Pop(h, S) => lease' \in [Stream -> Leases] /\ raced' \in SUBSET Stream
  BY DEF Pop, Types, Leases
<1>3. Owe(h, S) => popped' \in [Handler -> SUBSET Stream]
  BY DEF Owe, Types
<1>4. \A x \in Returns : giving' = [giving EXCEPT ![h] = x] => giving' \in [Handler -> Returns]
  BY DEF Types
<1> QED
  BY <1>1, <1>2, <1>3, <1>4

LEMMA SweepTypes ==
  ASSUME Types, NEW h \in Handler, Sweep(h)
  PROVE  /\ lease' \in [Stream -> Leases] /\ raced' \in SUBSET Stream
         /\ popped' \in [Handler -> SUBSET Stream]
<1>1. Expired \in SUBSET Stream
  BY DEF Expired
<1> QED
  BY <1>1, PartTypes DEF Sweep

LEMMA TakenType ==
  ASSUME NEW s \in Stream, NEW a \in Account
  PROVE  Taken(s, a) \in Returns
BY DEF Taken, Returns

\* An account is granted below the limit.
LEMMA AcquireTypes ==
  ASSUME Types, NEW s \in Stream, NEW a \in Account, Acquire(s, a)
  PROVE  /\ inUse' \in [Account -> 0 .. Cap]
         /\ account' \in [Stream -> Account \union {None}]
<1>1. \A b \in Account : inUse[b] \in 0 .. Cap
  BY DEF Types
<1>2. Cap \in Nat /\ inUse[a] + 1 \in 0 .. Cap
  BY <1>1, LeaseAssumption DEF Acquire
<1> QED
  BY <1>2 DEF Acquire, Types

\* Whose request a handler works on has an account.
LEMMA HasAccount ==
  ASSUME LeaseInv, NEW s \in Stream,
         \/ lease[s] # None \/ \E h \in Handler : s \in popped[h]
         \/ at[Prepare(s)] \in {"prepare", "answer"}
         \/ at[Switch(s)] # "off" \/ at[Release(s)] # "off"
  PROVE  account[s] \in Account
BY DEF LeaseInv, LeaseTypeOK, Row, Stages

\* The steps keep the types.
LEMMA LeaseTypes ==
  ASSUME LeaseInv, [Next]_vars
  PROVE  LeaseTypeOK'
<1>a. TTL \in Nat /\ Cap \in Nat
  BY LeaseAssumption
<1>b. Types
  BY TypesNamed DEF LeaseInv
<1>c. "streaming" \in Nodes /\ "ending" \in Nodes /\ "gone" \in Nodes /\ None \in Returns
  BY DEF Nodes, Returns
<1>d. \A p \in {"off", "start", "prepare", "answer", "give", "acquire", "login", "payload",
               "deleting", "done"} : p \in Phases
  BY DEF Phases
<1> SUFFICES Types'
  BY TypesNamed
<1>1. CASE UNCHANGED vars
  BY <1>1, <1>b DEF vars, auths, Types
<1>2. ASSUME NEW s \in Stream, PrepareStep(s) PROVE Types'
  <2>1. CASE Determine(s)
    <3>1. at' \in [Handler -> Phases]
      BY <2>1, <1>b, <1>d, Names, PartTypes DEF Determine
    <3>2. inUse' \in [Account -> 0 .. Cap] /\ account' \in [Stream -> Account \union {None}]
      BY <2>1, <1>b, AcquireTypes DEF Determine, Types
    <3> QED
      BY <2>1, <1>b, <1>c, <3>1, <3>2 DEF Determine, Types
  <2>2. CASE PrepareFails(s)
    BY <2>2, <1>b, <1>c, <1>d, Names, PartTypes DEF PrepareFails, auths, Types
  <2>3. CASE HoldStreamLease(s)
    <3>1. NewLease(s) \in Leases
      BY <2>3, <1>a, HasAccount DEF HoldStreamLease, NewLease, Leases
    <3>2. lease' \in [Stream -> Leases]
      BY <2>3, <1>b, <3>1 DEF HoldStreamLease, Types, Leases
    <3>3. Expired \in SUBSET Stream
      BY DEF Expired
    <3> QED
      BY <2>3, <1>b, <1>d, <3>2, <3>3, Names, PartTypes DEF HoldStreamLease, auths, Types
  <2>4. CASE PrepareAnswer(s)
    BY <2>4, <1>b, <1>c, <1>d, Names, PartTypes DEF PrepareAnswer, auths, Types
  <2> QED
    BY <1>2, <2>1, <2>2, <2>3, <2>4 DEF PrepareStep
<1>3. ASSUME NEW s \in Stream, SwitchStep(s) PROVE Types'
  <2>0. Switch(s) \in Handler
    BY Names
  <2>a. ASSUME NEW ok \in BOOLEAN, SwitchAnswer(s, ok)
        PROVE  /\ at' \in [Handler -> Phases] /\ node' \in [Stream -> Nodes]
               /\ on' \in [Stream -> Account \union {None}]
    BY <2>0, <2>a, <1>b, <1>c, <1>d, PartTypes DEF SwitchAnswer, Types
  <2>b. at[Switch(s)] # "off" => Taken(s, account[s]) \in Returns
    BY HasAccount, TakenType
  <2>1. CASE LookupStreamLease(s)
    <3>1. /\ at' \in [Handler -> Phases] /\ node' \in [Stream -> Nodes]
          /\ on' \in [Stream -> Account \union {None}]
      BY <2>1, <2>0, <2>a, <1>b, <1>d, PartTypes DEF LookupStreamLease, Types
    <3> QED
      BY <2>1, <3>1, <1>b DEF LookupStreamLease, auths, Types
  <2>2. CASE SwitchGive(s)
    <3>1. at' \in [Handler -> Phases] /\ giving' \in [Handler -> Returns]
      BY <2>2, <2>0, <2>b, <1>b, <1>d, PartTypes DEF SwitchGive
    <3>2. tried' \in [Stream -> SUBSET Account]
      BY <2>2, <1>b, HasAccount DEF SwitchGive, Types
    <3> QED
      BY <2>2, <3>1, <3>2, <1>b DEF SwitchGive, Types
  <2>3. CASE SwitchAcquire(s)
    <3>1. /\ at' \in [Handler -> Phases] /\ node' \in [Stream -> Nodes]
          /\ on' \in [Stream -> Account \union {None}]
      BY <2>3, <2>0, <2>a, <1>b, <1>d, PartTypes DEF SwitchAcquire, Types
    <3>2. inUse' \in [Account -> 0 .. Cap] /\ account' \in [Stream -> Account \union {None}]
      BY <2>3, <1>b, AcquireTypes DEF SwitchAcquire, Types
    <3> QED
      BY <2>3, <3>1, <3>2, <1>b DEF SwitchAcquire, Types
  <2>4. CASE SwitchLogin(s)
    <3>1. at' \in [Handler -> Phases] /\ giving' \in [Handler -> Returns]
      BY <2>4, <2>0, <2>b, <1>b, <1>d, PartTypes DEF SwitchLogin, Types
    <3>2. tried' \in [Stream -> SUBSET Account]
      BY <2>4, <1>b, HasAccount DEF SwitchLogin, Types
    <3> QED
      BY <2>4, <3>1, <3>2, <1>b DEF SwitchLogin, Types
  <2>5. CASE SwitchPayload(s)
    <3>1. /\ at' \in [Handler -> Phases] /\ node' \in [Stream -> Nodes]
          /\ on' \in [Stream -> Account \union {None}]
      BY <2>5, <2>a DEF SwitchPayload
    <3>2. account[s] \in Account
      BY <2>5, HasAccount DEF SwitchPayload
    <3>3. lease[s] # None => [lease[s] EXCEPT !.session = account[s]] \in Leases
      BY <3>2, <1>b DEF Leases, Types
    <3>4. lease' \in [Stream -> Leases]
      BY <2>5, <3>3, <1>b DEF SwitchPayload, Updated, Types
    <3> QED
      BY <2>5, <3>1, <3>4, <1>b DEF SwitchPayload, auths, Types
  <2> QED
    BY <1>3, <2>1, <2>2, <2>3, <2>4, <2>5 DEF SwitchStep
<1>4. ASSUME NEW s \in Stream, ReleaseStep(s) PROVE Types'
  <2>1. Expired \in SUBSET Stream /\ Expired \union {s} \in SUBSET Stream
    BY DEF Expired
  <2>2. CASE ReleaseStreamLease(s)
    BY <2>2, <2>1, <1>b, <1>d, Names, PartTypes DEF ReleaseStreamLease, auths, Types
  <2>3. CASE ReleaseEnd(s)
    BY <2>3, <1>b, <1>d, Names, PartTypes DEF ReleaseEnd, auths, Types
  <2> QED
    BY <1>4, <2>2, <2>3 DEF ReleaseStep
<1>5. ASSUME NEW h \in Handler, Return(h) PROVE Types'
  <2>1. CASE ReleaseAuth(h)
    <3> PICK s \in popped[h] :
          /\ popped' = [popped EXCEPT ![h] = @ \ {s}]
          /\ giving' = [giving EXCEPT ![h] = Taken(s, account[s])]
      BY <2>1 DEF ReleaseAuth
    <3>1. s \in Stream /\ Taken(s, account[s]) \in Returns
      BY <1>b, HasAccount, TakenType DEF Types
    <3>2. giving' \in [Handler -> Returns]
      BY <3>1, <1>b, PartTypes
    <3> QED
      BY <2>1, <3>2, <1>b DEF ReleaseAuth, auths, Types
  <2>2. CASE GiveBack(h)
    <3>1. PICK s \in Stream, a \in Account :
             /\ released' = [released EXCEPT ![s] = @ \union {a}]
             /\ inUse' = [inUse EXCEPT ![a] = IF @ = 0 THEN 0 ELSE @ - 1]
      BY <2>2 DEF GiveBack
    <3>2. inUse' \in [Account -> 0 .. Cap]
      <4>1. inUse[a] \in 0 .. Cap
        BY <1>b DEF Types
      <4>2. (IF inUse[a] = 0 THEN 0 ELSE inUse[a] - 1) \in 0 .. Cap
        BY <4>1, <1>a
      <4> QED
        BY <3>1, <4>2, <1>b DEF Types
    <3>3. released' \in [Stream -> SUBSET Account]
      BY <3>1, <1>b DEF Types
    <3>4. giving' \in [Handler -> Returns]
      BY <2>2, <1>b, <1>c, PartTypes DEF GiveBack
    <3> QED
      BY <2>2, <3>2, <3>3, <3>4, <1>b DEF GiveBack, Types
  <2> QED
    BY <1>5, <2>1, <2>2 DEF Return
<1>6. ASSUME NEW s \in Stream, NEW h \in Handler, NEW from \in Nodes, NEW to \in Nodes,
             Call(h, s, from, to), UNCHANGED <<auths, inUse, giving>>,
             on' \in [Stream -> Account \union {None}]
      PROVE  Types'
  <2>1. at' \in [Handler -> Phases]
    BY <1>6, <1>b, <1>d, PartTypes DEF Call
  <2> QED
    BY <1>6, <1>b, <2>1, SweepTypes DEF Call, auths, Types
<1>7. ASSUME NEW s \in Stream,
             CallPrepare(s) \/ CallSwitch(s) \/ Finish(s) \/ CallRelease(s) \/ Vanish(s)
      PROVE  Types'
  <2>1. on' \in [Stream -> Account \union {None}]
    BY <1>7, <1>b DEF CallPrepare, CallSwitch, Finish, CallRelease, Vanish, Types
  <2>2. CASE CallPrepare(s)
    BY <2>2, <2>1, <1>6, Names DEF CallPrepare, Nodes
  <2>3. CASE CallSwitch(s)
    BY <2>3, <2>1, <1>6, Names DEF CallSwitch, Nodes
  <2>4. CASE CallRelease(s)
    BY <2>4, <2>1, <1>6, Names DEF CallRelease, Nodes
  <2>5. CASE Finish(s) \/ Vanish(s)
    BY <2>5, <2>1, <1>b, <1>c DEF Finish, Vanish, auths, Types
  <2> QED
    BY <1>7, <2>2, <2>3, <2>4, <2>5
<1>8. CASE Refused
  BY <1>8, <1>b, Names, SweepTypes DEF Refused, auths, Types
<1>9. CASE Tick
  <2>1. ASSUME NEW s \in Stream, lease[s] # None, s \notin Expired
        PROVE  [lease[s] EXCEPT !.left = @ - 1] \in Leases
    <3>1. lease[s] \in [left : 0 .. TTL, session : Account] /\ lease[s].left # 0
      BY <2>1, <1>b DEF Types, Leases, Expired
    <3>2. lease[s].left - 1 \in 0 .. TTL
      BY <3>1, <1>a
    <3> QED
      BY <3>1, <3>2 DEF Leases
  <2>2. lease' \in [Stream -> Leases]
    BY <1>9, <1>b, <2>1 DEF Tick, Types
  <2> QED
    BY <1>9, <1>b, <2>2 DEF Tick, auths, Types
<1> QED
  BY <1>1, <1>2, <1>3, <1>4, <1>5, <1>7, <1>8, <1>9 DEF Next, Handlers

-----------------------------------------------------------------------------
LEMMA RowsOf ==
  ASSUME LeaseInv, NEW s \in Stream
  PROVE  Types /\ Row(s) /\ Stages(s) /\ Leased(s) /\ Single(s) /\ Switches(s)
BY TypesNamed DEF LeaseInv, Row

LEMMA PrepareRows ==
  ASSUME LeaseInv, NEW s \in Stream, PrepareStep(s), NEW t \in Stream
  PROVE  Row(t)'
<1> USE RowsOf, Names
<1>1. CASE Determine(s)
  <2>1. CASE t # s
    <3>1. Untouched(t)
      BY <1>1, <2>1 DEF Determine, Untouched, Same, Goto, Acquire, Types
    <3> QED
      BY <3>1, UntouchedRow
  <2>2. CASE t = s
    <3>1. /\ at' = [at EXCEPT ![Prepare(s)] = at'[Prepare(s)]]
          /\ at'[Prepare(s)] \in {"prepare", "done"} /\ at[Prepare(s)] = "start"
          /\ at'[Switch(s)] = "off" /\ at'[Release(s)] = "off"
      BY <1>1 DEF Determine, Goto, Types, Stages
    <3>2. lease[s] = None /\ Unclaimed(s) /\ s \notin raced
      BY <3>1 DEF Stages
    <3>3. /\ at'[Prepare(s)] = "prepare" => account'[s] # None
          /\ account'[s] = None => at'[Prepare(s)] = "done" /\ node'[s] = "gone"
      BY <1>1, <3>1, LeaseAssumption DEF Determine, Goto, Acquire, Types, Stages
    <3>4. UNCHANGED <<lease, popped, giving, raced, released, tried>>
      BY <1>1 DEF Determine
    <3>5. Unclaimed(s)'
      BY <3>2, <3>4 DEF Unclaimed
    <3>6. node'[s] \in {"preparing", "gone"} \/ node'[s] = node[s]
      BY <1>1 DEF Determine, Types
    <3>7. Stages(s)'
      BY <3>1, <3>2, <3>3, <3>4, <3>5, <3>6 DEF Stages, Unclaimed
    <3>8. Leased(s)'
      BY <3>2, <3>4 DEF Leased
    <3>9. Single(s)'
      BY <3>1, <3>2, <3>4 DEF Single, Switching, Unclaimed
    <3>10. Switches(s)'
      BY <3>1 DEF Switches
    <3> QED
      BY <2>2, <3>7, <3>8, <3>9, <3>10 DEF Row
  <2> QED
    BY <2>1, <2>2
<1>2. CASE PrepareFails(s)
  <2>1. CASE t # s
    <3>1. Untouched(t)
      BY <1>2, <2>1 DEF PrepareFails, Untouched, Same, Goto, Owe, Types, auths
    <3> QED
      BY <3>1, UntouchedRow
  <2>2. CASE t = s
    <3>1. /\ at[Prepare(s)] = "prepare" /\ at'[Prepare(s)] = "done" /\ node'[s] = "gone"
          /\ at'[Switch(s)] = "off" /\ at'[Release(s)] = "off"
          /\ UNCHANGED <<lease, giving, raced, released, tried, account>>
      BY <1>2 DEF PrepareFails, Goto, Types, Stages, auths
    <3>2. lease[s] = None /\ Unclaimed(s) /\ account[s] # None
      BY <3>1 DEF Stages
    <3>3. \A k \in Handler : s \in popped'[k] => k = Prepare(s)
      BY <1>2, <3>2 DEF PrepareFails, Owe, Types, Unclaimed
    <3>4. Stages(s)' /\ Leased(s)'
      BY <3>1, <3>2 DEF Stages, Leased
    <3>5. Single(s)'
      BY <3>1, <3>2, <3>3 DEF Single, Switching, Unclaimed
    <3>6. Switches(s)'
      BY <3>1 DEF Switches
    <3> QED
      BY <2>2, <3>4, <3>5, <3>6 DEF Row
  <2> QED
    BY <2>1, <2>2
<1>3. CASE HoldStreamLease(s)
  <2>0. /\ at[Prepare(s)] = "prepare" /\ lease[s] = None /\ Unclaimed(s) /\ s \notin raced
        /\ tried[s] = {} /\ released[s] = {} /\ account[s] # None
        /\ at[Switch(s)] = "off" /\ at[Release(s)] = "off"
    BY <1>3 DEF HoldStreamLease, Stages
  <2>1. CASE t # s /\ t \notin Expired
    <3>1. Untouched(t)
      BY <1>3, <2>1, <2>0 DEF HoldStreamLease, Untouched, Same, Goto, Owe, Types, auths
    <3> QED
      BY <3>1, UntouchedRow
  <2>2. CASE t # s /\ t \in Expired
    <3>1. Swept(t, Prepare(s))
      BY <1>3, <2>2, <2>0
      DEF HoldStreamLease, Swept, Same, Goto, Owe, Types, auths, Expired
    <3> QED
      BY <3>1, SweptRow
  <2>3. CASE t = s
    <3>1. s \notin Expired
      BY <2>0 DEF Expired
    <3>2. /\ at'[Prepare(s)] = "answer" /\ at'[Switch(s)] = "off" /\ at'[Release(s)] = "off"
          /\ UNCHANGED <<node, account, tried, released, giving>> /\ s \notin raced'
          /\ lease'[s] # None /\ lease'[s].session = account[s]
      BY <1>3, <2>0, <3>1, LeaseAssumption, HasAccount
      DEF HoldStreamLease, Goto, Types, auths, NewLease
    <3>3. Unclaimed(s)'
      BY <1>3, <2>0, <3>1, <3>2 DEF HoldStreamLease, Owe, Types, Unclaimed
    <3>4. Stages(s)'
      BY <2>0, <3>2 DEF Stages
    <3>5. Leased(s)'
      BY <2>0, <3>2, <3>3 DEF Leased, Unclaimed, Stages
    <3>6. Single(s)'
      BY <3>2, <3>3 DEF Single, Switching, Unclaimed
    <3>7. Switches(s)'
      BY <3>2 DEF Switches
    <3> QED
      BY <2>3, <3>4, <3>5, <3>6, <3>7 DEF Row
  <2> QED
    BY <2>1, <2>2, <2>3
<1>4. CASE PrepareAnswer(s)
  <2>1. CASE t # s
    <3>1. Untouched(t)
      BY <1>4, <2>1 DEF PrepareAnswer, Untouched, Same, Goto, Types, auths
    <3> QED
      BY <3>1, UntouchedRow
  <2>2. CASE t = s
    <3>1. /\ at[Prepare(s)] = "answer" /\ at'[Prepare(s)] = "done"
          /\ at'[Switch(s)] = "off" /\ at'[Release(s)] = "off"
          /\ UNCHANGED <<lease, popped, giving, raced, released, tried, account>>
          /\ s \notin raced /\ account[s] # None
      BY <1>4 DEF PrepareAnswer, Goto, Types, Stages, auths
    <3>2. node'[s] = "streaming" => on'[s] = account[s]
      BY <1>4, <3>1 DEF PrepareAnswer, Types, Stages
    <3>3. Stages(s)'
      BY <3>1 DEF Stages
    <3>4. Leased(s)'
      BY <3>1, <3>2 DEF Leased, Stages
    <3>5. Single(s)'
      BY <3>1 DEF Single, Switching, Unclaimed
    <3>6. Switches(s)'
      BY <3>1 DEF Switches
    <3> QED
      BY <2>2, <3>3, <3>4, <3>5, <3>6 DEF Row
  <2> QED
    BY <2>1, <2>2
<1> QED
  BY <1>1, <1>2, <1>3, <1>4 DEF PrepareStep
\* The answer of a switch leaves a stream that waits for it with nothing but its new account.
LEMMA AnsweredRow ==
  ASSUME LeaseInv, NEW s \in Stream, NEW ok \in BOOLEAN, SwitchAnswer(s, ok),
         at[Switch(s)] # "off", Quiet(Switch(s)),
         UNCHANGED <<account, tried, released, popped, giving, raced>>,
         lease' = lease \/ lease' = Updated(s),
         ok => lease' = Updated(s) /\ (s \notin raced => account[s] \notin released[s])
  PROVE  \A t \in Stream : Row(t)'
<1> USE RowsOf, Names
<1>0. \A t \in Stream : /\ (lease'[t] = None) <=> (lease[t] = None)
                        /\ t # s => lease'[t] = lease[t]
                        /\ lease[t] # None => lease'[t].session \in {lease[t].session, account[t]}
  <2>1. lease[s] # None => [lease[s] EXCEPT !.session = account[s]].session = account[s]
    BY HasAccount DEF Types, Leases
  <2>2. lease[s] # None => [lease[s] EXCEPT !.session = account[s]] # None
    <3> SUFFICES ASSUME lease[s] # None
                 PROVE  [lease[s] EXCEPT !.session = account[s]] # None
      OBVIOUS
    <3>1. lease[s] \in [left : 0 .. TTL, session : Account] /\ account[s] \in Account
      BY HasAccount DEF Types, Leases
    <3>2. lease[s].left \in Nat
      BY <3>1, LeaseAssumption
    <3>3. [lease[s] EXCEPT !.session = account[s]] \in [left : Nat, session : Account]
      BY <3>1, <3>2
    <3> QED
      BY <3>3, LeaseAssumption
  <2> QED
    BY <2>1, <2>2 DEF Updated, Types
<1>1. ASSUME NEW t \in Stream, t # s PROVE Row(t)'
  <2>1. Untouched(t)
    BY <1>1, <1>0 DEF SwitchAnswer, Goto, Untouched, Same, Types
  <2> QED
    BY <2>1, UntouchedRow
<1>2. Row(s)'
  <2>1. /\ at'[Switch(s)] = "off" /\ at'[Prepare(s)] = at[Prepare(s)]
        /\ at'[Release(s)] = at[Release(s)] /\ at[Prepare(s)] = "done" /\ account[s] # None
    BY DEF SwitchAnswer, Goto, Types, Stages
  <2>2. node'[s] = "streaming" => node[s] = "streaming" \/ (ok /\ node[s] = "switching")
    BY DEF SwitchAnswer, Types
  <2>3. node[s] = "streaming" /\ lease[s] # None => at[Switch(s)] = "off"
    BY DEF Leased
  <2>4. Stages(s)'
    BY <2>1, <1>0 DEF Stages
  <2>5. Leased(s)'
    <3> SUFFICES ASSUME lease[s] # None PROVE Leased(s)'
      BY <1>0 DEF Leased
    <3>1. s \notin raced /\ at[Release(s)] # "deleting" /\ released[s] \subseteq tried[s]
      BY DEF Leased
    <3>2. \A h \in Handler, a \in Account : giving[h] # <<s, a>>
      BY NoneIsNoSlot DEF Leased, Quiet
    <3>3. node'[s] = "streaming" =>
            /\ on'[s] = account[s] /\ lease'[s].session = account[s]
            /\ account[s] \notin released[s]
      <4> SUFFICES ASSUME node'[s] = "streaming"
                   PROVE  /\ on'[s] = account[s] /\ lease'[s].session = account[s]
                          /\ account[s] \notin released[s]
        OBVIOUS
      <4>1. ok /\ on'[s] = account[s]
        BY <2>2, <2>3 DEF SwitchAnswer, Types
      <4>2. lease'[s] = [lease[s] EXCEPT !.session = account[s]]
        BY <4>1 DEF Updated, Types
      <4>3. lease'[s].session = account[s]
        BY <4>2, HasAccount DEF Types, Leases
      <4> QED
        BY <4>1, <4>3, <3>1
    <3> QED
      BY <2>1, <3>1, <3>2, <3>3 DEF Leased
  <2>6. Single(s)'
    BY <2>1, <1>0 DEF Single, Switching, Unclaimed
  <2>7. Switches(s)'
    BY <2>1 DEF Switches
  <2> QED
    BY <2>4, <2>5, <2>6, <2>7 DEF Row
<1> QED
  BY <1>1, <1>2

LEMMA SwitchRows ==
  ASSUME LeaseInv, NEW s \in Stream, SwitchStep(s), NEW t \in Stream
  PROVE  Row(t)'
<1> USE RowsOf, Names
<1>1. CASE LookupStreamLease(s)
  <2>1. CASE lease[s] = None \/ s \in Expired
    BY <1>1, <2>1, AnsweredRow DEF LookupStreamLease, auths
  <2>2. CASE ~(lease[s] = None \/ s \in Expired)
    <3>0. at[Switch(s)] = "start" /\ Quiet(Switch(s)) /\ at' = [at EXCEPT ![Switch(s)] = "give"]
          /\ UNCHANGED <<node, on, lease, account, tried, released, popped, giving, raced>>
      BY <1>1, <2>2 DEF LookupStreamLease, Goto, auths
    <3>1. CASE t # s
      <4>1. Untouched(t)
        BY <3>0, <3>1 DEF Untouched, Same, Types
      <4> QED
        BY <4>1, UntouchedRow
    <3>2. CASE t = s
      <4>1. /\ at'[Switch(s)] = "give" /\ at'[Prepare(s)] = at[Prepare(s)]
            /\ at'[Release(s)] = at[Release(s)]
        BY <3>0 DEF Types
      <4>2. Stages(s)'
        BY <3>0, <4>1 DEF Stages, Unclaimed
      <4>3. \A h \in Handler, a \in Account : giving[h] # <<s, a>>
        BY <2>2, <3>0, NoneIsNoSlot DEF Leased, Quiet
      <4>4. Leased(s)'
        BY <2>2, <3>0, <4>1, <4>3 DEF Leased
      <4>5. Single(s)'
        BY <2>2, <3>0, <4>1 DEF Single, Switching, Unclaimed
      <4>6. Switches(s)'
        BY <3>0, <4>1 DEF Switches, Quiet
      <4> QED
        BY <3>2, <4>2, <4>4, <4>5, <4>6 DEF Row
    <3> QED
      BY <3>1, <3>2
  <2> QED
    BY <2>1, <2>2
<1>2. CASE SwitchGive(s) \/ (SwitchLogin(s) /\ at'[Switch(s)] = "acquire")
  <2>0. /\ at[Switch(s)] \in {"give", "login"}
        /\ tried' = [tried EXCEPT ![s] = @ \union {account[s]}]
        /\ giving' = [giving EXCEPT ![Switch(s)] = Taken(s, account[s])]
        /\ at' = [at EXCEPT ![Switch(s)] = "acquire"]
        /\ UNCHANGED <<node, on, lease, account, released, popped, raced>>
    BY <1>2 DEF SwitchGive, SwitchLogin, Goto, Types
  <2>a. Quiet(Switch(s)) /\ account[s] # None /\ at[Prepare(s)] = "done"
    BY <2>0 DEF Switches, Stages
  <2>1. CASE t # s
    <3>1. Untouched(t)
      BY <2>0, <2>1, <2>a, LeaseAssumption DEF Untouched, Same, Types, Taken, Quiet
    <3> QED
      BY <3>1, UntouchedRow
  <2>2. CASE t = s
    <3>1. /\ at'[Switch(s)] = "acquire" /\ at'[Prepare(s)] = at[Prepare(s)]
          /\ at'[Release(s)] = at[Release(s)]
          /\ tried'[s] = tried[s] \union {account[s]}
          /\ giving'[Switch(s)] = Taken(s, account[s])
          /\ \A h \in Handler : h # Switch(s) => giving'[h] = giving[h]
      BY <2>0 DEF Types
    <3>2. Stages(s)'
      BY <2>0, <2>a, <3>1 DEF Stages
    <3>3. Leased(s)'
      BY <2>0, <2>a, <3>1 DEF Leased, Stages
    <3>4. Single(s)'
      <4> SUFFICES ASSUME s \notin raced PROVE Single(s)'
        BY <2>0 DEF Single
      <4>1. lease[s] # None
        BY <2>0 DEF Single, Switching
      <4>2. \A h \in Handler : s \notin popped[h] /\ \A a \in Account : giving[h] # <<s, a>>
        BY <2>0, <2>a, <4>1, NoneIsNoSlot DEF Leased, Quiet
      <4>3. \A h \in Handler, a \in Account :
              giving'[h] = <<s, a>> => h = Switch(s) /\ a = account[s] /\ a \notin released[s]
        BY <4>2, <3>1, LeaseAssumption DEF Taken
      <4> QED
        BY <4>1, <4>2, <4>3, <2>0, <3>1 DEF Single, Leased
    <3>5. Switches(s)'
      <4>1. popped'[Switch(s)] = {} /\ account'[s] \in tried'[s]
        BY <2>0, <2>a, <3>1 DEF Quiet
      <4>2. CASE account[s] \in released[s]
        BY <2>0, <3>1, <4>1, <4>2 DEF Switches, Taken
      <4>3. CASE account[s] \notin released[s]
        <5>1. giving'[Switch(s)] = <<s, account[s]>> /\ giving'[Switch(s)] # None
          BY <2>0, <3>1, <4>3, HasAccount, NoneIsNoSlot DEF Taken
        <5> QED
          BY <2>0, <3>1, <4>1, <5>1 DEF Switches
      <4> QED
        BY <4>2, <4>3
    <3> QED
      BY <2>2, <3>2, <3>3, <3>4, <3>5 DEF Row
  <2> QED
    BY <2>1, <2>2
<1>3. CASE SwitchAcquire(s)
  <2>0. at[Switch(s)] = "acquire" /\ Quiet(Switch(s))
        /\ UNCHANGED <<lease, tried, released, popped, giving, raced>>
    BY <1>3 DEF SwitchAcquire
  <2>1. CASE SwitchAnswer(s, FALSE) /\ UNCHANGED <<account, inUse>>
    BY <2>0, <2>1, AnsweredRow
  <2>2. ASSUME NEW a \in Account \ tried[s], Acquire(s, a), Goto(Switch(s), "login"),
               UNCHANGED <<node, on>>
        PROVE  Row(t)'
    <3>0. at' = [at EXCEPT ![Switch(s)] = "login"] /\ account' = [account EXCEPT ![s] = a]
          /\ UNCHANGED <<node, on>>
      BY <2>2 DEF Acquire, Goto
    <3>1. CASE t # s
      <4>1. Untouched(t)
        BY <2>0, <3>0, <3>1 DEF Untouched, Same, Types
      <4> QED
        BY <4>1, UntouchedRow
    <3>2. CASE t = s
      <4>1. /\ at'[Switch(s)] = "login" /\ at'[Prepare(s)] = at[Prepare(s)]
            /\ at'[Release(s)] = at[Release(s)] /\ account'[s] = a /\ a # None
            /\ at[Prepare(s)] = "done" /\ account[s] # None
        BY <2>0, <3>0, LeaseAssumption DEF Types, Stages
      <4>2. Stages(s)'
        BY <2>0, <3>0, <4>1 DEF Stages
      <4>3. lease[s] # None => \A h \in Handler, b \in Account : giving[h] # <<s, b>>
        BY <2>0, NoneIsNoSlot DEF Leased, Quiet
      <4>4. Leased(s)'
        BY <2>0, <3>0, <4>1, <4>3 DEF Leased
      <4>5. Single(s)'
        BY <2>0, <3>0, <4>1, <4>3 DEF Single, Switching, Leased, Unclaimed
      <4>6. s \notin raced => a \notin released[s]
        BY <2>0 DEF Single, Switching, Leased
      <4>7. Switches(s)'
        BY <2>0, <4>1, <4>6 DEF Switches, Quiet
      <4> QED
        BY <3>2, <4>2, <4>4, <4>5, <4>7 DEF Row
    <3> QED
      BY <3>1, <3>2
  <2> QED
    BY <1>3, <2>1, <2>2 DEF SwitchAcquire
<1>4. CASE SwitchLogin(s) /\ at'[Switch(s)] # "acquire"
  <2>0. /\ at[Switch(s)] = "login" /\ at' = [at EXCEPT ![Switch(s)] = "payload"]
        /\ UNCHANGED <<node, on, lease, account, tried, released, popped, giving, raced>>
    BY <1>4 DEF SwitchLogin, Goto, Types
  <2>1. CASE t # s
    <3>1. Untouched(t)
      BY <2>0, <2>1 DEF Untouched, Same, Types
    <3> QED
      BY <3>1, UntouchedRow
  <2>2. CASE t = s
    <3>1. /\ at'[Switch(s)] = "payload" /\ at'[Prepare(s)] = at[Prepare(s)]
          /\ at'[Release(s)] = at[Release(s)]
      BY <2>0 DEF Types
    <3>2. Stages(s)' /\ Leased(s)'
      BY <2>0, <3>1 DEF Stages, Leased, Unclaimed
    <3>3. Single(s)' /\ Switches(s)'
      BY <2>0, <3>1 DEF Single, Switching, Switches, Quiet, Unclaimed
    <3> QED
      BY <2>2, <3>2, <3>3 DEF Row
  <2> QED
    BY <2>1, <2>2
<1>5. CASE SwitchPayload(s)
  <2>1. at[Switch(s)] = "payload" /\ Quiet(Switch(s))
        /\ (s \notin raced => account[s] \notin released[s])
    BY <1>5 DEF SwitchPayload, Switches
  <2> QED
    BY <1>5, <2>1, AnsweredRow DEF SwitchPayload, auths
<1>6. CASE SwitchGive(s)
  BY <1>2, <1>6
<1>7. CASE SwitchLogin(s)
  BY <1>2, <1>4, <1>7
<1> QED
  BY <1>1, <1>3, <1>5, <1>6, <1>7 DEF SwitchStep
\* A handler that sweeps leaves the other streams in order.
LEMMA SweptRows ==
  ASSUME LeaseInv, NEW h \in Handler, NEW t \in Stream, NEW S \in SUBSET Stream, Same(t),
         \A u \in S : lease[u] # None,
         Pop(h, S), Owe(h, S)
  PROVE  Row(t)'
<1> USE RowsOf
<1>1. CASE t \in S
  <2>1. Swept(t, h)
    BY <1>1 DEF Swept, Pop, Owe, Types
  <2> QED
    BY <2>1, SweptRow
<1>2. CASE t \notin S
  <2>1. Untouched(t)
    BY <1>2 DEF Untouched, Pop, Owe, Types
  <2> QED
    BY <2>1, UntouchedRow
<1> QED
  BY <1>1, <1>2

LEMMA ExpiredLeases == Expired \in SUBSET Stream /\ \A u \in Expired : lease[u] # None
BY DEF Expired

LEMMA ReleaseRows ==
  ASSUME LeaseInv, NEW s \in Stream, ReleaseStep(s), NEW t \in Stream
  PROVE  Row(t)'
<1> USE RowsOf, Names
<1>1. CASE ReleaseStreamLease(s)
  <2>0. /\ at[Release(s)] = "start" /\ Quiet(Release(s))
        /\ UNCHANGED <<node, on, account, tried, released, giving>>
        /\ at' = [at EXCEPT ![Release(s)] = at'[Release(s)]]
        /\ at'[Release(s)] = IF lease[s] = None \/ s \in Expired THEN "done" ELSE "deleting"
        /\ popped' = [popped EXCEPT ![Release(s)] = @ \union Expired]
        /\ lease' = [u \in Stream |-> IF u \in Expired \union {s} THEN None ELSE lease[u]]
        /\ raced' = raced \union ((Expired \union {s}) \intersect Switching)
    BY <1>1 DEF ReleaseStreamLease, Goto, auths, Owe, Pop, Types
  <2>1. CASE t # s
    <3>1. Same(t)
      BY <2>0, <2>1 DEF Same, Types
    <3>2. CASE t \in Expired
      <4>1. Swept(t, Release(s))
        BY <2>0, <3>1, <3>2, ExpiredLeases DEF Swept, Types
      <4> QED
        BY <4>1, SweptRow
    <3>3. CASE t \notin Expired
      <4>1. Untouched(t)
        BY <2>0, <2>1, <3>1, <3>3 DEF Untouched, Types
      <4> QED
        BY <4>1, UntouchedRow
    <3> QED
      BY <3>2, <3>3
  <2>2. CASE t = s
    <3>0. /\ at'[Switch(s)] = at[Switch(s)] /\ at'[Prepare(s)] = at[Prepare(s)]
          /\ lease'[s] = None /\ account[s] # None /\ at[Prepare(s)] = "done"
          /\ at'[Release(s)] \in {"done", "deleting"}
      BY <2>0 DEF Types, Stages
    <3>1. Stages(s)' /\ Leased(s)'
      BY <2>0, <3>0 DEF Stages, Leased
    <3>2. Switches(s)'
      BY <2>0, <3>0 DEF Switches, Quiet, Types
    <3>3. Single(s)'
      <4> SUFFICES ASSUME s \notin raced' PROVE Single(s)'
        BY DEF Single
      <4>1. s \notin raced
        BY <2>0
      <4>2. s \notin Switching /\ s \notin Switching'
        <5>1. s \in Switching => lease[s] # None
          BY <4>1 DEF Single
        <5> QED
          BY <2>0, <3>0, <5>1 DEF Switching
      <4>3. CASE lease[s] = None
        <5>1. s \notin Expired /\ at'[Release(s)] = "done"
          BY <4>3, <2>0 DEF Expired
        <5>2. \A k \in Handler : s \in popped'[k] <=> s \in popped[k]
          BY <2>0, <5>1 DEF Types
        <5> QED
          BY <2>0, <4>1, <4>2, <5>1, <5>2 DEF Single
      <4>4. CASE lease[s] # None
        <5>1. \A k \in Handler : s \notin popped[k] /\ \A a \in Account : giving[k] # <<s, a>>
          BY <4>2, <4>4 DEF Leased, Switching
        <5>2. CASE s \in Expired
          <6>1. at'[Release(s)] = "done" /\ \A k \in Handler : s \in popped'[k] <=> k = Release(s)
            BY <2>0, <5>1, <5>2 DEF Types
          <6> QED
            BY <2>0, <4>2, <5>1, <6>1 DEF Single
        <5>3. CASE s \notin Expired
          <6>1. \A k \in Handler : s \notin popped'[k]
            BY <2>0, <5>1, <5>3 DEF Types
          <6> QED
            BY <2>0, <3>0, <4>2, <5>1, <6>1 DEF Single, Unclaimed
        <5> QED
          BY <5>2, <5>3
      <4> QED
        BY <4>3, <4>4
    <3> QED
      BY <2>2, <3>1, <3>2, <3>3 DEF Row
  <2> QED
    BY <2>1, <2>2
<1>2. CASE ReleaseEnd(s)
  <2>0. /\ at[Release(s)] = "deleting" /\ Quiet(Release(s))
        /\ UNCHANGED <<node, on, lease, account, tried, released, giving, raced>>
        /\ at' = [at EXCEPT ![Release(s)] = "done"]
        /\ popped' = [popped EXCEPT ![Release(s)] = @ \union {s}]
    BY <1>2 DEF ReleaseEnd, Goto, Owe, auths
  <2>1. CASE t # s
    <3>1. Untouched(t)
      BY <2>0, <2>1 DEF Untouched, Same, Types
    <3> QED
      BY <3>1, UntouchedRow
  <2>2. CASE t = s
    <3>0. /\ at'[Switch(s)] = at[Switch(s)] /\ at'[Prepare(s)] = at[Prepare(s)]
          /\ at'[Release(s)] = "done" /\ account[s] # None /\ at[Prepare(s)] = "done"
          /\ lease[s] = None
          /\ \A k \in Handler : s \in popped'[k] <=> k = Release(s) \/ s \in popped[k]
      BY <2>0 DEF Types, Stages, Leased
    <3>1. Stages(s)' /\ Leased(s)'
      BY <2>0, <3>0 DEF Stages, Leased
    <3>2. Switches(s)'
      BY <2>0, <3>0 DEF Switches, Quiet, Types
    <3>3. Single(s)'
      <4> SUFFICES ASSUME s \notin raced PROVE Single(s)'
        BY <2>0 DEF Single
      <4>1. Unclaimed(s) /\ s \notin Switching /\ s \notin Switching'
        BY <2>0, <3>0 DEF Single, Switching
      <4> QED
        BY <2>0, <3>0, <4>1 DEF Single, Unclaimed
    <3> QED
      BY <2>2, <3>1, <3>2, <3>3 DEF Row
  <2> QED
    BY <2>1, <2>2
<1> QED
  BY <1>1, <1>2 DEF ReleaseStep

LEMMA ReturnRows ==
  ASSUME LeaseInv, NEW h \in Handler, Return(h), NEW t \in Stream
  PROVE  Row(t)'
<1> USE RowsOf, Names
<1>1. CASE ReleaseAuth(h)
  <2>1. PICK s \in popped[h] :
          /\ giving[h] = None
          /\ popped' = [popped EXCEPT ![h] = @ \ {s}]
          /\ giving' = [giving EXCEPT ![h] = Taken(s, account[s])]
          /\ UNCHANGED <<node, on, lease, account, tried, released, inUse, at, raced>>
    BY <1>1 DEF ReleaseAuth, auths
  <2>2. s \in Stream /\ account[s] \in Account /\ lease[s] = None
    BY HasAccount DEF Types, Leased
  <2>3. \A u \in Stream : at[Switch(u)] \in {"give", "acquire", "login", "payload"} =>
                            h # Switch(u)
    BY <2>1 DEF Switches, Quiet
  <2>4. CASE t # s
    <3>1. Untouched(t)
      BY <2>1, <2>2, <2>3, <2>4, NoneIsNoSlot DEF Untouched, Same, Types, Taken
    <3> QED
      BY <3>1, UntouchedRow
  <2>5. CASE t = s
    <3>1. at[Prepare(s)] \in {"answer", "done"}
      BY <2>1, <2>2 DEF Stages, Unclaimed
    <3>2. Stages(s)' /\ Leased(s)'
      BY <2>1, <2>2, <3>1 DEF Stages, Leased, Types
    <3>3. Switches(s)'
      BY <2>1, <2>2, <2>3 DEF Switches, Quiet, Types
    <3>4. Single(s)'
      <4> SUFFICES ASSUME s \notin raced PROVE Single(s)'
        BY <2>1 DEF Single
      <4>1. /\ s \notin Switching /\ at[Release(s)] # "deleting"
            /\ \A k \in Handler : s \in popped[k] => k = h
            /\ \A k \in Handler, a \in Account : giving[k] # <<s, a>>
        BY <2>1, <2>2 DEF Single, Unclaimed
      <4>2. \A k \in Handler : s \notin popped'[k]
        BY <2>1, <4>1 DEF Types
      <4>3. \A k \in Handler, a \in Account :
              giving'[k] = <<s, a>> => k = h /\ a = account[s] /\ a \notin released[s]
        BY <2>1, <2>2, <4>1, NoneIsNoSlot DEF Types, Taken
      <4> QED
        BY <2>1, <2>2, <4>1, <4>2, <4>3 DEF Single, Switching
    <3> QED
      BY <2>2, <2>5, <3>2, <3>3, <3>4 DEF Row
  <2> QED
    BY <2>4, <2>5
<1>2. CASE GiveBack(h)
  <2>1. PICK s \in Stream, a \in Account :
          /\ giving[h] = <<s, a>>
          /\ giving' = [giving EXCEPT ![h] = None]
          /\ released' = [released EXCEPT ![s] = @ \union {a}]
          /\ UNCHANGED <<node, on, lease, account, tried, at, popped, raced>>
    BY <1>2 DEF GiveBack
  <2>2. \A u \in Stream : u # s => \A b \in Account : giving[h] # <<u, b>>
    BY <2>1
  <2>3. CASE t # s
    <3>0. at[Switch(t)] \in {"give", "acquire", "login", "payload"} => h # Switch(t)
      <4>1. giving[h] # None
        BY <2>1, NoneIsNoSlot
      <4> QED
        BY <2>2, <2>3, <4>1, HasAccount DEF Switches, Quiet
    <3>1. Untouched(t)
      BY <2>1, <2>2, <2>3, <3>0, NoneIsNoSlot DEF Untouched, Same, Types
    <3> QED
      BY <3>1, UntouchedRow
  <2>4. CASE t = s
    <3>1. at[Prepare(s)] \in {"answer", "done"} /\ released'[s] = released[s] \union {a}
      <4>1. released'[s] = released[s] \union {a}
        BY <2>1 DEF Types
      <4>2. ~Unclaimed(s)
        BY <2>1 DEF Unclaimed
      <4> QED
        BY <4>1, <4>2 DEF Stages
    <3>2. lease[s] # None => h = Switch(s) /\ at[h] = "acquire"
      BY <2>1 DEF Leased
    <3>3. lease[s] # None => a = account[s] /\ a \in tried[s] /\ at[Prepare(s)] = "done"
      BY <2>1, <3>2 DEF Single, Leased, Switches, Stages
    <3>4. Stages(s)'
      BY <2>1, <3>1, <3>3 DEF Stages
    <3>5. Leased(s)'
      <4> SUFFICES ASSUME lease[s] # None PROVE Leased(s)'
        BY <2>1 DEF Leased
      <4>1. at[Switch(s)] = "acquire" /\ node[s] # "streaming"
        BY <3>2 DEF Leased
      <4> QED
        BY <2>1, <3>1, <3>2, <3>3, <4>1, NoneIsNoSlot DEF Leased, Types
    <3>6. Single(s)'
      <4> SUFFICES ASSUME s \notin raced PROVE Single(s)'
        BY <2>1 DEF Single
      <4>1. \A k \in Handler, b \in Account : giving'[k] # <<s, b>>
        <5>1. \A k \in Handler, b \in Account : giving[k] = <<s, b>> => k = h
          BY <2>1 DEF Single
        <5>2. giving'[h] = None /\ \A k \in Handler : k # h => giving'[k] = giving[k]
          BY <2>1 DEF Types
        <5> QED
          BY <5>1, <5>2, NoneIsNoSlot
      <4> QED
        BY <2>1, <4>1 DEF Single, Switching, Unclaimed
    <3>7. Switches(s)'
      <4>1. CASE h = Switch(s)
        <5>1. giving[h] # None /\ giving'[h] = None
          BY <2>1, NoneIsNoSlot DEF Types
        <5>2. at[Switch(s)] \notin {"give", "login", "payload"}
          BY <4>1, <5>1 DEF Switches, Quiet
        <5>3. at[Switch(s)] = "acquire" => a = account[s]
          <6>1. giving[Switch(s)] = <<s, a>> /\ giving[Switch(s)] # None
            BY <2>1, <4>1, <5>1
          <6>2. at[Switch(s)] = "acquire" => <<s, a>> = <<s, account[s]>>
            BY <6>1 DEF Switches
          <6> QED
            BY <6>2
        <5>4. CASE at[Switch(s)] = "acquire"
          <6>1. popped[Switch(s)] = {} /\ account[s] \in tried[s]
            BY <5>4 DEF Switches
          <6>2. account[s] \in released'[s] /\ giving'[Switch(s)] = None
            BY <3>1, <4>1, <5>1, <5>3, <5>4
          <6> QED
            BY <2>1, <5>4, <6>1, <6>2 DEF Switches
        <5>5. CASE at[Switch(s)] # "acquire"
          BY <2>1, <5>2, <5>5 DEF Switches
        <5> QED
          BY <5>4, <5>5
      <4>2. CASE h # Switch(s)
        <5>1. giving'[Switch(s)] = giving[Switch(s)]
          BY <2>1, <4>2 DEF Types
        <5>2. s \notin raced => at[Switch(s)] \notin {"login", "payload"}
          BY <2>1, <3>2, <4>2 DEF Single, Switching
        <5> QED
          BY <2>1, <3>1, <5>1, <5>2 DEF Switches, Quiet
      <4> QED
        BY <4>1, <4>2
    <3> QED
      BY <2>4, <3>4, <3>5, <3>6, <3>7 DEF Row
  <2> QED
    BY <2>3, <2>4
<1> QED
  BY <1>1, <1>2 DEF Return
\* A call of the Node function begins with a sweep, which may take its own lease.
LEMMA CallRows ==
  ASSUME LeaseInv, NEW s \in Stream, CallPrepare(s) \/ CallSwitch(s) \/ CallRelease(s),
         NEW t \in Stream
  PROVE  Row(t)'
<1> USE RowsOf, Names, ExpiredLeases
<1>1. ASSUME NEW h \in {Prepare(s), Switch(s), Release(s)}, t # s, Sweep(h), at[h] = "off",
             Goto(h, "start"), UNCHANGED <<account, tried, released, giving>>,
             node'[t] = node[t], on'[t] = on[t]
      PROVE  Row(t)'
  <2>1. Same(t)
    BY <1>1 DEF Same, Goto, Sweep, Owe, Types
  <2> QED
    BY <1>1, <2>1, SweptRows DEF Sweep
<1>2. ASSUME NEW h \in {Switch(s), Release(s)}, Sweep(h), Quiet(h), at[h] = "off",
             Goto(h, "start"), UNCHANGED <<account, tried, released, giving>>,
             node[s] \in {"streaming", "ending"}, node'[s] \in {"switching", "gone"}
      PROVE  Row(s)'
  <2>0. /\ at' = [at EXCEPT ![h] = "start"]
        /\ popped' = [popped EXCEPT ![h] = @ \union Expired]
        /\ lease' = [u \in Stream |-> IF u \in Expired THEN None ELSE lease[u]]
        /\ raced' = raced \union (Expired \intersect Switching)
    BY <1>2 DEF Goto, Sweep, Pop, Owe
  <2>1. at[Prepare(s)] = "done" /\ account[s] # None
    BY <1>2 DEF Stages
  <2>2. /\ at'[Prepare(s)] = "done"
        /\ at'[Switch(s)] = at[Switch(s)] \/ at'[Switch(s)] = "start"
        /\ at'[Release(s)] = at[Release(s)] \/ at'[Release(s)] = "start"
        /\ at'[Switch(s)] \notin {"off", "start"} => at'[Switch(s)] = at[Switch(s)] /\ h # Switch(s)
        /\ at'[Release(s)] = "deleting" => at[Release(s)] = "deleting" /\ h # Release(s)
    BY <1>2, <2>0, <2>1 DEF Types, Stages
  <2>3. Stages(s)'
    BY <1>2, <2>1, <2>2 DEF Stages
  <2>4. Leased(s)'
    <3> SUFFICES ASSUME lease'[s] # None PROVE Leased(s)'
      BY DEF Leased
    <3>1. lease'[s] = lease[s] /\ s \notin Expired /\ lease[s] # None
      BY <2>0
    <3>2. s \notin raced' /\ \A k \in Handler : s \notin popped'[k]
      BY <2>0, <3>1 DEF Leased, Types
    <3>3. \A k \in Handler, a \in Account : giving[k] = <<s, a>> =>
            k = Switch(s) /\ at'[k] = "acquire"
      <4>1. \A k \in Handler, a \in Account : giving[k] = <<s, a>> =>
              k = Switch(s) /\ at[k] = "acquire"
        BY <3>1 DEF Leased
      <4> QED
        BY <4>1, <1>2, <2>0 DEF Types
    <3> QED
      BY <1>2, <2>1, <2>2, <3>1, <3>2, <3>3 DEF Leased
  <2>5. Single(s)'
    <3> SUFFICES ASSUME s \notin raced' PROVE Single(s)'
      BY DEF Single
    <3>1. s \notin raced /\ (s \in Switching' => s \in Switching)
      BY <2>0, <2>2 DEF Switching
    <3>2. CASE s \in Expired
      <4>1. s \notin Switching /\ s \notin Switching' /\ lease'[s] = None
        BY <2>0, <3>1, <3>2
      <4>2. \A k \in Handler : s \notin popped[k] /\ \A a \in Account : giving[k] # <<s, a>>
        BY <3>2, <4>1 DEF Leased, Switching
      <4>3. \A k \in Handler : s \in popped'[k] => k = h
        BY <2>0, <4>2 DEF Types
      <4>4. at[Release(s)] # "deleting"
        BY <3>2 DEF Leased
      <4> QED
        BY <1>2, <2>2, <4>1, <4>2, <4>3, <4>4 DEF Single
    <3>3. CASE s \notin Expired
      <4>1. lease'[s] = lease[s] /\ \A k \in Handler : s \in popped'[k] <=> s \in popped[k]
        BY <2>0, <3>3 DEF Types
      <4> QED
        BY <1>2, <2>2, <3>1, <4>1 DEF Single, Unclaimed
    <3> QED
      BY <3>2, <3>3
  <2>6. Switches(s)'
    <3> SUFFICES ASSUME at'[Switch(s)] \notin {"off", "start"} PROVE Switches(s)'
      BY DEF Switches
    <3>1. popped'[Switch(s)] = popped[Switch(s)] /\ at'[Switch(s)] = at[Switch(s)]
      BY <2>0, <2>2 DEF Types
    <3>2. s \notin raced' => s \notin raced
      BY <2>0
    <3> QED
      BY <1>2, <3>1, <3>2 DEF Switches, Quiet
  <2> QED
    BY <2>3, <2>4, <2>5, <2>6 DEF Row
<1>3. CASE CallPrepare(s)
  <2>0. /\ at[Prepare(s)] = "off" /\ Sweep(Prepare(s)) /\ Goto(Prepare(s), "start")
        /\ node' = [node EXCEPT ![s] = "preparing"]
        /\ UNCHANGED <<on, account, tried, released, giving>>
    BY <1>3 DEF CallPrepare, Call, auths
  <2>1. CASE t # s
    BY <1>1, <2>0, <2>1 DEF Types
  <2>2. CASE t = s
    <3>1. /\ lease[s] = None /\ Unclaimed(s) /\ s \notin raced /\ s \notin Expired
          /\ account[s] = None
      BY <2>0 DEF Stages, Expired
    <3>2. /\ lease'[s] = None /\ Unclaimed(s)' /\ s \notin raced'
      BY <2>0, <3>1 DEF Sweep, Pop, Owe, Types, Unclaimed
    <3>3. /\ at'[Prepare(s)] = "start" /\ at'[Switch(s)] = "off" /\ at'[Release(s)] = "off"
          /\ node'[s] = "preparing"
      BY <2>0 DEF Goto, Types, Stages
    <3>4. Stages(s)' /\ Leased(s)'
      BY <2>0, <3>1, <3>2, <3>3 DEF Stages, Leased, Unclaimed
    <3>5. Single(s)' /\ Switches(s)'
      BY <3>2, <3>3 DEF Single, Switches, Switching, Unclaimed
    <3> QED
      BY <2>2, <3>4, <3>5 DEF Row
  <2> QED
    BY <2>1, <2>2
<1>4. CASE CallSwitch(s)
  <2>0. /\ at[Switch(s)] = "off" /\ Sweep(Switch(s)) /\ Goto(Switch(s), "start")
        /\ Quiet(Switch(s)) /\ node[s] = "streaming"
        /\ node' = [node EXCEPT ![s] = "switching"] /\ on' = [on EXCEPT ![s] = None]
        /\ UNCHANGED <<account, tried, released, giving>>
    BY <1>4 DEF CallSwitch, Call, auths
  <2>1. CASE t # s
    BY <1>1, <2>0, <2>1 DEF Types
  <2>2. CASE t = s
    BY <1>2, <2>0, <2>2 DEF Types
  <2> QED
    BY <2>1, <2>2
<1>5. CASE CallRelease(s)
  <2>0. /\ at[Release(s)] = "off" /\ Sweep(Release(s)) /\ Goto(Release(s), "start")
        /\ Quiet(Release(s)) /\ node[s] = "ending"
        /\ node' = [node EXCEPT ![s] = "gone"]
        /\ UNCHANGED <<on, account, tried, released, giving>>
    BY <1>5 DEF CallRelease, Call, auths
  <2>1. CASE t # s
    BY <1>1, <2>0, <2>1 DEF Types
  <2>2. CASE t = s
    BY <1>2, <2>0, <2>2 DEF Types
  <2> QED
    BY <2>1, <2>2
<1> QED
  BY <1>3, <1>4, <1>5

LEMMA OtherRows ==
  ASSUME LeaseInv,
         Refused \/ Tick \/ (\E s \in Stream : Finish(s) \/ Vanish(s)) \/ UNCHANGED vars,
         NEW t \in Stream
  PROVE  Row(t)'
<1> USE RowsOf, Names, ExpiredLeases
<1>1. CASE Refused
  <2>1. Same(t)
    BY <1>1 DEF Refused, Same, Sweep, Owe, Types, auths
  <2> QED
    BY <1>1, <2>1, SweptRows DEF Refused, Sweep
<1>2. CASE Tick
  <2>1. lease[t] # None /\ t \notin Expired =>
          [lease[t] EXCEPT !.left = @ - 1] # None
    <3> SUFFICES ASSUME lease[t] # None, t \notin Expired
                 PROVE  [lease[t] EXCEPT !.left = @ - 1] # None
      OBVIOUS
    <3>1. lease[t] \in [left : 0 .. TTL, session : Account] /\ lease[t].left # 0
      BY DEF Types, Leases, Expired
    <3>2. lease[t].left - 1 \in Nat
      BY <3>1, LeaseAssumption
    <3>3. [lease[t] EXCEPT !.left = @ - 1] \in [left : Nat, session : Account]
      BY <3>1, <3>2
    <3> QED
      BY <3>3, LeaseAssumption
  <2>2. lease[t] # None => [lease[t] EXCEPT !.left = @ - 1].session = lease[t].session
    BY DEF Types, Leases
  <2>3. Untouched(t)
    BY <1>2, <2>1, <2>2 DEF Tick, Untouched, Same, auths
  <2> QED
    BY <2>3, UntouchedRow
<1>3. ASSUME NEW s \in Stream, Finish(s) \/ Vanish(s) PROVE Row(t)'
  <2>0. /\ node[s] \in {"preparing", "streaming", "switching", "ending"}
        /\ node' = [node EXCEPT ![s] = node'[s]] /\ node'[s] \in {"ending", "gone"}
        /\ node'[s] = "ending" => node[s] \in {"streaming", "switching"}
        /\ on' = [on EXCEPT ![s] = None]
        /\ UNCHANGED <<lease, account, tried, released, at, popped, giving, raced>>
    BY <1>3 DEF Finish, Vanish, auths, Types
  <2>1. CASE t # s
    <3>1. Untouched(t)
      BY <2>0, <2>1 DEF Untouched, Same, Types
    <3> QED
      BY <3>1, UntouchedRow
  <2>2. CASE t = s
    <3>1. Stages(s)' /\ Leased(s)'
      BY <2>0 DEF Stages, Leased, Unclaimed
    <3>2. Single(s)' /\ Switches(s)'
      BY <2>0 DEF Single, Switches, Switching, Unclaimed, Quiet
    <3> QED
      BY <2>2, <3>1, <3>2 DEF Row
  <2> QED
    BY <2>1, <2>2
<1>4. CASE UNCHANGED vars
  <2>1. Untouched(t)
    BY <1>4 DEF vars, auths, Untouched, Same
  <2> QED
    BY <2>1, UntouchedRow
<1> QED
  BY <1>1, <1>2, <1>3, <1>4

LEMMA LeaseInvInductive == LeaseInv /\ [Next]_vars => LeaseInv'
<1> SUFFICES ASSUME LeaseInv, [Next]_vars PROVE LeaseInv'
  OBVIOUS
<1>1. ASSUME NEW t \in Stream PROVE Row(t)'
  <2>1. CASE \E s \in Stream : PrepareStep(s)
    BY <2>1, PrepareRows
  <2>2. CASE \E s \in Stream : SwitchStep(s)
    BY <2>2, SwitchRows
  <2>3. CASE \E s \in Stream : ReleaseStep(s)
    BY <2>3, ReleaseRows
  <2>4. CASE \E h \in Handler : Return(h)
    BY <2>4, ReturnRows
  <2>5. CASE \E s \in Stream : CallPrepare(s) \/ CallSwitch(s) \/ CallRelease(s)
    BY <2>5, CallRows
  <2>6. CASE Refused \/ Tick \/ (\E s \in Stream : Finish(s) \/ Vanish(s)) \/ UNCHANGED vars
    BY <2>6, OtherRows
  <2> QED
    BY <2>1, <2>2, <2>3, <2>4, <2>5, <2>6 DEF Next, Handlers
<1> QED
  BY <1>1, LeaseTypes DEF LeaseInv

-----------------------------------------------------------------------------
THEOREM LeaseInvariant == Spec => []LeaseInv
<1>1. Init => LeaseInv
  BY LeaseInit
<1> QED
  BY <1>1, LeaseInvInductive, PTL DEF Spec

\* Every variable of the leases and their handlers keeps its type; no account is granted
\* beyond the limit.
THEOREM LeaseTypesAreRight == Spec => []LeaseTypeOK
<1>1. LeaseInv => LeaseTypeOK
  BY DEF LeaseInv
<1> QED
  BY <1>1, LeaseInvariant, PTL

\* A function that streams under its lease streams on the account whose slot the lease
\* holds, and the lease names a session of that account.
THEOREM StreamsWhereItHolds == Spec => []StreamsOnItsSlot
<1>1. LeaseInv => StreamsOnItsSlot
  BY DEF LeaseInv, Row, Leased, StreamsOnItsSlot, Held
<1> QED
  BY <1>1, LeaseInvariant, PTL
-----------------------------------------------------------------------------
(* The leases implement SlotPool as long as none ended under a switch.       *)

\* What no slot is taken or given by is a stutter.
LEMMA NoSlotMoves ==
  ASSUME UNCHANGED <<account, released, inUse>>
  PROVE  UNCHANGED Slots!slotVars
BY DEF Slots!slotVars, Held

LEMMA TakesASlot ==
  ASSUME LeaseInv, NEW s \in Stream, NEW a \in Account, Acquire(s, a), UNCHANGED released,
         Held(s) = None, a \notin released[s]
  PROVE  Slots!Next
<1> USE RowsOf
<1>1. Slots!Take(s, a)
  <2>1. inUse[a] < Cap /\ inUse' = [inUse EXCEPT ![a] = @ + 1]
    BY DEF Acquire
  <2>2. [u \in Stream |-> Held(u)]' = [[u \in Stream |-> Held(u)] EXCEPT ![s] = a]
    BY DEF Acquire, Held, Types
  <2> QED
    BY <2>1, <2>2 DEF Slots!Take
<1> QED
  BY <1>1 DEF Slots!Next

LEMMA LeaseStep ==
  ASSUME LeaseInv, [Next]_vars, raced' = {}
  PROVE  [Slots!Next]_(Slots!slotVars)
<1> USE RowsOf, Names
<1>0. raced = {}
  BY DEF Next, Handlers, PrepareStep, SwitchStep, ReleaseStep, Return, Determine, PrepareFails,
     HoldStreamLease, PrepareAnswer, LookupStreamLease, SwitchGive, SwitchAcquire, SwitchLogin,
     SwitchPayload, ReleaseStreamLease, ReleaseEnd, ReleaseAuth, GiveBack, CallPrepare,
     CallSwitch, CallRelease, Call, Finish, Vanish, Refused, Sweep, Tick, Pop, vars
<1>1. ASSUME NEW s \in Stream, Determine(s) PROVE [Slots!Next]_(Slots!slotVars)
  <2>1. released[s] = {} /\ account[s] = None /\ UNCHANGED released
    BY <1>1 DEF Determine, Stages
  <2>2. ASSUME NEW a \in Account, Acquire(s, a) PROVE Slots!Next
    BY <2>1, <2>2, TakesASlot DEF Held
  <2>3. CASE UNCHANGED <<account, inUse>>
    BY <2>1, <2>3, NoSlotMoves
  <2> QED
    BY <1>1, <2>2, <2>3 DEF Determine
<1>2. ASSUME NEW s \in Stream, SwitchAcquire(s) PROVE [Slots!Next]_(Slots!slotVars)
  <2>0. at[Switch(s)] = "acquire" /\ Quiet(Switch(s)) /\ UNCHANGED released
    BY <1>2 DEF SwitchAcquire
  <2>1. Held(s) = None
    BY <2>0 DEF Switches, Quiet, Held
  <2>2. released[s] \subseteq tried[s]
    BY <1>0, <2>0 DEF Single, Switching, Leased
  <2>3. ASSUME NEW a \in Account \ tried[s], Acquire(s, a) PROVE Slots!Next
    BY <2>0, <2>1, <2>2, <2>3, TakesASlot
  <2>4. CASE UNCHANGED <<account, inUse>>
    BY <2>0, <2>4, NoSlotMoves
  <2> QED
    BY <1>2, <2>3, <2>4 DEF SwitchAcquire
<1>3. ASSUME NEW h \in Handler, GiveBack(h) PROVE [Slots!Next]_(Slots!slotVars)
  <2>1. PICK s \in Stream, a \in Account :
          /\ giving[h] = <<s, a>>
          /\ released' = [released EXCEPT ![s] = @ \union {a}]
          /\ inUse' = [inUse EXCEPT ![a] = IF @ = 0 THEN 0 ELSE @ - 1]
          /\ account' = account
    BY <1>3 DEF GiveBack
  <2>2. a = account[s] /\ a \notin released[s] /\ Held(s) = a
    BY <1>0, <2>1 DEF Single, Held
  <2>3. \A u \in Stream : Held(u)' = IF u = s THEN None ELSE Held(u)
    BY <2>1, <2>2 DEF Held, Types
  <2>4. [u \in Stream |-> Held(u)]' = [[u \in Stream |-> Held(u)] EXCEPT ![s] = None]
    BY <2>3
  <2>5. Slots!Give(s, a)
    BY <2>1, <2>2, <2>4 DEF Slots!Give
  <2> QED
    BY <2>5 DEF Slots!Next
<1>4. CASE UNCHANGED <<account, released, inUse>>
  BY <1>4, NoSlotMoves
<1>5. \/ \E s \in Stream : Determine(s) \/ SwitchAcquire(s)
      \/ \E h \in Handler : GiveBack(h)
      \/ UNCHANGED <<account, released, inUse>>
  BY DEF Next, Handlers, PrepareStep, SwitchStep, ReleaseStep, Return, PrepareFails,
     HoldStreamLease, PrepareAnswer, LookupStreamLease, SwitchGive, SwitchLogin,
     SwitchPayload, ReleaseStreamLease, ReleaseEnd, ReleaseAuth, CallPrepare,
     CallSwitch, CallRelease, Finish, Vanish, Refused, Tick, vars, auths
<1> QED
  BY <1>1, <1>2, <1>3, <1>4, <1>5

\* Preparations, switches, releases and sweeps, side by side, take and give slots as the
\* pool promises its callers, until a lease ends while a switch works on it.
THEOREM LeasesImplementSlotPool == Spec => SlotsAsPromised
<1>1. LeaseInv /\ [Next]_vars => [raced' = {} => [Slots!Next]_(Slots!slotVars)]_vars
  BY LeaseStep
<1> QED
  BY <1>1, LeaseInvariant, PTL DEF Spec, SlotsAsPromised
=============================================================================
