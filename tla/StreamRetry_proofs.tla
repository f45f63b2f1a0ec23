------------------------- MODULE StreamRetry_proofs -------------------------
(***************************************************************************)
(* What holds of a streamed completion for every number of accounts,       *)
(* retries, continuation rounds and lines: it implements Reply, its text   *)
(* is of one message, every body is closed, and, with the one retry that   *)
(* the code allows, a retry goes on in its conversation.                   *)
(***************************************************************************)
EXTENDS StreamRetry, FiniteSetTheorems, TLAPS

\* The request is answered.
Past == {"answered", "returned"}

\* Where a new message will be begun: nothing of the one before was shown.
Anew == {"retrying", "completing", "switching", "sessioning", "powing", "starting"}

\* A response is only opened for a retry, or for an account that was not tried before.
Counted(q) ==
  /\ q.phase \in {"consuming", "switching"} => q.cur <= q.attempts + Cardinality(q.tried)
  /\ q.phase \in {"resuming", "continuing", "retrying", "completing", "sessioning", "powing",
                  "starting"} => q.cur < q.attempts + Cardinality(q.tried)

Spoken(q) ==
  /\ q.voices \subseteq {q.message}
  /\ "text" \notin q.got => q.voices = {}
  /\ q.phase \in Anew => q.voices = {}

Handles(q) ==
  /\ q \in Request /\ q.message <= q.cur
  /\ {q.account, q.session, q.first} \subseteq q.tried
  /\ Counted(q) /\ Spoken(q)
  /\ q.phase = "consuming" => q.beats < MaxKeepalives

\* Responses after the one that is read are not opened yet.
OpenedSoFar ==
  req.phase \notin Past => \A i \in Response : i > req.cur => pump[i].at = "none"

StillOpen == req.phase \notin Past => reply = "open" /\ history = "streaming"

StreamInv ==
  /\ BodyTypeOK /\ Handles(req)
  /\ reply \in {"open", "finished", "failed", "dropped"}
  /\ history \in {"streaming", "success", "error", "stopped"}
  /\ OpenedSoFar /\ StillOpen /\ BodiesClosed

-----------------------------------------------------------------------------
(* The handler's state                                                       *)

LEMMA TriedIsFinite ==
  ASSUME NEW q \in Request
  PROVE  /\ IsFiniteSet(q.tried) /\ Cardinality(q.tried) \in Nat
         /\ Cardinality(q.tried) <= Cardinality(Account) /\ Cardinality(Account) \in Nat
<1>1. q.tried \subseteq Account
  BY DEF Request
<1> QED
  BY <1>1, RetryAssumption, FS_Subset, FS_CardinalityType

LEMMA ResponseNumbers ==
  ASSUME NEW q \in Request
  PROVE  /\ q.cur \in Nat /\ q.cur >= 1 /\ q.message \in Nat /\ q.attempts \in Nat
         /\ q.attempts <= RetryMax
         /\ q.cur < q.attempts + Cardinality(q.tried) => q.cur + 1 \in Response
<1>1. /\ q.cur \in Response /\ q.message \in Response /\ q.attempts \in 0..RetryMax
      /\ RetryMax \in Nat
  BY RetryAssumption DEF Request
<1> QED
  BY <1>1, TriedIsFinite, RetryAssumption

LEMMA FreshHandles ==
  ASSUME NEW a \in Account, NEW m \in BOOLEAN
  PROVE  /\ Handles(Fresh(a, m))
         /\ Handles([Fresh(a, m) EXCEPT !.phase = "answered"])
         /\ Handles([Fresh(a, m) EXCEPT !.phase = "returned"])
<1>1. Cardinality({a}) = 1
  BY FS_Singleton
<1>2. Cardinality(Account) \in Nat /\ Cardinality(Account) >= 1
  <2>1. Cardinality({a}) <= Cardinality(Account)
    BY RetryAssumption, FS_Subset
  <2> QED
    BY <1>1, <2>1, RetryAssumption, FS_CardinalityType
<1>3. 1 \in Response
  BY <1>2, RetryAssumption
<1>4. MaxKeepalives > 0 /\ 0 \in 0..MaxKeepalives /\ 0 \in 0..RetryMax
  BY RetryAssumption
<1>5. Fresh(a, m) \in Request
  BY <1>3, <1>4 DEF Fresh, Request, Phase, Known
<1>6. /\ [Fresh(a, m) EXCEPT !.phase = "answered"] \in Request
      /\ [Fresh(a, m) EXCEPT !.phase = "returned"] \in Request
  BY <1>5 DEF Request, Phase
<1>7. 1 <= 0 + 1
  OBVIOUS
<1> QED
  BY <1>1, <1>4, <1>5, <1>6, <1>7 DEF Handles, Counted, Spoken, Fresh, Anew, Past
-----------------------------------------------------------------------------
(* What the loop does next                                                   *)

\* An attempt of q is over: the request is answered, or the loop goes on.
Goes(q) ==
  /\ Handles(req') /\ req'.phase # "consuming"
  /\ IF req'.phase \in Past THEN Told!Next
     ELSE req'.cur = q.cur /\ UNCHANGED <<reply, history>>

\* What an attempt, or a call that failed, starts from.
Attempted(q) ==
  /\ q \in Request /\ q.message <= q.cur
  /\ {q.account, q.session, q.first} \subseteq q.tried
  /\ q.cur <= q.attempts + Cardinality(q.tried)
  /\ q.voices \subseteq {q.message} /\ ("text" \notin q.got => q.voices = {})

LEMMA AnswerGoes ==
  ASSUME NEW q, q.account \in Account, q.managed \in BOOLEAN, NEW told, NEW kept,
         reply = "open", history = "streaming",
         <<told, kept>> \in {<<"finished", "success">>, <<"failed", "error">>, <<"dropped", "stopped">>},
         Answer(q, told, kept)
  PROVE  Goes(q)
<1>1. req' = [Fresh(q.account, q.managed) EXCEPT !.phase = "answered"]
  BY DEF Answer, Become
<1>2. Handles(req')
  BY <1>1, FreshHandles
<1>3. req'.phase = "answered"
  BY <1>1 DEF Fresh
<1>4. Told!Next
  BY DEF Answer, Told!Next, Told!End
<1> QED
  BY <1>2, <1>3, <1>4 DEF Goes, Past

LEMMA FailGoes ==
  ASSUME NEW q \in Request, reply = "open", history = "streaming", Fail(q)
  PROVE  Goes(q)
  BY AnswerGoes DEF Fail, Request

LEMMA FinishGoes ==
  ASSUME NEW q \in Request, reply = "open", history = "streaming", Finish(q)
  PROVE  Goes(q)
  BY AnswerGoes DEF Finish, Request

\* Another response is due: as a resumption, or as a retry of an answer without text.
LEMMA NextAttemptGoes ==
  ASSUME NEW q, Attempted(q), q.attempts < RetryMax,
         NEW phase \in {"resuming", "retrying"}, phase = "retrying" => q.voices = {},
         GoOn([q EXCEPT !.phase = phase, !.attempts = @ + 1])
  PROVE  Goes(q)
<1>1. /\ req' = [q EXCEPT !.phase = phase, !.attempts = @ + 1]
      /\ UNCHANGED <<reply, history>>
  BY DEF GoOn, Become
<1>2. q.attempts \in Nat /\ q.cur \in Nat /\ q \in Request
  BY ResponseNumbers DEF Attempted
<1>3. q.attempts + 1 \in 0..RetryMax
  BY <1>2, RetryAssumption
<1>4. req' \in Request
  BY <1>1, <1>2, <1>3 DEF Request, Phase
<1>5. /\ req'.phase = phase /\ req'.attempts = q.attempts + 1 /\ req'.cur = q.cur
      /\ req'.tried = q.tried /\ req'.message = q.message /\ req'.voices = q.voices
      /\ req'.got = q.got /\ req'.account = q.account /\ req'.session = q.session
      /\ req'.first = q.first
  BY <1>1, <1>2 DEF Request
<1>6. Counted(req')
  <2>1. Cardinality(q.tried) \in Nat
    BY <1>2, TriedIsFinite
  <2>2. q.cur < q.attempts + 1 + Cardinality(q.tried)
    BY <1>2, <2>1 DEF Attempted
  <2> QED
    BY <1>5, <2>2 DEF Counted
<1> QED
  BY <1>1, <1>4, <1>5, <1>6 DEF Goes, Handles, Spoken, Attempted, Anew, Past

LEMMA ResumeGoes ==
  ASSUME NEW q, Attempted(q), reply = "open", history = "streaming", Resume(q)
  PROVE  Goes(q)
<1>1. CASE q.attempts >= RetryMax
  BY <1>1, FailGoes DEF Resume, Attempted
<1>2. CASE ~(q.attempts >= RetryMax)
  <2>1. q.attempts < RetryMax
    BY <1>2, ResponseNumbers, RetryAssumption DEF Attempted
  <2> QED
    BY <1>2, <2>1, NextAttemptGoes DEF Resume
<1> QED
  BY <1>1, <1>2

LEMMA SwitchGoes ==
  ASSUME NEW q, Attempted(q), q.voices = {}, reply = "open", history = "streaming",
         NEW failure, NEW why \in {"none", "empty", "call", "captcha"}, Switch(q, failure, why)
  PROVE  Goes(q)
<1>1. CASE ~CanSwitch(q, failure)
  BY <1>1, FailGoes DEF Switch, Attempted
<1>2. CASE CanSwitch(q, failure)
  <2> DEFINE once == q.once \/ failure = "rate_limited"
  <2>1. /\ req' = [q EXCEPT !.phase = "switching", !.why = why, !.once = once]
        /\ UNCHANGED <<reply, history>>
    BY <1>2 DEF Switch, GoOn, Become
  <2>2. q \in Request /\ once \in BOOLEAN
    BY Zenon DEF Attempted
  <2> HIDE DEF once
  <2>3. req' \in Request
    BY <2>1, <2>2 DEF Request, Phase
  <2>4. /\ req'.phase = "switching" /\ req'.attempts = q.attempts /\ req'.cur = q.cur
        /\ req'.tried = q.tried /\ req'.message = q.message /\ req'.voices = q.voices
        /\ req'.got = q.got /\ req'.account = q.account /\ req'.session = q.session
        /\ req'.first = q.first
    BY <2>1, <2>2 DEF Request
  <2> QED
    BY <2>1, <2>3, <2>4 DEF Goes, Handles, Counted, Spoken, Attempted, Anew, Past
<1> QED
  BY <1>1, <1>2

LEMMA RetryGoes ==
  ASSUME NEW q, Attempted(q), q.voices = {}, reply = "open", history = "streaming",
         NEW failure, Retry(q, failure)
  PROVE  Goes(q)
<1>1. CASE q.attempts >= RetryMax
  BY <1>1, SwitchGoes DEF Retry
<1>2. CASE ~(q.attempts >= RetryMax)
  <2>1. q.attempts < RetryMax
    BY <1>2, ResponseNumbers, RetryAssumption DEF Attempted
  <2> QED
    BY <1>2, <2>1, NextAttemptGoes DEF Retry
<1> QED
  BY <1>1, <1>2

\* A turn that has text is no failure, so that only one without is retried.
LEMMA AttemptGoes ==
  ASSUME NEW q, Attempted(q), reply = "open", history = "streaming", NEW reason,
         Attempt(q, reason)
  PROVE  Goes(q)
<1>1. q \in Request
  BY DEF Attempted
<1>2. CASE reason \in Interruptions /\ q.got # {}
  BY <1>1, <1>2, ResumeGoes, FailGoes DEF Attempt
<1>3. CASE ~(reason \in Interruptions /\ q.got # {}) /\ Failure(q, reason) = "none"
  BY <1>1, <1>3, FinishGoes DEF Attempt
<1>4. CASE ~(reason \in Interruptions /\ q.got # {}) /\ Failure(q, reason) # "none"
  <2>1. q.voices = {}
    BY <1>4 DEF Failure, Attempted
  <2> QED
    BY <1>1, <1>4, <2>1, RetryGoes, FailGoes DEF Attempt
<1> QED
  BY <1>2, <1>3, <1>4
-----------------------------------------------------------------------------
(* The engine                                                                *)

LEMMA ReadingIsAttempt ==
  ASSUME Handles(req), req.phase = "consuming"
  PROVE  /\ Attempted(req)
         /\ \A l \in Shown : Attempted(Shows(req, l)) /\ Handles(Shows(req, l))
         /\ \A e \in {"transient", "permanent"} : Attempted([req EXCEPT !.upstreamErr = e])
         /\ Handles([req EXCEPT !.known = [message |-> req.message, session |-> req.session]])
         /\ Attempted([req EXCEPT !.beats = @ + 1])
         /\ req.beats + 1 < MaxKeepalives => Handles([req EXCEPT !.beats = @ + 1])
<1>1. req \in Request
  BY DEF Handles
<1>2. Attempted(req)
  BY DEF Handles, Attempted, Counted, Spoken
<1>3. ASSUME NEW l \in Shown
      PROVE  Attempted(Shows(req, l)) /\ Handles(Shows(req, l))
  <2> DEFINE q == Shows(req, l)
  <2>1. MaxKeepalives \in Nat /\ MaxKeepalives > 0
    BY RetryAssumption
  <2> DEFINE voices == IF l = "text" THEN req.voices \union {req.message} ELSE req.voices
             got == req.got \union {l}
  <2>a. voices \in SUBSET Response /\ got \in SUBSET Shown /\ 0 \in 0..MaxKeepalives
    BY <1>1, <2>1 DEF Request
  <2>b. q = [req EXCEPT !.got = got, !.content = TRUE, !.beats = 0, !.voices = voices]
    BY DEF Shows
  <2>2. q \in Request
    <3> HIDE DEF q, voices, got
    <3> QED
      BY <1>1, <2>a, <2>b DEF Request
  <2>3. /\ q.phase = "consuming" /\ q.cur = req.cur /\ q.attempts = req.attempts
        /\ q.tried = req.tried /\ q.message = req.message /\ q.account = req.account
        /\ q.session = req.session /\ q.first = req.first
        /\ q.got = req.got \union {l} /\ q.beats = 0
        /\ q.voices = IF l = "text" THEN req.voices \union {req.message} ELSE req.voices
    BY <1>1 DEF Shows, Request
  <2> HIDE DEF q
  <2>4. Spoken(q)
    BY <2>3 DEF Spoken, Handles, Anew
  <2>5. Counted(q)
    BY <2>3 DEF Counted, Handles
  <2> QED
    BY <2>1, <2>2, <2>3, <2>4, <2>5 DEF Handles, Attempted, Counted, Spoken, q
<1>4. ASSUME NEW e \in {"transient", "permanent"}
      PROVE  Attempted([req EXCEPT !.upstreamErr = e])
  BY <1>1, <1>2 DEF Attempted, Request
<1>5. Handles([req EXCEPT !.known = [message |-> req.message, session |-> req.session]])
  <2> DEFINE q == [req EXCEPT !.known = [message |-> req.message, session |-> req.session]]
  <2>1. q \in Request
    BY <1>1 DEF Request, Known
  <2>2. /\ q.phase = req.phase /\ q.cur = req.cur /\ q.attempts = req.attempts
        /\ q.tried = req.tried /\ q.message = req.message /\ q.account = req.account
        /\ q.session = req.session /\ q.first = req.first
        /\ q.got = req.got /\ q.beats = req.beats /\ q.voices = req.voices
    BY <1>1 DEF Request
  <2> HIDE DEF q
  <2>3. Handles(q)
    BY <2>1, <2>2 DEF Handles, Counted, Spoken
  <2> QED
    BY <2>3 DEF q
<1>6. /\ Attempted([req EXCEPT !.beats = @ + 1])
      /\ req.beats + 1 < MaxKeepalives => Handles([req EXCEPT !.beats = @ + 1])
  <2> DEFINE q == [req EXCEPT !.beats = @ + 1]
  <2>1. req.beats + 1 \in 0..MaxKeepalives
    BY <1>1, RetryAssumption DEF Handles, Request
  <2>2. q \in Request
    BY <1>1, <2>1 DEF Request
  <2>3. /\ q.phase = req.phase /\ q.cur = req.cur /\ q.attempts = req.attempts
        /\ q.tried = req.tried /\ q.message = req.message /\ q.account = req.account
        /\ q.session = req.session /\ q.first = req.first
        /\ q.got = req.got /\ q.beats = req.beats + 1 /\ q.voices = req.voices
    BY <1>1 DEF Request
  <2> HIDE DEF q
  <2>4. Attempted(q) /\ (req.beats + 1 < MaxKeepalives => Handles(q))
    BY <1>2, <2>2, <2>3 DEF Handles, Attempted, Counted, Spoken
  <2> QED
    BY <2>4 DEF q
<1> QED
  BY <1>2, <1>3, <1>4, <1>5, <1>6

\* The attempt ends, and its body is closed.
LEMMA StopGood ==
  ASSUME StreamInv, req.phase = "consuming", NEW q, q.cur = req.cur,
         Goes(q), CloseBody(req.cur)
  PROVE  StreamInv'
<1>1. /\ pipe' = [pipe EXCEPT ![req.cur] = [lines |-> <<>>, end |-> "closed"]]
      /\ UNCHANGED <<pump, left, cancelled>>
  BY DEF CloseBody
<1>2. req.cur \in Response /\ Handles(req')
  BY DEF StreamInv, Handles, Request, Goes
<1>3. BodyTypeOK'
  <2> DEFINE Pipe == [lines : Seq(Line), end : {"open", "eof", "error", "closed"}]
             p == [lines |-> <<>>, end |-> "closed"]
  <2>1. pipe \in [Response -> Pipe]
    BY DEF StreamInv, BodyTypeOK
  <2>2. p \in Pipe
    OBVIOUS
  <2> HIDE DEF Pipe, p
  <2>3. pipe' = [pipe EXCEPT ![req.cur] = p]
    BY <1>1 DEF p
  <2>4. pipe' \in [Response -> Pipe]
    BY <2>1, <2>2, <2>3
  <2> QED
    BY <1>1, <2>4 DEF StreamInv, BodyTypeOK, Pipe
<1>4. /\ (reply \in {"open", "finished", "failed", "dropped"})'
      /\ (history \in {"streaming", "success", "error", "stopped"})'
  BY DEF Goes, Told!Next, Told!End, StreamInv
<1>5. OpenedSoFar' /\ StillOpen'
  BY <1>1 DEF StreamInv, OpenedSoFar, StillOpen, Goes, Past
<1>6. BodiesClosed'
  BY <1>1, <1>2 DEF StreamInv, BodiesClosed, BodyTypeOK
<1> QED
  BY <1>2, <1>3, <1>4, <1>5, <1>6 DEF StreamInv

\* A step of the loop without a response.
LEMMA MoveGood ==
  ASSUME StreamInv, req.phase \notin Past, req.phase # "consuming", Goes(req),
         UNCHANGED bodyVars
  PROVE  StreamInv'
<1>1. UNCHANGED <<pump, pipe, left, cancelled>>
  BY DEF bodyVars
<1>2. /\ (reply \in {"open", "finished", "failed", "dropped"})'
      /\ (history \in {"streaming", "success", "error", "stopped"})'
  BY DEF Goes, Told!Next, Told!End, StreamInv
<1>3. Handles(req') /\ OpenedSoFar' /\ StillOpen' /\ BodiesClosed' /\ BodyTypeOK'
  BY <1>1 DEF StreamInv, OpenedSoFar, StillOpen, Goes, Past, BodiesClosed, BodyTypeOK
<1> QED
  BY <1>2, <1>3 DEF StreamInv

\* The handler goes on reading.
LEMMA ReadGood ==
  ASSUME StreamInv, req.phase = "consuming", NEW q, Handles(q), q.phase = "consuming",
         q.cur = req.cur, GoOn(q), UNCHANGED <<pump, left, cancelled>>,
         \/ pipe' = pipe
         \/ pipe[req.cur].lines # <<>> /\ pipe' = [pipe EXCEPT ![req.cur].lines = Tail(@)]
  PROVE  StreamInv'
<1>1. req' = q /\ UNCHANGED <<reply, history>>
  BY DEF GoOn, Become
<1>2. BodyTypeOK' /\ \A i \in Response : pipe'[i].end = pipe[i].end
  <2>1. CASE pipe' = pipe
    BY <2>1 DEF StreamInv, BodyTypeOK
  <2>2. CASE /\ pipe[req.cur].lines # <<>>
             /\ pipe' = [pipe EXCEPT ![req.cur].lines = Tail(@)]
    <3> DEFINE c == req.cur
               rest == [pipe[c] EXCEPT !.lines = Tail(@)]
               Pipe == [lines : Seq(Line), end : {"open", "eof", "error", "closed"}]
    <3>1. pipe \in [Response -> Pipe] /\ c \in Response
      BY DEF StreamInv, BodyTypeOK, Handles, Request
    <3>2. pipe[c] \in Pipe
      BY <3>1
    <3>3. Tail(pipe[c].lines) \in Seq(Line)
      BY <2>2, <3>2
    <3>4. rest \in Pipe /\ rest.end = pipe[c].end
      BY <3>2, <3>3
    <3>5. pipe' = [pipe EXCEPT ![c] = rest]
      BY <2>2, <3>1
    <3> HIDE DEF Pipe, rest, c
    <3>6. pipe' \in [Response -> Pipe] /\ \A i \in Response : pipe'[i].end = pipe[i].end
      BY <3>1, <3>4, <3>5
    <3> QED
      BY <3>6 DEF StreamInv, BodyTypeOK, Pipe
  <2> QED
    BY <2>1, <2>2
<1>4. OpenedSoFar' /\ StillOpen' /\ BodiesClosed'
  BY <1>1, <1>2 DEF StreamInv, OpenedSoFar, StillOpen, BodiesClosed, Past
<1> QED
  BY <1>1, <1>2, <1>4 DEF StreamInv
\* The engine ends with an attempt that is over.
LEMMA StopsGood ==
  ASSUME StreamInv, req.phase = "consuming", NEW q, Attempted(q), q.cur = req.cur,
         NEW reason, EngineStops(q, reason)
  PROVE  StreamInv'
<1>1. reply = "open" /\ history = "streaming"
  BY DEF StreamInv, StillOpen, Past
<1>2. Attempt(q, reason) /\ CloseBody(req.cur)
  BY DEF EngineStops
<1> QED
  BY <1>1, <1>2, AttemptGoes, StopGood

\* What does not change when a line is looked at.
LEMMA SameResponse ==
  ASSUME req \in Request
  PROVE  /\ \A l \in Shown : Shows(req, l).cur = req.cur /\ Shows(req, l).phase = req.phase
         /\ \A e \in {"transient", "permanent"} : [req EXCEPT !.upstreamErr = e].cur = req.cur
         /\ \A k \in Known : /\ [req EXCEPT !.known = k].cur = req.cur
                             /\ [req EXCEPT !.known = k].phase = req.phase
         /\ [req EXCEPT !.beats = @ + 1].cur = req.cur
         /\ [req EXCEPT !.beats = @ + 1].phase = req.phase
         /\ [req EXCEPT !.beats = @ + 1].beats = req.beats + 1
  BY DEF Request, Shows

\* The handler reads on in the response it reads.
LEMMA GoesOnGood ==
  ASSUME StreamInv, req.phase = "consuming", Body.lines # <<>>, NEW q, Handles(q),
         q.phase = "consuming", q.cur = req.cur, EngineGoesOn(q)
  PROVE  StreamInv'
  BY ReadGood DEF EngineGoesOn, Body

LEMMA ReadLineGood ==
  ASSUME StreamInv, ReadLine
  PROVE  StreamInv'
<1> DEFINE l == Head(Body.lines)
<1>1. req.phase = "consuming" /\ Body.lines # <<>> /\ Handles(req) /\ req \in Request
  BY DEF ReadLine, Consuming, StreamInv, Handles
<1>2. /\ Attempted(req)
      /\ \A k \in Shown : Attempted(Shows(req, k)) /\ Handles(Shows(req, k))
      /\ \A e \in {"transient", "permanent"} : Attempted([req EXCEPT !.upstreamErr = e])
      /\ Handles([req EXCEPT !.known = [message |-> req.message, session |-> req.session]])
  BY <1>1, ReadingIsAttempt
<1>3. CASE EngineGoesOn([req EXCEPT !.known = [message |-> req.message,
                                               session |-> req.session]])
  <2>1. [message |-> req.message, session |-> req.session] \in Known
    BY <1>1 DEF Request, Known
  <2> QED
    BY <1>1, <1>2, <1>3, <2>1, SameResponse, GoesOnGood
<1>4. CASE EngineGoesOn(req)
  BY <1>1, <1>4, GoesOnGood
<1>5. CASE l \in Shown /\ EngineGoesOn(Shows(req, l))
  <2> HIDE DEF l
  <2> QED
    BY <1>1, <1>2, <1>5, SameResponse, GoesOnGood
<1>6. CASE l = "text" /\ EngineStops(Shows(req, l), "repeat_loop")
  <2> HIDE DEF l
  <2>1. l \in Shown
    BY <1>6 DEF Shown
  <2> QED
    BY <1>1, <1>2, <1>6, <2>1, SameResponse, StopsGood
<1>7. CASE \E reason : EngineStops(req, reason)
  BY <1>1, <1>2, <1>7, StopsGood
<1>8. CASE \E e \in {"transient", "permanent"} :
             EngineStops([req EXCEPT !.upstreamErr = e], "upstream_error")
  BY <1>1, <1>2, <1>8, SameResponse, StopsGood
<1> QED
  BY <1>3, <1>4, <1>5, <1>6, <1>7, <1>8 DEF ReadLine

LEMMA ReadEndGood ==
  ASSUME StreamInv, ReadEnd
  PROVE  StreamInv'
<1>1. req.phase = "consuming" /\ Handles(req)
  BY DEF ReadEnd, Consuming, StreamInv
<1>2. Attempted(req)
  BY <1>1, ReadingIsAttempt
<1> QED
  BY <1>1, <1>2, StopsGood DEF ReadEnd

LEMMA IdleTimeoutGood ==
  ASSUME StreamInv, IdleTimeout
  PROVE  StreamInv'
<1>1. req.phase = "consuming" /\ Handles(req)
  BY DEF IdleTimeout, Consuming, StreamInv
<1>2. Attempted(req)
  BY <1>1, ReadingIsAttempt
<1> QED
  BY <1>1, <1>2, StopsGood DEF IdleTimeout

LEMMA KeepaliveGood ==
  ASSUME StreamInv, Keepalive
  PROVE  StreamInv'
<1> DEFINE q == [req EXCEPT !.beats = @ + 1]
<1>1. req.phase = "consuming" /\ Handles(req) /\ req \in Request
  BY DEF Keepalive, Consuming, StreamInv, Handles
<1>2. Attempted(q) /\ (req.beats + 1 < MaxKeepalives => Handles(q))
  BY <1>1, ReadingIsAttempt
<1>3. q.cur = req.cur /\ q.phase = "consuming" /\ q.beats = req.beats + 1
  BY <1>1, SameResponse
<1> HIDE DEF q
<1>4. CASE q.beats >= MaxKeepalives
  <2>1. EngineStops(q, "no_content_timeout")
    BY <1>4 DEF Keepalive, q
  <2> QED
    BY <1>1, <1>2, <1>3, <2>1, StopsGood
<1>5. CASE ~(q.beats >= MaxKeepalives)
  <2>1. GoOn(q) /\ UNCHANGED <<pump, pipe, left, cancelled>>
    BY <1>5 DEF Keepalive, q, bodyVars
  <2>2. req.beats \in Nat /\ MaxKeepalives \in Nat
    BY <1>1, RetryAssumption DEF Request
  <2>3. Handles(q)
    BY <1>2, <1>3, <1>5, <2>2
  <2> QED
    BY <1>1, <1>3, <2>1, <2>3, ReadGood
<1> QED
  BY <1>4, <1>5

LEMMA ContextDoneGood ==
  ASSUME StreamInv, ContextDone
  PROVE  StreamInv'
<1>1. req.phase = "consuming" /\ Handles(req) /\ req \in Request
  BY DEF ContextDone, StreamInv, Handles
<1>2. reply = "open" /\ history = "streaming"
  BY <1>1 DEF StreamInv, StillOpen, Past
<1>3. Goes(req)
  BY <1>1, <1>2, AnswerGoes DEF ContextDone, Request
<1> QED
  BY <1>1, <1>3, StopGood DEF ContextDone
-----------------------------------------------------------------------------
(* The bodies                                                                *)

Pump == [at : {"none", "reading", "opening", "over"}, id : BOOLEAN,
         status : {"none", "incomplete", "finished"}, content : BOOLEAN,
         done : BOOLEAN, rounds : 0..MaxRounds]

Pipe == [lines : Seq(Line), end : {"open", "eof", "error", "closed"}]

LEMMA BodyTypes ==
  BodyTypeOK <=> /\ pump \in [Response -> Pump] /\ pipe \in [Response -> Pipe]
                 /\ left \in 0..MaxLines /\ cancelled \in BOOLEAN
BY DEF BodyTypeOK, Pump, Pipe

LEMMA PumpTypes ==
  /\ NoPump \in Pump /\ NextRound(NoPump) \in Pump /\ Over \in Pump
  /\ \A p \in Pump : NextRound(p) \in Pump
  /\ NextRound(NoPump).at = "reading" /\ Over.at = "over"
<1>1. 0 \in 0..MaxRounds
  BY ContinueAssumption
<1>2. NoPump \in Pump
  BY <1>1 DEF NoPump, Pump
<1>3. \A p \in Pump : NextRound(p) \in Pump /\ NextRound(p).at = "reading"
  BY DEF NextRound, Pump
<1>4. Over \in Pump /\ Over.at = "over"
  BY <1>2 DEF Over, Pump
<1> QED
  BY <1>2, <1>3, <1>4

LEMMA ObserveType ==
  ASSUME NEW p \in Pump, NEW l \in Line
  PROVE  Observe(p, l) \in Pump
<1>1. CASE l = "id"
  BY <1>1 DEF Observe, Pump
<1>2. CASE l \in Shown
  BY <1>2 DEF Observe, Pump, Shown
<1>3. CASE l \in {"finished", "filtered"}
  BY <1>3 DEF Observe, Pump, Shown
<1>4. CASE l = "incomplete"
  <2>1. CASE p.status # "finished"
    BY <1>4, <2>1 DEF Observe, Pump, Shown
  <2>2. CASE p.status = "finished"
    BY <1>4, <2>2 DEF Observe, Pump, Shown
  <2> QED
    BY <2>1, <2>2
<1>5. CASE l = "done"
  BY <1>5 DEF Observe, Pump, Shown
<1>6. CASE l = "error"
  BY <1>6 DEF Observe, Pump, Shown
<1> QED
  BY <1>1, <1>2, <1>3, <1>4, <1>5, <1>6 DEF Line, Shown

\* A goroutine touches its own response only, and does not open a closed pipe.
Runs(i) ==
  /\ pump[i].at # "none"
  /\ \E p \in Pump : pump' = [pump EXCEPT ![i] = p]
  /\ \E c \in Pipe : /\ pipe' = [pipe EXCEPT ![i] = c]
                     /\ pipe[i].end = "closed" => c.end = "closed"
  /\ left' \in 0..MaxLines /\ UNCHANGED cancelled

LEMMA EndedRuns ==
  ASSUME BodyTypeOK, NEW i \in Response, NEW end \in {"eof", "error"}, pipe' = Ended(i, end)
  PROVE  \E c \in Pipe : /\ pipe' = [pipe EXCEPT ![i] = c]
                         /\ pipe[i].end = "closed" => c.end = "closed"
<1> DEFINE e == IF pipe[i].end = "open" THEN end ELSE pipe[i].end
           c == [pipe[i] EXCEPT !.end = e]
<1>1. pipe \in [Response -> Pipe] /\ pipe[i] \in Pipe
  BY BodyTypes
<1>2. e \in {"open", "eof", "error", "closed"} /\ (pipe[i].end = "closed" => e = "closed")
  BY <1>1 DEF Pipe
<1>3. pipe' = [pipe EXCEPT ![i] = c]
  BY <1>1 DEF Ended
<1> HIDE DEF e
<1>4. c \in Pipe /\ c.end = e
  BY <1>1, <1>2 DEF Pipe
<1> QED
  BY <1>2, <1>3, <1>4

LEMMA SamePipe ==
  ASSUME BodyTypeOK, NEW i \in Response, UNCHANGED pipe
  PROVE  \E c \in Pipe : /\ pipe' = [pipe EXCEPT ![i] = c]
                         /\ pipe[i].end = "closed" => c.end = "closed"
<1>1. pipe \in [Response -> Pipe] /\ pipe[i] \in Pipe
  BY BodyTypes
<1>2. pipe' = [pipe EXCEPT ![i] = pipe[i]]
  BY <1>1
<1> QED
  BY <1>1, <1>2

LEMMA OpeningType ==
  ASSUME NEW p \in Pump, p.rounds < MaxRounds
  PROVE  [p EXCEPT !.at = "opening", !.rounds = @ + 1] \in Pump
<1>1. p.rounds + 1 \in 0..MaxRounds
  BY ContinueAssumption DEF Pump
<1> QED
  BY <1>1 DEF Pump

LEMMA InterruptedRuns ==
  ASSUME BodyTypeOK, NEW i \in Response, NEW p \in Pump, Interrupted(i, p)
  PROVE  /\ \E n \in Pump : pump' = [pump EXCEPT ![i] = n]
         /\ \E c \in Pipe : /\ pipe' = [pipe EXCEPT ![i] = c]
                            /\ pipe[i].end = "closed" => c.end = "closed"
<1>1. CASE ~p.done /\ p.id /\ p.rounds < MaxRounds
  BY <1>1, OpeningType, SamePipe DEF Interrupted
<1>2. CASE ~(~p.done /\ p.id /\ p.rounds < MaxRounds)
  BY <1>2, PumpTypes, EndedRuns DEF Interrupted
<1> QED
  BY <1>1, <1>2

LEMMA LineArrivesRuns ==
  ASSUME BodyTypeOK, NEW i \in Response, LineArrives(i)
  PROVE  Runs(i)
<1>1. /\ pump \in [Response -> Pump] /\ pipe \in [Response -> Pipe]
      /\ left \in 0..MaxLines /\ pump[i] \in Pump /\ pipe[i] \in Pipe
  BY BodyTypes
<1>2. pump[i].at # "none" /\ UNCHANGED cancelled
  BY DEF LineArrives, Reading
<1>3. left' \in 0..MaxLines
  BY <1>1, ContinueAssumption DEF LineArrives
<1> DEFINE Piped == \E c \in Pipe : /\ pipe' = [pipe EXCEPT ![i] = c]
                                    /\ pipe[i].end = "closed" => c.end = "closed"
<1>4. PICK l \in Line :
        LET p == Observe(pump[i], l) IN
          IF l = "done" THEN pump' = [pump EXCEPT ![i] = p] /\ UNCHANGED pipe
          ELSE IF pipe[i].end = "closed" THEN Interrupted(i, p)
          ELSE /\ pump' = [pump EXCEPT ![i] = p]
               /\ pipe' = [pipe EXCEPT ![i].lines = Append(@, l)]
  BY DEF LineArrives
<1>5. Observe(pump[i], l) \in Pump
  BY <1>1, ObserveType
<1>6. (\E p \in Pump : pump' = [pump EXCEPT ![i] = p]) /\ Piped
  <2>1. CASE l = "done"
    BY <1>4, <1>5, <2>1, SamePipe
  <2>2. CASE l # "done" /\ pipe[i].end = "closed"
    BY <1>4, <1>5, <2>2, InterruptedRuns
  <2>3. CASE l # "done" /\ pipe[i].end # "closed"
    <3> DEFINE c == [pipe[i] EXCEPT !.lines = Append(@, l)]
    <3>1. Append(pipe[i].lines, l) \in Seq(Line)
      BY <1>1 DEF Pipe
    <3>2. c \in Pipe
      BY <1>1, <3>1 DEF Pipe
    <3>3. pipe' = [pipe EXCEPT ![i] = c]
      BY <1>1, <1>4, <2>3
    <3>4. \E p \in Pump : pump' = [pump EXCEPT ![i] = p]
      BY <1>4, <1>5, <2>3
    <3> QED
      BY <2>3, <3>2, <3>3, <3>4
  <2> QED
    BY <2>1, <2>2, <2>3
<1> QED
  BY <1>2, <1>3, <1>6 DEF Runs

LEMMA BodyEndsRuns ==
  ASSUME BodyTypeOK, NEW i \in Response, BodyEnds(i)
  PROVE  Runs(i)
<1> DEFINE p == pump[i]
           ended == IF pipe[i].end = "closed" THEN pipe[i]
                    ELSE [lines |-> IF p.done THEN Append(pipe[i].lines, "done")
                                    ELSE pipe[i].lines,
                          end |-> "eof"]
<1>1. /\ pump \in [Response -> Pump] /\ pipe \in [Response -> Pipe]
      /\ left \in 0..MaxLines /\ pump[i] \in Pump /\ pipe[i] \in Pipe
  BY BodyTypes
<1>2. pump[i].at # "none" /\ UNCHANGED cancelled /\ left' \in 0..MaxLines
  BY <1>1 DEF BodyEnds, Reading
<1>3. ended \in Pipe /\ (pipe[i].end = "closed" => ended.end = "closed")
  <2>1. CASE pipe[i].end = "closed"
    BY <1>1, <2>1
  <2>2. CASE pipe[i].end # "closed"
    <3> DEFINE lines == IF p.done THEN Append(pipe[i].lines, "done") ELSE pipe[i].lines
    <3>1. "done" \in Line /\ pipe[i].lines \in Seq(Line)
      BY <1>1 DEF Line, Pipe
    <3>2. lines \in Seq(Line)
      BY <3>1
    <3>3. ended = [lines |-> lines, end |-> "eof"]
      BY <2>2
    <3> HIDE DEF lines, ended
    <3> QED
      BY <2>2, <3>2, <3>3 DEF Pipe
  <2> QED
    BY <2>1, <2>2
<1>4. CASE ShouldContinue(p) /\ p.rounds < MaxRounds
  <2>1. pump' = [pump EXCEPT ![i] = [p EXCEPT !.at = "opening", !.rounds = @ + 1]]
    BY <1>4 DEF BodyEnds
  <2>2. [p EXCEPT !.at = "opening", !.rounds = @ + 1] \in Pump
    BY <1>1, <1>4, OpeningType
  <2>3. UNCHANGED pipe
    BY <1>4 DEF BodyEnds
  <2> QED
    BY <1>2, <2>1, <2>2, <2>3, SamePipe DEF Runs
<1>5. CASE ~(ShouldContinue(p) /\ p.rounds < MaxRounds)
  <2>1. pump' = [pump EXCEPT ![i] = Over] /\ pipe' = [pipe EXCEPT ![i] = ended]
    BY <1>1, <1>5 DEF BodyEnds
  <2> HIDE DEF ended
  <2> QED
    BY <1>2, <1>3, <2>1, PumpTypes DEF Runs
<1> QED
  BY <1>4, <1>5

LEMMA PumpStepRuns ==
  ASSUME BodyTypeOK, NEW i \in Response, PumpStep(i)
  PROVE  Runs(i)
<1>1. /\ pump \in [Response -> Pump] /\ left \in 0..MaxLines /\ pump[i] \in Pump
  BY BodyTypes
<1>2. CASE LineArrives(i)
  BY <1>2, LineArrivesRuns
<1>3. CASE BodyEnds(i)
  BY <1>3, BodyEndsRuns
<1>4. CASE BodyFails(i)
  BY <1>1, <1>4, InterruptedRuns DEF BodyFails, Reading, Runs
<1>5. CASE RoundOpens(i)
  <2>1. NextRound(pump[i]) \in Pump
    BY <1>1, PumpTypes
  <2>2. pump' = [pump EXCEPT ![i] = NextRound(pump[i])]
    BY <1>1, <1>5 DEF RoundOpens
  <2> QED
    BY <1>1, <1>5, <2>1, <2>2, SamePipe DEF RoundOpens, Runs
<1>6. CASE RoundFails(i) \/ PumpCancelled(i)
  BY <1>1, <1>6, PumpTypes, EndedRuns DEF RoundFails, PumpCancelled, Runs
<1> QED
  BY <1>2, <1>3, <1>4, <1>5, <1>6 DEF PumpStep

\* The goroutines leave the handler's invariant alone.
LEMMA PumpsGood ==
  ASSUME StreamInv, Pumps
  PROVE  StreamInv'
<1>1. PICK i \in Response : PumpStep(i) /\ UNCHANGED <<req, reply, history>>
  BY DEF Pumps
<1>2. BodyTypeOK /\ Runs(i)
  BY <1>1, PumpStepRuns DEF StreamInv
<1>3. pump \in [Response -> Pump] /\ pipe \in [Response -> Pipe] /\ cancelled \in BOOLEAN
  BY <1>2, BodyTypes
<1>4. PICK p \in Pump : pump' = [pump EXCEPT ![i] = p]
  BY <1>2 DEF Runs
<1>5. PICK c \in Pipe : /\ pipe' = [pipe EXCEPT ![i] = c]
                        /\ pipe[i].end = "closed" => c.end = "closed"
  BY <1>2 DEF Runs
<1>6. BodyTypeOK'
  <2>1. pump' \in [Response -> Pump] /\ pipe' \in [Response -> Pipe]
    BY <1>3, <1>4, <1>5
  <2>2. left' \in 0..MaxLines /\ cancelled' \in BOOLEAN
    BY <1>2, <1>3 DEF Runs
  <2> QED
    BY <2>1, <2>2 DEF BodyTypeOK, Pump, Pipe
<1>7. OpenedSoFar'
  BY <1>1, <1>2, <1>3, <1>4 DEF StreamInv, OpenedSoFar, Runs
<1>8. BodiesClosed'
  BY <1>1, <1>2, <1>3, <1>4, <1>5 DEF StreamInv, BodiesClosed, Runs
<1> QED
  BY <1>1, <1>6, <1>7, <1>8 DEF StreamInv, StillOpen
-----------------------------------------------------------------------------
(* The calls of the loop                                                     *)

\* The next response arrives, and the handler reads it.
LEMMA OpenGood ==
  ASSUME StreamInv, req.phase \notin Past, req.phase # "consuming",
         NEW q, Handles(q), q.phase = "consuming", q.cur = req.cur + 1, q.cur \in Response,
         OpenBody(q.cur) \/ OpenPage(q.cur), GoOn(q)
  PROVE  StreamInv'
<1> DEFINE i == q.cur
<1>1. req' = q /\ UNCHANGED <<reply, history>>
  BY DEF GoOn, Become
<1>2. /\ pump \in [Response -> Pump] /\ pipe \in [Response -> Pipe]
      /\ left \in 0..MaxLines /\ cancelled \in BOOLEAN
  BY BodyTypes DEF StreamInv
<1>3. UNCHANGED <<left, cancelled>>
  BY DEF OpenBody, OpenPage
<1>4. PICK p \in Pump : pump' = [pump EXCEPT ![i] = p]
  BY PumpTypes DEF OpenBody, OpenPage
<1>5. PICK c \in Pipe : pipe' = [pipe EXCEPT ![i] = c]
  <2>1. CASE OpenBody(i)
    BY <1>2, <2>1 DEF OpenBody
  <2>2. CASE OpenPage(i)
    <3>1. [pipe[i] EXCEPT !.end = "eof"] \in Pipe
      BY <1>2 DEF Pipe
    <3>2. pipe' = [pipe EXCEPT ![i] = [pipe[i] EXCEPT !.end = "eof"]]
      BY <1>2, <2>2 DEF OpenPage
    <3> QED
      BY <3>1, <3>2
  <2> QED
    BY <2>1, <2>2
<1>6. BodyTypeOK'
  <2>1. pump' \in [Response -> Pump] /\ pipe' \in [Response -> Pipe]
    BY <1>2, <1>4, <1>5
  <2> QED
    BY <1>2, <1>3, <2>1 DEF BodyTypeOK, Pump, Pipe
<1>7. req.cur \in Nat /\ Response \subseteq Nat
  BY ResponseNumbers, RetryAssumption DEF StreamInv, Handles
<1>8. OpenedSoFar'
  BY <1>1, <1>2, <1>4, <1>7 DEF StreamInv, OpenedSoFar, Past
<1>9. BodiesClosed'
  BY <1>1, <1>2, <1>4, <1>5 DEF StreamInv, BodiesClosed
<1> QED
  BY <1>1, <1>6, <1>8, <1>9 DEF StreamInv, StillOpen, Past

\* What the next response is read with.
LEMMA ReadOnHandles ==
  ASSUME Handles(req), req.phase \in {"continuing", "completing", "starting"}
  PROVE  /\ req.cur + 1 \in Response
         /\ \A q \in {ReadOn(req), NewMessage(req), OnAccountSwitch(req)} :
              q.phase = "consuming" /\ q.cur = req.cur + 1
         /\ Handles(ReadOn(req))
         /\ req.phase # "continuing" => Handles(NewMessage(req)) /\ Handles(OnAccountSwitch(req))
<1>1. req \in Request
  BY DEF Handles
<1>2. req.cur < req.attempts + Cardinality(req.tried)
  BY DEF Handles, Counted
<1>3. /\ req.cur \in Nat /\ req.message \in Nat /\ req.attempts \in Nat
      /\ Cardinality(req.tried) \in Nat /\ req.cur + 1 \in Response
  BY <1>1, <1>2, ResponseNumbers, TriedIsFinite
<1>4. 0 \in 0..MaxKeepalives /\ 0 < MaxKeepalives
  BY RetryAssumption
<1>5. req.cur + 1 <= req.attempts + Cardinality(req.tried)
  BY <1>2, <1>3
<1> DEFINE next == req.cur + 1
           q == ReadOn(req)
           n == NewMessage(req)
           s == OnAccountSwitch(req)
           session == IF req.why = "captcha" THEN req.first ELSE req.session
<1>6. /\ q \in Request /\ q.phase = "consuming" /\ q.cur = next /\ q.message = req.message
      /\ q.account = req.account /\ q.session = req.session /\ q.first = req.first
      /\ q.tried = req.tried /\ q.attempts = req.attempts /\ q.beats = 0
      /\ q.voices = req.voices /\ q.got = req.got
  <2> HIDE DEF next
  <2>1. next \in Response
    BY <1>3 DEF next
  <2>2. q = [req EXCEPT !.phase = "consuming", !.cur = next, !.content = FALSE, !.beats = 0]
    BY DEF ReadOn, next
  <2>3. "consuming" \in Phase
    BY DEF Phase
  <2> HIDE DEF q
  <2> QED
    BY <1>1, <1>4, <2>1, <2>2, <2>3 DEF Request
<1>7. /\ n \in Request /\ n.phase = "consuming" /\ n.cur = next /\ n.message = next
      /\ n.account = req.account /\ n.session = req.session /\ n.first = req.first
      /\ n.tried = req.tried /\ n.attempts = req.attempts /\ n.beats = 0
      /\ n.voices = req.voices /\ n.got = req.got
  <2> HIDE DEF q, next
  <2>1. n = [q EXCEPT !.message = next] /\ next \in Response
    BY <1>3 DEF NewMessage, next, q
  <2> HIDE DEF n
  <2> QED
    BY <1>6, <2>1 DEF Request
<1>8. /\ s \in Request /\ s.phase = "consuming" /\ s.cur = next /\ s.message = next
      /\ s.account = req.account /\ s.session = session /\ s.first = req.first
      /\ s.tried = req.tried /\ s.attempts = req.attempts /\ s.beats = 0
      /\ s.voices = req.voices /\ s.got = req.got
  <2>1. n.session = req.session
    BY <1>7
  <2> HIDE DEF n, next
  <2>2. session \in Account
    BY <1>1 DEF Request
  <2>3. s = [n EXCEPT !.session = session]
    BY <2>1 DEF OnAccountSwitch, n
  <2> HIDE DEF s, session
  <2> QED
    BY <1>7, <2>2, <2>3 DEF Request
<1> HIDE DEF q, n, s
<1>9. Handles(q)
  BY <1>3, <1>4, <1>5, <1>6 DEF Handles, Counted, Spoken, Anew
<1>10. ASSUME req.phase # "continuing"
       PROVE  Handles(n) /\ Handles(s)
  <2>1. req.voices = {}
    BY <1>10 DEF Handles, Spoken, Anew
  <2>2. session \in req.tried
    BY DEF Handles
  <2> HIDE DEF session
  <2> QED
    BY <1>3, <1>4, <1>5, <1>7, <1>8, <2>1, <2>2 DEF Handles, Counted, Spoken, Anew
<1> QED
  BY <1>3, <1>6, <1>7, <1>8, <1>9, <1>10 DEF q, n, s

\* A call that is not made, or fails: the request is answered, or another account is due.
LEMMA CallGood ==
  ASSUME StreamInv, req.phase \notin Past, req.phase # "consuming", UNCHANGED bodyVars,
         \/ Fail(req)
         \/ req.phase = "completing" /\ \E failure : \E why \in {"call", "captcha"} :
                                           Switch(req, failure, why)
  PROVE  StreamInv'
<1>1. /\ req \in Request /\ Handles(req) /\ reply = "open" /\ history = "streaming"
  BY DEF StreamInv, StillOpen, Handles
<1>2. CASE Fail(req)
  BY <1>1, <1>2, FailGoes, MoveGood
<1>3. CASE req.phase = "completing" /\ \E failure : \E why \in {"call", "captcha"} :
                                         Switch(req, failure, why)
  <2>1. req.cur < req.attempts + Cardinality(req.tried) /\ req.voices = {}
    BY <1>1, <1>3 DEF Handles, Counted, Spoken, Anew
  <2>2. req.cur <= req.attempts + Cardinality(req.tried)
    BY <1>1, <2>1, ResponseNumbers, TriedIsFinite
  <2>3. Attempted(req)
    BY <1>1, <2>2 DEF Attempted, Handles, Spoken
  <2>4. Goes(req)
    BY <1>1, <1>3, <2>1, <2>3, SwitchGoes
  <2> QED
    BY <2>4, MoveGood
<1> QED
  BY <1>2, <1>3

LEMMA ContinuesGood ==
  ASSUME StreamInv, Continues
  PROVE  StreamInv'
<1>1. req.phase = "continuing" /\ Handles(req) /\ req.phase \notin Past
  BY DEF Continues, StreamInv, Past
<1>2. CASE OpenBody(req.cur + 1) /\ GoOn(ReadOn(req))
  BY <1>1, <1>2, ReadOnHandles, OpenGood
<1>3. CASE UNCHANGED bodyVars /\ Fail(req)
  BY <1>1, <1>3, CallGood
<1> QED
  BY <1>2, <1>3 DEF Continues

LEMMA CompletesGood ==
  ASSUME StreamInv, Completes
  PROVE  StreamInv'
<1>1. req.phase = "completing" /\ Handles(req) /\ req.phase \notin Past
  BY DEF Completes, StreamInv, Past
<1>2. CASE OpenBody(req.cur + 1) /\ GoOn(NewMessage(req))
  BY <1>1, <1>2, ReadOnHandles, OpenGood
<1>3. CASE UNCHANGED bodyVars /\ (\/ Switch(req, "unavailable", "call")
                                  \/ Switch(req, "rate_limited", "captcha") \/ Fail(req))
  BY <1>1, <1>3, CallGood
<1> QED
  BY <1>2, <1>3 DEF Completes

LEMMA StartsGood ==
  ASSUME StreamInv, Starts
  PROVE  StreamInv'
<1>1. req.phase = "starting" /\ Handles(req) /\ req.phase \notin Past
  BY DEF Starts, StreamInv, Past
<1>2. CASE (OpenBody(req.cur + 1) \/ OpenPage(req.cur + 1)) /\ GoOn(OnAccountSwitch(req))
  BY <1>1, <1>2, ReadOnHandles, OpenGood
<1>3. CASE UNCHANGED bodyVars /\ Fail(req)
  BY <1>1, <1>3, CallGood
<1> QED
  BY <1>2, <1>3 DEF Starts

\* A proof of work, or a session, was made.
LEMMA PhaseGood ==
  ASSUME StreamInv, UNCHANGED <<pump, pipe, left, cancelled, reply, history>>,
         NEW session \in req.tried, NEW moved \in BOOLEAN,
         NEW phase,
         \/ req.phase = "resuming" /\ phase = "continuing"
         \/ req.phase = "retrying" /\ phase = "completing"
         \/ req.phase = "sessioning" /\ phase = "powing"
         \/ req.phase = "powing" /\ phase = "starting",
         req' = [req EXCEPT !.phase = phase, !.session = session, !.moved = moved]
  PROVE  StreamInv'
<1>1. req \in Request /\ Handles(req)
  BY DEF StreamInv, Handles
<1>2. session \in Account /\ phase \in Phase
  BY <1>1 DEF Request, Phase
<1>3. req' \in Request
  BY <1>1, <1>2 DEF Request
<1>4. /\ req'.phase = phase /\ req'.cur = req.cur /\ req'.attempts = req.attempts
      /\ req'.tried = req.tried /\ req'.message = req.message /\ req'.account = req.account
      /\ req'.session = session /\ req'.first = req.first
      /\ req'.got = req.got /\ req'.voices = req.voices
  BY <1>1 DEF Request
<1>5. Handles(req')
  BY <1>1, <1>3, <1>4 DEF Handles, Counted, Spoken, Anew
<1>6. Goes(req)
  BY <1>4, <1>5 DEF Goes, Past
<1> QED
  BY <1>6, MoveGood DEF bodyVars, Past

LEMMA RetryPowGood ==
  ASSUME StreamInv, RetryPow
  PROVE  StreamInv'
<1> DEFINE phase == IF req.phase = "resuming" THEN "continuing" ELSE "completing"
<1>1. req \in Request /\ req.session \in req.tried /\ req.moved \in BOOLEAN
  BY Zenon DEF StreamInv, Handles, Request
<1>2. req' = [req EXCEPT !.phase = phase]
  BY DEF RetryPow, GoOn, Become
<1>3. UNCHANGED <<pump, pipe, left, cancelled, reply, history>>
  BY DEF RetryPow, GoOn, bodyVars
<1>4. \/ req.phase = "resuming" /\ phase = "continuing"
      \/ req.phase = "retrying" /\ phase = "completing"
  BY DEF RetryPow
<1> HIDE DEF phase
<1>5. req' = [req EXCEPT !.phase = phase, !.session = req.session, !.moved = req.moved]
  BY <1>1, <1>2 DEF Request
<1> QED
  BY <1>1, <1>3, <1>4, <1>5, PhaseGood

LEMMA CreateSessionGood ==
  ASSUME StreamInv, CreateSession
  PROVE  StreamInv'
<1>1. req.phase = "sessioning" /\ req.phase \notin Past /\ UNCHANGED bodyVars
  BY DEF CreateSession, Past
<1>2. CASE Fail(req)
  BY <1>1, <1>2, CallGood
<1>3. CASE GoOn([req EXCEPT !.phase = "powing", !.session = req.account, !.moved = FALSE])
  <2>1. req.account \in req.tried
    BY DEF StreamInv, Handles
  <2> QED
    BY <1>1, <1>3, <2>1, PhaseGood DEF GoOn, Become, bodyVars
<1> QED
  BY <1>2, <1>3 DEF CreateSession

LEMMA GetPowGood ==
  ASSUME StreamInv, GetPow
  PROVE  StreamInv'
<1>1. req.phase = "powing" /\ req.phase \notin Past /\ UNCHANGED bodyVars
  BY DEF GetPow, Past
<1>2. CASE Fail(req)
  BY <1>1, <1>2, CallGood
<1>3. CASE GoOn([req EXCEPT !.phase = "starting"])
  <2>1. req \in Request /\ req.session \in req.tried /\ req.moved \in BOOLEAN
    BY Zenon DEF StreamInv, Handles, Request
  <2>2. req' = [req EXCEPT !.phase = "starting", !.session = req.session, !.moved = req.moved]
    BY <1>3, <2>1 DEF GoOn, Become, Request
  <2> QED
    BY <1>1, <1>3, <2>1, <2>2, PhaseGood DEF GoOn, bodyVars
<1> QED
  BY <1>2, <1>3 DEF GetPow

\* Another account is taken: it was not tried before.
LEMMA OtherAccountGood ==
  ASSUME StreamInv, UNCHANGED bodyVars, NEW a \in Account \ req.tried,
         NEW phase, NEW moved \in BOOLEAN,
         \/ req.phase \in {"resuming", "retrying", "sessioning", "powing"} /\ phase = req.phase
         \/ req.phase = "switching" /\ phase = "sessioning",
         GoOn([req EXCEPT !.phase = phase, !.account = a, !.tried = @ \union {a},
                          !.moved = moved])
  PROVE  StreamInv'
<1>1. req \in Request /\ Handles(req)
  BY DEF StreamInv, Handles
<1>2. req' = [req EXCEPT !.phase = phase, !.account = a, !.tried = req.tried \union {a},
                         !.moved = moved]
  BY DEF GoOn, Become
<1>3. phase \in Phase /\ req.tried \union {a} \in SUBSET Account
  BY <1>1 DEF Request, Phase
<1>4. req' \in Request
  BY <1>1, <1>2, <1>3 DEF Request
<1>5. /\ req'.phase = phase /\ req'.cur = req.cur /\ req'.attempts = req.attempts
      /\ req'.tried = req.tried \union {a} /\ req'.message = req.message
      /\ req'.account = a /\ req'.session = req.session /\ req'.first = req.first
      /\ req'.got = req.got /\ req'.voices = req.voices
  BY <1>1, <1>2 DEF Request
<1>6. Cardinality(req'.tried) = Cardinality(req.tried) + 1
  BY <1>1, <1>5, TriedIsFinite, FS_AddElement
<1>7. /\ req.cur \in Nat /\ req.attempts \in Nat /\ Cardinality(req.tried) \in Nat
  BY <1>1, ResponseNumbers, TriedIsFinite
<1>8. req.cur <= req.attempts + Cardinality(req.tried)
  <2>1. CASE req.phase = "switching"
    BY <1>1, <2>1 DEF Handles, Counted
  <2>2. CASE req.phase # "switching"
    <3>1. req.cur < req.attempts + Cardinality(req.tried)
      BY <1>1, <2>2 DEF Handles, Counted
    <3> QED
      BY <1>7, <3>1
  <2> QED
    BY <2>1, <2>2
<1>9. req.cur < req.attempts + Cardinality(req'.tried)
  BY <1>6, <1>7, <1>8
<1>10. Counted(req')
  BY <1>5, <1>9 DEF Counted
<1>11. Spoken(req')
  BY <1>1, <1>5 DEF Handles, Spoken, Anew
<1>12. Handles(req')
  BY <1>1, <1>4, <1>5, <1>10, <1>11 DEF Handles
<1>13. Goes(req)
  BY <1>5, <1>12 DEF Goes, Past, GoOn
<1> QED
  BY <1>13, MoveGood DEF Past

LEMMA ClientMovesGood ==
  ASSUME StreamInv, ClientMoves
  PROVE  StreamInv'
<1> DEFINE moved == req.phase # "sessioning"
<1>1. req \in Request /\ moved \in BOOLEAN
  BY DEF StreamInv, Handles
<1>2. PICK a \in Account \ req.tried :
        GoOn([req EXCEPT !.account = a, !.tried = @ \union {a}, !.moved = moved])
  BY DEF ClientMoves
<1>3. /\ req.phase \in {"resuming", "retrying", "sessioning", "powing"}
      /\ UNCHANGED bodyVars
  BY DEF ClientMoves
<1> HIDE DEF moved
<1>4. GoOn([req EXCEPT !.phase = req.phase, !.account = a, !.tried = @ \union {a},
                       !.moved = moved])
  BY <1>1, <1>2 DEF GoOn, Become, Request
<1> QED
  BY <1>1, <1>3, <1>4, OtherAccountGood

LEMMA SwitchAccountGood ==
  ASSUME StreamInv, SwitchAccount
  PROVE  StreamInv'
<1>1. req.phase = "switching" /\ req.phase \notin Past /\ UNCHANGED bodyVars
  BY DEF SwitchAccount, Past
<1>2. CASE Fail(req)
  BY <1>1, <1>2, CallGood
<1>3. CASE \E a \in Account \ req.tried :
             GoOn([req EXCEPT !.phase = "sessioning", !.account = a, !.tried = @ \union {a}])
  <2>1. PICK a \in Account \ req.tried :
          GoOn([req EXCEPT !.phase = "sessioning", !.account = a, !.tried = @ \union {a}])
    BY <1>3
  <2>2. req \in Request /\ req.moved \in BOOLEAN
    BY Zenon DEF StreamInv, Handles, Request
  <2>3. GoOn([req EXCEPT !.phase = "sessioning", !.account = a, !.tried = @ \union {a},
                         !.moved = req.moved])
    BY <2>1, <2>2 DEF GoOn, Become, Request
  <2> QED
    BY <1>1, <2>2, <2>3, OtherAccountGood
<1> QED
  BY <1>2, <1>3 DEF SwitchAccount
-----------------------------------------------------------------------------
(* The invariant                                                             *)

LEMMA HandlerReturnsGood ==
  ASSUME StreamInv, HandlerReturns
  PROVE  StreamInv'
<1>1. /\ req.phase = "answered" /\ req' = [req EXCEPT !.phase = "returned"]
      /\ UNCHANGED <<pump, pipe, left, reply, history>> /\ cancelled' = TRUE
  BY DEF HandlerReturns, GoOn, Become
<1>2. req \in Request
  BY DEF StreamInv, Handles
<1>3. req' \in Request /\ req'.phase = "returned"
  BY <1>1, <1>2 DEF Request, Phase
<1>4. Handles(req')
  BY <1>1, <1>2, <1>3 DEF StreamInv, Handles, Counted, Spoken, Anew, Request
<1>5. BodyTypeOK'
  BY <1>1 DEF StreamInv, BodyTypeOK
<1>6. OpenedSoFar' /\ StillOpen' /\ BodiesClosed'
  BY <1>1, <1>3 DEF StreamInv, OpenedSoFar, StillOpen, BodiesClosed, Past
<1> QED
  BY <1>1, <1>4, <1>5, <1>6 DEF StreamInv

LEMMA ClientLeavesGood ==
  ASSUME StreamInv, ClientLeaves
  PROVE  StreamInv'
BY DEF ClientLeaves, StreamInv, BodyTypeOK, OpenedSoFar, StillOpen, BodiesClosed

LEMMA StreamInit ==
  ASSUME Init
  PROVE  StreamInv
<1>1. PICK a \in Starting : \E managed \in BOOLEAN : req = Fresh(a, managed)
  BY DEF Init
<1>2. PICK managed \in BOOLEAN : req = Fresh(a, managed)
  BY <1>1
<1>3. Handles(req)
  BY <1>2, RetryAssumption, FreshHandles
<1>4. req.phase = "consuming" /\ req.cur = 1 /\ req.cur \in Response
  BY <1>2, <1>3 DEF Fresh, Handles, Request
<1>5. /\ pump = [i \in Response |-> IF i = 1 THEN NextRound(NoPump) ELSE NoPump]
      /\ pipe = [i \in Response |-> NoPipe] /\ left = MaxLines /\ cancelled = FALSE
      /\ reply = "open" /\ history = "streaming"
  BY DEF Init, InitBodies
<1>6. NoPipe \in Pipe
  BY DEF NoPipe, Pipe
<1>7. BodyTypeOK
  <2>1. pump \in [Response -> Pump] /\ pipe \in [Response -> Pipe]
    BY <1>5, <1>6, PumpTypes
  <2>2. MaxLines \in 0..MaxLines
    BY ContinueAssumption
  <2>3. left \in 0..MaxLines
    BY Zenon, <1>5, <2>2
  <2>4. cancelled \in BOOLEAN
    BY Zenon, <1>5
  <2> QED
    BY <2>1, <2>3, <2>4, BodyTypes
<1>8. OpenedSoFar /\ StillOpen /\ BodiesClosed
  <2>1. \A i \in Response : i # 1 => pump[i].at = "none"
    BY <1>5 DEF NoPump
  <2> QED
    BY <1>4, <1>5, <2>1 DEF OpenedSoFar, StillOpen, BodiesClosed
<1> QED
  BY <1>3, <1>5, <1>7, <1>8 DEF StreamInv

LEMMA StreamStep ==
  ASSUME StreamInv, [Next]_vars
  PROVE  StreamInv'
<1>1. CASE UNCHANGED vars
  BY <1>1 DEF vars, bodyVars, StreamInv, BodyTypeOK, OpenedSoFar, StillOpen, BodiesClosed
<1>2. CASE Pumps
  BY <1>2, PumpsGood
<1>3. CASE ClientLeaves
  BY <1>3, ClientLeavesGood
<1>4. CASE Handler
  <2>1. CASE ReadLine
    BY <2>1, ReadLineGood
  <2>2. CASE ReadEnd
    BY <2>2, ReadEndGood
  <2>3. CASE Keepalive
    BY <2>3, KeepaliveGood
  <2>4. CASE IdleTimeout
    BY <2>4, IdleTimeoutGood
  <2>5. CASE ContextDone
    BY <2>5, ContextDoneGood
  <2>6. CASE RetryPow
    BY <2>6, RetryPowGood
  <2>7. CASE ClientMoves
    BY <2>7, ClientMovesGood
  <2>8. CASE Continues
    BY <2>8, ContinuesGood
  <2>9. CASE Completes
    BY <2>9, CompletesGood
  <2>10. CASE SwitchAccount
    BY <2>10, SwitchAccountGood
  <2>11. CASE CreateSession
    BY <2>11, CreateSessionGood
  <2>12. CASE GetPow
    BY <2>12, GetPowGood
  <2>13. CASE Starts
    BY <2>13, StartsGood
  <2>14. CASE HandlerReturns
    BY <2>14, HandlerReturnsGood
  <2> QED
    BY <1>4, <2>1, <2>2, <2>3, <2>4, <2>5, <2>6, <2>7, <2>8, <2>9, <2>10, <2>11, <2>12,
       <2>13, <2>14 DEF Handler
<1> QED
  BY <1>1, <1>2, <1>3, <1>4 DEF Next

LEMMA StreamInvariant == Spec => []StreamInv
<1>1. Init => StreamInv
  BY StreamInit
<1>2. StreamInv /\ [Next]_vars => StreamInv'
  BY StreamStep
<1> QED
  BY <1>1, <1>2, PTL DEF Spec

\* The variables of a streamed completion and of its bodies have their types, for every
\* number of accounts, retries, rounds and lines: the loop never counts past its limits,
\* and never opens more responses than it has retries and accounts.
THEOREM StreamTypesAreRight == Spec => []StreamTypeOK
<1>1. StreamInv => StreamTypeOK
  BY DEF StreamInv, Handles, StreamTypeOK
<1> QED
  BY <1>1, StreamInvariant, PTL

\* What an attempt, a retry or another account writes is never appended to text of
\* another message (chat_stream_runtime.go keeps one accumulator for all of them).
THEOREM TextIsOfOneMessage == Spec => []OneVoice
<1>1. StreamInv => OneVoice
  <2> SUFFICES ASSUME StreamInv PROVE OneVoice
    OBVIOUS
  <2>1. req.voices = {} \/ req.voices = {req.message}
    BY DEF StreamInv, Handles, Spoken
  <2>2. Cardinality({}) = 0 /\ Cardinality({req.message}) = 1
    BY FS_EmptySet, FS_Singleton
  <2> QED
    BY <2>1, <2>2 DEF OneVoice
<1> QED
  BY <1>1, StreamInvariant, PTL

\* No body is left open behind, whichever way an attempt ends (consumeChatStreamAttempt).
THEOREM EveryBodyIsClosed == Spec => []BodiesClosed
<1>1. StreamInv => BodiesClosed
  BY DEF StreamInv
<1> QED
  BY <1>1, StreamInvariant, PTL

-----------------------------------------------------------------------------
(* What the client and the history are told                                  *)

Says == Told!Next \/ UNCHANGED <<reply, history>>

LEMMA AttemptSays ==
  ASSUME reply = "open", history = "streaming", NEW q, NEW reason, Attempt(q, reason)
  PROVE  Says
BY Zenon DEF Attempt, Resume, Retry, Switch, Finish, Fail, Answer, GoOn, Says, Told!Next, Told!End

LEMMA FailSays ==
  ASSUME reply = "open", history = "streaming", NEW q, Fail(q)
  PROVE  Says
BY Zenon DEF Fail, Answer, Says, Told!Next, Told!End

LEMMA EngineSays ==
  ASSUME StreamInv, ReadLine \/ ReadEnd \/ Keepalive \/ IdleTimeout
  PROVE  Says
<1>1. reply = "open" /\ history = "streaming"
  BY DEF StreamInv, StillOpen, Past, ReadLine, ReadEnd, Keepalive, IdleTimeout, Consuming
<1>2. (\E q, reason : Attempt(q, reason)) \/ UNCHANGED <<reply, history>>
  <2>1. CASE ReadLine
    BY Zenon, <2>1 DEF ReadLine, EngineStops, EngineGoesOn, GoOn
  <2>2. CASE ReadEnd \/ IdleTimeout
    BY Zenon, <2>2 DEF ReadEnd, IdleTimeout, EngineStops
  <2>3. CASE Keepalive
    BY Zenon, <2>3 DEF Keepalive, EngineStops, GoOn
  <2> QED
    BY <2>1, <2>2, <2>3
<1> QED
  BY <1>1, <1>2, AttemptSays DEF Says

LEMMA LoopSays ==
  ASSUME StreamInv,
         \/ ContextDone \/ RetryPow \/ ClientMoves \/ Continues \/ Completes
         \/ SwitchAccount \/ CreateSession \/ GetPow \/ Starts \/ HandlerReturns
  PROVE  Says
<1>1. CASE RetryPow \/ ClientMoves \/ HandlerReturns
  BY Zenon, <1>1 DEF RetryPow, ClientMoves, HandlerReturns, GoOn, Says
<1>2. CASE ContextDone
  <2>1. reply = "open" /\ history = "streaming"
    BY <1>2 DEF StreamInv, StillOpen, Past, ContextDone
  <2> QED
    BY <1>2, <2>1 DEF ContextDone, Answer, Says, Told!Next, Told!End
<1>3. CASE Continues \/ Completes \/ SwitchAccount \/ CreateSession \/ GetPow \/ Starts
  <2>1. reply = "open" /\ history = "streaming"
    BY <1>3 DEF StreamInv, StillOpen, Past, Continues, Completes, SwitchAccount,
                CreateSession, GetPow, Starts
  <2>2. CASE Completes
    <3>1. Fail(req) \/ UNCHANGED <<reply, history>>
      BY Zenon, <2>2 DEF Completes, Switch, GoOn
    <3> QED
      BY <2>1, <3>1, FailSays DEF Says
  <2>3. CASE Continues \/ SwitchAccount \/ CreateSession \/ GetPow \/ Starts
    <3>1. Fail(req) \/ UNCHANGED <<reply, history>>
      BY Zenon, <2>3 DEF Continues, SwitchAccount, CreateSession, GetPow, Starts, GoOn
    <3> QED
      BY <2>1, <3>1, FailSays DEF Says
  <2> QED
    BY <1>3, <2>2, <2>3
<1> QED
  BY <1>1, <1>2, <1>3

\* A streamed completion implements Reply: it has one last frame, the history tells the
\* same story, and a client that has left is told nothing.
THEOREM StreamImplementsReply == Spec => ReplyAsPromised
<1>1. Init => Told!Init
  BY DEF Init, Told!Init
<1>2. StreamInv /\ [Next]_vars => [Told!Next]_<<reply, history>>
  <2> SUFFICES ASSUME StreamInv, [Next]_vars PROVE Says
    BY DEF Says
  <2>1. CASE UNCHANGED vars \/ Pumps \/ ClientLeaves
    BY <2>1 DEF vars, Pumps, ClientLeaves, Says
  <2>2. CASE Handler
    BY <2>2, EngineSays, LoopSays DEF Handler
  <2> QED
    BY <2>1, <2>2 DEF Next
<1> QED
  BY <1>1, <1>2, StreamInvariant, PTL DEF Spec, ReplyAsPromised, Told!Spec
\* What was broken off is resumed, or it failed; what had nothing to show has failed.
LEMMA InterruptedFails ==
  ASSUME reply = "open", NEW q, NEW reason \in Interruptions, Attempt(q, reason)
  PROVE  reply' # "finished"
<1>1. CASE q.got # {}
  BY Zenon, <1>1 DEF Attempt, Resume, Fail, Answer, GoOn
<1>2. CASE q.got = {} /\ q.upstreamErr = "none"
  <2>1. Failure(q, reason) = "unavailable"
    BY <1>2 DEF Failure, Interruptions
  <2>2. Retry(q, "unavailable") \/ Fail(q)
    BY Zenon, <1>2, <2>1 DEF Attempt
  <2> QED
    BY Zenon, <2>2 DEF Retry, Switch, Fail, Answer, GoOn
<1>3. CASE q.got = {} /\ q.upstreamErr # "none"
  <2>1. Failure(q, reason) = q.upstreamErr
    BY <1>3 DEF Failure
  <2>2. Retry(q, q.upstreamErr) \/ Fail(q)
    BY Zenon, <1>3, <2>1 DEF Attempt
  <2> QED
    BY Zenon, <2>2 DEF Retry, Switch, Fail, Answer, GoOn
<1> QED
  BY <1>1, <1>2, <1>3

\* An answer that was broken off or that stalled is never told as a complete one,
\* whatever it had shown until then (empty_retry_runtime.go:219).
THEOREM BrokenOffIsNotFinished == Spec => InterruptedIsNoFinish
<1>1. ASSUME StreamInv, IdleTimeout \/ Keepalive \/ (ReadEnd /\ Body.end = "error")
      PROVE  reply' # "finished"
  <2>1. reply = "open"
    BY <1>1 DEF StreamInv, StillOpen, Past, ReadEnd, Keepalive, IdleTimeout, Consuming
  <2>2. CASE IdleTimeout
    BY <2>1, <2>2, InterruptedFails DEF IdleTimeout, EngineStops, Interruptions
  <2>3. CASE Keepalive
    <3>1. (\E q : Attempt(q, "no_content_timeout")) \/ UNCHANGED reply
      BY Zenon, <2>3 DEF Keepalive, EngineStops, GoOn
    <3> QED
      BY <2>1, <3>1, InterruptedFails DEF Interruptions
  <2>4. CASE ReadEnd /\ Body.end = "error"
    <3>1. Attempt(req, "read_error")
      BY <2>4 DEF ReadEnd, EngineStops
    <3> QED
      BY <2>1, <3>1, InterruptedFails DEF Interruptions
  <2> QED
    BY <1>1, <2>2, <2>3, <2>4
<1>2. StreamInv /\ [Next]_vars =>
        [IdleTimeout \/ Keepalive \/ (ReadEnd /\ Body.end = "error") =>
           reply' # "finished"]_vars
  BY <1>1
<1> QED
  BY <1>2, StreamInvariant, PTL DEF Spec, InterruptedIsNoFinish

-----------------------------------------------------------------------------
(* The conversation                                                          *)

\* The message, and its session, that a retry may name.
ItsOwn(q) == q.known \in {None, [message |-> q.message, session |-> q.session]}

Retrying == {"resuming", "continuing", "retrying", "completing"}

\* While a retry is left no account was switched and nothing was retried yet; the one
\* retry goes on from there.
Conversation(q) ==
  /\ (q.attempts < RetryMax /\ q.phase \notin Past) =>
       q.phase = "consuming" /\ q.account = q.session /\ ItsOwn(q)
  /\ q.phase \in Retrying => ItsOwn(q) /\ (q.account = q.session \/ q.moved)
  /\ q.phase \in {"resuming", "continuing"} => q.known # None

LEMMA AnswerConverses ==
  ASSUME NEW q, NEW told, NEW kept, Answer(q, told, kept)
  PROVE  Conversation(req')
<1>1. req'.phase = "answered"
  BY DEF Answer, Become, Fresh
<1> QED
  BY <1>1 DEF Conversation, Past, Retrying

LEMMA NextAttemptConverses ==
  ASSUME RetryMax <= 1, NEW q \in Request, q.phase = "consuming", Conversation(q),
         q.attempts < RetryMax, NEW phase \in {"resuming", "retrying"},
         phase = "resuming" => q.known # None,
         GoOn([q EXCEPT !.phase = phase, !.attempts = @ + 1])
  PROVE  Conversation(req')
<1>1. req' = [q EXCEPT !.phase = phase, !.attempts = @ + 1]
  BY DEF GoOn, Become
<1>2. /\ req'.phase = phase /\ req'.attempts = q.attempts + 1 /\ req'.known = q.known
      /\ req'.message = q.message /\ req'.session = q.session /\ req'.account = q.account
      /\ req'.moved = q.moved
  BY <1>1 DEF Request
<1>3. ItsOwn(q) /\ q.account = q.session
  BY DEF Conversation, Past
<1>4. ~(req'.attempts < RetryMax)
  BY <1>2, ResponseNumbers, RetryAssumption
<1> QED
  BY <1>2, <1>3, <1>4 DEF Conversation, ItsOwn, Retrying, Past

LEMMA SwitchConverses ==
  ASSUME NEW q \in Request, ~(q.attempts < RetryMax), NEW failure, NEW why,
         Switch(q, failure, why)
  PROVE  Conversation(req')
<1>1. CASE Fail(q)
  BY <1>1, AnswerConverses DEF Fail
<1>2. CASE CanSwitch(q, failure)
  <2> DEFINE once == q.once \/ failure = "rate_limited"
  <2>1. req' = [q EXCEPT !.phase = "switching", !.why = why, !.once = once]
    BY <1>2 DEF Switch, GoOn, Become
  <2> HIDE DEF once
  <2>2. req'.phase = "switching" /\ req'.attempts = q.attempts
    BY <2>1 DEF Request
  <2> QED
    BY <2>2 DEF Conversation, Retrying
<1> QED
  BY <1>1, <1>2 DEF Switch

LEMMA AttemptConverses ==
  ASSUME RetryMax <= 1, NEW q \in Request, q.phase = "consuming", Conversation(q),
         NEW reason, Attempt(q, reason)
  PROVE  Conversation(req')
<1>1. (q.attempts >= RetryMax) = ~(q.attempts < RetryMax)
  BY ResponseNumbers, RetryAssumption
<1>2. CASE Fail(q) \/ Finish(q)
  BY <1>2, AnswerConverses DEF Fail, Finish
<1>3. CASE q.known # None /\ Resume(q)
  <2>1. CASE q.attempts < RetryMax
    BY <1>1, <1>3, <2>1, NextAttemptConverses DEF Resume
  <2>2. CASE ~(q.attempts < RetryMax)
    BY <1>1, <1>2, <1>3, <2>2 DEF Resume
  <2> QED
    BY <2>1, <2>2
<1>4. CASE \E failure : Retry(q, failure)
  <2>1. CASE q.attempts < RetryMax
    BY <1>1, <1>4, <2>1, NextAttemptConverses DEF Retry
  <2>2. CASE ~(q.attempts < RetryMax)
    BY <1>1, <1>4, <2>2, SwitchConverses DEF Retry
  <2> QED
    BY <2>1, <2>2
<1>5. Fail(q) \/ Finish(q) \/ (q.known # None /\ Resume(q)) \/ \E failure : Retry(q, failure)
  BY Zenon DEF Attempt
<1> QED
  BY <1>2, <1>3, <1>4, <1>5
\* The handler reads, and the request stays the one it was.
LEMMA LineConverses ==
  ASSUME req \in Request, req.phase = "consuming", Conversation(req)
  PROVE  /\ \A l \in Shown : /\ Shows(req, l).phase = "consuming"
                             /\ Conversation(Shows(req, l))
         /\ \A e \in {"transient", "permanent"} :
              /\ [req EXCEPT !.upstreamErr = e].phase = "consuming"
              /\ Conversation([req EXCEPT !.upstreamErr = e])
         /\ Conversation([req EXCEPT !.known = [message |-> req.message,
                                                session |-> req.session]])
         /\ [req EXCEPT !.beats = @ + 1].phase = "consuming"
         /\ Conversation([req EXCEPT !.beats = @ + 1])
<1>1. ASSUME NEW l \in Shown
      PROVE  Shows(req, l).phase = "consuming" /\ Conversation(Shows(req, l))
  <2> DEFINE q == Shows(req, l)
  <2>1. /\ q.phase = req.phase /\ q.attempts = req.attempts /\ q.account = req.account
        /\ q.session = req.session /\ q.message = req.message /\ q.known = req.known
    BY DEF Shows, Request
  <2> HIDE DEF q
  <2>2. q.phase = "consuming" /\ Conversation(q)
    BY <2>1 DEF Conversation, ItsOwn, Retrying
  <2> QED
    BY <2>2 DEF q
<1>2. ASSUME NEW e \in {"transient", "permanent"}
      PROVE  /\ [req EXCEPT !.upstreamErr = e].phase = "consuming"
             /\ Conversation([req EXCEPT !.upstreamErr = e])
  <2> DEFINE q == [req EXCEPT !.upstreamErr = e]
  <2>1. /\ q.phase = req.phase /\ q.attempts = req.attempts /\ q.account = req.account
        /\ q.session = req.session /\ q.message = req.message /\ q.known = req.known
    BY DEF Request
  <2> HIDE DEF q
  <2>2. q.phase = "consuming" /\ Conversation(q)
    BY <2>1 DEF Conversation, ItsOwn, Retrying
  <2> QED
    BY <2>2 DEF q
<1>3. Conversation([req EXCEPT !.known = [message |-> req.message, session |-> req.session]])
  <2> DEFINE k == [message |-> req.message, session |-> req.session]
             q == [req EXCEPT !.known = k]
  <2>1. /\ q.phase = req.phase /\ q.attempts = req.attempts /\ q.account = req.account
        /\ q.session = req.session /\ q.message = req.message /\ q.known = k
    BY DEF Request
  <2>2. ItsOwn(q)
    BY <2>1 DEF ItsOwn
  <2> HIDE DEF q, k
  <2>3. Conversation(q)
    BY <2>1, <2>2 DEF Conversation, Retrying
  <2> QED
    BY <2>3 DEF q, k
<1>4. /\ [req EXCEPT !.beats = @ + 1].phase = "consuming"
      /\ Conversation([req EXCEPT !.beats = @ + 1])
  <2> DEFINE q == [req EXCEPT !.beats = @ + 1]
  <2>1. /\ q.phase = req.phase /\ q.attempts = req.attempts /\ q.account = req.account
        /\ q.session = req.session /\ q.message = req.message /\ q.known = req.known
    BY DEF Request
  <2> HIDE DEF q
  <2>2. q.phase = "consuming" /\ Conversation(q)
    BY <2>1 DEF Conversation, ItsOwn, Retrying
  <2> QED
    BY <2>2 DEF q
<1> QED
  BY <1>1, <1>2, <1>3, <1>4

LEMMA EngineConverses ==
  ASSUME RetryMax <= 1, StreamInv, Conversation(req),
         ReadLine \/ ReadEnd \/ Keepalive \/ IdleTimeout
  PROVE  Conversation(req')
<1>1. req \in Request /\ Handles(req) /\ req.phase = "consuming"
  BY DEF StreamInv, Handles, ReadLine, ReadEnd, Keepalive, IdleTimeout, Consuming
<1>2. /\ Attempted(req) /\ \A k \in Shown : Attempted(Shows(req, k))
      /\ \A e \in {"transient", "permanent"} : Attempted([req EXCEPT !.upstreamErr = e])
      /\ Attempted([req EXCEPT !.beats = @ + 1])
  BY <1>1, ReadingIsAttempt
<1>3. CASE ReadLine
  <2> DEFINE l == Head(Body.lines)
  <2>1. CASE EngineGoesOn([req EXCEPT !.known = [message |-> req.message,
                                                 session |-> req.session]])
    BY <1>1, <2>1, LineConverses DEF EngineGoesOn, GoOn, Become
  <2>2. CASE EngineGoesOn(req)
    BY <2>2 DEF EngineGoesOn, GoOn, Become
  <2>3. CASE l \in Shown /\ EngineGoesOn(Shows(req, l))
    <3> HIDE DEF l
    <3> QED
      BY <1>1, <2>3, LineConverses DEF EngineGoesOn, GoOn, Become
  <2>4. CASE l = "text" /\ EngineStops(Shows(req, l), "repeat_loop")
    <3> HIDE DEF l
    <3>1. l \in Shown
      BY <2>4 DEF Shown
    <3> QED
      BY <1>1, <1>2, <2>4, <3>1, LineConverses, AttemptConverses DEF EngineStops, Attempted
  <2>5. CASE \E reason : EngineStops(req, reason)
    BY <1>1, <2>5, AttemptConverses DEF EngineStops
  <2>6. CASE \E e \in {"transient", "permanent"} :
               EngineStops([req EXCEPT !.upstreamErr = e], "upstream_error")
    BY <1>1, <1>2, <2>6, LineConverses, AttemptConverses DEF EngineStops, Attempted
  <2> QED
    BY <1>3, <2>1, <2>2, <2>3, <2>4, <2>5, <2>6 DEF ReadLine
<1>4. CASE ReadEnd \/ IdleTimeout
  <2>1. \E reason : Attempt(req, reason)
    BY Zenon, <1>4 DEF ReadEnd, IdleTimeout, EngineStops
  <2> QED
    BY <1>1, <2>1, AttemptConverses
<1>5. CASE Keepalive
  <2> DEFINE q == [req EXCEPT !.beats = @ + 1]
  <2>1. (\E reason : Attempt(q, reason)) \/ req' = q
    BY Zenon, <1>5 DEF Keepalive, EngineStops, GoOn, Become
  <2>2. q \in Request /\ q.phase = "consuming" /\ Conversation(q)
    BY <1>1, <1>2, LineConverses DEF Attempted
  <2> HIDE DEF q
  <2> QED
    BY <2>1, <2>2, AttemptConverses
<1> QED
  BY <1>3, <1>4, <1>5

\* Without a retry left, what is begun after a retry or a switch is not retried.
LEMMA NotRetrying ==
  ASSUME ~(req'.attempts < RetryMax), req'.phase \notin Retrying
  PROVE  Conversation(req')
BY DEF Conversation, Retrying

LEMMA LoopConverses ==
  ASSUME StreamInv, Conversation(req),
         \/ RetryPow \/ ClientMoves \/ Continues \/ Completes
         \/ SwitchAccount \/ CreateSession \/ GetPow \/ Starts
  PROVE  Conversation(req')
<1>1. req \in Request
  BY DEF StreamInv, Handles
<1>2. ~(req.attempts < RetryMax)
  BY DEF Conversation, Past, RetryPow, ClientMoves, Continues, Completes, SwitchAccount,
         CreateSession, GetPow, Starts
<1>3. CASE Fail(req)
  BY <1>3, AnswerConverses DEF Fail
<1>4. CASE RetryPow
  <2> DEFINE phase == IF req.phase = "resuming" THEN "continuing" ELSE "completing"
  <2>1. req' = [req EXCEPT !.phase = phase] /\ req.phase \in {"resuming", "retrying"}
    BY <1>4 DEF RetryPow, GoOn, Become
  <2>2. (phase = "continuing" /\ req.phase = "resuming") \/ phase = "completing"
    OBVIOUS
  <2> HIDE DEF phase
  <2>3. /\ req'.phase = phase /\ req'.attempts = req.attempts /\ req'.known = req.known
        /\ req'.message = req.message /\ req'.session = req.session
        /\ req'.account = req.account
    BY <1>1, <2>1 DEF Request
  <2>4. req.moved \in BOOLEAN /\ req'.moved = req.moved
    BY <1>1, <2>1 DEF Request
  <2>5. ItsOwn(req') /\ (req'.account = req'.session \/ req'.moved)
    BY <2>1, <2>3, <2>4 DEF Conversation, ItsOwn, Retrying
  <2> QED
    BY <1>2, <2>1, <2>2, <2>3, <2>5 DEF Conversation
<1>5. CASE ClientMoves
  <2> DEFINE moved == req.phase # "sessioning"
  <2>1. PICK a \in Account : req' = [req EXCEPT !.account = a, !.tried = @ \union {a},
                                                 !.moved = moved]
    BY <1>5 DEF ClientMoves, GoOn, Become
  <2>2. req.phase \in Retrying => moved
    BY DEF Retrying
  <2> HIDE DEF moved
  <2>3. /\ req'.phase = req.phase /\ req'.attempts = req.attempts /\ req'.known = req.known
        /\ req'.message = req.message /\ req'.session = req.session /\ req'.moved = moved
    BY <1>1, <2>1 DEF Request
  <2> QED
    BY <1>2, <2>2, <2>3 DEF Conversation, ItsOwn
<1>6. CASE GoOn(ReadOn(req)) \/ GoOn(NewMessage(req)) \/ GoOn(OnAccountSwitch(req))
  <2>1. req'.phase = "consuming" /\ req'.attempts = req.attempts
    BY <1>1, <1>6 DEF GoOn, Become, ReadOn, NewMessage, OnAccountSwitch, Request
  <2> QED
    BY <1>2, <2>1, NotRetrying DEF Retrying
<1>7. CASE (SwitchAccount \/ CreateSession \/ GetPow) /\ ~Fail(req)
  <2>1. req'.phase \in {"sessioning", "powing", "starting"} /\ req'.attempts = req.attempts
    BY <1>1, <1>7 DEF SwitchAccount, CreateSession, GetPow, GoOn, Become, Request
  <2> QED
    BY <1>2, <2>1, NotRetrying DEF Retrying
<1>8. CASE Completes
  <2>1. (\E failure, why : Switch(req, failure, why)) \/ GoOn(NewMessage(req)) \/ Fail(req)
    BY Zenon, <1>8 DEF Completes
  <2> QED
    BY <1>1, <1>2, <1>3, <1>6, <2>1, SwitchConverses
<1>9. CASE Continues \/ Starts
  <2>1. GoOn(ReadOn(req)) \/ GoOn(OnAccountSwitch(req)) \/ Fail(req)
    BY Zenon, <1>9 DEF Continues, Starts
  <2> QED
    BY <1>3, <1>6, <2>1
<1> QED
  BY <1>3, <1>4, <1>5, <1>7, <1>8, <1>9

LEMMA ConversationStep ==
  ASSUME RetryMax <= 1, StreamInv, Conversation(req), [Next]_vars
  PROVE  Conversation(req')
<1>1. CASE UNCHANGED vars \/ Pumps \/ ClientLeaves
  BY <1>1 DEF vars, Pumps, ClientLeaves
<1>2. CASE ContextDone
  BY <1>2, AnswerConverses DEF ContextDone
<1>3. CASE HandlerReturns
  <2>1. req'.phase = "returned"
    BY <1>3 DEF HandlerReturns, GoOn, Become, StreamInv, Handles, Request
  <2> QED
    BY <2>1 DEF Conversation, Past, Retrying
<1>4. CASE Handler /\ ~ContextDone /\ ~HandlerReturns
  BY <1>4, EngineConverses, LoopConverses DEF Handler
<1> QED
  BY <1>1, <1>2, <1>3, <1>4 DEF Next

\* With the one retry that EmptyOutputRetryMaxAttempts allows, a retry or a resumption goes
\* on in the conversation that was broken off, for every number of accounts and however
\* they are switched (stream_retry.go:251).  With a second retry it would not: the
\* invariant rests on there being none after a switch.
THEOREM RetriesStayInTheConversation ==
  ASSUME RetryMax <= 1
  PROVE  Spec => []RetriesItsConversation
<1>1. Init => Conversation(req)
  <2> SUFFICES ASSUME Init PROVE Conversation(req)
    OBVIOUS
  <2>1. \E a \in Starting, managed \in BOOLEAN : req = Fresh(a, managed)
    BY DEF Init
  <2> QED
    BY <2>1 DEF Fresh, Conversation, ItsOwn, Retrying
<1>2. StreamInv /\ Conversation(req) /\ [Next]_vars => Conversation(req)'
  BY ConversationStep
<1>3. StreamInv /\ Conversation(req) => RetriesItsConversation
  <2> SUFFICES ASSUME StreamInv, Conversation(req), req.phase \in {"continuing", "completing"}
               PROVE  /\ req.known # None => req.known.session = req.session
                      /\ req.phase = "continuing" => req.known.message = req.message
                      /\ req.account = req.session \/ req.moved
    BY DEF RetriesItsConversation
  <2>1. ItsOwn(req) /\ (req.account = req.session \/ req.moved)
    BY DEF Conversation, Retrying
  <2>2. req.phase = "continuing" => req.known # None
    BY DEF Conversation
  <2> QED
    BY <2>1, <2>2 DEF ItsOwn
<1> QED
  BY <1>1, <1>2, <1>3, StreamInvariant, PTL DEF Spec
=============================================================================
