---------------------------- MODULE StreamRetry ----------------------------
(***************************************************************************)
(* A streamed chat completion, from its first response to its last frame:  *)
(* the loop of retries, resumptions and account switches                   *)
(* (completionruntime/stream_retry.go), the attempt that reads a response  *)
(* (openai/chat/empty_retry_runtime.go, chat_stream_runtime.go) and the    *)
(* engine that drives it (stream/engine.go), over the bodies of            *)
(* AutoContinue, whose goroutines run beside the handler.                  *)
(*                                                                         *)
(* Slots are RequestAuth's matter: here a switch has another account or    *)
(* has none.  Tool calls count as text; what they contain is left out.     *)
(***************************************************************************)
EXTENDS Accounts, AutoContinue, FiniteSets

CONSTANTS
  None,
  Starting,      \* the accounts StartCompletion may end with
  RetryMax,      \* EmptyOutputRetryMaxAttempts
  MaxKeepalives  \* dsprotocol.MaxKeepaliveCount

ASSUME RetryAssumption ==
  /\ IsFiniteSet(Account) /\ Starting \subseteq Account
  /\ None \notin Account \union Response
  /\ RetryMax \in Nat /\ MaxKeepalives \in Nat \ {0}
  /\ Response = 1..(RetryMax + Cardinality(Account))

VARIABLES
  req,       \* the handler's state
  reply,     \* what the client was told
  history    \* what the chat history was told

vars == <<bodyVars, req, reply, history>>

Phase == {"consuming", "resuming", "continuing", "retrying", "completing", "switching",
          "sessioning", "powing", "starting", "answered", "returned"}

\* A handler that begins to read response 1, of account a
Fresh(a, managed) ==
  [phase |-> "consuming",
   cur |-> 1,             \* the response that is read
   message |-> 1,         \* the response its message began with
   account |-> a, managed |-> managed, tried |-> {a},
   session |-> a,         \* the payload's, named by its account
   first |-> a,           \* that of the payload the loop was called with
   moved |-> FALSE,       \* the client's own loop has changed the account since
   known |-> None,        \* responseMessageID: the message, and its session
   got |-> {},            \* what the accumulator holds
   voices |-> {},         \* ghost: the messages its text is of
   upstreamErr |-> "none",
   attempts |-> 0, once |-> FALSE, why |-> "none",
   content |-> FALSE, beats |-> 0]

Init ==
  /\ InitBodies
  /\ pump = [i \in Response |-> IF i = 1 THEN NextRound(NoPump) ELSE NoPump]
  /\ \E a \in Starting, managed \in BOOLEAN : req = Fresh(a, managed)
  /\ reply = "open" /\ history = "streaming"

-----------------------------------------------------------------------------
(* The end of the request                                                    *)

Become(q) == req' = q

GoOn(q) == Become(q) /\ UNCHANGED <<reply, history>>

\* The loop returns, and its state is gone.
Answer(q, told, kept) ==
  /\ Become([Fresh(q.account, q.managed) EXCEPT !.phase = "answered"])
  /\ reply' = told /\ history' = kept

\* finalize without an error, and recordChatStreamHistory
Finish(q) == Answer(q, "finished", "success")

\* failChatStreamRetry, or finalize with an error
Fail(q) == Answer(q, "failed", "error")

-----------------------------------------------------------------------------
(* What an attempt comes to                                                  *)

\* ValidateTurn: the error of a turn that ended for this reason, if it has one.  The
\* upstream's error may be an earlier attempt's: nothing resets it.
Failure(q, reason) ==
  IF "text" \in q.got THEN "none"
  ELSE IF q.upstreamErr # "none" THEN q.upstreamErr
  ELSE IF reason = "content_filter" THEN "permanent"
  ELSE IF "thinking" \in q.got THEN "rate_limited"
  ELSE "unavailable"

\* canRetryOnAlternateAccount, up to SwitchAccount
CanSwitch(q, failure) ==
  /\ q.managed
  /\ failure \in {"unavailable", "transient"} \/ (failure = "rate_limited" /\ ~q.once)

Switch(q, failure, why) ==
  IF CanSwitch(q, failure)
  THEN GoOn([q EXCEPT !.phase = "switching", !.why = why,
                      !.once = @ \/ failure = "rate_limited"])
  ELSE Fail(q)

BugResumeAsEmpty(q) ==
  IF q.attempts >= RetryMax THEN Switch(q, "unavailable", "empty")
  ELSE GoOn([q EXCEPT !.phase = "resuming", !.attempts = @ + 1])

\* ResumeContinue: a message that was cut goes on, while attempts are left.
Resume(q) ==
  IF q.attempts >= RetryMax THEN Fail(q)
  ELSE GoOn([q EXCEPT !.phase = "resuming", !.attempts = @ + 1])

Retry(q, failure) ==
  IF q.attempts >= RetryMax THEN Switch(q, failure, "empty")
  ELSE GoOn([q EXCEPT !.phase = "retrying", !.attempts = @ + 1])

Interruptions == {"read_error", "idle_timeout", "no_content_timeout"}

MayDefer(q, reason) ==
  (q.attempts < RetryMax \/ q.managed) /\ reason # "content_filter"

BugInterruptedIsOver(q, reason) ==
  IF reason \in Interruptions /\ q.got # {} /\ q.known # None THEN Resume(q)
  ELSE IF Failure(q, reason) = "none" THEN Finish(q)
  ELSE IF MayDefer(q, reason) THEN Retry(q, Failure(q, reason)) ELSE Fail(q)

BugFailsAndGoesOn(q, reason) ==
  IF reason \in Interruptions /\ q.got # {}
  THEN IF q.known # None THEN Resume(q)
       ELSE /\ reply' = "failed" /\ history' = "error"
            /\ Become([q EXCEPT !.phase = "retrying", !.attempts = @ + 1])
  ELSE IF Failure(q, reason) = "none" THEN Finish(q)
  ELSE IF MayDefer(q, reason) THEN Retry(q, Failure(q, reason)) ELSE Fail(q)

\* consumeChatStreamAttempt after the engine, and the loop up to its next call
Attempt(q, reason) ==
  IF reason \in Interruptions /\ q.got # {}
  THEN IF q.known # None THEN Resume(q) ELSE Fail(q)
  ELSE IF Failure(q, reason) = "none" THEN Finish(q)
  ELSE IF MayDefer(q, reason) THEN Retry(q, Failure(q, reason)) ELSE Fail(q)

-----------------------------------------------------------------------------
(* ConsumeSSE                                                                *)

Consuming == req.phase = "consuming" /\ ~cancelled

Body == pipe[req.cur]

\* The engine ends; consumeChatStreamAttempt closes the body.
EngineStops(q, reason) ==
  /\ Attempt(q, reason)
  /\ CloseBody(q.cur)

\* The line is read, and the engine goes on.
EngineGoesOn(q) ==
  /\ GoOn(q)
  /\ pipe' = [pipe EXCEPT ![q.cur].lines = Tail(@)]
  /\ UNCHANGED <<pump, left, cancelled>>

Shows(q, l) ==
  [q EXCEPT !.got = @ \union {l}, !.content = TRUE, !.beats = 0,
            !.voices = IF l = "text" THEN @ \union {q.message} ELSE @]

\* onParsed; a text in which the content policy finds a loop or a role marker is the last.
ReadLine ==
  /\ Consuming /\ Body.lines # <<>>
  /\ LET l == Head(Body.lines) IN
       \/ /\ l = "id"
          /\ EngineGoesOn([req EXCEPT !.known = [message |-> req.message,
                                                 session |-> req.session]])
       \/ l = "incomplete" /\ EngineGoesOn(req)
       \/ l \in Shown /\ EngineGoesOn(Shows(req, l))
       \/ l = "text" /\ EngineStops(Shows(req, l), "repeat_loop")
       \/ l \in {"finished", "done"} /\ EngineStops(req, "handler_requested")
       \/ /\ l = "filtered"
          /\ EngineStops(req, IF "text" \in req.got THEN "handler_requested"
                              ELSE "content_filter")
       \/ l = "error" /\ \E e \in {"transient", "permanent"} :
                           EngineStops([req EXCEPT !.upstreamErr = e], "upstream_error")

ReadEnd ==
  /\ Consuming /\ Body.lines = <<>>
  /\ \/ Body.end = "eof" /\ EngineStops(req, "upstream_completed")
     \/ Body.end = "error" /\ EngineStops(req, "read_error")

BugNoLimitOfKeepalives ==
  /\ Consuming /\ ~req.content /\ req.beats < MaxKeepalives
  /\ GoOn([req EXCEPT !.beats = @ + 1]) /\ UNCHANGED bodyVars

\* A keep-alive interval without content
Keepalive ==
  /\ Consuming /\ ~req.content
  /\ LET q == [req EXCEPT !.beats = @ + 1] IN
       IF q.beats >= MaxKeepalives THEN EngineStops(q, "no_content_timeout")
       ELSE GoOn(q) /\ UNCHANGED bodyVars

IdleTimeout ==
  /\ Consuming /\ req.content
  /\ EngineStops(req, "idle_timeout")

\* contextDone: looked at before anything else
ContextDone ==
  /\ req.phase = "consuming" /\ cancelled
  /\ Answer(req, "dropped", "stopped")
  /\ CloseBody(req.cur)

-----------------------------------------------------------------------------
(* The calls of the loop                                                     *)

\* The next response is read from its beginning: ResetContentPolicy, a new engine.
ReadOn(q) ==
  [q EXCEPT !.phase = "consuming", !.cur = @ + 1, !.content = FALSE, !.beats = 0]

NewMessage(q) == [ReadOn(q) EXCEPT !.message = q.cur + 1]

\* GetPow; if it fails, the first proof of work is used again.
RetryPow ==
  /\ req.phase \in {"resuming", "retrying"}
  /\ GoOn([req EXCEPT !.phase = IF @ = "resuming" THEN "continuing" ELSE "completing"])
  /\ UNCHANGED bodyVars

\* A proof of work, or a session, is not given to this account: the client's own loop
\* goes on with another one.
ClientMoves ==
  /\ req.phase \in {"resuming", "retrying", "sessioning", "powing"} /\ req.managed
  /\ \E a \in Account \ req.tried :
       GoOn([req EXCEPT !.account = a, !.tried = @ \union {a},
                        !.moved = req.phase # "sessioning"])
  /\ UNCHANGED bodyVars

\* ContinueCompletion
Continues ==
  /\ req.phase = "continuing"
  /\ \/ ~cancelled /\ OpenBody(req.cur + 1) /\ GoOn(ReadOn(req))
     \/ UNCHANGED bodyVars /\ Fail(req)

\* CallCompletion with the payload of a retry; a call that fails, a challenge and a
\* passing fault of the upstream may each be answered by another account.
Completes ==
  /\ req.phase = "completing"
  /\ \/ ~cancelled /\ OpenBody(req.cur + 1) /\ GoOn(NewMessage(req))
     \/ /\ UNCHANGED bodyVars
        /\ \/ ~cancelled /\ Switch(req, "unavailable", "call")
           \/ ~cancelled /\ Switch(req, "rate_limited", "captcha")
           \/ Fail(req)

-----------------------------------------------------------------------------
(* Another account                                                           *)

SwitchAccount ==
  /\ req.phase = "switching"
  /\ \/ \E a \in Account \ req.tried :
          GoOn([req EXCEPT !.phase = "sessioning", !.account = a, !.tried = @ \union {a}])
     \/ Fail(req)
  /\ UNCHANGED bodyVars

(* startPayloadCompletionOnAlternateAccount *)

CreateSession ==
  /\ req.phase = "sessioning"
  /\ \/ ~cancelled /\ GoOn([req EXCEPT !.phase = "powing", !.session = req.account,
                                       !.moved = FALSE])
     \/ Fail(req)
  /\ UNCHANGED bodyVars

GetPow ==
  /\ req.phase = "powing"
  /\ GoOn([req EXCEPT !.phase = "starting"]) \/ Fail(req)
  /\ UNCHANGED bodyVars

BugCountsAnew(q) == [NewMessage(q) EXCEPT !.attempts = 0]

\* After a challenge the loop keeps the payload of its first session for its retries.
OnAccountSwitch(q) ==
  [NewMessage(q) EXCEPT !.session = IF q.why = "captcha" THEN q.first ELSE @]

\* Whatever is answered is read as a stream.
Starts ==
  /\ req.phase = "starting"
  /\ \/ ~cancelled /\ OpenBody(req.cur + 1) /\ GoOn(OnAccountSwitch(req))
     \/ ~cancelled /\ OpenPage(req.cur + 1) /\ GoOn(OnAccountSwitch(req))
     \/ UNCHANGED bodyVars /\ Fail(req)

-----------------------------------------------------------------------------
(* The request's context                                                     *)

ClientLeaves ==
  /\ ~cancelled /\ cancelled' = TRUE
  /\ UNCHANGED <<pump, pipe, left, req, reply, history>>

\* The remote session is deleted and the slot released; the server ends the context.
HandlerReturns ==
  /\ req.phase = "answered"
  /\ GoOn([req EXCEPT !.phase = "returned"])
  /\ cancelled' = TRUE
  /\ UNCHANGED <<pump, pipe, left>>

Handler ==
  \/ ReadLine \/ ReadEnd \/ Keepalive \/ IdleTimeout \/ ContextDone
  \/ RetryPow \/ ClientMoves \/ Continues \/ Completes
  \/ SwitchAccount \/ CreateSession \/ GetPow \/ Starts
  \/ HandlerReturns

Pumps == \E i \in Response : PumpStep(i) /\ UNCHANGED <<req, reply, history>>

Next == Handler \/ Pumps \/ ClientLeaves

Spec == Init /\ [][Next]_vars

\* The handler goes on: its calls have timeouts and the engine has a ticker.  A goroutine
\* goes on when its context ends; nothing makes the upstream send or end anything.
FairSpec ==
  /\ Spec /\ WF_vars(Handler)
  /\ \A i \in Response : WF_vars(PumpCancelled(i) /\ UNCHANGED <<req, reply, history>>)

-----------------------------------------------------------------------------
(* Properties                                                                *)

Known == [message : Response, session : Account] \union {None}

Request ==
  [phase : Phase, cur : Response, message : Response, account : Account, managed : BOOLEAN,
   tried : SUBSET Account, session : Account, first : Account, moved : BOOLEAN,
   known : Known, got : SUBSET Shown, voices : SUBSET Response,
   upstreamErr : {"none", "transient", "permanent"}, attempts : 0..RetryMax,
   once : BOOLEAN, why : {"none", "empty", "call", "captcha"}, content : BOOLEAN,
   beats : 0..MaxKeepalives]

StreamTypeOK ==
  /\ BodyTypeOK
  /\ req \in Request /\ req.message <= req.cur
  /\ {req.account, req.session, req.first} \subseteq req.tried
  /\ reply \in {"open", "finished", "failed", "dropped"}
  /\ history \in {"streaming", "success", "error", "stopped"}

\* A retry or a resumption goes on in the conversation that was broken off: the message
\* it names is one of the payload's session, the very message that was cut if it is
\* resumed, and the session is the account's, unless the client's own loop has changed
\* the account for a proof of work.  It is the budget of retries that makes it so: after
\* a switch the loop still holds the message id, and after a challenge the payload, of
\* the account before (stream_retry.go:251).
RetriesItsConversation ==
  req.phase \in {"continuing", "completing"} =>
    /\ req.known # None => req.known.session = req.session
    /\ req.phase = "continuing" => req.known.message = req.message
    /\ req.account = req.session \/ req.moved

\* The text of an answer is of one message: what another attempt or account writes is
\* never appended to text the client has seen.
OneVoice == Cardinality(req.voices) <= 1

\* Every response body that was opened is closed, unless it is being read.
BodiesClosed ==
  \A i \in Response :
    pump[i].at # "none" =>
      pipe[i].end = "closed" \/ (req.phase = "consuming" /\ req.cur = i)

Told == INSTANCE Reply

\* However attempts, retries, switches, timeouts and the client's leaving follow each
\* other, the stream has one last frame, and the history tells the same story.
ReplyAsPromised == Told!Spec

\* A response that was broken off or that stalled does not end the answer as if it were
\* complete (empty_retry_runtime.go:219).
InterruptedIsNoFinish ==
  [][IdleTimeout \/ Keepalive \/ (ReadEnd /\ Body.end = "error") =>
       reply' # "finished"]_vars

\* Whatever the upstream sends, fails to send or refuses, the client gets an end.
EveryReplyEnds == <>(reply # "open")
=============================================================================
