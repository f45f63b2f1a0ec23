---------------------------- MODULE AutoContinue ----------------------------
(***************************************************************************)
(* The response bodies of completions (deepseek/client/client_continue.go) *)
(* and their reader.  A goroutine, pumpAutoContinue, copies the lines of   *)
(* the upstream into a pipe, opens another round with the continue         *)
(* endpoint when the message is incomplete, and ends the pipe as it ends:  *)
(* cleanly, or with an error.  The line pump of sse/stream.go buffers what *)
(* is read from the pipe; its buffer is part of the pipe here.             *)
(*                                                                         *)
(* A line is what it tells: the message's id, some thinking or text, a     *)
(* status, the end marker [DONE], an error, or a content filter's verdict. *)
(***************************************************************************)
EXTENDS Naturals, Sequences

CONSTANTS
  Response,    \* the responses a request may read
  MaxRounds,   \* defaultAutoContinueLimit
  MaxLines     \* the lines the upstream sends in all (bound)

ASSUME ContinueAssumption == MaxRounds \in Nat /\ MaxLines \in Nat

VARIABLES
  pump,      \* the goroutine of each response, with its continueState
  pipe,      \* what each pipe holds, and its end: "open", "eof", "error" or "closed"
  left,      \* the lines the upstream may still send
  cancelled  \* the request's context is done

bodyVars == <<pump, pipe, left, cancelled>>

Line == {"id", "thinking", "text", "incomplete", "finished", "filtered", "done", "error"}

Shown == {"thinking", "text"}

\* prepareForNextRound: the id of the message is kept.
NextRound(p) ==
  [p EXCEPT !.at = "reading", !.status = "none", !.content = FALSE, !.done = FALSE]

NoPump == [at |-> "none", id |-> FALSE, status |-> "none", content |-> FALSE,
           done |-> FALSE, rounds |-> 0]

\* The goroutine has returned.
Over == [NoPump EXCEPT !.at = "over"]

NoPipe == [lines |-> <<>>, end |-> "open"]

InitBodies ==
  /\ pipe = [i \in Response |-> NoPipe]
  /\ left = MaxLines /\ cancelled = FALSE

\* continueState.observe; a finished message stays finished.
Observe(p, l) ==
  CASE l = "id" -> [p EXCEPT !.id = TRUE]
    [] l \in Shown -> [p EXCEPT !.content = TRUE]
    [] l \in {"finished", "filtered"} -> [p EXCEPT !.status = "finished"]
    [] l = "incomplete" /\ p.status # "finished" -> [p EXCEPT !.status = "incomplete"]
    [] l = "done" -> [p EXCEPT !.done = TRUE]
    [] OTHER -> p

ShouldContinue(p) ==
  /\ p.status # "finished" /\ p.id
  /\ p.status = "incomplete" \/ (p.content /\ ~p.done)

Ended(i, end) == [pipe EXCEPT ![i].end = IF @ = "open" THEN end ELSE @]

\* The body, or the pipe, failed: another round, unless the upstream had said [DONE].
Interrupted(i, p) ==
  IF ~p.done /\ p.id /\ p.rounds < MaxRounds
  THEN /\ pump' = [pump EXCEPT ![i] = [p EXCEPT !.at = "opening", !.rounds = @ + 1]]
       /\ UNCHANGED pipe
  ELSE /\ pump' = [pump EXCEPT ![i] = Over]
       /\ pipe' = Ended(i, "error")

-----------------------------------------------------------------------------
(* streamBodyWithContinueState                                               *)

Reading(i) == pump[i].at = "reading" /\ ~cancelled

\* A line arrives and is written to the pipe, whose reader may be gone.
LineArrives(i) ==
  /\ Reading(i) /\ left > 0
  /\ left' = left - 1
  /\ \E l \in Line :
       LET p == Observe(pump[i], l) IN
         IF l = "done" THEN pump' = [pump EXCEPT ![i] = p] /\ UNCHANGED pipe
         ELSE IF pipe[i].end = "closed" THEN Interrupted(i, p)
         ELSE /\ pump' = [pump EXCEPT ![i] = p]
              /\ pipe' = [pipe EXCEPT ![i].lines = Append(@, l)]
  /\ UNCHANGED cancelled

BodyFails(i) ==
  /\ Reading(i)
  /\ Interrupted(i, pump[i])
  /\ UNCHANGED <<left, cancelled>>

\* The body ends: another round, or the pipe ends with the [DONE] that was held back.
BodyEnds(i) ==
  /\ Reading(i)
  /\ LET p == pump[i] IN
       IF ShouldContinue(p) /\ p.rounds < MaxRounds
       THEN /\ pump' = [pump EXCEPT ![i] = [p EXCEPT !.at = "opening", !.rounds = @ + 1]]
            /\ UNCHANGED pipe
       ELSE /\ pump' = [pump EXCEPT ![i] = Over]
            /\ pipe' = [pipe EXCEPT ![i] =
                 IF @.end = "closed" THEN @
                 ELSE [lines |-> IF p.done THEN Append(@.lines, "done") ELSE @.lines,
                       end |-> "eof"]]
  /\ UNCHANGED <<left, cancelled>>

-----------------------------------------------------------------------------
(* callContinue                                                              *)

RoundOpens(i) ==
  /\ pump[i].at = "opening" /\ ~cancelled
  /\ pump' = [pump EXCEPT ![i] = NextRound(@)]
  /\ UNCHANGED <<pipe, left, cancelled>>

RoundFails(i) ==
  /\ pump[i].at = "opening"
  /\ pump' = [pump EXCEPT ![i] = Over]
  /\ pipe' = Ended(i, "error")
  /\ UNCHANGED <<left, cancelled>>

\* The end of the context ends the reads and the calls that are under way.
PumpCancelled(i) ==
  /\ cancelled /\ pump[i].at \in {"reading", "opening"}
  /\ pump' = [pump EXCEPT ![i] = Over]
  /\ pipe' = Ended(i, "error")
  /\ UNCHANGED <<left, cancelled>>

PumpStep(i) ==
  \/ LineArrives(i) \/ BodyFails(i) \/ BodyEnds(i)
  \/ RoundOpens(i) \/ RoundFails(i) \/ PumpCancelled(i)

-----------------------------------------------------------------------------
(* The reader                                                                *)

\* Response i arrives: newAutoContinueBody wraps it.
OpenBody(i) ==
  /\ pump' = [pump EXCEPT ![i] = NextRound(NoPump)]
  /\ UNCHANGED <<pipe, left, cancelled>>

\* A response that is not a stream: an error page, which is read as a stream without
\* lines.
OpenPage(i) ==
  /\ pump' = [pump EXCEPT ![i] = Over]
  /\ pipe' = [pipe EXCEPT ![i].end = "eof"]
  /\ UNCHANGED <<left, cancelled>>

BugBodyLeftOpen(i) == UNCHANGED bodyVars

CloseBody(i) ==
  /\ pipe' = [pipe EXCEPT ![i] = [lines |-> <<>>, end |-> "closed"]]
  /\ UNCHANGED <<pump, left, cancelled>>

\* The types of the response bodies' variables.
BodyTypeOK ==
  /\ pump \in [Response ->
       [at : {"none", "reading", "opening", "over"}, id : BOOLEAN,
        status : {"none", "incomplete", "finished"}, content : BOOLEAN,
        done : BOOLEAN, rounds : 0..MaxRounds]]
  /\ pipe \in [Response -> [lines : Seq(Line), end : {"open", "eof", "error", "closed"}]]
  /\ left \in 0..MaxLines /\ cancelled \in BOOLEAN
=============================================================================
