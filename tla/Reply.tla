------------------------------- MODULE Reply -------------------------------
(***************************************************************************)
(* What a streamed completion promises its client and the chat history: it *)
(* ends once, the client and the history are told the same, and a client   *)
(* that has left is told nothing.                                          *)
(***************************************************************************)
VARIABLES reply, history

Init == reply = "open" /\ history = "streaming"

End(told, kept) ==
  /\ reply = "open" /\ history = "streaming"
  /\ reply' = told /\ history' = kept

Next == End("finished", "success") \/ End("failed", "error") \/ End("dropped", "stopped")

Spec == Init /\ [][Next]_<<reply, history>>
=============================================================================
