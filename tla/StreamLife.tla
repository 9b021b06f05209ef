----------------------------- MODULE StreamLife -----------------------------
(***************************************************************************)
(* What the observer of a browser stream is promised: the events of the    *)
(* stream come in order, nothing but a further StreamCompletedEvent comes  *)
(* after the first, and a request is answered at most once, at completion. *)
(***************************************************************************)
CONSTANT Streams

VARIABLES seen, answer

\* Which event follows which.
Order ==
  {<<"nothing", "created">>, <<"created", "opened">>, <<"created", "failed">>,
   <<"opened", "data">>, <<"created", "completed">>, <<"opened", "completed">>,
   <<"data", "completed">>, <<"failed", "completed">>}

Events == {"nothing", "created", "opened", "data", "failed", "completed"}

Init == seen = [s \in Streams |-> "nothing"] /\ answer = [s \in Streams |-> "none"]

Event(s) ==
  /\ seen'[s] = seen[s] \/ <<seen[s], seen'[s]>> \in Order
  /\ answer'[s] = answer[s] \/ (answer[s] = "none" /\ seen'[s] = "completed")

\* One event, or the completion of several streams when the page is closed.
Next ==
  /\ seen' \in [Streams -> Events]
  /\ answer' \in [Streams -> {"none", "whole", "part", "failed"}]
  /\ \A s \in Streams : Event(s)

Spec == Init /\ [][Next]_<<seen, answer>>

=============================================================================
