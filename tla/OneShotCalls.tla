---------------------------- MODULE OneShotCalls ----------------------------
(***************************************************************************)
(* What ScheduleAsyncCall, ScheduleOnMainThread and CallOnMainThread       *)
(* promise: a call runs at most once, and a call that was given up never   *)
(* runs.  Only a host that is shutting down gives a call up.               *)
(***************************************************************************)
CONSTANT Calls

VARIABLES status, closed

States == {"idle", "pending", "ran", "dropped"}

Init == status = [c \in Calls |-> "idle"] /\ closed = FALSE

Move(c, from, to) ==
  /\ status[c] \in from
  /\ status' = [status EXCEPT ![c] = to]
  /\ UNCHANGED closed

Register(c) == Move(c, {"idle"}, "pending")

\* A synchronous call on the main thread runs without being registered.
Run(c) == Move(c, {"idle", "pending"}, "ran")

Drop(c) == closed /\ Move(c, {"idle", "pending"}, "dropped")

Close == ~closed /\ closed' = TRUE /\ UNCHANGED status

Next == Close \/ \E c \in Calls : Register(c) \/ Run(c) \/ Drop(c)

Spec == Init /\ [][Next]_<<status, closed>>

=============================================================================
