------------------------------ MODULE MCSched ------------------------------
(* Values for the constants of Sched. *)
EXTENDS Sched

\* The only value that the code of the repository writes with SET_STATE
\* (rlib_ready_task).
ReadyStates == {{"valid", "runnable"}}
=============================================================================
