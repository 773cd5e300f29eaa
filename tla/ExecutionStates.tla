-------------------------- MODULE ExecutionStates --------------------------
(***************************************************************************)
(* The portable life cycle that every backend reports its executions in    *)
(* (taskferry/execution.py): the state set, the terminal states and the    *)
(* table of transitions the package considers legal.                       *)
(***************************************************************************)

\* ExecutionState.
State == {"pending", "queued", "running", "cancelled", "succeeded",
          "failed", "timed_out", "unknown"}

\* _TERMINAL.
Terminal == {"succeeded", "failed", "cancelled", "timed_out"}

\* _ALLOWED, read by Execution.transitions_to.
Allowed(s) ==
    CASE s = "pending"   -> {"queued", "running", "unknown"} \union Terminal
      [] s = "queued"    -> {"running", "unknown"} \union Terminal
      [] s = "running"   -> {"unknown"} \union Terminal
      [] s = "failed"    -> {"queued", "running"}
      [] s = "timed_out" -> {"queued"}
      [] s = "unknown"   -> State
      [] OTHER           -> {}

\* Execution.transitions_to: a repeated state is not a transition.
TransitionsTo(s, t) == s = t \/ t \in Allowed(s)

\* The backend's dictionary holds no execution under an id.
Absent == "absent"
=============================================================================
