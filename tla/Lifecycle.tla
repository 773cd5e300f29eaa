----------------------------- MODULE Lifecycle -----------------------------
(***************************************************************************)
(* What every backend promises about the executions it tells callers of    *)
(* (taskferry/execution.py, the state diagram and _ALLOWED): an execution   *)
(* appears QUEUED or RUNNING, moves along the table of legal transitions,   *)
(* never leaves a terminal state (the engine's retries apart, which the     *)
(* local backends perform inside one execution), and may be forgotten.      *)
(***************************************************************************)
EXTENDS ExecutionStates

CONSTANT Executions   \* the ids new_execution_id will mint

VARIABLES state,      \* the state get() reports, Absent for an unknown id
          forgotten   \* ids that were known once and are not any more

lifecycle == <<state, forgotten>>

LifecycleInit ==
    /\ state = [e \in Executions |-> Absent]
    /\ forgotten = {}

\* submit returned
Appear(e) ==
    /\ state[e] = Absent
    /\ e \notin forgotten
    /\ \E s \in {"queued", "running"} : state' = [state EXCEPT ![e] = s]
    /\ UNCHANGED forgotten

\* the engine moved on
Move(e) ==
    /\ state[e] \in State \ Terminal
    /\ \E s \in Allowed(state[e]) : state' = [state EXCEPT ![e] = s]
    /\ UNCHANGED forgotten

\* a bounded history, or close; an execution may be forgotten before its
\* submit has returned
Forget(gone) ==
    /\ state' = [e \in Executions |-> IF e \in gone THEN Absent ELSE state[e]]
    /\ forgotten' = forgotten \union gone

LifecycleNext ==
    \/ \E e \in Executions : Appear(e) \/ Move(e)
    \/ \E gone \in SUBSET Executions : Forget(gone)

LifecycleSpec == LifecycleInit /\ [][LifecycleNext]_lifecycle
=============================================================================
