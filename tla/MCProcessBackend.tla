-------------------------- MODULE MCProcessBackend --------------------------
(* Instances of ProcessBackend for TLC. *)
EXTENDS ProcessBackend

CONSTANT t1

MCExceptions == {{"ConnectionError"}, {"ValueError"}}

\* The first task has two attempts, none after a ValueError; the others one.
MCPolicy == [t \in Tasks |->
    [max_attempts |-> IF t = t1 THEN 2 ELSE 1, backoff |-> "none", initial_delay |-> 0,
     max_delay |-> NoCeiling, retry_on |-> {}, no_retry_on |-> {"ValueError"},
     owner |-> "backend"]]
=============================================================================
