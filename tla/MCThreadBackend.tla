-------------------------- MODULE MCThreadBackend --------------------------
(* Instances of ThreadBackend for TLC. *)
EXTENDS ThreadBackend

CONSTANT t1

\* A transient and a fatal exception; the fatal one is in no_retry_on.
Transient == {"ConnectionError", "Exception"}
Fatal == {"ValueError", "Exception"}
MCExceptions == {Transient, Fatal}

PolicyOf(n, owner) ==
    [max_attempts |-> n, backoff |-> "none", initial_delay |-> 0,
     max_delay |-> NoCeiling, retry_on |-> {},
     no_retry_on |-> {"ValueError"}, owner |-> owner]

\* The first task retries in the backend, the others do not.
MCPolicy == [t \in Tasks |-> IF t = t1 THEN PolicyOf(2, "backend")
                             ELSE PolicyOf(2, "application")]
=============================================================================
