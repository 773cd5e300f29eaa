-------------------------- MODULE MCInlineBackend --------------------------
(* Instances of InlineBackend for TLC: two type names, a policy of two        *)
(* attempts that does not retry one of them, and one the application owns.    *)
EXTENDS InlineBackend, TLC

CONSTANT e1

MCPolicy ==
    [e \in Executions |->
        [max_attempts |-> 2, backoff |-> "none", initial_delay |-> 0,
         max_delay |-> NoCeiling, retry_on |-> {}, no_retry_on |-> {"fatal"},
         owner |-> IF e = e1 THEN "application" ELSE "backend"]]

MCExceptions == {{"error"}, {"error", "fatal"}}

Symmetry == Permutations(Callers)
=============================================================================
