--------------------------- MODULE MCBrokerTasks ---------------------------
(* Instances of BrokerTasks for TLC: what engines are set up and asked for.   *)
EXTENDS BrokerTasks

CONSTANT Names

MCExceptions == {{n} : n \in Names}

Setup(e, p, n, b) ==
    [engine |-> e, policy |-> p, max_retries |-> n, redeliver |-> b]

Plain(attempts, owner) ==
    [max_attempts |-> attempts, backoff |-> "exponential",
     initial_delay |-> 1, max_delay |-> NoCeiling, retry_on |-> {},
     no_retry_on |-> {}, owner |-> owner]

\* Policies of up to three attempts that the application does not own, on
\* Celery and on Procrastinate; enabled ones on Dramatiq; and applications that
\* own the retry and have switched Celery's off or use Dramatiq.
MCSetups ==
    LET owned == {p \in Policies({1, 3}, {0, 2}, {CHOOSE n \in Names : TRUE}) :
                     /\ p.owner # "application"
                     /\ p.backoff \in {"none", "linear"}}
    IN  {Setup("celery", p, 3, TRUE) : p \in owned}
        \union {Setup("celery", Plain(n, "backend"), 3, FALSE) : n \in 1 .. 3}
        \union {Setup("procrastinate", p, 3, FALSE) : p \in owned}
        \union {Setup("dramatiq", Plain(n, "backend"), 3, TRUE) : n \in 2 .. 3}
        \union {Setup("dramatiq", Plain(2, "application"), 3, TRUE)}
        \union {Setup("celery", Plain(2, "application"), 0, FALSE)}

\* An application that owns the retry, on Procrastinate.
MCApplicationOwned == {Setup("procrastinate", Plain(2, "application"), 3, FALSE)}
=============================================================================
