---------------------------- MODULE RetryPolicy ----------------------------
(***************************************************************************)
(* The portable retry intent of taskferry/retry.py as pure operators.      *)
(* A policy is a record with the dataclass's fields (the jitter hint, which*)
(* no code of the package reads, is left out); delays are whole seconds,   *)
(* max_delay is the set of its ceiling, empty for None.  An exception is   *)
(* the set of type names it can be matched by (_type_names walks the MRO). *)
(***************************************************************************)
EXTENDS Naturals

NoCeiling == {}

Backoffs == {"none", "fixed", "linear", "exponential"}

Owners == {"backend", "application", "none"}

\* RetryPolicy with the checks of __post_init__: max_attempts >= 1 and
\* non-negative delays.
Policies(attempts, delays, names) ==
    [max_attempts : attempts \ {0}, backoff : Backoffs,
     initial_delay : delays, max_delay : {NoCeiling} \union {{d} : d \in delays},
     retry_on : SUBSET names, no_retry_on : SUBSET names, owner : Owners]

\* RetryPolicy.enabled
Enabled(p) == p.max_attempts > 1 /\ p.owner # "none"

\* RetryPolicy.engine_attempts
EngineAttempts(p) == IF p.owner = "backend" THEN p.max_attempts ELSE 1

\* The growth law of RetryPolicy.delay_for, before the ceiling.
Growth(p, attempt) ==
    CASE p.backoff = "none"        -> 0
      [] p.backoff = "fixed"       -> p.initial_delay
      [] p.backoff = "linear"      -> p.initial_delay * (attempt - 1)
      [] p.backoff = "exponential" -> p.initial_delay * 2 ^ (attempt - 2)

\* RetryPolicy.delay_for: the pause before the given attempt (1-based).
DelayFor(p, attempt) ==
    IF attempt <= 1 THEN 0
    ELSE LET delay == Growth(p, attempt)
         IN  IF \E d \in p.max_delay : d < delay
             THEN CHOOSE d \in p.max_delay : TRUE ELSE delay

\* Fault: grant one attempt more than max_attempts.
ShouldRetryOffByOne(p, exc, attempt) ==
    /\ attempt <= p.max_attempts
    /\ p.owner = "backend"
    /\ exc \intersect p.no_retry_on = {}
    /\ p.retry_on = {} \/ exc \intersect p.retry_on # {}

\* RetryPolicy.should_retry, for a failure exc of the given attempt.
ShouldRetry(p, exc, attempt) ==
    /\ attempt < p.max_attempts
    /\ p.owner = "backend"
    /\ exc \intersect p.no_retry_on = {}
    /\ p.retry_on = {} \/ exc \intersect p.retry_on # {}
=============================================================================
