------------------------------ MODULE Adapters ------------------------------
(***************************************************************************)
(* What each backend promises and what it asks its engine for: the kind,    *)
(* the capability set, the options its constructor insists on, the request  *)
(* it makes of a spec, and the order of the steps of a submission on the    *)
(* synchronous and on the asynchronous surface.                             *)
(*                                                                         *)
(* A request has the portable meaning of what is sent: sets of the values   *)
(* the engine is told, empty when it is told nothing.  Times are tenths of  *)
(* a second; now is when the spec's time is computed, then when the request *)
(* or the worker computes it again.                                         *)
(***************************************************************************)
EXTENDS Specs, Sequences

Local == {"inline", "thread", "process", "subprocess"}

Brokers == {"celery", "procrastinate", "dramatiq"}

\* their retries are the queue's own configuration
Queues == {"sqs", "fifo", "servicebus", "cloudtasks"}

Jobs == {"cloudrun", "kubernetes", "batch", "containerapps"}

Adapters == Local \union Brokers \union Queues \union Jobs

Kind(a) == IF a = "inline" THEN "inline"
           ELSE IF a \in Jobs \union {"subprocess"} THEN "job" ELSE "task"

-----------------------------------------------------------------------------
INLINE == {"submit", "state", "result", "retry", "async"}
THREAD == {"submit", "state", "result", "cancel", "delay", "retry", "async"}
PROCESS == {"submit", "state", "result", "cancel", "retry", "async"}
SUBPROCESS == {"submit", "state", "result", "cancel", "logs", "timeout", "environment"}
CELERY == {"submit", "state", "cancel", "delay", "priority", "retry"}
PROCRASTINATE == CELERY \union {"deduplication"}
DRAMATIQ == {"submit", "delay", "retry"}
SQS == {"submit", "retry", "delay"}
SQS_FIFO == {"submit", "retry", "deduplication"}
SERVICE_BUS == {"submit", "delay", "retry", "deduplication"}
CLOUD_TASKS == {"submit", "delay", "retry", "deduplication"}
CLOUD_RUN == {"submit", "state", "cancel", "logs", "timeout", "parallelism",
              "environment", "retry"}
KUBERNETES == {"submit", "state", "cancel", "logs", "timeout", "parallelism", "retry",
               "cpu", "memory", "gpu", "environment"}
BATCH == KUBERNETES \union {"result"}
CONTAINER_APPS == KUBERNETES \ {"gpu"}

Promised ==
    [inline |-> INLINE, thread |-> THREAD, process |-> PROCESS, subprocess |-> SUBPROCESS,
     celery |-> CELERY, procrastinate |-> PROCRASTINATE, dramatiq |-> DRAMATIQ,
     sqs |-> SQS, fifo |-> SQS_FIFO, servicebus |-> SERVICE_BUS, cloudtasks |-> CLOUD_TASKS,
     cloudrun |-> CLOUD_RUN, kubernetes |-> KUBERNETES, batch |-> BATCH,
     containerapps |-> CONTAINER_APPS]

\* Fault: the FIFO queue advertises what the standard queue has.
CapabilitiesUnion(a) == IF a = "fifo" THEN SQS \union SQS_FIFO ELSE Promised[a]

Capabilities(a) == Promised[a]

\* CapabilitySet.missing
Missing(a, required) == required \ Capabilities(a)

-----------------------------------------------------------------------------
\* Constructors: the options without which one raises ConfigurationError (of
\* Service Bus, a connection string stands for any of its ways to connect).

CloudTasksNeeds == {"project", "location", "url"}
SQSNeeds == {"queue_url"}
ServiceBusNeeds == {"queue_name", "connection_string"}
CloudRunNeeds == {"project", "location"}
ContainerAppsNeeds == {"subscription_id", "resource_group"}

Needs(a) == CASE a = "cloudtasks" -> CloudTasksNeeds
              [] a \in {"sqs", "fifo"} -> SQSNeeds
              [] a = "servicebus" -> ServiceBusNeeds
              [] a = "cloudrun" -> CloudRunNeeds
              [] a = "containerapps" -> ContainerAppsNeeds
              [] OTHER -> {}

\* options whose absence is noticed by the first submission
CeleryApp == {"app"}
ProcrastinateApp == {"app"}
DramatiqActor == {"actor"}
BatchRequired == {"job_definition", "job_queue"}

NeedsToSubmit(a) == CASE a = "celery" -> CeleryApp
                      [] a = "procrastinate" -> ProcrastinateApp
                      [] a = "dramatiq" -> DramatiqActor
                      [] a = "batch" -> BatchRequired
                      [] OTHER -> {}

-----------------------------------------------------------------------------
\* Requests.

Nothing == [priority |-> {}, due |-> {}, key |-> {}, attempts |-> {}, timeout |-> {},
            tasks |-> {}, cpu |-> {}, memory |-> {}, gpu |-> {}, env |-> {},
            correlation |-> {}]

Later(t, u) == IF t < u THEN u ELSE t

\* int(timeout.seconds)
Whole(t) == {(seconds \div 10) * 10 : seconds \in t}

Some(n) == IF n > 1 THEN {n} ELSE {}

Positive(n) == IF n > 0 THEN {n} ELSE {}

IfEnabled(s, n) == IF Enabled(s.retry) THEN {n} ELSE {}

Env(s) == IF s.env THEN {"env"} ELSE {}

\* the envelope carries the policy and the correlation to the worker
Envelope(s) ==
    [Nothing EXCEPT !.attempts = {EngineAttempts(s.retry)}, !.correlation = s.correlation]

\* the callable runs here, under the spec
InProcess(s) == Envelope(s)

\* the worker that takes it holds it, from then on, for the delay
Thread(s, then) == [Envelope(s) EXCEPT !.due = ScheduledFor(s, then)]

Subprocess(s) == [Nothing EXCEPT !.timeout = s.timeout, !.env = Env(s)]

Celery(s, now) ==
    [Envelope(s) EXCEPT !.priority = {s.priority}, !.due = ScheduledFor(s, now)]

\* _deferrer_kwargs: the key is the queueing lock
Procrastinate(s, now) ==
    [Envelope(s) EXCEPT !.priority = {s.priority}, !.due = ScheduledFor(s, now),
                        !.key = s.idempotency_key]

\* _delay_ms, and max_retries only for a policy that is enabled
Dramatiq(s, now, then) ==
    [Nothing EXCEPT !.due = {Later(t, then) : t \in ScheduledFor(s, now)},
                    !.attempts = IfEnabled(s, 1 + (EngineAttempts(s.retry) - 1)),
                    !.correlation = s.correlation]

\* MAX_DELAY_SECONDS
MaxDelay == 9000

\* _delay_seconds, before the ceiling is applied
DelaySeconds(t, then) == IF t - then <= 0 THEN 0 ELSE ((t - then) \div 10) * 10

Carried(s) == [Nothing EXCEPT !.correlation = s.correlation]

Sqs(s, now, then) ==
    [Carried(s) EXCEPT !.due = {then + DelaySeconds(t, then) : t \in ScheduledFor(s, now)}]

SqsFifo(s) == [Carried(s) EXCEPT !.key = s.idempotency_key]

\* the key is the message id
ServiceBus(s, now) ==
    [Carried(s) EXCEPT !.due = ScheduledFor(s, now), !.key = s.idempotency_key]

\* _safe_name: what Cloud Tasks allows in a name; here "k!" and "k-" are two
\* keys that become one name
SafeName(key) == IF key = "k!" THEN "k-" ELSE key

CloudTasks(s, now) ==
    [Carried(s) EXCEPT !.due = ScheduledFor(s, now),
                       !.key = {SafeName(k) : k \in s.idempotency_key}]

CloudRun(s) ==
    [Nothing EXCEPT !.env = Env(s), !.tasks = Some(s.parallelism),
                    !.timeout = Whole(s.timeout),
                    !.attempts = IfEnabled(s, 1 + (EngineAttempts(s.retry) - 1))]

\* _limits
Limits(s) ==
    [Nothing EXCEPT !.cpu = s.cpu, !.memory = s.memory, !.gpu = Positive(s.gpu)]

Kubernetes(s) ==
    [Limits(s) EXCEPT !.env = Env(s), !.tasks = Some(s.parallelism),
                      !.timeout = Whole(s.timeout),
                      !.attempts = {1 + Later(EngineAttempts(s.retry) - 1, 0)}]

\* _mib, whose number Batch reads as MiB, a bare number of bytes too; another
\* unit reaches Batch as it is
Mib(q) == CASE q.unit = "Gi" -> [n |-> q.n * 1024, unit |-> "Mi"]
            [] q.unit \in {"Mi", "M", "bytes"} -> [n |-> q.n, unit |-> "Mi"]
            [] q.unit = "G" -> [n |-> q.n * 1000, unit |-> "Mi"]
            [] OTHER -> q

\* _resource_requirements
Requirements(s) ==
    [Nothing EXCEPT !.cpu = s.cpu, !.memory = {Mib(q) : q \in s.memory},
                    !.gpu = Positive(s.gpu)]

Batch(s) ==
    [Requirements(s) EXCEPT !.env = Env(s), !.tasks = Some(s.parallelism),
                            !.timeout = Whole(s.timeout),
                            !.attempts = IfEnabled(s, EngineAttempts(s.retry))]

Rounded(n, d) == (2 * n + d) \div (2 * d)

\* _gib: hundredths of a Gi
Gib(q) == CASE q.unit = "Gi" -> [n |-> q.n * 100, unit |-> "cGi"]
            [] q.unit \in {"Mi", "M"} -> [n |-> Rounded(q.n * 100, 1024), unit |-> "cGi"]
            [] q.unit = "G" -> [n |-> Rounded(q.n * 100000, 1024), unit |-> "cGi"]
            [] OTHER -> q

ContainerApps(s) ==
    [Nothing EXCEPT !.env = Env(s), !.tasks = Some(s.parallelism),
                    !.timeout = Whole(s.timeout), !.cpu = s.cpu,
                    !.memory = {Gib(q) : q \in s.memory},
                    !.attempts = IfEnabled(s, 1 + Later(EngineAttempts(s.retry) - 1, 0))]

Request(a, s, now, then) ==
    CASE a \in {"inline", "process"} -> InProcess(s)
      [] a = "thread" -> Thread(s, then)
      [] a = "subprocess" -> Subprocess(s)
      [] a = "celery" -> Celery(s, now)
      [] a = "procrastinate" -> Procrastinate(s, now)
      [] a = "dramatiq" -> Dramatiq(s, now, then)
      [] a = "sqs" -> Sqs(s, now, then)
      [] a = "fifo" -> SqsFifo(s)
      [] a = "servicebus" -> ServiceBus(s, now)
      [] a = "cloudtasks" -> CloudTasks(s, now)
      [] a = "cloudrun" -> CloudRun(s)
      [] a = "kubernetes" -> Kubernetes(s)
      [] a = "batch" -> Batch(s)
      [] a = "containerapps" -> ContainerApps(s)

\* what the adapter itself refuses when it makes the request
Makes(a, s, now, then) ==
    CASE a = "subprocess" -> s.command
      [] a = "kubernetes" -> s.image
      [] a = "sqs" -> \A t \in ScheduledFor(s, now) : DelaySeconds(t, then) <= MaxDelay
      [] OTHER -> TRUE

-----------------------------------------------------------------------------
\* The steps of a submission, and those of them inside the try that reports to
\* the hooks.  "send" asks the engine; on the asynchronous surface an adapter
\* without an asubmit of its own runs the synchronous one on a worker thread.

\* BaseBackend.submit around the _submit of an adapter
Around(inner) == [steps |-> <<"validate", "before">> \o inner \o <<"after">>,
                  guarded |-> {"connect", "build", "send"}, native |-> FALSE]

SqsSubmit == Around(<<"build", "connect", "send">>)
ServiceBusSubmit == Around(<<"build", "connect", "send">>)
CloudTasksSubmit == Around(<<"connect", "build", "send">>)

Submit(a) == CASE a \in {"sqs", "fifo"} -> SqsSubmit
               [] a = "servicebus" -> ServiceBusSubmit
               [] a = "cloudtasks" -> CloudTasksSubmit
               [] OTHER -> Around(<<"connect", "build", "send">>)

Native(steps, guarded) == [steps |-> steps, guarded |-> guarded, native |-> TRUE]

SqsAsubmit ==
    Native(<<"validate", "before", "build", "connect", "send", "after">>,
           {"build", "connect", "send"})

ServiceBusAsubmit ==
    Native(<<"validate", "before", "build", "connect", "send", "after">>, {"connect", "send"})

CloudTasksAsubmit ==
    Native(<<"validate", "before", "build", "connect", "send", "after">>, {"connect", "send"})

ProcrastinateAsubmit ==
    Native(<<"connect", "validate", "before", "build", "send", "after">>, {"send"})

CloudRunAsubmit ==
    Native(<<"connect", "validate", "before", "build", "send", "after">>, {"build", "send"})

Asubmit(a) == CASE a \in {"sqs", "fifo"} -> SqsAsubmit
                [] a = "servicebus" -> ServiceBusAsubmit
                [] a = "cloudtasks" -> CloudTasksAsubmit
                [] a = "procrastinate" -> ProcrastinateAsubmit
                [] a = "cloudrun" -> CloudRunAsubmit
                [] OTHER -> Submit(a)

\* the native one only where its client is there
Frames(a, surface) == {Submit(a)} \union (IF surface = "async" THEN {Asubmit(a)} ELSE {})
=============================================================================
