# Taskferry in TLA+

Taskferry is a portable execution layer: an application submits a *spec* (an inline
call, a task or a job) to a *runtime*, which routes it to a *backend*; the backend
translates it for an *engine* (a thread pool, a process pool, a child process, a
broker, a cloud service) and reports what became of it as an `Execution` in a portable
state. Around this core sit a scheduler, an event bus and framework integrations.

This directory models the parts that keep state and are used concurrently, checks them
with TLC on small instances, and proves with TLAPS, for instances of every size, every
safety property and every action property that TLC checks: of the thread, process,
subprocess and inline backends, the execution handle, the runtime, submission to each of the
fifteen adapters, the local scheduler, the delivery of queued work, the worker-based
engines, the cloud job adapters and their logs, the event bus, the cloud's publishers and
schedulers, and both registries. What is left to TLC is liveness. The parts without state of
their own (specs, routing, configuration, adapters) are operators, and are checked as steps
of a submission, on the state of the parts that have some.

## Inventory

| Part (source under `src/packages/`) | State | Operations | Hard behaviour | What makes it correct |
| --- | --- | --- | --- | --- |
| Execution model `taskferry/execution.py` | none (values) | state set, terminal states, legal transitions | | the table the backends' histories obey |
| Retry policy `taskferry/retry.py` | none (values) | `engine_attempts`, `delay_for`, `should_retry` | who owns the retry | exactly one layer retries |
| Thread backend `taskferry/backends/thread.py` | `_entries`, `_order`, `_closed`, a pool, futures | submit, get, wait, result, cancel, close; `_run` in the pool | cancel, eviction and close between any two critical sections of `_run` | no stranded execution, a finished one never changes, results agree with states |
| Process backend `taskferry/backends/process.py` | the same, plus done callbacks | the same; `_settle` | the future wakes waiters before its callback runs; a worker process dies | every outcome reaches its entry |
| Subprocess backend `taskferry/backends/subprocess.py` | `_records`, child processes, a lock held across a stop | submit, get, wait, cancel, stream_logs, close | child exit, clock and callers race; lazily computed state | a terminal job has no process; nothing outlives close |
| Inline backend `taskferry/backends/inline.py` | three parallel structures without a lock | submit, get, result, close | threads interleave between dictionary operations | the structures agree and stay bounded |
| Handle `taskferry/handle.py`, `taskferry/aio.py` | one cached snapshot | status, refresh, wait, result, cancel | lock released around the backend call, stale answers written late | answers are not older than the call |
| Runtime `taskferry/runtime.py`, `taskferry/aio.py` | instance cache, bounded id index | submit, get, close | close during submit; a close that raises | ids lead to the instance that holds them |
| Local scheduler `taskferry-scheduler/.../adapters/local.py` | entries, a background thread, a stop event | create, pause, resume, update, delete, run_pending, start, stop | entries are read and written outside the lock; join times out | one-shots fire once, nothing fires early, due schedules fire |
| Queue consumers `taskferry-sqs/.../consumer.py`, `taskferry-servicebus/.../consumer.py` | a batch in hand | poll_forever, process_event, receive_forever | leases expire, processes crash, acknowledgements fail | deleted only after success; every message settles |
| Worker engines `taskferry-celery`, `taskferry-procrastinate`, `taskferry-dramatiq`, and `taskferry/envelope.py` | an id index; messages at a broker | submit, get, cancel; the dispatcher's retry | the policy crosses a wire; redelivery; the engine's own limits | attempts as the policy says; legal histories |
| In-memory event bus `taskferry-events/.../adapters/inmemory.py` | subscriptions, bounded history | subscribe, unsubscribe, publish, replay, clear | delivery outside the lock, handlers and predicates that raise | fan-out, filters, retention |
| Router and configuration `taskferry/router.py`, `config.py`, `plugins.py` | immutable after construction | load (mapping, environment, local), validate, resolve | many sources, each with its own errors | a validated route leads to a backend; first match |
| Specs and capabilities `taskferry/specs.py`, the facades of `runtime.py` and `aio.py` | none (values) | build a spec, `required_capabilities`, `validate` | a capability advertised and then not translated | what was asked reaches the engine's request |
| Adapters' requests (four local backends, three brokers, four queues, four job engines) | none, or an id index | submit, asubmit | clocks read twice, roundings, a task cancelled in the middle of an await | never early, never more than asked |
| Backend port and hooks `taskferry/ports.py`, `taskferry/hooks.py` | none | frame every operation | a hook that raises, an answer that is lost | every listening hook hears the beginning and the end |
| `LazyRegistry` `taskferry/core/registry.py` | factories and instances, no lock | register, lookup, unregister, reset, clear | two threads build the same instance; a change during an access | who was given an instance has everybody's |
| Function registry `taskferry/functions.py` | names and functions, an import policy | name, register, resolve | the side that names is not the side that resolves | a name leads back to its callable |
| Cloud jobs `taskferry-cloudrun`, `taskferry-jobs` (Kubernetes, AWS Batch, Container Apps), `taskferry/tracking.py` | a bounded index of engine ids; the engine's job | submit, get, cancel, `stream_logs` | the engine moves alone, deletes, and loses answers; a restart empties the index; logs arrive late and out of order | reports are true and final; a tail is in order, misses nothing but what came late, and ends |
| Publishers `taskferry-events/.../adapters/{aws,gcp,azure,kafka}.py` | none | publish, publish_batch | a batch fails in its middle; an answer is lost | a result means accepted, in the order of the batch |
| Cloud schedulers `taskferry-scheduler/.../adapters/{aws,gcp,kubernetes}.py` | none; the engine's schedules | create, update, pause, resume, get, delete | read and write of a definition with others in between | the engine fires what was last written |
| Django `taskferry_django/transaction.py`, `views.py` | the transaction's callbacks (external) | submit_on_commit; the webhook of Cloud Tasks | rollback, savepoints, a callback that raises; status codes decide on redelivery | no work before the commit; committed work settles |
| CLI, contract suites, OpenTelemetry | none | | | |

How they interact: the runtime calls backends outside its own lock; a handle calls its
backend outside the handle's lock; the thread and process backends share entries with
pool threads and callbacks under one lock each; task engines see only an envelope, and
their workers call back into `execute_envelope`, where the function registry turns the
name in it into a callable; queue consumers, the webhook and the engines' dispatchers
rely on the queue for redelivery; the scheduler fires targets which may submit to a
runtime. A facade makes a spec, the runtime a route, the port validates and calls the
hooks, the adapter makes a request. Publishers and schedulers are handed out by lazy
registries.

## Modules

One module per part, an `MC...` module that supplies constants for TLC, and a proof module where there is a proof.

| Module | Models | Correspondence |
| --- | --- | --- |
| `ExecutionStates` | `execution.py` | `State`, `Terminal`, `Allowed` = `_ALLOWED`, `TransitionsTo` |
| `RetryPolicy` | `retry.py` | a policy is a record of the dataclass's fields without `jitter`; operators per method. An exception is the set of names it matches |
| `Lifecycle` | the promise of every backend | abstract specification: executions appear, move along `Allowed`, never leave a terminal state, may be forgotten. `SubprocessBackend` and `ProcessBackend` are shown to implement it (`ImplementsLifecycle`) |
| `ThreadBackend`, `ThreadBackendProofs` | `backends/thread.py` | one step per section between two lock acquisitions and per call into the pool or a future, for `_run` and for every public method; the pool and its futures are external |
| `ProcessBackend`, `ProcessBackendProofs` | `backends/process.py` | the same granularity; setting a future and running its done callback are two steps; a worker process may die (`BrokenProcessPool`) |
| `SubprocessBackend`, `SubprocessBackendProofs` | `backends/subprocess.py` | the lock is explicit because it is held across `_stop`; the child, the signals it got and its clock are external |
| `InlineBackend`, `CallerProofs` | `backends/inline.py` | one step per dictionary or list operation |
| `Handle`, `CallerProofs` | `handle.py`, the handle of `aio.py` | look at the cache, call the backend, store are steps of their own, and so are the parts of each backend's cancel (stop the future, mark the entry, read, delete); which ends a backend may go on from is its own (`Undoable`); snapshots carry an epoch the code does not have, to order them |
| `BoundedIndex` | the LRU maps of `runtime.py` and `tracking.py` | pure operators, shared by `Runtime` and `CloudJobs` |
| `Specs` | `specs.py`, `TimeoutPolicy`, the facades' `submit` and `asubmit` | a spec is one record; a field that may be `None` is a set of at most one value; rejection is the empty set |
| `Adapters` | the capability sets, constructors and requests of the fifteen adapters | `Request(a, s, ...)` is the portable meaning of what is sent; `now` is read as often as the code reads the clock |
| `Configuration` | `config.py`, `router.py`, `plugins.py` | a source is a record, `Load` the set of its configuration; globs are the sets of the names they match |
| `Runtime`, `RuntimeProofs` | `runtime.py`, `aio.py` | `<<name, n>>` is the n-th instance built under a name; close takes the instances under the lock and closes them outside |
| `Submission`, `RuntimeProofs` | `ports.py`, `hooks.py`, `_prepare` | on the state of `Runtime`: prepare and route are one step, the frame of a submission another; what the engine answers, whether its answer arrives and where an awaiting caller is cancelled are choices |
| `CloudJobs`, `CloudJobsProofs` | the four cloud job adapters | engine external; every call that leaves the process is a step of its own; a restart empties the index |
| `LogTail`, `CloudJobsProofs` | their `stream_logs`, on the state of `CloudJobs` | one reader; the wait, each answer, each yield and each look at the job are steps (`Answer`, `Yield`, `Check`); the log service is external, makes entries visible late, at any of these points, and gives some no insert id (`Anonymous`) |
| `LazyRegistry` | `core/registry.py`, both `registry.py` | each access of a dictionary is a step; instances are numbered as they are made |
| `Publishers` | the four broker adapters, `publisher.py` | a publication is one step, a batch is one step per event; answers may be lost |
| `CloudSchedulers` | the three cloud adapters, `scheduler.py` | an engine's schedule is a function on the keys of its API; AWS's pause is two calls |
| `FunctionRegistry` | `functions.py` | a name is its parts and the place of its colon; the registry that resolves is the state |
| `Providers`, `ProvidersProofs` | the registries, publishers, schedulers and buses of an application | one of five `place`s, chosen at the start |
| `LocalScheduler`, `OnCommitProofs` | `adapters/local.py`, `scheduler.py` | runners are background loops and callers of `run_pending`; every read and write of an entry's fields, in a pass or in `_update`, is a step; the clock is a counter |
| `QueueConsumer` | both `consumer.py` | receive, run, acknowledge or abandon are separate steps; the queue with leases, receipts and redrive is external; a consumer polls, is a Lambda function, drains Service Bus, or is pushed to by Cloud Tasks (`Respond` is the Django view) |
| `OnCommit`, `OnCommitProofs` | `transaction.py` | the producer beside `QueueConsumer`; the transaction, its savepoints and its list of callbacks are external |
| `BrokerTasks`, `ProvidersProofs` | the three worker adapters, the retry field of `envelope.py` | one piece of work, possibly submitted several times; messages `<<job, retries>>`; storing an outcome and acknowledging are separate steps |
| `EventBus` | `adapters/inmemory.py`, `publisher.py` | collecting the targets, as places in the list of subscriptions, is one locked step, which a predicate that raises ends after the event has entered the history; each handler call is another |

`PROJECT.json` maps every definition to its lines. Operators commented `Fault:` are
deliberately wrong variants of the definition that follows them; they show that
each property can fail and are never part of a specification.

## Runs

| Run | Instance | What it shows |
| --- | --- | --- |
| `thread` | 2 callers, 2 tasks (one retried, whose function may also leave with a `BaseException`; one whose retry the application owns), a one-thread pool, a one-entry history | no entry is stranded (`NothingIsStranded`); results agree with states (`ResultMatchesState`); the function runs only when it may (`CallsAreAllowed`); no step replaces an end (`EndsAreKept`); `wait` answers a terminal state but for two windows and `result` reports no cancellation that was none (`AnswersAreTrue`); every task settles, every call returns |
| `process` | the same shape on a process pool that may break | after its callback an entry says what its future says (`SettledIsTrue`); the reported states implement `Lifecycle`; every task settles; no call deadlocks on the lock the callback takes |
| `subprocess` | 2 callers, 2 children, one with a budget and one chunk of output | what is said of a child is true of it (`ReportIsTrue`); a stream that ends is complete; the reported states implement `Lifecycle`; calls return although a stop holds the lock; an overdue child that somebody looks at is stopped |
| `handle` | 2 threads on one handle over each of six kinds of backend, which may go on from one end | no answer is older than its call (`AnswersAreFresh`), a cached end is the backend's (`TerminalCacheIsTrue`), each but for an end the backend has gone on from and a deleted job, and a stale snapshot stored over an end is replaced for good while somebody polls (`StaleSnapshotsDieOut`) |
| `inline` | 2 threads, 3 executions, a one-entry history, no lock | the three structures agree and stay bounded, and two submits never pop an empty list (`HistoryIsConsistent`) |
| `runtime` | 2 threads race on a configured and an injected backend under 2 closes that may raise; 1 caller submits everything a facade can build to each of the fifteen adapters on both surfaces; 1 caller is routed by configurations of every source | no instance is lost or doubled (`NoInstanceIsLost`), the index is true, bounded and no more forgetful than it must be (`IndexIsTrue`), what was asked reaches the engine's request and no validated route leads nowhere (`IntentIsCarried`), every hook hears the beginning and the end (`SubmissionsAreBracketed`) |
| `scheduler` | 1 schedule (an interval of one moment or a one-shot at the last); 1 runner for 4 moments, or 2 runners for 2 | a one-shot fires once per runner at most, and once in all unless passes overlap, and nothing is found due early (`FiresAsAgreed`); what is due does not wait for ever (`DueSchedulesFire`) |
| `queue` | 2 consumers in three deployments (an SQS container with a Lambda function, two Service Bus containers, two instances behind Cloud Tasks), 2 messages, one poisonous, submitted on commit by one transaction | nothing is sent before the commit and a message goes only after a success (`SentIsCommittedDeletedIsDone`), a repeat needs an expired lease (`RepeatsNeedExpiry`), committed work settles (`CommittedWorkSettles`) |
| `broker` | Celery, Procrastinate and Dramatiq under some four hundred set-ups, 2 workers, 2 submissions, 1 crash | the policy that was submitted, through the envelope, bounds the calls and decides when a job has failed (`SubmittedPolicyDecides`), reported histories are legal (`SeenIsLegal`), no job is lost (`EveryJobSettles`) |
| `cloud_jobs` | 4 adapters; 2 callers on one job of two tasks under three policies, 1 caller with two jobs and an index of one, 2 callers racing for that place; 1 reader of a log of 3 entries, two with one timestamp, one without an insert id | what is said of a job is true of it and an ended job is said to have ended (`ReportIsTrue`), an end is final (`EndsAreFinal`), the engine runs no task more often than the spec grants (`AttemptsWithinPolicy`), a tail is the output, in order, once, and whole as of the last answer (`TailIsFaithful`), and it ends with its job (`TailsEnd`) |
| `providers` | a bus with 2 threads, 3 events, 2 subscriptions, a handler and a predicate that may raise, its history unbounded (a limit of 0) or of two; a registry with 2 threads, 4 instances, 2 changes; 7 publishers with batches of 3; 8 schedules, 2 users, 3 engines; 9 callables and an alias under 4 import policies | who exactly is reached, by what, how often, and that the history is the tail of what was published (`BusIsTrue`); an instance handed out is everybody's (`RegistryIsTrue`); results, order and identity of publications (`PublicationsAreTrue`); engines fire what was last written (`SchedulesAreAsWritten`); a name that is accepted leads back (`NamesLeadBack`) |
| `broker_OneLayerRetries` | one policy of two attempts the application owns, on Procrastinate | refutes "exactly one layer retries" (`findings` in `PROJECT.json`) |

### Where the code departs from its documentation

One departure is a run of its own, `broker_OneLayerRetries`: the envelope does not
carry the owner of a retry policy, so a worker retries what the application retries as
well (`envelope.py:130` against `retry.py:55`). The passing `broker` run states the
property for what is left: `IntentSurvivesTheWire`, part of `SubmittedPolicyDecides`,
excludes the application's policies by name.

The others show up as the exceptions that the checked properties have to make. Each
property is stated as strongly as the code allows, so the exception is exactly the
case in which the promise fails:

- Thread backend. `wait` can answer QUEUED, because `future.cancel()` wakes it before
  `_cancel` writes CANCELLED ("Block until the execution is terminal", `ports.py:260`):
  the `Cancelling` disjunct of `WaitIsTerminal`, half of `AnswersAreTrue`. A task reported CANCELLED after the
  worker's last look runs and ends SUCCEEDED or FAILED (`thread.py:325`): hence the
  positions of the worker in `KeepsCancelled`. The history bound evicts queued and
  running executions ("how many finished executions to keep", `thread.py:95`): hence
  `Absent` in `EveryTaskSettles`. A `BaseException` leaves an execution RUNNING for
  ever, the outcome the comment at `thread.py:179` sets out to avoid: hence `Escaping`.
- Process backend. Waiters wake before the done callback has stored the outcome, so
  `wait` may answer RUNNING and `result` may answer "cancelled" for a task that
  succeeded: `SettledIsTrue` speaks of the time after the callback.
- Subprocess backend. A budget is enforced only when somebody calls get, wait, result
  or stream_logs (`ObservedBudgetIsEnforced`; `retry.py:177` calls an unenforced timeout
  worse than none), and `cancel_on_timeout=False` is read by nobody.
- Handle. `done` can go back to false, because a late answer is stored over a terminal
  one (`handle.py:25-27`): `StaleSnapshotsDieOut` is what remains. "A terminal snapshot is
  never re-read: terminal states do not change" is not true of three backends, whose ends
  stay cached when they have gone on from them (`TakenBack`): CANCELLED of the thread
  backend (`thread.py:325`), FAILED between two pods on Kubernetes, and any end of a task
  whose message a broker delivers again. A cancel on Kubernetes reads the job, deletes it
  and calls it CANCELLED whatever it had come to (`kubernetes.py:348-361`), so one caller
  may hold SUCCEEDED and another CANCELLED (`Deleted`); after it every read raises, and a
  stale snapshot may stay (the premise of `StaleSnapshotsDieOut`).
- Inline backend. Without a lock (`docs/concurrency.md:159` says "lock-guarded") a
  third concurrent submit can raise `IndexError`, `result` a bare `KeyError`, and a
  close during a submit leaves records nobody evicts: the bound on `Callers` in
  `SubmitNeverBreaks`, half of `HistoryIsConsistent`, and the `closed` cases.
- Runtime. A submit may reach a backend that close has just closed (`strays`), and a
  close that raises leaves the remaining backends open and out of reach (`dropped`;
  `runtime.py:345`).
- Submission. `HookChain` says of an error "Nothing was enqueued" (`hooks.py:112`), which
  is untrue when the engine's answer is lost. `asubmit` of Service Bus (`backend.py:221`),
  Cloud Tasks (`backend.py:253`) and Procrastinate (`backend.py:250`) makes its message
  outside the `try`, so hooks hear of a beginning without an end: the `"build"` case of
  `SubmissionsAreBracketed`. SQS cuts a delay to whole seconds, and Batch takes bytes
  without a suffix for MiB: the exceptions in `DelayCarried` and `MemoryCarried`.
- Configuration. `from_env` ignores the scalars when no structural variable is set
  (`config.py:280`), a route cannot name an injected backend (`config.py:143`), and the
  `RoutingError` for a backend of the wrong kind is raised after the backend has been
  built (`runtime.py:278`).
- Scheduler. `stop` gives up on a busy loop after five seconds and the next `start`
  revives it beside the new one (`overlapped`); a pause can come too late, and a
  `ProviderError`, or the `TypeError` of a `next_run` that another pass clears between two
  looks at it (`local.py:165`), ends the thread and `start` does not replace it
  (`LoopAlive`). `_advance` reads the trigger and writes by it later (`local.py:181-186`):
  an update in between can get a `next_run` that was counted with the old trigger, so that
  a new one-shot fires early (`torn` in `NeverEarly`), or is exhausted at once by the
  one-shot it replaced and never fires (`DueSchedulesFire` speaks of what is due, and it
  is not). In the middle of an update the new trigger stands beside the old progress
  (`user # s`).
- Service Bus consumer. A lost lock makes the acknowledgement raise outside every `try`
  and ends the consumer (`consumer.py:108`): the model restarts the container.
- Engines. Dramatiq's own limit of 20 retries applies to a disabled policy and Celery's
  limit of 3 to longer ones (`backend.py:145`, `worker.py:110`), so the set-ups with
  those policies are left out of `MCSetups`; Procrastinate goes from RUNNING back to
  QUEUED, which the transition table does not list (the exception in `SeenIsLegal`).
- Events. A handler that raises starves the subscriptions after it; a predicate that
  raises starves all of them, while the event stays in the history (`inmemory.py:96-101`);
  and a handler can be called after `unsubscribe` has returned: all three are spelled out
  in `PublishedReachesAudience`. What a predicate answers is taken to depend on the event
  alone, and it calls nothing of the bus: under the lock, which is not reentrant, it would
  wait for ever. `max_history=0` keeps everything (`inmemory.py:100`).
- Cloud jobs. A Kubernetes job is FAILED between two of its pods, a cancel of one that
  has ended reports CANCELLED, and one whose deadline passes before its first pod stays
  QUEUED: the exceptions of `EndsAreFinal` and `ReportIsTrue`. A reader that waits for
  the first pod never looks at the job: one exception
  of `TailsEnd`. The deadline bounds that wait alone: a followed stream then blocks on
  `read_namespaced_pod_log` (`kubernetes.py:402`) as long as the pod runs, although
  `timeout` is said to bound "the total stream" (`kubernetes.py:393`); so `TimeOut` has no
  step while a pod's lines are read. A follower on Cloud Run or Batch ends when it finds, after an empty page,
  that the job has ended (`cloudrun/backend.py:485-487`, `aws.py:358-360`); it reads no
  further page, so what becomes visible in between, often the last words of the job, is
  lost: `TailIsFaithful` promises what was visible at the last answer (`answered`), less what
  came after a later entry had been answered with (`late`). The cursor of Cloud Run is
  inclusive and `seen` knows insert ids only (`cloudrun/backend.py:473-477`): an entry
  without one is yielded again on every page until a later entry has been yielded, and as
  long as pages have something, neither the job nor the deadline is looked at
  (`repeated`, `RepeatsForEver`). Entries without text or timestamp are left out. Azure is
  taken to say "Degraded", "Unknown" or nothing only of an execution that has not ended
  (`AzureStatuses`). Where a spec asks for no
  retries, every engine but Kubernetes falls back on its own: `AttemptsWithinPolicy`
  speaks of the others.
- Publishers. Kafka's delivery reports are read by nobody, so a result does not mean
  that the broker has the event; EventBridge sends the data alone, without the id,
  subject and correlation of the event; an Event Grid publisher without an endpoint
  reports its `ConfigurationError` as a `ProviderError`.
- Cloud schedulers. To pause on AWS is a read and a write, and an update in between is
  written over (`torn`). Cloud Scheduler ignores `enabled` on creation. A patch on
  Kubernetes keeps an environment, or a time zone, that is not asked for any more. AWS
  drops the zone of a one-shot, rounds intervals to minutes, and wraps the unix
  expression in its own `cron()`, which has other fields (formats are left out of the
  model).
- Lazy registry. Two first accesses may each make an instance, one of which is lost,
  and an access that a change overlaps can answer a stale instance or a bare `KeyError`:
  `settled`, `stale` and `late` in `RegistryIsTrue`.
- Function registry. The comment at `functions.py:105` says that an inherited class
  method is bound again correctly on import; it is named after the base class and found
  there, so what runs is the base's. A lambda in the body of a class passes the check at
  `functions.py:138`. Both are `Misnamed`. `setdefault` keeps, without a word, the
  callable that has a name already (`functions.py:263`). A dotted name with a class in
  it looks for the wrong module. A thread backend from a configuration has a registry
  and an import policy of its own (`thread.py:110` against `runtime.py:507`): hence
  `shared`.
- Django. The webhook answers 400 and 404 to what should be given up (the table at
  `views.py:31`), but Cloud Tasks repeats whatever is not 2xx; and a
  `SerializationError` or `FunctionResolutionError` raised by the task itself is
  answered in the same way, not by 500. One submission that raises after the commit
  takes the callbacks behind it with it (`transaction.py:78`): `lost` in
  `CommittedWorkSettles`.

### Bounds

Two callers expose every race between two critical sections. Two tasks with a history
of one make eviction happen; a pool of one makes queueing happen. Two attempts are the
first and the last; the broker's policies go up to three for a middle one. The
scheduler's clock has four moments (`MaxTime`): a late pass, an interval that fires
twice, an update in between and a one-shot that is still to come when the interval it
replaced would be due again. An application may begin late and with some of the runners
(`Beginnings`): one runner beside the updates has all four moments, two that get in each
other's way have the last two, in which something is due and another pass, or an update,
comes in between (three for two runners, which TLC passes as well, take four minutes).
Two messages, two receives of each (`MaxReceives`: the
first and the last before the dead letters) and batches of two let one message of a
batch expire, fail or be poisonous while the other succeeds; `receive_messages` of
Service Bus takes one message at a time by default, so its batches have one. Three log
entries with two timestamps (`Stamps`) give a page boundary and a tie, and one of the two
that share a timestamp has no insert id (`Anonymous`). An index of one
makes the second job evict the first. Two readings of a clock may be 0 or 3 tenths of a
second apart (`Lags`). Four instances (`MaxMade`) and two changes (`MaxChanges`) let two
threads build twice with a replacement between; batches of three (`MaxBatch`) have a
middle to fail in; one name (`MaxRegistered`) is enough to be taken. A history of two
(`Limits`) drops the first of three events. Crashes, closes, touches and engine retries are
bounded by `MaxCrashes`, `MaxCloses`, `MaxTouches` and `MaxRetries`. Symmetry is used
for callers, and for ids with equal roles, in the runs without liveness properties
(`inline`, `runtime`). Deadlock checking is off only where the modelled system may come
to rest: all ids used, consumers stopped, the clock at its end, bounds reached.
`runtime`, `providers` and `queue` check several instances at once: the choice is made
in the initial state (`deployment`, `place`), and none is mixed with another.

### Fairness

Threads that have begun a call go on (`Continue`), pools start queued work and run it,
done callbacks run, child processes end when killed and their clocks expire, brokers
deliver to idle workers, leases run out and containers come back. Weak fairness
suffices for these because nothing disables a step for good except its own completion;
the two exceptions use strong fairness: a caller that keeps polling a handle (and whose
reads do not all fail), and a
queue handing a given message out again to consumers that keep asking. No caller is
ever obliged to call anything, no transaction to commit, and no task to succeed. A
thread that reads a log goes on reading (`WF` of `Advance`); a process that has
committed goes on to its callbacks (`WF` of `RunHook`) unless it dies.

## Proofs

`ThreadBackendProofs` (any number of tasks, callers and workers, any history, any retry
policy) proves `Spec => []IInv` and from it every safety property of the run `thread`:
`TypeCorrect`, `StrandedCorrect`, `ResultsCorrect`, `CallsCorrect`, and the action
properties `EndsAreKept` (`EndsCorrect`) and `AnswersAreTrue` (`AnswersCorrect`). The properties
are not inductive: that a finished entry is never overwritten rests on which step of
`_run` a worker is at and what its future says, and that a queued entry is scheduled on
what every submit and cancel under way is about to do. `IInv` adds `TaskInv` (per task:
worker position, future, entry, attempt counter and result fit together), `FreshInv`
(an id not minted yet occurs nowhere), `SubmitInv` (two submits never hold the same id)
and `ClientInv` (what each position of a call implies). The proof has one lemma per
action, and two framing lemmas, `WorkerStep` and `ClientStep`, for the actions that
change one task or one caller only.

`CallerProofs` proves of `InlineBackend` (any number of threads and executions, any policy
and history) that its unlocked bookkeeping is consistent (`HistoryCorrect`) and
`TypeCorrect`. `HistoryInv` says in which one place an execution is: in the hands of the
thread that submits it, in the list, or in the hands of the thread that evicts it
(`PlaceInv`); what the dictionaries have is what is listed or on its way in or out
(`DictionariesInv`), until a close. The length of the list is bounded with the number of
threads between their append and their check (`BusyCounted`), and that two threads never
pop an empty list rests on `PopInv`: of two that are about to pop, either leaves the other
something. It is false of three, as the code is.

About `Handle` (any callers, both handles, every kind of backend, any number of ends gone on
from) it proves that answers are fresh (`Fresh`), that a cached terminal snapshot is the
backend's record (`TrueCache`) and that callers hold the same end (`Agreement`), each but for
an end the backend has gone on from and, the last two, for the CANCELLED of a deleted job,
and type correctness (`HandleTypeCorrect`). The invariant says of every copy of a snapshot,
in the cache, in a call or in a caller's hands, that an end is the backend's current record
or one of the two exceptions (`Genuine`); so a stale write can hide a terminal snapshot but
never invent one. That a cancel of the pools invents none rests on what its position says
of the future it has tried to stop.

`SubprocessBackendProofs` (any number of jobs and callers, any output and any budgets)
proves every safety property of the run `subprocess`: `TypeCorrect`, `ReportsCorrect`
(`ReportIsTrue`), `StreamsCorrect` (`StreamIsComplete`), and that the backend implements
`Lifecycle` (`Refinement`). `ReportIsTrue` is not inductive: that a terminal job has no
process rests on nobody settling a job while another call is in the middle of stopping
its child. `ClientInv` says so: at the two waiting positions of `_stop` the caller has
the lock and the job is still RUNNING; at every position of a call its job is known, and
at the last read of a stream the child has ended. A release of the lock inside `_stop`
breaks this conjunct.

`ProcessBackendProofs` (any number of tasks and callers, any pool, history and retry
policy) proves `TypeCorrect`, `SettledCorrect` (`SettledIsTrue`) and that the backend
implements `Lifecycle` (`Refinement`). The invariant ties the four copies of a task's
fate together: `FutureInv` (future, outcome and callback), `EntryInv` (an entry stays open
until the callback has run, unless a cancel that won the future has written CANCELLED) and
`ClientInv` (what each position of a call knows; only the submit under way touches a task
before its callback is registered). Both refinements go action by action: an entry that
appears is `Appear`, one that moves is `Move` along `Allowed`, evictions and close are
`Forget`, and all else stutters; `StatesMove` and `EntriesMove` reduce a change of the
function of reported states to the change of one value.

`OnCommitProofs` (any number of messages and consumers, any mix of deployments, batch
size and redrive policy) proves about the producer and the queue together that what is
sent was committed and what is deleted has succeeded (`DeliveryCorrect`), that a repeated
success needs a lease that ran out (`RepeatsCorrect`), and `TypeCorrect`. The last but
one needs a budget: `BudgetInv` counts, with the cardinality of a set of receipts, the
deliveries in consumers' hands whose task may still run, and says that successes and open
deliveries together never exceed the expired leases by more than the one delivery that is
outstanding. `UnsharedInv` (no delivery is in two batches) makes the count right, and
`PlaceInv` and `BatchInv` say where a message can be while somebody holds it.

The same module proves of `LocalScheduler` (any schedules, triggers and runners, any clock)
`SchedulerTypeCorrect` and `FiresCorrect` (`FiresAsAgreed`). A step that fires looks only at
what its pass found before, so `FiresInv` has to say what a pass may still find: `PassInv`,
that before two passes have overlapped there is one; `FiredInv`, that who has fired a
one-shot has exhausted it or is about to, and that while passes do not overlap nobody else
is about to fire it; `DueInv`, that an interval is next due an interval after its last fire,
unless a pass is about to put it off, or has done so by a trigger that is not the schedule's
any more (`torn`). The last two are not true of an entry the application is in the middle of
updating, since an update writes trigger, `exhausted` and due time one after the other:
`Steady` leaves it out, and its end makes it true again. `FiredStays` and `DueStays` say what
a step may change without disturbing either; the steps that fire nothing, put nothing off
and create or update nothing are dealt with at once (`Quiet`).

`RuntimeProofs` (any callers, names, ids, closes and deployments, any index limit) proves
of `Submission`, whose steps are those of `Runtime` in the order of the code, that no
instance is lost (`InstancesCorrect`) and that the index is true (`IndexCorrect`), and
`TypeCorrect`. `CacheInv` bounds the number of builds by that of closes, which gives
each instance a number of its own; `CloseInv` says that what a close has still to do is out
of use; `SubmitInv` that a submission no close has overlapped is of the instance in use;
`TrackInv` that an id is tracked by one submission. The lemma `RememberNew` says what the
bounded index is after a new key: injective, within its limit, and without the oldest key
only if it is full. For its sake `Touch` removes the one occurrence of a key, and `Resolve`
takes the set of first matches: the provers know neither `SelectSeq` nor a `CHOOSE` over a
set that might be empty.

On top of it, for every spec a facade can build and every configuration, it proves that what
was asked reaches the engine's request (`IntentCorrect`, `IntentIsCarried`) and that every
hook hears the beginning and the end (`BracketsCorrect`, `SubmissionsAreBracketed`). The
invariant is `SInv`: `BackendsInv`, that an instance in use is one of the package's adapters;
`Prepared`, that a submission which has reached its backend is of the backend's kind and has
the spec its facade built; `Bracketed`, what each listening hook has heard at each position.
Two lemmas have the content. `RequestCarries` says, adapter by adapter, that a spec whose
required capabilities are all advertised has a request which carries its delay, retry,
timeout, memory, environment and the rest, whatever the clock shows; `FramesAre`, of every
adapter on either surface, in which order it connects, validates, tells the hooks, builds and
sends, and which of these steps are inside its `try`.

`ProvidersProofs` (any threads, subscriptions, events, aliases, instances, batches, users,
schedules, callables and policies) proves every property of the run `providers`. Its
invariant is a conjunction with one part per place, and each part is kept by its own steps
and by everybody else's, which leave its variables alone.

- `BusCorrect` (`BusIsTrue`). `DeliveryInv` says that a publication under way has called
  exactly the places before its next target that asked for the event; that a handler is
  called once with it rests on `EventInv` (one thread publishes an event) and `ListInv` (nobody
  subscribes twice). A publication that a predicate broke off counts as one whose last call
  was at place 0 (`ReturnInv`).
- `RegistryCorrect` (`RegistryIsTrue`). `AccessIsTrue` says what each position of an access
  without a lock still knows: the factory it read, the number of its instance, and whether a
  change has overlapped it; `SettledInv` that a settled instance is the cached one.
- `PublishersCorrect` (`PublicationsAreTrue`). `Stage` says, for each kind of publisher, how
  far results, tried and accepted events may be apart in the middle of a batch; `OneBroker`
  that the alias leads to one factory all along.
- `NamesCorrect` (`NamesLeadBack`). `FunctionsInv` says that what is registered has its own
  name or a chosen one. The rest is about names: what is parsed is parsed to itself
  (`ParsedOnce`), and an import of it finds what the program has (`ImportFinds`).
- `SchedulesCorrect` (`SchedulesAreAsWritten`). `RequestInv` makes it inductive: a definition
  that AWS's pause has fetched, and that nobody has overtaken (`late`), is still the one last
  written. The lemmas `AwsWrites`, `GcpWrites`, `KubernetesWrites`, `FetchKeeps` and
  `SwitchKeeps` say, for every trigger, zone and state, that what an adapter sends fires as
  the schedule says; `RoundedIsNear` that an interval is off by half a minute at most.

The same module proves of `BrokerTasks` (any set-ups of the three engines, workers, jobs,
exceptions and crashes) `BrokerTypeCorrect`, that the submitted policy decides
(`PolicyCorrect`) and that reported histories are legal (`SeenCorrect`). That calls are bounded
is not inductive, as a message waiting or in a worker's hands means calls to come:
`CallsInv` adds to the calls made those that the messages in the queue (`Waiting`) and in hand
(`InHand`) may still lead to, as cardinalities, and says that the sum never exceeds what was
granted and `max_attempts` more for each crash; a retry or a redelivery moves calls from
one term to another. `WireIs` says what `decode_retry` makes of `encode_retry`, and
`RetriesAsAgreed` that a worker then retries as the submitter would.
`PolicyCorrect` has a hypothesis, `Agreed`, which every set-up of the run `broker` fulfils:
that the engine's own limit does not take the place of the policy's (it does for a disabled
policy on Dramatiq, and on Celery for more attempts than `max_retries` has), and that a
policy of several attempts which the application owns meets no worker that retries (what
happens if it does is the run `broker_OneLayerRetries`). `SeenInv` says
that without a redelivery a job is in one place (`OncePlaced`) and that what was told is still
what the engine knows.

`CloudJobsProofs` (any executions, callers and deployments, jobs of any number of tasks, any
policy and index) proves of `LogTail`, whose steps are those of `CloudJobs` and of a reader
beside them, that what is told is true (`ReportsCorrect`), that an end is final
(`EndsCorrect`), that no task is run more often than the spec grants (`AttemptsCorrect`),
and `TypeCorrect`. None of these is inductive. `JobInv` relates, per job, the tasks, their
failed runs, the request the engine accepted and how the job ended: a task that waits or
runs has a run left, and a lost one has failed or was overtaken by the deadline. `ToldInv`
says that the terminal state a caller was told is what the adapter would say *now*, not only
what it said then; on Kubernetes, where a later answer may differ, that it has its reason in
the pods. From it `EndsAreFinal` follows, because an answer is read off the job in the same
step in which it is told. `ClientInv` says that an execution is told nothing before its
submit has its answer, `IndexInv` that only what was told is remembered. The lemmas
`CloudRunSays`, `KubernetesSays`, `BatchSays` and `AzureSays` say what each adapter's mapping
means; `FailuresCounted` relates the failed runs of all tasks, which the model counts as the
cardinality of a set because the provers know no fold, to those of one; `TouchKeeps` and
`RememberKeeps` say that the index never makes a key up.

Of the reader it proves `TailTypeCorrect` (what is in hand, yielded or answered has been
written and can be seen) and, for any number of entries with any timestamps, with or without
insert ids, made visible at any time, `TailCorrect`: a tail is the output, in order, repeats
entries without an insert id only, and is exactly what the last answer could show when the
reader is done. `TailInv` is made of `TailTypes`, of `PhaseInv` (something is in hand while
the reader yields, and nothing has been answered before its first page) and of `PagesInv`. Of that, `OrderInv` says that what has been yielded is ordered and not
later than what is in hand; `WholeInv` that, between two answers, the two together (`Given`)
are what the last answer could show, less what came late; and one part per adapter says what its mark is worth.
`CloudRunTail`: `since` is the greatest timestamp yielded, and whatever is older and was not
yielded came late, so that a filter with `>=` and the set of seen ids misses nothing else.
`BatchTail`: entries become visible in order, and the forward token counts those answered.
`PodTail`: lines are there at once, and those answered are the first ones. `ListingIs`
says that an answer (`Listings`) lists its entries, all of them and in order;
`AnswerKeeps`, shared by the three adapters, that a new answer keeps the invariant if what is
new is not earlier than what was yielded.

The assumptions on the constants are the named `ASSUME`s of the modules: positive pool
sizes and attempts, natural history bounds; finitely many threads in `InlineAssumption`,
as a process has; that a mark of absence is not a name (`Free`
is no client, `None` no backend name); and, in `SubmissionAssumption`, that `Names` has
every name a deployment's callers or routes use and that `MaxCloses` bounds its closes,
which only says that these two constants are large enough for the deployments. In
`ProvidersProofs` they are the types of events, brokers and schedules
(`EventBusAssumption`, `ProvidersAssumption`, `SchedulesAssumption`), in `CloudJobsProofs`
those of deployments and of the time stamps of logs (`CloudJobsAssumption`,
`LogTailAssumption`), and in `ProvidersProofs` also `ProgramAssumption`, which says what Python's imports find: a callable of a module under its
own name, or what has replaced it there, as long as that has the name; aliases may be added,
but a decorator that hides a function behind one of another name is left out. `FactoryAssumption` says that
what a configuration can name builds the adapters modelled here, `BrokerAssumption` that a
policy has an attempt, as `RetryPolicy` demands, and `SchedulerAssumption` that the marks of an idle
user are no schedule's or runner's name. `SubmissionAssumption` also says that what an
application asks for has the types the specs declare (`Within`, `IsAsk`, `HasType`). TLC
evaluates all of them.

Only model-checked: the liveness properties (`NobodyWaitsForever`, `StaleSnapshotsDieOut`,
`DueSchedulesFire`, `CommittedWorkSettles`, `EveryJobSettles` and `TailsEnd`), since fairness
and `ENABLED` are out of the prover's reach. The `...TypeOK` of a module is the first part
of its invariant.

## Not modelled

Left out for good: the command line, the contract suites and the OpenTelemetry bridge
(no state of their own that anything reads), the lookup of entry points, context
variables, the health checks, Django's shared runtime, system checks and `django.tasks`
bridge (a translation of names), and whether a callable is a coroutine function.
Payloads, resources' names, labels and formatting are left out everywhere: no property
tells them apart. Real time is abstracted: a timeout may happen at any moment while its
call waits, and delays are compared as numbers, not waited for. The hooks' events of an
execution other than its submission, and the frames of `get`, `wait` and `result`
around the cloud adapters, only pass values on.

## Plan

Done: the execution model and the local backends first, since every user passes through
them; then handle and runtime, which share their races; then scheduler, consumers,
worker engines and events; then submission to every adapter, cloud jobs and their logs,
the cloud's publishers and schedulers, the two registries, and Django's commit and
webhook; then the proofs, in the same order. Next: a composition of `Handle` over
`ThreadBackend` itself. `Handle` stands for six kinds of backend by the steps of their
cancels and by the ends they go on from (`Undoable`); the composition would show that
`ThreadBackend` refines that engine, and relate a handle's answers to a worker's position.
