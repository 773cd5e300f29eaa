------------------------------- MODULE Specs -------------------------------
(***************************************************************************)
(* What an application asks for: taskferry/specs.py, the TimeoutPolicy of   *)
(* taskferry/retry.py and the facades of the two surfaces,                  *)
(* taskferry/runtime.py and taskferry/aio.py.                               *)
(*                                                                         *)
(* A spec is one record with the fields of all three kinds; a field that    *)
(* may be None is the set of its value.  Times are tenths of a second,      *)
(* cpu is in thousandths, memory a number and a unit.  The arguments, the   *)
(* words of the command and backend_options (which pass to the engine as    *)
(* they are and may override any of this) are left out.                     *)
(***************************************************************************)
EXTENDS RetryPolicy, Integers, FiniteSets

Kinds == {"inline", "task", "job"}

NO_RETRY == [max_attempts |-> 1, owner |-> "none"]

\* The spec of a kind with every field at its default.
ExecutionSpec(kind) ==
    [kind |-> kind, target |-> "", name |-> "", queue |-> "default",
     profile |-> "default", labels |-> {}, retry |-> NO_RETRY, timeout |-> {},
     idempotency_key |-> {}, correlation |-> {},
     priority |-> 0, delay |-> {}, run_at |-> {},
     parallelism |-> 1, cpu |-> {}, memory |-> {}, gpu |-> 0, gpu_type |-> {},
     env |-> FALSE, image |-> FALSE, command |-> FALSE]

InlineSpec == ExecutionSpec("inline")
TaskSpec == ExecutionSpec("task")
JobSpec == ExecutionSpec("job")

-----------------------------------------------------------------------------
\* __post_init__: a spec that raises is no spec

ValidTimeout(t) == \A seconds \in t : seconds > 0

ValidResources(s) == s.gpu >= 0 /\ (s.gpu_type # {} => s.gpu > 0)

ValidTask(s) ==
    /\ s.target # ""
    /\ s.delay = {} \/ s.run_at = {}
    /\ \A d \in s.delay : d >= 0

ValidJob(s) ==
    /\ s.target # ""
    /\ s.parallelism >= 1

Valid(s) ==
    /\ s.retry.max_attempts >= 1
    /\ ValidTimeout(s.timeout)
    /\ s.kind = "task" => ValidTask(s)
    /\ s.kind = "job" => ValidJob(s) /\ ValidResources(s)

Named(s) == IF s.name = "" THEN [s EXCEPT !.name = s.target] ELSE s

-----------------------------------------------------------------------------
\* The facades: runtime.inline.submit(f, queue=..., ...) and the like, where
\* ask has the kind of the facade, its surface, the target and the keywords.

InlineFacade == {"name", "queue", "retry", "labels", "correlation"}

TaskFacade == {"queue", "priority", "delay", "run_at", "retry", "timeout",
               "idempotency_key", "labels", "correlation"}

JobFacade == {"image", "command", "env", "cpu", "memory", "gpu", "gpu_type", "profile",
              "parallelism", "retry", "timeout", "idempotency_key", "labels",
              "correlation"}

AsyncInlineFacade == {"name", "queue", "retry", "labels", "correlation"}

AsyncTaskFacade == {"queue", "priority", "delay", "run_at", "retry", "timeout",
                    "idempotency_key", "labels", "correlation"}

AsyncJobFacade == {"image", "command", "env", "cpu", "memory", "gpu", "gpu_type",
                   "profile", "parallelism", "retry", "timeout", "idempotency_key",
                   "labels", "correlation"}

Facade(kind, surface) ==
    CASE kind = "inline" -> IF surface = "async" THEN AsyncInlineFacade ELSE InlineFacade
      [] kind = "task" -> IF surface = "async" THEN AsyncTaskFacade ELSE TaskFacade
      [] kind = "job" -> IF surface = "async" THEN AsyncJobFacade ELSE JobFacade

\* The spec the facade builds.  A keyword the facade does not
\* name is an argument of the function (inline, task) or a TypeError (job).
Build(ask) ==
    LET given == DOMAIN ask.keywords \intersect Facade(ask.kind, ask.surface)
        base  == [ExecutionSpec(ask.kind) EXCEPT !.target = ask.target]
    IN  [f \in DOMAIN base |-> IF f \in given THEN ask.keywords[f] ELSE base[f]]

\* The declared types of the fields that reach an engine's request as numbers
\* or as quantities; the words of a quantity's unit are those Kubernetes has.
HasType(field, v) ==
    CASE field = "retry" -> v \in [max_attempts : Int, owner : Owners]
      [] field \in {"timeout", "delay", "run_at"} -> v \subseteq Int
      [] field \in {"priority", "parallelism", "gpu"} -> v \in Int
      [] field = "memory" -> v \subseteq [n : Nat, unit : {"Gi", "Mi", "Ki", "G", "M", "bytes"}]
      [] field = "idempotency_key" -> v = {} \/ \E k \in v : v = {k}
      [] field = "env" -> v \in BOOLEAN
      [] OTHER -> TRUE

IsAsk(ask) ==
    /\ ask.kind \in Kinds
    /\ \A field \in DOMAIN ask.keywords : HasType(field, ask.keywords[field])

Accepted(ask) ==
    ask.kind # "job" \/ DOMAIN ask.keywords \subseteq Facade("job", ask.surface)

\* the specs the call constructs: none when it raises
Asked(ask) == {Named(s) : s \in {r \in {Build(ask)} : Accepted(ask) /\ Valid(r)}}

-----------------------------------------------------------------------------
If(capability, needed) == IF needed THEN {capability} ELSE {}

\* ExecutionSpec.required_capabilities
RequiredOfAny(s) ==
    {"submit"}
        \union If("retry", Enabled(s.retry) /\ s.retry.owner = "backend")
        \union If("timeout", s.timeout # {})
        \union If("deduplication", s.idempotency_key # {})

\* TaskSpec.required_capabilities
RequiredOfTask(s) ==
    If("delay", s.delay # {} \/ s.run_at # {}) \union If("priority", s.priority # 0)

\* JobSpec.required_capabilities
RequiredOfJob(s) ==
    If("parallelism", s.parallelism > 1)
        \union If("cpu", s.cpu # {})
        \union If("memory", s.memory # {})
        \union If("gpu", s.gpu > 0)
        \union If("environment", s.env)

RequiredCapabilities(s) ==
    RequiredOfAny(s)
        \union (IF s.kind = "task" THEN RequiredOfTask(s) ELSE {})
        \union (IF s.kind = "job" THEN RequiredOfJob(s) ELSE {})

\* TaskSpec.scheduled_for: the time the task becomes eligible, if it is deferred
ScheduledFor(s, now) == s.run_at \union {now + d : d \in s.delay}
=============================================================================
