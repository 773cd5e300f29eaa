----------------------------- MODULE Submission -----------------------------
(***************************************************************************)
(* A submission from the facade to the engine, on the runtime of module     *)
(* Runtime: the spec the facade builds, the route it takes                  *)
(* (Taskferry._prepare), and the frame around the engine's answer           *)
(* (BaseBackend.submit and asubmit of taskferry/ports.py and of the         *)
(* adapters) with the hooks (taskferry/hooks.py) called from it.            *)
(*                                                                         *)
(* The frame of one submission is one step: it touches nothing another      *)
(* caller sees but the engine.  What the engine answers, whether its answer *)
(* arrives and where an awaiting caller is cancelled are choices.           *)
(***************************************************************************)
EXTENDS Runtime

CONSTANTS Hooks,    \* HookChain: what each hook does, "plain", "raises" or "deaf"
          Ambient,  \* the correlation of a caller that gives none
          Lags      \* what may pass between two readings of the clock

VARIABLE call  \* the submission each caller is in

vars == <<runtimeVars, call>>

NoCall == [spec |-> {}, routed |-> FALSE, surface |-> None, native |-> FALSE,
           heard |-> <<>>, request |-> {}, lag |-> 0, accepted |-> FALSE, why |-> None]

\* A deployment has a configuration to load (by TaskferryConfig.local,
\* from_mapping or from_env, or "given"), a router of its own or not, the
\* injected backends, and what its callers ask: the facade, the target and the
\* keywords, a backend name or {} to be routed, and the surface; callers and
\* executions bound how many of them there are at once and in all.
Load(d) == CASE d.loader = "local" -> {LocalConfig(d.tracked)}
             [] d.loader = "mapping" -> LoadMapping(d.source, d.tracked)
             [] d.loader = "env" -> LoadEnv(d.source, d.tracked)
             [] d.loader = "given" -> Checked(d.source)

\* What is asked for has its declared type.  Names has every name an application
\* asks for or is routed to, MaxCloses bounds its closes, and the default of
\* max_tracked_executions is no negative.
Within(d) ==
    /\ d.closes \in 0 .. MaxCloses
    /\ d.loader \in {"local", "mapping", "env", "given"}
    /\ d.tracked \in Nat
    /\ \A n \in DOMAIN d.injected : d.injected[n] \in Adapters
    /\ \A ask \in d.asks : IsAsk(ask) /\ ask.backend \subseteq Names
    /\ \A c \in Load(d) : c.max_tracked_executions \in Int
    /\ \A r \in Load(d) \union d.router :
           /\ \A i \in DOMAIN r.routes : r.routes[i].backend \in Names
           /\ \A kind \in DOMAIN r.defaults : r.defaults[kind] \in Names

ASSUME SubmissionAssumption ==
    /\ Lags \subseteq Nat
    /\ \A d \in Deployments : Within(d)

Init ==
    /\ deployment \in Deployments
    /\ config \in Load(deployment)
    /\ RuntimeInit
    /\ call = [c \in Callers |-> NoCall]

\* the runtime's router: the configuration's, unless one was passed
Router == IF deployment.router = {} THEN config ELSE The(deployment.router)

-----------------------------------------------------------------------------
\* Taskferry.submit and AsyncTaskferry.submit, up to the backend

Begin(c, ask, s, why) ==
    call' = [call EXCEPT ![c] =
                [NoCall EXCEPT !.spec = s, !.routed = ask.backend = {},
                               !.surface = ask.surface, !.why = why]]

\* ensure_correlation
Correlated(s) == IF s.correlation = {} THEN [s EXCEPT !.correlation = {Ambient}] ELSE s

\* the facade raises TypeError or ValueError
AskInvalid(c, ask) ==
    /\ Asked(ask) = {}
    /\ PrepareRaises(c)
    /\ Begin(c, ask, {}, "invalid")

Route(ask, s) == IF ask.backend # {} THEN ask.backend ELSE Resolve(Router, s)

AskUnroutable(c, ask) ==
    \E s \in Asked(ask) :
        /\ Route(ask, s) = {}
        /\ PrepareRaises(c)
        /\ Begin(c, ask, {s}, "unroutable")

AskUndefined(c, ask) ==
    \E s \in Asked(ask) : \E n \in Route(ask, s) :
        /\ NoBackend(n)
        /\ PrepareRaises(c)
        /\ Begin(c, ask, {s}, IF n \in Configured THEN "unbuildable" ELSE "undefined")

AskMismatched(c, ask) ==
    \E s \in Asked(ask) : \E n \in Route(ask, s) :
        /\ PrepareMismatch(c, n)
        /\ Kind(Adapter(target'[c])) # s.kind
        /\ Begin(c, ask, {s}, "mismatched")

Ask(c, ask) ==
    \E s \in Asked(ask) : \E n \in Route(ask, s) :
        /\ Prepare(c, n)
        /\ Kind(Adapter(target'[c])) = s.kind
        /\ Begin(c, ask, {Correlated(s)}, None)

-----------------------------------------------------------------------------
\* The frame of a submission.

\* Fault: a hook that raises ends the dispatch.
DispatchStops(event, heard) ==
    LET stop == {i \in DOMAIN Hooks : \E j \in 1 .. i - 1 : Hooks[j] = "raises"}
    IN  [i \in DOMAIN Hooks |->
            IF Hooks[i] = "deaf" \/ i \in stop THEN heard[i] ELSE Append(heard[i], event)]

\* _dispatch: in order, past those that have no such method and those that raise
Dispatch(event, heard) ==
    [i \in DOMAIN Hooks |->
        IF Hooks[i] = "deaf" THEN heard[i] ELSE Append(heard[i], event)]

Silence == [i \in DOMAIN Hooks |-> <<>>]

\* what the hooks have heard when the frame stops in a step, by an exception
\* (at "done", having ended) or by a cancellation
Heard(frame, stop, raised) ==
    LET at_ == CHOOSE i \in DOMAIN frame.steps : frame.steps[i] = stop
        begun == IF \E i \in 1 .. at_ - 1 : frame.steps[i] = "before"
                 THEN Dispatch("before", Silence) ELSE Silence
    IN  IF stop = "after" THEN Dispatch("after", begun)
        ELSE IF raised /\ stop \in frame.guarded THEN Dispatch("error", begun) ELSE begun

\* the step of the frame that is certain to raise, "after" for none: a missing
\* capability, an option that was never given, a spec the adapter cannot send
Stops(frame, a, s, options, lag) ==
    LET fails == If("validate", Missing(a, RequiredCapabilities(s)) # {})
                     \union If("connect", ~(NeedsToSubmit(a) \subseteq options))
                     \union If("build", ~Makes(a, s, 0, lag))
                     \union {"after"}
    IN  frame.steps[CHOOSE i \in DOMAIN frame.steps :
                        /\ frame.steps[i] \in fails
                        /\ \A j \in 1 .. i - 1 : frame.steps[j] \notin fails]

\* the client cannot be made, or the engine refuses, or its answer is lost
MayStop(frame, certain) ==
    {certain} \union {k \in {"connect", "send"} :
        \E i, j \in DOMAIN frame.steps :
            i < j /\ frame.steps[i] = k /\ frame.steps[j] = certain}

\* the options of an injected backend are complete
Options(i) ==
    IF i[1] \in Injected /\ i[2] = 1 THEN NeedsToSubmit(Adapter(i))
    ELSE config.backends[i[1]].options

Certain(c, frame, lag) ==
    Stops(frame, Adapter(target[c]), The(call[c].spec), Options(target[c]), lag)

\* only a deferred spec is turned into a time twice
Lag(c) == IF ScheduledFor(The(call[c].spec), 0) = {} THEN {0} ELSE Lags

Framed(c, frame, lag, stop, raised, accepted, why) ==
    call' = [call EXCEPT
        ![c].heard = Heard(frame, stop, raised),
        ![c].native = frame.native,
        ![c].accepted = accepted,
        ![c].lag = lag,
        ![c].request = IF accepted THEN {Request(Adapter(target[c]), The(call[c].spec), 0, lag)}
                       ELSE {},
        ![c].why = why]

\* submit returns the execution
EngineAccepts(c, e) ==
    /\ Cardinality({x \in Executions : owner[x] # None}) < deployment.executions
    /\ TargetSubmit(c, e)
    /\ \E lag \in Lag(c), frame \in Frames(Adapter(target[c]), call[c].surface) :
           /\ Certain(c, frame, lag) = "after"
           /\ Framed(c, frame, lag, "after", FALSE, TRUE, None)

\* what the engine may have accepted when the frame stops there
Acceptance(stop) == IF stop = "send" THEN BOOLEAN ELSE {stop = "after"}

\* it raises
EngineRefuses(c) ==
    /\ TargetRefuses(c)
    /\ \E lag \in Lag(c), frame \in Frames(Adapter(target[c]), call[c].surface) :
       \E stop \in MayStop(frame, Certain(c, frame, lag)) \ {"after"} :
       \E accepted \in Acceptance(stop) :
           Framed(c, frame, lag, stop, TRUE, accepted, stop)

\* the awaiting caller is cancelled: its own request ends where it is, a worker
\* thread goes on to the end of the frame
CallerCancelled(c) ==
    /\ call[c].surface = "async"
    /\ TargetRefuses(c)
    /\ \E lag \in Lag(c), frame \in Frames(Adapter(target[c]), "async") :
       \E stop \in IF frame.native THEN MayStop(frame, Certain(c, frame, lag)) \intersect {"send"}
                   ELSE MayStop(frame, Certain(c, frame, lag)) :
       \E accepted \in Acceptance(stop) :
           Framed(c, frame, lag, stop, ~frame.native, accepted, "cancelled")

Submission(c) ==
    \/ \E ask \in deployment.asks :
           \/ AskInvalid(c, ask)
           \/ AskUnroutable(c, ask)
           \/ AskUndefined(c, ask)
           \/ AskMismatched(c, ask)
           \/ Ask(c, ask)
    \/ \E e \in Executions : EngineAccepts(c, e)
    \/ EngineRefuses(c)
    \/ CallerCancelled(c)

Finish(c) == (Refuse(c) \/ Track(c)) /\ call' = [call EXCEPT ![c] = NoCall]

Other(c) ==
    /\ \/ \E e \in Executions : OwnerOf(c, e)
       \/ OwnerBackend(c)
       \/ TargetGet(c)
       \/ Close(c)
       \/ CloseInstance(c)
       \/ CloseRaises(c)
       \/ CloseReturns(c)
    /\ UNCHANGED call

Busy == Cardinality({c \in Callers : pc[c] # "idle"})

Next ==
    \E c \in Callers :
        /\ pc[c] # "idle" \/ Busy < deployment.callers
        /\ Submission(c) \/ Finish(c) \/ Other(c)

Spec == Init /\ [][Next]_vars

-----------------------------------------------------------------------------
\* The memory of a quantity in KiB; an engine's own unit is rounded down.
KiB(q) == CASE q.unit = "Gi" -> q.n * 1048576
            [] q.unit = "Mi" -> q.n * 1024
            [] q.unit = "Ki" -> q.n
            [] q.unit = "G" -> (q.n * 1953125) \div 2
            [] q.unit = "M" -> (q.n * 15625) \div 16
            [] q.unit = "bytes" -> q.n \div 1024
            [] q.unit = "cGi" -> (q.n * 1048576) \div 100

\* never early, but for less than SQS's whole second; late by a lag at most
DelayCarried(a, s, r, lag) ==
    \A t \in ScheduledFor(s, 0) : \E d \in r.due :
        /\ d > t - (IF a = "sqs" THEN 10 ELSE 1)
        /\ d <= Later(t, 0) + lag

\* the attempts, except where the queue has a policy of its own
RetryCarried(a, s, r) ==
    /\ r.attempts \subseteq {EngineAttempts(s.retry)}
    /\ "retry" \in RequiredCapabilities(s) => r.attempts # {} \/ a \in Queues

\* never longer, and shorter by less than a second
TimeoutCarried(s, r) ==
    \A t \in s.timeout : \E x \in r.timeout : t - 10 < x /\ x <= t

\* at least what was asked, but for the hundredth of a Gi; not a tenth more,
\* but for bytes that Batch takes for MiB
MemoryCarried(s, r) ==
    \A q \in s.memory : \E m \in r.memory :
        /\ KiB(m) > KiB(q) - 5244
        /\ 10 * KiB(m) <= 11 * KiB(q) + 52440 \/ q.unit = "bytes"

\* _validate_references: a submission that is routed by the configuration never
\* finds out that the backend of its route was not defined.  A router that is
\* passed to the constructor is not validated.
RoutesAreDefined ==
    deployment.router = {} =>
        \A c \in Callers : call[c].routed => call[c].why # "undefined"

\* Whatever a backend accepts it was asked of the right kind of backend, and
\* every capability the spec needs has reached the engine's request, across
\* the facade, the route, validate and the adapter's own translation.  And a
\* route of the configuration, which was validated, leads to a backend.
\* "UnsupportedCapability rather than silently ignoring" would be empty if a
\* backend advertised what its request does not say.
IntentIsCarried ==
    /\ RoutesAreDefined
    /\ \A c \in Callers : call[c].accepted =>
        LET a == Adapter(target[c])
            s == The(call[c].spec)
            r == The(call[c].request)
        IN  /\ s.kind = Kind(a)
            /\ DelayCarried(a, s, r, call[c].lag)
            /\ RetryCarried(a, s, r)
            /\ TimeoutCarried(s, r)
            /\ MemoryCarried(s, r)
            /\ s.priority # 0 => r.priority = {s.priority}
            /\ Cardinality(r.key) >= Cardinality(s.idempotency_key)
            /\ s.parallelism > 1 => r.tasks = {s.parallelism}
            /\ s.cpu \subseteq r.cpu
            /\ s.gpu > 0 => r.gpu = {s.gpu}
            /\ s.env => r.env # {}
            /\ s.kind = "task" => r.correlation = s.correlation /\ s.correlation # {}

\* The hooks that listen all hear the same of a submission, whichever of them
\* raise: nothing, if nothing was sent; else that it begins, and then that it
\* was accepted or that it failed.  They are left without the second only when
\* an awaiting caller is cancelled or the message of a native request cannot
\* be made.  An execution is returned only when they have heard of it.
SubmissionsAreBracketed ==
    \A c \in Callers, i \in {j \in DOMAIN Hooks : Hooks[j] # "deaf"} :
        LET told == IF call[c].heard = <<>> THEN <<>> ELSE call[c].heard[i]
        IN  /\ pc[c] = "track" => told = <<"before", "after">>
            /\ pc[c] = "refused" =>
                   \/ told = <<>> /\ ~call[c].accepted
                   \/ told = <<"before", "error">>
                   \/ told = <<"before">> /\ call[c].native /\ call[c].why \in {"cancelled", "build"}
                   \/ told = <<"before", "after">> /\ call[c].why = "cancelled"
=============================================================================
