----------------------------- MODULE MCRuntime -----------------------------
(* Instances of Submission, with Runtime in it, for TLC: two threads race on  *)
(* one configuration while the runtime is closed; one caller asks every       *)
(* adapter for everything it may ask a backend of that kind, on both          *)
(* surfaces; and one caller is routed by configurations of every source.      *)
EXTENDS Submission, TLC

CONSTANTS c1, c2, e1, e2, e3

Symmetry == Permutations(Callers) \union Permutations(Executions)

MCRegistered == [fake |-> "thread"]
MCInstalled == [f \in {"celery", "procrastinate", "dramatiq", "sqs", "fifo", "servicebus",
                       "cloudtasks", "cloudrun", "kubernetes", "batch", "containerapps"} |-> {f}]
                   @@ [broken |-> {}]
MCImportable == ("pkg:inline" :> "inline")
MCHooks == <<"raises", "plain", "deaf">>

Say(kind, keywords, backend, surface) ==
    [kind |-> kind, target |-> "m:f", keywords |-> keywords, backend |-> backend,
     surface |-> surface]

Setup(loader, source, router, injected, asks, tracked, shut, who, some) ==
    [loader |-> loader, source |-> source, router |-> router, injected |-> injected,
     asks |-> asks, tracked |-> tracked, closes |-> shut, callers |-> who,
     executions |-> some]

NoFunction == [x \in {} |-> x]

Of(factory) == [factory |-> factory, options |-> Needs(The(ResolveFactory(factory)))
                   \union NeedsToSubmit(The(ResolveFactory(factory)))]

Plain == NoFunction

-----------------------------------------------------------------------------
Race(tracked, shut, some) ==
    Setup("given", Config([n \in {"a"} |-> Of("thread")], <<>>, [task |-> "a"], tracked), {},
          [b |-> "thread"],
          {Say("task", Plain, {}, "sync"), Say("task", Plain, {"b"}, "sync")},
          tracked, shut, 2, some)

\* an injected backend that hides a configured one
Shadowed ==
    Setup("given", Config([n \in {"a"} |-> Of("procrastinate")], <<>>, [task |-> "a"], 1), {},
          [a |-> "thread"],
          {Say("task", Plain, {}, "sync"), Say("task", [idempotency_key |-> {"k1"}], {}, "async")},
          1, 1, 1, 2)

-----------------------------------------------------------------------------
Retries == [max_attempts |-> 3, owner |-> "backend"]

Shared == {Plain, [retry |-> Retries], [retry |-> [Retries EXCEPT !.owner = "application"]]}

InlineAsks == Shared \union {[profile |-> "gpu"]}

TaskAsks ==
    Shared \union {[delay |-> {d}] : d \in {-1, 0, 5, 29, 9009, 9010}}
           \union {[run_at |-> {t}] : t \in {-20, 12}}
           \union {[delay |-> {5}, run_at |-> {5}], [timeout |-> {0}], [timeout |-> {15}],
                   [priority |-> 5, idempotency_key |-> {"k!"}], [priority |-> 5],
                   [idempotency_key |-> {"k!"}]}

JobAsks ==
    {x @@ [image |-> TRUE, command |-> TRUE] :
        x \in Shared \union {[timeout |-> {t}] : t \in {0, 4, 15}}
                     \union {[memory |-> {[n |-> m, unit |-> u]}] :
                                 m \in {1, 7, 1023}, u \in {"Mi", "M", "Ki"}}
                     \union {[memory |-> {[n |-> m, unit |-> u]}] :
                                 m \in {1, 4}, u \in {"Gi", "G"}}
                     \union {[memory |-> {[n |-> 2048, unit |-> "bytes"]}],
                             [cpu |-> {1500}, gpu |-> 1], [gpu_type |-> {"t4"}],
                             [parallelism |-> 3, env |-> TRUE], [parallelism |-> 0],
                             [env |-> TRUE], [queue |-> "x"]}}
        \union {Plain, [image |-> TRUE], [command |-> TRUE]}

KeywordsOf(kind) ==
    CASE kind = "inline" -> InlineAsks [] kind = "task" -> TaskAsks [] kind = "job" -> JobAsks

OneAdapter(a, options) ==
    Setup("given", Config([n \in {"a"} |-> [factory |-> a, options |-> options]], <<>>,
                          [k \in {Kind(a)} |-> "a"], 1), {}, NoFunction,
          {Say(Kind(a), x, {}, surface) : x \in KeywordsOf(Kind(a)), surface \in {"sync", "async"}},
          1, 0, 1, 1)

EveryAdapter == {OneAdapter(a, Needs(a) \union NeedsToSubmit(a)) : a \in Adapters}

\* an option is missing, when the backend is built or when it is first used
Incomplete == {OneAdapter(a, Needs(a)) : a \in {"celery", "procrastinate", "batch"}}
                  \union {OneAdapter("sqs", {})}

-----------------------------------------------------------------------------
Entry(factory, backend, options, keys) ==
    [factory |-> factory, backend |-> backend, options |-> options, keys |-> keys]

Rule(backend, kind, queue, profile, labels, unknown) ==
    [backend |-> backend, kind |-> kind, queue |-> queue, profile |-> profile,
     name |-> {}, labels |-> labels, unknown |-> unknown]

Source(backends, routes, defaults, tracked, malformed) ==
    [backends |-> backends, routes |-> routes, defaults |-> defaults, tracked |-> tracked,
     malformed |-> malformed, set |-> {"backends", "routes", "defaults"}]

TwoEntries ==
    ("a" :> Entry({"fake"}, {}, {}, {})) @@
    ("b" :> Entry({}, {"sqs"}, {{"queue_url"}}, {})) @@
    ("j" :> Entry({"kubernetes"}, {}, {}, {}))

Media == {"media-a", "media-b"}

Sources ==
    {Source(TwoEntries, routes, defaults, tracked, {}) :
        routes \in {<<>>,
                    <<Rule({"b"}, {"task"}, {Media}, {}, {}, {}), Rule({"a"}, {}, {}, {}, {}, {})>>,
                    <<Rule({"j"}, {}, {}, {{"gpu"}}, {}, {}), Rule({"a"}, {"task"}, {}, {}, {"l"}, {})>>,
                    <<Rule({"z"}, {"task"}, {Media}, {}, {}, {})>>,
                    <<Rule({"a"}, {"tusk"}, {}, {}, {}, {})>>,
                    <<Rule({"a"}, {}, {}, {}, {}, {"priority"})>>},
        defaults \in {NoFunction, [task |-> "b", job |-> "j"], [task |-> "z"]},
        tracked \in {{}, {0}, {-1}}}
        \union
    {Source(("a" :> raw), <<>>, [task |-> "a"], {}, {}) :
        raw \in {Entry({"celery"}, {"b"}, {}, {"app"}), Entry({"celery"}, {}, {{}}, {"app"}),
                 Entry({}, {}, {}, {"app"}), Entry({"broken"}, {}, {}, {}),
                 Entry({"nowhere"}, {}, {}, {}), Entry({"pkg:inline"}, {}, {}, {})}}
        \union
    {Source(TwoEntries, <<>>, [task |-> "a"], {}, m) : m \in {{"routes"}, {"tracked"}}}
        \union
    {[Source(NoFunction, <<>>, NoFunction, {0}, m) EXCEPT !.set = {}] : m \in {{}, {"tracked"}}}

NoSource == [Source(NoFunction, <<>>, NoFunction, {}, {}) EXCEPT !.set = {}]

RoutedAsks ==
    {Say("task", x, {}, "sync") : x \in {Plain, [queue |-> "media-a"], [labels |-> {"l"}]}}
        \union {Say("task", Plain, {b}, "sync") : b \in {"b", "z", "thread"}}
        \union {Say("job", x, {}, "sync") : x \in {[image |-> TRUE], [image |-> TRUE, profile |-> "gpu"]}}
        \union {Say("inline", Plain, {}, "async")}

Routed ==
    {Setup(loader, source, {}, NoFunction, RoutedAsks, 1, 0, 1, 1) :
        loader \in {"mapping", "env"}, source \in Sources}
        \union
    {Setup("local", NoSource, {}, NoFunction, RoutedAsks, 1, 0, 1, 2)}
        \union
    {Setup("local", NoSource, {[routes |-> <<>>, defaults |-> [task |-> "z"]]}, NoFunction,
           RoutedAsks, 1, 0, 1, 1)}

MCDeployments ==
    {Race(1, 2, 2), Race(2, 1, 3), Shadowed} \union EveryAdapter \union Incomplete \union Routed
=============================================================================
