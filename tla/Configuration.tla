--------------------------- MODULE Configuration ---------------------------
(***************************************************************************)
(* Configuration, routing and plugins: taskferry/config.py,                 *)
(* taskferry/router.py and taskferry/plugins.py.                            *)
(*                                                                         *)
(* What may be missing or fail is a set of at most one value: Load of a     *)
(* source is the set of its configuration, empty for ConfigurationError,    *)
(* and a criterion of a route is {} for None or {the values its glob        *)
(* matches}.  Options are the set of their names.                           *)
(***************************************************************************)
EXTENDS Adapters

CONSTANTS Registered,  \* register_backend: factory name -> adapter
          Installed,   \* entry points: name -> {adapter}, {} when it fails to load
          Importable   \* "module:callable" strings -> adapter

\* a factory makes a backend of the package
ASSUME FactoryAssumption ==
    /\ \A f \in DOMAIN Registered : Registered[f] \in Adapters
    /\ \A f \in DOMAIN Installed : Installed[f] \subseteq Adapters
    /\ \A f \in DOMAIN Importable : Importable[f] \in Adapters

\* DEFAULT_BACKENDS
Builtin == [inline |-> "inline", thread |-> "thread", process |-> "process",
            subprocess |-> "subprocess"]

\* resolve_factory: the first of the four sources that knows the name decides,
\* a plugin that does not load included
ResolveFactory(f) ==
    IF f \in DOMAIN Registered THEN {Registered[f]}
    ELSE IF f \in DOMAIN Installed THEN Installed[f]
    ELSE IF f \in DOMAIN Builtin THEN {Builtin[f]}
    ELSE IF f \in DOMAIN Importable THEN {Importable[f]} ELSE {}

\* build_backend: the adapter, unless its constructor refuses the options
BuildBackend(definition) ==
    {a \in ResolveFactory(definition.factory) : Needs(a) \subseteq definition.options}

-----------------------------------------------------------------------------
\* BackendConfig.from_mapping of [factory, backend, options, keys]: the two
\* names of the factory (each a set), the 'options' mapping (a set), and the
\* other keys.  A 'backend' beside a 'factory' is one of the other keys.

Rest(raw) == raw.keys \union (IF raw.factory # {} /\ raw.backend # {} THEN {"backend"} ELSE {})

FromMapping(raw) ==
    {[factory |-> f, options |-> IF raw.options = {} THEN Rest(raw) ELSE UNION raw.options] :
        f \in IF raw.options # {} /\ Rest(raw) # {} THEN {}
              ELSE IF raw.factory # {} THEN raw.factory ELSE raw.backend}

\* _parse_kind
ParseKind(kind) == kind \intersect Kinds

\* _route_from_mapping
RouteFromMapping(raw) ==
    {[backend |-> b, kind |-> ParseKind(raw.kind), queue |-> raw.queue,
      profile |-> raw.profile, name |-> raw.name, labels |-> raw.labels] :
        b \in IF raw.kind \subseteq Kinds /\ raw.unknown = {} THEN raw.backend ELSE {}}

Config(backends, routes, defaults, tracked) ==
    [backends |-> backends, routes |-> routes, defaults |-> defaults,
     max_tracked_executions |-> tracked]

\* _validate_references: what is defined here, not what is injected, may be named
ValidateReferences(config) ==
    /\ \A i \in DOMAIN config.routes : config.routes[i].backend \in DOMAIN config.backends
    /\ \A kind \in DOMAIN config.defaults : config.defaults[kind] \in DOMAIN config.backends

Checked(config) ==
    {c \in {config} : c.max_tracked_executions >= 0 /\ ValidateReferences(c)}

\* TaskferryConfig.local
LocalConfig(tracked) ==
    Config([n \in {"inline", "thread", "subprocess"} |-> [factory |-> n, options |-> {}]],
           <<>>, [inline |-> "inline", task |-> "thread", job |-> "subprocess"], tracked)

The(S) == CHOOSE x \in S : TRUE

\* TaskferryConfig.from_mapping; tracked is the default without the key
LoadMapping(data, tracked) ==
    IF \/ \E n \in DOMAIN data.backends : FromMapping(data.backends[n]) = {}
       \/ \E i \in DOMAIN data.routes : RouteFromMapping(data.routes[i]) = {}
       \/ ~(DOMAIN data.defaults \subseteq Kinds)
    THEN {}
    ELSE Checked(Config([n \in DOMAIN data.backends |-> The(FromMapping(data.backends[n]))],
                        [i \in DOMAIN data.routes |-> The(RouteFromMapping(data.routes[i]))],
                        data.defaults,
                        IF data.tracked = {} THEN tracked ELSE The(data.tracked)))

\* _json_env: a structural variable that is not the JSON it should be
MalformedJson(data) == data.malformed \intersect {"backends", "routes"} # {}

\* _int_env
MalformedInt(data) == "tracked" \in data.malformed

\* TaskferryConfig.from_env, data with the names of the structural variables
\* that are set: without one it is local(), whatever the scalars say
LoadEnv(data, tracked) ==
    IF MalformedJson(data) THEN {}
    ELSE IF data.set = {} THEN {LocalConfig(tracked)}
    ELSE IF MalformedInt(data) THEN {} ELSE LoadMapping(data, tracked)

-----------------------------------------------------------------------------
\* Route.matches
Matches(route, s) ==
    /\ route.kind # {} => s.kind \in route.kind
    /\ \A glob \in route.queue : s.queue \in glob
    /\ \A glob \in route.profile : s.profile \in glob
    /\ \A glob \in route.name : s.name \in glob
    /\ route.labels \subseteq s.labels

\* Router.resolve: the first rule that matches, else the default of the kind,
\* else RoutingError
Resolve(config, s) ==
    LET rules == {i \in DOMAIN config.routes : Matches(config.routes[i], s)}
    IN  IF rules # {}
        THEN {config.routes[i].backend : i \in {j \in rules : \A k \in rules : j <= k}}
        ELSE {config.defaults[kind] : kind \in DOMAIN config.defaults \intersect {s.kind}}
=============================================================================
