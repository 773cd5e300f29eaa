---------------------------- MODULE RuntimeProofs ----------------------------
(***************************************************************************)
(* Proofs about the runtime (Runtime) under the submissions of Submission,  *)
(* for any number of callers, names, executions and closes, any index limit *)
(* and any deployment: no instance of a backend is lost between a build and *)
(* a close; the index from ids to backends is true, bounded and complete;   *)
(* what an engine has accepted says all that the spec asks of it; and every *)
(* hook that listens hears of a submission once, in order.                  *)
(***************************************************************************)
EXTENDS Submission, TLAPS, FiniteSetTheorems, SequenceTheorems

\* The configuration is the one that was loaded.
SetupInv ==
    /\ deployment \in Deployments
    /\ config \in Load(deployment)
    /\ closes <= deployment.closes

\* A name is built anew only after a close.
CacheInv ==
    \A n \in Names :
        /\ builds[n] <= closes + (IF instances[n] = 0 THEN 0 ELSE 1)
        /\ instances[n] <= builds[n]

\* What a close has still to do it has taken out of use.
CloseInv(c) ==
    /\ pc[c] # "close" => todo[c] = {}
    /\ \A i \in todo[c] : i[2] <= builds[i[1]] /\ i[2] # instances[i[1]]

\* A submission that no close has overlapped is of the instance in use.
SubmitInv(c) ==
    /\ pc[c] \in {"submit", "track"} =>
           /\ target[c] \in Instance
           /\ c \notin raced => instances[target[c][1]] = target[c][2]
    /\ pc[c] = "track" =>
           /\ at[c] \in Executions \ returned
           /\ owner[at[c]] = target[c][1]
           /\ c \notin raced => holder[at[c]] = target[c]
    /\ pc[c] = "lookup" => at[c] \in returned

\* An execution is tracked by the one submission that has started it.
TrackInv ==
    \A c, d \in Callers : pc[c] = "track" /\ pc[d] = "track" /\ at[c] = at[d] => c = d

\* The instance of an id in the index is still in use.
IndexInv ==
    /\ ToSet(index) \subseteq returned
    /\ \A e \in returned : owner[e] # None
    /\ \A e \in ToSet(index) \ strays :
           /\ instances[owner[e]] # 0
           /\ holder[e] = <<owner[e], instances[owner[e]]>>

IInv ==
    /\ TypeOK
    /\ SetupInv
    /\ CacheInv
    /\ \A c \in Callers : CloseInv(c) /\ SubmitInv(c)
    /\ TrackInv
    /\ NoInstanceIsLost
    /\ IndexInv
    /\ IndexKeepsLatest

-----------------------------------------------------------------------------
(* The bounded index: what _track does to a sequence of ids. *)

\* Remember puts a new key at the end of an index within its limit, and keeps
\* the latest keys: all of them while there is room.
LEMMA RememberNew ==
    ASSUME NEW S, NEW order \in Seq(S), NEW key \in S, NEW limit \in Nat,
           key \notin ToSet(order), IsInjective(order), Len(order) <= limit
    PROVE  LET kept == Remember(order, key, limit)
           IN  /\ kept \in Seq(S) /\ IsInjective(kept) /\ Len(kept) <= limit
               /\ ToSet(kept) \subseteq ToSet(order) \union {key}
               /\ \/ ToSet(kept) = ToSet(order) \union {key}
                  \/ Len(kept) = limit
               /\ Len(kept) >= Len(order)
<1> DEFINE longer == Append(order, key)
           kept == Remember(order, key, limit)
           n == Len(order)
<1>1. Touch(order, key) = longer
  BY DEF Touch
<1>2. /\ longer \in Seq(S) /\ Len(longer) = n + 1 /\ n \in Nat
      /\ \A i \in 1 .. n : longer[i] = order[i]
      /\ longer[n + 1] = key
  OBVIOUS
<1>3. /\ \A i, j \in 1 .. n : order[i] = order[j] => i = j
      /\ \A i \in 1 .. n : order[i] # key
  BY DEF IsInjective, ToSet
<1>4. \A i, j \in 1 .. n + 1 : longer[i] = longer[j] => i = j
  <2> SUFFICES ASSUME NEW i \in 1 .. n + 1, NEW j \in 1 .. n + 1, longer[i] = longer[j]
               PROVE i = j
    OBVIOUS
  <2>1. i \in 1 .. n \/ i = n + 1
    BY <1>2
  <2>2. j \in 1 .. n \/ j = n + 1
    BY <1>2
  <2> HIDE DEF longer
  <2> QED BY <1>2, <1>3, <2>1, <2>2
<1>5. \A k : k \in ToSet(longer) <=> k \in ToSet(order) \/ k = key
  <2>1. DOMAIN longer = 1 .. n + 1 /\ DOMAIN order = 1 .. n
    BY <1>2
  <2> HIDE DEF longer
  <2> QED BY <1>2, <2>1 DEF ToSet
<1> HIDE DEF longer
<1>6. CASE limit = 0
  BY <1>6 DEF Remember
<1>7. CASE limit # 0 /\ n + 1 <= limit
  <2>1. kept = longer
    BY <1>1, <1>2, <1>7 DEF Remember, Evict
  <2>2. IsInjective(longer)
    BY <1>2, <1>4 DEF IsInjective
  <2>3. ToSet(longer) = ToSet(order) \union {key}
    BY <1>5
  <2> QED BY <1>2, <1>7, <2>1, <2>2, <2>3
<1>8. CASE limit # 0 /\ n + 1 > limit
  <2>1. n = limit
    BY <1>2, <1>8
  <2>2. kept = SubSeq(longer, 2, n + 1)
    BY <1>1, <1>2, <1>8, <2>1 DEF Remember, Evict
  <2>3. /\ kept \in Seq(S) /\ Len(kept) = n
        /\ \A i \in 1 .. n : kept[i] = longer[i + 1]
    BY <1>2, <1>8, <2>1, <2>2
  <2> HIDE DEF kept
  <2>4. IsInjective(kept)
    <3> SUFFICES ASSUME NEW i \in 1 .. n, NEW j \in 1 .. n, kept[i] = kept[j] PROVE i = j
      BY <2>3 DEF IsInjective
    <3>1. i + 1 \in 1 .. n + 1 /\ j + 1 \in 1 .. n + 1 /\ longer[i + 1] = longer[j + 1]
      BY <1>2, <2>3
    <3>2. i + 1 = j + 1
      BY <1>4, <3>1
    <3> QED BY <1>2, <3>2
  <2>5. ToSet(kept) \subseteq ToSet(order) \union {key}
    <3>1. \A i \in 1 .. n : kept[i] \in ToSet(longer)
      <4>1. \A i \in 1 .. n + 1 : longer[i] \in ToSet(longer)
        BY <1>2 DEF ToSet
      <4> QED BY <1>2, <2>3, <4>1
    <3>2. ToSet(kept) \subseteq ToSet(longer)
      BY <2>3, <3>1 DEF ToSet
    <3> QED BY <1>5, <3>2
  <2> QED BY <1>2, <2>1, <2>3, <2>4, <2>5 DEF kept
<1> QED BY <1>2, <1>6, <1>7, <1>8

-----------------------------------------------------------------------------
(* The configuration and the names it leads to. *)

LEMMA LimitType == SetupInv => Limit \in Nat
<1> SUFFICES ASSUME SetupInv PROVE config.max_tracked_executions \in Nat
  BY DEF Limit
<1>1. /\ deployment.loader \in {"local", "mapping", "env", "given"}
      /\ deployment.tracked \in Nat
      /\ config.max_tracked_executions \in Int
      /\ config \in Load(deployment)
  BY SubmissionAssumption DEF SetupInv, Within
<1>2. \A c : config \in Checked(c) => config.max_tracked_executions >= 0
  BY DEF Checked
<1>3. config = LocalConfig(deployment.tracked) => config.max_tracked_executions = deployment.tracked
  BY DEF LocalConfig, Config
<1>4. config \in LoadMapping(deployment.source, deployment.tracked) =>
         config.max_tracked_executions >= 0
  BY <1>2 DEF LoadMapping
<1>5. config \in LoadEnv(deployment.source, deployment.tracked) =>
         config.max_tracked_executions \in Nat
  BY <1>1, <1>3, <1>4 DEF LoadEnv
<1> QED BY <1>1, <1>2, <1>3, <1>4, <1>5 DEF Load

LEMMA RouteType ==
    ASSUME SetupInv, NEW ask \in deployment.asks, NEW s
    PROVE  Route(ask, s) \subseteq Names
<1>1. ask.backend \subseteq Names
  BY SubmissionAssumption DEF SetupInv, Within
<1>2. \A r \in {config} \union deployment.router :
         /\ \A i \in DOMAIN r.routes : r.routes[i].backend \in Names
         /\ \A kind \in DOMAIN r.defaults : r.defaults[kind] \in Names
  BY SubmissionAssumption DEF SetupInv, Within
<1>3. Router \in {config} \union deployment.router
  BY DEF Router, The
<1>4. Resolve(Router, s) \subseteq Names
  BY <1>2, <1>3 DEF Resolve
<1> QED BY <1>1, <1>4 DEF Route

LEMMA ClosesType == SetupInv => deployment.closes \in 0 .. MaxCloses
  BY SubmissionAssumption DEF SetupInv, Within

-----------------------------------------------------------------------------
\* A runtime that has just been constructed.
LEMMA InitInv == Init => IInv
<1> SUFFICES ASSUME Init PROVE IInv
  OBVIOUS
<1>1. deployment \in Deployments /\ config \in Load(deployment) /\ closes = 0
      /\ index = <<>> /\ returned = {} /\ strays = {}
      /\ instances \in [Names -> {0, 1}] /\ builds = instances
  BY DEF Init, RuntimeInit
<1>2. SetupInv
  <2>1. deployment.closes \in 0 .. MaxCloses
    BY <1>1, SubmissionAssumption DEF Within
  <2> QED BY <1>1, <2>1, RuntimeAssumption DEF SetupInv
<1>3. TypeOK
  <2>1. <<>> \in Seq(Executions)
    OBVIOUS
  <2>2. instances \in [Names -> 0 .. MaxCloses + 1]
    BY <1>1, RuntimeAssumption
  <2> QED BY <1>1, <2>1, <2>2, RuntimeAssumption DEF Init, RuntimeInit, TypeOK
<1>4. CacheInv /\ TrackInv /\ \A c \in Callers : CloseInv(c) /\ SubmitInv(c)
  BY <1>1 DEF Init, RuntimeInit, CacheInv, TrackInv, CloseInv, SubmitInv
<1>5. NoInstanceIsLost
  BY <1>1, RuntimeAssumption DEF NoInstanceIsLost
<1>6. ToSet(index) = {} /\ IsInjective(index) /\ Len(index) = 0
  BY <1>1 DEF ToSet, IsInjective
<1>7. IndexInv /\ IndexKeepsLatest
  BY <1>1, <1>2, <1>6, LimitType
     DEF IndexInv, IndexKeepsLatest, IndexIsBounded, TrackedUntilEvicted
<1> QED BY <1>2, <1>3, <1>4, <1>5, <1>7 DEF IInv

-----------------------------------------------------------------------------
(* Steps. *)

\* backend(name) builds an instance.
Builds(n) ==
    /\ instances[n] = 0
    /\ builds' = [builds EXCEPT ![n] = @ + 1]
    /\ instances' = [instances EXCEPT ![n] = builds[n] + 1]

LEMMA BackendBuilds ==
    ASSUME IInv, NEW c \in Callers, NEW n \in Names, Backend(c, n)
    PROVE  /\ UNCHANGED cache \/ Builds(n)
           /\ target' = [target EXCEPT ![c] = <<n, instances'[n]>>]
           /\ instances'[n] # 0
<1>1. instances \in [Names -> 0 .. MaxCloses + 1] /\ builds \in [Names -> 0 .. MaxCloses + 1]
  BY DEF IInv, TypeOK
<1>2. CASE instances[n] # 0
  BY <1>2 DEF Backend, cache
<1>3. CASE instances[n] = 0
  BY <1>1, <1>3, RuntimeAssumption DEF Backend, Builds
<1> QED BY <1>2, <1>3

\* What a build leaves true: only names without an instance get one, and its
\* number is new.
LEMMA CacheStep ==
    ASSUME IInv, UNCHANGED cache \/ \E n \in Names : Builds(n),
           UNCHANGED <<deployment, config, index, owner, holder, returned, closed, todo,
                       strays, closes, dropped>>
    PROVE  /\ instances' \in [Names -> 0 .. MaxCloses + 1]
           /\ builds' \in [Names -> 0 .. MaxCloses + 1]
           /\ \A n \in Names : instances[n] # 0 => instances'[n] = instances[n]
           /\ \A n \in Names : builds'[n] >= builds[n]
           /\ \A n \in Names : instances'[n] \in {instances[n], builds[n] + 1}
           /\ SetupInv' /\ CacheInv' /\ NoInstanceIsLost' /\ IndexInv' /\ IndexKeepsLatest'
<1>1. /\ instances \in [Names -> 0 .. MaxCloses + 1] /\ builds \in [Names -> 0 .. MaxCloses + 1]
      /\ closes \in 0 .. MaxCloses /\ CacheInv /\ MaxCloses \in Nat
      /\ owner \in [Executions -> Names \union {None}] /\ returned \subseteq Executions
  BY RuntimeAssumption DEF IInv, TypeOK
<1>2. \A n \in Names :
         \/ builds'[n] = builds[n] /\ instances'[n] = instances[n]
         \/ builds'[n] = builds[n] + 1 /\ instances[n] = 0 /\ instances'[n] = builds[n] + 1
            /\ builds[n] <= closes
  BY <1>1 DEF cache, Builds, CacheInv
<1>3. /\ instances' \in [Names -> 0 .. MaxCloses + 1]
      /\ builds' \in [Names -> 0 .. MaxCloses + 1]
  <2>1. DOMAIN instances' = Names /\ DOMAIN builds' = Names
        /\ instances' = [n \in Names |-> instances'[n]] /\ builds' = [n \in Names |-> builds'[n]]
    BY <1>1 DEF cache, Builds
  <2> QED BY <1>1, <1>2, <2>1
<1>4. SetupInv' /\ CacheInv'
  BY <1>1, <1>2 DEF IInv, SetupInv, CacheInv
<1>5. NoInstanceIsLost'
  <2> SUFFICES ASSUME NEW n \in Names, NEW k \in 1 .. MaxCloses + 1, k <= builds'[n]
               PROVE \/ instances'[n] = k
                     \/ <<n, k>> \in closed
                     \/ <<n, k>> \in dropped
                     \/ \E c \in Callers : <<n, k>> \in todo[c]
    BY Zenon DEF NoInstanceIsLost
  <2>1. CASE k <= builds[n]
    <3>1. \/ instances[n] = k
          \/ <<n, k>> \in closed
          \/ <<n, k>> \in dropped
          \/ \E c \in Callers : <<n, k>> \in todo[c]
      BY <2>1 DEF IInv, NoInstanceIsLost
    <3>2. instances[n] = k => instances'[n] = k
      BY <1>1, <1>2
    <3> QED BY <3>1, <3>2
  <2>2. CASE k > builds[n]
    BY <1>1, <1>2, <2>2
  <2> QED BY <1>1, <2>1, <2>2
<1>6. IndexInv' /\ IndexKeepsLatest'
  <2>1. \A e \in ToSet(index) : e \in Executions /\ owner[e] \in Names
    BY <1>1 DEF IInv, IndexInv
  <2>2. IndexInv'
    BY <1>2, <2>1 DEF IInv, IndexInv
  <2>3. IndexKeepsLatest'
    BY DEF IInv, IndexKeepsLatest, IndexIsBounded, TrackedUntilEvicted, Limit
  <2> QED BY <2>2, <2>3
<1> QED BY <1>1, <1>2, <1>3, <1>4, <1>5, <1>6

\* A step of one caller that touches the cache at most to build an instance.
LEMMA CallerStep ==
    ASSUME IInv, NEW c \in Callers, UNCHANGED cache \/ \E n \in Names : Builds(n),
           UNCHANGED <<deployment, config, index, owner, holder, returned, closed, todo,
                       strays, closes, dropped>>,
           pc' \in [Callers -> {"idle", "submit", "refused", "track", "lookup", "get", "close"}],
           at' \in [Callers -> Executions \union {None}],
           target' \in [Callers -> Instance \union {NoInstance}],
           answer' \in [Callers -> {None, "ConfigurationError", "refused", "submitted",
                                    "unknown", "found", "notfound", "closed", "failed"}],
           raced' \in {raced, raced \ {c}},
           \A d \in Callers \ {c} : pc'[d] = pc[d] /\ at'[d] = at[d] /\ target'[d] = target[d],
           pc'[c] # "track",
           pc'[c] # "close" => todo[c] = {},
           SubmitInv(c)'
    PROVE  IInv'
<1>1. /\ instances' \in [Names -> 0 .. MaxCloses + 1]
      /\ builds' \in [Names -> 0 .. MaxCloses + 1]
      /\ \A n \in Names : instances[n] # 0 => instances'[n] = instances[n]
      /\ \A n \in Names : builds'[n] >= builds[n]
      /\ \A n \in Names : instances'[n] \in {instances[n], builds[n] + 1}
      /\ SetupInv' /\ CacheInv' /\ NoInstanceIsLost' /\ IndexInv' /\ IndexKeepsLatest'
  BY CacheStep
<1>2. TypeOK'
  BY <1>1 DEF IInv, TypeOK
<1>3. \A d \in Callers : CloseInv(d)'
  <2> SUFFICES ASSUME NEW d \in Callers PROVE CloseInv(d)'
    OBVIOUS
  <2>1. pc'[d] # "close" => todo'[d] = {}
    BY DEF IInv, CloseInv
  <2>2. ASSUME NEW i \in todo[d] PROVE i[2] <= builds'[i[1]] /\ i[2] # instances'[i[1]]
    <3>1. i \in Instance
      BY DEF IInv, TypeOK
    <3>2. i[1] \in Names /\ i[2] \in Nat
      BY <3>1, RuntimeAssumption DEF Instance
    <3>3. i[2] <= builds[i[1]] /\ i[2] # instances[i[1]]
      BY DEF IInv, CloseInv
    <3>4. builds[i[1]] \in Nat /\ builds'[i[1]] \in Nat
      BY <1>1, <3>2, RuntimeAssumption DEF IInv, TypeOK
    <3> QED BY <1>1, <3>2, <3>3, <3>4
  <2> QED BY <2>1, <2>2 DEF CloseInv
<1>4. ASSUME NEW d \in Callers PROVE SubmitInv(d)'
  <2>1. CASE d # c
    <3>1. SubmitInv(d) /\ (d \in raced <=> d \in raced')
      BY <2>1 DEF IInv
    <3>2. target[d] \in Instance => target[d][1] \in Names /\ target[d][2] # 0
      BY RuntimeAssumption DEF Instance
    <3> QED BY <1>1, <2>1, <3>1, <3>2 DEF SubmitInv
  <2> QED BY <2>1
<1>5. TrackInv'
  BY DEF IInv, TrackInv
<1> QED BY <1>1, <1>2, <1>3, <1>4, <1>5 DEF IInv

\* Prepare and PrepareMismatch: a backend is found or built for a submission.
LEMMA PrepareStep ==
    ASSUME IInv, NEW c \in Callers, NEW n \in Names, Prepare(c, n) \/ PrepareMismatch(c, n)
    PROVE  IInv'
<1>1. /\ UNCHANGED cache \/ Builds(n)
      /\ target' = [target EXCEPT ![c] = <<n, instances'[n]>>]
      /\ instances'[n] # 0
  BY BackendBuilds DEF Prepare, PrepareMismatch
<1>2. /\ UNCHANGED <<deployment, config, index, owner, holder, returned, closed, todo,
                     strays, closes, dropped, at, raced>>
      /\ pc[c] = "idle" /\ answer' = [answer EXCEPT ![c] = None]
      /\ \E label \in {"submit", "refused"} : pc' = [pc EXCEPT ![c] = label]
  BY DEF Prepare, PrepareMismatch, Goto, setup, records
<1>3. <<n, instances'[n]>> \in Instance
  <2>1. instances' \in [Names -> 0 .. MaxCloses + 1]
    BY <1>1, <1>2, CacheStep
  <2> QED BY <1>1, <2>1, RuntimeAssumption DEF Instance
<1>4. /\ pc' \in [Callers -> {"idle", "submit", "refused", "track", "lookup", "get", "close"}]
      /\ target' \in [Callers -> Instance \union {NoInstance}]
      /\ at' \in [Callers -> Executions \union {None}]
      /\ answer' \in [Callers -> {None, "ConfigurationError", "refused", "submitted",
                                  "unknown", "found", "notfound", "closed", "failed"}]
  BY <1>1, <1>2, <1>3 DEF IInv, TypeOK
<1>5. /\ pc'[c] \in {"submit", "refused"}
      /\ target'[c] = <<n, instances'[n]>>
      /\ \A d \in Callers \ {c} : pc'[d] = pc[d] /\ target'[d] = target[d]
  BY <1>1, <1>2 DEF IInv, TypeOK
<1>6. SubmitInv(c)'
  BY <1>3, <1>5 DEF SubmitInv
<1>7. todo[c] = {}
  BY <1>2 DEF IInv, CloseInv
<1> QED BY <1>1, <1>2, <1>4, <1>5, <1>6, <1>7, CallerStep

\* A call ends, or goes on, without anything but its own position.
LEMMA EndStep ==
    ASSUME IInv, NEW c \in Callers,
           \/ PrepareRaises(c) \/ TargetRefuses(c) \/ Refuse(c) \/ TargetGet(c)
           \/ CloseReturns(c) \/ \E e \in Executions : OwnerOf(c, e)
    PROVE  IInv'
<1>1. UNCHANGED <<deployment, config, instances, builds, index, owner, holder, returned, closed,
                  todo, strays, closes, dropped>>
  BY DEF PrepareRaises, TargetRefuses, Refuse, TargetGet, CloseReturns, OwnerOf,
         setup, cache, records, ghosts
<1>2. /\ \E label \in {"idle", "refused", "lookup"} : pc' = [pc EXCEPT ![c] = label]
      /\ UNCHANGED at \/ \E e \in Executions \union {None} : at' = [at EXCEPT ![c] = e]
      /\ UNCHANGED target \/ target' = [target EXCEPT ![c] = NoInstance]
      /\ raced' \in {raced, raced \ {c}}
      /\ UNCHANGED answer \/ \E how \in {None, "refused", "unknown", "found", "notfound", "closed"} :
                                answer' = [answer EXCEPT ![c] = how]
  BY DEF PrepareRaises, TargetRefuses, Refuse, TargetGet, CloseReturns, OwnerOf, End, Goto, ghosts
<1>3. /\ pc' \in [Callers -> {"idle", "submit", "refused", "track", "lookup", "get", "close"}]
      /\ target' \in [Callers -> Instance \union {NoInstance}]
      /\ at' \in [Callers -> Executions \union {None}]
      /\ answer' \in [Callers -> {None, "ConfigurationError", "refused", "submitted",
                                  "unknown", "found", "notfound", "closed", "failed"}]
      /\ \A d \in Callers \ {c} : pc'[d] = pc[d] /\ at'[d] = at[d] /\ target'[d] = target[d]
      /\ pc'[c] \in {"idle", "refused", "lookup"}
  <2>1. /\ pc' \in [Callers -> {"idle", "submit", "refused", "track", "lookup", "get", "close"}]
        /\ pc'[c] \in {"idle", "refused", "lookup"}
        /\ \A d \in Callers \ {c} : pc'[d] = pc[d]
    BY <1>2 DEF IInv, TypeOK
  <2>2. /\ target' \in [Callers -> Instance \union {NoInstance}]
        /\ \A d \in Callers \ {c} : target'[d] = target[d]
    BY <1>2 DEF IInv, TypeOK
  <2>3. /\ at' \in [Callers -> Executions \union {None}]
        /\ \A d \in Callers \ {c} : at'[d] = at[d]
    BY <1>2 DEF IInv, TypeOK
  <2>4. answer' \in [Callers -> {None, "ConfigurationError", "refused", "submitted",
                                 "unknown", "found", "notfound", "closed", "failed"}]
    BY <1>2 DEF IInv, TypeOK
  <2> QED BY <2>1, <2>2, <2>3, <2>4
<1>4. todo[c] = {}
  BY DEF IInv, CloseInv, PrepareRaises, TargetRefuses, Refuse, TargetGet, CloseReturns, OwnerOf
<1>5. pc'[c] = "lookup" => at'[c] \in returned
  BY <1>3 DEF IInv, TypeOK, PrepareRaises, TargetRefuses, Refuse, TargetGet, CloseReturns, OwnerOf,
              End, Goto
<1>6. SubmitInv(c)'
  BY <1>1, <1>3, <1>5 DEF SubmitInv
<1> QED BY <1>1, <1>2, <1>3, <1>4, <1>6, CallerStep DEF cache

\* The backend of a known execution is found, or built anew after a close.
LEMMA OwnerBackendStep ==
    ASSUME IInv, NEW c \in Callers, OwnerBackend(c)
    PROVE  IInv'
<1> DEFINE n == owner[at[c]]
<1>1. /\ UNCHANGED <<deployment, config, index, owner, holder, returned, closed, todo,
                     strays, closes, dropped>>
      /\ pc[c] = "lookup" /\ todo[c] = {}
  BY DEF OwnerBackend, setup, records, IInv, CloseInv
<1>2. n \in Names
  BY <1>1 DEF IInv, TypeOK, SubmitInv, IndexInv
<1>3. CASE Backend(c, n) /\ Goto(c, "get") /\ UNCHANGED <<at, answer, raced>>
  <2>1. /\ UNCHANGED cache \/ \E m \in Names : Builds(m)
        /\ target' = [target EXCEPT ![c] = <<n, instances'[n]>>]
        /\ instances'[n] # 0
    BY <1>2, <1>3, BackendBuilds
  <2>2. <<n, instances'[n]>> \in Instance
    <3>1. instances' \in [Names -> 0 .. MaxCloses + 1]
      BY <1>1, <2>1, CacheStep
    <3> QED BY <1>2, <2>1, <3>1, RuntimeAssumption DEF Instance
  <2> HIDE DEF n
  <2>3. /\ pc' \in [Callers -> {"idle", "submit", "refused", "track", "lookup", "get", "close"}]
        /\ target' \in [Callers -> Instance \union {NoInstance}]
        /\ at' \in [Callers -> Executions \union {None}]
        /\ answer' \in [Callers -> {None, "ConfigurationError", "refused", "submitted",
                                    "unknown", "found", "notfound", "closed", "failed"}]
        /\ \A d \in Callers \ {c} : pc'[d] = pc[d] /\ at'[d] = at[d] /\ target'[d] = target[d]
        /\ pc'[c] = "get"
    BY <1>3, <2>1, <2>2 DEF IInv, TypeOK, Goto
  <2>4. SubmitInv(c)'
    BY <2>3 DEF SubmitInv
  <2> QED BY <1>1, <1>3, <2>1, <2>3, <2>4, CallerStep
<1>4. CASE UNCHANGED cache /\ End(c, "ConfigurationError")
  <2>1. /\ pc' \in [Callers -> {"idle", "submit", "refused", "track", "lookup", "get", "close"}]
        /\ target' \in [Callers -> Instance \union {NoInstance}]
        /\ at' \in [Callers -> Executions \union {None}]
        /\ answer' \in [Callers -> {None, "ConfigurationError", "refused", "submitted",
                                    "unknown", "found", "notfound", "closed", "failed"}]
        /\ raced' = raced \ {c}
        /\ \A d \in Callers \ {c} : pc'[d] = pc[d] /\ at'[d] = at[d] /\ target'[d] = target[d]
        /\ pc'[c] = "idle"
    BY <1>4 DEF IInv, TypeOK, End, Goto
  <2>2. SubmitInv(c)'
    BY <2>1 DEF SubmitInv
  <2> QED BY <1>1, <1>4, <2>1, <2>2, CallerStep
<1> QED BY <1>3, <1>4 DEF OwnerBackend, NoBackend

\* The backend has the execution.
LEMMA TargetSubmitStep ==
    ASSUME IInv, NEW c \in Callers, NEW e \in Executions, TargetSubmit(c, e)
    PROVE  IInv'
<1>1. /\ UNCHANGED <<deployment, config, instances, builds, index, returned, closed, target, todo,
                     raced, strays, closes, dropped, answer>>
      /\ pc[c] = "submit" /\ pc' = [pc EXCEPT ![c] = "track"]
      /\ owner[e] = None
      /\ owner' = [owner EXCEPT ![e] = target[c][1]]
      /\ holder' = [holder EXCEPT ![e] = target[c]]
      /\ at' = [at EXCEPT ![c] = e]
  BY DEF TargetSubmit, Goto, setup, cache, ghosts
<1>2. target[c] \in Instance /\ target[c][1] \in Names
      /\ (c \notin raced => instances[target[c][1]] = target[c][2])
  BY <1>1 DEF IInv, SubmitInv, Instance
<1>3. e \notin returned /\ e \notin ToSet(index)
  BY <1>1 DEF IInv, IndexInv
<1>4. TypeOK'
  BY <1>1, <1>2 DEF IInv, TypeOK
<1>5. SetupInv' /\ CacheInv' /\ NoInstanceIsLost' /\ IndexKeepsLatest'
  BY <1>1 DEF IInv, SetupInv, CacheInv, NoInstanceIsLost, IndexKeepsLatest, IndexIsBounded,
              TrackedUntilEvicted, Limit
<1>6. /\ pc'[c] = "track" /\ at'[c] = e /\ owner'[e] = target[c][1] /\ holder'[e] = target[c]
      /\ \A d \in Callers \ {c} : pc'[d] = pc[d] /\ at'[d] = at[d]
      /\ \A x \in Executions \ {e} : owner'[x] = owner[x] /\ holder'[x] = holder[x]
  BY <1>1 DEF IInv, TypeOK
<1>7. ASSUME NEW d \in Callers, pc[d] = "track" PROVE at[d] \in Executions \ {e}
  <2>1. at[d] \in Executions /\ owner[at[d]] = target[d][1] /\ target[d] \in Instance
    BY <1>7 DEF IInv, SubmitInv
  <2>2. target[d][1] \in Names
    BY <2>1 DEF Instance
  <2> QED BY <1>1, <2>1, <2>2, RuntimeAssumption
<1>8. ASSUME NEW d \in Callers PROVE CloseInv(d)' /\ SubmitInv(d)'
  <2>1. CloseInv(d)'
    <3>1. CloseInv(d) /\ (pc[d] = "close" => pc'[d] = "close")
      BY <1>1, <1>6 DEF IInv
    <3> QED BY <1>1, <3>1 DEF CloseInv
  <2>2. ASSUME d = c PROVE SubmitInv(d)'
    <3>1. SubmitInv(c)'
      BY <1>1, <1>2, <1>3, <1>6 DEF SubmitInv
    <3> QED BY <2>2, <3>1 DEF SubmitInv
  <2>3. ASSUME d # c PROVE SubmitInv(d)'
    <3>1. SubmitInv(d) /\ pc'[d] = pc[d] /\ at'[d] = at[d]
      BY <1>6, <2>3 DEF IInv
    <3>2. CASE pc[d] = "track"
      <4>1. owner'[at[d]] = owner[at[d]] /\ holder'[at[d]] = holder[at[d]]
        BY <1>6, <1>7, <3>2
      <4> QED BY <1>1, <3>1, <3>2, <4>1 DEF SubmitInv
    <3>3. CASE pc[d] # "track"
      BY <1>1, <3>1, <3>3 DEF SubmitInv
    <3> QED BY <3>2, <3>3
  <2> QED BY <2>1, <2>2, <2>3
<1>9. TrackInv'
  BY <1>6, <1>7 DEF IInv, TrackInv
<1>10. IndexInv'
  <2>1. ToSet(index) \subseteq returned /\ returned \subseteq Executions
    BY DEF IInv, TypeOK, IndexInv
  <2>2. \A x \in returned : x \in Executions \ {e}
    BY <1>3, <2>1
  <2> QED BY <1>1, <1>6, <2>1, <2>2 DEF IInv, IndexInv
<1> QED BY <1>4, <1>5, <1>8, <1>9, <1>10 DEF IInv

\* The runtime tracks what it returns.
LEMMA TrackStep ==
    ASSUME IInv, NEW c \in Callers, Track(c)
    PROVE  IInv'
<1> DEFINE e == at[c]
<1>1. /\ UNCHANGED <<deployment, config, instances, builds, owner, holder, closed, todo,
                     closes, dropped>>
      /\ pc[c] = "track" /\ pc' = [pc EXCEPT ![c] = "idle"]
      /\ at' = [at EXCEPT ![c] = None] /\ target' = [target EXCEPT ![c] = NoInstance]
      /\ raced' = raced \ {c} /\ answer' = [answer EXCEPT ![c] = "submitted"]
      /\ index' = Remember(index, e, Limit) /\ returned' = returned \union {e}
      /\ strays' = IF c \in raced THEN strays \union {e} ELSE strays
  BY DEF Track, End, Goto, setup, cache, records
<1>2. /\ target[c] \in Instance /\ e \in Executions \ returned /\ owner[e] = target[c][1]
      /\ c \notin raced => instances[target[c][1]] = target[c][2] /\ holder[e] = target[c]
  BY <1>1 DEF IInv, SubmitInv
<1>3. target[c][1] \in Names /\ target[c][2] # 0 /\ target[c] = <<target[c][1], target[c][2]>>
  BY <1>2, RuntimeAssumption DEF Instance
<1>4. /\ Limit \in Nat /\ index \in Seq(Executions) /\ IsInjective(index) /\ Len(index) <= Limit
      /\ ToSet(index) \subseteq returned /\ e \notin ToSet(index)
  BY <1>2, LimitType DEF IInv, TypeOK, IndexInv, IndexKeepsLatest, IndexIsBounded
<1>5. /\ index' \in Seq(Executions) /\ IsInjective(index') /\ Len(index') <= Limit
      /\ ToSet(index') \subseteq ToSet(index) \union {e}
      /\ \/ ToSet(index') = ToSet(index) \union {e}
         \/ Len(index') = Limit
      /\ Len(index') >= Len(index)
  <2>1. e \in Executions
    BY <1>2
  <2> HIDE DEF e
  <2> QED BY <1>1, <1>4, <2>1, RememberNew
<1>6. Limit' = Limit
  BY <1>1 DEF Limit
<1> HIDE DEF e
<1>7. TypeOK'
  <2>1. pc' \in [Callers -> {"idle", "submit", "refused", "track", "lookup", "get", "close"}]
    BY <1>1 DEF IInv, TypeOK
  <2>2. at' \in [Callers -> Executions \union {None}]
        /\ target' \in [Callers -> Instance \union {NoInstance}]
    BY <1>1 DEF IInv, TypeOK
  <2>3. answer' \in [Callers -> {None, "ConfigurationError", "refused", "submitted",
                                 "unknown", "found", "notfound", "closed", "failed"}]
    BY <1>1 DEF IInv, TypeOK
  <2> QED BY <1>1, <1>2, <1>5, <2>1, <2>2, <2>3 DEF IInv, TypeOK
<1>8. SetupInv' /\ CacheInv' /\ NoInstanceIsLost'
  BY <1>1 DEF IInv, SetupInv, CacheInv, NoInstanceIsLost
<1>9. \A d \in Callers \ {c} : pc'[d] = pc[d] /\ at'[d] = at[d] /\ target'[d] = target[d]
  BY <1>1 DEF IInv, TypeOK
<1>10. pc'[c] = "idle"
  BY <1>1 DEF IInv, TypeOK
<1>11. ASSUME NEW d \in Callers PROVE CloseInv(d)' /\ SubmitInv(d)'
  <2>1. CASE d = c
    <3>1. todo[c] = {}
      BY <1>1 DEF IInv, CloseInv
    <3> QED BY <1>1, <1>10, <2>1, <3>1 DEF CloseInv, SubmitInv
  <2>2. CASE d # c
    <3>1. CloseInv(d) /\ SubmitInv(d) /\ pc'[d] = pc[d] /\ at'[d] = at[d] /\ target'[d] = target[d]
      BY <1>9, <2>2 DEF IInv
    <3>2. CloseInv(d)'
      BY <1>1, <3>1 DEF CloseInv
    <3>3. pc[d] = "track" => at[d] # e
      BY <1>1, <2>2 DEF IInv, TrackInv, e
    <3>4. SubmitInv(d)'
      BY <1>1, <2>2, <3>1, <3>3 DEF SubmitInv
    <3> QED BY <3>2, <3>4
  <2> QED BY <2>1, <2>2
<1>12. TrackInv'
  BY <1>9, <1>10 DEF IInv, TrackInv
<1>13. IndexInv'
  <2>1. ToSet(index') \subseteq returned' /\ \A x \in returned' : owner'[x] # None
    BY <1>1, <1>2, <1>3, <1>4, <1>5, RuntimeAssumption DEF IInv, IndexInv
  <2>2. ASSUME NEW x \in ToSet(index') \ strays'
        PROVE instances[owner[x]] # 0 /\ holder[x] = <<owner[x], instances[owner[x]]>>
    <3>1. CASE x = e
      BY <1>1, <1>2, <1>3, <2>2, <3>1
    <3>2. CASE x # e
      BY <1>1, <1>5, <2>2, <3>2 DEF IInv, IndexInv
    <3> QED BY <3>1, <3>2
  <2> QED BY <1>1, <2>1, <2>2 DEF IndexInv
<1>14. IndexKeepsLatest'
  <2>1. ASSUME closes = 0, NEW x \in Executions, x \in returned', x \notin ToSet(index')
        PROVE  Len(index') = Limit
    <3>1. CASE ToSet(index') = ToSet(index) \union {e}
      <4>1. x \in returned /\ x \notin ToSet(index)
        BY <1>1, <2>1, <3>1
      <4>2. Len(index) = Limit
        BY <2>1, <4>1 DEF IInv, IndexKeepsLatest, TrackedUntilEvicted
      <4>3. Len(index') \in Nat
        BY <1>5
      <4> QED BY <1>4, <1>5, <4>2, <4>3
    <3> QED BY <1>5, <3>1
  <2> QED BY <1>1, <1>5, <1>6, <2>1 DEF IndexKeepsLatest, IndexIsBounded, TrackedUntilEvicted
<1> QED BY <1>7, <1>8, <1>11, <1>12, <1>13, <1>14 DEF IInv

\* close takes every instance out of use, and clears the index.
LEMMA CloseStep ==
    ASSUME IInv, NEW c \in Callers, Close(c)
    PROVE  IInv'
<1>1. /\ UNCHANGED <<deployment, config, builds, returned, owner, holder, closed, at, target,
                     strays, dropped, answer>>
      /\ pc[c] = "idle" /\ pc' = [pc EXCEPT ![c] = "close"]
      /\ closes < deployment.closes /\ closes' = closes + 1
      /\ todo' = [todo EXCEPT ![c] = Live]
      /\ instances' = [n \in Names |-> 0]
      /\ index' = <<>>
      /\ raced' = raced \union Submitting
  BY DEF Close, Goto, setup, records
<1>2. /\ MaxCloses \in Nat /\ closes \in Nat /\ deployment.closes \in 0 .. MaxCloses
      /\ instances \in [Names -> 0 .. MaxCloses + 1] /\ builds \in [Names -> 0 .. MaxCloses + 1]
  BY RuntimeAssumption, ClosesType DEF IInv, TypeOK
<1>3. Live \subseteq Instance
  <2>1. \A n \in Names : instances[n] # 0 => instances[n] \in 1 .. MaxCloses + 1
    BY <1>2
  <2> QED BY <2>1 DEF Live, Instance
<1>4. TypeOK'
  <2>1. <<>> \in Seq(Executions) /\ Submitting \subseteq Callers
    BY DEF Submitting
  <2>2. pc' \in [Callers -> {"idle", "submit", "refused", "track", "lookup", "get", "close"}]
    BY <1>1 DEF IInv, TypeOK
  <2>3. closes' \in 0 .. MaxCloses /\ instances' \in [Names -> 0 .. MaxCloses + 1]
    BY <1>1, <1>2
  <2>4. todo' \in [Callers -> SUBSET Instance]
    BY <1>1, <1>3 DEF IInv, TypeOK
  <2> QED BY <1>1, <2>1, <2>2, <2>3, <2>4 DEF IInv, TypeOK
<1>5. SetupInv'
  BY <1>1, <1>2 DEF IInv, SetupInv
<1>6. CacheInv'
  <2> SUFFICES ASSUME NEW n \in Names PROVE builds[n] <= closes + 1 /\ 0 <= builds[n]
    BY <1>1, <1>2 DEF CacheInv
  <2>1. builds[n] <= closes + (IF instances[n] = 0 THEN 0 ELSE 1) /\ builds[n] \in Nat
    BY <1>2 DEF IInv, CacheInv
  <2> QED BY <1>2, <2>1
<1>7. /\ pc'[c] = "close" /\ todo'[c] = Live
      /\ \A d \in Callers \ {c} : pc'[d] = pc[d] /\ todo'[d] = todo[d]
  BY <1>1 DEF IInv, TypeOK
<1>8. ASSUME NEW d \in Callers PROVE CloseInv(d)'
  <2>1. CASE d = c
    <3>1. \A i \in Live : i[1] \in Names /\ i[2] = instances[i[1]] /\ i[2] # 0
      BY DEF Live
    <3>2. \A n \in Names : instances[n] <= builds[n]
      BY DEF IInv, CacheInv
    <3> QED BY <1>1, <1>7, <2>1, <3>1, <3>2 DEF CloseInv
  <2>2. CASE d # c
    <3>1. CloseInv(d) /\ todo'[d] = todo[d] /\ pc'[d] = pc[d] /\ todo[d] \subseteq Instance
      BY <1>7, <2>2 DEF IInv, TypeOK
    <3>2. \A i \in Instance : i[1] \in Names /\ i[2] # 0
      BY <1>2 DEF Instance
    <3> QED BY <1>1, <3>1, <3>2 DEF CloseInv
  <2> QED BY <2>1, <2>2
<1>9. ASSUME NEW d \in Callers PROVE SubmitInv(d)'
  <2>1. SubmitInv(d) /\ (pc'[d] = pc[d] \/ pc'[d] = "close")
    BY <1>7 DEF IInv
  <2>2. pc[d] \in {"submit", "track"} => d \in raced'
    BY <1>1 DEF Submitting
  <2> QED BY <1>1, <2>1, <2>2 DEF SubmitInv
<1>10. TrackInv'
  BY <1>1, <1>7 DEF IInv, TrackInv
<1>11. NoInstanceIsLost'
  <2> SUFFICES ASSUME NEW n \in Names, NEW k \in 1 .. MaxCloses + 1, k <= builds[n]
               PROVE \/ <<n, k>> \in closed
                     \/ <<n, k>> \in dropped
                     \/ \E d \in Callers : <<n, k>> \in todo'[d]
    BY Zenon, <1>1 DEF NoInstanceIsLost
  <2>1. \/ instances[n] = k
        \/ <<n, k>> \in closed
        \/ <<n, k>> \in dropped
        \/ \E d \in Callers : <<n, k>> \in todo[d]
    BY DEF IInv, NoInstanceIsLost
  <2>2. instances[n] = k => <<n, k>> \in todo'[c]
    BY <1>2, <1>7 DEF Live
  <2>3. todo[c] = {}
    BY <1>1 DEF IInv, CloseInv
  <2> QED BY <1>7, <2>1, <2>2, <2>3
<1>12. ToSet(index') = {} /\ IsInjective(index') /\ Len(index') = 0
  BY <1>1 DEF ToSet, IsInjective
<1>13. IndexInv'
  BY <1>1, <1>12 DEF IInv, IndexInv
<1>14. IndexKeepsLatest'
  BY <1>1, <1>2, <1>12, <1>5, LimitType
     DEF IInv, IndexKeepsLatest, IndexIsBounded, TrackedUntilEvicted, Limit
<1> QED BY <1>4, <1>5, <1>6, <1>8, <1>9, <1>10, <1>11, <1>13, <1>14 DEF IInv

\* One backend is closed: none that is in use, so no id in the index is lost.
LEMMA CloseInstanceStep ==
    ASSUME IInv, NEW c \in Callers, CloseInstance(c)
    PROVE  IInv'
<1>1. PICK i \in todo[c] :
         /\ todo' = [todo EXCEPT ![c] = @ \ {i}]
         /\ closed' = closed \union {i}
         /\ holder' = [e \in Executions |-> IF holder[e] = i THEN NoInstance ELSE holder[e]]
  BY DEF CloseInstance
<1>2. /\ UNCHANGED <<deployment, config, instances, builds, index, returned, owner, pc, at, target,
                     raced, strays, closes, dropped, answer>>
      /\ pc[c] = "close"
  BY DEF CloseInstance, setup, cache, ghosts
<1>3. i \in Instance /\ i[2] # instances[i[1]] /\ \A n \in Names : i # <<n, instances[n]>>
  BY <1>1 DEF IInv, TypeOK, CloseInv
<1>4. TypeOK'
  BY <1>1, <1>2, <1>3 DEF IInv, TypeOK
<1>5. SetupInv' /\ CacheInv' /\ TrackInv' /\ IndexKeepsLatest'
  BY <1>2 DEF IInv, SetupInv, CacheInv, TrackInv, IndexKeepsLatest, IndexIsBounded,
              TrackedUntilEvicted, Limit
<1>6. \A d \in Callers : todo'[d] \subseteq todo[d] /\ todo[d] \subseteq todo'[d] \union {i}
  BY <1>1 DEF IInv, TypeOK
<1>7. ASSUME NEW d \in Callers PROVE CloseInv(d)'
  BY <1>2, <1>6 DEF IInv, CloseInv
<1>8. ASSUME NEW d \in Callers PROVE SubmitInv(d)'
  <2>1. SubmitInv(d)
    BY DEF IInv
  <2>2. ASSUME pc[d] = "track", d \notin raced, holder[at[d]] = target[d] PROVE holder'[at[d]] = target[d]
    <3>1. instances[target[d][1]] = target[d][2] /\ at[d] \in Executions
      BY <2>1, <2>2 DEF SubmitInv
    <3> QED BY <1>1, <1>3, <2>2, <3>1
  <2> QED BY <1>2, <2>1, <2>2 DEF SubmitInv
<1>9. NoInstanceIsLost'
  BY Zenon, <1>1, <1>2, <1>6 DEF IInv, NoInstanceIsLost
<1>10. IndexInv'
  <2>1. ASSUME NEW e \in ToSet(index) \ strays PROVE holder'[e] = <<owner[e], instances[owner[e]]>>
    <3>1. /\ e \in Executions /\ owner[e] \in Names
          /\ holder[e] = <<owner[e], instances[owner[e]]>>
      BY DEF IInv, TypeOK, IndexInv
    <3> QED BY <1>1, <1>3, <3>1
  <2> QED BY <1>2, <2>1 DEF IInv, IndexInv
<1> QED BY <1>4, <1>5, <1>7, <1>8, <1>9, <1>10 DEF IInv

\* The instances that a close which raised did not get to are given up.
LEMMA CloseRaisesStep ==
    ASSUME IInv, NEW c \in Callers, CloseRaises(c)
    PROVE  IInv'
<1>1. /\ UNCHANGED <<deployment, config, instances, builds, index, returned, owner, holder,
                     closed, strays, closes>>
      /\ pc[c] = "close" /\ pc' = [pc EXCEPT ![c] = "idle"]
      /\ at' = [at EXCEPT ![c] = None] /\ target' = [target EXCEPT ![c] = NoInstance]
      /\ raced' = raced \ {c} /\ answer' = [answer EXCEPT ![c] = "failed"]
      /\ dropped' = dropped \union todo[c]
      /\ todo' = [todo EXCEPT ![c] = {}]
  BY DEF CloseRaises, End, Goto, setup, cache, records
<1>2. TypeOK'
  <2>1. pc' \in [Callers -> {"idle", "submit", "refused", "track", "lookup", "get", "close"}]
    BY <1>1 DEF IInv, TypeOK
  <2>2. at' \in [Callers -> Executions \union {None}]
        /\ target' \in [Callers -> Instance \union {NoInstance}]
    BY <1>1 DEF IInv, TypeOK
  <2>3. answer' \in [Callers -> {None, "ConfigurationError", "refused", "submitted",
                                 "unknown", "found", "notfound", "closed", "failed"}]
    BY <1>1 DEF IInv, TypeOK
  <2>4. todo' \in [Callers -> SUBSET Instance] /\ dropped' \subseteq Instance
    BY <1>1 DEF IInv, TypeOK
  <2> QED BY <1>1, <2>1, <2>2, <2>3, <2>4 DEF IInv, TypeOK
<1>3. SetupInv' /\ CacheInv' /\ IndexInv' /\ IndexKeepsLatest'
  BY <1>1 DEF IInv, SetupInv, CacheInv, IndexInv, IndexKeepsLatest, IndexIsBounded,
              TrackedUntilEvicted, Limit
<1>4. /\ pc'[c] = "idle" /\ todo'[c] = {}
      /\ \A d \in Callers \ {c} : /\ pc'[d] = pc[d] /\ at'[d] = at[d]
                                  /\ target'[d] = target[d] /\ todo'[d] = todo[d]
  BY <1>1 DEF IInv, TypeOK
<1>5. ASSUME NEW d \in Callers PROVE CloseInv(d)' /\ SubmitInv(d)'
  <2>1. CASE d = c
    BY <1>4, <2>1 DEF CloseInv, SubmitInv
  <2>2. CASE d # c
    <3>1. CloseInv(d) /\ SubmitInv(d) /\ (d \in raced' <=> d \in raced)
      BY <1>1, <2>2 DEF IInv
    <3> QED BY <1>1, <1>4, <2>2, <3>1 DEF CloseInv, SubmitInv
  <2> QED BY <2>1, <2>2
<1>6. TrackInv'
  BY <1>4 DEF IInv, TrackInv
<1>7. NoInstanceIsLost'
  <2> SUFFICES ASSUME NEW n \in Names, NEW k \in 1 .. MaxCloses + 1, k <= builds[n]
               PROVE  \/ instances[n] = k \/ <<n, k>> \in closed \/ <<n, k>> \in dropped'
                      \/ \E d \in Callers : <<n, k>> \in todo'[d]
    BY Zenon, <1>1 DEF NoInstanceIsLost
  <2>1. \/ instances[n] = k \/ <<n, k>> \in closed \/ <<n, k>> \in dropped
        \/ \E d \in Callers : <<n, k>> \in todo[d]
    BY DEF IInv, NoInstanceIsLost
  <2>2. \A d \in Callers : todo[d] \subseteq dropped' \union todo'[d]
    BY <1>1, <1>4
  <2> QED BY <1>1, <2>1, <2>2
<1> QED BY <1>2, <1>3, <1>5, <1>6, <1>7 DEF IInv

\* Every step of a caller in the composed system.
LEMMA NextInv == IInv /\ [Next]_vars => IInv'
<1> SUFFICES ASSUME IInv, [Next]_vars PROVE IInv'
  OBVIOUS
<1>1. CASE UNCHANGED vars
  BY <1>1 DEF vars, runtimeVars, setup, cache, records, IInv, TypeOK, SetupInv, CacheInv, CloseInv,
              SubmitInv, TrackInv, NoInstanceIsLost, IndexInv, IndexKeepsLatest,
              IndexIsBounded, TrackedUntilEvicted, Limit
<1>2. ASSUME NEW c \in Callers, Submission(c) PROVE IInv'
  <2>1. ASSUME NEW ask \in deployment.asks,
               AskInvalid(c, ask) \/ AskUnroutable(c, ask) PROVE IInv'
    BY <2>1, EndStep DEF AskInvalid, AskUnroutable
  <2>2. ASSUME NEW ask \in deployment.asks,
               AskUndefined(c, ask) \/ AskMismatched(c, ask) \/ Ask(c, ask) PROVE IInv'
    <3>1. PICK s \in Asked(ask) : \E n \in Route(ask, s) :
             PrepareRaises(c) \/ PrepareMismatch(c, n) \/ Prepare(c, n)
      BY <2>2 DEF AskUndefined, AskMismatched, Ask
    <3>2. Route(ask, s) \subseteq Names
      BY RouteType DEF IInv
    <3> QED BY <3>1, <3>2, EndStep, PrepareStep
  <2>3. ASSUME NEW e \in Executions, EngineAccepts(c, e) PROVE IInv'
    BY <2>3, TargetSubmitStep DEF EngineAccepts
  <2>4. ASSUME EngineRefuses(c) \/ CallerCancelled(c) PROVE IInv'
    BY <2>4, EndStep DEF EngineRefuses, CallerCancelled
  <2> QED BY <1>2, <2>1, <2>2, <2>3, <2>4 DEF Submission
<1>3. ASSUME NEW c \in Callers, Finish(c) PROVE IInv'
  BY <1>3, EndStep, TrackStep DEF Finish
<1>4. ASSUME NEW c \in Callers, Other(c) PROVE IInv'
  BY <1>4, EndStep, OwnerBackendStep, CloseStep, CloseInstanceStep, CloseRaisesStep DEF Other
<1> QED BY <1>1, <1>2, <1>3, <1>4 DEF Next

-----------------------------------------------------------------------------
(* The specs the facades build. *)

SpecFields == {"kind", "target", "name", "queue", "profile", "labels", "retry", "timeout",
               "idempotency_key", "correlation", "priority", "delay", "run_at",
               "parallelism", "cpu", "memory", "gpu", "gpu_type", "env", "image", "command"}

\* A spec that a facade has built and checked.
WellFormed(s) ==
    /\ DOMAIN s = SpecFields
    /\ s.kind \in Kinds
    /\ s.retry \in [max_attempts : Int, owner : Owners]
    /\ s.retry.max_attempts >= 1
    /\ s.timeout \subseteq Int /\ s.delay \subseteq Int /\ s.run_at \subseteq Int
    /\ s.priority \in Int /\ s.parallelism \in Int /\ s.gpu \in Int
    /\ HasType("memory", s.memory)
    /\ HasType("idempotency_key", s.idempotency_key)
    /\ s.env \in BOOLEAN
    /\ s.kind # "task" => s.priority = 0 /\ s.delay = {} /\ s.run_at = {}
    /\ s.kind # "job" => /\ s.parallelism = 1 /\ s.gpu = 0 /\ s.env = FALSE
                         /\ s.cpu = {} /\ s.memory = {}

\* A field of a spec is a keyword its facade takes, or has its default.
LEMMA BuildFields ==
    ASSUME NEW ask, IsAsk(ask)
    PROVE  /\ DOMAIN Build(ask) = SpecFields
           /\ Build(ask).kind = ask.kind
           /\ \A f \in SpecFields \ {"target"} :
                 \/ Build(ask)[f] = ExecutionSpec(ask.kind)[f]
                 \/ f \in Facade(ask.kind, ask.surface) /\ HasType(f, Build(ask)[f])
<1> DEFINE base == [ExecutionSpec(ask.kind) EXCEPT !.target = ask.target]
           given == DOMAIN ask.keywords \intersect Facade(ask.kind, ask.surface)
           s == Build(ask)
<1>1. /\ DOMAIN base = SpecFields /\ base.kind = ask.kind
      /\ \A f \in SpecFields \ {"target"} : base[f] = ExecutionSpec(ask.kind)[f]
  <2> DEFINE e == ExecutionSpec(ask.kind)
  <2>1. DOMAIN e = SpecFields /\ e.kind = ask.kind
    BY DEF ExecutionSpec, SpecFields
  <2> HIDE DEF e
  <2>2. base = [e EXCEPT !.target = ask.target]
    BY DEF e
  <2>3. "kind" \in SpecFields
    BY DEF SpecFields
  <2> HIDE DEF base
  <2> QED BY <2>1, <2>2, <2>3 DEF e
<1>2. s = [f \in DOMAIN base |-> IF f \in given THEN ask.keywords[f] ELSE base[f]]
  BY DEF Build
<1>3. "kind" \notin Facade(ask.kind, ask.surface)
  BY DEF IsAsk, Kinds, Facade, InlineFacade, TaskFacade, JobFacade, AsyncInlineFacade,
         AsyncTaskFacade, AsyncJobFacade
<1>4. "kind" \in SpecFields
  BY DEF SpecFields
<1> HIDE DEF base, s
<1>5. DOMAIN s = SpecFields /\ s.kind = ask.kind
  BY <1>1, <1>2, <1>3, <1>4
<1>6. ASSUME NEW f \in SpecFields \ {"target"}
      PROVE  \/ s[f] = ExecutionSpec(ask.kind)[f]
             \/ f \in Facade(ask.kind, ask.surface) /\ HasType(f, s[f])
  BY <1>1, <1>2 DEF IsAsk
<1> QED BY <1>5, <1>6 DEF s

\* What a facade lets through is well-formed.
LEMMA AskedWellFormed ==
    ASSUME NEW ask, IsAsk(ask), NEW s \in Asked(ask)
    PROVE  WellFormed(s)
<1> DEFINE r == Build(ask)
           e == ExecutionSpec(ask.kind)
           F == Facade(ask.kind, ask.surface)
<1>1. s = Named(r) /\ Valid(r)
  BY DEF Asked
<1>2. /\ DOMAIN r = SpecFields /\ r.kind = ask.kind /\ ask.kind \in Kinds
      /\ \A f \in SpecFields \ {"target"} : r[f] = e[f] \/ (f \in F /\ HasType(f, r[f]))
  <2>1. ask.kind \in Kinds
    BY DEF IsAsk
  <2>2. DOMAIN r = SpecFields /\ r.kind = ask.kind
    BY BuildFields
  <2>3. \A f \in SpecFields \ {"target"} : r[f] = e[f] \/ (f \in F /\ HasType(f, r[f]))
    BY BuildFields
  <2> QED BY <2>1, <2>2, <2>3
<1>3. /\ e.retry = NO_RETRY /\ e.timeout = {} /\ e.delay = {} /\ e.run_at = {}
      /\ e.priority = 0 /\ e.parallelism = 1 /\ e.gpu = 0
      /\ e.memory = {} /\ e.idempotency_key = {} /\ e.env = FALSE /\ e.cpu = {}
  BY DEF ExecutionSpec
<1>4. /\ ask.kind # "task" => {"priority", "delay", "run_at"} \intersect F = {}
      /\ ask.kind # "job" => {"parallelism", "gpu", "env", "cpu", "memory"} \intersect F = {}
  BY <1>2 DEF Kinds, Facade, InlineFacade, TaskFacade, JobFacade, AsyncInlineFacade,
              AsyncTaskFacade, AsyncJobFacade
<1> HIDE DEF r, e, F
<1>5. {"retry", "timeout", "delay", "run_at", "priority", "parallelism", "gpu", "memory",
       "idempotency_key", "env", "cpu"} \subseteq SpecFields \ {"target"}
  BY DEF SpecFields
<1>6. WellFormed(r)
  <2>1. r.retry \in [max_attempts : Int, owner : Owners] /\ r.retry.max_attempts >= 1
    <3>1. r.retry = NO_RETRY \/ HasType("retry", r.retry)
      BY <1>2, <1>3, <1>5
    <3> QED BY <1>1, <3>1 DEF NO_RETRY, Owners, HasType, Valid
  <2>2. ASSUME NEW f \in {"timeout", "delay", "run_at"} PROVE r[f] \subseteq Int
    <3>1. r[f] = {} \/ HasType(f, r[f])
      BY <1>2, <1>3, <1>5
    <3> QED BY <3>1 DEF HasType
  <2>3. ASSUME NEW f \in {"priority", "parallelism", "gpu"} PROVE r[f] \in Int
    <3>1. r[f] \in {0, 1} \/ HasType(f, r[f])
      BY <1>2, <1>3, <1>5
    <3>2. \A v : HasType(f, v) => v \in Int
      BY DEF HasType
    <3> QED BY <3>1, <3>2
  <2>4. ASSUME NEW f \in {"memory", "idempotency_key"} PROVE HasType(f, r[f])
    <3>1. r[f] = {} \/ HasType(f, r[f])
      BY <1>2, <1>3, <1>5
    <3> QED BY <3>1 DEF HasType
  <2>6. r.env \in BOOLEAN
    <3>1. r["env"] = FALSE \/ HasType("env", r["env"])
      BY <1>2, <1>3, <1>5
    <3>2. \A v : HasType("env", v) => v \in BOOLEAN
      BY DEF HasType
    <3> QED BY <3>1, <3>2
  <2>7. ask.kind # "task" => r.priority = 0 /\ r.delay = {} /\ r.run_at = {}
    BY <1>2, <1>3, <1>4, <1>5
  <2>8. ask.kind # "job" => /\ r.parallelism = 1 /\ r.gpu = 0 /\ r.env = FALSE
                            /\ r.cpu = {} /\ r.memory = {}
    BY <1>2, <1>3, <1>4, <1>5
  <2> QED BY <1>2, <2>1, <2>2, <2>3, <2>4, <2>6, <2>7, <2>8 DEF WellFormed
<1>7. /\ DOMAIN s = SpecFields
      /\ \A f \in SpecFields \ {"name"} : s[f] = r[f]
  <2>1. s = r \/ s = [r EXCEPT !.name = r.target]
    BY Zenon, <1>1 DEF Named
  <2> QED BY <1>2, <2>1
<1>8. {"kind", "retry", "timeout", "delay", "run_at", "priority", "parallelism", "gpu", "memory",
       "idempotency_key", "env", "cpu"} \subseteq SpecFields \ {"name"}
  BY DEF SpecFields
<1> QED BY <1>6, <1>7, <1>8 DEF WellFormed

\* The correlation is there, and nothing else is touched.
LEMMA CorrelatedWellFormed ==
    ASSUME NEW s, WellFormed(s)
    PROVE  /\ WellFormed(Correlated(s)) /\ Correlated(s).correlation # {}
           /\ Correlated(s).kind = s.kind
<1>1. DOMAIN s = SpecFields /\ {"correlation", "kind"} \subseteq SpecFields
  BY DEF WellFormed, SpecFields
<1>2. CASE s.correlation = {}
  <2> DEFINE t == [s EXCEPT !.correlation = {Ambient}]
  <2>1. /\ DOMAIN t = SpecFields /\ t.correlation = {Ambient}
        /\ \A f \in SpecFields \ {"correlation"} : t[f] = s[f]
    BY <1>1
  <2>2. {"kind", "retry", "timeout", "delay", "run_at", "priority", "parallelism", "gpu", "memory",
         "idempotency_key", "env", "cpu"} \subseteq SpecFields \ {"correlation"}
    BY DEF SpecFields
  <2>3. Correlated(s) = t
    BY <1>2 DEF Correlated
  <2> HIDE DEF t
  <2> QED BY <2>1, <2>2, <2>3 DEF WellFormed
<1>3. CASE s.correlation # {}
  BY <1>3 DEF Correlated
<1> QED BY <1>2, <1>3

-----------------------------------------------------------------------------
\* Which backends advertise what.
LEMMA Advertisers ==
    ASSUME NEW a \in Adapters
    PROVE  /\ "delay" \in Capabilities(a) =>
                  a \in {"thread", "celery", "procrastinate", "dramatiq", "sqs", "servicebus",
                         "cloudtasks"}
           /\ "priority" \in Capabilities(a) => a \in {"celery", "procrastinate"}
           /\ "deduplication" \in Capabilities(a) =>
                  a \in {"procrastinate", "fifo", "servicebus", "cloudtasks"}
           /\ "timeout" \in Capabilities(a) => a \in Jobs \union {"subprocess"}
           /\ "retry" \in Capabilities(a) => a # "subprocess"
           /\ "parallelism" \in Capabilities(a) => a \in Jobs
           /\ "cpu" \in Capabilities(a) => a \in Jobs \ {"cloudrun"}
           /\ "memory" \in Capabilities(a) => a \in Jobs \ {"cloudrun"}
           /\ "gpu" \in Capabilities(a) => a \in {"kubernetes", "batch"}
           /\ "environment" \in Capabilities(a) => a \in Jobs \union {"subprocess"}
<1> DEFINE P == Promised
<1>1. /\ P["inline"] = INLINE /\ P["thread"] = THREAD /\ P["process"] = PROCESS
      /\ P["subprocess"] = SUBPROCESS /\ P["celery"] = CELERY
      /\ P["procrastinate"] = PROCRASTINATE /\ P["dramatiq"] = DRAMATIQ /\ P["sqs"] = SQS
      /\ P["fifo"] = SQS_FIFO /\ P["servicebus"] = SERVICE_BUS
      /\ P["cloudtasks"] = CLOUD_TASKS /\ P["cloudrun"] = CLOUD_RUN
      /\ P["kubernetes"] = KUBERNETES /\ P["batch"] = BATCH
      /\ P["containerapps"] = CONTAINER_APPS
  BY DEF Promised
<1> HIDE DEF P
<1>2. Capabilities(a) = P[a]
  BY DEF Capabilities, P
<1>3. CASE a \in Local
  BY <1>1, <1>2, <1>3 DEF Local, Jobs, INLINE, THREAD, PROCESS, SUBPROCESS
<1>4. CASE a \in Brokers
  BY <1>1, <1>2, <1>4 DEF Brokers, Jobs, CELERY, PROCRASTINATE, DRAMATIQ
<1>5. CASE a \in Queues
  BY <1>1, <1>2, <1>5 DEF Queues, Jobs, SQS, SQS_FIFO, SERVICE_BUS, CLOUD_TASKS
<1>6. CASE a \in Jobs
  BY <1>1, <1>2, <1>6 DEF Jobs, CLOUD_RUN, KUBERNETES, BATCH, CONTAINER_APPS
<1> QED BY <1>3, <1>4, <1>5, <1>6 DEF Adapters

\* A spec that validate lets through asks for nothing its backend does not advertise.
LEMMA Validated ==
    ASSUME NEW a, NEW s, WellFormed(s), Missing(a, RequiredCapabilities(s)) = {}
    PROVE  /\ ScheduledFor(s, 0) # {} => "delay" \in Capabilities(a)
           /\ s.priority # 0 => "priority" \in Capabilities(a)
           /\ s.idempotency_key # {} => "deduplication" \in Capabilities(a)
           /\ s.timeout # {} => "timeout" \in Capabilities(a)
           /\ "retry" \in RequiredCapabilities(s) => "retry" \in Capabilities(a)
           /\ s.parallelism > 1 => "parallelism" \in Capabilities(a)
           /\ s.cpu # {} => "cpu" \in Capabilities(a)
           /\ s.memory # {} => "memory" \in Capabilities(a)
           /\ s.gpu > 0 => "gpu" \in Capabilities(a)
           /\ s.env => "environment" \in Capabilities(a)
<1>1. RequiredCapabilities(s) \subseteq Capabilities(a)
  BY DEF Missing
<1>2. /\ s.timeout # {} => "timeout" \in RequiredCapabilities(s)
      /\ s.idempotency_key # {} => "deduplication" \in RequiredCapabilities(s)
  BY DEF RequiredCapabilities, RequiredOfAny, If
<1>3. s.kind = "task" =>
          /\ s.delay # {} \/ s.run_at # {} => "delay" \in RequiredCapabilities(s)
          /\ s.priority # 0 => "priority" \in RequiredCapabilities(s)
  BY DEF RequiredCapabilities, RequiredOfTask, If
<1>4. s.kind = "job" =>
          /\ s.parallelism > 1 => "parallelism" \in RequiredCapabilities(s)
          /\ s.cpu # {} => "cpu" \in RequiredCapabilities(s)
          /\ s.memory # {} => "memory" \in RequiredCapabilities(s)
          /\ s.gpu > 0 => "gpu" \in RequiredCapabilities(s)
          /\ s.env => "environment" \in RequiredCapabilities(s)
  BY DEF RequiredCapabilities, RequiredOfJob, If
<1>5. ScheduledFor(s, 0) # {} => s.delay # {} \/ s.run_at # {}
  BY DEF ScheduledFor
<1>6. /\ s.kind # "task" => s.priority = 0 /\ s.delay = {} /\ s.run_at = {}
      /\ s.kind # "job" => s.parallelism = 1 /\ s.gpu = 0 /\ s.cpu = {} /\ s.memory = {}
      /\ s.kind # "job" => ~s.env
  BY DEF WellFormed
<1> QED BY <1>1, <1>2, <1>3, <1>4, <1>5, <1>6

-----------------------------------------------------------------------------
(* What the requests say, field by field. *)

\* What the engines hear of the attempts, the key and the correlation.
LEMMA TaskFields ==
    ASSUME NEW s, NEW lag
    PROVE  LET n == EngineAttempts(s.retry) IN
           /\ \A a \in {"inline", "process"} : LET r == Request(a, s, 0, lag)
              IN  r.attempts = {n} /\ r.key = {} /\ r.correlation = s.correlation
           /\ LET r == Request("thread", s, 0, lag)
              IN  /\ r.attempts = {n} /\ r.key = {} /\ r.correlation = s.correlation
                  /\ r.due = ScheduledFor(s, lag)
           /\ LET r == Request("celery", s, 0, lag)
              IN  /\ r.attempts = {n} /\ r.key = {} /\ r.correlation = s.correlation
                  /\ r.due = ScheduledFor(s, 0) /\ r.priority = {s.priority}
           /\ LET r == Request("procrastinate", s, 0, lag)
              IN  /\ r.attempts = {n} /\ r.key = s.idempotency_key
                  /\ r.correlation = s.correlation
                  /\ r.due = ScheduledFor(s, 0) /\ r.priority = {s.priority}
           /\ LET r == Request("dramatiq", s, 0, lag)
              IN  /\ r.attempts = IfEnabled(s, 1 + (n - 1)) /\ r.key = {}
                  /\ r.correlation = s.correlation
                  /\ r.due = {Later(t, lag) : t \in ScheduledFor(s, 0)}
           /\ LET r == Request("sqs", s, 0, lag)
              IN  /\ r.attempts = {} /\ r.key = {} /\ r.correlation = s.correlation
                  /\ r.due = {lag + DelaySeconds(t, lag) : t \in ScheduledFor(s, 0)}
           /\ LET r == Request("fifo", s, 0, lag)
              IN  /\ r.attempts = {} /\ r.key = s.idempotency_key
                  /\ r.correlation = s.correlation
           /\ LET r == Request("servicebus", s, 0, lag)
              IN  /\ r.attempts = {} /\ r.key = s.idempotency_key
                  /\ r.correlation = s.correlation /\ r.due = ScheduledFor(s, 0)
           /\ LET r == Request("cloudtasks", s, 0, lag)
              IN  /\ r.attempts = {} /\ r.key = {SafeName(k) : k \in s.idempotency_key}
                  /\ r.correlation = s.correlation /\ r.due = ScheduledFor(s, 0)
<1> DEFINE n == EngineAttempts(s.retry)
<1> USE DEF Nothing, Envelope, Carried
<1>1. \A a \in {"inline", "process"} : LET r == Request(a, s, 0, lag)
      IN  r.attempts = {n} /\ r.key = {} /\ r.correlation = s.correlation
  BY DEF Request, InProcess
<1>2. LET r == Request("thread", s, 0, lag)
      IN  /\ r.attempts = {n} /\ r.key = {} /\ r.correlation = s.correlation
          /\ r.due = ScheduledFor(s, lag)
  BY DEF Request, Thread
<1>3. LET r == Request("celery", s, 0, lag)
      IN  /\ r.attempts = {n} /\ r.key = {} /\ r.correlation = s.correlation
          /\ r.due = ScheduledFor(s, 0) /\ r.priority = {s.priority}
  BY DEF Request, Celery
<1>4. LET r == Request("procrastinate", s, 0, lag)
      IN  /\ r.attempts = {n} /\ r.key = s.idempotency_key
          /\ r.correlation = s.correlation
          /\ r.due = ScheduledFor(s, 0) /\ r.priority = {s.priority}
  BY DEF Request, Procrastinate
<1>5. LET r == Request("dramatiq", s, 0, lag)
      IN  /\ r.attempts = IfEnabled(s, 1 + (n - 1)) /\ r.key = {}
          /\ r.correlation = s.correlation
          /\ r.due = {Later(t, lag) : t \in ScheduledFor(s, 0)}
  <2> DEFINE due == {Later(t, lag) : t \in ScheduledFor(s, 0)}
  <2>1. Request("dramatiq", s, 0, lag) =
            [Nothing EXCEPT !.due = due, !.attempts = IfEnabled(s, 1 + (n - 1)),
                            !.correlation = s.correlation]
    BY DEF Request, Dramatiq
  <2> HIDE DEF due, n
  <2> QED BY <2>1 DEF due
<1>6. LET r == Request("sqs", s, 0, lag)
      IN  /\ r.attempts = {} /\ r.key = {} /\ r.correlation = s.correlation
          /\ r.due = {lag + DelaySeconds(t, lag) : t \in ScheduledFor(s, 0)}
  <2> DEFINE due == {lag + DelaySeconds(t, lag) : t \in ScheduledFor(s, 0)}
  <2>1. Request("sqs", s, 0, lag) = [Carried(s) EXCEPT !.due = due]
    BY DEF Request, Sqs
  <2> HIDE DEF due
  <2> QED BY <2>1 DEF due
<1>7. LET r == Request("fifo", s, 0, lag)
      IN  /\ r.attempts = {} /\ r.key = s.idempotency_key
          /\ r.correlation = s.correlation
  BY DEF Request, SqsFifo
<1>8. LET r == Request("servicebus", s, 0, lag)
      IN  /\ r.attempts = {} /\ r.key = s.idempotency_key
          /\ r.correlation = s.correlation /\ r.due = ScheduledFor(s, 0)
  BY DEF Request, ServiceBus
<1>9. LET r == Request("cloudtasks", s, 0, lag)
      IN  /\ r.attempts = {} /\ r.key = {SafeName(k) : k \in s.idempotency_key}
          /\ r.correlation = s.correlation /\ r.due = ScheduledFor(s, 0)
  <2> DEFINE key == {SafeName(k) : k \in s.idempotency_key}
  <2>1. Request("cloudtasks", s, 0, lag) =
            [Carried(s) EXCEPT !.due = ScheduledFor(s, 0), !.key = key]
    BY DEF Request, CloudTasks
  <2> HIDE DEF key
  <2> QED BY <2>1 DEF key
<1> QED BY <1>1, <1>2, <1>3, <1>4, <1>5, <1>6, <1>7, <1>8, <1>9

\* What the cloud's job engines all hear.
JobRequest(r, s) ==
    /\ r.key = {} /\ r.env = Env(s)
    /\ r.tasks = Some(s.parallelism) /\ r.timeout = Whole(s.timeout)

\* What the job engines hear.
LEMMA JobFields ==
    ASSUME NEW s, NEW lag
    PROVE  LET n == EngineAttempts(s.retry) IN
           /\ LET r == Request("subprocess", s, 0, lag)
              IN  /\ r.attempts = {} /\ r.key = {} /\ r.env = Env(s)
                  /\ r.timeout = s.timeout
           /\ LET r == Request("cloudrun", s, 0, lag)
              IN  JobRequest(r, s) /\ r.attempts = IfEnabled(s, 1 + (n - 1))
           /\ LET r == Request("kubernetes", s, 0, lag)
              IN  /\ JobRequest(r, s) /\ r.attempts = {1 + Later(n - 1, 0)}
                  /\ r.cpu = s.cpu /\ r.memory = s.memory /\ r.gpu = Positive(s.gpu)
           /\ LET r == Request("batch", s, 0, lag)
              IN  /\ JobRequest(r, s) /\ r.attempts = IfEnabled(s, n)
                  /\ r.cpu = s.cpu /\ r.memory = {Mib(q) : q \in s.memory}
                  /\ r.gpu = Positive(s.gpu)
           /\ LET r == Request("containerapps", s, 0, lag)
              IN  /\ JobRequest(r, s) /\ r.attempts = IfEnabled(s, 1 + Later(n - 1, 0))
                  /\ r.cpu = s.cpu /\ r.memory = {Gib(q) : q \in s.memory}
<1> DEFINE n == EngineAttempts(s.retry)
<1> USE DEF Nothing, JobRequest
<1>1. LET r == Request("subprocess", s, 0, lag)
      IN  r.attempts = {} /\ r.key = {} /\ r.env = Env(s) /\ r.timeout = s.timeout
  BY DEF Request, Subprocess
<1>2. LET r == Request("cloudrun", s, 0, lag) IN JobRequest(r, s) /\ r.attempts = IfEnabled(s, 1 + (n - 1))
  BY DEF Request, CloudRun
<1>3. LET r == Request("kubernetes", s, 0, lag)
      IN  /\ JobRequest(r, s) /\ r.attempts = {1 + Later(n - 1, 0)}
          /\ r.cpu = s.cpu /\ r.memory = s.memory /\ r.gpu = Positive(s.gpu)
  BY DEF Request, Kubernetes, Limits
<1>4. LET r == Request("batch", s, 0, lag)
      IN  /\ JobRequest(r, s) /\ r.attempts = IfEnabled(s, n)
          /\ r.cpu = s.cpu /\ r.memory = {Mib(q) : q \in s.memory}
          /\ r.gpu = Positive(s.gpu)
  <2> DEFINE memory == {Mib(q) : q \in s.memory}
             base == [Nothing EXCEPT !.cpu = s.cpu, !.memory = memory, !.gpu = Positive(s.gpu)]
  <2>1. Request("batch", s, 0, lag) =
            [base EXCEPT !.env = Env(s), !.tasks = Some(s.parallelism),
                         !.timeout = Whole(s.timeout), !.attempts = IfEnabled(s, n)]
    BY DEF Request, Batch, Requirements
  <2> HIDE DEF memory, n
  <2> QED BY <2>1 DEF memory
<1>5. LET r == Request("containerapps", s, 0, lag)
      IN  /\ JobRequest(r, s) /\ r.attempts = IfEnabled(s, 1 + Later(n - 1, 0))
          /\ r.cpu = s.cpu /\ r.memory = {Gib(q) : q \in s.memory}
  <2> DEFINE memory == {Gib(q) : q \in s.memory}
             attempts == IfEnabled(s, 1 + Later(n - 1, 0))
  <2>1. Request("containerapps", s, 0, lag) =
            [Nothing EXCEPT !.env = Env(s), !.tasks = Some(s.parallelism),
                            !.timeout = Whole(s.timeout), !.cpu = s.cpu,
                            !.memory = memory, !.attempts = attempts]
    BY DEF Request, ContainerApps
  <2> HIDE DEF memory, attempts
  <2> QED BY <2>1 DEF memory, attempts
<1> QED BY <1>1, <1>2, <1>3, <1>4, <1>5

\* What is refused or carried of the delay, whatever passes before the request is made.
LEMMA DelayIsCarried ==
    ASSUME NEW a \in Adapters, NEW s, WellFormed(s), NEW lag \in Nat,
           Missing(a, RequiredCapabilities(s)) = {}
    PROVE  DelayCarried(a, s, Request(a, s, 0, lag), lag)
<1> SUFFICES ASSUME NEW t \in ScheduledFor(s, 0)
             PROVE  \E d \in Request(a, s, 0, lag).due :
                       /\ d > t - (IF a = "sqs" THEN 10 ELSE 1)
                       /\ d <= Later(t, 0) + lag
  BY DEF DelayCarried
<1> DEFINE due == Request(a, s, 0, lag).due
<1>1. a \in {"thread", "celery", "procrastinate", "dramatiq", "sqs", "servicebus", "cloudtasks"}
  BY Validated, Advertisers
<1>2. t \in Int /\ s.delay \subseteq Int
  BY DEF ScheduledFor, WellFormed
<1>3. CASE a = "thread"
  <2>1. due = ScheduledFor(s, lag)
    BY <1>3, TaskFields
  <2>2. \E d \in ScheduledFor(s, lag) : d = t \/ d = t + lag
    <3>1. CASE t \in s.run_at
      BY <3>1 DEF ScheduledFor
    <3>2. CASE \E d \in s.delay : t = 0 + d
      <4>1. PICK d \in s.delay : t = 0 + d
        BY <3>2
      <4>2. lag + d = t + lag
        BY <1>2, <4>1
      <4> QED BY <4>2 DEF ScheduledFor
    <3> QED BY <3>1, <3>2 DEF ScheduledFor
  <2> QED BY <1>2, <1>3, <2>1, <2>2 DEF Later
<1>4. CASE a \in {"celery", "procrastinate", "servicebus", "cloudtasks"}
  <2>1. due = ScheduledFor(s, 0)
    BY <1>4, TaskFields
  <2> QED BY <1>2, <1>4, <2>1 DEF Later
<1>5. CASE a = "dramatiq"
  <2>1. due = {Later(u, lag) : u \in ScheduledFor(s, 0)}
    BY <1>5, TaskFields
  <2>2. Later(t, lag) > t - 1 /\ Later(t, lag) <= Later(t, 0) + lag
    BY <1>2 DEF Later
  <2> QED BY <1>5, <2>1, <2>2
<1>6. CASE a = "sqs"
  <2>1. due = {lag + DelaySeconds(u, lag) : u \in ScheduledFor(s, 0)}
    BY <1>6, TaskFields
  <2>2. /\ lag + DelaySeconds(t, lag) > t - 10
        /\ lag + DelaySeconds(t, lag) <= Later(t, 0) + lag
    BY <1>2 DEF Later, DelaySeconds
  <2> QED BY <1>6, <2>1, <2>2
<1> QED BY <1>1, <1>3, <1>4, <1>5, <1>6

\* The attempts are those of the policy, or the engine is told of none.
LEMMA RetryIsCarried ==
    ASSUME NEW a \in Adapters, NEW s, WellFormed(s), NEW lag \in Nat,
           Missing(a, RequiredCapabilities(s)) = {}
    PROVE  RetryCarried(a, s, Request(a, s, 0, lag))
<1> DEFINE said == Request(a, s, 0, lag).attempts
           n == EngineAttempts(s.retry)
<1>1. n \in Int /\ n >= 1
  BY DEF WellFormed, EngineAttempts
<1>2. "retry" \in RequiredCapabilities(s) => Enabled(s.retry) /\ a # "subprocess"
  <2>1. "retry" \in RequiredCapabilities(s) => Enabled(s.retry)
    BY DEF RequiredCapabilities, RequiredOfAny, RequiredOfTask, RequiredOfJob, If
  <2>2. "retry" \in RequiredCapabilities(s) => a # "subprocess"
    BY Validated, Advertisers
  <2> QED BY <2>1, <2>2
<1>3. 1 + (n - 1) = n /\ 1 + Later(n - 1, 0) = n
  BY <1>1 DEF Later
<1>4. /\ a \in {"inline", "process", "thread", "celery", "procrastinate", "kubernetes"} => said = {n}
      /\ a \in {"dramatiq", "cloudrun", "batch", "containerapps"} => said = IfEnabled(s, n)
      /\ a \in Queues \union {"subprocess"} => said = {}
  <2> HIDE DEF n
  <2>1. /\ a \in {"inline", "process"} => said = {n}
        /\ a \in {"thread", "celery", "procrastinate"} => said = {n}
        /\ a = "dramatiq" => said = IfEnabled(s, 1 + (n - 1))
        /\ a \in {"sqs", "fifo", "servicebus", "cloudtasks"} => said = {}
    BY TaskFields DEF n
  <2>2. /\ a = "subprocess" => said = {}
        /\ a = "cloudrun" => said = IfEnabled(s, 1 + (n - 1))
        /\ a = "kubernetes" => said = {1 + Later(n - 1, 0)}
        /\ a = "batch" => said = IfEnabled(s, n)
        /\ a = "containerapps" => said = IfEnabled(s, 1 + Later(n - 1, 0))
    BY JobFields DEF n
  <2> HIDE DEF said
  <2> QED BY <1>3, <2>1, <2>2 DEF Queues
<1> HIDE DEF said, n
<1>5. said \subseteq {n} /\ (Enabled(s.retry) /\ a # "subprocess" => said # {} \/ a \in Queues)
  BY <1>4 DEF IfEnabled, Adapters, Local, Brokers, Queues, Jobs
<1> QED BY <1>2, <1>5 DEF RetryCarried, said, n

\* A timeout reaches the engine, rounded up where it counts whole seconds.
LEMMA TimeoutIsCarried ==
    ASSUME NEW a \in Adapters, NEW s, WellFormed(s), NEW lag \in Nat,
           Missing(a, RequiredCapabilities(s)) = {}
    PROVE  TimeoutCarried(s, Request(a, s, 0, lag))
<1> SUFFICES ASSUME NEW t \in s.timeout
             PROVE  \E x \in Request(a, s, 0, lag).timeout : t - 10 < x /\ x <= t
  BY DEF TimeoutCarried
<1>1. a \in Jobs \union {"subprocess"} /\ t \in Int
  BY Validated, Advertisers DEF WellFormed
<1>2. Request(a, s, 0, lag).timeout \in {s.timeout, Whole(s.timeout)}
  <2>1. CASE a = "subprocess"
    BY <2>1, JobFields DEF JobRequest
  <2>2. CASE a \in Jobs
    <3>1. a = "cloudrun" => Request(a, s, 0, lag).timeout = Whole(s.timeout)
      BY JobFields DEF JobRequest
    <3>2. a = "kubernetes" => Request(a, s, 0, lag).timeout = Whole(s.timeout)
      BY JobFields DEF JobRequest
    <3>3. a = "batch" => Request(a, s, 0, lag).timeout = Whole(s.timeout)
      BY JobFields DEF JobRequest
    <3>4. a = "containerapps" => Request(a, s, 0, lag).timeout = Whole(s.timeout)
      BY JobFields DEF JobRequest
    <3> QED BY <2>2, <3>1, <3>2, <3>3, <3>4 DEF Jobs
  <2> QED BY <1>1, <2>1, <2>2
<1>3. (t \div 10) * 10 \in Whole(s.timeout)
  BY DEF Whole
<1>4. t - 10 < (t \div 10) * 10 /\ (t \div 10) * 10 <= t /\ t - 10 < t
  BY <1>1
<1> QED BY <1>1, <1>2, <1>3, <1>4

\* A memory of x KiB stands for one of y KiB.
Near(x, y) == x > y - 5244 /\ 10 * x <= 11 * y + 52440

\* A quantity, counted in KiB, is near what it says in bytes.
LEMMA KiBOf ==
    ASSUME NEW q
    PROVE  /\ q.unit = "Gi" => KiB(q) = q.n * 1048576
           /\ q.unit = "Mi" => KiB(q) = q.n * 1024
           /\ q.unit = "Ki" => KiB(q) = q.n
           /\ q.unit = "G" => KiB(q) = (q.n * 1953125) \div 2
           /\ q.unit = "M" => KiB(q) = (q.n * 15625) \div 16
           /\ q.unit = "bytes" => KiB(q) = q.n \div 1024
           /\ q.unit = "cGi" => KiB(q) = (q.n * 1048576) \div 100
<1>1. q.unit = "Gi" => KiB(q) = q.n * 1048576
  BY SMT DEF KiB
<1>2. q.unit = "Mi" => KiB(q) = q.n * 1024
  BY SMT DEF KiB
<1>3. q.unit = "Ki" => KiB(q) = q.n
  BY SMT DEF KiB
<1>4. q.unit = "G" => KiB(q) = (q.n * 1953125) \div 2
  BY SMT DEF KiB
<1>5. q.unit = "M" => KiB(q) = (q.n * 15625) \div 16
  BY SMT DEF KiB
<1>6. q.unit = "bytes" => KiB(q) = q.n \div 1024
  BY SMT DEF KiB
<1>7. q.unit = "cGi" => KiB(q) = (q.n * 1048576) \div 100
  BY SMT DEF KiB
<1> QED BY SMT, <1>1, <1>2, <1>3, <1>4, <1>5, <1>6, <1>7

\* The two conversions.
LEMMA ConvertedOf ==
    ASSUME NEW q
    PROVE  /\ q.unit = "Gi" => /\ Mib(q) = [n |-> q.n * 1024, unit |-> "Mi"]
                               /\ Gib(q) = [n |-> q.n * 100, unit |-> "cGi"]
           /\ q.unit \in {"Mi", "M"} =>
                  /\ Mib(q) = [n |-> q.n, unit |-> "Mi"]
                  /\ Gib(q) = [n |-> Rounded(q.n * 100, 1024), unit |-> "cGi"]
           /\ q.unit = "G" =>
                  /\ Mib(q) = [n |-> q.n * 1000, unit |-> "Mi"]
                  /\ Gib(q) = [n |-> Rounded(q.n * 100000, 1024), unit |-> "cGi"]
           /\ q.unit = "Ki" => Mib(q) = q
           /\ q.unit = "bytes" => Mib(q) = [n |-> q.n, unit |-> "Mi"]
           /\ q.unit \in {"Ki", "bytes"} => Gib(q) = q
  BY DEF Mib, Gib

\* A conversion to whole MiB or tenths of GiB keeps a memory near.
LEMMA ConvertedKiB ==
    ASSUME NEW x
    PROVE  /\ KiB([n |-> x, unit |-> "Mi"]) = x * 1024
           /\ KiB([n |-> x, unit |-> "cGi"]) = (x * 1048576) \div 100
<1>1. \A q : q.unit = "Mi" => KiB(q) = q.n * 1024
  BY SMT, KiBOf
<1>2. \A q : q.unit = "cGi" => KiB(q) = (q.n * 1048576) \div 100
  BY SMT, KiBOf
<1> QED BY <1>1, <1>2

\* A quantity in the unit of the engine is within what the rounding may take,
\* but for the bytes that Batch takes for MiB.
LEMMA QuantityIsCarried ==
    ASSUME NEW q, q.n \in Nat, q.unit \in {"Gi", "Mi", "Ki", "G", "M", "bytes"}
    PROVE  /\ Near(KiB(q), KiB(q)) /\ Near(KiB(Gib(q)), KiB(q))
           /\ KiB(Mib(q)) > KiB(q) - 5244
           /\ q.unit # "bytes" => Near(KiB(Mib(q)), KiB(q))
<1> DEFINE k == q.n
<1>1. \A x \in Nat : Near(x, x)
  BY SMT DEF Near
<1>2. CASE q.unit = "Gi"
  <2>1. KiB(q) = k * 1048576
    BY SMT, <1>2, KiBOf
  <2>2. KiB(Mib(q)) = (k * 1024) * 1024
    <3>1. Mib(q).n = k * 1024 /\ Mib(q).unit = "Mi"
      BY <1>2, ConvertedOf
    <3> QED BY SMT, <3>1, KiBOf
  <2>3. KiB(Gib(q)) = ((k * 100) * 1048576) \div 100
    <3>1. Gib(q).n = k * 100 /\ Gib(q).unit = "cGi"
      BY <1>2, ConvertedOf
    <3> QED BY SMT, <3>1, KiBOf
  <2> HIDE DEF k
  <2>4. k \in Nat
    BY SMT DEF k
  <2>5. (k * 1024) * 1024 = k * 1048576
    BY SMT, <2>4
  <2>6. ((k * 100) * 1048576) \div 100 = k * 1048576
    BY SMT, <2>4
  <2> QED BY SMT, <1>1, <1>2, <2>1, <2>2, <2>3, <2>4, <2>5, <2>6
<1>3. CASE q.unit = "Mi"
  <2>1. KiB(q) = k * 1024
    BY SMT, <1>3, KiBOf
  <2>2. KiB(Mib(q)) = k * 1024
    <3>1. Mib(q).n = k /\ Mib(q).unit = "Mi"
      BY <1>3, ConvertedOf
    <3> QED BY SMT, <3>1, KiBOf
  <2>3. KiB(Gib(q)) = (Rounded(k * 100, 1024) * 1048576) \div 100
    <3>1. Gib(q).n = Rounded(k * 100, 1024) /\ Gib(q).unit = "cGi"
      BY <1>3, ConvertedOf
    <3> QED BY SMT, <3>1, KiBOf
  <2> HIDE DEF k
  <2>4. k \in Nat
    BY SMT DEF k
  <2>5. LET r == (2 * (k * 100) + 1024) \div (2 * 1024)
            x == (r * 1048576) \div 100
        IN  x > k * 1024 - 5244 /\ 10 * x <= 11 * (k * 1024) + 52440
    BY SMT, <2>4
  <2>6. Near(KiB(Gib(q)), KiB(q))
    BY SMT, <2>1, <2>3, <2>5 DEF Near, Rounded
  <2>7. KiB(q) \in Nat
    BY SMT, <2>1, <2>4
  <2> QED BY SMT, <1>1, <2>1, <2>2, <2>6, <2>7 DEF Near
<1>4. CASE q.unit \in {"Ki", "bytes"}
  <2>1. Gib(q) = q
    BY SMT, <1>4, ConvertedOf
  <2>2. q.unit = "Ki" => Mib(q) = q /\ KiB(q) = k
    BY SMT, ConvertedOf, KiBOf
  <2>3. q.unit = "bytes" => KiB(q) = k \div 1024 /\ KiB(Mib(q)) = k * 1024
    BY SMT, ConvertedOf, ConvertedKiB, KiBOf
  <2> HIDE DEF k
  <2>4. k \in Nat
    BY SMT DEF k
  <2>5. k \div 1024 \in Nat /\ k * 1024 > (k \div 1024) - 5244
    BY SMT, <2>4
  <2>6. KiB(q) \in Nat
    BY SMT, <1>4, <2>2, <2>3, <2>4, <2>5
  <2> QED BY SMT, <1>1, <1>4, <2>1, <2>2, <2>3, <2>5, <2>6 DEF Near
<1>5. CASE q.unit = "G"
  <2>1. KiB(q) = (k * 1953125) \div 2
    BY SMT, <1>5, KiBOf
  <2>2. KiB(Mib(q)) = (k * 1000) * 1024
    <3>1. Mib(q).n = k * 1000 /\ Mib(q).unit = "Mi"
      BY <1>5, ConvertedOf
    <3> QED BY SMT, <3>1, KiBOf
  <2>3. KiB(Gib(q)) = (Rounded(k * 100000, 1024) * 1048576) \div 100
    <3>1. Gib(q).n = Rounded(k * 100000, 1024) /\ Gib(q).unit = "cGi"
      BY <1>5, ConvertedOf
    <3> QED BY SMT, <3>1, KiBOf
  <2> HIDE DEF k
  <2>4. k \in Nat
    BY SMT DEF k
  <2>5. LET r == (2 * (k * 100000) + 1024) \div (2 * 1024)
            x == (r * 1048576) \div 100
            y == (k * 1953125) \div 2
        IN  x > y - 5244 /\ 10 * x <= 11 * y + 52440 /\ y \in Nat
    BY SMT, <2>4
  <2>6. LET x == (k * 1000) * 1024
            y == (k * 1953125) \div 2
        IN  x > y - 5244 /\ 10 * x <= 11 * y + 52440
    BY SMT, <2>4
  <2>7. Near(KiB(Gib(q)), KiB(q)) /\ KiB(q) \in Nat
    BY SMT, <2>1, <2>3, <2>5 DEF Near, Rounded
  <2>8. Near(KiB(Mib(q)), KiB(q))
    BY SMT, <2>1, <2>2, <2>6 DEF Near
  <2> QED BY SMT, <1>1, <2>7, <2>8 DEF Near
<1>6. CASE q.unit = "M"
  <2>1. KiB(q) = (k * 15625) \div 16
    BY SMT, <1>6, KiBOf
  <2>2. KiB(Mib(q)) = k * 1024
    <3>1. Mib(q).n = k /\ Mib(q).unit = "Mi"
      BY <1>6, ConvertedOf
    <3> QED BY SMT, <3>1, KiBOf
  <2>3. KiB(Gib(q)) = (Rounded(k * 100, 1024) * 1048576) \div 100
    <3>1. Gib(q).n = Rounded(k * 100, 1024) /\ Gib(q).unit = "cGi"
      BY <1>6, ConvertedOf
    <3> QED BY SMT, <3>1, KiBOf
  <2> HIDE DEF k
  <2>4. k \in Nat
    BY SMT DEF k
  <2>5. LET r == (2 * (k * 100) + 1024) \div (2 * 1024)
            x == (r * 1048576) \div 100
            y == (k * 15625) \div 16
        IN  x > y - 5244 /\ 10 * x <= 11 * y + 52440 /\ y \in Nat
    BY SMT, <2>4
  <2>6. LET y == (k * 15625) \div 16
        IN  k * 1024 > y - 5244 /\ 10 * (k * 1024) <= 11 * y + 52440
    BY SMT, <2>4
  <2>7. Near(KiB(Gib(q)), KiB(q)) /\ KiB(q) \in Nat
    BY SMT, <2>1, <2>3, <2>5 DEF Near, Rounded
  <2>8. Near(KiB(Mib(q)), KiB(q))
    BY SMT, <2>1, <2>2, <2>6 DEF Near
  <2> QED BY SMT, <1>1, <2>7, <2>8 DEF Near
<1> QED BY SMT, <1>2, <1>3, <1>4, <1>5, <1>6

\* Whatever unit an engine counts in, the memory it hears is near the one asked.
LEMMA MemoryIsCarried ==
    ASSUME NEW a \in Adapters, NEW s, WellFormed(s), NEW lag \in Nat,
           Missing(a, RequiredCapabilities(s)) = {}
    PROVE  MemoryCarried(s, Request(a, s, 0, lag))
<1> SUFFICES ASSUME NEW q \in s.memory
             PROVE  \E m \in Request(a, s, 0, lag).memory :
                       /\ KiB(m) > KiB(q) - 5244
                       /\ 10 * KiB(m) <= 11 * KiB(q) + 52440 \/ q.unit = "bytes"
  <2> DEFINE r == Request(a, s, 0, lag)
  <2> HIDE DEF r
  <2> QED BY DEF MemoryCarried, r
<1>1. a \in {"kubernetes", "batch", "containerapps"}
  BY Validated, Advertisers DEF Jobs
<1>2. q.n \in Nat /\ q.unit \in {"Gi", "Mi", "Ki", "G", "M", "bytes"}
  BY DEF WellFormed, HasType
<1>3. \E m \in {q, Mib(q), Gib(q)} : m \in Request(a, s, 0, lag).memory
  BY <1>1, JobFields
<1>4. \A m \in {q, Mib(q), Gib(q)} : KiB(m) > KiB(q) - 5244 /\ (Near(KiB(m), KiB(q)) \/ q.unit = "bytes")
  BY <1>2, QuantityIsCarried DEF Near
<1> QED BY <1>3, <1>4 DEF Near

\* What the property asks of one accepted request.
Carries(a, s, r, lag) ==
    /\ s.kind = Kind(a)
    /\ DelayCarried(a, s, r, lag)
    /\ RetryCarried(a, s, r)
    /\ TimeoutCarried(s, r)
    /\ MemoryCarried(s, r)
    /\ s.priority # 0 => r.priority = {s.priority}
    /\ Cardinality(r.key) >= Cardinality(s.idempotency_key)
    /\ s.parallelism > 1 => r.tasks = {s.parallelism}
    /\ s.cpu \subseteq r.cpu
    /\ s.gpu > 0 => r.gpu = {s.gpu}
    /\ s.env => r.env # {}
    /\ s.kind = "task" => r.correlation = s.correlation /\ s.correlation # {}

\* A key stays one: it is sent as it is, or made a name.
LEMMA KeyIsCarried ==
    ASSUME NEW a \in Adapters, NEW s, WellFormed(s), NEW lag \in Nat,
           Missing(a, RequiredCapabilities(s)) = {}
    PROVE  Cardinality(Request(a, s, 0, lag).key) >= Cardinality(s.idempotency_key)
<1> DEFINE given == s.idempotency_key
           key == Request(a, s, 0, lag).key
<1>1. /\ s.idempotency_key # {} => a \in {"procrastinate", "fifo", "servicebus", "cloudtasks"}
      /\ \/ s.idempotency_key = {}
         \/ \E k \in s.idempotency_key : s.idempotency_key = {k}
  BY Validated, Advertisers DEF WellFormed, HasType
<1>2. /\ a \in {"procrastinate", "fifo", "servicebus"} => key = given
      /\ a = "cloudtasks" => key = {SafeName(k) : k \in given}
      /\ a \in Adapters \ {"procrastinate", "fifo", "servicebus", "cloudtasks"} => key = {}
  <2>1. /\ a \in {"procrastinate", "fifo", "servicebus"} => key = given
        /\ a = "cloudtasks" => key = {SafeName(k) : k \in given}
        /\ a \in {"inline", "process", "thread", "celery", "dramatiq", "sqs"} => key = {}
    BY TaskFields
  <2>2. a \in Jobs \union {"subprocess"} => key = {}
    <3>1. /\ a = "subprocess" => key = {}
          /\ a = "cloudrun" => key = {}
      BY JobFields DEF JobRequest
    <3>2. /\ a = "kubernetes" => key = {}
          /\ a = "batch" => key = {}
      BY JobFields DEF JobRequest
    <3>3. a = "containerapps" => key = {}
      BY JobFields DEF JobRequest
    <3> QED BY <3>1, <3>2, <3>3 DEF Jobs
  <2> QED BY <2>1, <2>2 DEF Adapters, Local, Brokers, Queues
<1> HIDE DEF key
<1>3. CASE given = {}
  <2>1. key = {}
    BY <1>2, <1>3
  <2>2. Cardinality(given) = 0 /\ Cardinality(key) = 0
    BY <1>3, <2>1, FS_EmptySet
  <2> QED BY <2>2 DEF key
<1>4. CASE given # {}
  <2>1. PICK k \in given : given = {k}
    BY <1>1, <1>4
  <2>2. key \in {{k}, {SafeName(k)}}
    <3>1. {SafeName(x) : x \in given} = {SafeName(k)}
      BY <2>1
    <3> QED BY <1>1, <1>2, <1>4, <2>1, <3>1
  <2>3. Cardinality(given) = 1 /\ Cardinality(key) = 1
    BY <2>1, <2>2, FS_Singleton
  <2> QED BY <2>3 DEF key
<1> QED BY <1>3, <1>4

\* What a job asks for in numbers is in the request.
LEMMA ResourcesAreCarried ==
    ASSUME NEW a \in Adapters, NEW s, WellFormed(s), NEW lag \in Nat,
           Missing(a, RequiredCapabilities(s)) = {}
    PROVE  LET r == Request(a, s, 0, lag) IN
           /\ s.priority # 0 => r.priority = {s.priority}
           /\ s.parallelism > 1 => r.tasks = {s.parallelism}
           /\ s.cpu \subseteq r.cpu
           /\ s.gpu > 0 => r.gpu = {s.gpu}
           /\ s.env => r.env # {}
<1> DEFINE r == Request(a, s, 0, lag)
<1>1. s.priority # 0 => r.priority = {s.priority}
  <2>1. s.priority # 0 => a \in {"celery", "procrastinate"}
    BY Validated, Advertisers
  <2>2. a \in {"celery", "procrastinate"} => r.priority = {s.priority}
    BY TaskFields
  <2> QED BY <2>1, <2>2
<1>2. /\ a \in Jobs => JobRequest(r, s)
      /\ a \in Jobs \union {"subprocess"} => r.env = Env(s)
  <2>1. a = "subprocess" => r.env = Env(s)
    BY JobFields
  <2>2. a = "cloudrun" => JobRequest(r, s)
    BY JobFields
  <2>3. a = "kubernetes" => JobRequest(r, s)
    BY JobFields
  <2>4. a = "batch" => JobRequest(r, s)
    BY JobFields
  <2>5. a = "containerapps" => JobRequest(r, s)
    BY JobFields
  <2> HIDE DEF r
  <2> QED BY <2>1, <2>2, <2>3, <2>4, <2>5 DEF Jobs, JobRequest
<1>3. /\ a \in {"kubernetes", "batch", "containerapps"} => r.cpu = s.cpu
      /\ a \in {"kubernetes", "batch"} => r.gpu = Positive(s.gpu)
  BY JobFields
<1> HIDE DEF r
<1>4. s.parallelism > 1 => r.tasks = {s.parallelism}
  <2>1. s.parallelism > 1 => a \in Jobs
    BY Validated, Advertisers
  <2> QED BY <1>2, <2>1 DEF JobRequest, Some
<1>5. s.cpu \subseteq r.cpu
  <2>1. s.cpu # {} => a \in {"kubernetes", "batch", "containerapps"}
    BY Validated, Advertisers DEF Jobs
  <2> QED BY <1>3, <2>1
<1>6. s.gpu > 0 => r.gpu = {s.gpu}
  <2>1. s.gpu > 0 => a \in {"kubernetes", "batch"}
    BY Validated, Advertisers
  <2> QED BY <1>3, <2>1 DEF Positive
<1>7. s.env => r.env # {}
  <2>1. s.env => a \in Jobs \union {"subprocess"}
    BY Validated, Advertisers
  <2> QED BY <1>2, <2>1 DEF Env
<1> QED BY <1>1, <1>4, <1>5, <1>6, <1>7 DEF r

\* Everything the spec needs is in the request of a backend that lets it through.
LEMMA RequestCarries ==
    ASSUME NEW a \in Adapters, NEW s, WellFormed(s), NEW lag \in Nat,
           s.kind = Kind(a), s.correlation # {},
           Missing(a, RequiredCapabilities(s)) = {}
    PROVE  Carries(a, s, Request(a, s, 0, lag), lag)
<1> DEFINE r == Request(a, s, 0, lag)
<1>1. /\ DelayCarried(a, s, r, lag) /\ RetryCarried(a, s, r)
      /\ TimeoutCarried(s, r) /\ MemoryCarried(s, r)
  BY DelayIsCarried, RetryIsCarried, TimeoutIsCarried, MemoryIsCarried
<1>2. Cardinality(r.key) >= Cardinality(s.idempotency_key)
  BY KeyIsCarried
<1>3. /\ s.priority # 0 => r.priority = {s.priority}
      /\ s.parallelism > 1 => r.tasks = {s.parallelism}
      /\ s.cpu \subseteq r.cpu
      /\ s.gpu > 0 => r.gpu = {s.gpu}
      /\ s.env => r.env # {}
  BY ResourcesAreCarried
<1>4. s.kind = "task" => r.correlation = s.correlation
  <2>1. s.kind = "task" => a \in Adapters \ ({"inline", "subprocess"} \union Jobs)
    BY DEF Kind
  <2>2. a \in Adapters \ ({"inline", "subprocess"} \union Jobs) => r.correlation = s.correlation
    <3>1. a \in {"process", "thread", "celery", "procrastinate", "dramatiq", "sqs", "fifo",
                 "servicebus", "cloudtasks"} => r.correlation = s.correlation
      BY TaskFields
    <3> QED BY <3>1 DEF Adapters, Local, Brokers, Queues
  <2> QED BY <2>1, <2>2
<1> HIDE DEF r
<1>5. Carries(a, s, r, lag)
  BY <1>1, <1>2, <1>3, <1>4 DEF Carries
<1> QED BY <1>5 DEF r

-----------------------------------------------------------------------------
(* The frames. *)

\* The steps of a frame, one after the other.
LEMMA AroundOrder ==
    ASSUME NEW x, NEW y, NEW z, NEW a, NEW b, NEW c
    PROVE  LET s == <<a, b>> \o <<x, y, z>> \o <<c>> IN
           /\ DOMAIN s = 1 .. 6 /\ s[1] = a /\ s[2] = b /\ s[3] = x /\ s[4] = y /\ s[5] = z /\ s[6] = c
<1> DEFINE S == {a, b, c, x, y, z}
           s == <<a, b>>
           t == <<x, y, z>>
           u == <<c>>
           v == s \o t
           w == v \o u
<1>1. Len(s) = 2 /\ s[1] = a /\ s[2] = b /\ Len(t) = 3 /\ t[1] = x /\ t[2] = y /\ t[3] = z /\ Len(u) = 1 /\ u[1] = c
  OBVIOUS
<1>2. s \in Seq(S) /\ t \in Seq(S) /\ u \in Seq(S)
  OBVIOUS
<1> HIDE DEF s, t, u, S
<1>3. v \in Seq(S) /\ Len(v) = 5 /\ v[1] = a /\ v[2] = b /\ v[3] = x /\ v[4] = y /\ v[5] = z
  <2>1. /\ v \in Seq(S) /\ Len(v) = Len(s) + Len(t)
        /\ \A i \in 1 .. Len(s) + Len(t) : v[i] = IF i <= Len(s) THEN s[i] ELSE t[i - Len(s)]
    BY <1>2, ConcatProperties
  <2> HIDE DEF v
  <2> QED BY <1>1, <2>1
<1> HIDE DEF v
<1>4. w \in Seq(S) /\ Len(w) = 6 /\ w[1] = a /\ w[2] = b /\ w[3] = x /\ w[4] = y /\ w[5] = z /\ w[6] = c
  <2>1. /\ w \in Seq(S) /\ Len(w) = Len(v) + Len(u)
        /\ \A i \in 1 .. Len(v) + Len(u) : w[i] = IF i <= Len(v) THEN v[i] ELSE u[i - Len(v)]
    BY <1>2, <1>3, ConcatProperties
  <2> HIDE DEF w
  <2> QED BY <1>1, <1>3, <2>1
<1> HIDE DEF w
<1>5. DOMAIN w = 1 .. 6
  BY <1>4
<1> QED BY <1>4, <1>5 DEF v, w, s, t, u

\* The steps are six, each once, the last of them "send" and "after"; "before"
\* comes after "validate", and before what the frame reports as an error.
IsFrame(f) ==
    /\ DOMAIN f.steps = 1 .. 6 /\ f.steps[5] = "send" /\ f.steps[6] = "after"
    /\ f.guarded \subseteq {"connect", "build", "send"} /\ "send" \in f.guarded
    /\ f.native \/ "build" \in f.guarded
    /\ \/ /\ f.steps[1] = "validate" /\ f.steps[2] = "before"
          /\ \/ f.steps[3] = "build" /\ f.steps[4] = "connect"
             \/ f.steps[3] = "connect" /\ f.steps[4] = "build"
          /\ "connect" \in f.guarded
       \/ /\ f.steps[1] = "connect" /\ f.steps[2] = "validate"
          /\ f.steps[3] = "before" /\ f.steps[4] = "build"
          /\ "connect" \notin f.guarded

\* Every adapter's frame is one, on either surface.
LEMMA FramesAre ==
    ASSUME NEW a, NEW surface, NEW f \in Frames(a, surface)
    PROVE  IsFrame(f)
<1>1. IsFrame(SqsSubmit)
  BY AroundOrder DEF IsFrame, SqsSubmit, Around
<1>2. IsFrame(Around(<<"connect", "build", "send">>))
  BY AroundOrder DEF IsFrame, Around
<1>3. \A x : IsFrame(Submit(x))
  BY <1>1, <1>2 DEF Submit, SqsSubmit, ServiceBusSubmit, CloudTasksSubmit
<1>4. IsFrame(SqsAsubmit) /\ IsFrame(ServiceBusAsubmit) /\ IsFrame(CloudTasksAsubmit)
  BY DEF IsFrame, SqsAsubmit, ServiceBusAsubmit, CloudTasksAsubmit, Native
<1>5. IsFrame(ProcrastinateAsubmit) /\ IsFrame(CloudRunAsubmit)
  BY DEF IsFrame, ProcrastinateAsubmit, CloudRunAsubmit, Native
<1>6. IsFrame(Asubmit(a))
  BY <1>3, <1>4, <1>5 DEF Asubmit
<1> QED BY <1>3, <1>6 DEF Frames

\* The step that is certain to raise; a frame that has none is sent only when
\* nothing the spec needs is missing.
LEMMA StopsIs ==
    ASSUME NEW f, IsFrame(f), NEW a, NEW s, NEW options, NEW lag
    PROVE  /\ Stops(f, a, s, options, lag) \in {"validate", "connect", "build", "after"}
           /\ Stops(f, a, s, options, lag) = "after" => Missing(a, RequiredCapabilities(s)) = {}
<1> DEFINE fails == If("validate", Missing(a, RequiredCapabilities(s)) # {})
                        \union If("connect", ~(NeedsToSubmit(a) \subseteq options))
                        \union If("build", ~Makes(a, s, 0, lag))
                        \union {"after"}
           First(i) == f.steps[i] \in fails /\ \A j \in 1 .. i - 1 : f.steps[j] \notin fails
           k == CHOOSE i \in DOMAIN f.steps : First(i)
<1>1. Stops(f, a, s, options, lag) = f.steps[k]
  BY DEF Stops
<1>2. fails \subseteq {"validate", "connect", "build", "after"} /\ "after" \in fails
      /\ ("validate" \notin fails => Missing(a, RequiredCapabilities(s)) = {})
  BY DEF If
<1> HIDE DEF fails
<1>3. \E i \in 1 .. 6 : First(i)
  <2>1. f.steps[6] \in fails
    BY <1>2 DEF IsFrame
  <2>2. 1 .. 0 = {} /\ 1 .. 1 = {1} /\ 1 .. 2 = {1, 2} /\ 1 .. 3 = {1, 2, 3}
        /\ 1 .. 4 = {1, 2, 3, 4} /\ 1 .. 5 = {1, 2, 3, 4, 5} /\ 1 .. 6 = {1, 2, 3, 4, 5, 6}
    OBVIOUS
  <2>3. /\ f.steps[1] \in fails => First(1)
        /\ f.steps[2] \in fails /\ f.steps[1] \notin fails => First(2)
        /\ f.steps[3] \in fails /\ (\A j \in {1, 2} : f.steps[j] \notin fails) => First(3)
    BY <2>2
  <2>4. /\ f.steps[4] \in fails /\ (\A j \in {1, 2, 3} : f.steps[j] \notin fails) => First(4)
        /\ f.steps[5] \in fails /\ (\A j \in {1, 2, 3, 4} : f.steps[j] \notin fails) => First(5)
        /\ (\A j \in {1, 2, 3, 4, 5} : f.steps[j] \notin fails) => First(6)
    BY <2>1, <2>2
  <2> HIDE DEF First
  <2> QED BY <2>2, <2>3, <2>4
<1>4. k \in 1 .. 6 /\ First(k)
  <2>1. DOMAIN f.steps = 1 .. 6
    BY DEF IsFrame
  <2> HIDE DEF First
  <2> QED BY <1>3, <2>1
<1> HIDE DEF k
<1>5. f.steps[k] = "after" => "validate" \notin fails
  <2> SUFFICES ASSUME f.steps[k] = "after" PROVE "validate" \notin fails
    OBVIOUS
  <2>1. k = 6
    BY <1>4 DEF IsFrame
  <2>2. f.steps[1] \notin fails /\ f.steps[2] \notin fails
    BY <1>4, <2>1
  <2> QED BY <2>2 DEF IsFrame
<1> QED BY <1>1, <1>2, <1>4, <1>5

\* Where a submission may stop, and what that says.
LEMMA MayStopIs ==
    ASSUME NEW f, IsFrame(f), NEW certain \in {"validate", "connect", "build", "after"},
           NEW stop \in MayStop(f, certain)
    PROVE  /\ stop \in {"validate", "connect", "build", "send", "after"}
           /\ stop \in {"send", "after"} => certain = "after"
<1>1. stop \in {certain, "connect", "send"}
  BY DEF MayStop
<1>2. ASSUME stop = "send" PROVE certain = "after"
  <2>1. PICK i \in 1 .. 6, j \in 1 .. 6 : i < j /\ f.steps[i] = "send" /\ f.steps[j] = certain
    <3>1. DOMAIN f.steps = 1 .. 6
      BY DEF IsFrame
    <3> QED BY <1>2, <3>1 DEF MayStop
  <2>2. i = 5
    BY <2>1 DEF IsFrame
  <2>3. j = 6
    BY <2>1, <2>2
  <2> QED BY <2>1, <2>3 DEF IsFrame
<1> QED BY <1>1, <1>2

\* Two notices of one submission.
LEMMA AppendOne ==
    ASSUME NEW x, NEW y
    PROVE  Append(<<x>>, y) = <<x, y>>
<1> DEFINE S == {x, y}
           t == Append(<<x>>, y)
           u == <<x, y>>
<1>1. t = [i \in 1 .. 2 |-> IF i = 2 THEN y ELSE x]
  OBVIOUS
<1>2. u \in Seq(S) /\ Len(u) = 2 /\ u[1] = x /\ u[2] = y
  OBVIOUS
<1> HIDE DEF t, u
<1>3. t \in [1 .. 2 -> S] /\ t[1] = x /\ t[2] = y
  BY <1>1
<1>4. t \in Seq(S) /\ Len(t) = 2
  BY <1>1, <1>3
<1> HIDE DEF S
<1>5. \A i \in 1 .. Len(t) : t[i] = u[i]
  BY <1>2, <1>3, <1>4
<1>6. t = u
  BY <1>2, <1>4, <1>5, SeqEqual
<1> QED BY <1>6 DEF t, u

Listening == {j \in DOMAIN Hooks : Hooks[j] # "deaf"}

\* What a listening hook has heard of a submission that stops there.
LEMMA HeardIs ==
    ASSUME NEW f, IsFrame(f), NEW stop \in {"validate", "connect", "build", "send", "after"},
           NEW raised \in BOOLEAN, NEW i \in Listening
    PROVE  LET told == Heard(f, stop, raised)[i] IN
           /\ DOMAIN Heard(f, stop, raised) = DOMAIN Hooks
           /\ stop = "after" => told = <<"before", "after">>
           /\ stop # "after" =>
                  \/ told = <<>> /\ stop # "send"
                  \/ told = <<"before", "error">>
                  \/ told = <<"before">> /\ (~raised \/ (f.native /\ stop = "build"))
<1> DEFINE at_ == CHOOSE k \in DOMAIN f.steps : f.steps[k] = stop
           Begins == \E k \in 1 .. at_ - 1 : f.steps[k] = "before"
           begun == IF Begins THEN Dispatch("before", Silence) ELSE Silence
<1>1. at_ \in 1 .. 6 /\ f.steps[at_] = stop
  <2>1. \E k \in 1 .. 6 : f.steps[k] = stop
    BY DEF IsFrame
  <2>2. DOMAIN f.steps = 1 .. 6
    BY DEF IsFrame
  <2> QED BY <2>1, <2>2
<1>2. Begins \in BOOLEAN
  OBVIOUS
<1> HIDE DEF at_
<1>3. /\ stop \in {"send", "after"} => Begins
      /\ stop \in {"connect", "build"} /\ stop \in f.guarded => Begins
      /\ stop = "validate" => ~Begins
      /\ stop = "connect" /\ stop \notin f.guarded => ~Begins
  <2>1. f.steps[2] = "before" \/ f.steps[3] = "before"
    BY DEF IsFrame
  <2>2. stop \in {"send", "after"} => at_ \in {5, 6}
    BY <1>1 DEF IsFrame
  <2>3. stop \in {"connect", "build"} /\ stop \in f.guarded =>
            \/ at_ \in {3, 4} /\ f.steps[2] = "before"
            \/ at_ = 4 /\ f.steps[3] = "before"
    BY <1>1 DEF IsFrame
  <2>4. stop = "validate" \/ (stop = "connect" /\ stop \notin f.guarded) =>
            \/ at_ = 1
            \/ at_ = 2 /\ f.steps[1] # "before"
    BY <1>1 DEF IsFrame
  <2>5. /\ stop \in {"send", "after"} => Begins
    BY <1>1, <2>1, <2>2
  <2>6. stop \in {"connect", "build"} /\ stop \in f.guarded => Begins
    BY <1>1, <2>3
  <2>7. stop = "validate" \/ (stop = "connect" /\ stop \notin f.guarded) => ~Begins
    BY <1>1, <2>4
  <2> QED BY <2>5, <2>6, <2>7
<1> HIDE DEF Begins
<1>4. /\ DOMAIN Silence = DOMAIN Hooks /\ Silence[i] = <<>>
      /\ \A event, heard : /\ DOMAIN Dispatch(event, heard) = DOMAIN Hooks
                           /\ Dispatch(event, heard)[i] = Append(heard[i], event)
  BY DEF Silence, Dispatch, Listening
<1>5. begun[i] = (IF Begins THEN <<"before">> ELSE <<>>) /\ DOMAIN begun = DOMAIN Hooks
  BY <1>4
<1>6. Heard(f, stop, raised) =
          IF stop = "after" THEN Dispatch("after", begun)
          ELSE IF raised /\ stop \in f.guarded THEN Dispatch("error", begun) ELSE begun
  BY DEF Heard, at_, Begins
<1> HIDE DEF begun
<1>7. DOMAIN Heard(f, stop, raised) = DOMAIN Hooks
  BY <1>4, <1>5, <1>6
<1>8. CASE stop = "after"
  <2>1. Heard(f, stop, raised)[i] = Append(begun[i], "after") /\ begun[i] = <<"before">>
    BY <1>3, <1>4, <1>5, <1>6, <1>8
  <2>2. Heard(f, stop, raised)[i] = <<"before", "after">>
    BY <2>1, AppendOne
  <2> QED BY <1>7, <1>8, <2>2
<1>9. CASE stop # "after"
  <2>1. CASE raised /\ stop \in f.guarded
    <3>1. Heard(f, stop, raised)[i] = Append(begun[i], "error")
      BY <1>4, <1>6, <1>9, <2>1
    <3>2. begun[i] = <<"before">>
      BY <1>3, <1>5, <1>9, <2>1 DEF IsFrame
    <3>3. Heard(f, stop, raised)[i] = <<"before", "error">>
      BY <3>1, <3>2, AppendOne
    <3> QED BY <1>7, <1>9, <3>3
  <2>2. CASE ~(raised /\ stop \in f.guarded)
    <3>1. Heard(f, stop, raised)[i] = begun[i]
      BY <1>6, <1>9, <2>2
    <3>2. Begins /\ raised => f.native /\ stop = "build"
      BY <1>3, <1>9, <2>2 DEF IsFrame
    <3>3. stop = "send" => Begins
      BY <1>3
    <3> QED BY <1>5, <1>7, <1>9, <3>1, <3>2, <3>3
  <2> QED BY <2>1, <2>2
<1> QED BY <1>8, <1>9

-----------------------------------------------------------------------------
(* The submissions: what is true of each while it is under way. *)

CallFields == {"spec", "routed", "surface", "native", "heard", "request", "lag", "accepted", "why"}

\* A backend in use is one of the package's.
BackendsInv == \A n \in Names : instances[n] # 0 => Adapter(<<n, instances[n]>>) \in Adapters

\* A submission at its backend is of the right kind, with the spec the facade built.
Prepared(c) ==
    /\ Adapter(target[c]) \in Adapters
    /\ \E s \in call[c].spec :
           /\ call[c].spec = {s} /\ WellFormed(s)
           /\ s.kind = Kind(Adapter(target[c])) /\ s.correlation # {}

\* SubmissionsAreBracketed of one caller and one listening hook.
Bracketed(c, i) ==
    LET told == IF call[c].heard = <<>> THEN <<>> ELSE call[c].heard[i]
    IN  /\ pc[c] = "track" => told = <<"before", "after">>
        /\ pc[c] = "refused" =>
               \/ told = <<>> /\ ~call[c].accepted
               \/ told = <<"before", "error">>
               \/ told = <<"before">> /\ call[c].native /\ call[c].why \in {"cancelled", "build"}
               \/ told = <<"before", "after">> /\ call[c].why = "cancelled"

CallInv(c) ==
    /\ DOMAIN call[c] = CallFields
    /\ pc[c] \notin {"track", "refused"} => ~call[c].accepted
    /\ pc[c] = "submit" => Prepared(c)
    /\ call[c].accepted =>
           Carries(Adapter(target[c]), The(call[c].spec), The(call[c].request), call[c].lag)
    /\ \A i \in Listening : Bracketed(c, i)
    /\ deployment.router = {} => (call[c].routed => call[c].why # "undefined")

SInv ==
    /\ IInv
    /\ BackendsInv
    /\ DOMAIN call = Callers
    /\ \A c \in Callers : CallInv(c)

\* The one member of a singleton.
LEMMA TheOf == \A x : The({x}) = x
  BY DEF The

-----------------------------------------------------------------------------
(* Routes and backends. *)

\* A validated configuration names only what it defines.
LEMMA RoutesLead ==
    ASSUME SetupInv, NEW s
    PROVE  Resolve(config, s) \subseteq Configured
<1>1. \A x : config \in Checked(x) => ValidateReferences(config)
  BY DEF Checked
<1>2. config = LocalConfig(deployment.tracked) => ValidateReferences(config)
  <2> SUFFICES ASSUME config = LocalConfig(deployment.tracked) PROVE ValidateReferences(config)
    OBVIOUS
  <2>1. /\ DOMAIN config.backends = {"inline", "thread", "subprocess"}
        /\ config.routes = <<>>
        /\ config.defaults = [inline |-> "inline", task |-> "thread", job |-> "subprocess"]
    BY DEF LocalConfig, Config
  <2>2. DOMAIN config.routes = {}
    BY <2>1
  <2>3. \A kind \in DOMAIN config.defaults :
           config.defaults[kind] \in {"inline", "thread", "subprocess"}
    BY <2>1
  <2> QED BY <2>1, <2>2, <2>3 DEF ValidateReferences
<1>3. \A data, tracked : config \in LoadMapping(data, tracked) => ValidateReferences(config)
  BY <1>1 DEF LoadMapping
<1>4. config \in LoadEnv(deployment.source, deployment.tracked) => ValidateReferences(config)
  BY <1>2, <1>3 DEF LoadEnv
<1>5. deployment.loader \in {"local", "mapping", "env", "given"} /\ config \in Load(deployment)
  BY SubmissionAssumption DEF SetupInv, Within
<1>6. ValidateReferences(config)
  BY <1>1, <1>2, <1>3, <1>4, <1>5 DEF Load
<1> QED BY <1>6 DEF ValidateReferences, Resolve, Configured

\* What is built for a name is one of the package's adapters.
LEMMA BuiltAdapter ==
    ASSUME NEW definition
    PROVE  BuildBackend(definition) \subseteq Adapters
<1>1. \A f \in DOMAIN Builtin : Builtin[f] \in Adapters
  BY DEF Builtin, Adapters, Local
<1>2. \A f : ResolveFactory(f) \subseteq Adapters
  BY <1>1, FactoryAssumption DEF ResolveFactory
<1> QED BY <1>2 DEF BuildBackend

\* A name leads to a backend of the package, whether it is found or built.
LEMMA BackendIs ==
    ASSUME IInv, BackendsInv, NEW c \in Callers, NEW n \in Names, Backend(c, n), UNCHANGED setup
    PROVE  /\ Adapter(<<n, instances'[n]>>) \in Adapters
           /\ BackendsInv'
           /\ target' = [target EXCEPT ![c] = <<n, instances'[n]>>]
<1>1. /\ UNCHANGED cache \/ Builds(n)
      /\ target' = [target EXCEPT ![c] = <<n, instances'[n]>>]
      /\ instances'[n] # 0
  BY BackendBuilds
<1>2. \A i : Adapter(i)' = Adapter(i)
  BY DEF Adapter, Injected, setup
<1>3. DOMAIN instances = Names
  BY DEF IInv, TypeOK
<1>4. CASE instances[n] # 0
  <2>1. instances' = instances
    BY <1>4 DEF Backend, cache
  <2> QED BY <1>1, <1>2, <1>4, <2>1 DEF BackendsInv
<1>5. CASE instances[n] = 0
  <2>1. /\ BuildBackend(config.backends[n]) # {}
        /\ \A m \in Names \ {n} : instances'[m] = instances[m]
    BY <1>3, <1>5 DEF Backend
  <2>2. deployment.injected[n] \in Adapters \/ n \notin Injected
    BY SubmissionAssumption DEF IInv, SetupInv, Within, Injected
  <2>3. The(BuildBackend(config.backends[n])) \in Adapters
    BY <2>1, BuiltAdapter DEF The
  <2>4. Adapter(<<n, instances'[n]>>) \in Adapters
    BY <2>2, <2>3 DEF Adapter
  <2> QED BY <1>1, <1>2, <2>1, <2>4 DEF BackendsInv
<1> QED BY <1>4, <1>5

\* No other step puts a backend in use.
LEMMA BackendsKept ==
    ASSUME BackendsInv, UNCHANGED setup,
           UNCHANGED instances \/ instances' = [n \in Names |-> 0]
    PROVE  BackendsInv'
<1>1. \A i : Adapter(i)' = Adapter(i)
  BY DEF Adapter, Injected, setup
<1> QED BY <1>1 DEF BackendsInv

-----------------------------------------------------------------------------
(* The submission of one caller. *)

\* What a step of another caller leaves alone.
LEMMA OthersKept ==
    ASSUME UNCHANGED setup, NEW d \in Callers, CallInv(d),
           call'[d] = call[d], target'[d] = target[d],
           pc'[d] = pc[d] \/ (~call[d].accepted /\ pc'[d] \notin {"track", "refused", "submit"})
    PROVE  CallInv(d)'
<1>1. Adapter(target[d])' = Adapter(target[d])
  BY DEF Adapter, Injected, setup
<1>2. \A i \in Listening : Bracketed(d, i)'
  BY DEF CallInv, Bracketed
<1>3. pc'[d] = "submit" => Prepared(d)'
  BY <1>1 DEF CallInv, Prepared
<1>4. call'[d].accepted =>
         Carries(Adapter(target[d]), The(call[d].spec), The(call[d].request), call[d].lag)
  BY DEF CallInv
<1> QED BY <1>1, <1>2, <1>3, <1>4 DEF CallInv, setup

\* A submission that its backend has begun.
LEMMA BeginIs ==
    ASSUME NEW c, NEW ask, NEW s, NEW why, Begin(c, ask, s, why)
    PROVE  \E new :
           /\ call' = [call EXCEPT ![c] = new]
           /\ DOMAIN new = CallFields
           /\ new.spec = s /\ (new.routed => ask.backend = {}) /\ new.why = why
           /\ new.heard = <<>> /\ ~new.accepted
<1> DEFINE new == [NoCall EXCEPT !.spec = s, !.routed = ask.backend = {},
                                 !.surface = ask.surface, !.why = why]
<1>1. call' = [call EXCEPT ![c] = new]
  BY DEF Begin
<1>2. /\ DOMAIN new = CallFields
      /\ new.spec = s /\ new.routed = (ask.backend = {}) /\ new.why = why
      /\ new.heard = <<>> /\ new.accepted = FALSE
  BY DEF NoCall, CallFields
<1> HIDE DEF new
<1> QED BY <1>1, <1>2

\* What a submission leaves in its call when it stops at a step of the frame.
LEMMA FramedIs ==
    ASSUME DOMAIN call = Callers, NEW c \in Callers, DOMAIN call[c] = CallFields,
           NEW frame, NEW lag, NEW stop, NEW raised, NEW accepted, NEW why,
           Framed(c, frame, lag, stop, raised, accepted, why)
    PROVE  \E new :
           /\ call' = [call EXCEPT ![c] = new]
           /\ DOMAIN new = CallFields
           /\ new.spec = call[c].spec /\ new.routed = call[c].routed
           /\ new.heard = Heard(frame, stop, raised)
           /\ new.native = frame.native /\ new.accepted = accepted
           /\ new.lag = lag /\ new.why = why
           /\ accepted => new.request = {Request(Adapter(target[c]), The(call[c].spec), 0, lag)}
<1> DEFINE request == IF accepted THEN {Request(Adapter(target[c]), The(call[c].spec), 0, lag)} ELSE {}
           heard == Heard(frame, stop, raised)
           new == [call[c] EXCEPT !.heard = heard, !.native = frame.native, !.accepted = accepted,
                                  !.lag = lag, !.request = request, !.why = why]
<1> HIDE DEF request, heard
<1>1. call' = [call EXCEPT ![c] = new]
  <2>1. call' = [call EXCEPT ![c].heard = heard, ![c].native = frame.native,
                             ![c].accepted = accepted, ![c].lag = lag,
                             ![c].request = request, ![c].why = why]
    BY DEF Framed, request, heard
  <2> QED BY <2>1
<1>2. /\ DOMAIN new = CallFields
      /\ new.spec = call[c].spec /\ new.routed = call[c].routed
      /\ new.heard = heard /\ new.native = frame.native /\ new.accepted = accepted
      /\ new.lag = lag /\ new.why = why /\ new.request = request
  BY DEF CallFields
<1> HIDE DEF new
<1> QED BY <1>1, <1>2 DEF request, heard

\* A submission is asked for.
LEMMA BeginStep ==
    ASSUME SInv, NEW c \in Callers, NEW ask, NEW s, NEW why, Begin(c, ask, s, why),
           UNCHANGED setup,
           \A d \in Callers \ {c} : pc'[d] = pc[d] /\ target'[d] = target[d],
           pc'[c] \in {"submit", "refused"}, pc'[c] = "submit" => Prepared(c)',
           deployment.router = {} => (ask.backend = {} => why # "undefined")
    PROVE  DOMAIN call' = Callers /\ \A d \in Callers : CallInv(d)'
<1>1. /\ DOMAIN call' = Callers
      /\ \A d \in Callers \ {c} : call'[d] = call[d]
      /\ DOMAIN call'[c] = CallFields
      /\ (call'[c].routed => ask.backend = {}) /\ call'[c].why = why
      /\ call'[c].heard = <<>> /\ ~call'[c].accepted
  <2>1. DOMAIN call = Callers
    BY DEF SInv
  <2>2. PICK new :
           /\ call' = [call EXCEPT ![c] = new]
           /\ DOMAIN new = CallFields
           /\ new.spec = s /\ (new.routed => ask.backend = {}) /\ new.why = why
           /\ new.heard = <<>> /\ ~new.accepted
    BY BeginIs
  <2> QED BY <2>1, <2>2
<1>2. \A d \in Callers \ {c} : CallInv(d)'
  BY <1>1, OthersKept DEF SInv
<1>3. \A i \in Listening : Bracketed(c, i)'
  BY <1>1 DEF Bracketed
<1>4. deployment'.router = {} => (call'[c].routed => call'[c].why # "undefined")
  BY <1>1 DEF setup
<1>5. CallInv(c)'
  BY <1>1, <1>3, <1>4 DEF CallInv
<1> QED BY <1>1, <1>2, <1>5

\* The frame of a submission runs, to its end or to where it stops.
LEMMA FrameStep ==
    ASSUME SInv, NEW c \in Callers, pc[c] = "submit",
           NEW surface, NEW frame \in Frames(Adapter(target[c]), surface), NEW lag \in Lag(c),
           NEW stop \in MayStop(frame, Certain(c, frame, lag)),
           NEW raised \in BOOLEAN, NEW accepted \in Acceptance(stop), NEW why,
           Framed(c, frame, lag, stop, raised, accepted, why),
           UNCHANGED <<setup, target>>, why # "undefined",
           \A d \in Callers \ {c} : pc'[d] = pc[d],
           \/ pc'[c] = "track" /\ stop = "after"
           \/ /\ pc'[c] = "refused" /\ why \in {stop, "cancelled"}
              /\ ~raised => frame.native /\ why = "cancelled"
              /\ stop = "after" => why = "cancelled"
    PROVE  DOMAIN call' = Callers /\ \A d \in Callers : CallInv(d)'
<1> DEFINE a == Adapter(target[c])
           r == Request(a, The(call[c].spec), 0, lag)
<1>1. PICK s \in call[c].spec :
         /\ call[c].spec = {s} /\ WellFormed(s) /\ s.kind = Kind(a) /\ s.correlation # {}
         /\ a \in Adapters
  BY DEF SInv, CallInv, Prepared
<1>2. /\ DOMAIN call' = Callers
      /\ \A d \in Callers \ {c} : call'[d] = call[d]
      /\ DOMAIN call'[c] = CallFields
      /\ call'[c].spec = call[c].spec /\ call'[c].routed = call[c].routed
      /\ call'[c].heard = Heard(frame, stop, raised)
      /\ call'[c].native = frame.native /\ call'[c].accepted = accepted
      /\ call'[c].lag = lag /\ call'[c].why = why
      /\ accepted => call'[c].request = {r}
  <2>1. DOMAIN call = Callers /\ DOMAIN call[c] = CallFields
    BY DEF SInv, CallInv
  <2>2. PICK new :
           /\ call' = [call EXCEPT ![c] = new]
           /\ DOMAIN new = CallFields
           /\ new.spec = call[c].spec /\ new.routed = call[c].routed
           /\ new.heard = Heard(frame, stop, raised)
           /\ new.native = frame.native /\ new.accepted = accepted
           /\ new.lag = lag /\ new.why = why
           /\ accepted => new.request = {r}
    BY <2>1, FramedIs
  <2>3. call'[c] = new /\ DOMAIN call' = Callers /\ \A d \in Callers \ {c} : call'[d] = call[d]
    BY <2>1, <2>2
  <2> QED BY <2>2, <2>3
<1>3. \A d \in Callers \ {c} : CallInv(d)'
  BY <1>2, OthersKept DEF SInv
<1>4. The(call[c].spec) = s /\ IsFrame(frame) /\ lag \in Nat
  <2>1. The(call[c].spec) = s
    BY <1>1, TheOf
  <2>2. IsFrame(frame)
    BY FramesAre
  <2>3. lag \in Nat
    <3>1. Lags \subseteq Nat
      BY SubmissionAssumption
    <3> QED BY <3>1 DEF Lag
  <2> QED BY <2>1, <2>2, <2>3
<1>5. /\ Certain(c, frame, lag) \in {"validate", "connect", "build", "after"}
      /\ Certain(c, frame, lag) = "after" => Missing(a, RequiredCapabilities(s)) = {}
  BY <1>4, StopsIs DEF Certain
<1>6. /\ stop \in {"validate", "connect", "build", "send", "after"}
      /\ stop \in {"send", "after"} => Missing(a, RequiredCapabilities(s)) = {}
      /\ accepted => stop \in {"send", "after"}
      /\ accepted \in BOOLEAN
  <2>1. stop \in {"validate", "connect", "build", "send", "after"}
        /\ (stop \in {"send", "after"} => Certain(c, frame, lag) = "after")
    BY <1>4, <1>5, MayStopIs
  <2> QED BY <1>5, <2>1 DEF Acceptance
<1>7. Adapter(target[c])' = a
  BY DEF Adapter, Injected, setup
<1>8. call'[c].accepted =>
         Carries(Adapter(target[c])', The(call'[c].spec), The(call'[c].request), call'[c].lag)
  <2> SUFFICES ASSUME call'[c].accepted
               PROVE  Carries(a, s, The(call'[c].request), lag)
    BY <1>2, <1>4, <1>7
  <2>1. accepted /\ The(call'[c].request) = r /\ r = Request(a, s, 0, lag)
    BY <1>2, <1>4, TheOf
  <2>2. Missing(a, RequiredCapabilities(s)) = {}
    BY <1>6, <2>1
  <2> HIDE DEF a, r
  <2>3. Carries(a, s, Request(a, s, 0, lag), lag)
    BY <1>1, <1>4, <2>2, RequestCarries
  <2> QED BY <2>1, <2>3
<1> HIDE DEF a, r
<1>9. ASSUME NEW i \in Listening PROVE Bracketed(c, i)'
  <2> DEFINE heard == Heard(frame, stop, raised)
  <2>1. /\ DOMAIN heard = DOMAIN Hooks
        /\ stop = "after" => heard[i] = <<"before", "after">>
        /\ stop # "after" =>
               \/ heard[i] = <<>> /\ stop # "send"
               \/ heard[i] = <<"before", "error">>
               \/ heard[i] = <<"before">> /\ (~raised \/ (frame.native /\ stop = "build"))
    BY <1>4, <1>6, HeardIs
  <2> HIDE DEF heard
  <2>2. heard # <<>>
    BY <2>1 DEF Listening
  <2>3. call'[c].heard = heard
    BY <1>2 DEF heard
  <2>4. pc'[c] = "track" => call'[c].heard[i] = <<"before", "after">>
    BY <2>1, <2>3
  <2>5. pc'[c] = "refused" =>
            \/ heard[i] = <<>> /\ ~accepted
            \/ heard[i] = <<"before", "error">>
            \/ heard[i] = <<"before">> /\ frame.native /\ why \in {"cancelled", "build"}
            \/ heard[i] = <<"before", "after">> /\ why = "cancelled"
    BY <1>6, <2>1
  <2> QED BY <1>2, <2>2, <2>3, <2>4, <2>5 DEF Bracketed
<1>10. deployment'.router = {} => (call'[c].routed => call'[c].why # "undefined")
  BY <1>2
<1>11. CallInv(c)'
  BY <1>2, <1>8, <1>9, <1>10 DEF CallInv
<1> QED BY <1>2, <1>3, <1>11

-----------------------------------------------------------------------------
(* The steps of the submissions. *)

\* Nothing is asked for yet.
LEMMA InitSubmissions == Init => SInv
<1> SUFFICES ASSUME Init PROVE SInv
  OBVIOUS
<1>1. IInv
  BY InitInv
<1>2. call = [c \in Callers |-> NoCall] /\ pc = [c \in Callers |-> "idle"]
      /\ instances = [n \in Names |-> IF n \in Injected THEN 1 ELSE 0]
  BY DEF Init, RuntimeInit
<1>3. BackendsInv
  <2> SUFFICES ASSUME NEW n \in Names, instances[n] # 0
               PROVE  Adapter(<<n, instances[n]>>) \in Adapters
    BY DEF BackendsInv
  <2>1. instances[n] = 1 /\ n \in Injected
    BY <1>2
  <2>2. deployment.injected[n] \in Adapters
    BY <1>1, <2>1, SubmissionAssumption DEF IInv, SetupInv, Within, Injected
  <2> QED BY <2>1, <2>2 DEF Adapter
<1>4. DOMAIN NoCall = CallFields /\ NoCall.accepted = FALSE /\ NoCall.routed = FALSE
  BY DEF NoCall, CallFields
<1>5. ASSUME NEW c \in Callers PROVE CallInv(c)
  BY <1>2, <1>4 DEF CallInv, Bracketed
<1> QED BY <1>1, <1>2, <1>3, <1>5 DEF SInv

\* The application asks: the call is refused before its backend, or goes to it.
LEMMA AskStep ==
    ASSUME SInv, NEW c \in Callers, NEW ask \in deployment.asks,
           \/ AskInvalid(c, ask) \/ AskUnroutable(c, ask) \/ AskUndefined(c, ask)
           \/ AskMismatched(c, ask) \/ Ask(c, ask)
    PROVE  BackendsInv' /\ DOMAIN call' = Callers /\ \A d \in Callers : CallInv(d)'
<1>1. /\ pc \in [Callers -> {"idle", "submit", "refused", "track", "lookup", "get", "close"}]
      /\ DOMAIN target = Callers /\ IInv /\ BackendsInv /\ SetupInv /\ DOMAIN call = Callers
  BY DEF SInv, IInv, TypeOK
<1>2. \A s \in Asked(ask) : Route(ask, s) \subseteq Names
  BY <1>1, RouteType
<1>3. CASE AskInvalid(c, ask) \/ AskUnroutable(c, ask) \/ AskUndefined(c, ask)
  <2>1. /\ UNCHANGED <<setup, cache, target>> /\ pc'[c] = "refused"
        /\ \A d \in Callers \ {c} : pc'[d] = pc[d]
    BY <1>1, <1>3 DEF AskInvalid, AskUnroutable, AskUndefined, PrepareRaises, Goto
  <2>2. BackendsInv'
    BY <1>1, <2>1, BackendsKept DEF cache
  <2>3. \E s, why : /\ Begin(c, ask, s, why)
                    /\ deployment.router = {} => (ask.backend = {} => why # "undefined")
    <3>1. CASE AskInvalid(c, ask)
      BY <3>1 DEF AskInvalid
    <3>2. CASE AskUnroutable(c, ask)
      BY <3>2 DEF AskUnroutable
    <3>3. CASE AskUndefined(c, ask)
      <4>1. PICK s \in Asked(ask) : \E n \in Route(ask, s) :
               Begin(c, ask, {s}, IF n \in Configured THEN "unbuildable" ELSE "undefined")
        BY <3>3 DEF AskUndefined
      <4>2. PICK n \in Route(ask, s) :
               Begin(c, ask, {s}, IF n \in Configured THEN "unbuildable" ELSE "undefined")
        BY <4>1
      <4>3. deployment.router = {} /\ ask.backend = {} => n \in Configured
        BY <1>1, <4>2, RoutesLead DEF Route, Router
      <4> QED BY <4>2, <4>3
    <3> QED BY <1>3, <3>1, <3>2, <3>3
  <2>4. DOMAIN call' = Callers /\ \A d \in Callers : CallInv(d)'
    BY <2>1, <2>3, BeginStep
  <2> QED BY <2>2, <2>4
<1>4. CASE AskMismatched(c, ask)
  <2>1. PICK s \in Asked(ask) : \E n \in Route(ask, s) :
           PrepareMismatch(c, n) /\ Begin(c, ask, {s}, "mismatched")
    BY <1>4 DEF AskMismatched
  <2>2. PICK n \in Names : PrepareMismatch(c, n) /\ Begin(c, ask, {s}, "mismatched")
    BY <1>2, <2>1
  <2>3. /\ UNCHANGED setup /\ pc'[c] = "refused" /\ Backend(c, n)
        /\ \A d \in Callers \ {c} : pc'[d] = pc[d]
    BY <1>1, <2>2 DEF PrepareMismatch, Goto
  <2>4. BackendsInv' /\ \A d \in Callers \ {c} : target'[d] = target[d]
    BY <1>1, <2>3, BackendIs
  <2>5. DOMAIN call' = Callers /\ \A d \in Callers : CallInv(d)'
    BY <2>2, <2>3, <2>4, BeginStep
  <2> QED BY <2>4, <2>5
<1>5. CASE Ask(c, ask)
  <2>1. PICK s \in Asked(ask) : \E n \in Route(ask, s) :
           Prepare(c, n) /\ Kind(Adapter(target'[c])) = s.kind
           /\ Begin(c, ask, {Correlated(s)}, None)
    BY <1>5 DEF Ask
  <2>2. PICK n \in Names : Prepare(c, n) /\ Kind(Adapter(target'[c])) = s.kind
                           /\ Begin(c, ask, {Correlated(s)}, None)
    BY <1>2, <2>1
  <2>3. /\ UNCHANGED setup /\ pc'[c] = "submit" /\ Backend(c, n)
        /\ \A d \in Callers \ {c} : pc'[d] = pc[d]
    BY <1>1, <2>2 DEF Prepare, Goto
  <2>4. /\ BackendsInv' /\ \A d \in Callers \ {c} : target'[d] = target[d]
        /\ target'[c] = <<n, instances'[n]>> /\ Adapter(<<n, instances'[n]>>) \in Adapters
    BY <1>1, <2>3, BackendIs
  <2>5. /\ WellFormed(Correlated(s)) /\ Correlated(s).correlation # {}
        /\ Correlated(s).kind = s.kind
    <3>1. IsAsk(ask)
      BY <1>1, SubmissionAssumption DEF SetupInv, Within
    <3>2. WellFormed(s)
      BY <3>1, AskedWellFormed
    <3> QED BY <3>2, CorrelatedWellFormed
  <2>6. call'[c].spec = {Correlated(s)}
    <3>1. PICK new : call' = [call EXCEPT ![c] = new] /\ new.spec = {Correlated(s)}
      BY <2>2, BeginIs
    <3> QED BY <1>1, <3>1
  <2>7. Adapter(target[c])' = Adapter(target'[c])
    BY <2>3 DEF Adapter, Injected, setup
  <2>8. Prepared(c)'
    BY <2>2, <2>4, <2>5, <2>6, <2>7 DEF Prepared
  <2>9. DOMAIN call' = Callers /\ \A d \in Callers : CallInv(d)'
    BY <2>2, <2>3, <2>4, <2>8, BeginStep DEF None
  <2> QED BY <2>4, <2>9
<1> QED BY <1>3, <1>4, <1>5

\* The engine answers, or its caller does not hear of it.
LEMMA EngineStep ==
    ASSUME SInv, NEW c \in Callers,
           \/ \E e \in Executions : EngineAccepts(c, e)
           \/ EngineRefuses(c) \/ CallerCancelled(c)
    PROVE  BackendsInv' /\ DOMAIN call' = Callers /\ \A d \in Callers : CallInv(d)'
<1>1. pc \in [Callers -> {"idle", "submit", "refused", "track", "lookup", "get", "close"}]
      /\ BackendsInv
  BY DEF SInv, IInv, TypeOK
<1>2. CASE \E e \in Executions : EngineAccepts(c, e)
  <2>1. PICK e \in Executions : EngineAccepts(c, e)
    BY <1>2
  <2>2. /\ UNCHANGED <<setup, cache, target>> /\ pc[c] = "submit" /\ pc'[c] = "track"
        /\ \A d \in Callers \ {c} : pc'[d] = pc[d]
    BY <1>1, <2>1 DEF EngineAccepts, TargetSubmit, Goto
  <2>3. PICK lag \in Lag(c), frame \in Frames(Adapter(target[c]), call[c].surface) :
           /\ Certain(c, frame, lag) = "after"
           /\ Framed(c, frame, lag, "after", FALSE, TRUE, None)
    BY <2>1 DEF EngineAccepts
  <2>4. "after" \in MayStop(frame, Certain(c, frame, lag)) /\ TRUE \in Acceptance("after")
        /\ None # "undefined"
    BY <2>3 DEF MayStop, Acceptance, None
  <2>5. DOMAIN call' = Callers /\ \A d \in Callers : CallInv(d)'
    BY <2>2, <2>3, <2>4, FrameStep
  <2> QED BY <1>1, <2>2, <2>5, BackendsKept DEF cache
<1>3. CASE EngineRefuses(c)
  <2>1. /\ UNCHANGED <<setup, cache, target>> /\ pc[c] = "submit" /\ pc'[c] = "refused"
        /\ \A d \in Callers \ {c} : pc'[d] = pc[d]
    BY <1>1, <1>3 DEF EngineRefuses, TargetRefuses, Goto
  <2>2. PICK lag \in Lag(c), frame \in Frames(Adapter(target[c]), call[c].surface) :
        \E stop \in MayStop(frame, Certain(c, frame, lag)) \ {"after"} :
        \E accepted \in Acceptance(stop) :
           Framed(c, frame, lag, stop, TRUE, accepted, stop)
    BY <1>3 DEF EngineRefuses
  <2>3. PICK stop \in MayStop(frame, Certain(c, frame, lag)) \ {"after"} :
        \E accepted \in Acceptance(stop) :
           Framed(c, frame, lag, stop, TRUE, accepted, stop)
    BY <2>2
  <2>4. PICK accepted \in Acceptance(stop) :
           Framed(c, frame, lag, stop, TRUE, accepted, stop)
    BY <2>3
  <2>5. stop # "undefined"
    BY FramesAre, StopsIs, MayStopIs DEF Certain
  <2>6. DOMAIN call' = Callers /\ \A d \in Callers : CallInv(d)'
    BY <2>1, <2>3, <2>4, <2>5, FrameStep
  <2> QED BY <1>1, <2>1, <2>6, BackendsKept DEF cache
<1>4. CASE CallerCancelled(c)
  <2>1. /\ UNCHANGED <<setup, cache, target>> /\ pc[c] = "submit" /\ pc'[c] = "refused"
        /\ \A d \in Callers \ {c} : pc'[d] = pc[d]
    BY <1>1, <1>4 DEF CallerCancelled, TargetRefuses, Goto
  <2>2. PICK lag \in Lag(c), frame \in Frames(Adapter(target[c]), "async") :
        \E stop \in MayStop(frame, Certain(c, frame, lag)) :
        \E accepted \in Acceptance(stop) :
           Framed(c, frame, lag, stop, ~frame.native, accepted, "cancelled")
    BY <1>4 DEF CallerCancelled
  <2>3. PICK stop \in MayStop(frame, Certain(c, frame, lag)) :
        \E accepted \in Acceptance(stop) :
           Framed(c, frame, lag, stop, ~frame.native, accepted, "cancelled")
    BY <2>2
  <2>4. PICK accepted \in Acceptance(stop) :
           Framed(c, frame, lag, stop, ~frame.native, accepted, "cancelled")
    BY <2>3
  <2>5. "cancelled" # "undefined"
    OBVIOUS
  <2>6. DOMAIN call' = Callers /\ \A d \in Callers : CallInv(d)'
    <3>1. CASE frame.native
      <4>1. Framed(c, frame, lag, stop, FALSE, accepted, "cancelled")
        BY <2>4, <3>1
      <4> QED BY <2>1, <2>5, <3>1, <4>1, FrameStep
    <3>2. CASE ~frame.native
      <4>1. Framed(c, frame, lag, stop, TRUE, accepted, "cancelled")
        BY <2>4, <3>2
      <4> QED BY <2>1, <2>5, <3>2, <4>1, FrameStep
    <3> QED BY <3>1, <3>2
  <2> QED BY <1>1, <2>1, <2>6, BackendsKept DEF cache
<1> QED BY <1>2, <1>3, <1>4

\* A call that ends is forgotten.
LEMMA FinishStep ==
    ASSUME SInv, NEW c \in Callers, Finish(c)
    PROVE  BackendsInv' /\ DOMAIN call' = Callers /\ \A d \in Callers : CallInv(d)'
<1>1. /\ pc \in [Callers -> {"idle", "submit", "refused", "track", "lookup", "get", "close"}]
      /\ DOMAIN target = Callers /\ BackendsInv /\ DOMAIN call = Callers
  BY DEF SInv, IInv, TypeOK
<1>2. /\ UNCHANGED <<setup, cache>> /\ pc'[c] = "idle"
      /\ \A d \in Callers \ {c} : pc'[d] = pc[d] /\ target'[d] = target[d]
  BY <1>1 DEF Finish, Refuse, Track, End, Goto
<1>3. call' = [call EXCEPT ![c] = NoCall]
  BY DEF Finish
<1>4. DOMAIN NoCall = CallFields /\ NoCall.accepted = FALSE /\ NoCall.routed = FALSE
  BY DEF NoCall, CallFields
<1>5. /\ DOMAIN call' = Callers /\ call'[c] = NoCall
      /\ \A d \in Callers \ {c} : call'[d] = call[d]
  BY <1>1, <1>3
<1>6. \A d \in Callers \ {c} : CallInv(d)'
  BY <1>2, <1>5, OthersKept DEF SInv
<1>7. CallInv(c)'
  BY <1>2, <1>4, <1>5 DEF CallInv, Bracketed
<1> QED BY <1>1, <1>2, <1>5, <1>6, <1>7, BackendsKept DEF cache

\* What is no submission touches none.
LEMMA OtherStep ==
    ASSUME SInv, NEW c \in Callers, Other(c)
    PROVE  BackendsInv' /\ DOMAIN call' = Callers /\ \A d \in Callers : CallInv(d)'
<1>1. /\ pc \in [Callers -> {"idle", "submit", "refused", "track", "lookup", "get", "close"}]
      /\ DOMAIN target = Callers /\ IInv /\ BackendsInv /\ DOMAIN call = Callers
  BY DEF SInv, IInv, TypeOK
<1>2. /\ UNCHANGED <<setup, call>> /\ pc[c] \notin {"track", "refused", "submit"}
      /\ pc'[c] \notin {"track", "refused", "submit"}
      /\ \A d \in Callers \ {c} : pc'[d] = pc[d]
  BY <1>1 DEF Other, OwnerOf, OwnerBackend, TargetGet, Close, CloseInstance, CloseRaises,
              CloseReturns, End, Goto
<1>3. BackendsInv' /\ \A d \in Callers \ {c} : target'[d] = target[d]
  <2>1. CASE OwnerBackend(c) /\ Backend(c, owner[at[c]])
    <3> DEFINE n == owner[at[c]]
    <3>1. n \in Names
      BY <1>1, <2>1 DEF OwnerBackend, IInv, TypeOK, SubmitInv, IndexInv
    <3> HIDE DEF n
    <3>2. Backend(c, n)
      BY <2>1 DEF n
    <3> QED BY <1>1, <1>2, <3>1, <3>2, BackendIs
  <2>2. CASE ~(OwnerBackend(c) /\ Backend(c, owner[at[c]]))
    <3>1. /\ UNCHANGED instances \/ instances' = [n \in Names |-> 0]
          /\ \A d \in Callers \ {c} : target'[d] = target[d]
      BY <1>1, <2>2 DEF Other, OwnerOf, OwnerBackend, NoBackend, TargetGet, Close, CloseInstance,
                        CloseRaises, CloseReturns, End, cache
    <3> QED BY <1>1, <1>2, <3>1, BackendsKept
  <2> QED BY <2>1, <2>2
<1>4. ASSUME NEW d \in Callers \ {c} PROVE CallInv(d)'
  BY <1>2, <1>3, OthersKept DEF SInv
<1>5. CallInv(c)'
  BY <1>2 DEF SInv, CallInv, Bracketed, setup
<1> QED BY <1>1, <1>2, <1>3, <1>4, <1>5

\* Every step keeps the invariant of the submissions.
LEMMA NextSubmissions == SInv /\ [Next]_vars => SInv'
<1> SUFFICES ASSUME SInv, [Next]_vars PROVE SInv'
  OBVIOUS
<1>1. IInv'
  BY NextInv DEF SInv
<1>2. CASE UNCHANGED vars
  <2>1. UNCHANGED <<setup, instances, target, pc, call>>
    BY <1>2 DEF vars, runtimeVars, setup, cache
  <2>2. BackendsInv'
    BY <2>1, BackendsKept DEF SInv
  <2>3. ASSUME NEW d \in Callers PROVE CallInv(d)'
    BY <2>1, OthersKept DEF SInv
  <2> QED BY <1>1, <2>1, <2>2, <2>3 DEF SInv
<1>3. ASSUME NEW c \in Callers, Submission(c) PROVE SInv'
  BY <1>1, <1>3, AskStep, EngineStep DEF Submission, SInv
<1>4. ASSUME NEW c \in Callers, Finish(c) PROVE SInv'
  BY <1>1, <1>4, FinishStep DEF SInv
<1>5. ASSUME NEW c \in Callers, Other(c) PROVE SInv'
  BY <1>1, <1>5, OtherStep DEF SInv
<1> QED BY <1>2, <1>3, <1>4, <1>5 DEF Next

-----------------------------------------------------------------------------
(* The results. *)

\* The invariant of the runtime is one.
THEOREM Invariance == Spec => []IInv
BY InitInv, NextInv, PTL DEF Spec

\* The runtime's state keeps its type.
THEOREM TypeCorrect == Spec => []TypeOK
<1>1. IInv => TypeOK
  BY DEF IInv
<1> QED BY Invariance, <1>1, PTL

\* Whatever builds, submits, looks up and closes at once: an instance that was
\* ever built is in use, closed, about to be closed, or was given up by a close
\* that raised (Taskferry.backend, Taskferry.close).
THEOREM InstancesCorrect == Spec => []NoInstanceIsLost
<1>1. IInv => NoInstanceIsLost
  BY DEF IInv
<1> QED BY Invariance, <1>1, PTL

\* The index leads from an id to the instance that holds it, whatever was built,
\* evicted and closed in between, keeps to its limit, and forgets no id before
\* it has to (Taskferry._track, Taskferry._owner_of).
THEOREM IndexCorrect == Spec => []IndexIsTrue
<1>1. IInv => IndexIsTrue
  BY DEF IInv, IndexInv, IndexIsTrue, IndexLeadsHome
<1> QED BY Invariance, <1>1, PTL

\* The invariant of the submissions (SInv), on top of that of the runtime.
THEOREM SubmissionsInvariance == Spec => []SInv
BY InitSubmissions, NextSubmissions, PTL DEF Spec

\* Whatever is asked of whatever is configured, and wherever the engine, the
\* clock and a cancelled caller stop a submission: what an engine has accepted
\* says all that the spec needs (BaseBackend.validate and the translation of
\* each adapter), of a backend of the spec's kind, and a validated route leads
\* to a definition (TaskferryConfig._validate_references).
THEOREM IntentCorrect == Spec => []IntentIsCarried
<1>1. SInv => IntentIsCarried
  <2> SUFFICES ASSUME SInv PROVE IntentIsCarried
    OBVIOUS
  <2>1. RoutesAreDefined
    BY DEF SInv, CallInv, RoutesAreDefined
  <2>2. ASSUME NEW c \in Callers, call[c].accepted
        PROVE  Carries(Adapter(target[c]), The(call[c].spec), The(call[c].request), call[c].lag)
    BY <2>2 DEF SInv, CallInv
  <2> QED BY <2>1, <2>2 DEF IntentIsCarried, Carries
<1> QED BY SubmissionsInvariance, <1>1, PTL

\* Every listening hook hears the same of a submission, in the one order, on
\* every adapter's frame and either surface (BaseBackend.submit, asubmit).
THEOREM BracketsCorrect == Spec => []SubmissionsAreBracketed
<1>1. SInv => SubmissionsAreBracketed
  <2> SUFFICES ASSUME SInv PROVE SubmissionsAreBracketed
    OBVIOUS
  <2>1. \A c \in Callers : \A i \in Listening : Bracketed(c, i)
    BY DEF SInv, CallInv
  <2> QED BY <2>1 DEF SubmissionsAreBracketed, Bracketed, Listening
<1> QED BY SubmissionsInvariance, <1>1, PTL

=============================================================================
