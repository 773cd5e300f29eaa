------------------------------ MODULE Runtime ------------------------------
(***************************************************************************)
(* The Taskferry runtime (taskferry/runtime.py) that every thread of an     *)
(* application shares: backends built on first use under the runtime's      *)
(* lock, submissions handed to a backend outside it, the bounded index from *)
(* execution ids to backend names, and close.  The asynchronous surface     *)
(* (taskferry/aio.py) runs the same steps with an await between them.       *)
(*                                                                         *)
(* The n-th instance built under a name is <<name, n>>.  A backend is       *)
(* external here: its close forgets its executions, and after it some       *)
(* refuse work (backends/thread.py, backends/process.py) and some accept it *)
(* (backends/subprocess.py starts the child, backends/inline.py runs).      *)
(***************************************************************************)
EXTENDS BoundedIndex, Configuration, SequencesExt

CONSTANTS Callers,      \* threads, or tasks of an event loop
          Names,        \* the names a backend may be asked for under
          Executions,   \* the ids the backends will mint
          Deployments,  \* applications: see Setup in Submission
          MaxCloses     \* bound on the closes of one behaviour

None == "none"

ASSUME RuntimeAssumption == MaxCloses \in Nat /\ None \notin Names

NoInstance == <<None, 0>>

VARIABLES deployment, \* the application
          config,     \* its configuration, once loaded
          instances,  \* _instances: the instance's number, 0 for none
          builds,     \* instances made so far under each name
          index,      \* keys of _index, oldest first
          owner,      \* the name _track is given for an execution, or None
          returned,   \* executions whose handle submit has returned
          holder,     \* the instance whose records hold an execution
          closed,     \* instances that have been closed
          pc, at, target, todo,
                      \* each thread's position, execution, instance, and the
                      \* instances its close has still to close
          raced,      \* threads whose submit a close has overlapped
          strays,     \* executions tracked by such a submit
          closes,     \* closes so far
          dropped,    \* instances a close that raised did not get to
          answer      \* how each thread's last call ended

setup == <<deployment, config>>

cache == <<instances, builds>>

records == <<owner, holder, closed>>

runtimeVars == <<setup, cache, index, returned, records, pc, at, target, todo,
                 raced, strays, closes, dropped, answer>>

ghosts == <<raced, strays, closes, dropped>>

\* the definitions, the instances handed to the constructor, and the limit
Configured == DOMAIN config.backends

Injected == DOMAIN deployment.injected

Limit == config.max_tracked_executions

\* what an instance is: an injected one, or what its definition builds
Adapter(i) ==
    IF i[1] \in Injected /\ i[2] = 1 THEN deployment.injected[i[1]]
    ELSE The(BuildBackend(config.backends[i[1]]))

RuntimeInit ==
    /\ instances = [n \in Names |-> IF n \in Injected THEN 1 ELSE 0]
    /\ builds = instances
    /\ index = <<>>
    /\ owner = [e \in Executions |-> None]
    /\ returned = {}
    /\ holder = [e \in Executions |-> NoInstance]
    /\ closed = {}
    /\ pc = [c \in Callers |-> "idle"]
    /\ at = [c \in Callers |-> None]
    /\ target = [c \in Callers |-> NoInstance]
    /\ todo = [c \in Callers |-> {}]
    /\ raced = {}
    /\ strays = {}
    /\ closes = 0
    /\ dropped = {}
    /\ answer = [c \in Callers |-> None]

Goto(c, label) == pc' = [pc EXCEPT ![c] = label]

End(c, how) ==
    /\ Goto(c, "idle")
    /\ at' = [at EXCEPT ![c] = None]
    /\ target' = [target EXCEPT ![c] = NoInstance]
    /\ raced' = raced \ {c}
    /\ answer' = [answer EXCEPT ![c] = how]

\* backend(name): the existing instance, or a new one, under the lock
Backend(c, n) ==
    \/ /\ instances[n] # 0
       /\ target' = [target EXCEPT ![c] = <<n, instances[n]>>]
       /\ UNCHANGED cache
    \/ /\ instances[n] = 0
       /\ n \in Configured
       /\ BuildBackend(config.backends[n]) # {}
       /\ builds' = [builds EXCEPT ![n] = @ + 1]
       /\ instances' = [instances EXCEPT ![n] = builds'[n]]
       /\ target' = [target EXCEPT ![c] = <<n, builds'[n]>>]

\* no definition under the name, a factory nobody knows, or one that raises
NoBackend(n) == instances[n] = 0 /\ UNCHANGED cache

-----------------------------------------------------------------------------
\* submit: _prepare, target.submit (see Submission), _track

Prepare(c, n) ==
    /\ pc[c] = "idle"
    /\ Backend(c, n)
    /\ Goto(c, "submit")
    /\ answer' = [answer EXCEPT ![c] = None]
    /\ UNCHANGED <<setup, at, raced, index, returned, records, todo, strays, closes, dropped>>

\* what stops a submission before its backend is asked; no built target
PrepareRaises(c) ==
    /\ pc[c] = "idle"
    /\ Goto(c, "refused")
    /\ answer' = [answer EXCEPT ![c] = None]
    /\ UNCHANGED <<setup, cache, at, target, raced, index, returned, records, todo, strays,
                   closes, dropped>>

\* the kinds disagree, once the backend is built and found
PrepareMismatch(c, n) ==
    /\ pc[c] = "idle"
    /\ Backend(c, n)
    /\ Goto(c, "refused")
    /\ answer' = [answer EXCEPT ![c] = None]
    /\ UNCHANGED <<setup, at, raced, index, returned, records, todo, strays, closes, dropped>>

TargetSubmit(c, e) ==
    /\ pc[c] = "submit"
    /\ owner[e] = None
    /\ owner' = [owner EXCEPT ![e] = target[c][1]]
    /\ holder' = [holder EXCEPT ![e] = target[c]]
    /\ at' = [at EXCEPT ![c] = e]
    /\ Goto(c, "track")
    /\ UNCHANGED <<setup, cache, index, returned, closed, target, todo, ghosts, answer>>

\* the spec is refused, the backend is closed, the engine is not there, or the
\* caller is cancelled
TargetRefuses(c) ==
    /\ pc[c] = "submit"
    /\ Goto(c, "refused")
    /\ UNCHANGED <<setup, cache, index, returned, records, at, target, todo, ghosts, answer>>

Refuse(c) ==
    /\ pc[c] = "refused"
    /\ End(c, "refused")
    /\ UNCHANGED <<setup, cache, index, returned, records, todo, strays, closes, dropped>>

Track(c) ==
    /\ pc[c] = "track"
    /\ index' = Remember(index, at[c], Limit)
    /\ returned' = returned \union {at[c]}
    /\ strays' = IF c \in raced THEN strays \union {at[c]} ELSE strays
    /\ End(c, "submitted")
    /\ UNCHANGED <<setup, cache, records, todo, closes, dropped>>

-----------------------------------------------------------------------------
\* get, and with it cancel, wait and result, which begin with get

OwnerOf(c, e) ==
    /\ pc[c] = "idle"
    /\ e \in returned
    /\ \/ /\ e \in ToSet(index)
          /\ at' = [at EXCEPT ![c] = e]
          /\ Goto(c, "lookup")
          /\ answer' = [answer EXCEPT ![c] = None]
          /\ UNCHANGED <<target, raced>>
       \/ /\ e \notin ToSet(index)
          /\ End(c, "unknown")
    /\ UNCHANGED <<setup, cache, index, returned, records, todo, strays, closes, dropped>>

OwnerBackend(c) ==
    /\ pc[c] = "lookup"
    /\ \/ /\ Backend(c, owner[at[c]])
          /\ Goto(c, "get")
          /\ UNCHANGED <<at, answer, raced>>
       \/ NoBackend(owner[at[c]]) /\ End(c, "ConfigurationError")
    /\ UNCHANGED <<setup, index, returned, records, todo, strays, closes, dropped>>

TargetGet(c) ==
    /\ pc[c] = "get"
    /\ End(c, IF holder[at[c]] = target[c] THEN "found" ELSE "notfound")
    /\ UNCHANGED <<setup, cache, index, returned, records, todo, strays, closes, dropped>>

-----------------------------------------------------------------------------
\* close

Live == {<<n, instances[n]>> : n \in {m \in Names : instances[m] # 0}}

Submitting == {c \in Callers : pc[c] \in {"submit", "track"}}

\* Fault: the dictionary is cleared before its values are listed.
CloseClearsFirst(c) ==
    /\ pc[c] = "idle"
    /\ closes < deployment.closes
    /\ closes' = closes + 1
    /\ instances' = [n \in Names |-> 0]
    /\ index' = <<>>
    /\ todo' = [todo EXCEPT ![c] = {}]
    /\ raced' = raced \union Submitting
    /\ Goto(c, "close")
    /\ UNCHANGED <<setup, builds, returned, records, at, target, strays, dropped, answer>>

\* Fault: the index survives.
CloseKeepsIndex(c) ==
    /\ pc[c] = "idle"
    /\ closes < deployment.closes
    /\ closes' = closes + 1
    /\ todo' = [todo EXCEPT ![c] = Live]
    /\ instances' = [n \in Names |-> 0]
    /\ raced' = raced \union Submitting
    /\ Goto(c, "close")
    /\ UNCHANGED <<setup, builds, index, returned, records, at, target, strays, dropped, answer>>

Close(c) ==
    /\ pc[c] = "idle"
    /\ closes < deployment.closes
    /\ closes' = closes + 1
    /\ todo' = [todo EXCEPT ![c] = Live]
    /\ instances' = [n \in Names |-> 0]
    /\ index' = <<>>
    /\ raced' = raced \union Submitting
    /\ Goto(c, "close")
    /\ UNCHANGED <<setup, builds, returned, records, at, target, strays, dropped, answer>>

\* one backend's close, outside the runtime's lock
CloseInstance(c) ==
    /\ pc[c] = "close"
    /\ \E i \in todo[c] :
           /\ todo' = [todo EXCEPT ![c] = @ \ {i}]
           /\ closed' = closed \union {i}
           /\ holder' = [e \in Executions |->
                            IF holder[e] = i THEN NoInstance ELSE holder[e]]
    /\ UNCHANGED <<setup, cache, index, returned, owner, pc, at, target, ghosts, answer>>

\* an exception from one backend's close ends the loop over all of them
CloseRaises(c) ==
    /\ pc[c] = "close"
    /\ todo[c] # {}
    /\ dropped' = dropped \union todo[c]
    /\ todo' = [todo EXCEPT ![c] = {}]
    /\ End(c, "failed")
    /\ UNCHANGED <<setup, cache, index, returned, records, strays, closes>>

CloseReturns(c) ==
    /\ pc[c] = "close"
    /\ todo[c] = {}
    /\ End(c, "closed")
    /\ UNCHANGED <<setup, cache, index, returned, records, todo, strays, closes, dropped>>

-----------------------------------------------------------------------------
Instance == Names \X (1 .. MaxCloses + 1)

TypeOK ==
    /\ instances \in [Names -> 0 .. MaxCloses + 1]
    /\ builds \in [Names -> 0 .. MaxCloses + 1]
    /\ index \in Seq(Executions)
    /\ owner \in [Executions -> Names \union {None}]
    /\ holder \in [Executions -> Instance \union {NoInstance}]
    /\ closed \subseteq Instance
    /\ returned \subseteq Executions
    /\ pc \in [Callers -> {"idle", "submit", "refused", "track", "lookup", "get", "close"}]
    /\ at \in [Callers -> Executions \union {None}]
    /\ target \in [Callers -> Instance \union {NoInstance}]
    /\ todo \in [Callers -> SUBSET Instance]
    /\ raced \subseteq Callers
    /\ strays \subseteq Executions
    /\ closes \in 0 .. MaxCloses
    /\ dropped \subseteq Instance
    /\ answer \in [Callers -> {None, "ConfigurationError", "refused", "submitted",
                               "unknown", "found", "notfound", "closed", "failed"}]

\* "a backend is built exactly once" and close releases every backend: each
\* instance ever built is the one in use under its name, has been closed, or
\* is in the list of a close that is not finished.  None is lost with its
\* connections, and no two are in use under one name, unless the close of one
\* backend raised and the backends after it were never reached.
NoInstanceIsLost ==
    \A n \in Names, k \in 1 .. MaxCloses + 1 :
        k <= builds[n] =>
            \/ instances[n] = k
            \/ <<n, k>> \in closed
            \/ <<n, k>> \in dropped
            \/ \E c \in Callers : <<n, k>> \in todo[c]

\* The index keeps to max_tracked_executions, with every id once.
IndexIsBounded == Len(index) <= Limit /\ IsInjective(index)

\* An id in the index is held by the very instance its owner's name leads to,
\* unless a close overlapped the submit that tracked it: after a close and a
\* rebuild no id of the old instance is looked up in the new one.
IndexLeadsHome ==
    \A e \in ToSet(index) \ strays :
        holder[e] = <<owner[e], instances[owner[e]]>>

\* A runtime that nobody has closed forgets an id only because Limit later ones
\* were tracked.
TrackedUntilEvicted ==
    closes = 0 =>
        \A e \in Executions :
            e \in returned /\ e \notin ToSet(index) => Len(index) = Limit

\* The index is exactly as large as it may be: it never outgrows its limit and
\* never forgets an id before it has to.
IndexKeepsLatest == IndexIsBounded /\ TrackedUntilEvicted

\* What the index says of an execution is true, and it says as much as it may.
IndexIsTrue == IndexLeadsHome /\ IndexKeepsLatest
=============================================================================
