------------------------------- MODULE Handle -------------------------------
(***************************************************************************)
(* ExecutionHandle (taskferry/handle.py) and its asynchronous twin          *)
(* (taskferry/aio.py): one handle, shared by several callers, that caches   *)
(* the last snapshot of an execution some backend owns.  The lock is held   *)
(* to look at the cache and to write it, and never across the call to the   *)
(* backend in between, so a slow answer can be stored over a newer one.     *)
(*                                                                         *)
(* The engines move the backend's record along the life cycle of            *)
(* execution.py; what each backend does when it is asked to cancel, and     *)
(* which of the ends it tells it may still go back on, is its own.  Epochs  *)
(* number the changes of the record; the code has no such number, it lets   *)
(* the properties order the snapshots.                                      *)
(***************************************************************************)
EXTENDS ExecutionStates, Naturals

CONSTANTS Holders,      \* threads, or coroutines of one loop
          Asynchronous, \* the handle of aio.py: result() does not refresh
          Backends,     \* the kinds of backend the execution may be on
          Reports,      \* the states their engines report
          MaxRetries    \* how often an engine takes an end back

\* cloud is Cloud Run, AWS Batch and Container Apps; broker is Celery and
\* Procrastinate.
ASSUME HandleAssumption ==
    /\ Asynchronous \in BOOLEAN
    /\ Backends \subseteq {"thread", "process", "subprocess", "cloud", "broker",
                           "kubernetes"}
    /\ Reports \subseteq State
    /\ MaxRetries \in Nat

VARIABLES backend,  \* the kind of backend that owns the execution
          real,     \* its record: a state and its epoch
          future,   \* of a pool: pending, running, stopped or done; or none
          undone,   \* the ends the record has gone on from
          gone,     \* the job was deleted: it can no longer be read
          retries,  \* how often an engine has taken an end back
          cached,   \* self._execution
          doing,    \* what each caller is doing
          fetched,  \* fresh, final or cancelled: the backend's answer
          began,    \* the epoch in which the caller's last call began
          returned  \* the snapshot it got, NoSnapshot after an exception

engineVars == <<backend, real, future, undone, gone, retries>>
callerVars == <<cached, doing, fetched, began, returned>>
handleVars == <<engineVars, callerVars>>

Snapshot == [state : State, epoch : Nat]

NoSnapshot == [state |-> Absent, epoch |-> 0]

IsTerminal(snapshot) == snapshot.state \in Terminal

Pools == {"thread", "process"}

\* submit or get made the handle from a snapshot taken a moment ago
HandleInit ==
    /\ backend \in Backends
    /\ real = [state |-> IF backend = "subprocess" THEN "running" ELSE "queued",
               epoch |-> 0]
    /\ future = IF backend \in Pools THEN "pending" ELSE "none"
    /\ undone = {}
    /\ gone = FALSE
    /\ retries = 0
    /\ cached = real
    /\ doing = [c \in Holders |-> "idle"]
    /\ fetched = [c \in Holders |-> NoSnapshot]
    /\ began = [c \in Holders |-> 0]
    /\ returned = [c \in Holders |-> NoSnapshot]

-----------------------------------------------------------------------------
\* The engines.

Becomes(s) == real' = [state |-> s, epoch |-> real.epoch + 1]

\* A record that is not CANCELLED yet becomes so.
Cancelled == IF real.state = "cancelled" THEN UNCHANGED real ELSE Becomes("cancelled")

\* A worker of the pool takes the future up: it can no longer be stopped.
PickUp ==
    /\ future = "pending"
    /\ future' = "running"
    /\ UNCHANGED <<backend, real, undone, gone, retries, callerVars>>

\* CANCELLED is the engine's own word only where cancelling is a request to it,
\* or where somebody else may have made one.
Told(s) == s \in Reports /\ (s = "cancelled" => backend \in {"cloud", "broker"})

Advance ==
    /\ ~ IsTerminal(real) /\ ~ gone
    /\ backend \in Pools => future = "running"
    /\ \E s \in Allowed(real.state) :
          /\ Told(s)
          /\ Becomes(s)
          /\ future' = IF future = "running" /\ s \in Terminal THEN "done" ELSE future
    /\ UNCHANGED <<backend, undone, gone, retries, callerVars>>

\* The ends a backend may go on from: FAILED between two pods of a job, and
\* whatever a task had come to when a broker delivers its message once more.
\* The thread backend tells CANCELLED before it knows whether the worker has
\* looked for it.
Undoable == CASE backend = "thread"     -> {"cancelled"}
              [] backend = "broker"     -> Terminal
              [] backend = "kubernetes" -> {"failed"}
              [] OTHER                  -> {}

Retry ==
    /\ backend # "thread" /\ ~ gone
    /\ IsTerminal(real) /\ real.state \in Undoable
    /\ retries < MaxRetries
    /\ retries' = retries + 1
    /\ undone' = undone \union {real}
    /\ \E s \in State \ {real.state} : Told(s) /\ Becomes(s)
    /\ UNCHANGED <<backend, future, gone, callerVars>>

\* A worker that finds its entry CANCELLED leaves it at that; one that was past
\* its last look runs the function and writes the outcome over it.
Leave ==
    /\ backend = "thread" /\ future = "running" /\ real.state = "cancelled"
    /\ future' = "done"
    /\ \/ UNCHANGED <<real, undone>>
       \/ /\ undone' = undone \union {real}
          /\ \E s \in {"succeeded", "failed"} \intersect Reports : Becomes(s)
    /\ UNCHANGED <<backend, gone, retries, callerVars>>

-----------------------------------------------------------------------------
\* The handle.

Answer(c, snapshot) ==
    /\ doing' = [doing EXCEPT ![c] = "idle"]
    /\ returned' = [returned EXCEPT ![c] = snapshot]

\* The caller goes on to the backend, with nothing in its hands meanwhile.
Ask(c, next) ==
    /\ doing' = [doing EXCEPT ![c] = next]
    /\ returned' = [returned EXCEPT ![c] = NoSnapshot]

\* A single-flight refresh: whoever finds a read under way takes the cache.
FromCacheIfBusy(c, next) ==
    \/ /\ IsTerminal(cached) \/ \E d \in Holders : doing[d] = "get"
       /\ Answer(c, cached)
    \/ /\ ~ IsTerminal(cached)
       /\ \A d \in Holders : doing[d] # "get"
       /\ Ask(c, next)

\* The first critical section of refresh and of wait: a terminal snapshot is
\* answered from the cache.
FromCacheOr(c, next) ==
    \/ /\ IsTerminal(cached)
       /\ Answer(c, cached)
    \/ /\ ~ IsTerminal(cached)
       /\ Ask(c, next)

Begin(c) ==
    /\ doing[c] = "idle"
    /\ began' = [began EXCEPT ![c] = real.epoch]

Refresh(c) ==
    /\ Begin(c)
    /\ FromCacheOr(c, "get")
    /\ UNCHANGED <<engineVars, cached, fetched>>

Wait(c) ==
    /\ Begin(c)
    /\ FromCacheOr(c, "wait")
    /\ UNCHANGED <<engineVars, cached, fetched>>

Result(c) ==
    /\ Begin(c)
    /\ Ask(c, "result")
    /\ UNCHANGED <<engineVars, cached, fetched>>

Cancel(c) ==
    /\ Begin(c)
    /\ Ask(c, "cancel")
    /\ UNCHANGED <<engineVars, cached, fetched>>

\* A read of the backend: backend.get, or the last step of some cancels.  A
\* deleted job cannot be read.
Fetch(c) ==
    /\ doing[c] = "get" /\ ~ gone
    /\ fetched' = [fetched EXCEPT ![c] = real]
    /\ doing' = [doing EXCEPT ![c] = "store"]
    /\ UNCHANGED <<engineVars, cached, began, returned>>

\* backend.wait comes back when the record is terminal.  A pool waits for the
\* future instead, which is over before the record says so: when a cancel has
\* stopped it, or before the process pool's callback has run.
Over ==
    CASE backend = "thread"  -> future \in {"stopped", "done"}
      [] backend = "process" -> future # "pending"
      [] OTHER               -> IsTerminal(real) /\ ~ gone

BackendWait(c) ==
    /\ doing[c] = "wait" /\ Over
    /\ fetched' = [fetched EXCEPT ![c] = real]
    /\ doing' = [doing EXCEPT ![c] = "store"]
    /\ UNCHANGED <<engineVars, cached, began, returned>>

\* backend.cancel, first step: an execution that is over stays what it is on the
\* local backends, and a child process is stopped under the lock; the engines
\* of cloud and broker are sent a request, which they follow when and if they
\* like; Kubernetes is read.
BackendCancel(c) ==
    /\ doing[c] = "cancel" /\ ~ gone
    /\ IF backend = "subprocess" /\ ~ IsTerminal(real) THEN Cancelled ELSE UNCHANGED real
    /\ doing' = [doing EXCEPT ![c] =
           CASE backend \in {"cloud", "broker"}                -> "get"
             [] backend = "kubernetes"                         -> "delete"
             [] backend \in Pools /\ ~ IsTerminal(real)       -> "stop"
             [] OTHER                                          -> "store"]
    /\ fetched' = IF doing'[c] = "store" THEN [fetched EXCEPT ![c] = real'] ELSE fetched
    /\ UNCHANGED <<backend, future, undone, gone, retries, cached, began, returned>>

\* future.cancel() of a pool: it stops what no worker has taken up.  Where it
\* stops nothing, the process backend has nothing more to write.
StopFuture(c) ==
    /\ doing[c] = "stop"
    /\ future' = IF future = "pending" THEN "stopped" ELSE future
    /\ doing' = [doing EXCEPT ![c] =
           IF backend = "thread" \/ future' = "stopped" THEN "mark" ELSE "get"]
    /\ UNCHANGED <<backend, real, undone, gone, retries, cached, fetched, began, returned>>

\* A cancel that marks the entry without a look at what has become of it.
MarkAnyway(c) ==
    /\ doing[c] = "mark"
    /\ Cancelled
    /\ doing' = [doing EXCEPT ![c] = IF backend = "thread" THEN "store" ELSE "get"]
    /\ fetched' = IF doing'[c] = "store" THEN [fetched EXCEPT ![c] = real'] ELSE fetched
    /\ UNCHANGED <<backend, future, undone, gone, retries, cached, began, returned>>

\* The entry is marked.  The thread backend also marks one that is still QUEUED
\* because its worker has only just taken it up; it answers what it has written,
\* the process backend what it then reads.
Mark(c) ==
    /\ doing[c] = "mark"
    /\ IF future = "stopped" \/ real.state = "queued" THEN Cancelled ELSE UNCHANGED real
    /\ doing' = [doing EXCEPT ![c] = IF backend = "thread" THEN "store" ELSE "get"]
    /\ fetched' = IF doing'[c] = "store" THEN [fetched EXCEPT ![c] = real'] ELSE fetched
    /\ UNCHANGED <<backend, future, undone, gone, retries, cached, began, returned>>

\* The job of the snapshot just read is deleted, and the snapshot is called
\* CANCELLED, whatever the job had come to.
Delete(c) ==
    /\ doing[c] = "delete" /\ ~ gone
    /\ gone' = TRUE
    /\ fetched' = [fetched EXCEPT ![c] = [state |-> "cancelled", epoch |-> real.epoch]]
    /\ doing' = [doing EXCEPT ![c] = "store"]
    /\ UNCHANGED <<backend, real, future, undone, retries, cached, began, returned>>

\* backend.result waits as backend.wait does; the synchronous handle then
\* refreshes.
BackendResult(c) ==
    /\ doing[c] = "result" /\ Over
    /\ IF Asynchronous
       THEN Answer(c, NoSnapshot)
       ELSE Ask(c, "check")
    /\ UNCHANGED <<engineVars, cached, fetched, began>>

ResultRefresh(c) ==
    /\ doing[c] = "check"
    /\ FromCacheOr(c, "get")
    /\ UNCHANGED <<engineVars, cached, fetched, began>>

\* The answer is handed out but not kept.
StoreNothing(c) ==
    /\ doing[c] = "store"
    /\ Answer(c, fetched[c])
    /\ fetched' = [fetched EXCEPT ![c] = NoSnapshot]
    /\ UNCHANGED <<engineVars, cached, began>>

\* The second critical section.
Store(c) ==
    /\ doing[c] = "store"
    /\ cached' = fetched[c]
    /\ Answer(c, fetched[c])
    /\ fetched' = [fetched EXCEPT ![c] = NoSnapshot]
    /\ UNCHANGED <<engineVars, began>>

\* A timeout, an engine that cannot be reached or does not know the execution
\* (any more), a backend that cannot cancel.
Raise(c) ==
    /\ doing[c] \in {"get", "wait", "result", "cancel", "stop", "mark", "delete"}
    /\ Answer(c, NoSnapshot)
    /\ UNCHANGED <<engineVars, cached, fetched, began>>

Call(c) == Refresh(c) \/ Wait(c) \/ Result(c) \/ Cancel(c)

Continue(c) ==
    \/ Fetch(c)
    \/ BackendWait(c)
    \/ BackendCancel(c)
    \/ StopFuture(c)
    \/ Mark(c)
    \/ Delete(c)
    \/ BackendResult(c)
    \/ ResultRefresh(c)
    \/ Store(c)

EngineNext == PickUp \/ Advance \/ Retry \/ Leave

HandleNext ==
    \/ EngineNext
    \/ \E c \in Holders : Call(c) \/ Continue(c) \/ Raise(c)

HandleSpec == HandleInit /\ [][HandleNext]_handleVars

\* Threads run, and the function a worker of the pool has taken up ends; a
\* caller, whatever else it calls, polls with refresh again and again, as the
\* loop in ports.py does, and its reads of the engine do not all fail.
Fairness ==
    /\ WF_handleVars(Leave)
    /\ \A c \in Holders :
          SF_handleVars(Refresh(c)) /\ SF_handleVars(Fetch(c)) /\ WF_handleVars(Continue(c))

PollingSpec == HandleSpec /\ Fairness

-----------------------------------------------------------------------------
HandleTypeOK ==
    /\ backend \in Backends
    /\ real \in Snapshot
    /\ future \in {"none", "pending", "running", "stopped", "done"}
    /\ undone \subseteq Snapshot
    /\ gone \in BOOLEAN
    /\ retries \in 0 .. MaxRetries
    /\ cached \in Snapshot
    /\ doing \in [Holders -> {"idle", "get", "wait", "result", "check", "cancel",
                           "stop", "mark", "delete", "store"}]
    /\ fetched \in [Holders -> Snapshot \union {NoSnapshot}]
    /\ began \in [Holders -> Nat]
    /\ returned \in [Holders -> Snapshot \union {NoSnapshot}]

\* An end the record has gone on from, on a backend that may do so.
TakenBack(snapshot) == snapshot \in undone /\ snapshot.state \in Undoable

\* The CANCELLED that Kubernetes calls a job it has deleted.
Deleted(snapshot) ==
    backend = "kubernetes" /\ gone /\ snapshot.state = "cancelled"

\* "A terminal snapshot is never re-read: terminal states do not change": the
\* cache of refresh and wait may be answered from because it agrees with the
\* backend whenever it says terminal, however many callers cancel, wait and
\* store at once.  Two ends change all the same: a broker, a Kubernetes job or
\* the thread backend may go on from the ones in Undoable, and a deleted job is
\* CANCELLED for its handle whatever it had come to.
TerminalCacheIsTrue ==
    IsTerminal(cached) => cached = real \/ TakenBack(cached) \/ Deleted(cached)

\* A call answers what the backend's record was at some moment after the call
\* began, never something older, however the callers' two critical sections
\* interleave (handle.py, refresh: the thread's own fresh value is returned).
\* Only an end the backend has gone on from is answered late, from the cache.
AnswersAreFresh ==
    \A c \in Holders :
        doing[c] = "idle" /\ returned[c] # NoSnapshot
            => returned[c].epoch >= began[c] \/ TakenBack(returned[c])

\* Two callers that were both told the execution is over were told the same,
\* unless the backend has gone on from what one was told, or one was told that a
\* job is CANCELLED because it was deleted.
FinalAnswersAgree ==
    \A c, d \in Holders :
        \/ returned[c] = returned[d]
        \/ \E x \in {returned[c], returned[d]} :
              ~ IsTerminal(x) \/ TakenBack(x) \/ Deleted(x)

\* A stale answer can be stored over a terminal one, so that done goes back to
\* False, but as long as somebody polls, an execution that is over for good and
\* can be read ends up over in the handle for good.  (After a job was deleted,
\* every read raises, and a stale snapshot stored last is the handle's for good.)
StaleSnapshotsDieOut ==
    <>[](IsTerminal(real) /\ ~ gone) => <>[](IsTerminal(cached))
=============================================================================
