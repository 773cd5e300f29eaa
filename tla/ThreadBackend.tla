--------------------------- MODULE ThreadBackend ---------------------------
(***************************************************************************)
(* ThreadTaskBackend (taskferry/backends/thread.py): tasks on a            *)
(* ThreadPoolExecutor, with a bounded dictionary of entries that get, wait,*)
(* result and cancel read from other threads.                              *)
(*                                                                         *)
(* Every section between two acquisitions of the backend's lock, and every *)
(* call into the pool or a future, is a step of its own, so a cancel, a    *)
(* wait, an eviction or a close falls between any two of them.             *)
(***************************************************************************)
EXTENDS Naturals, Sequences, FiniteSets, ExecutionStates, RetryPolicy

CONSTANTS Tasks,       \* the ids new_execution_id will mint
          Clients,     \* threads calling the backend's public methods
          MaxWorkers,  \* size of the pool
          History,     \* the constructor's history argument
          Exceptions,  \* what a task function can raise (sets of type names)
          Policy,      \* Policy[t] is the retry policy of t's spec
          Escaping     \* tasks whose function can leave with a BaseException
                       \* that is no Exception (SystemExit, CancelledError)

ASSUME ConstantsAssumption ==
    /\ MaxWorkers \in Nat \ {0}
    /\ History \in Nat
    /\ \A t \in Tasks : Policy[t].max_attempts \in Nat \ {0}

VARIABLES
    unused,    \* ids not minted yet
    entry,     \* state of _entries[id].execution, Absent without an entry
    result,    \* _entries[id].result: "none", "value" or "error"
    order,     \* _order
    future,    \* state of the task's Future ("none": entry.future not set)
    queue,     \* the pool's work queue
    run,       \* where the worker is inside _run for this task
    attempt,   \* _run's attempt counter (0 before the loop)
    outcome,   \* what _run is about to hand to _finish
    closed,    \* _closed
    shutdown,  \* the pool refuses new work
    pc,        \* where each client is inside the method it called
    op,        \* the method it is in
    job,       \* the id it called it with
    stopped,   \* _cancel's local variable
    answer     \* what its last call returned or raised

backend == <<entry, result, order>>
pool    == <<future, queue, shutdown>>
worker  == <<run, attempt, outcome>>
client  == <<pc, op, job, stopped, answer>>
vars    == <<unused, backend, pool, worker, closed, client>>

Futures == {"none", "pending", "running", "cancelled", "done", "broken"}

RunSteps == {"idle", "lookup", "check", "begin", "fetch", "resolve", "call",
             "finish", "return"}

ClientSteps == {"idle", "insert", "enqueue", "cancel_future", "cancel_write",
                "wait", "result", "shutdown", "join"}

Answers == State \union {"none", "value", "error", "not_found", "key_error",
                         "timeout", "submission_error", "escaped"}

Methods == {"none", "submit", "cancel", "wait", "result", "close"}

BackendType ==
    /\ unused \subseteq Tasks
    /\ entry \in [Tasks -> {Absent, "queued", "running", "cancelled",
                            "succeeded", "failed"}]
    /\ result \in [Tasks -> {"none", "value", "error"}]
    /\ order \in Seq(Tasks)
    /\ future \in [Tasks -> Futures]
    /\ queue \in Seq(Tasks)
    /\ run \in [Tasks -> RunSteps]
    /\ attempt \in [Tasks -> Nat]
    /\ outcome \in [Tasks -> {"none", "value", "error"}]
    /\ closed \in BOOLEAN
    /\ shutdown \in BOOLEAN

ClientType ==
    /\ pc \in [Clients -> ClientSteps]
    /\ op \in [Clients -> Methods]
    /\ job \in [Clients -> Tasks \union {Absent}]
    /\ stopped \in [Clients -> BOOLEAN]
    /\ answer \in [Clients -> Answers]

TypeOK == BackendType /\ ClientType

Init ==
    /\ unused = Tasks
    /\ entry = [t \in Tasks |-> Absent]
    /\ result = [t \in Tasks |-> "none"]
    /\ order = <<>>
    /\ future = [t \in Tasks |-> "none"]
    /\ queue = <<>>
    /\ run = [t \in Tasks |-> "idle"]
    /\ attempt = [t \in Tasks |-> 0]
    /\ outcome = [t \in Tasks |-> "none"]
    /\ closed = FALSE
    /\ shutdown = FALSE
    /\ pc = [c \in Clients |-> "idle"]
    /\ op = [c \in Clients |-> "none"]
    /\ job = [c \in Clients |-> Absent]
    /\ stopped = [c \in Clients |-> FALSE]
    /\ answer = [c \in Clients |-> "none"]

-----------------------------------------------------------------------------
(* Clients.  Call enters a method, Goto moves on inside it, Return leaves   *)
(* it with a value or the name of the exception it raises; a method's       *)
(* locals end with it.                                                      *)

Call(c, method, t, step) ==
    /\ pc[c] = "idle"
    /\ pc' = [pc EXCEPT ![c] = step]
    /\ op' = [op EXCEPT ![c] = method]
    /\ job' = [job EXCEPT ![c] = t]
    /\ stopped' = [stopped EXCEPT ![c] = FALSE]
    /\ answer' = [answer EXCEPT ![c] = "none"]

CallAndReturn(c, a) ==
    /\ pc[c] = "idle"
    /\ answer' = [answer EXCEPT ![c] = a]
    /\ UNCHANGED <<pc, op, job, stopped>>

Goto(c, step) ==
    /\ pc' = [pc EXCEPT ![c] = step]
    /\ UNCHANGED <<op, job, stopped, answer>>

Return(c, a) ==
    /\ pc' = [pc EXCEPT ![c] = "idle"]
    /\ op' = [op EXCEPT ![c] = "none"]
    /\ job' = [job EXCEPT ![c] = Absent]
    /\ stopped' = [stopped EXCEPT ![c] = FALSE]
    /\ answer' = [answer EXCEPT ![c] = a]

\* An id reaches the callers when submit returns it, which is after
\* entry.future was assigned.
Known(t) == future[t] # "none"

-----------------------------------------------------------------------------
(* _submit: the closed check, the locked insertion, pool.submit.            *)

Submit(c, t) ==
    /\ t \in unused
    /\ \/ /\ closed
          /\ CallAndReturn(c, "submission_error")
          /\ UNCHANGED unused
       \/ /\ ~closed
          /\ Call(c, "submit", t, "insert")
          /\ unused' = unused \ {t}
    /\ UNCHANGED <<backend, pool, worker, closed>>

\* The ids that _remember_locked pops from the front once key is appended.
Overflow(seq) == IF Len(seq) > History THEN Len(seq) - History ELSE 0

\* _remember_locked: forget the oldest entries, whatever their state, but
\* never the one just inserted.
RememberLocked(key) ==
    LET longer  == Append(order, key)
        n       == Overflow(longer)
        evicted == {longer[i] : i \in 1 .. n} \ {key}
    IN  /\ order' = SubSeq(longer, n + 1, Len(longer))
        /\ entry' = [t \in Tasks |-> IF t = key THEN "queued"
                                     ELSE IF t \in evicted THEN Absent
                                     ELSE entry[t]]
        /\ result' = [t \in Tasks |-> IF t \in evicted \union {key} THEN "none"
                                      ELSE result[t]]

SubmitInsert(c) ==
    /\ pc[c] = "insert"
    /\ RememberLocked(job[c])
    /\ Goto(c, "enqueue")
    /\ UNCHANGED <<unused, pool, worker, closed>>

\* pool.submit raises once the pool is shut down, and the entry stays behind.
SubmitEnqueue(c) ==
    /\ pc[c] = "enqueue"
    /\ \/ /\ shutdown
          /\ Return(c, "error")
          /\ UNCHANGED pool
       \/ /\ ~shutdown
          /\ future' = [future EXCEPT ![job[c]] = "pending"]
          /\ queue' = Append(queue, job[c])
          /\ Return(c, "queued")
          /\ UNCHANGED shutdown
    /\ UNCHANGED <<unused, backend, worker, closed>>

-----------------------------------------------------------------------------
(* _cancel: locked check, future.cancel() without the lock, locked write.   *)

CancelCheck(c, t) ==
    /\ Known(t)
    /\ \/ /\ entry[t] = Absent
          /\ CallAndReturn(c, "not_found")
       \/ /\ entry[t] \in Terminal
          /\ CallAndReturn(c, entry[t])
       \/ /\ entry[t] \in {"queued", "running"}
          /\ Call(c, "cancel", t, "cancel_future")
    /\ UNCHANGED <<unused, backend, pool, worker, closed>>

\* Future.cancel succeeds only on a future no worker has taken.
CancelFuture(c) ==
    LET t == job[c]
        s == future[t] \in {"pending", "cancelled"}
    IN  /\ pc[c] = "cancel_future"
        /\ future' = [future EXCEPT ![t] = IF s THEN "cancelled" ELSE @]
        /\ stopped' = [stopped EXCEPT ![c] = s]
        /\ pc' = [pc EXCEPT ![c] = "cancel_write"]
        /\ UNCHANGED <<unused, backend, queue, shutdown, worker, closed,
                       op, job, answer>>

\* Fault: evolve's copy is returned but not stored in the entry.
CancelWriteDiscards(c) ==
    LET t == job[c]
        s == IF stopped[c] \/ entry[t] = "queued" THEN "cancelled" ELSE entry[t]
    IN  /\ pc[c] = "cancel_write"
        /\ Return(c, IF entry[t] = Absent THEN "key_error" ELSE s)
        /\ UNCHANGED <<unused, entry, result, order, pool, worker, closed>>

CancelWrite(c) ==
    LET t == job[c]
        s == IF stopped[c] \/ entry[t] = "queued" THEN "cancelled" ELSE entry[t]
    IN  /\ pc[c] = "cancel_write"
        /\ IF entry[t] = Absent
           THEN Return(c, "key_error") /\ UNCHANGED entry
           ELSE Return(c, s) /\ entry' = [entry EXCEPT ![t] = s]
        /\ UNCHANGED <<unused, result, order, pool, worker, closed>>

-----------------------------------------------------------------------------
(* _wait and _result.                                                       *)

\* _future_for
WaitBegin(c, t, method) ==
    /\ Known(t)
    /\ \/ /\ entry[t] = Absent
          /\ CallAndReturn(c, "not_found")
       \/ /\ entry[t] # Absent
          /\ Call(c, method, t, "wait")
    /\ UNCHANGED <<unused, backend, pool, worker, closed>>

\* Future.result has something to return or raise.
Completed(t) == future[t] \in {"cancelled", "done", "broken"}

\* Fault: hand out the entry without checking that it is still there.
WaitWakeUnchecked(c) ==
    LET t == job[c]
    IN  /\ pc[c] = "wait"
        /\ Completed(t)
        /\ \/ future[t] = "broken" /\ Return(c, "escaped")
           \/ future[t] # "broken" /\ op[c] = "wait" /\ Return(c, entry[t])
           \/ future[t] # "broken" /\ op[c] = "result" /\ Goto(c, "result")
        /\ UNCHANGED <<unused, backend, pool, worker, closed>>

\* An Exception of the future is swallowed and _get follows, anything else is
\* raised in the caller.  _result goes on to read entry.result.
WaitWake(c) ==
    LET t == job[c]
    IN  /\ pc[c] = "wait"
        /\ Completed(t)
        /\ \/ future[t] = "broken" /\ Return(c, "escaped")
           \/ /\ future[t] # "broken"
              /\ \/ entry[t] = Absent /\ Return(c, "not_found")
                 \/ entry[t] # Absent /\ op[c] = "wait" /\ Return(c, entry[t])
                 \/ entry[t] # Absent /\ op[c] = "result" /\ Goto(c, "result")
        /\ UNCHANGED <<unused, backend, pool, worker, closed>>

\* Fault: answer with the snapshot at hand when the time is up.
WaitTimeoutAnswers(c) ==
    /\ pc[c] = "wait"
    /\ ~Completed(job[c])
    /\ Return(c, IF entry[job[c]] = Absent THEN "not_found" ELSE entry[job[c]])
    /\ UNCHANGED <<unused, backend, pool, worker, closed>>

WaitTimeout(c) ==
    /\ pc[c] = "wait"
    /\ ~Completed(job[c])
    /\ Return(c, "timeout")
    /\ UNCHANGED <<unused, backend, pool, worker, closed>>

\* An entry without a result is reported as ExecutionResult.cancelled().
ResultRead(c) ==
    LET t == job[c]
    IN  /\ pc[c] = "result"
        /\ \/ entry[t] = Absent /\ Return(c, "key_error")
           \/ entry[t] # Absent /\ result[t] = "none" /\ Return(c, "cancelled")
           \/ entry[t] # Absent /\ result[t] # "none" /\ Return(c, result[t])
        /\ UNCHANGED <<unused, backend, pool, worker, closed>>

-----------------------------------------------------------------------------
(* close: set _closed, shut the pool down, join its threads, clear.         *)

Close(c) ==
    /\ Call(c, "close", Absent, "shutdown")
    /\ closed' = TRUE
    /\ UNCHANGED <<unused, backend, pool, worker>>

\* Fault: drop what is queued without cancelling its futures.
CloseShutdownDrops(c) ==
    /\ pc[c] = "shutdown"
    /\ shutdown' = TRUE
    /\ queue' = <<>>
    /\ Goto(c, "join")
    /\ UNCHANGED <<unused, backend, future, worker, closed>>

\* pool.shutdown(cancel_futures=True) drains the queue and cancels what was
\* in it.
CloseShutdown(c) ==
    /\ pc[c] = "shutdown"
    /\ shutdown' = TRUE
    /\ future' = [t \in Tasks |-> IF future[t] = "pending" THEN "cancelled"
                                  ELSE future[t]]
    /\ queue' = <<>>
    /\ Goto(c, "join")
    /\ UNCHANGED <<unused, backend, worker, closed>>

CloseJoin(c) ==
    /\ pc[c] = "join"
    /\ \A t \in Tasks : run[t] = "idle"
    /\ entry' = [t \in Tasks |-> Absent]
    /\ result' = [t \in Tasks |-> "none"]
    /\ order' = <<>>
    /\ Return(c, "none")
    /\ UNCHANGED <<unused, pool, worker, closed>>

-----------------------------------------------------------------------------
(* The pool's threads.  RunStep moves a worker on inside _run, RunReturn    *)
(* ends _run and completes the future.                                      *)

RunStep(t, from, to) ==
    /\ run[t] = from
    /\ run' = [run EXCEPT ![t] = to]

RunReturn(t) ==
    /\ run' = [run EXCEPT ![t] = "idle"]
    /\ future' = [future EXCEPT ![t] = "done"]

\* A free thread takes the oldest work item; a cancelled one is dropped.
Dequeue ==
    /\ queue # <<>>
    /\ Cardinality({t \in Tasks : run[t] # "idle"}) < MaxWorkers
    /\ queue' = Tail(queue)
    /\ LET t == Head(queue)
       IN  \/ /\ future[t] = "pending"
              /\ future' = [future EXCEPT ![t] = "running"]
              /\ run' = [run EXCEPT ![t] = "lookup"]
           \/ /\ future[t] = "cancelled"
              /\ UNCHANGED <<future, run>>
    /\ UNCHANGED <<unused, backend, shutdown, attempt, outcome, closed, client>>

\* The entry is looked up once; an evicted task is never run.
RunLookup(t) ==
    /\ run[t] = "lookup"
    /\ IF entry[t] = Absent
       THEN RunReturn(t)
       ELSE RunStep(t, "lookup", "check") /\ UNCHANGED future
    /\ UNCHANGED <<unused, backend, queue, shutdown, attempt, outcome, closed, client>>

\* Fault: no second look after the delay.
RunCheckSkipped(t) ==
    /\ run[t] = "check"
    /\ RunStep(t, "check", "begin")
    /\ UNCHANGED <<unused, backend, pool, attempt, outcome, closed, client>>

\* _wait_until_eligible holds the thread for as long as the spec's delay
\* asks, then _is_cancelled looks again.
RunCheck(t) ==
    /\ run[t] = "check"
    /\ IF entry[t] \in {Absent, "cancelled"}
       THEN RunReturn(t)
       ELSE RunStep(t, "check", "begin") /\ UNCHANGED future
    /\ UNCHANGED <<unused, backend, queue, shutdown, attempt, outcome, closed, client>>

\* _transition(key, RUNNING)
RunBegin(t) ==
    /\ RunStep(t, "begin", "fetch")
    /\ entry' = [entry EXCEPT ![t] = IF @ \in {Absent, "cancelled"} THEN @
                                     ELSE "running"]
    /\ UNCHANGED <<unused, result, order, pool, attempt, outcome, closed, client>>

\* self._entries[key] raises KeyError out of _run when the entry is gone;
\* otherwise before_execute is called with the snapshot.
RunFetch(t) ==
    /\ run[t] = "fetch"
    /\ IF entry[t] = Absent
       THEN RunReturn(t)
       ELSE RunStep(t, "fetch", "resolve") /\ UNCHANGED future
    /\ UNCHANGED <<unused, backend, queue, shutdown, attempt, outcome, closed, client>>

\* registry.resolve: a name that does not resolve is a failed attempt 1.
RunResolve(t) ==
    /\ attempt' = [attempt EXCEPT ![t] = 1]
    /\ \/ RunStep(t, "resolve", "call") /\ UNCHANGED outcome
       \/ /\ RunStep(t, "resolve", "finish")
          /\ outcome' = [outcome EXCEPT ![t] = "error"]
    /\ UNCHANGED <<unused, backend, pool, closed, client>>

\* One call of the task function and what the retry loop makes of it.
RunCall(t) ==
    /\ \/ /\ RunStep(t, "call", "finish")
          /\ outcome' = [outcome EXCEPT ![t] = "value"]
          /\ UNCHANGED attempt
       \/ \E exc \in Exceptions :
             \/ /\ ShouldRetry(Policy[t], exc, attempt[t])
                /\ RunStep(t, "call", "call")
                /\ attempt' = [attempt EXCEPT ![t] = @ + 1]
                /\ UNCHANGED outcome
             \/ /\ ~ShouldRetry(Policy[t], exc, attempt[t])
                /\ RunStep(t, "call", "finish")
                /\ outcome' = [outcome EXCEPT ![t] = "error"]
                /\ UNCHANGED attempt
    /\ UNCHANGED <<unused, backend, pool, closed, client>>

\* A BaseException passes _run's `except Exception`: the pool stores it in the
\* future, and nobody calls _finish.
RunEscape(t) ==
    /\ t \in Escaping
    /\ RunStep(t, "call", "idle")
    /\ future' = [future EXCEPT ![t] = "broken"]
    /\ UNCHANGED <<unused, backend, queue, shutdown, attempt, outcome, closed, client>>

\* Fault: write the state and leave entry.result unset.
RunFinishNoResult(t) ==
    /\ RunStep(t, "finish", "return")
    /\ entry' = [entry EXCEPT ![t] = IF @ = Absent THEN @
                                     ELSE IF outcome[t] = "value"
                                     THEN "succeeded" ELSE "failed"]
    /\ UNCHANGED <<unused, result, order, pool, attempt, outcome, closed, client>>

\* _finish writes the outcome whatever the entry's state is by now; the
\* after_execute and on_success/on_failure hooks follow it.
RunFinish(t) ==
    /\ RunStep(t, "finish", "return")
    /\ IF entry[t] = Absent
       THEN UNCHANGED <<entry, result>>
       ELSE /\ result' = [result EXCEPT ![t] = outcome[t]]
            /\ entry' = [entry EXCEPT ![t] = IF outcome[t] = "value"
                                             THEN "succeeded" ELSE "failed"]
    /\ UNCHANGED <<unused, order, pool, attempt, outcome, closed, client>>

RunDone(t) ==
    /\ run[t] = "return"
    /\ RunReturn(t)
    /\ UNCHANGED <<unused, backend, queue, shutdown, attempt, outcome, closed, client>>

-----------------------------------------------------------------------------
Worker(t) ==
    \/ RunLookup(t) \/ RunCheck(t) \/ RunBegin(t) \/ RunFetch(t)
    \/ RunResolve(t) \/ RunCall(t) \/ RunEscape(t) \/ RunFinish(t)
    \/ RunDone(t)

\* The steps a client takes without being asked again.
Continue(c) ==
    \/ SubmitInsert(c) \/ SubmitEnqueue(c)
    \/ CancelFuture(c) \/ CancelWrite(c)
    \/ WaitWake(c) \/ ResultRead(c)
    \/ CloseShutdown(c) \/ CloseJoin(c)

Next ==
    \/ Dequeue
    \/ \E t \in Tasks : Worker(t)
    \/ \E c \in Clients :
          \/ Continue(c)
          \/ WaitTimeout(c)
          \/ Close(c)
          \/ \E t \in Tasks :
                \/ Submit(c, t)
                \/ CancelCheck(c, t)
                \/ WaitBegin(c, t, "wait")
                \/ WaitBegin(c, t, "result")

Spec == Init /\ [][Next]_vars

\* Pool threads keep running, task functions return, and a thread inside a
\* method is scheduled again; nobody has to call anything.
Fairness ==
    /\ WF_vars(Dequeue)
    /\ \A t \in Tasks : WF_vars(Worker(t))
    /\ \A c \in Clients : WF_vars(Continue(c))

FairSpec == Spec /\ Fairness
-----------------------------------------------------------------------------
(* Properties.                                                              *)

Queued(t) == \E i \in DOMAIN queue : queue[i] = t

\* A submit is about to hand t to the pool; a cancel that stopped t's future
\* is about to say so.
Submitting(t) == \E c \in Clients : job[c] = t /\ pc[c] = "enqueue"
Cancelling(t) ==
    \E c \in Clients : job[c] = t /\ pc[c] = "cancel_write" /\ stopped[c]

\* No execution is left QUEUED with nobody to move it: it is in the pool's
\* queue, a worker has it, its submit or its cancel is about to finish the
\* job, or the pool was shut down under it.
QueuedIsScheduled ==
    \A t \in Tasks : entry[t] = "queued" =>
        \/ future[t] = "pending" /\ Queued(t)
        \/ run[t] \in {"lookup", "check", "begin"}
        \/ Submitting(t)
        \/ Cancelling(t)
        \/ shutdown

\* No execution is left RUNNING once its worker has gone, unless the function
\* escaped the worker's exception handler.
RunningHasWorker ==
    \A t \in Tasks : entry[t] = "running" =>
        \/ /\ future[t] = "running"
           /\ run[t] \in {"fetch", "resolve", "call", "finish"}
        \/ future[t] = "broken" /\ t \in Escaping

\* A completed future has a settled execution: whoever wait() wakes for it
\* reads a terminal state (lines 203-206: _finish precedes the return).
SettledIsTerminal ==
    \A t \in Tasks : future[t] = "done" => entry[t] \in Terminal \union {Absent}

\* Nothing is stranded: every execution that is not over has somebody to end
\* it, and a future that has ended leaves no execution open.
NothingIsStranded == SettledIsTerminal /\ QueuedIsScheduled /\ RunningHasWorker

\* State and result agree in every snapshot, although a cancel decides on a
\* state it read before it released the lock.
ResultMatchesState ==
    \A t \in Tasks :
        /\ result[t] = "value" <=> entry[t] = "succeeded"
        /\ result[t] = "error" <=> entry[t] = "failed"

\* A task whose future was cancelled never got to its function, not even to
\* its worker.
CancelledFutureNeverRan ==
    \A t \in Tasks : future[t] = "cancelled" => attempt[t] = 0 /\ run[t] = "idle"

\* The retry loop stays within what the policy grants the engine: one call
\* when somebody else owns the retry (RetryOwner, engine_attempts).
AttemptsWithinBudget ==
    \A t \in Tasks : attempt[t] <= EngineAttempts(Policy[t])

\* The task function is called only when it may be: never once the future is
\* cancelled, and never more often than the policy grants.
CallsAreAllowed == CancelledFutureNeverRan /\ AttemptsWithinBudget

\* A finished execution keeps its outcome until it is forgotten: a cancel
\* that raced it does not overwrite it.
KeepsOutcome(t) ==
    entry[t] \in {"succeeded", "failed"} => entry'[t] \in {entry[t], Absent}

\* A cancel that comes before the worker's last look (_is_cancelled) is
\* respected: the function is not called and CANCELLED stays.  One that comes
\* after it is overwritten by _finish.
KeepsCancelled(t) ==
    entry[t] = "cancelled" /\ run[t] \in {"idle", "lookup", "check"} =>
        /\ entry'[t] \in {"cancelled", Absent}
        /\ run'[t] \in {"idle", "lookup", "check"}

\* No step replaces the end of an execution, whoever wrote it.
EndsAreKept == [][\A t \in Tasks : KeepsOutcome(t) /\ KeepsCancelled(t)]_vars

\* wait() answers a state that is not terminal only between the two steps of a
\* cancel that has stopped the future, or when the pool was shut down.
WaitIsTerminal(c) ==
    (op[c] = "wait" /\ pc'[c] = "idle" /\ answer'[c] \in State \ Terminal)
        => Cancelling(job[c]) \/ shutdown

\* result() calls an execution cancelled only if it was: its future was
\* cancelled, or its function has produced no outcome.
CancelledResultIsTrue(c) ==
    (op[c] = "result" /\ pc'[c] = "idle" /\ answer'[c] = "cancelled")
        => future[job[c]] = "cancelled" \/ outcome[job[c]] = "none"

\* What wait and result answer is true of the execution they were asked about,
\* although they read it after they woke up.
AnswersAreTrue ==
    [][\A c \in Clients : WaitIsTerminal(c) /\ CancelledResultIsTrue(c)]_vars

\* Every submitted task ends in a terminal state or is forgotten, unless its
\* function escapes.
EveryTaskSettles ==
    \A t \in Tasks \ Escaping : Known(t) ~> entry[t] \in Terminal \union {Absent}

\* wait() and result() without a timeout return, cancels and closes under
\* way included.
EveryCallReturns == \A c \in Clients : pc[c] # "idle" ~> pc[c] = "idle"

\* Nobody waits for ever: neither a task for its end nor a caller for its answer.
NobodyWaitsForever == EveryTaskSettles /\ EveryCallReturns
-----------------------------------------------------------------------------
(* The inductive invariant behind the safety properties.                    *)

\* A worker is inside _run exactly while the task's future is running; what
\* the entry can be at each point of _run, and before and after it.
RunInv(t) ==
    /\ run[t] # "idle" <=> future[t] = "running"
    /\ run[t] \in {"lookup", "check", "begin"} =>
          entry[t] \in {Absent, "queued", "cancelled"}
    /\ run[t] \in {"fetch", "resolve", "call", "finish"} =>
          entry[t] \in {Absent, "running", "cancelled"}
    /\ run[t] = "return" => entry[t] \in {Absent, "succeeded", "failed"}
    /\ future[t] \in {"none", "pending", "cancelled"} =>
          entry[t] \in {Absent, "queued", "cancelled"}
    /\ future[t] = "done" => entry[t] \in Terminal \union {Absent}
    /\ future[t] = "broken" =>
          t \in Escaping /\ entry[t] \in {Absent, "running", "cancelled"}

\* The worker's locals: no attempt before the function is reached, and an
\* outcome only for _finish.
LocalsInv(t) ==
    /\ future[t] \in {"none", "pending", "cancelled"} =>
          attempt[t] = 0 /\ outcome[t] = "none"
    /\ run[t] \in {"lookup", "check", "begin", "fetch", "resolve", "call"} =>
          outcome[t] = "none"
    /\ run[t] = "finish" => outcome[t] # "none"
    /\ future[t] = "done" /\ entry[t] = "cancelled" => outcome[t] = "none"
    /\ attempt[t] <= EngineAttempts(Policy[t])

\* State and result agree.
ResultInv(t) ==
    /\ result[t] = "value" <=> entry[t] = "succeeded"
    /\ result[t] = "error" <=> entry[t] = "failed"

\* A pending future is in the pool's queue, a queued entry has somebody to
\* move it.
QueueInv(t) ==
    /\ future[t] = "pending" => Queued(t)
    /\ entry[t] = "queued" => \/ future[t] = "pending"
                              \/ run[t] \in {"lookup", "check", "begin"}
                              \/ Submitting(t)
                              \/ Cancelling(t)
                              \/ shutdown

TaskInv == \A t \in Tasks : RunInv(t) /\ LocalsInv(t) /\ ResultInv(t) /\ QueueInv(t)

\* A new id is unknown to pool and backend, and two submits never share one.
FreshInv == \A t \in unused : future[t] = "none" /\ entry[t] = Absent

InSubmit(c) == pc[c] \in {"insert", "enqueue"}

SubmitInv ==
    \A c, d \in Clients : InSubmit(c) /\ InSubmit(d) /\ job[c] = job[d] => c = d

\* What a client knows about its task at each point of its call.
ClientInv(c) ==
    /\ InSubmit(c) => job[c] \in Tasks \ unused /\ future[job[c]] = "none"
    /\ pc[c] = "insert" => entry[job[c]] = Absent
    /\ pc[c] \in {"cancel_future", "cancel_write", "wait", "result"} =>
          job[c] \in Tasks /\ future[job[c]] # "none"
    /\ pc[c] = "cancel_write" /\ stopped[c] => future[job[c]] = "cancelled"
    /\ pc[c] \in {"cancel_future", "cancel_write"} => op[c] = "cancel"
    /\ pc[c] = "result" =>
          op[c] = "result" /\ future[job[c]] \in {"cancelled", "done"}
    /\ op[c] = "wait" => pc[c] = "wait"
    /\ op[c] = "result" => pc[c] \in {"wait", "result"}

IInv ==
    /\ TypeOK
    /\ TaskInv
    /\ FreshInv
    /\ SubmitInv
    /\ \A c \in Clients : ClientInv(c)
=============================================================================
