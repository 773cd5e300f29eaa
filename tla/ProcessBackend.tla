--------------------------- MODULE ProcessBackend ---------------------------
(***************************************************************************)
(* ProcessTaskBackend (taskferry/backends/process.py): tasks on a          *)
(* ProcessPoolExecutor.  The child runs the function and its retries; the  *)
(* parent learns the outcome from the future, whose done callback (_settle)*)
(* records it.  A future wakes those waiting for it before its callbacks   *)
(* run, so the two are steps of their own, like every section under the    *)
(* backend's lock.                                                         *)
(***************************************************************************)
EXTENDS Naturals, Sequences, FiniteSets, ExecutionStates, RetryPolicy

CONSTANTS Tasks,       \* the ids new_execution_id will mint
          Clients,     \* threads calling the backend's public methods
          MaxInFlight, \* work items the pool hands to its processes at once
          History,     \* the constructor's history argument
          Exceptions,  \* what a task function can raise (sets of type names)
          Policy,      \* Policy[t] is the retry policy of t's spec
          Escaping     \* tasks whose function can leave with a BaseException
                       \* that is no Exception (SystemExit)

ASSUME ProcessAssumption ==
    /\ MaxInFlight \in Nat \ {0}
    /\ History \in Nat
    /\ \A t \in Tasks : Policy[t].max_attempts \in Nat \ {0}

VARIABLES
    unused,    \* ids not minted yet
    held,      \* the keys of _entries
    order,     \* _order
    entry,     \* entry.execution.state (Absent before the entry exists)
    result,    \* entry.result: "none", "value" or "error"
    future,    \* state of the task's Future ("none": entry.future not set)
    outcome,   \* what a completed future holds
    callback,  \* the future's done callback: "none", "added", "due", "ran"
    queue,     \* the pool's pending work items
    attempt,   \* the retry loop's counter in the child (0: not in a child)
    pool,      \* "none", "up", "broken" (a process died) or "shutdown"
    closed,    \* _closed
    pc, job    \* each client's step and argument; what a call answers is a
               \* function of the state in which it returns

backend == <<held, order, entry, result>>
engine  == <<future, outcome, callback, queue, attempt, pool>>
client  == <<pc, job>>
vars    == <<unused, backend, engine, closed, client>>

Futures == {"none", "pending", "running", "cancelled", "done"}

Outcomes == {"none", "value", "error", "exit"}

Steps == {"idle", "insert", "dispatch", "register", "settling", "mark", "wait",
          "await_result", "result", "cancel_future", "cancel_callback", "cancel_write",
          "cancel_read", "shutdown", "join"}

TypeOK ==
    /\ unused \subseteq Tasks
    /\ held \subseteq Tasks
    /\ order \in Seq(Tasks)
    /\ entry \in [Tasks -> {Absent, "queued", "running", "cancelled",
                            "succeeded", "failed"}]
    /\ result \in [Tasks -> {"none", "value", "error"}]
    /\ future \in [Tasks -> Futures]
    /\ outcome \in [Tasks -> Outcomes]
    /\ callback \in [Tasks -> {"none", "added", "due", "ran"}]
    /\ queue \in Seq(Tasks)
    /\ attempt \in [Tasks -> Nat]
    /\ pool \in {"none", "up", "broken", "shutdown"}
    /\ closed \in BOOLEAN
    /\ pc \in [Clients -> Steps]
    /\ job \in [Clients -> Tasks \union {Absent}]

Init ==
    /\ unused = Tasks
    /\ held = {}
    /\ order = <<>>
    /\ entry = [t \in Tasks |-> Absent]
    /\ result = [t \in Tasks |-> "none"]
    /\ future = [t \in Tasks |-> "none"]
    /\ outcome = [t \in Tasks |-> "none"]
    /\ callback = [t \in Tasks |-> "none"]
    /\ queue = <<>>
    /\ attempt = [t \in Tasks |-> 0]
    /\ pool = "none"
    /\ closed = FALSE
    /\ pc = [c \in Clients |-> "idle"]
    /\ job = [c \in Clients |-> Absent]

-----------------------------------------------------------------------------
(* Clients: a call is entered, moves on, and returns. *)

Call(c, t, step) ==
    /\ pc[c] = "idle"
    /\ pc' = [pc EXCEPT ![c] = step]
    /\ job' = [job EXCEPT ![c] = t]

\* a call that only reads, or raises at once
CallAndReturn(c) == pc[c] = "idle" /\ UNCHANGED client

Goto(c, step) ==
    /\ pc' = [pc EXCEPT ![c] = step]
    /\ UNCHANGED job

Return(c) ==
    /\ pc' = [pc EXCEPT ![c] = "idle"]
    /\ job' = [job EXCEPT ![c] = Absent]

\* An id reaches the callers when submit returns it.
Known(t) ==
    /\ callback[t] # "none"
    /\ \A c \in Clients : ~(pc[c] = "settling" /\ job[c] = t)

Completed(t) == future[t] \in {"cancelled", "done"}

-----------------------------------------------------------------------------
(* _submit: _ensure_pool, the locked insertion, pool.submit, and the        *)
(* registration of _settle.                                                 *)

Submit(c, t) ==
    /\ t \in unused
    /\ \/ /\ closed
          /\ CallAndReturn(c)
          /\ UNCHANGED <<unused, pool>>
       \/ /\ ~closed
          /\ Call(c, t, "insert")
          /\ unused' = unused \ {t}
          /\ pool' = IF pool = "none" THEN "up" ELSE pool
    /\ UNCHANGED <<backend, future, outcome, callback, queue, attempt, closed>>

Overflow(seq) == IF Len(seq) > History THEN Len(seq) - History ELSE 0

\* _remember_locked: forget the oldest entries but never the one just put in.
RememberLocked(key) ==
    LET longer  == Append(order, key)
        n       == Overflow(longer)
        evicted == {longer[i] : i \in 1 .. n} \ {key}
    IN  /\ order' = SubSeq(longer, n + 1, Len(longer))
        /\ held' = (held \ evicted) \union {key}

SubmitInsert(c) ==
    /\ pc[c] = "insert"
    /\ RememberLocked(job[c])
    /\ entry' = [entry EXCEPT ![job[c]] = "queued"]
    /\ Goto(c, "dispatch")
    /\ UNCHANGED <<unused, result, engine, closed>>

\* pool.submit raises on a pool that was shut down or lost a process; the
\* entry stays behind.
SubmitDispatch(c) ==
    /\ pc[c] = "dispatch"
    /\ \/ /\ pool # "up"
          /\ Return(c)
          /\ UNCHANGED <<future, queue>>
       \/ /\ pool = "up"
          /\ future' = [future EXCEPT ![job[c]] = "pending"]
          /\ queue' = Append(queue, job[c])
          /\ Goto(c, "register")
    /\ UNCHANGED <<unused, backend, outcome, callback, attempt, pool, closed>>

\* Fault: the callback is not called for a future that is complete already.
SubmitRegisterLate(c) ==
    /\ pc[c] = "register"
    /\ callback' = [callback EXCEPT ![job[c]] = "added"]
    /\ Return(c)
    /\ UNCHANGED <<unused, backend, future, outcome, queue, attempt, pool, closed>>

\* add_done_callback calls _settle here and now if the future is complete.
SubmitRegister(c) ==
    /\ pc[c] = "register"
    /\ callback' = [callback EXCEPT ![job[c]] = IF Completed(job[c]) THEN "due"
                                                ELSE "added"]
    /\ IF Completed(job[c]) THEN Goto(c, "settling") ELSE Return(c)
    /\ UNCHANGED <<unused, backend, future, outcome, queue, attempt, pool, closed>>

SubmitSettled(c) ==
    /\ pc[c] = "settling"
    /\ callback[job[c]] = "ran"
    /\ Return(c)
    /\ UNCHANGED <<unused, backend, engine, closed>>

-----------------------------------------------------------------------------
(* _settle, in the thread that completed the future (or in submit).         *)

Due(S) == [t \in Tasks |-> IF t \in S /\ callback[t] = "added" THEN "due"
                           ELSE callback[t]]

\* Fault: a failed future is treated like a cancelled one.
SettleCancelsFailures(t) ==
    /\ callback[t] = "due"
    /\ callback' = [callback EXCEPT ![t] = "ran"]
    /\ entry' = [entry EXCEPT ![t] = IF t \notin held THEN @
                                     ELSE IF outcome[t] = "value" THEN "succeeded"
                                     ELSE "cancelled"]
    /\ result' = [result EXCEPT ![t] = IF t \notin held \/ future[t] = "cancelled" THEN @
                                       ELSE IF outcome[t] = "value" THEN "value"
                                       ELSE "error"]
    /\ UNCHANGED <<unused, held, order, future, outcome, queue, attempt, pool,
                   closed, client>>

\* Fault: store the outcome without checking that the entry is still held.
SettleUnheld(t) ==
    /\ callback[t] = "due"
    /\ callback' = [callback EXCEPT ![t] = "ran"]
    /\ held' = held \union {t}
    /\ \/ /\ future[t] = "cancelled"
          /\ entry' = [entry EXCEPT ![t] = "cancelled"]
          /\ UNCHANGED result
       \/ /\ future[t] = "done"
          /\ entry' = [entry EXCEPT ![t] = IF outcome[t] = "value"
                                           THEN "succeeded" ELSE "failed"]
          /\ result' = [result EXCEPT ![t] = IF outcome[t] = "value"
                                             THEN "value" ELSE "error"]
    /\ UNCHANGED <<unused, order, future, outcome, queue, attempt, pool,
                   closed, client>>

Settle(t) ==
    /\ callback[t] = "due"
    /\ callback' = [callback EXCEPT ![t] = "ran"]
    /\ \/ /\ t \notin held
          /\ UNCHANGED <<entry, result>>
       \/ /\ t \in held /\ future[t] = "cancelled"
          /\ entry' = [entry EXCEPT ![t] = "cancelled"]
          /\ UNCHANGED result
       \/ /\ t \in held /\ future[t] = "done"
          /\ entry' = [entry EXCEPT ![t] = IF outcome[t] = "value"
                                           THEN "succeeded" ELSE "failed"]
          /\ result' = [result EXCEPT ![t] = IF outcome[t] = "value"
                                             THEN "value" ELSE "error"]
    /\ UNCHANGED <<unused, held, order, future, outcome, queue, attempt, pool,
                   closed, client>>

-----------------------------------------------------------------------------
(* The pool and its processes. *)

InFlight == {t \in Tasks : future[t] = "running"}

\* The manager thread hands out the oldest item; a cancelled one is dropped.
Start ==
    /\ queue # <<>>
    /\ pool \in {"up", "shutdown"}
    /\ Cardinality(InFlight) < MaxInFlight
    /\ queue' = Tail(queue)
    /\ LET t == Head(queue)
       IN  \/ /\ future[t] = "pending"
              /\ future' = [future EXCEPT ![t] = "running"]
              /\ attempt' = [attempt EXCEPT ![t] = 1]
           \/ future[t] = "cancelled" /\ UNCHANGED <<future, attempt>>
    /\ UNCHANGED <<unused, backend, outcome, callback, pool, closed, client>>

\* The child is done: set_result or set_exception wakes the waiters, the
\* callback follows.
Complete(t, o) ==
    /\ future' = [future EXCEPT ![t] = "done"]
    /\ outcome' = [outcome EXCEPT ![t] = o]
    /\ callback' = Due({t})
    /\ UNCHANGED attempt

\* One round of _execute_in_child: the name does not resolve (an exception of
\* the first round that no policy retries), or the function returns or raises.
ExecuteInChild(t) ==
    /\ future[t] = "running"
    /\ \/ attempt[t] = 1 /\ Complete(t, "error")
       \/ Complete(t, "value")
       \/ t \in Escaping /\ Complete(t, "exit")
       \/ \E exc \in Exceptions :
             \/ ~ShouldRetry(Policy[t], exc, attempt[t]) /\ Complete(t, "error")
             \/ /\ ShouldRetry(Policy[t], exc, attempt[t])
                /\ attempt' = [attempt EXCEPT ![t] = @ + 1]
                /\ UNCHANGED <<future, outcome, callback>>
    /\ UNCHANGED <<unused, backend, queue, pool, closed, client>>

\* A process dies: the pool fails everything it has and takes nothing more.
Crash ==
    LET lost == {t \in Tasks : future[t] \in {"pending", "running"}}
    IN  /\ InFlight # {}
        /\ pool \in {"up", "shutdown"}
        /\ pool' = IF pool = "up" THEN "broken" ELSE pool
        /\ future' = [t \in Tasks |-> IF t \in lost THEN "done" ELSE future[t]]
        /\ outcome' = [t \in Tasks |-> IF t \in lost THEN "error" ELSE outcome[t]]
        /\ callback' = Due(lost)
        /\ queue' = <<>>
        /\ UNCHANGED <<unused, backend, attempt, closed, client>>

-----------------------------------------------------------------------------
(* _get, _wait and _result. *)

\* future.running() is asked without the lock, the state changed with it.
Get(c, t) ==
    /\ Known(t)
    /\ \/ (t \notin held \/ future[t] # "running") /\ CallAndReturn(c)
       \/ t \in held /\ future[t] = "running" /\ Call(c, t, "mark")
    /\ UNCHANGED <<unused, backend, engine, closed>>

\* The entry is changed even if it was evicted meanwhile.
GetMark(c) ==
    LET t == job[c]
        s == IF entry[t] = "queued" THEN "running" ELSE entry[t]
    IN  /\ pc[c] = "mark"
        /\ entry' = [entry EXCEPT ![t] = s]
        /\ Return(c)
        /\ UNCHANGED <<unused, held, order, result, engine, closed>>

\* _wait and the first half of _result
WaitBegin(c, t, step) ==
    /\ Known(t)
    /\ \/ t \notin held /\ CallAndReturn(c)
       \/ t \in held /\ Call(c, t, step)
    /\ UNCHANGED <<unused, backend, engine, closed>>

Waiting(c) == pc[c] \in {"wait", "await_result"}

\* Future.result returned or raised; an Exception is swallowed, a
\* BaseException passes, and _get follows (the future is not running any more).
WaitWake(c) ==
    /\ Waiting(c)
    /\ Completed(job[c])
    /\ IF pc[c] = "await_result" /\ outcome[job[c]] # "exit" /\ job[c] \in held
       THEN Goto(c, "result")
       ELSE Return(c)
    /\ UNCHANGED <<unused, backend, engine, closed>>

WaitTimeout(c) ==
    /\ Waiting(c)
    /\ ~Completed(job[c])
    /\ Return(c)
    /\ UNCHANGED <<unused, backend, engine, closed>>

\* what the entry holds now, or ExecutionResult.cancelled() without a result
ResultRead(c) ==
    /\ pc[c] = "result"
    /\ Return(c)
    /\ UNCHANGED <<unused, backend, engine, closed>>

-----------------------------------------------------------------------------
(* _cancel: future.cancel() (which runs _settle in this thread), then       *)
(* _set_state, then a last look at the entry.                               *)

CancelCheck(c, t) ==
    /\ Known(t)
    /\ \/ (t \notin held \/ entry[t] \in Terminal) /\ CallAndReturn(c)
       \/ /\ t \in held /\ entry[t] \notin Terminal
          /\ Call(c, t, "cancel_future")
    /\ UNCHANGED <<unused, backend, engine, closed>>

CancelFuture(c) ==
    LET t == job[c]
    IN  /\ pc[c] = "cancel_future"
        /\ \/ /\ future[t] = "pending"
              /\ future' = [future EXCEPT ![t] = "cancelled"]
              /\ callback' = Due({t})
              /\ Goto(c, "cancel_callback")
           \/ /\ future[t] = "cancelled"
              /\ Goto(c, "cancel_write")
              /\ UNCHANGED <<future, callback>>
           \/ /\ future[t] \in {"running", "done"}
              /\ Goto(c, "cancel_read")
              /\ UNCHANGED <<future, callback>>
        /\ UNCHANGED <<unused, backend, outcome, queue, attempt, pool, closed>>

CancelCallback(c) ==
    /\ pc[c] = "cancel_callback"
    /\ callback[job[c]] = "ran"
    /\ Goto(c, "cancel_write")
    /\ UNCHANGED <<unused, backend, engine, closed>>

\* _set_state(CANCELLED)
CancelWrite(c) ==
    /\ pc[c] = "cancel_write"
    /\ entry' = [entry EXCEPT ![job[c]] = IF job[c] \in held THEN "cancelled" ELSE @]
    /\ Goto(c, "cancel_read")
    /\ UNCHANGED <<unused, held, order, result, engine, closed>>

CancelRead(c) ==
    /\ pc[c] = "cancel_read"
    /\ Return(c)
    /\ UNCHANGED <<unused, backend, engine, closed>>

-----------------------------------------------------------------------------
(* close: forget everything under the lock, then shut the pool down.        *)

Close(c) ==
    /\ \/ (pool = "none" \/ closed) /\ CallAndReturn(c)
       \/ pool # "none" /\ ~closed /\ Call(c, Absent, "shutdown")
    /\ closed' = TRUE
    /\ held' = {}
    /\ order' = <<>>
    /\ UNCHANGED <<unused, entry, result, engine>>

\* shutdown(cancel_futures=True): the manager thread cancels what is pending.
CloseShutdown(c) ==
    LET drained == {t \in Tasks : future[t] = "pending"}
    IN  /\ pc[c] = "shutdown"
        /\ pool' = IF pool = "up" THEN "shutdown" ELSE pool
        /\ future' = [t \in Tasks |-> IF t \in drained THEN "cancelled" ELSE future[t]]
        /\ callback' = Due(drained)
        /\ queue' = <<>>
        /\ Goto(c, "join")
        /\ UNCHANGED <<unused, backend, outcome, attempt, closed>>

CloseJoin(c) ==
    /\ pc[c] = "join"
    /\ InFlight = {}
    /\ Return(c)
    /\ UNCHANGED <<unused, backend, engine, closed>>

-----------------------------------------------------------------------------
Continue(c) ==
    \/ SubmitInsert(c) \/ SubmitDispatch(c) \/ SubmitRegister(c) \/ SubmitSettled(c)
    \/ GetMark(c) \/ WaitWake(c) \/ ResultRead(c)
    \/ CancelFuture(c) \/ CancelCallback(c) \/ CancelWrite(c) \/ CancelRead(c)
    \/ CloseShutdown(c) \/ CloseJoin(c)

Next ==
    \/ Start
    \/ Crash
    \/ \E t \in Tasks : ExecuteInChild(t) \/ Settle(t)
    \/ \E c \in Clients :
          \/ Continue(c)
          \/ WaitTimeout(c)
          \/ Close(c)
          \/ \E t \in Tasks :
                \/ Submit(c, t)
                \/ Get(c, t)
                \/ CancelCheck(c, t)
                \/ WaitBegin(c, t, "wait")
                \/ WaitBegin(c, t, "await_result")

Spec == Init /\ [][Next]_vars

\* The pool's manager thread and its processes keep running (or crash), a
\* completed future's callbacks are called, and a thread inside a method is
\* scheduled again; nobody has to call anything.
Fairness ==
    /\ WF_vars(Start)
    /\ \A t \in Tasks : WF_vars(ExecuteInChild(t)) /\ WF_vars(Settle(t))
    /\ \A c \in Clients : WF_vars(Continue(c))

FairSpec == Spec /\ Fairness
-----------------------------------------------------------------------------
(* Properties. *)

Queued(t) == \E i \in DOMAIN queue : queue[i] = t

\* Once the callback has run, the entry says what became of the future, and
\* has the result that goes with it, whatever get and cancel wrote around it:
\* result() calls an execution cancelled that was not only in the window
\* between a future's completion and its callback.
SettledIsTrue ==
    \A t \in held : callback[t] = "ran" =>
        <<entry[t], result[t]>> =
            IF future[t] = "cancelled" THEN <<"cancelled", "none">>
            ELSE IF outcome[t] = "value" THEN <<"succeeded", "value">>
            ELSE <<"failed", "error">>

\* What the backend says of an execution is a legal life cycle: it appears
\* QUEUED, moves along the table, ends once, and may be forgotten.
Observed == INSTANCE Lifecycle WITH
    Executions <- Tasks,
    state <- [t \in Tasks |-> IF t \in held /\ future[t] # "none" THEN entry[t]
                              ELSE Absent],
    forgotten <- {t \in Tasks : future[t] # "none" /\ t \notin held}

ImplementsLifecycle == Observed!LifecycleSpec

\* Every accepted task ends in a terminal state or is forgotten, a crash of
\* the pool included.
EveryTaskSettles ==
    \A t \in Tasks : Known(t) ~> (entry[t] \in Terminal \/ t \notin held)

\* Every call returns, a cancel that runs the callback itself included.
EveryCallReturns == \A c \in Clients : pc[c] # "idle" ~> pc[c] = "idle"

\* Nobody waits for ever: neither a task for its end nor a caller for its answer.
NobodyWaitsForever == EveryTaskSettles /\ EveryCallReturns
=============================================================================
