------------------------ MODULE ThreadBackendProofs ------------------------
(***************************************************************************)
(* Proofs about ThreadBackend, for any number of tasks, clients and        *)
(* workers and any history bound.                                          *)
(***************************************************************************)
EXTENDS ThreadBackend, SequenceTheorems, TLAPS

\* Nothing the backend, the pool or a worker keeps about u changes.
SameTask(u) ==
    /\ entry'[u] = entry[u] /\ result'[u] = result[u]
    /\ future'[u] = future[u] /\ run'[u] = run[u]
    /\ attempt'[u] = attempt[u] /\ outcome'[u] = outcome[u]

\* Nothing client d keeps about its call changes.
SameClient(d) ==
    /\ pc'[d] = pc[d] /\ op'[d] = op[d] /\ job'[d] = job[d]
    /\ stopped'[d] = stopped[d] /\ answer'[d] = answer[d]

-----------------------------------------------------------------------------
(* Entering, moving on inside and leaving a method keep the clients' types  *)
(* and touch one client only.                                               *)

\* Entering a method.
LEMMA CallTyped ==
    ASSUME ClientType, NEW c \in Clients, NEW m \in Methods, NEW s \in ClientSteps,
           NEW t \in Tasks \union {Absent}, Call(c, m, t, s)
    PROVE  ClientType' /\ \A d \in Clients \ {c} : SameClient(d)
  BY DEF ClientType, Call, SameClient, Answers

\* A call that returns at once.
LEMMA CallAndReturnTyped ==
    ASSUME ClientType, NEW c \in Clients, NEW a \in Answers, CallAndReturn(c, a)
    PROVE  ClientType' /\ \A d \in Clients \ {c} : SameClient(d)
  BY DEF ClientType, CallAndReturn, SameClient

\* Moving on inside a method.
LEMMA GotoTyped ==
    ASSUME ClientType, NEW c \in Clients, NEW s \in ClientSteps, Goto(c, s)
    PROVE  ClientType' /\ \A d \in Clients \ {c} : SameClient(d)
  BY DEF ClientType, Goto, SameClient

\* Leaving a method with a value or an exception.
LEMMA ReturnTyped ==
    ASSUME ClientType, NEW c \in Clients, NEW a \in Answers, Return(c, a)
    PROVE  ClientType' /\ \A d \in Clients \ {c} : SameClient(d)
  BY DEF ClientType, Return, SameClient, ClientSteps, Methods

\* Every state of an entry may be answered.
LEMMA EntryAnswer ==
    ASSUME BackendType, NEW t \in Tasks, entry[t] # Absent
    PROVE  entry[t] \in Answers
  BY DEF BackendType, Answers, State

-----------------------------------------------------------------------------
\* The backend as __init__ leaves it satisfies the invariant.
LEMMA InitInv == Init => IInv
<1> SUFFICES ASSUME Init PROVE IInv
  OBVIOUS
<1>1. TypeOK
  <2>1. <<>> \in Seq(Tasks)
    OBVIOUS
  <2> QED
    BY <2>1 DEF Init, TypeOK, BackendType, ClientType, RunSteps, ClientSteps, Futures, Methods, Answers
<1>2. TaskInv
  <2> SUFFICES ASSUME NEW t \in Tasks
               PROVE RunInv(t) /\ LocalsInv(t) /\ ResultInv(t) /\ QueueInv(t)
    BY DEF TaskInv
  <2>1. RunInv(t) /\ ResultInv(t) /\ QueueInv(t)
    BY DEF Init, RunInv, ResultInv, QueueInv, Absent
  <2>2. LocalsInv(t)
    BY ConstantsAssumption DEF Init, LocalsInv, EngineAttempts
  <2> QED BY <2>1, <2>2
<1>3. FreshInv /\ SubmitInv /\ \A c \in Clients : ClientInv(c)
  BY DEF Init, FreshInv, SubmitInv, InSubmit, ClientInv
<1> QED BY <1>1, <1>2, <1>3 DEF IInv

\* A step that only a task's own worker takes: the other tasks and every
\* client are left alone, and the task's future is running before it.
LEMMA WorkerStep ==
    ASSUME IInv, TypeOK', NEW t \in Tasks,
           UNCHANGED <<unused, queue, shutdown, pc, op, job, stopped, answer>>,
           \A u \in Tasks \ {t} : SameTask(u),
           future[t] = "running", future'[t] \in {"running", "done", "broken"},
           RunInv(t)', LocalsInv(t)', ResultInv(t)',
           entry'[t] = "queued" => run'[t] \in {"lookup", "check", "begin"}
    PROVE  IInv'
<1>1. TaskInv'
  <2> SUFFICES ASSUME NEW u \in Tasks
               PROVE (RunInv(u) /\ LocalsInv(u) /\ ResultInv(u) /\ QueueInv(u))'
    BY DEF TaskInv
  <2>1. CASE u = t
    BY <2>1 DEF QueueInv
  <2>2. CASE u # t
    <3>1. SameTask(u)
      BY <2>2
    <3>2. RunInv(u) /\ LocalsInv(u) /\ ResultInv(u) /\ QueueInv(u)
      BY DEF IInv, TaskInv
    <3>3. (RunInv(u) /\ LocalsInv(u) /\ ResultInv(u))'
      BY <3>1, <3>2 DEF SameTask, RunInv, LocalsInv, ResultInv
    <3>4. Queued(u)' <=> Queued(u)
      BY DEF Queued
    <3>5. Submitting(u)' <=> Submitting(u)
      BY DEF Submitting
    <3>6. Cancelling(u)' <=> Cancelling(u)
      BY DEF Cancelling
    <3>7. QueueInv(u)'
      BY <3>1, <3>2, <3>4, <3>5, <3>6 DEF SameTask, QueueInv
    <3> QED BY <3>3, <3>7
  <2> QED BY <2>1, <2>2
<1>2. FreshInv' /\ SubmitInv'
  BY DEF IInv, TypeOK, BackendType, ClientType, FreshInv, SubmitInv, InSubmit, SameTask
<1>3. ASSUME NEW c \in Clients PROVE ClientInv(c)'
  <2>1. ClientInv(c)
    BY DEF IInv
  <2>2. CASE job[c] \in Tasks /\ job[c] # t
    BY <2>1, <2>2 DEF ClientInv, InSubmit, SameTask
  <2>3. CASE job[c] = t
    BY <2>1, <2>3 DEF ClientInv, InSubmit
  <2>4. CASE job[c] \notin Tasks
    BY <2>1, <2>4 DEF ClientInv, InSubmit
  <2> QED BY <2>2, <2>3, <2>4
<1> QED BY <1>1, <1>2, <1>3 DEF IInv

\* A step that only moves one client on, in a method that holds nothing the
\* other parts of the invariant rely on.
LEMMA ClientStep ==
    ASSUME IInv, TypeOK', NEW c \in Clients,
           UNCHANGED <<unused, entry, result, future, queue, run, attempt,
                       outcome, shutdown>>,
           \A d \in Clients \ {c} : SameClient(d),
           pc[c] # "enqueue", pc[c] # "cancel_write",
           ~InSubmit(c)', ClientInv(c)'
    PROVE  IInv'
<1>1. TaskInv'
  <2> SUFFICES ASSUME NEW u \in Tasks
               PROVE (RunInv(u) /\ LocalsInv(u) /\ ResultInv(u) /\ QueueInv(u))'
    BY DEF TaskInv
  <2>1. RunInv(u) /\ LocalsInv(u) /\ ResultInv(u) /\ QueueInv(u)
    BY DEF IInv, TaskInv
  <2>2. (RunInv(u) /\ LocalsInv(u) /\ ResultInv(u))'
    BY <2>1 DEF RunInv, LocalsInv, ResultInv
  <2>3. Queued(u)' <=> Queued(u)
    BY DEF Queued
  <2>4. Submitting(u) => Submitting(u)'
    BY DEF Submitting, SameClient
  <2>5. Cancelling(u) => Cancelling(u)'
    BY DEF Cancelling, SameClient
  <2>6. QueueInv(u)'
    BY <2>1, <2>3, <2>4, <2>5 DEF QueueInv
  <2> QED BY <2>2, <2>6
<1>2. FreshInv'
  BY DEF IInv, FreshInv
<1>3. SubmitInv'
  BY DEF IInv, SubmitInv, InSubmit, SameClient
<1>4. ASSUME NEW d \in Clients, d # c PROVE ClientInv(d)'
  BY <1>4 DEF IInv, ClientInv, InSubmit, SameClient
<1> QED BY <1>1, <1>2, <1>3, <1>4 DEF IInv

-----------------------------------------------------------------------------
(* Worker steps. *)

\* The lookup of the entry keeps the invariant.
LEMMA RunLookupInv ==
    ASSUME IInv, NEW t \in Tasks, RunLookup(t)
    PROVE  IInv'
<1>1. /\ run[t] = "lookup"
      /\ \/ /\ entry[t] = Absent
            /\ run' = [run EXCEPT ![t] = "idle"]
            /\ future' = [future EXCEPT ![t] = "done"]
         \/ /\ ~(entry[t] = Absent)
            /\ run' = [run EXCEPT ![t] = "check"]
            /\ future' = future
      /\ UNCHANGED <<unused, entry, result, order, queue, attempt, outcome, closed, shutdown, pc, op, job, stopped, answer>>
  BY DEF RunLookup, RunReturn, RunStep, backend, pool, client, IInv, TypeOK, BackendType
<1>2. TypeOK'
  BY <1>1 DEF IInv, TypeOK, BackendType, ClientType, RunSteps, Futures
<1>3. \A u \in Tasks \ {t} : SameTask(u)
  BY <1>1 DEF IInv, TypeOK, BackendType, SameTask
<1>4. RunInv(t) /\ LocalsInv(t) /\ ResultInv(t)
  BY DEF IInv, TaskInv
<1>5. /\ future[t] = "running" /\ future'[t] \in {"running", "done", "broken"}
      /\ entry'[t] = "queued" => run'[t] \in {"lookup", "check", "begin"}
  BY <1>1, <1>4 DEF IInv, TypeOK, BackendType, RunInv, Absent
<1>6. RunInv(t)' /\ ResultInv(t)'
  BY <1>1, <1>4 DEF IInv, TypeOK, BackendType, RunInv, LocalsInv, ResultInv, Absent, Terminal
<1>7. LocalsInv(t)'
  BY <1>1, <1>4, ConstantsAssumption DEF IInv, TypeOK, BackendType, RunInv, LocalsInv, EngineAttempts, Absent
<1> QED
  BY <1>1, <1>2, <1>3, <1>5, <1>6, <1>7, WorkerStep

\* The second look before the start keeps the invariant.
LEMMA RunCheckInv ==
    ASSUME IInv, NEW t \in Tasks, RunCheck(t)
    PROVE  IInv'
<1>1. /\ run[t] = "check"
      /\ \/ /\ entry[t] \in {Absent, "cancelled"}
            /\ run' = [run EXCEPT ![t] = "idle"]
            /\ future' = [future EXCEPT ![t] = "done"]
         \/ /\ ~(entry[t] \in {Absent, "cancelled"})
            /\ run' = [run EXCEPT ![t] = "begin"]
            /\ future' = future
      /\ UNCHANGED <<unused, entry, result, order, queue, attempt, outcome, closed, shutdown, pc, op, job, stopped, answer>>
  BY DEF RunCheck, RunReturn, RunStep, backend, pool, client, IInv, TypeOK, BackendType
<1>2. TypeOK'
  BY <1>1 DEF IInv, TypeOK, BackendType, ClientType, RunSteps, Futures
<1>3. \A u \in Tasks \ {t} : SameTask(u)
  BY <1>1 DEF IInv, TypeOK, BackendType, SameTask
<1>4. RunInv(t) /\ LocalsInv(t) /\ ResultInv(t)
  BY DEF IInv, TaskInv
<1>5. /\ future[t] = "running" /\ future'[t] \in {"running", "done", "broken"}
      /\ entry'[t] = "queued" => run'[t] \in {"lookup", "check", "begin"}
  BY <1>1, <1>4 DEF IInv, TypeOK, BackendType, RunInv, Absent
<1>6. RunInv(t)' /\ ResultInv(t)'
  BY <1>1, <1>4 DEF IInv, TypeOK, BackendType, RunInv, LocalsInv, ResultInv, Absent, Terminal
<1>7. LocalsInv(t)'
  BY <1>1, <1>4, ConstantsAssumption DEF IInv, TypeOK, BackendType, RunInv, LocalsInv, EngineAttempts, Absent
<1> QED
  BY <1>1, <1>2, <1>3, <1>5, <1>6, <1>7, WorkerStep

\* The transition to RUNNING keeps the invariant.
LEMMA RunBeginInv ==
    ASSUME IInv, NEW t \in Tasks, RunBegin(t)
    PROVE  IInv'
<1>1. /\ run[t] = "begin"
      /\ run' = [run EXCEPT ![t] = "fetch"]
      /\ entry' = [entry EXCEPT ![t] = IF @ \in {Absent, "cancelled"} THEN @ ELSE "running"]
      /\ UNCHANGED <<unused, result, order, future, queue, attempt, outcome, closed, shutdown, pc, op, job, stopped, answer>>
  BY DEF RunBegin, RunStep, backend, pool, client, IInv, TypeOK, BackendType
<1>2. TypeOK'
  BY <1>1 DEF IInv, TypeOK, BackendType, ClientType, RunSteps, Futures
<1>3. \A u \in Tasks \ {t} : SameTask(u)
  BY <1>1 DEF IInv, TypeOK, BackendType, SameTask
<1>4. RunInv(t) /\ LocalsInv(t) /\ ResultInv(t)
  BY DEF IInv, TaskInv
<1>5. /\ future[t] = "running" /\ future'[t] \in {"running", "done", "broken"}
      /\ entry'[t] = "queued" => run'[t] \in {"lookup", "check", "begin"}
  BY <1>1, <1>4 DEF IInv, TypeOK, BackendType, RunInv, Absent
<1>6. RunInv(t)' /\ ResultInv(t)'
  BY <1>1, <1>4 DEF IInv, TypeOK, BackendType, RunInv, LocalsInv, ResultInv, Absent, Terminal
<1>7. LocalsInv(t)'
  BY <1>1, <1>4, ConstantsAssumption DEF IInv, TypeOK, BackendType, RunInv, LocalsInv, EngineAttempts, Absent
<1> QED
  BY <1>1, <1>2, <1>3, <1>5, <1>6, <1>7, WorkerStep

\* The read of the running snapshot keeps the invariant.
LEMMA RunFetchInv ==
    ASSUME IInv, NEW t \in Tasks, RunFetch(t)
    PROVE  IInv'
<1>1. /\ run[t] = "fetch"
      /\ \/ /\ entry[t] = Absent
            /\ run' = [run EXCEPT ![t] = "idle"]
            /\ future' = [future EXCEPT ![t] = "done"]
         \/ /\ ~(entry[t] = Absent)
            /\ run' = [run EXCEPT ![t] = "resolve"]
            /\ future' = future
      /\ UNCHANGED <<unused, entry, result, order, queue, attempt, outcome, closed, shutdown, pc, op, job, stopped, answer>>
  BY DEF RunFetch, RunReturn, RunStep, backend, pool, client, IInv, TypeOK, BackendType
<1>2. TypeOK'
  BY <1>1 DEF IInv, TypeOK, BackendType, ClientType, RunSteps, Futures
<1>3. \A u \in Tasks \ {t} : SameTask(u)
  BY <1>1 DEF IInv, TypeOK, BackendType, SameTask
<1>4. RunInv(t) /\ LocalsInv(t) /\ ResultInv(t)
  BY DEF IInv, TaskInv
<1>5. /\ future[t] = "running" /\ future'[t] \in {"running", "done", "broken"}
      /\ entry'[t] = "queued" => run'[t] \in {"lookup", "check", "begin"}
  BY <1>1, <1>4 DEF IInv, TypeOK, BackendType, RunInv, Absent
<1>6. RunInv(t)' /\ ResultInv(t)'
  BY <1>1, <1>4 DEF IInv, TypeOK, BackendType, RunInv, LocalsInv, ResultInv, Absent, Terminal
<1>7. LocalsInv(t)'
  BY <1>1, <1>4, ConstantsAssumption DEF IInv, TypeOK, BackendType, RunInv, LocalsInv, EngineAttempts, Absent
<1> QED
  BY <1>1, <1>2, <1>3, <1>5, <1>6, <1>7, WorkerStep

\* Resolving the task's name keeps the invariant.
LEMMA RunResolveInv ==
    ASSUME IInv, NEW t \in Tasks, RunResolve(t)
    PROVE  IInv'
<1>1. /\ run[t] = "resolve"
      /\ attempt' = [attempt EXCEPT ![t] = 1]
      /\ \/ /\ run' = [run EXCEPT ![t] = "call"]
            /\ outcome' = outcome
         \/ /\ run' = [run EXCEPT ![t] = "finish"]
            /\ outcome' = [outcome EXCEPT ![t] = "error"]
      /\ UNCHANGED <<unused, entry, result, order, future, queue, closed, shutdown, pc, op, job, stopped, answer>>
  BY DEF RunResolve, RunStep, backend, pool, client, IInv, TypeOK, BackendType
<1>2. TypeOK'
  BY <1>1 DEF IInv, TypeOK, BackendType, ClientType, RunSteps, Futures
<1>3. \A u \in Tasks \ {t} : SameTask(u)
  BY <1>1 DEF IInv, TypeOK, BackendType, SameTask
<1>4. RunInv(t) /\ LocalsInv(t) /\ ResultInv(t)
  BY DEF IInv, TaskInv
<1>5. /\ future[t] = "running" /\ future'[t] \in {"running", "done", "broken"}
      /\ entry'[t] = "queued" => run'[t] \in {"lookup", "check", "begin"}
  BY <1>1, <1>4 DEF IInv, TypeOK, BackendType, RunInv, Absent
<1>6. RunInv(t)' /\ ResultInv(t)'
  BY <1>1, <1>4 DEF IInv, TypeOK, BackendType, RunInv, LocalsInv, ResultInv, Absent, Terminal
<1>7. LocalsInv(t)'
  BY <1>1, <1>4, ConstantsAssumption DEF IInv, TypeOK, BackendType, RunInv, LocalsInv, EngineAttempts, Absent
<1> QED
  BY <1>1, <1>2, <1>3, <1>5, <1>6, <1>7, WorkerStep

\* One call of the function keeps the invariant.
LEMMA RunCallInv ==
    ASSUME IInv, NEW t \in Tasks, RunCall(t)
    PROVE  IInv'
<1>1. /\ run[t] = "call"
      /\ \/ /\ run' = [run EXCEPT ![t] = "finish"]
            /\ outcome' = [outcome EXCEPT ![t] = "value"]
            /\ attempt' = attempt
         \/ /\ run' = [run EXCEPT ![t] = "finish"]
            /\ outcome' = [outcome EXCEPT ![t] = "error"]
            /\ attempt' = attempt
         \/ /\ attempt[t] < Policy[t].max_attempts
            /\ Policy[t].owner = "backend"
            /\ run' = run
            /\ attempt' = [attempt EXCEPT ![t] = @ + 1]
            /\ outcome' = outcome
      /\ UNCHANGED <<unused, entry, result, order, future, queue, closed, shutdown, pc, op, job, stopped, answer>>
  BY DEF RunCall, RunStep, ShouldRetry, backend, pool, client, IInv, TypeOK, BackendType
<1>2. TypeOK'
  <2>1. CASE /\ run' = [run EXCEPT ![t] = "finish"] /\ attempt' = attempt
             /\ \E v \in {"value", "error"} : outcome' = [outcome EXCEPT ![t] = v]
    BY <1>1, <2>1 DEF IInv, TypeOK, BackendType, ClientType, RunSteps
  <2>2. CASE /\ run' = run /\ outcome' = outcome
             /\ attempt' = [attempt EXCEPT ![t] = @ + 1]
    BY <1>1, <2>2 DEF IInv, TypeOK, BackendType, ClientType
  <2> QED BY <1>1, <2>1, <2>2
<1>3. \A u \in Tasks \ {t} : SameTask(u)
  BY <1>1 DEF IInv, TypeOK, BackendType, SameTask
<1>4. RunInv(t) /\ LocalsInv(t) /\ ResultInv(t)
  BY DEF IInv, TaskInv
<1>5. /\ future[t] = "running" /\ future'[t] \in {"running", "done", "broken"}
      /\ entry'[t] = "queued" => run'[t] \in {"lookup", "check", "begin"}
  BY <1>1, <1>4 DEF IInv, TypeOK, BackendType, RunInv, Absent
<1>6. RunInv(t)' /\ ResultInv(t)'
  BY <1>1, <1>4 DEF IInv, TypeOK, BackendType, RunInv, LocalsInv, ResultInv, Absent, Terminal
<1>7. LocalsInv(t)'
  BY <1>1, <1>4, ConstantsAssumption DEF IInv, TypeOK, BackendType, RunInv, LocalsInv, EngineAttempts, Absent
<1> QED
  BY <1>1, <1>2, <1>3, <1>5, <1>6, <1>7, WorkerStep

\* Writing the outcome keeps the invariant.
LEMMA RunFinishInv ==
    ASSUME IInv, NEW t \in Tasks, RunFinish(t)
    PROVE  IInv'
<1>1. /\ run[t] = "finish"
      /\ run' = [run EXCEPT ![t] = "return"]
      /\ \/ /\ entry[t] = Absent
            /\ entry' = entry /\ result' = result
         \/ /\ entry[t] # Absent
            /\ result' = [result EXCEPT ![t] = outcome[t]]
            /\ entry' = [entry EXCEPT ![t] = IF outcome[t] = "value"
                                             THEN "succeeded" ELSE "failed"]
      /\ UNCHANGED <<unused, order, future, queue, attempt, outcome, closed, shutdown, pc, op, job, stopped, answer>>
  BY DEF RunFinish, RunStep, backend, pool, client, IInv, TypeOK, BackendType
<1>2. TypeOK'
  BY <1>1 DEF IInv, TypeOK, BackendType, ClientType, RunSteps, Futures
<1>3. \A u \in Tasks \ {t} : SameTask(u)
  BY <1>1 DEF IInv, TypeOK, BackendType, SameTask
<1>4. RunInv(t) /\ LocalsInv(t) /\ ResultInv(t)
  BY DEF IInv, TaskInv
<1>5. /\ future[t] = "running" /\ future'[t] \in {"running", "done", "broken"}
      /\ entry'[t] = "queued" => run'[t] \in {"lookup", "check", "begin"}
  BY <1>1, <1>4 DEF IInv, TypeOK, BackendType, RunInv, Absent
<1>6. RunInv(t)' /\ ResultInv(t)'
  BY <1>1, <1>4 DEF IInv, TypeOK, BackendType, RunInv, LocalsInv, ResultInv, Absent, Terminal
<1>7. LocalsInv(t)'
  BY <1>1, <1>4, ConstantsAssumption DEF IInv, TypeOK, BackendType, RunInv, LocalsInv, EngineAttempts, Absent
<1> QED
  BY <1>1, <1>2, <1>3, <1>5, <1>6, <1>7, WorkerStep

\* A BaseException that ends _run in the middle keeps the invariant: the
\* entry stays RUNNING, but the future says so.
LEMMA RunEscapeInv ==
    ASSUME IInv, NEW t \in Tasks, RunEscape(t)
    PROVE  IInv'
<1>1. /\ run[t] = "call" /\ t \in Escaping
      /\ run' = [run EXCEPT ![t] = "idle"]
      /\ future' = [future EXCEPT ![t] = "broken"]
      /\ UNCHANGED <<unused, entry, result, order, queue, attempt, outcome, closed, shutdown, pc, op, job, stopped, answer>>
  BY DEF RunEscape, RunStep, backend, pool, client, IInv, TypeOK, BackendType
<1>2. TypeOK'
  BY <1>1 DEF IInv, TypeOK, BackendType, ClientType, RunSteps, Futures
<1>3. \A u \in Tasks \ {t} : SameTask(u)
  BY <1>1 DEF IInv, TypeOK, BackendType, SameTask
<1>4. RunInv(t) /\ LocalsInv(t) /\ ResultInv(t)
  BY DEF IInv, TaskInv
<1>5. /\ future[t] = "running" /\ future'[t] \in {"running", "done", "broken"}
      /\ entry'[t] = "queued" => run'[t] \in {"lookup", "check", "begin"}
  BY <1>1, <1>4 DEF IInv, TypeOK, BackendType, RunInv, Absent
<1>6. RunInv(t)' /\ ResultInv(t)'
  BY <1>1, <1>4 DEF IInv, TypeOK, BackendType, RunInv, LocalsInv, ResultInv, Absent, Terminal
<1>7. LocalsInv(t)'
  BY <1>1, <1>4, ConstantsAssumption DEF IInv, TypeOK, BackendType, RunInv, LocalsInv, EngineAttempts, Absent
<1> QED
  BY <1>1, <1>2, <1>3, <1>5, <1>6, <1>7, WorkerStep

\* The return that completes the future keeps the invariant.
LEMMA RunDoneInv ==
    ASSUME IInv, NEW t \in Tasks, RunDone(t)
    PROVE  IInv'
<1>1. /\ run[t] = "return"
      /\ run' = [run EXCEPT ![t] = "idle"]
      /\ future' = [future EXCEPT ![t] = "done"]
      /\ UNCHANGED <<unused, entry, result, order, queue, attempt, outcome, closed, shutdown, pc, op, job, stopped, answer>>
  BY DEF RunDone, RunReturn, backend, pool, client, IInv, TypeOK, BackendType
<1>2. TypeOK'
  BY <1>1 DEF IInv, TypeOK, BackendType, ClientType, RunSteps, Futures
<1>3. \A u \in Tasks \ {t} : SameTask(u)
  BY <1>1 DEF IInv, TypeOK, BackendType, SameTask
<1>4. RunInv(t) /\ LocalsInv(t) /\ ResultInv(t)
  BY DEF IInv, TaskInv
<1>5. /\ future[t] = "running" /\ future'[t] \in {"running", "done", "broken"}
      /\ entry'[t] = "queued" => run'[t] \in {"lookup", "check", "begin"}
  BY <1>1, <1>4 DEF IInv, TypeOK, BackendType, RunInv, Absent
<1>6. RunInv(t)' /\ ResultInv(t)'
  BY <1>1, <1>4 DEF IInv, TypeOK, BackendType, RunInv, LocalsInv, ResultInv, Absent, Terminal
<1>7. LocalsInv(t)'
  BY <1>1, <1>4, ConstantsAssumption DEF IInv, TypeOK, BackendType, RunInv, LocalsInv, EngineAttempts, Absent
<1> QED
  BY <1>1, <1>2, <1>3, <1>5, <1>6, <1>7, WorkerStep
-----------------------------------------------------------------------------
(* Client steps that only move one client on. *)

\* The first check of cancel keeps the invariant.
LEMMA CancelCheckInv ==
    ASSUME IInv, NEW c \in Clients, NEW t \in Tasks, CancelCheck(c, t)
    PROVE  IInv'
<1>1. /\ UNCHANGED <<unused, entry, result, order, future, queue, run, attempt,
                     outcome, closed, shutdown>>
      /\ pc[c] = "idle"
  BY DEF CancelCheck, Call, CallAndReturn, backend, pool, worker
<1>2. ClientType' /\ \A d \in Clients \ {c} : SameClient(d)
  BY CallTyped, CallAndReturnTyped, EntryAnswer DEF IInv, TypeOK, CancelCheck, Methods, ClientSteps, Answers, Terminal, Absent
<1>3. TypeOK'
  BY <1>1, <1>2 DEF IInv, TypeOK, BackendType
<1>4. ClientType /\ ClientInv(c)
  BY DEF IInv, TypeOK
<1>5. ClientInv(c)' /\ ~InSubmit(c)'
  BY <1>1, <1>4 DEF ClientType, ClientInv, InSubmit, CancelCheck, Call, CallAndReturn, Known
<1> QED
  BY <1>1, <1>2, <1>3, <1>5, ClientStep

\* Entering wait or result keeps the invariant.
LEMMA WaitBeginInv ==
    ASSUME IInv, NEW c \in Clients, NEW t \in Tasks,
           NEW m \in {"wait", "result"}, WaitBegin(c, t, m)
    PROVE  IInv'
<1>1. /\ UNCHANGED <<unused, entry, result, order, future, queue, run, attempt,
                     outcome, closed, shutdown>>
      /\ pc[c] = "idle"
  BY DEF WaitBegin, Call, CallAndReturn, backend, pool, worker
<1>2. ClientType' /\ \A d \in Clients \ {c} : SameClient(d)
  <2>1. /\ m \in Methods /\ "wait" \in ClientSteps /\ "not_found" \in Answers
        /\ t \in Tasks \union {Absent}
    BY DEF Methods, ClientSteps, Answers
  <2>2. CallAndReturn(c, "not_found") \/ Call(c, m, t, "wait")
    BY DEF WaitBegin
  <2> QED
    BY <2>1, <2>2, CallTyped, CallAndReturnTyped DEF IInv, TypeOK
<1>3. TypeOK'
  BY <1>1, <1>2 DEF IInv, TypeOK, BackendType
<1>4. ClientType /\ ClientInv(c)
  BY DEF IInv, TypeOK
<1>5. ClientInv(c)' /\ ~InSubmit(c)'
  BY <1>1, <1>4 DEF ClientType, ClientInv, InSubmit, WaitBegin, Call, CallAndReturn, Known
<1> QED
  BY <1>1, <1>2, <1>3, <1>5, ClientStep

\* Waking up on a completed future keeps the invariant.
LEMMA WaitWakeInv ==
    ASSUME IInv, NEW c \in Clients, WaitWake(c)
    PROVE  IInv'
<1>1. /\ UNCHANGED <<unused, entry, result, order, future, queue, run, attempt,
                     outcome, closed, shutdown>>
      /\ pc[c] = "wait" /\ job[c] \in Tasks /\ ClientInv(c)
  BY DEF WaitWake, Return, Goto, backend, pool, worker, IInv, ClientInv
<1>2. ClientType' /\ \A d \in Clients \ {c} : SameClient(d)
  BY <1>1, ReturnTyped, GotoTyped, EntryAnswer DEF IInv, TypeOK, WaitWake, ClientSteps, Answers
<1>3. TypeOK'
  BY <1>1, <1>2 DEF IInv, TypeOK, BackendType
<1>4. ClientType
  BY DEF IInv, TypeOK
<1>5. ClientInv(c)' /\ ~InSubmit(c)'
  BY <1>1, <1>4 DEF ClientType, ClientInv, InSubmit, WaitWake, Completed, Return, Goto
<1> QED
  BY <1>1, <1>2, <1>3, <1>5, ClientStep

\* A wait that times out keeps the invariant.
LEMMA WaitTimeoutInv ==
    ASSUME IInv, NEW c \in Clients, WaitTimeout(c)
    PROVE  IInv'
<1>1. /\ UNCHANGED <<unused, entry, result, order, future, queue, run, attempt,
                     outcome, closed, shutdown>>
      /\ pc[c] = "wait" /\ ClientInv(c)
  BY DEF WaitTimeout, Return, backend, pool, worker, IInv
<1>2. ClientType' /\ \A d \in Clients \ {c} : SameClient(d)
  BY ReturnTyped DEF IInv, TypeOK, WaitTimeout, Answers
<1>3. TypeOK'
  BY <1>1, <1>2 DEF IInv, TypeOK, BackendType
<1>4. ClientType
  BY DEF IInv, TypeOK
<1>5. ClientInv(c)' /\ ~InSubmit(c)'
  BY <1>1, <1>4 DEF ClientType, ClientInv, InSubmit, WaitTimeout, Return
<1> QED
  BY <1>1, <1>2, <1>3, <1>5, ClientStep

\* Entering close keeps the invariant.
LEMMA CloseInv ==
    ASSUME IInv, NEW c \in Clients, Close(c)
    PROVE  IInv'
<1>1. /\ UNCHANGED <<unused, entry, result, order, future, queue, run, attempt,
                     outcome, shutdown>>
      /\ pc[c] = "idle" /\ closed' = TRUE
  BY DEF Close, Call, backend, pool, worker
<1>2. ClientType' /\ \A d \in Clients \ {c} : SameClient(d)
  BY CallTyped DEF IInv, TypeOK, Close, Methods, ClientSteps
<1>3. TypeOK'
  BY <1>1, <1>2 DEF IInv, TypeOK, BackendType
<1>4. ClientType
  BY DEF IInv, TypeOK
<1>5. ClientInv(c)' /\ ~InSubmit(c)'
  BY <1>1, <1>4 DEF ClientType, ClientInv, InSubmit, Close, Call
<1> QED
  BY <1>1, <1>2, <1>3, <1>5, ClientStep

\* Reading the result keeps the invariant.
LEMMA ResultReadInv ==
    ASSUME IInv, NEW c \in Clients, ResultRead(c)
    PROVE  IInv'
<1>1. /\ UNCHANGED <<unused, entry, result, order, future, queue, run, attempt,
                     outcome, closed, shutdown>>
      /\ pc[c] = "result" /\ job[c] \in Tasks /\ ClientInv(c)
  BY DEF ResultRead, backend, pool, worker, IInv, ClientInv
<1>2. ClientType' /\ \A d \in Clients \ {c} : SameClient(d)
  <2>1. "cancelled" \in Answers /\ "key_error" \in Answers /\ result[job[c]] \in Answers
    BY <1>1 DEF IInv, TypeOK, BackendType, Answers, State
  <2> QED BY <2>1, ReturnTyped DEF IInv, TypeOK, ResultRead
<1>3. TypeOK'
  BY <1>1, <1>2 DEF IInv, TypeOK, BackendType
<1>4. pc'[c] = "idle" /\ op'[c] = "none"
  BY <1>1 DEF IInv, TypeOK, ClientType, ResultRead, Return
<1>5. ClientInv(c)' /\ ~InSubmit(c)'
  BY <1>4 DEF ClientInv, InSubmit
<1> QED
  BY <1>1, <1>2, <1>3, <1>5, ClientStep
-----------------------------------------------------------------------------
(* Steps that change what the parts share. *)

\* Submitting: the id leaves the unused ones for good.
LEMMA SubmitStepInv ==
    ASSUME IInv, NEW c \in Clients, NEW t \in Tasks, Submit(c, t)
    PROVE  IInv'
<1>1. /\ UNCHANGED <<entry, result, order, future, queue, run, attempt,
                     outcome, closed, shutdown>>
      /\ pc[c] = "idle" /\ t \in unused
  BY DEF Submit, Call, CallAndReturn, backend, pool, worker
<1>2. ClientType' /\ \A d \in Clients \ {c} : SameClient(d)
  BY CallTyped, CallAndReturnTyped
  DEF Submit, IInv, TypeOK, Methods, ClientSteps, Answers
<1>3. TypeOK'
  BY <1>1, <1>2 DEF IInv, TypeOK, BackendType, Submit
<1>4. future[t] = "none" /\ entry[t] = Absent
  BY <1>1 DEF IInv, FreshInv
<1>5. CASE closed
  <2>1. unused' = unused /\ ~InSubmit(c)' /\ ClientInv(c)'
    BY <1>1, <1>5 DEF Submit, CallAndReturn, IInv, TypeOK, ClientType, ClientInv, InSubmit
  <2> QED
    BY <1>1, <1>2, <1>3, <2>1, ClientStep
<1>6. CASE ~closed
  <2>1. /\ unused' = unused \ {t}
        /\ pc'[c] = "insert" /\ job'[c] = t /\ op'[c] = "submit"
    BY <1>6 DEF Submit, Call, IInv, TypeOK, ClientType
  <2>2. TaskInv'
    <3> SUFFICES ASSUME NEW u \in Tasks
                 PROVE (RunInv(u) /\ LocalsInv(u) /\ ResultInv(u) /\ QueueInv(u))'
      BY DEF TaskInv
    <3>1. RunInv(u) /\ LocalsInv(u) /\ ResultInv(u) /\ QueueInv(u)
      BY DEF IInv, TaskInv
    <3>2. (RunInv(u) /\ LocalsInv(u) /\ ResultInv(u))'
      BY <1>1, <3>1 DEF RunInv, LocalsInv, ResultInv
    <3>3. /\ Queued(u)' <=> Queued(u)
          /\ Submitting(u) => Submitting(u)'
          /\ Cancelling(u) => Cancelling(u)'
      BY <1>1, <1>2 DEF Queued, Submitting, Cancelling, SameClient
    <3> QED
      BY <1>1, <3>1, <3>2, <3>3 DEF QueueInv
  <2>3. FreshInv'
    BY <1>1, <2>1 DEF IInv, FreshInv
  <2>4. \A d \in Clients : InSubmit(d) => job[d] # t
    BY <1>1 DEF IInv, ClientInv
  <2>5. SubmitInv'
    BY <1>1, <1>2, <2>1, <2>4 DEF IInv, SubmitInv, InSubmit, SameClient
  <2>6. ASSUME NEW d \in Clients PROVE ClientInv(d)'
    <3>1. CASE d = c
      BY <1>1, <1>4, <2>1, <3>1 DEF ClientInv, InSubmit
    <3>2. CASE d # c
      BY <1>1, <1>2, <2>1, <2>4, <3>2 DEF IInv, ClientInv, InSubmit, SameClient
    <3> QED BY <3>1, <3>2
  <2> QED
    BY <1>3, <2>2, <2>3, <2>5, <2>6 DEF IInv
<1> QED BY <1>5, <1>6

\* What _remember_locked does to the tasks, whatever it evicts.
LEMMA Remembering ==
    ASSUME BackendType, NEW key \in Tasks, RememberLocked(key)
    PROVE  /\ order' \in Seq(Tasks)
           /\ entry'[key] = "queued" /\ result'[key] = "none"
           /\ \A u \in Tasks \ {key} :
                 \/ entry'[u] = entry[u] /\ result'[u] = result[u]
                 \/ entry'[u] = Absent /\ result'[u] = "none"
           /\ entry' \in [Tasks -> {Absent, "queued", "running", "cancelled",
                                    "succeeded", "failed"}]
           /\ result' \in [Tasks -> {"none", "value", "error"}]
<1> DEFINE longer == Append(order, key)
           n == Overflow(longer)
<1>1. longer \in Seq(Tasks) /\ Len(longer) \in Nat
  BY DEF BackendType
<1>2. n \in Nat /\ n <= Len(longer)
  BY <1>1, ConstantsAssumption DEF Overflow
<1>3. order' \in Seq(Tasks)
  <2>1. order' = SubSeq(longer, n + 1, Len(longer))
    BY DEF RememberLocked
  <2>2. \A i \in n + 1 .. Len(longer) : longer[i] \in Tasks
    BY <1>1, <1>2
  <2> HIDE DEF longer, n
  <2> QED
    BY <1>1, <1>2, <2>1, <2>2
<1>4. PICK E \in SUBSET Tasks :
         /\ entry' = [u \in Tasks |-> IF u = key THEN "queued"
                                      ELSE IF u \in E THEN Absent ELSE entry[u]]
         /\ result' = [u \in Tasks |-> IF u \in E \union {key} THEN "none"
                                       ELSE result[u]]
  <2>1. {longer[i] : i \in 1 .. n} \ {key} \in SUBSET Tasks
    BY <1>1, <1>2
  <2> QED
    BY <2>1 DEF RememberLocked
<1> QED
  BY <1>3, <1>4 DEF BackendType

\* Inserting the entry: the evicted entries, whatever their state, and the
\* new one are consistent with pool and workers.
LEMMA SubmitInsertInv ==
    ASSUME IInv, NEW c \in Clients, SubmitInsert(c)
    PROVE  IInv'
<1>1. /\ UNCHANGED <<unused, future, queue, run, attempt, outcome, closed, shutdown>>
      /\ pc[c] = "insert" /\ RememberLocked(job[c]) /\ Goto(c, "enqueue")
  BY DEF SubmitInsert, pool, worker
<1>2. ClientInv(c) /\ InSubmit(c)
  BY <1>1 DEF IInv, InSubmit
<1>3. job[c] \in Tasks \ unused /\ future[job[c]] = "none"
  BY <1>2 DEF ClientInv
<1>4. ClientType' /\ \A d \in Clients \ {c} : SameClient(d)
  BY <1>1, GotoTyped DEF IInv, TypeOK, ClientSteps
<1>5. /\ order' \in Seq(Tasks)
      /\ entry'[job[c]] = "queued" /\ result'[job[c]] = "none"
      /\ \A u \in Tasks \ {job[c]} :
            \/ entry'[u] = entry[u] /\ result'[u] = result[u]
            \/ entry'[u] = Absent /\ result'[u] = "none"
      /\ entry' \in [Tasks -> {Absent, "queued", "running", "cancelled",
                               "succeeded", "failed"}]
      /\ result' \in [Tasks -> {"none", "value", "error"}]
  BY <1>1, <1>3, Remembering DEF IInv, TypeOK
<1>6. TypeOK'
  BY <1>1, <1>4, <1>5 DEF IInv, TypeOK, BackendType
<1>7. pc'[c] = "enqueue" /\ job' = job /\ op' = op /\ answer' = answer
  BY <1>1 DEF Goto, IInv, TypeOK, ClientType
<1>8. TaskInv'
  <2> SUFFICES ASSUME NEW u \in Tasks
               PROVE (RunInv(u) /\ LocalsInv(u) /\ ResultInv(u) /\ QueueInv(u))'
    BY DEF TaskInv
  <2>1. RunInv(u) /\ LocalsInv(u) /\ ResultInv(u) /\ QueueInv(u)
    BY DEF IInv, TaskInv
  <2>2. /\ Queued(u)' <=> Queued(u)
        /\ Cancelling(u) => Cancelling(u)'
    BY <1>1, <1>4 DEF Queued, Cancelling, SameClient
  <2>3. Submitting(u) => Submitting(u)'
    BY <1>1, <1>4 DEF Submitting, SameClient
  <2>4. CASE u = job[c]
    <3>1. Submitting(u)'
      BY <1>7, <2>4 DEF Submitting
    <3> QED
      BY <1>1, <1>3, <1>5, <2>1, <2>4, <3>1
      DEF RunInv, LocalsInv, ResultInv, QueueInv, Absent
  <2>5. CASE u # job[c]
    BY <1>1, <1>5, <2>1, <2>2, <2>3, <2>5
    DEF RunInv, LocalsInv, ResultInv, QueueInv, Absent
  <2> QED BY <2>4, <2>5
<1>9. FreshInv'
  BY <1>1, <1>3, <1>5 DEF IInv, TypeOK, BackendType, FreshInv
<1>10. SubmitInv'
  BY <1>2, <1>4, <1>7 DEF IInv, SubmitInv, InSubmit, SameClient
<1>11. ASSUME NEW d \in Clients PROVE ClientInv(d)'
  <2>1. CASE d = c
    BY <1>1, <1>2, <1>7, <2>1 DEF ClientInv, InSubmit
  <2>2. CASE d # c
    <3>1. ClientInv(d) /\ SameClient(d)
      BY <1>4, <2>2 DEF IInv
    <3>2. pc[d] = "insert" => job[d] # job[c]
      BY <1>2, <2>2 DEF IInv, SubmitInv, InSubmit
    <3> QED
      BY <1>1, <1>5, <3>1, <3>2 DEF ClientInv, InSubmit, SameClient
  <2> QED BY <2>1, <2>2
<1> QED
  BY <1>6, <1>8, <1>9, <1>10, <1>11 DEF IInv

\* Handing the task to the pool makes its future pending and queues it.
LEMMA SubmitEnqueueInv ==
    ASSUME IInv, NEW c \in Clients, SubmitEnqueue(c)
    PROVE  IInv'
<1>1. /\ UNCHANGED <<unused, entry, result, order, run, attempt, outcome, closed, shutdown>>
      /\ pc[c] = "enqueue"
  BY DEF SubmitEnqueue, backend, pool, worker
<1>2. ClientInv(c) /\ InSubmit(c) /\ job[c] \in Tasks \ unused /\ future[job[c]] = "none"
  BY <1>1 DEF IInv, InSubmit, ClientInv
<1>3. ClientType' /\ \A d \in Clients \ {c} : SameClient(d)
  BY ReturnTyped DEF SubmitEnqueue, IInv, TypeOK, Answers, State
<1>4. pc'[c] = "idle" /\ op'[c] = "none"
  BY DEF SubmitEnqueue, Return, IInv, TypeOK, ClientType
<1>5. ClientInv(c)' /\ ~InSubmit(c)'
  BY <1>4 DEF ClientInv, InSubmit
<1>6. \A u \in Tasks : Cancelling(u) => Cancelling(u)'
  BY <1>1, <1>3 DEF Cancelling, SameClient
<1>7. \A u \in Tasks \ {job[c]} : Submitting(u) => Submitting(u)'
  BY <1>3 DEF Submitting, SameClient
<1>8. SubmitInv'
  BY <1>3, <1>5 DEF IInv, SubmitInv, InSubmit, SameClient
<1>9. \A d \in Clients \ {c} : InSubmit(d) => job[d] # job[c]
  BY <1>2 DEF IInv, SubmitInv
<1>10. CASE shutdown
  <2>1. UNCHANGED <<future, queue>>
    BY <1>10 DEF SubmitEnqueue, pool
  <2>2. TypeOK'
    BY <1>1, <1>3, <2>1 DEF IInv, TypeOK, BackendType
  <2>3. TaskInv'
    BY <1>1, <1>10, <2>1
    DEF IInv, TaskInv, RunInv, LocalsInv, ResultInv, QueueInv, Queued
  <2>4. FreshInv'
    BY <1>1, <2>1 DEF IInv, FreshInv
  <2>5. ASSUME NEW d \in Clients, d # c PROVE ClientInv(d)'
    BY <1>1, <1>3, <2>1, <2>5 DEF IInv, ClientInv, InSubmit, SameClient
  <2> QED
    BY <1>5, <1>8, <2>2, <2>3, <2>4, <2>5 DEF IInv
<1>11. CASE ~shutdown
  <2>1. /\ future' = [future EXCEPT ![job[c]] = "pending"]
        /\ queue' = Append(queue, job[c])
    BY <1>11 DEF SubmitEnqueue
  <2>2. /\ queue' \in Seq(Tasks) /\ future' \in [Tasks -> Futures]
        /\ \A u \in Tasks : Queued(u) => Queued(u)'
        /\ \E i \in DOMAIN queue' : queue'[i] = job[c]
    <3>1. queue \in Seq(Tasks) /\ job[c] \in Tasks
      BY <1>2 DEF IInv, TypeOK, BackendType
    <3>2. /\ Len(queue') = Len(queue) + 1 /\ queue' \in Seq(Tasks)
          /\ queue'[Len(queue) + 1] = job[c]
          /\ \A i \in 1 .. Len(queue) : queue'[i] = queue[i]
      BY <2>1, <3>1
    <3>3. DOMAIN queue = 1 .. Len(queue) /\ DOMAIN queue' = 1 .. Len(queue) + 1
      BY <3>1, <3>2
    <3>4. Len(queue) \in Nat
      BY <3>1
    <3>5. \E i \in DOMAIN queue' : queue'[i] = job[c]
      <4>1. Len(queue) + 1 \in DOMAIN queue'
        BY <3>3, <3>4
      <4> QED BY <3>2, <4>1
    <3>7. ASSUME NEW u \in Tasks, Queued(u) PROVE Queued(u)'
      <4>1. PICK i \in 1 .. Len(queue) : queue[i] = u
        BY <3>3, <3>7 DEF Queued
      <4>2. i \in DOMAIN queue' /\ queue'[i] = u
        BY <3>2, <3>3, <3>4, <4>1
      <4> QED BY <4>2 DEF Queued
    <3>6. future' \in [Tasks -> Futures]
      BY <1>2, <2>1 DEF IInv, TypeOK, BackendType, Futures
    <3> QED BY <3>2, <3>5, <3>6, <3>7
  <2>3. TypeOK'
    BY <1>1, <1>3, <2>2 DEF IInv, TypeOK, BackendType
  <2>4. \A u \in Tasks : u # job[c] => future'[u] = future[u]
    BY <2>1 DEF IInv, TypeOK, BackendType
  <2>5. future'[job[c]] = "pending"
    BY <1>2, <2>1 DEF IInv, TypeOK, BackendType
  <2>6. TaskInv'
    <3> SUFFICES ASSUME NEW u \in Tasks
                 PROVE (RunInv(u) /\ LocalsInv(u) /\ ResultInv(u) /\ QueueInv(u))'
      BY DEF TaskInv
    <3>1. RunInv(u) /\ LocalsInv(u) /\ ResultInv(u) /\ QueueInv(u)
      BY DEF IInv, TaskInv
    <3>2. CASE u = job[c]
      <4>1. future[u] = "none" /\ future'[u] = "pending" /\ Queued(u)'
        BY <1>2, <2>2, <2>5, <3>2 DEF Queued
      <4>2. RunInv(u)'
        BY <1>1, <3>1, <4>1 DEF RunInv
      <4>3. LocalsInv(u)' /\ ResultInv(u)'
        BY <1>1, <3>1, <4>1 DEF RunInv, LocalsInv, ResultInv
      <4>4. QueueInv(u)'
        BY <4>1 DEF QueueInv
      <4> QED BY <4>2, <4>3, <4>4
    <3>3. CASE u # job[c]
      BY <1>1, <1>6, <1>7, <2>2, <2>4, <3>1, <3>3
      DEF RunInv, LocalsInv, ResultInv, QueueInv
    <3> QED BY <3>2, <3>3
  <2>7. FreshInv'
    BY <1>1, <1>2, <2>4 DEF IInv, TypeOK, BackendType, FreshInv
  <2>8. ASSUME NEW d \in Clients, d # c PROVE ClientInv(d)'
    <3>1. ClientInv(d) /\ SameClient(d) /\ (InSubmit(d) => job[d] # job[c])
      BY <1>3, <1>9, <2>8 DEF IInv
    <3> QED
      BY <1>1, <1>2, <2>4, <2>5, <3>1 DEF ClientInv, InSubmit, SameClient
  <2> QED
    BY <1>5, <1>8, <2>3, <2>6, <2>7, <2>8 DEF IInv
<1> QED BY <1>10, <1>11

\* Stopping the future: whoever stopped it is still to write CANCELLED.
LEMMA CancelFutureInv ==
    ASSUME IInv, NEW c \in Clients, CancelFuture(c)
    PROVE  IInv'
<1> DEFINE s == future[job[c]] \in {"pending", "cancelled"}
<1>1. /\ UNCHANGED <<unused, entry, result, order, queue, run, attempt, outcome,
                     closed, shutdown, op, job, answer>>
      /\ pc[c] = "cancel_future"
      /\ future' = [future EXCEPT ![job[c]] = IF s THEN "cancelled" ELSE @]
      /\ stopped' = [stopped EXCEPT ![c] = s]
      /\ pc' = [pc EXCEPT ![c] = "cancel_write"]
  BY DEF CancelFuture, backend, pool, worker
<1>2. ClientInv(c) /\ job[c] \in Tasks /\ future[job[c]] # "none" /\ op[c] = "cancel"
  BY <1>1 DEF IInv, ClientInv
<1>3. s \in BOOLEAN
  OBVIOUS
<1>4. /\ pc'[c] = "cancel_write" /\ stopped'[c] = s
      /\ future'[job[c]] = IF s THEN "cancelled" ELSE future[job[c]]
      /\ \A u \in Tasks : u # job[c] => future'[u] = future[u]
  BY <1>1, <1>2 DEF IInv, TypeOK, BackendType, ClientType
<1>5. TypeOK'
  <2>1. stopped' \in [Clients -> BOOLEAN] /\ pc' \in [Clients -> ClientSteps]
    BY <1>1, <1>3 DEF IInv, TypeOK, ClientType, ClientSteps
  <2>2. future' \in [Tasks -> Futures]
    BY <1>1, <1>2 DEF IInv, TypeOK, BackendType, Futures
  <2> QED
    BY <1>1, <2>1, <2>2 DEF IInv, TypeOK, BackendType, ClientType
<1>6. \A d \in Clients \ {c} : SameClient(d)
  BY <1>1 DEF IInv, TypeOK, ClientType, SameClient
<1>7. TaskInv'
  <2> SUFFICES ASSUME NEW u \in Tasks
               PROVE (RunInv(u) /\ LocalsInv(u) /\ ResultInv(u) /\ QueueInv(u))'
    BY DEF TaskInv
  <2>1. RunInv(u) /\ LocalsInv(u) /\ ResultInv(u) /\ QueueInv(u)
    BY DEF IInv, TaskInv
  <2>2. /\ Queued(u)' <=> Queued(u)
        /\ Submitting(u) => Submitting(u)'
        /\ Cancelling(u) => Cancelling(u)'
    BY <1>1, <1>6 DEF Queued, Submitting, Cancelling, SameClient
  <2>3. CASE u = job[c] /\ s
    <3>1. Cancelling(u)'
      BY <1>1, <1>4, <2>3 DEF Cancelling
    <3> QED
      BY <1>1, <1>4, <2>1, <2>3, <3>1 DEF RunInv, LocalsInv, ResultInv, QueueInv
  <2>4. CASE ~(u = job[c] /\ s)
    <3>1. future'[u] = future[u]
      BY <1>4, <2>4
    <3> QED
      BY <1>1, <2>1, <2>2, <3>1 DEF RunInv, LocalsInv, ResultInv, QueueInv
  <2> QED BY <2>3, <2>4
<1>8. FreshInv'
  BY <1>1, <1>2, <1>4 DEF IInv, TypeOK, BackendType, FreshInv
<1>9. SubmitInv'
  BY <1>1, <1>4, <1>6 DEF IInv, SubmitInv, InSubmit, SameClient
<1>10. ClientInv(c)'
  <2>1. /\ future'[job[c]] # "none"
        /\ stopped'[c] => future'[job[c]] = "cancelled"
    BY <1>2, <1>4
  <2>2. ~(op[c] = "result")
    BY <1>2
  <2> QED
    BY <1>1, <1>2, <1>4, <2>1, <2>2 DEF ClientInv, InSubmit
<1>11. ASSUME NEW d \in Clients, d # c PROVE ClientInv(d)'
  <2>1. ClientInv(d) /\ SameClient(d)
    BY <1>6, <1>11 DEF IInv
  <2> QED
    BY <1>1, <1>2, <1>4, <2>1 DEF ClientInv, InSubmit, SameClient
<1> QED
  BY <1>5, <1>7, <1>8, <1>9, <1>10, <1>11 DEF IInv

\* Writing CANCELLED never hits a finished entry: a stopped future has none.
LEMMA CancelWriteInv ==
    ASSUME IInv, NEW c \in Clients, CancelWrite(c)
    PROVE  IInv'
<1>1. /\ UNCHANGED <<unused, result, order, future, queue, run, attempt, outcome,
                     closed, shutdown>>
      /\ pc[c] = "cancel_write"
  BY DEF CancelWrite, pool, worker
<1>2. ClientInv(c) /\ job[c] \in Tasks /\ future[job[c]] # "none" /\ op[c] = "cancel"
  BY <1>1 DEF IInv, ClientInv
<1>3. RunInv(job[c]) /\ LocalsInv(job[c]) /\ ResultInv(job[c])
  BY <1>2 DEF IInv, TaskInv
<1>4. /\ \/ entry' = entry
         \/ /\ entry[job[c]] \in {"queued", "cancelled"}
            /\ entry' = [entry EXCEPT ![job[c]] = "cancelled"]
      /\ stopped[c] \/ entry[job[c]] = "queued" =>
            entry'[job[c]] \in {Absent, "cancelled"}
  BY <1>1, <1>2, <1>3
  DEF CancelWrite, IInv, TypeOK, BackendType, ClientType, ClientInv, RunInv
<1>5. ClientType' /\ \A d \in Clients \ {c} : SameClient(d)
  <2>1. "key_error" \in Answers /\ "cancelled" \in Answers
    BY DEF Answers, State
  <2>2. entry[job[c]] # Absent => entry[job[c]] \in Answers
    BY <1>2, EntryAnswer DEF IInv, TypeOK
  <2> QED
    BY <2>1, <2>2, ReturnTyped DEF CancelWrite, IInv, TypeOK
<1>6. pc'[c] = "idle" /\ op'[c] = "none"
  BY DEF CancelWrite, Return, IInv, TypeOK, ClientType
<1>7. TypeOK'
  BY <1>1, <1>4, <1>5 DEF IInv, TypeOK, BackendType
<1>8. \A u \in Tasks : u # job[c] => entry'[u] = entry[u]
  BY <1>4 DEF IInv, TypeOK, BackendType
<1>9. entry'[job[c]] = entry[job[c]] \/
         (entry[job[c]] \in {"queued", "cancelled"} /\ entry'[job[c]] = "cancelled")
  BY <1>2, <1>4 DEF IInv, TypeOK, BackendType
<1>10. TaskInv'
  <2> SUFFICES ASSUME NEW u \in Tasks
               PROVE (RunInv(u) /\ LocalsInv(u) /\ ResultInv(u) /\ QueueInv(u))'
    BY DEF TaskInv
  <2>1. RunInv(u) /\ LocalsInv(u) /\ ResultInv(u) /\ QueueInv(u)
    BY DEF IInv, TaskInv
  <2>2. /\ Queued(u)' <=> Queued(u)
        /\ Submitting(u) => Submitting(u)'
        /\ u # job[c] => (Cancelling(u) => Cancelling(u)')
    BY <1>1, <1>5 DEF Queued, Submitting, Cancelling, SameClient
  <2>3. CASE u = job[c]
    <3>1. (RunInv(u) /\ LocalsInv(u) /\ ResultInv(u))'
      BY <1>1, <1>9, <2>1, <2>3 DEF RunInv, LocalsInv, ResultInv, Terminal, Absent
    <3>2. entry'[u] # "queued"
      BY <1>4, <1>9, <2>3 DEF Absent
    <3> QED
      BY <1>1, <2>1, <2>2, <3>1, <3>2 DEF QueueInv
  <2>4. CASE u # job[c]
    BY <1>1, <1>8, <2>1, <2>2, <2>4 DEF RunInv, LocalsInv, ResultInv, QueueInv
  <2> QED BY <2>3, <2>4
<1>11. FreshInv'
  BY <1>1, <1>2, <1>8 DEF IInv, TypeOK, BackendType, FreshInv
<1>12. SubmitInv'
  BY <1>5, <1>6 DEF IInv, SubmitInv, InSubmit, SameClient
<1>13. ClientInv(c)'
  BY <1>2, <1>6 DEF ClientInv, InSubmit
<1>14. ASSUME NEW d \in Clients, d # c PROVE ClientInv(d)'
  <2>1. ClientInv(d) /\ SameClient(d)
    BY <1>5, <1>14 DEF IInv
  <2> QED
    BY <1>1, <1>2, <1>8, <2>1 DEF ClientInv, InSubmit, SameClient
<1> QED
  BY <1>7, <1>10, <1>11, <1>12, <1>13, <1>14 DEF IInv

\* Shutting the pool down cancels what it had not started.
LEMMA CloseShutdownInv ==
    ASSUME IInv, NEW c \in Clients, CloseShutdown(c)
    PROVE  IInv'
<1>1. /\ UNCHANGED <<unused, entry, result, order, run, attempt, outcome, closed>>
      /\ pc[c] = "shutdown" /\ shutdown' = TRUE /\ queue' = <<>>
      /\ future' = [t \in Tasks |-> IF future[t] = "pending" THEN "cancelled"
                                    ELSE future[t]]
  BY DEF CloseShutdown, backend, worker
<1>2. ClientType' /\ \A d \in Clients \ {c} : SameClient(d)
  BY GotoTyped DEF CloseShutdown, IInv, TypeOK, ClientSteps
<1>3. pc'[c] = "join" /\ job' = job /\ op' = op /\ answer' = answer
  BY DEF CloseShutdown, Goto, IInv, TypeOK, ClientType
<1>4. \A u \in Tasks :
         \/ future'[u] = future[u] /\ future[u] # "pending"
         \/ future[u] = "pending" /\ future'[u] = "cancelled"
  BY <1>1
<1>5. TypeOK'
  <2>1. future' \in [Tasks -> Futures] /\ queue' \in Seq(Tasks)
    BY <1>1 DEF IInv, TypeOK, BackendType, Futures
  <2> QED
    BY <1>1, <1>2, <2>1 DEF IInv, TypeOK, BackendType
<1>6. TaskInv'
  <2> SUFFICES ASSUME NEW u \in Tasks
               PROVE (RunInv(u) /\ LocalsInv(u) /\ ResultInv(u) /\ QueueInv(u))'
    BY DEF TaskInv
  <2>1. RunInv(u) /\ LocalsInv(u) /\ ResultInv(u)
    BY DEF IInv, TaskInv
  <2> QED
    BY <1>1, <1>4, <2>1 DEF RunInv, LocalsInv, ResultInv, QueueInv
<1>7. FreshInv'
  BY <1>1, <1>4 DEF IInv, TypeOK, BackendType, FreshInv
<1>8. SubmitInv'
  BY <1>1, <1>2, <1>3 DEF IInv, SubmitInv, InSubmit, SameClient
<1>9. ASSUME NEW d \in Clients PROVE ClientInv(d)'
  <2>1. ClientInv(d)
    BY DEF IInv
  <2>2. CASE d = c
    BY <1>1, <1>3, <1>4, <2>1, <2>2 DEF ClientInv, InSubmit
  <2>3. CASE d # c
    BY <1>1, <1>2, <1>4, <2>1, <2>3 DEF ClientInv, InSubmit, SameClient
  <2> QED BY <2>2, <2>3
<1> QED
  BY <1>5, <1>6, <1>7, <1>8, <1>9 DEF IInv

\* Clearing the dictionary once no worker is left.
LEMMA CloseJoinInv ==
    ASSUME IInv, NEW c \in Clients, CloseJoin(c)
    PROVE  IInv'
<1>1. /\ UNCHANGED <<unused, future, queue, shutdown, run, attempt, outcome, closed>>
      /\ pc[c] = "join" /\ order' = <<>>
      /\ \A t \in Tasks : run[t] = "idle" /\ entry'[t] = Absent /\ result'[t] = "none"
      /\ entry' = [t \in Tasks |-> Absent] /\ result' = [t \in Tasks |-> "none"]
  BY DEF CloseJoin, pool, worker
<1>2. ClientType' /\ \A d \in Clients \ {c} : SameClient(d)
  BY ReturnTyped DEF CloseJoin, IInv, TypeOK, Answers
<1>3. pc'[c] = "idle" /\ op'[c] = "none"
  BY DEF CloseJoin, Return, IInv, TypeOK, ClientType
<1>4. TypeOK'
  <2>1. order' \in Seq(Tasks)
    BY <1>1
  <2> QED
    BY <1>1, <1>2, <2>1 DEF IInv, TypeOK, BackendType
<1>5. TaskInv'
  <2> SUFFICES ASSUME NEW u \in Tasks
               PROVE (RunInv(u) /\ LocalsInv(u) /\ ResultInv(u) /\ QueueInv(u))'
    BY DEF TaskInv
  <2>1. RunInv(u) /\ LocalsInv(u) /\ QueueInv(u)
    BY DEF IInv, TaskInv
  <2>2. Queued(u)' <=> Queued(u)
    BY <1>1 DEF Queued
  <2> QED
    BY <1>1, <2>1, <2>2 DEF RunInv, LocalsInv, ResultInv, QueueInv, Absent
<1>6. FreshInv'
  BY <1>1 DEF IInv, TypeOK, BackendType, FreshInv
<1>7. SubmitInv'
  BY <1>1, <1>2, <1>3 DEF IInv, SubmitInv, InSubmit, SameClient
<1>8. ASSUME NEW d \in Clients PROVE ClientInv(d)'
  <2>1. ClientInv(d)
    BY DEF IInv
  <2>2. CASE d = c
    BY <1>3, <2>2 DEF ClientInv, InSubmit
  <2>3. CASE d # c
    BY <1>1, <1>2, <2>1, <2>3 DEF ClientInv, InSubmit, SameClient
  <2> QED BY <2>2, <2>3
<1> QED
  BY <1>4, <1>5, <1>6, <1>7, <1>8 DEF IInv

\* A worker taking the oldest work item.
LEMMA DequeueInv ==
    ASSUME IInv, Dequeue
    PROVE  IInv'
<1> DEFINE h == Head(queue)
<1>1. /\ UNCHANGED <<unused, entry, result, order, shutdown, attempt, outcome,
                     closed, pc, op, job, stopped, answer>>
      /\ queue # <<>> /\ queue' = Tail(queue)
      /\ \/ /\ future[h] = "pending"
            /\ future' = [future EXCEPT ![h] = "running"]
            /\ run' = [run EXCEPT ![h] = "lookup"]
         \/ /\ future[h] = "cancelled"
            /\ future' = future /\ run' = run
  BY DEF Dequeue, backend, client
<1>2. queue \in Seq(Tasks) /\ h \in Tasks /\ queue' \in Seq(Tasks)
  BY <1>1 DEF IInv, TypeOK, BackendType
<1>3. \A u \in Tasks : u # h => (Queued(u) => Queued(u)')
  <2> SUFFICES ASSUME NEW u \in Tasks, u # h, Queued(u) PROVE Queued(u)'
    OBVIOUS
  <2>1. PICK i \in 1 .. Len(queue) : queue[i] = u
    BY <1>2 DEF Queued
  <2>2. i - 1 \in 1 .. Len(queue) - 1 /\ Len(queue) \in Nat
    BY <1>1, <1>2, <2>1
  <2>3. i - 1 \in DOMAIN queue' /\ queue'[i - 1] = u
    BY <1>1, <1>2, <2>1, <2>2
  <2> QED BY <2>3 DEF Queued
<1>4. \A u \in Tasks : u # h => future'[u] = future[u] /\ run'[u] = run[u]
  BY <1>1, <1>2 DEF IInv, TypeOK, BackendType
<1>5. \/ future[h] = "pending" /\ future'[h] = "running" /\ run'[h] = "lookup"
      \/ future[h] = "cancelled" /\ future'[h] = "cancelled" /\ run'[h] = run[h]
  BY <1>1, <1>2 DEF IInv, TypeOK, BackendType
<1>6. TypeOK'
  <2>1. future' \in [Tasks -> Futures] /\ run' \in [Tasks -> RunSteps]
    BY <1>1, <1>2 DEF IInv, TypeOK, BackendType, Futures, RunSteps
  <2> QED
    BY <1>1, <1>2, <2>1 DEF IInv, TypeOK, BackendType, ClientType
<1> HIDE DEF h
<1>7. TaskInv'
  <2> SUFFICES ASSUME NEW u \in Tasks
               PROVE (RunInv(u) /\ LocalsInv(u) /\ ResultInv(u) /\ QueueInv(u))'
    BY DEF TaskInv
  <2>1. RunInv(u) /\ LocalsInv(u) /\ ResultInv(u) /\ QueueInv(u)
    BY DEF IInv, TaskInv
  <2>2. /\ Submitting(u)' <=> Submitting(u)
        /\ Cancelling(u)' <=> Cancelling(u)
    BY <1>1 DEF Submitting, Cancelling
  <2>3. CASE u = h
    <3>1. (RunInv(u) /\ LocalsInv(u) /\ ResultInv(u))'
      BY <1>1, <1>5, <2>1, <2>3 DEF RunInv, LocalsInv, ResultInv
    <3>2. QueueInv(u)'
      BY <1>1, <1>5, <2>1, <2>2, <2>3 DEF QueueInv
    <3> QED BY <3>1, <3>2
  <2>4. CASE u # h
    BY <1>1, <1>3, <1>4, <2>1, <2>2, <2>4 DEF RunInv, LocalsInv, ResultInv, QueueInv
  <2> QED BY <2>3, <2>4
<1>8. FreshInv' /\ SubmitInv'
  BY <1>1, <1>2, <1>4, <1>5
  DEF IInv, TypeOK, BackendType, FreshInv, SubmitInv, InSubmit
<1>9. ASSUME NEW d \in Clients PROVE ClientInv(d)'
  <2>1. ClientInv(d)
    BY DEF IInv
  <2> QED
    BY <1>1, <1>2, <1>4, <1>5, <2>1 DEF ClientInv, InSubmit
<1> QED
  BY <1>6, <1>7, <1>8, <1>9 DEF IInv

-----------------------------------------------------------------------------
(* The theorems. *)

\* No step of a caller, of the pool or of a worker breaks the invariant.
LEMMA NextInv == IInv /\ [Next]_vars => IInv'
<1> SUFFICES ASSUME IInv, [Next]_vars PROVE IInv'
  OBVIOUS
<1>1. CASE UNCHANGED vars
  <2>1. UNCHANGED <<unused, entry, result, order, future, queue, run, attempt,
                    outcome, closed, shutdown, pc, op, job, stopped, answer>>
    BY <1>1 DEF vars, backend, pool, worker, client
  <2> QED
    BY <2>1 DEF IInv, TypeOK, BackendType, ClientType, TaskInv, RunInv, LocalsInv,
       ResultInv, QueueInv, Queued, Submitting, Cancelling, FreshInv, SubmitInv,
       ClientInv, InSubmit
<1>2. CASE Dequeue
  BY <1>2, DequeueInv
<1>3. ASSUME NEW t \in Tasks, Worker(t) PROVE IInv'
  BY <1>3, RunLookupInv, RunCheckInv, RunBeginInv, RunFetchInv, RunResolveInv,
     RunCallInv, RunEscapeInv, RunFinishInv, RunDoneInv DEF Worker
<1>4. ASSUME NEW c \in Clients, Continue(c) PROVE IInv'
  BY <1>4, SubmitInsertInv, SubmitEnqueueInv, CancelFutureInv, CancelWriteInv,
     WaitWakeInv, ResultReadInv, CloseShutdownInv, CloseJoinInv DEF Continue
<1>5. ASSUME NEW c \in Clients, WaitTimeout(c) \/ Close(c) PROVE IInv'
  BY <1>5, WaitTimeoutInv, CloseInv
<1>6. ASSUME NEW c \in Clients, NEW t \in Tasks,
             \/ Submit(c, t) \/ CancelCheck(c, t)
             \/ WaitBegin(c, t, "wait") \/ WaitBegin(c, t, "result")
      PROVE IInv'
  BY <1>6, SubmitStepInv, CancelCheckInv, WaitBeginInv
<1> QED
  BY <1>1, <1>2, <1>3, <1>4, <1>5, <1>6 DEF Next

\* The inductive invariant holds in every reachable state of the backend,
\* for any pool size, any history bound and any number of callers.
THEOREM Invariance == Spec => []IInv
<1> QED BY InitInv, NextInv, PTL DEF Spec

\* Every variable keeps its type.
THEOREM TypeCorrect == Spec => []TypeOK
<1>1. IInv => TypeOK
  BY DEF IInv
<1> QED BY <1>1, Invariance, PTL

\* No execution is stranded: a completed future's entry is terminal or gone,
\* a QUEUED one has somebody to move it while the pool is up, a RUNNING one has
\* its worker unless its function escaped.
THEOREM StrandedCorrect == Spec => []NothingIsStranded
<1>1. IInv => SettledIsTerminal
  BY DEF IInv, TaskInv, RunInv, SettledIsTerminal
<1>2. IInv => QueuedIsScheduled
  BY DEF IInv, TaskInv, QueueInv, QueuedIsScheduled
<1>3. IInv => RunningHasWorker
  BY DEF IInv, TypeOK, BackendType, Futures, RunSteps, Terminal, Absent, TaskInv,
     RunInv, RunningHasWorker
<1>4. IInv => NothingIsStranded
  BY <1>1, <1>2, <1>3 DEF NothingIsStranded
<1> QED BY <1>4, Invariance, PTL

\* State and result of an entry agree in every snapshot a caller can take.
THEOREM ResultsCorrect == Spec => []ResultMatchesState
<1>1. IInv => ResultMatchesState
  BY DEF IInv, TaskInv, ResultInv, ResultMatchesState
<1> QED BY <1>1, Invariance, PTL

\* A cancelled future's function is never reached, and the retry loop stays
\* within the engine's share of the policy.
THEOREM CallsCorrect == Spec => []CallsAreAllowed
<1>1. IInv => CancelledFutureNeverRan
  BY DEF IInv, TaskInv, RunInv, LocalsInv, CancelledFutureNeverRan
<1>2. IInv => AttemptsWithinBudget
  BY DEF IInv, TaskInv, LocalsInv, AttemptsWithinBudget
<1>3. IInv => CallsAreAllowed
  BY <1>1, <1>2 DEF CallsAreAllowed
<1> QED BY <1>3, Invariance, PTL

\* Only _transition, _finish, _remember_locked, _cancel and close write a state,
\* and none of them replaces an outcome.
LEMMA OutcomeStep ==
    ASSUME IInv, [Next]_vars, NEW u \in Tasks
    PROVE KeepsOutcome(u)
<1> SUFFICES ASSUME entry[u] \in {"succeeded", "failed"}
             PROVE entry'[u] \in {entry[u], Absent}
  BY DEF KeepsOutcome
<1>1. RunInv(u) /\ entry \in [Tasks -> {Absent, "queued", "running", "cancelled",
                                         "succeeded", "failed"}]
  BY DEF IInv, TaskInv, TypeOK, BackendType
<1>2. CASE entry' = entry
  BY <1>2
<1>3. ASSUME NEW t \in Tasks, RunBegin(t) \/ RunFinish(t) PROVE entry'[u] = entry[u]
  BY <1>1, <1>3 DEF RunBegin, RunFinish, RunStep, RunInv, Absent
<1>4. ASSUME NEW c \in Clients, SubmitInsert(c) PROVE entry'[u] \in {entry[u], Absent}
  <2>1. job[c] \in Tasks /\ entry[job[c]] = Absent /\ RememberLocked(job[c])
    BY <1>4 DEF SubmitInsert, IInv, ClientInv, InSubmit
  <2>2. u # job[c]
    BY <2>1 DEF Absent
  <2> QED
    BY <2>1, <2>2, Remembering DEF IInv, TypeOK
<1>5. ASSUME NEW c \in Clients, CancelWrite(c) PROVE entry'[u] = entry[u]
  <2>1. pc[c] = "cancel_write" /\ job[c] \in Tasks /\ ClientInv(c) /\ RunInv(job[c])
    BY <1>5 DEF CancelWrite, IInv, ClientInv, TaskInv
  <2>2. CASE job[c] # u
    BY <1>1, <1>5, <2>1, <2>2 DEF CancelWrite
  <2>3. CASE job[c] = u
    <3>1. ~stopped[c]
      BY <1>1, <2>1, <2>3 DEF ClientInv, RunInv, Absent
    <3> QED
      BY <1>1, <1>5, <2>3, <3>1 DEF CancelWrite
  <2> QED BY <2>2, <2>3
<1>6. ASSUME NEW c \in Clients, CloseJoin(c) PROVE entry'[u] = Absent
  BY <1>6 DEF CloseJoin
<1>7. \/ entry' = entry
      \/ \E t \in Tasks : RunBegin(t) \/ RunFinish(t)
      \/ \E c \in Clients : SubmitInsert(c) \/ CancelWrite(c) \/ CloseJoin(c)
  <2>1. CASE UNCHANGED vars
    BY <2>1 DEF vars, backend
  <2>2. CASE Dequeue
    BY <2>2 DEF Dequeue, backend
  <2>3. ASSUME NEW t \in Tasks, Worker(t)
        PROVE entry' = entry \/ RunBegin(t) \/ RunFinish(t)
    BY <2>3 DEF Worker, RunLookup, RunCheck, RunFetch, RunResolve, RunCall,
       RunEscape, RunDone, backend
  <2>4. ASSUME NEW c \in Clients, Continue(c) \/ WaitTimeout(c) \/ Close(c)
        PROVE entry' = entry \/ SubmitInsert(c) \/ CancelWrite(c) \/ CloseJoin(c)
    BY <2>4 DEF Continue, SubmitEnqueue, CancelFuture, WaitWake, ResultRead,
       CloseShutdown, WaitTimeout, Close, backend
  <2>5. ASSUME NEW c \in Clients, NEW t \in Tasks,
               \/ Submit(c, t) \/ CancelCheck(c, t)
               \/ WaitBegin(c, t, "wait") \/ WaitBegin(c, t, "result")
        PROVE entry' = entry
    BY <2>5 DEF Submit, CancelCheck, WaitBegin, backend
  <2> QED
    BY <2>1, <2>2, <2>3, <2>4, <2>5 DEF Next
<1> QED
  BY <1>2, <1>3, <1>4, <1>5, <1>6, <1>7

\* Before its last look a worker respects a CANCELLED entry, and nobody else
\* replaces it or moves the worker.
LEMMA CancelledStep ==
    ASSUME IInv, [Next]_vars, NEW u \in Tasks
    PROVE KeepsCancelled(u)
<1> DEFINE Early == {"idle", "lookup", "check"}
<1> SUFFICES ASSUME entry[u] = "cancelled", run[u] \in Early
             PROVE entry'[u] \in {"cancelled", Absent} /\ run'[u] \in Early
  BY DEF KeepsCancelled
<1>1. /\ entry \in [Tasks -> {Absent, "queued", "running", "cancelled",
                              "succeeded", "failed"}]
      /\ run \in [Tasks -> RunSteps]
  BY DEF IInv, TypeOK, BackendType
<1>2. CASE UNCHANGED vars
  BY <1>2 DEF vars, backend, worker
<1>3. CASE Dequeue
  BY <1>1, <1>3 DEF Dequeue, backend, worker
<1>4. ASSUME NEW t \in Tasks, Worker(t)
      PROVE entry'[u] \in {"cancelled", Absent} /\ run'[u] \in Early
  <2>1. CASE RunLookup(t) \/ RunCheck(t)
    BY <1>1, <2>1 DEF RunLookup, RunCheck, RunStep, RunReturn, backend
  <2>2. CASE RunBegin(t) \/ RunFinish(t)
    BY <1>1, <2>2 DEF RunBegin, RunFinish, RunStep
  <2>3. CASE RunFetch(t) \/ RunResolve(t) \/ RunCall(t)
    BY <1>1, <2>3 DEF RunFetch, RunResolve, RunCall, RunStep, RunReturn, backend
  <2>4. CASE RunEscape(t) \/ RunDone(t)
    BY <1>1, <2>4 DEF RunEscape, RunDone, RunStep, RunReturn, backend
  <2> QED
    BY <1>4, <2>1, <2>2, <2>3, <2>4 DEF Worker
<1>5. ASSUME NEW c \in Clients, Continue(c) \/ WaitTimeout(c) \/ Close(c)
      PROVE entry'[u] \in {"cancelled", Absent} /\ run'[u] \in Early
  <2>1. CASE SubmitInsert(c)
    <3>1. job[c] \in Tasks /\ entry[job[c]] = Absent /\ RememberLocked(job[c])
      BY <2>1 DEF SubmitInsert, IInv, ClientInv, InSubmit
    <3>2. u # job[c]
      BY <3>1 DEF Absent
    <3>3. entry'[u] \in {entry[u], Absent}
      BY <3>1, <3>2, Remembering DEF IInv, TypeOK
    <3> QED
      BY <2>1, <3>3 DEF SubmitInsert, worker
  <2>2. CASE CancelWrite(c)
    BY <1>1, <2>2 DEF CancelWrite, worker, Absent
  <2>3. CASE CloseJoin(c)
    BY <2>3 DEF CloseJoin, worker
  <2>4. CASE SubmitEnqueue(c) \/ CancelFuture(c) \/ WaitWake(c) \/ ResultRead(c)
    BY <2>4 DEF SubmitEnqueue, CancelFuture, WaitWake, ResultRead, backend, worker
  <2>5. CASE CloseShutdown(c) \/ WaitTimeout(c) \/ Close(c)
    BY <2>5 DEF CloseShutdown, WaitTimeout, Close, backend, worker
  <2> QED
    BY <1>5, <2>1, <2>2, <2>3, <2>4, <2>5 DEF Continue
<1>6. ASSUME NEW c \in Clients, NEW t \in Tasks,
             \/ Submit(c, t) \/ CancelCheck(c, t)
             \/ WaitBegin(c, t, "wait") \/ WaitBegin(c, t, "result")
      PROVE entry'[u] \in {"cancelled", Absent} /\ run'[u] \in Early
  BY <1>6 DEF Submit, CancelCheck, WaitBegin, backend, worker
<1> QED
  BY <1>2, <1>3, <1>4, <1>5, <1>6 DEF Next

\* What EndsAreKept asks of one step.
KeepsEnds == \A t \in Tasks : KeepsOutcome(t) /\ KeepsCancelled(t)

\* No step replaces an end: a finished execution is only ever forgotten,
\* however late a cancel writes, and a cancellation the worker has yet to look
\* for is respected.
THEOREM EndsCorrect == Spec => EndsAreKept
<1>1. IInv /\ [Next]_vars => [KeepsEnds]_vars
  <2> SUFFICES ASSUME IInv, [Next]_vars, NEW t \in Tasks
               PROVE KeepsOutcome(t) /\ KeepsCancelled(t)
    BY DEF KeepsEnds
  <2> QED BY OutcomeStep, CancelledStep
<1>2. Spec => [][KeepsEnds]_vars
  BY <1>1, Invariance, PTL DEF Spec
<1> QED
  BY <1>2 DEF EndsAreKept, KeepsEnds

\* A call that returns from wait or result does so by waking up, timing out or
\* reading the result.
LEMMA ReturningStep ==
    ASSUME IInv, [Next]_vars, NEW c \in Clients, op[c] \in {"wait", "result"},
           pc'[c] = "idle"
    PROVE  WaitWake(c) \/ WaitTimeout(c) \/ ResultRead(c)
<1>1. pc[c] \in {"wait", "result"} /\ pc \in [Clients -> ClientSteps]
  BY DEF IInv, TypeOK, ClientType, ClientInv
<1>2. pc' # pc
  BY <1>1
<1>3. ~(UNCHANGED vars) /\ ~Dequeue
  BY <1>2 DEF vars, client, Dequeue
<1>4. ASSUME NEW t \in Tasks PROVE ~Worker(t)
  BY <1>2 DEF Worker, RunLookup, RunCheck, RunBegin, RunFetch, RunResolve, RunCall,
     RunEscape, RunFinish, RunDone, client
<1>5. ASSUME NEW d \in Clients, NEW t \in Tasks,
             \/ Submit(d, t) \/ CancelCheck(d, t)
             \/ WaitBegin(d, t, "wait") \/ WaitBegin(d, t, "result")
      PROVE  FALSE
  BY <1>1, <1>5 DEF Submit, CancelCheck, WaitBegin, Call, CallAndReturn
<1>6. ASSUME NEW d \in Clients, Close(d)
      PROVE  FALSE
  BY <1>1, <1>6 DEF Close, Call
<1>7. ASSUME NEW d \in Clients, Continue(d) \/ WaitTimeout(d)
      PROVE  d = c /\ (WaitWake(c) \/ WaitTimeout(c) \/ ResultRead(c))
  <2>1. d = c
    BY <1>1, <1>7 DEF Continue, WaitTimeout, SubmitInsert, SubmitEnqueue, CancelFuture,
       CancelWrite, WaitWake, ResultRead, CloseShutdown, CloseJoin, Goto, Return
  <2> QED
    BY <1>1, <1>7, <2>1 DEF Continue, SubmitInsert, SubmitEnqueue, CancelFuture,
       CancelWrite, CloseShutdown, CloseJoin
<1> QED
  BY <1>3, <1>4, <1>5, <1>6, <1>7 DEF Next

\* wait() answers from the entry of a completed future, which is terminal or
\* gone unless a cancel has stopped the future and not written yet.
LEMMA WaitStep ==
    ASSUME IInv, [Next]_vars, NEW c \in Clients
    PROVE  WaitIsTerminal(c)
<1> SUFFICES ASSUME op[c] = "wait", pc'[c] = "idle",
                    answer'[c] \in State \ Terminal
             PROVE  Cancelling(job[c]) \/ shutdown
  BY DEF WaitIsTerminal
<1>1. /\ ClientInv(c) /\ pc[c] = "wait" /\ job[c] \in Tasks
      /\ answer \in [Clients -> Answers]
      /\ entry[job[c]] \in {Absent, "queued", "running", "cancelled",
                            "succeeded", "failed"}
      /\ future[job[c]] \in Futures
  BY DEF IInv, TypeOK, BackendType, ClientType, ClientInv
<1>2. RunInv(job[c]) /\ QueueInv(job[c])
  BY <1>1 DEF IInv, TaskInv
<1>3. WaitWake(c) \/ WaitTimeout(c)
  BY <1>1, ReturningStep DEF ResultRead
<1>4. WaitWake(c)
  BY <1>1, <1>3 DEF WaitTimeout, Return, State
<1>5. /\ future[job[c]] \in {"cancelled", "done"}
      /\ entry[job[c]] # Absent /\ answer'[c] = entry[job[c]]
  BY <1>1, <1>4 DEF WaitWake, Completed, Return, Goto, State
<1>6. entry[job[c]] = "queued" /\ future[job[c]] = "cancelled"
  BY <1>1, <1>2, <1>5 DEF RunInv, Terminal
<1>7. run[job[c]] = "idle"
  BY <1>2, <1>6 DEF RunInv
<1>8. ~Submitting(job[c])
  BY <1>6 DEF Submitting, IInv, ClientInv, InSubmit
<1> QED
  BY <1>2, <1>6, <1>7, <1>8 DEF QueueInv

\* result() finds no result only if the future was cancelled or the worker
\* never reached the function.
LEMMA ResultStep ==
    ASSUME IInv, [Next]_vars, NEW c \in Clients
    PROVE  CancelledResultIsTrue(c)
<1> SUFFICES ASSUME op[c] = "result", pc'[c] = "idle", answer'[c] = "cancelled"
             PROVE  future[job[c]] = "cancelled" \/ outcome[job[c]] = "none"
  BY DEF CancelledResultIsTrue
<1>1. /\ ClientInv(c) /\ job[c] \in Tasks /\ answer \in [Clients -> Answers]
      /\ pc \in [Clients -> ClientSteps]
      /\ result[job[c]] \in {"none", "value", "error"}
      /\ entry[job[c]] \in {Absent, "queued", "running", "cancelled",
                            "succeeded", "failed"}
  BY DEF IInv, TypeOK, BackendType, ClientType, ClientInv
<1>2. RunInv(job[c]) /\ LocalsInv(job[c]) /\ ResultInv(job[c])
  BY <1>1 DEF IInv, TaskInv
<1>3. ~WaitWake(c) /\ ~WaitTimeout(c)
  BY <1>1 DEF WaitWake, WaitTimeout, Return, Goto
<1>4. ResultRead(c)
  BY <1>3, ReturningStep
<1>5. /\ future[job[c]] \in {"cancelled", "done"}
      /\ entry[job[c]] # Absent /\ result[job[c]] = "none"
  BY <1>1, <1>4 DEF ResultRead, Return, ClientInv
<1> QED
  BY <1>1, <1>2, <1>5 DEF RunInv, LocalsInv, ResultInv, Terminal, Absent

\* What AnswersAreTrue asks of one step.
TrueAnswers == \A c \in Clients : WaitIsTerminal(c) /\ CancelledResultIsTrue(c)

\* What wait and result answer holds of the execution when they answer it,
\* however many steps lie between the future's end and the read.
THEOREM AnswersCorrect == Spec => AnswersAreTrue
<1>1. IInv /\ [Next]_vars => [TrueAnswers]_vars
  <2> SUFFICES ASSUME IInv, [Next]_vars, NEW c \in Clients
               PROVE WaitIsTerminal(c) /\ CancelledResultIsTrue(c)
    BY DEF TrueAnswers
  <2> QED BY WaitStep, ResultStep
<1>2. Spec => [][TrueAnswers]_vars
  BY <1>1, Invariance, PTL DEF Spec
<1> QED
  BY <1>2 DEF AnswersAreTrue, TrueAnswers
=============================================================================
