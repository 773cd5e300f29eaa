------------------------------ MODULE CloudJobs ------------------------------
(***************************************************************************)
(* The cloud job adapters: taskferry_cloudrun/backend.py and kubernetes.py, *)
(* aws.py and azure.py of taskferry_jobs.  Callers submit, get and cancel;  *)
(* the engine runs the tasks of a job on its own.  Every call that leaves   *)
(* the process is a step of its own, so that the engine, other callers and  *)
(* a restart come in between; nothing but the bounded index of engine ids   *)
(* is remembered, and a restart empties it.                                 *)
(*                                                                         *)
(* The engine is external.  A task is waiting, active, ok, lost or stopped; *)
(* a failed run is repeated while the request allows it; the job ends when  *)
(* its tasks have, and some time after its end the engine deletes it.       *)
(***************************************************************************)
EXTENDS BoundedIndex, ExecutionStates, RetryPolicy, FiniteSets, SequencesExt

CONSTANTS Executions,      \* execution ids
          Callers,         \* threads
          Deployments,     \* an adapter, its tracked_ids, the spec it is given,
                           \* the ids it mints and the callers it has
          DefaultAttempts  \* what the engine does when a request names no retries

Adapters == {"cloudrun", "kubernetes", "batch", "containerapps"}

ASSUME CloudJobsAssumption ==
    /\ \A d \in Deployments :
           /\ d.adapter \in Adapters
           /\ d.ids \subseteq Executions
           /\ d.callers \subseteq Callers
           /\ d.tracked_ids \in Nat
           /\ d.spec.parallelism \in Nat \ {0}
           /\ d.spec.retry.max_attempts \in Nat \ {0}
           /\ {d.spec.timeout, d.spec.image} \subseteq BOOLEAN
    /\ DefaultAttempts \in Nat \ {0}

VARIABLES deployment,  \* which adapter, with which spec
          order,       \* _ids: the executions remembered, oldest first
          jobNames,    \* containerapps: keys of _job_names
          job,         \* the request the engine accepted, NoJob before
          task,        \* the state of each of its tasks
          fails,       \* failed runs of each task
          end,         \* how the job ended, "none" before
          asked,       \* jobs whose cancellation the engine has accepted
          gone,        \* jobs the engine has deleted
          told,        \* the state each execution was last reported in
          pc, at       \* each caller's position and execution

vars == <<deployment, order, jobNames, job, task, fails, end, asked, gone, told, pc, at>>

index == <<order, jobNames>>

work == <<job, task, fails>>

engine == <<work, end, asked, gone>>

NoJob == [attempts |-> 0, deadline |-> FALSE]

None == "none"

adapter == deployment.adapter

spec == deployment.spec

Tasks == 1 .. spec.parallelism

Init ==
    /\ deployment \in Deployments
    /\ order = <<>>
    /\ jobNames = {}
    /\ job = [e \in Executions |-> NoJob]
    /\ task = [e \in Executions |-> [i \in Tasks |-> "waiting"]]
    /\ fails = [e \in Executions |-> [i \in Tasks |-> 0]]
    /\ end = [e \in Executions |-> None]
    /\ asked = {}
    /\ gone = {}
    /\ told = [e \in Executions |-> Absent]
    /\ pc = [c \in Callers |-> "idle"]
    /\ at = [c \in Callers |-> None]

-----------------------------------------------------------------------------
\* What each adapter asks of its engine.

\* Fault: max_retries is given the number of attempts.
OverridesOffByOne(s) ==
    [max_retries |-> IF Enabled(s.retry) THEN EngineAttempts(s.retry)
                     ELSE DefaultAttempts - 1]

\* _overrides: max_retries counts the repetitions, and is left out for a
\* policy that is not enabled
Overrides(s) ==
    [max_retries |-> IF Enabled(s.retry) THEN EngineAttempts(s.retry) - 1
                     ELSE DefaultAttempts - 1]

\* backoffLimit counts them too, and is always there; the engine counts the
\* failures of all pods against it
BuildManifest(s) == [backoffLimit |-> EngineAttempts(s.retry) - 1]

\* retryStrategy counts the attempts
BatchRequest(s) ==
    [attempts |-> IF Enabled(s.retry) THEN EngineAttempts(s.retry) ELSE DefaultAttempts]

\* replicaRetryLimit
BuildTemplate(s) ==
    [replicaRetryLimit |-> IF Enabled(s.retry) THEN EngineAttempts(s.retry) - 1
                           ELSE DefaultAttempts - 1]

-----------------------------------------------------------------------------
\* The engine.

InState(e, s) == {i \in Tasks : task[e][i] = s}

Started(e) == job[e] # NoJob

Open(e) == Started(e) /\ end[e] = None /\ e \notin gone

\* of all tasks
FailedRuns(e) == Cardinality(UNION {{i} \X (1 .. fails[e][i]) : i \in Tasks})

\* the failed run of task i is not the last one it may have
MayRepeat(e, i) ==
    1 + (IF adapter = "kubernetes" THEN FailedRuns(e) ELSE fails[e][i]) < job[e].attempts

TaskStep(e, i) ==
    /\ Open(e)
    /\ \/ /\ task[e][i] = "waiting"
          /\ e \notin asked
          /\ task' = [task EXCEPT ![e][i] = "active"]
          /\ UNCHANGED fails
       \/ /\ task[e][i] = "active"
          /\ task' = [task EXCEPT ![e][i] = "ok"]
          /\ UNCHANGED fails
       \/ /\ task[e][i] = "active"
          /\ task' = [task EXCEPT ![e][i] = IF MayRepeat(e, i) THEN "waiting" ELSE "lost"]
          /\ fails' = [fails EXCEPT ![e][i] = @ + 1]
       \/ /\ e \in asked
          /\ task[e][i] \in {"waiting", "active"}
          /\ task' = [task EXCEPT ![e][i] = "stopped"]
          /\ UNCHANGED fails
    /\ UNCHANGED <<deployment, index, job, end, asked, gone, told, pc, at>>

Finish(e) ==
    /\ Open(e)
    /\ InState(e, "waiting") \union InState(e, "active") = {}
    /\ end' = [end EXCEPT ![e] = IF InState(e, "stopped") # {} THEN "stopped"
                                 ELSE IF InState(e, "lost") # {} THEN "failed"
                                 ELSE "succeeded"]
    /\ UNCHANGED <<deployment, index, work, asked, gone, told, pc, at>>

\* the time the request allows is over: what runs is killed.  Kubernetes and
\* Batch end the job then; for Cloud Run and Azure it is the time of one run,
\* and its end is a failed run like another.
Deadline(e) ==
    /\ Open(e)
    /\ e \notin asked
    /\ adapter \in {"kubernetes", "batch"}
    /\ job[e].deadline
    /\ InState(e, "waiting") \union InState(e, "active") # {}
    /\ end' = [end EXCEPT ![e] = "deadline"]
    /\ fails' = [fails EXCEPT ![e] =
                    [i \in Tasks |-> @[i] + IF task[e][i] = "active" THEN 1 ELSE 0]]
    /\ task' = [task EXCEPT ![e] = [i \in Tasks |-> IF @[i] = "ok" THEN "ok" ELSE "lost"]]
    /\ UNCHANGED <<deployment, index, job, asked, gone, told, pc, at>>

\* retention, ttlSecondsAfterFinished
Expire(e) ==
    /\ end[e] # None
    /\ e \notin gone
    /\ gone' = gone \union {e}
    /\ UNCHANGED <<deployment, index, work, end, asked, told, pc, at>>

-----------------------------------------------------------------------------
\* What the engines say of a job, and the portable state it is mapped to.

\* Fault: every task that succeeded counts as a success of the job.
MapExecutionStateAny(e) ==
    IF InState(e, "stopped") # {} THEN "cancelled"
    ELSE IF InState(e, "ok") # {} THEN "succeeded"
    ELSE IF end[e] # None THEN "failed"
    ELSE IF InState(e, "active") # {} THEN "running"
    ELSE "queued"

\* cloudrun: counters, and a completion time once the job has ended
MapExecutionState(e) ==
    IF InState(e, "stopped") # {} THEN "cancelled"
    ELSE IF end[e] # None
    THEN IF InState(e, "ok") = Tasks THEN "succeeded" ELSE "failed"
    ELSE IF InState(e, "active") # {} THEN "running"
    ELSE "queued"

\* kubernetes: counters of pods, and a Failed condition with its reason
MapJobState(e) ==
    IF InState(e, "ok") = Tasks THEN "succeeded"
    ELSE IF FailedRuns(e) > 0 /\ InState(e, "active") = {}
    THEN IF end[e] = "deadline" THEN "timed_out" ELSE "failed"
    ELSE IF InState(e, "active") # {} \/ InState(e, "ok") # {} THEN "running"
    ELSE "queued"

BatchStatus(e) ==
    CASE end[e] = "succeeded" -> "SUCCEEDED"
      [] end[e] \in {"failed", "deadline", "stopped"} -> "FAILED"
      [] OTHER -> IF InState(e, "active") # {} THEN "RUNNING" ELSE "RUNNABLE"

\* Fault: a job that waits to be run once more counts as failed.
MapBatchAttempts(e) ==
    CASE BatchStatus(e) = "SUCCEEDED" -> "succeeded"
      [] BatchStatus(e) = "FAILED" -> "failed"
      [] BatchStatus(e) = "RUNNING" -> "running"
      [] BatchStatus(e) = "RUNNABLE" -> IF FailedRuns(e) > 0 THEN "failed" ELSE "queued"

\* batch: a timeout is a failure with a reason (the parent of an array has
\* none), a termination is a failure
MapBatchState(e) ==
    LET status == BatchStatus(e)
    IN  CASE status = "SUCCEEDED" -> "succeeded"
          [] status = "FAILED" ->
                 IF end[e] = "deadline" /\ spec.parallelism = 1 THEN "timed_out" ELSE "failed"
          [] status = "RUNNABLE" -> "queued"
          [] status = "RUNNING" -> "running"

\* containerapps: _STATE_MAP; Unknown is also a status that is not there, or not
\* in the map
StateMap ==
    [Succeeded |-> "succeeded", Failed |-> "failed", Stopped |-> "cancelled",
     Running |-> "running", Processing |-> "running", Degraded |-> "running",
     Unknown |-> "unknown"]

AzureStatus(e) ==
    CASE end[e] = "succeeded" -> "Succeeded"
      [] end[e] \in {"failed", "deadline"} -> "Failed"
      [] end[e] = "stopped" -> "Stopped"
      [] OTHER -> IF InState(e, "active") # {} THEN "Running" ELSE "Processing"

\* of a job that has not ended Azure may also say less
AzureStatuses(e) ==
    {AzureStatus(e)} \union IF end[e] = None THEN {"Degraded", "Unknown"} ELSE {}

-----------------------------------------------------------------------------
\* submit.  The engine starts the job and answers; the answer may be lost, or
\* (cloudrun) lack the name of the execution, which remember then ignores.

\* new_execution_id: ids are minted once, in an order that means nothing
Unused == {e \in deployment.ids : ~ Started(e)}

Launch(c, attempts) ==
    /\ pc[c] = "idle"
    /\ Unused # {}
    /\ LET e == CHOOSE e \in Unused : TRUE
       IN  /\ job' = [job EXCEPT ![e] = [attempts |-> attempts, deadline |-> spec.timeout]]
           /\ at' = [at EXCEPT ![c] = e]
    /\ pc' = [pc EXCEPT ![c] = "launched"]
    /\ UNCHANGED <<deployment, index, task, fails, end, asked, gone, told>>

CloudRunSubmit(c) == adapter = "cloudrun" /\ Launch(c, 1 + Overrides(spec).max_retries)

\* without an image nothing is sent
KubernetesSubmit(c) ==
    /\ adapter = "kubernetes"
    /\ spec.image
    /\ Launch(c, 1 + BuildManifest(spec).backoffLimit)

BatchSubmit(c) == adapter = "batch" /\ Launch(c, BatchRequest(spec).attempts)

AzureSubmit(c) ==
    adapter = "containerapps" /\ Launch(c, 1 + BuildTemplate(spec).replicaRetryLimit)

Return(c) ==
    /\ pc' = [pc EXCEPT ![c] = "idle"]
    /\ at' = [at EXCEPT ![c] = None]

Tell(e, s) == told' = [told EXCEPT ![e] = s]

\* the answer arrives: the pair is remembered, the execution is QUEUED
Remembered(c) ==
    /\ pc[c] = "launched"
    /\ \/ order' = Remember(order, at[c], deployment.tracked_ids)
       \/ adapter = "cloudrun" /\ UNCHANGED order
    /\ jobNames' = IF adapter = "containerapps" THEN jobNames \union {at[c]} ELSE jobNames
    /\ Tell(at[c], "queued")
    /\ Return(c)
    /\ UNCHANGED <<deployment, engine>>

\* SubmissionError, although the job runs
AnswerLost(c) ==
    /\ pc[c] = "launched"
    /\ Return(c)
    /\ UNCHANGED <<deployment, index, engine, told>>

-----------------------------------------------------------------------------
\* get and cancel: resolve the id, then talk to the engine.

\* _ids.resolve, or _locate: an id that is not remembered is refused, unless
\* it is the path of a Cloud Run execution, which is an engine id itself
ResolveExternalId(e) ==
    /\ \/ /\ e \in ToSet(order)
          /\ order' = Touch(order, e)
       \/ /\ adapter = "cloudrun"
          /\ told[e] # Absent
          /\ e \notin ToSet(order)
          /\ UNCHANGED order
    /\ adapter = "containerapps" => e \in jobNames
    /\ UNCHANGED jobNames

Get(c, e) ==
    /\ pc[c] = "idle"
    /\ ResolveExternalId(e)
    /\ pc' = [pc EXCEPT ![c] = "read"]
    /\ at' = [at EXCEPT ![c] = e]
    /\ UNCHANGED <<deployment, engine, told>>

Cancel(c, e) ==
    /\ pc[c] = "idle"
    /\ ResolveExternalId(e)
    /\ pc' = [pc EXCEPT ![c] = IF adapter = "kubernetes" THEN "snapshot" ELSE "cancel"]
    /\ at' = [at EXCEPT ![c] = e]
    /\ UNCHANGED <<deployment, engine, told>>

\* the engine's answer to a read, in the words of the package
Report(c, s) ==
    /\ pc[c] = "read"
    /\ at[c] \notin gone
    /\ Tell(at[c], s)
    /\ Return(c)
    /\ UNCHANGED <<deployment, index, engine>>

CloudRunRead(c) == adapter = "cloudrun" /\ Report(c, MapExecutionState(at[c]))

KubernetesRead(c) == adapter = "kubernetes" /\ Report(c, MapJobState(at[c]))

BatchRead(c) == adapter = "batch" /\ Report(c, MapBatchState(at[c]))

\* the status of the execution with this id among all executions of its job
AzureRead(c) ==
    /\ adapter = "containerapps"
    /\ pc[c] = "read"
    /\ \E s \in AzureStatuses(at[c]) : Report(c, StateMap[s])

\* An engine accepts a request for a job that has ended, or refuses it.
Ask(c) ==
    /\ pc[c] = "cancel"
    /\ at[c] \notin gone
    /\ asked' = asked \union {at[c]}
    /\ pc' = [pc EXCEPT ![c] = "resolve"]
    /\ UNCHANGED <<deployment, index, work, end, gone, told, at>>

CancelExecution(c) == adapter = "cloudrun" /\ Ask(c)

TerminateJob(c) == adapter = "batch" /\ Ask(c)

StopExecution(c) == adapter = "containerapps" /\ Ask(c)

\* _get after the request resolves the id once more: it may be gone by then
ResolveAgain(c) ==
    /\ pc[c] = "resolve"
    /\ \/ /\ ResolveExternalId(at[c])
          /\ pc' = [pc EXCEPT ![c] = "read"]
          /\ UNCHANGED at
       \/ at[c] \notin ToSet(order) /\ Return(c) /\ UNCHANGED index
    /\ UNCHANGED <<deployment, engine, told>>

\* kubernetes reads first, which resolves the id once more, and deletes whatever
\* it has read
Snapshot(c) ==
    /\ pc[c] = "snapshot"
    /\ ResolveExternalId(at[c])
    /\ at[c] \notin gone
    /\ pc' = [pc EXCEPT ![c] = "delete"]
    /\ UNCHANGED <<deployment, engine, told, at>>

\* delete_namespaced_job: the job and its pods go, and CANCELLED is reported
DeleteJob(c) ==
    /\ pc[c] = "delete"
    /\ at[c] \notin gone
    /\ gone' = gone \union {at[c]}
    /\ asked' = asked \union {at[c]}
    /\ Tell(at[c], "cancelled")
    /\ Return(c)
    /\ UNCHANGED <<deployment, index, work, end>>

\* ExecutionNotFound or BackendError: the job is gone, or a call fails
Raise(c) ==
    /\ pc[c] \in {"read", "cancel", "snapshot", "delete"}
    /\ Return(c)
    /\ UNCHANGED <<deployment, index, engine, told>>

\* the process is started anew
Restart ==
    /\ order # <<>>
    /\ order' = <<>>
    /\ jobNames' = {}
    /\ pc' = [c \in Callers |-> "idle"]
    /\ at' = [c \in Callers |-> None]
    /\ UNCHANGED <<deployment, engine, told>>

Engine ==
    \E e \in Executions :
        \/ \E i \in Tasks : TaskStep(e, i)
        \/ Finish(e)
        \/ Deadline(e)
        \/ Expire(e)

Call(c) ==
    \/ CloudRunSubmit(c)
    \/ KubernetesSubmit(c)
    \/ BatchSubmit(c)
    \/ AzureSubmit(c)
    \/ \E e \in Executions : Get(c, e) \/ Cancel(c, e)
    \/ Remembered(c)
    \/ AnswerLost(c)
    \/ CloudRunRead(c)
    \/ KubernetesRead(c)
    \/ BatchRead(c)
    \/ AzureRead(c)
    \/ CancelExecution(c)
    \/ TerminateJob(c)
    \/ StopExecution(c)
    \/ ResolveAgain(c)
    \/ Snapshot(c)
    \/ DeleteJob(c)
    \/ Raise(c)

Work == \E c \in deployment.callers : Call(c)

Next == Engine \/ Work \/ Restart

Spec == Init /\ [][Next]_vars

-----------------------------------------------------------------------------
TypeOK ==
    /\ deployment \in Deployments
    /\ order \in Seq(Executions)
    /\ jobNames \subseteq Executions
    /\ job \in [Executions -> [attempts : Nat, deadline : BOOLEAN]]
    /\ task \in [Executions -> [Tasks -> {"waiting", "active", "ok", "lost", "stopped"}]]
    /\ fails \in [Executions -> [Tasks -> Nat]]
    /\ end \in [Executions -> {None, "succeeded", "failed", "deadline", "stopped"}]
    /\ asked \union gone \subseteq Executions
    /\ told \in [Executions -> State \union {Absent}]
    /\ pc \in [Callers -> {"idle", "launched", "read", "cancel", "resolve", "snapshot", "delete"}]
    /\ at \in [Callers -> Executions \union {None}]

\* What an adapter would report of a job now.
Mapped(e) ==
    CASE adapter = "cloudrun"      -> MapExecutionState(e)
      [] adapter = "kubernetes"    -> MapJobState(e)
      [] adapter = "batch"         -> MapBatchState(e)
      [] adapter = "containerapps" -> StateMap[AzureStatus(e)]

\* "Reporting SUCCEEDED there would be a lie": what a caller is told of the end
\* of a job is so.  All tasks have succeeded, or a run has failed (or, on Batch,
\* the job was stopped), or the time is over, or somebody has cancelled it.  And
\* a job that has ended is reported as ended; only a Kubernetes job whose time
\* was over before its first pod was made stays QUEUED for ever.
ReportIsTrue ==
    \A e \in Executions :
        /\ told[e] = "succeeded" => InState(e, "ok") = Tasks
        /\ told[e] = "failed" => \/ FailedRuns(e) > 0
                                 \/ end[e] = "deadline"
                                 \/ adapter = "batch" /\ e \in asked
        /\ told[e] = "timed_out" => end[e] = "deadline"
        /\ told[e] = "cancelled" => e \in asked
        /\ end[e] # None =>
               \/ Mapped(e) \in Terminal
               \/ adapter = "kubernetes" /\ end[e] = "deadline" /\ FailedRuns(e) = 0

\* A terminal state is told for good: it is followed by another one only on
\* Kubernetes, where FAILED may be said between two pods of one job, and where
\* cancel deletes a job that has already ended and calls it CANCELLED.
EndsAreFinal ==
    [][\A e \in Executions :
          told[e] \in Terminal /\ told'[e] # told[e] =>
              /\ adapter = "kubernetes"
              /\ told[e] = "failed" \/ told'[e] = "cancelled"]_vars

\* No task of a job is run more often than the policy of its spec grants the
\* engine, whoever counts repetitions and whoever counts attempts.  (Where the
\* spec asks for no retries, all engines but Kubernetes fall back on their own.)
AttemptsWithinPolicy ==
    \A e \in Executions :
        Started(e) /\ (Enabled(spec.retry) \/ adapter = "kubernetes") =>
            \A i \in Tasks : fails[e][i] <= EngineAttempts(spec.retry)
=============================================================================
