--------------------------- MODULE CloudJobsProofs ---------------------------
(***************************************************************************)
(* Proofs about the cloud job adapters (CloudJobs), with a reader of logs    *)
(* beside them (LogTail), for any executions, callers, deployments and jobs;*)
(* and about what that reader yields, for any entries.                      *)
(***************************************************************************)
EXTENDS LogTail, FiniteSetTheorems, TLAPS

\* A task runs while it may fail once more; a task is stopped only for somebody
\* who asked, and a job has ended as its tasks have.
JobInv(e) ==
    /\ ~ Started(e) =>
           /\ e \notin asked /\ e \notin gone /\ end[e] = None /\ told[e] = Absent
           /\ \A i \in Tasks : task[e][i] = "waiting" /\ fails[e][i] = 0
    /\ Started(e) =>
           /\ job[e].attempts > 0
           /\ Enabled(spec.retry) \/ adapter = "kubernetes" =>
                  job[e].attempts = EngineAttempts(spec.retry)
    /\ \A i \in Tasks :
           /\ fails[e][i] <= job[e].attempts
           /\ Started(e) /\ task[e][i] \in {"waiting", "active"} =>
                  fails[e][i] < job[e].attempts /\ end[e] = None
           /\ task[e][i] = "lost" => fails[e][i] > 0 \/ end[e] = "deadline"
           /\ task[e][i] = "stopped" => e \in asked /\ end[e] # "deadline"
    /\ end[e] = "succeeded" => \A i \in Tasks : task[e][i] = "ok"
    /\ end[e] = "failed" =>
           /\ \E i \in Tasks : task[e][i] = "lost"
           /\ \A i \in Tasks : task[e][i] # "stopped"
    /\ end[e] = "stopped" => \E i \in Tasks : task[e][i] = "stopped"
    /\ end[e] = "deadline" =>
           adapter \in {"kubernetes", "batch"} /\ \E i \in Tasks : task[e][i] = "lost"
    /\ e \in gone => end[e] # None \/ (adapter = "kubernetes" /\ e \in asked)
    /\ adapter = "kubernetes" =>
           /\ e \in asked => e \in gone
           /\ \A i \in Tasks : task[e][i] # "stopped"

\* The terminal state a caller was told is what the adapter would say now; on
\* Kubernetes, where it need not be, it has a reason.
ToldInv(e) ==
    /\ adapter # "kubernetes" /\ told[e] \in Terminal => Mapped(e) = told[e]
    /\ adapter = "kubernetes" =>
           /\ told[e] = "succeeded" => \A i \in Tasks : task[e][i] = "ok"
           /\ told[e] = "failed" => \E i \in Tasks : fails[e][i] > 0
           /\ told[e] = "timed_out" => end[e] = "deadline" /\ \E i \in Tasks : fails[e][i] > 0
           /\ told[e] = "cancelled" => e \in gone /\ e \in asked

\* A caller works on a job that has been started; before its first answer it is
\* the only one who can.
ClientInv(c) ==
    /\ pc[c] # "idle" => at[c] \in Executions /\ Started(at[c])
    /\ pc[c] = "launched" =>
           /\ told[at[c]] = Absent
           /\ \A d \in Callers \ {c} : pc[d] = "launched" => at[d] # at[c]
    /\ pc[c] \notin {"idle", "launched"} => told[at[c]] # Absent
    /\ pc[c] \in {"snapshot", "delete"} => adapter = "kubernetes"

IndexInv == \A e \in ToSet(order) : told[e] # Absent

JobsInv ==
    /\ TypeOK
    /\ \A e \in Executions : JobInv(e) /\ ToldInv(e)
    /\ \A c \in Callers : ClientInv(c)
    /\ IndexInv

-----------------------------------------------------------------------------
\* What a deployment is.
LEMMA Deployed ==
    ASSUME TypeOK
    PROVE  /\ adapter \in Adapters /\ spec.parallelism \in Nat \ {0}
           /\ spec.retry.max_attempts \in Nat \ {0} /\ EngineAttempts(spec.retry) \in Nat \ {0}
           /\ deployment.tracked_ids \in Nat /\ deployment.ids \subseteq Executions
           /\ deployment.callers \subseteq Callers /\ spec.timeout \in BOOLEAN
           /\ Tasks # {} /\ IsFiniteSet(Tasks)
<1>1. deployment \in Deployments
  BY DEF TypeOK
<1>2. /\ adapter \in Adapters /\ spec.parallelism \in Nat \ {0}
      /\ spec.retry.max_attempts \in Nat \ {0}
      /\ deployment.tracked_ids \in Nat /\ deployment.ids \subseteq Executions
      /\ deployment.callers \subseteq Callers /\ spec.timeout \in BOOLEAN
  BY <1>1, CloudJobsAssumption DEF adapter, spec
<1>3. EngineAttempts(spec.retry) \in Nat \ {0}
  BY <1>2 DEF EngineAttempts
<1>4. Tasks # {} /\ IsFiniteSet(Tasks)
  <2> DEFINE n == spec.parallelism
  <2>1. n \in Int /\ 1 \in 1 .. n
    BY <1>2
  <2>2. IsFiniteSet(1 .. n)
    BY <2>1, FS_Interval
  <2> QED BY <2>1, <2>2 DEF Tasks
<1> QED BY <1>2, <1>3, <1>4

\* The number of failed runs of all tasks, and of one.
LEMMA FailuresCounted ==
    ASSUME TypeOK, NEW e \in Executions, \A i \in Tasks : fails[e][i] <= job[e].attempts
    PROVE  /\ FailedRuns(e) \in Nat
           /\ \A i \in Tasks : fails[e][i] <= FailedRuns(e)
           /\ FailedRuns(e) > 0 <=> \E i \in Tasks : fails[e][i] > 0
<1> DEFINE Of(i) == {i} \X (1 .. fails[e][i])
           all == UNION {Of(i) : i \in Tasks}
           m == job[e].attempts
<1>1. m \in Nat /\ \A i \in Tasks : fails[e][i] \in Nat /\ fails[e][i] <= m
  BY DEF TypeOK
<1>2. \A i \in Tasks : Of(i) \subseteq all
  OBVIOUS
<1>3. all \subseteq Tasks \X (1 .. m)
  BY <1>1
<1>4. IsFiniteSet(all)
  <2>1. IsFiniteSet(1 .. m)
    <3>1. 1 \in Int /\ m \in Int
      BY <1>1
    <3> HIDE DEF m
    <3> QED BY <3>1, FS_Interval
  <2>2. IsFiniteSet(Tasks)
    BY Deployed
  <2>3. IsFiniteSet(Tasks \X (1 .. m))
    BY <2>1, <2>2, FS_Product
  <2> HIDE DEF all
  <2> QED BY <1>3, <2>3, FS_Subset
<1>5. FailedRuns(e) = Cardinality(all)
  BY DEF FailedRuns
<1>6. all # {} <=> \E i \in Tasks : fails[e][i] > 0
  <2>1. ASSUME NEW i \in Tasks, fails[e][i] > 0 PROVE <<i, 1>> \in all
    <3>1. 1 \in 1 .. fails[e][i]
      BY <1>1, <2>1
    <3> QED BY <3>1
  <2>2. ASSUME NEW x \in all PROVE \E i \in Tasks : fails[e][i] > 0
    <3>1. PICK i \in Tasks : x \in Of(i)
      OBVIOUS
    <3>2. PICK n \in 1 .. fails[e][i] : TRUE
      BY <3>1
    <3> QED BY <1>1, <3>2
  <2> QED BY <2>1, <2>2
<1>7. ASSUME NEW i \in Tasks PROVE fails[e][i] <= Cardinality(all)
  <2>1. fails[e][i] \in Nat
    BY <1>1
  <2>2. IsFiniteSet(1 .. fails[e][i]) /\ Cardinality(1 .. fails[e][i]) = fails[e][i]
    <3> DEFINE n == fails[e][i]
    <3> HIDE DEF n
    <3>1. n \in Int /\ n >= 0
      BY <2>1 DEF n
    <3>2. IsFiniteSet(1 .. n) /\ Cardinality(1 .. n) = IF 1 > n THEN 0 ELSE n - 1 + 1
      BY <3>1, FS_Interval
    <3>3. Cardinality(1 .. n) = n
      BY <3>1, <3>2
    <3> QED BY <3>2, <3>3 DEF n
  <2>3. IsFiniteSet({i}) /\ Cardinality({i}) = 1
    BY FS_Singleton
  <2>4. Cardinality(Of(i)) = 1 * fails[e][i]
    <3> DEFINE runs == 1 .. fails[e][i]
    <3>1. IsFiniteSet(runs) /\ Cardinality(runs) = fails[e][i]
      BY <2>2
    <3> HIDE DEF runs
    <3>2. Cardinality({i} \X runs) = Cardinality({i}) * Cardinality(runs)
      BY <2>3, <3>1, FS_Product
    <3>3. Cardinality({i} \X runs) = 1 * fails[e][i]
      BY <2>3, <3>1, <3>2
    <3> QED BY <3>3 DEF runs
  <2>5. Of(i) \subseteq all
    BY <1>2
  <2> HIDE DEF all, Of
  <2>6. Cardinality(Of(i)) <= Cardinality(all)
    BY <1>4, <2>5, FS_Subset
  <2> QED BY <2>1, <2>4, <2>6
<1> HIDE DEF all
<1>8. Cardinality(all) \in Nat /\ (Cardinality(all) = 0 <=> all = {})
  BY <1>4, FS_CardinalityType, FS_EmptySet
<1> QED BY <1>5, <1>6, <1>7, <1>8

\* What an adapter says depends on the job alone.
LEMMA MappedStays ==
    ASSUME NEW e, UNCHANGED deployment, task'[e] = task[e], fails'[e] = fails[e], end'[e] = end[e]
    PROVE  Mapped(e)' = Mapped(e)
<1>1. Tasks' = Tasks /\ adapter' = adapter /\ spec' = spec
  BY DEF Tasks, adapter, spec
<1>2. \A s : InState(e, s)' = InState(e, s)
  BY <1>1 DEF InState
<1>3. FailedRuns(e)' = FailedRuns(e)
  BY <1>1 DEF FailedRuns
<1>4. AzureStatus(e)' = AzureStatus(e) /\ BatchStatus(e)' = BatchStatus(e)
  BY <1>2 DEF AzureStatus, BatchStatus
<1>5. /\ MapExecutionState(e)' = MapExecutionState(e) /\ MapJobState(e)' = MapJobState(e)
      /\ MapBatchState(e)' = MapBatchState(e)
  BY <1>1, <1>2, <1>3, <1>4 DEF MapExecutionState, MapJobState, MapBatchState
<1>6. StateMap[AzureStatus(e)]' = StateMap[AzureStatus(e)]
  BY <1>4 DEF StateMap
<1> QED BY <1>1, <1>5, <1>6 DEF Mapped

\* A job of which nothing changes but that it is asked to end, or deleted.
LEMMA JobStays ==
    ASSUME NEW e \in Executions, JobInv(e), UNCHANGED deployment,
           job'[e] = job[e], task'[e] = task[e], fails'[e] = fails[e], end'[e] = end[e],
           told'[e] = told[e] \/ Started(e),
           e \in asked => e \in asked', e \in gone => e \in gone',
           Started(e) \/ (e \notin asked' /\ e \notin gone'),
           e \in gone' => \/ e \in gone \/ end[e] # None
                          \/ adapter = "kubernetes" /\ e \in asked',
           adapter = "kubernetes" /\ e \in asked' => e \in asked \/ e \in gone'
    PROVE  JobInv(e)'
<1>1. Tasks' = Tasks /\ adapter' = adapter /\ spec' = spec
  BY DEF Tasks, adapter, spec
<1>2. Started(e)' = Started(e)
  BY DEF Started
<1> QED BY <1>1, <1>2 DEF JobInv

LEMMA ToldStays ==
    ASSUME NEW e \in Executions, ToldInv(e), UNCHANGED deployment,
           task'[e] = task[e], fails'[e] = fails[e], end'[e] = end[e],
           told'[e] = told[e], e \in asked => e \in asked', e \in gone => e \in gone'
    PROVE  ToldInv(e)'
<1>1. Tasks' = Tasks /\ adapter' = adapter
  BY DEF Tasks, adapter, spec
<1>2. Mapped(e)' = Mapped(e)
  BY MappedStays
<1> QED BY <1>1, <1>2 DEF ToldInv

\* What the engines' answers say of a job.
LEMMA KubernetesSays ==
    ASSUME TypeOK, NEW e \in Executions, JobInv(e), adapter = "kubernetes"
    PROVE  /\ Mapped(e) \in {"succeeded", "timed_out", "failed", "running", "queued"}
           /\ Mapped(e) = "succeeded" <=> \A i \in Tasks : task[e][i] = "ok"
           /\ Mapped(e) = "failed" => \E i \in Tasks : fails[e][i] > 0
           /\ Mapped(e) = "timed_out" <=>
                  end[e] = "deadline" /\ \E i \in Tasks : fails[e][i] > 0
<1>1. /\ FailedRuns(e) > 0 <=> \E i \in Tasks : fails[e][i] > 0
  BY FailuresCounted DEF JobInv
<1>2. Mapped(e) = MapJobState(e)
  BY DEF Mapped
<1>3. InState(e, "ok") = Tasks <=> \A i \in Tasks : task[e][i] = "ok"
  BY DEF InState
<1>4. end[e] = "deadline" => InState(e, "active") = {} /\ InState(e, "ok") # Tasks
  BY <1>3 DEF JobInv, InState, None
<1> QED BY <1>1, <1>2, <1>3, <1>4 DEF MapJobState

LEMMA CloudRunSays ==
    ASSUME TypeOK, NEW e \in Executions, JobInv(e), adapter = "cloudrun"
    PROVE  /\ Mapped(e) \in {"succeeded", "failed", "cancelled", "running", "queued"}
           /\ Mapped(e) = "succeeded" => \A i \in Tasks : task[e][i] = "ok"
           /\ Mapped(e) = "failed" => end[e] # None /\ \E i \in Tasks : fails[e][i] > 0
           /\ Mapped(e) = "cancelled" <=> \E i \in Tasks : task[e][i] = "stopped"
           /\ Mapped(e) = "succeeded" => end[e] # None
           /\ end[e] # None => Mapped(e) \in Terminal
<1>1. Mapped(e) = MapExecutionState(e)
  BY DEF Mapped
<1>2. /\ InState(e, "ok") = Tasks <=> \A i \in Tasks : task[e][i] = "ok"
      /\ InState(e, "stopped") # {} <=> \E i \in Tasks : task[e][i] = "stopped"
  BY DEF InState
<1>3. end[e] \in {None, "succeeded", "failed", "stopped"}
  BY DEF TypeOK, JobInv
<1>4. Mapped(e) = "failed" => end[e] = "failed"
  BY <1>1, <1>2, <1>3 DEF MapExecutionState, JobInv
<1>5. end[e] = "failed" => \E i \in Tasks : fails[e][i] > 0
  BY DEF JobInv
<1> QED BY <1>1, <1>2, <1>4, <1>5 DEF MapExecutionState, Terminal, None

LEMMA BatchSays ==
    ASSUME TypeOK, NEW e \in Executions, JobInv(e), adapter = "batch"
    PROVE  /\ Mapped(e) \in {"succeeded", "timed_out", "failed", "running", "queued"}
           /\ Mapped(e) = "succeeded" <=> end[e] = "succeeded"
           /\ Mapped(e) = "timed_out" => end[e] = "deadline"
           /\ Mapped(e) \in Terminal <=> end[e] # None
<1>1. Mapped(e) = MapBatchState(e)
  BY DEF Mapped
<1>2. end[e] \in {None, "succeeded", "failed", "deadline", "stopped"}
  BY DEF TypeOK
<1>3. CASE end[e] = None
  <2>1. BatchStatus(e) \in {"RUNNING", "RUNNABLE"}
    BY <1>3 DEF BatchStatus, None
  <2> QED BY <1>1, <1>3, <2>1 DEF MapBatchState, Terminal, None
<1>4. CASE end[e] = "succeeded"
  <2>1. BatchStatus(e) = "SUCCEEDED"
    BY <1>4 DEF BatchStatus
  <2> QED BY <1>1, <1>4, <2>1 DEF MapBatchState, Terminal, None
<1>5. CASE end[e] \in {"failed", "deadline", "stopped"}
  <2>1. BatchStatus(e) = "FAILED"
    BY <1>5 DEF BatchStatus
  <2> QED BY <1>1, <1>5, <2>1 DEF MapBatchState, Terminal, None
<1> QED BY <1>2, <1>3, <1>4, <1>5

LEMMA AzureSays ==
    ASSUME TypeOK, NEW e \in Executions, JobInv(e), adapter = "containerapps"
    PROVE  /\ Mapped(e) \in {"succeeded", "failed", "cancelled", "running"}
           /\ Mapped(e) = "succeeded" <=> end[e] = "succeeded"
           /\ Mapped(e) = "failed" <=> end[e] = "failed"
           /\ Mapped(e) = "cancelled" <=> end[e] = "stopped"
           /\ Mapped(e) \in Terminal <=> end[e] # None
<1>1. Mapped(e) = StateMap[AzureStatus(e)]
  BY DEF Mapped
<1>2. end[e] \in {None, "succeeded", "failed", "stopped"}
  BY DEF TypeOK, JobInv
<1>3. CASE end[e] = None
  <2>1. AzureStatus(e) \in {"Running", "Processing"}
    BY <1>3 DEF AzureStatus, None
  <2> QED BY <1>1, <1>3, <2>1 DEF StateMap, Terminal, None
<1>4. CASE end[e] = "succeeded"
  <2>1. AzureStatus(e) = "Succeeded"
    BY <1>4 DEF AzureStatus
  <2> QED BY <1>1, <1>4, <2>1 DEF StateMap, Terminal, None
<1>5. CASE end[e] = "failed"
  <2>1. AzureStatus(e) = "Failed"
    BY <1>5 DEF AzureStatus
  <2> QED BY <1>1, <1>5, <2>1 DEF StateMap, Terminal, None
<1>6. CASE end[e] = "stopped"
  <2>1. AzureStatus(e) = "Stopped"
    BY <1>6 DEF AzureStatus
  <2> QED BY <1>1, <1>6, <2>1 DEF StateMap, Terminal, None
<1> QED BY <1>2, <1>3, <1>4, <1>5, <1>6

\* Where a terminal state is one for good, the job has ended, or a task of it
\* has been stopped.
LEMMA TerminalMeans ==
    ASSUME TypeOK, NEW e \in Executions, JobInv(e), adapter # "kubernetes", Mapped(e) \in Terminal
    PROVE  \/ end[e] # None
           \/ adapter = "cloudrun" /\ \E i \in Tasks : task[e][i] = "stopped"
<1>1. adapter \in {"cloudrun", "batch", "containerapps"}
  BY Deployed DEF Adapters
<1> QED BY <1>1, CloudRunSays, BatchSays, AzureSays DEF Terminal

-----------------------------------------------------------------------------
\* A step of the engine with job e.
LEMMA EngineStep ==
    ASSUME JobsInv, NEW e \in Executions,
           UNCHANGED <<deployment, order, jobNames, job, asked, gone, told, pc, at>>, TypeOK',
           \A f \in Executions \ {e} :
               task'[f] = task[f] /\ fails'[f] = fails[f] /\ end'[f] = end[f],
           JobInv(e)', ToldInv(e)'
    PROVE  JobsInv'
<1>1. ASSUME NEW f \in Executions PROVE JobInv(f)' /\ ToldInv(f)'
  <2>1. CASE f = e
    BY <2>1
  <2>2. CASE f # e
    <3>1. JobInv(f) /\ ToldInv(f)
      BY DEF JobsInv
    <3>2. task'[f] = task[f] /\ fails'[f] = fails[f] /\ end'[f] = end[f]
      BY <2>2
    <3>3. Started(f) \/ (f \notin asked /\ f \notin gone)
      BY <3>1 DEF JobInv
    <3> QED BY <3>1, <3>2, <3>3, JobStays, ToldStays
  <2> QED BY <2>1, <2>2
<1>2. ASSUME NEW c \in Callers PROVE ClientInv(c)'
  <2>1. ClientInv(c)
    BY DEF JobsInv
  <2> QED BY <2>1 DEF ClientInv, Started, adapter
<1>3. IndexInv'
  BY DEF JobsInv, IndexInv
<1> QED BY <1>1, <1>2, <1>3 DEF JobsInv

\* What was told for good is still so when the job goes on.
LEMMA EndIsKept ==
    ASSUME JobsInv, NEW e \in Executions, TypeOK', JobInv(e)', UNCHANGED deployment,
           adapter # "kubernetes", Mapped(e) \in Terminal, end[e] = None,
           \A i \in Tasks : task[e][i] = "stopped" => task'[e][i] = "stopped"
    PROVE  Mapped(e)' = Mapped(e)
<1>1. TypeOK /\ JobInv(e)
  BY DEF JobsInv
<1>2. adapter = "cloudrun" /\ \E i \in Tasks : task[e][i] = "stopped"
  BY <1>1, TerminalMeans
<1>3. Mapped(e) = "cancelled"
  BY <1>1, <1>2, CloudRunSays
<1>4. adapter' = "cloudrun" /\ Tasks' = Tasks
  BY <1>2 DEF adapter, Tasks, spec
<1>5. \E i \in Tasks : task'[e][i] = "stopped"
  BY <1>2
<1>6. Mapped(e)' = "cancelled"
  BY <1>4, <1>5 DEF Mapped, MapExecutionState, InState
<1> QED BY <1>3, <1>6

LEMMA ToldGoesOn ==
    ASSUME JobsInv, NEW e \in Executions, TypeOK', JobInv(e)', Open(e),
           UNCHANGED <<deployment, told, asked, gone>>,
           \A i \in Tasks : task[e][i] \in {"ok", "lost", "stopped"} => task'[e][i] = task[e][i],
           \A i \in Tasks : fails'[e][i] >= fails[e][i]
    PROVE  ToldInv(e)'
<1>1. TypeOK /\ JobInv(e) /\ ToldInv(e) /\ end[e] = None /\ e \notin gone
  BY DEF JobsInv, Open
<1>2. adapter' = adapter /\ Tasks' = Tasks
  BY DEF adapter, Tasks, spec
<1>3. CASE adapter # "kubernetes"
  <2>1. told[e] \in Terminal => Mapped(e) = told[e]
    BY <1>1, <1>3 DEF ToldInv
  <2>2. Mapped(e) \in Terminal => Mapped(e)' = Mapped(e)
    BY <1>1, <1>3, EndIsKept
  <2> QED BY <1>2, <1>3, <2>1, <2>2 DEF ToldInv
<1>4. CASE adapter = "kubernetes"
  <2>1. \A i \in Tasks : fails[e][i] \in Nat /\ fails'[e][i] \in Nat
    BY <1>1, <1>2 DEF TypeOK
  <2>2. told[e] # "timed_out" /\ told[e] # "cancelled"
    BY <1>1, <1>4 DEF ToldInv, None
  <2>3. told[e] = "succeeded" => \A i \in Tasks : task'[e][i] = "ok"
    BY <1>1, <1>4 DEF ToldInv
  <2>4. told[e] = "failed" => \E i \in Tasks : fails'[e][i] > 0
    BY <1>1, <1>4, <2>1 DEF ToldInv
  <2> QED BY <1>2, <1>4, <2>2, <2>3, <2>4 DEF ToldInv
<1> QED BY <1>3, <1>4

LEMMA TaskMoves ==
    ASSUME JobsInv, NEW e \in Executions, NEW i \in Tasks, TaskStep(e, i)
    PROVE  JobsInv'
<1>1. /\ TypeOK /\ JobInv(e) /\ Open(e) /\ Started(e) /\ end[e] = None /\ e \notin gone
      /\ UNCHANGED <<deployment, order, jobNames, job, end, asked, gone, told, pc, at>>
  BY DEF JobsInv, TaskStep, Open, index
<1>2. adapter' = adapter /\ Tasks' = Tasks /\ spec' = spec /\ Started(e)' = Started(e)
  BY <1>1 DEF adapter, Tasks, spec, Started
<1>3. PICK s \in {"waiting", "active", "ok", "lost", "stopped"}, n \in {0, 1} :
          /\ task' = [task EXCEPT ![e][i] = s]
          /\ fails' = [fails EXCEPT ![e][i] = @ + n]
          /\ task[e][i] \in {"waiting", "active"}
          /\ s = "lost" => n = 1
          /\ s = "stopped" => e \in asked
          /\ s \in {"waiting", "active"} => n = 0 \/ (n = 1 /\ MayRepeat(e, i))
  <2>1. fails \in [Executions -> [Tasks -> Nat]]
    BY <1>1 DEF TypeOK
  <2>2. fails = [fails EXCEPT ![e][i] = @ + 0]
    BY <2>1
  <2> QED BY <2>2 DEF TaskStep
<1>4. /\ fails \in [Executions -> [Tasks -> Nat]]
      /\ task \in [Executions -> [Tasks -> {"waiting", "active", "ok", "lost", "stopped"}]]
      /\ job[e].attempts \in Nat
  BY <1>1 DEF TypeOK
<1>5. TypeOK'
  <2>1. /\ fails' \in [Executions -> [Tasks -> Nat]]
        /\ task' \in [Executions -> [Tasks -> {"waiting", "active", "ok", "lost", "stopped"}]]
    BY <1>3, <1>4
  <2> QED BY <1>1, <1>2, <2>1 DEF TypeOK
<1>6. \A j \in Tasks : /\ fails'[e][j] = IF j = i THEN fails[e][j] + n ELSE fails[e][j]
                       /\ task'[e][j] = IF j = i THEN s ELSE task[e][j]
                       /\ fails[e][j] \in Nat
  BY <1>3, <1>4
<1>7. n = 1 /\ s \in {"waiting", "active"} => 1 + fails[e][i] < job[e].attempts
  <2>1. fails[e][i] <= FailedRuns(e) /\ FailedRuns(e) \in Nat
    BY <1>1, FailuresCounted DEF JobInv
  <2> QED BY <1>3, <1>4, <2>1 DEF MayRepeat
<1>8. fails[e][i] < job[e].attempts
  BY <1>1, <1>3 DEF JobInv
<1>9. JobInv(e)'
  <2>1. ASSUME NEW j \in Tasks
        PROVE  /\ fails'[e][j] <= job[e].attempts
               /\ task'[e][j] \in {"waiting", "active"} => fails'[e][j] < job[e].attempts
               /\ task'[e][j] = "lost" => fails'[e][j] > 0
               /\ task'[e][j] = "stopped" => e \in asked
    <3>1. CASE j = i
      BY <1>3, <1>4, <1>6, <1>7, <1>8, <3>1
    <3>2. CASE j # i
      BY <1>1, <1>6, <3>2 DEF JobInv, None
    <3> QED BY <3>1, <3>2
  <2> QED BY <1>1, <1>2, <2>1 DEF JobInv, None
<1>10. ToldInv(e)'
  <2>1. \A j \in Tasks : /\ task[e][j] \in {"ok", "lost", "stopped"} => task'[e][j] = task[e][j]
                         /\ fails'[e][j] >= fails[e][j]
    BY <1>3, <1>6
  <2> QED BY <1>1, <1>5, <1>9, <2>1, ToldGoesOn
<1>11. \A f \in Executions \ {e} :
           task'[f] = task[f] /\ fails'[f] = fails[f] /\ end'[f] = end[f]
  BY <1>1, <1>3, <1>4
<1> QED BY <1>1, <1>5, <1>9, <1>10, <1>11, EngineStep

LEMMA JobFinishes ==
    ASSUME JobsInv, NEW e \in Executions, Finish(e)
    PROVE  JobsInv'
<1>1. /\ TypeOK /\ JobInv(e) /\ Open(e) /\ Started(e) /\ end[e] = None /\ e \notin gone
      /\ UNCHANGED <<deployment, order, jobNames, job, task, fails, asked, gone, told, pc, at>>
  BY DEF JobsInv, Finish, Open, index, work
<1>2. adapter' = adapter /\ Tasks' = Tasks /\ spec' = spec /\ Started(e)' = Started(e)
  BY <1>1 DEF adapter, Tasks, spec, Started
<1>3. \A i \in Tasks : task[e][i] \in {"ok", "lost", "stopped"}
  BY <1>1 DEF Finish, InState, TypeOK
<1>4. PICK how \in {"succeeded", "failed", "stopped"} :
          /\ end' = [end EXCEPT ![e] = how]
          /\ how = "stopped" => InState(e, "stopped") # {}
          /\ how = "failed" => InState(e, "lost") # {} /\ InState(e, "stopped") = {}
          /\ how = "succeeded" => InState(e, "lost") = {} /\ InState(e, "stopped") = {}
  BY DEF Finish
<1>5. end \in [Executions -> {None, "succeeded", "failed", "deadline", "stopped"}]
  BY <1>1 DEF TypeOK
<1>6. end'[e] = how
  BY <1>4, <1>5
<1>7. TypeOK'
  <2>1. end' \in [Executions -> {None, "succeeded", "failed", "deadline", "stopped"}]
    BY <1>4, <1>5
  <2> QED BY <1>1, <1>2, <2>1 DEF TypeOK
<1>8. JobInv(e)'
  <2>1. /\ how = "stopped" => \E i \in Tasks : task[e][i] = "stopped"
        /\ how = "failed" => /\ \E i \in Tasks : task[e][i] = "lost"
                             /\ \A i \in Tasks : task[e][i] # "stopped"
        /\ how = "succeeded" => \A i \in Tasks : task[e][i] = "ok"
    BY <1>3, <1>4 DEF InState
  <2>2. ASSUME NEW i \in Tasks
        PROVE  /\ fails[e][i] <= job[e].attempts
               /\ task[e][i] = "lost" => fails[e][i] > 0
               /\ task[e][i] = "stopped" => e \in asked
    BY <1>1 DEF JobInv, None
  <2> QED BY <1>1, <1>2, <1>3, <1>6, <2>1, <2>2 DEF JobInv, None
<1>9. ToldInv(e)'
  <2>1. \A i \in Tasks : fails'[e][i] >= fails[e][i]
    BY <1>1 DEF TypeOK
  <2> QED BY <1>1, <1>7, <1>8, <2>1, ToldGoesOn
<1>10. \A f \in Executions \ {e} :
           task'[f] = task[f] /\ fails'[f] = fails[f] /\ end'[f] = end[f]
  BY <1>1, <1>4, <1>5
<1> QED BY <1>1, <1>7, <1>8, <1>9, <1>10, EngineStep

LEMMA JobTimesOut ==
    ASSUME JobsInv, NEW e \in Executions, Deadline(e)
    PROVE  JobsInv'
<1>1. /\ TypeOK /\ JobInv(e) /\ Open(e) /\ Started(e) /\ end[e] = None /\ e \notin gone
      /\ e \notin asked /\ adapter \in {"kubernetes", "batch"}
      /\ UNCHANGED <<deployment, order, jobNames, job, asked, gone, told, pc, at>>
  BY DEF JobsInv, Deadline, Open, index
<1>2. adapter' = adapter /\ Tasks' = Tasks /\ spec' = spec /\ Started(e)' = Started(e)
  BY <1>1 DEF adapter, Tasks, spec, Started
<1>3. /\ fails \in [Executions -> [Tasks -> Nat]]
      /\ task \in [Executions -> [Tasks -> {"waiting", "active", "ok", "lost", "stopped"}]]
      /\ job[e].attempts \in Nat
      /\ end \in [Executions -> {None, "succeeded", "failed", "deadline", "stopped"}]
  BY <1>1 DEF TypeOK
<1> DEFINE counted == [i \in Tasks |-> fails[e][i] + IF task[e][i] = "active" THEN 1 ELSE 0]
           ended == [i \in Tasks |-> IF task[e][i] = "ok" THEN "ok" ELSE "lost"]
<1>4. /\ fails' = [fails EXCEPT ![e] = counted]
      /\ task' = [task EXCEPT ![e] = ended]
      /\ end' = [end EXCEPT ![e] = "deadline"]
  BY DEF Deadline
<1>5. counted \in [Tasks -> Nat] /\ ended \in [Tasks -> {"ok", "lost"}]
  BY <1>3
<1>6. fails'[e] = counted /\ task'[e] = ended /\ end'[e] = "deadline"
  BY <1>3, <1>4
<1>7. TypeOK'
  <2> HIDE DEF counted, ended
  <2>1. /\ fails' \in [Executions -> [Tasks -> Nat]]
        /\ task' \in [Executions -> [Tasks -> {"waiting", "active", "ok", "lost", "stopped"}]]
        /\ end' \in [Executions -> {None, "succeeded", "failed", "deadline", "stopped"}]
    BY <1>3, <1>4, <1>5
  <2> QED BY <1>1, <1>2, <2>1 DEF TypeOK
<1>8. JobInv(e)'
  <2>1. ASSUME NEW i \in Tasks
        PROVE  /\ fails'[e][i] <= job[e].attempts
               /\ task'[e][i] \in {"ok", "lost"}
    <3>1. /\ fails[e][i] <= job[e].attempts
          /\ task[e][i] = "active" => fails[e][i] < job[e].attempts
      BY <1>1 DEF JobInv
    <3>2. fails'[e][i] = fails[e][i] + (IF task[e][i] = "active" THEN 1 ELSE 0)
      BY <1>6
    <3>3. task'[e][i] \in {"ok", "lost"} /\ fails[e][i] \in Nat
      BY <1>3, <1>5, <1>6
    <3> QED BY <1>3, <3>1, <3>2, <3>3
  <2>2. \E i \in Tasks : task'[e][i] = "lost"
    <3>1. PICK i \in Tasks : task[e][i] \in {"waiting", "active"}
      BY DEF Deadline, InState
    <3>2. task'[e][i] = "lost"
      BY <1>6, <3>1
    <3> QED BY <3>2
  <2> QED BY <1>1, <1>2, <1>6, <2>1, <2>2 DEF JobInv, None
<1>9. ToldInv(e)'
  <2>1. \A i \in Tasks : task[e][i] # "stopped"
    BY <1>1 DEF JobInv
  <2>2. ASSUME NEW i \in Tasks PROVE fails'[e][i] >= fails[e][i] /\ fails'[e][i] \in Nat /\ fails[e][i] \in Nat
    BY <1>3, <1>5, <1>6
  <2>3. CASE adapter # "kubernetes"
    <3>1. Mapped(e) \notin Terminal
      BY <1>1, <2>1, <2>3, TerminalMeans
    <3>2. told[e] \notin Terminal
      BY <2>3, <3>1 DEF JobsInv, ToldInv
    <3> QED BY <1>1, <1>2, <2>3, <3>2 DEF ToldInv
  <2>4. CASE adapter = "kubernetes"
    <3>1. PICK i \in Tasks : task[e][i] \in {"waiting", "active"}
      BY DEF Deadline, InState
    <3>2. /\ told[e] # "succeeded" /\ told[e] # "timed_out" /\ told[e] # "cancelled"
          /\ told[e] = "failed" => \E j \in Tasks : fails[e][j] > 0
      BY <1>1, <2>4, <3>1 DEF JobsInv, ToldInv, None
    <3>3. told[e] = "failed" => \E j \in Tasks : fails'[e][j] > 0
      BY <2>2, <3>2
    <3> QED BY <1>1, <1>2, <2>4, <3>2, <3>3 DEF ToldInv
  <2> QED BY <2>3, <2>4
<1>10. \A f \in Executions \ {e} :
           task'[f] = task[f] /\ fails'[f] = fails[f] /\ end'[f] = end[f]
  BY <1>3, <1>4
<1> QED BY <1>1, <1>7, <1>8, <1>9, <1>10, EngineStep

\* A step that changes no job, but may ask for its end or delete it.
LEMMA JobsRest ==
    ASSUME JobsInv, UNCHANGED <<deployment, job, task, fails, end, told>>,
           asked \subseteq asked', gone \subseteq gone',
           \A e \in Executions : e \in asked' \union gone' => Started(e),
           \A e \in Executions : e \in gone' => \/ e \in gone \/ end[e] # None
                                                \/ adapter = "kubernetes" /\ e \in asked',
           adapter = "kubernetes" => asked' \subseteq asked \union gone'
    PROVE  \A e \in Executions : JobInv(e)' /\ ToldInv(e)'
<1> SUFFICES ASSUME NEW e \in Executions PROVE JobInv(e)' /\ ToldInv(e)'
  OBVIOUS
<1>1. JobInv(e) /\ ToldInv(e)
  BY DEF JobsInv
<1>2. Started(e) \/ (e \notin asked' /\ e \notin gone')
  OBVIOUS
<1> QED BY <1>1, <1>2, JobStays, ToldStays

LEMMA JobExpires ==
    ASSUME JobsInv, NEW e \in Executions, Expire(e)
    PROVE  JobsInv'
<1>1. /\ end[e] # None /\ gone' = gone \union {e}
      /\ UNCHANGED <<deployment, order, jobNames, job, task, fails, end, asked, told, pc, at>>
  BY DEF Expire, index, work
<1>2. \A f \in Executions : f \in asked \union gone' => Started(f)
  BY <1>1 DEF JobsInv, JobInv
<1>3. \A f \in Executions : JobInv(f)' /\ ToldInv(f)'
  BY <1>1, <1>2, JobsRest
<1>4. TypeOK'
  BY <1>1 DEF JobsInv, TypeOK, Tasks, spec
<1>5. ASSUME NEW c \in Callers PROVE ClientInv(c)'
  <2>1. ClientInv(c)
    BY DEF JobsInv
  <2> QED BY <1>1, <2>1 DEF ClientInv, Started, adapter
<1>6. IndexInv'
  BY <1>1 DEF JobsInv, IndexInv
<1> QED BY <1>3, <1>4, <1>5, <1>6 DEF JobsInv

-----------------------------------------------------------------------------
\* What the index remembers.
LEMMA TouchKeeps ==
    ASSUME NEW S, NEW keys \in Seq(S), NEW key \in S
    PROVE  Touch(keys, key) \in Seq(S) /\ ToSet(Touch(keys, key)) \subseteq ToSet(keys) \union {key}
<1>1. CASE key \notin ToSet(keys)
  <2>1. Touch(keys, key) = Append(keys, key)
    BY <1>1 DEF Touch
  <2> QED BY <2>1 DEF ToSet
<1>2. CASE key \in ToSet(keys)
  <2> DEFINE k == CHOOSE i \in DOMAIN keys : keys[i] = key
             left == SubSeq(keys, 1, k - 1)
             right == SubSeq(keys, k + 1, Len(keys))
  <2>1. k \in DOMAIN keys
    BY <1>2 DEF ToSet
  <2>2. k \in 1 .. Len(keys)
    BY <2>1
  <2>3. Touch(keys, key) = Append(left \o right, key)
    BY <1>2 DEF Touch, RemoveAt
  <2> HIDE DEF k
  <2>4. left \in Seq(S) /\ right \in Seq(S)
    BY <2>2
  <2>5. ToSet(left) \subseteq ToSet(keys) /\ ToSet(right) \subseteq ToSet(keys)
    BY <2>2 DEF ToSet
  <2> HIDE DEF left, right
  <2>6. left \o right \in Seq(S) /\ ToSet(left \o right) \subseteq ToSet(left) \union ToSet(right)
    BY <2>4 DEF ToSet
  <2> DEFINE rest == left \o right
  <2> HIDE DEF rest
  <2>7. rest \in Seq(S) /\ ToSet(rest) \subseteq ToSet(keys) /\ Touch(keys, key) = Append(rest, key)
    BY <2>3, <2>5, <2>6 DEF rest
  <2>8. Append(rest, key) \in Seq(S)
    BY <2>7
  <2>9. ToSet(Append(rest, key)) \subseteq ToSet(rest) \union {key}
    BY <2>7 DEF ToSet
  <2> QED BY <2>7, <2>8, <2>9
<1> QED BY <1>1, <1>2

LEMMA RememberKeeps ==
    ASSUME NEW S, NEW keys \in Seq(S), NEW key \in S, NEW limit \in Nat
    PROVE  /\ Remember(keys, key, limit) \in Seq(S)
           /\ ToSet(Remember(keys, key, limit)) \subseteq ToSet(keys) \union {key}
<1> DEFINE longer == Touch(keys, key)
<1>1. longer \in Seq(S) /\ ToSet(longer) \subseteq ToSet(keys) \union {key}
  BY TouchKeeps
<1> HIDE DEF longer
<1>2. Evict(longer, limit) \in Seq(S) /\ ToSet(Evict(longer, limit)) \subseteq ToSet(longer)
  <2>1. CASE Len(longer) <= limit
    BY <1>1, <2>1 DEF Evict
  <2>2. CASE Len(longer) > limit
    <3> DEFINE m == Len(longer) - limit + 1
               s == SubSeq(longer, m, Len(longer))
    <3>1. m \in 1 .. Len(longer) + 1 /\ Len(longer) \in Nat
      BY <1>1, <2>2
    <3>2. Evict(longer, limit) = s
      BY <1>1, <2>2 DEF Evict
    <3> HIDE DEF m
    <3>3. s \in Seq(S)
      BY <1>1, <3>1
    <3>4. ToSet(s) \subseteq ToSet(longer)
      BY <1>1, <3>1 DEF ToSet
    <3> QED BY <3>2, <3>3, <3>4
  <2> QED BY <1>1, <2>1, <2>2
<1> QED BY <1>1, <1>2 DEF Remember, longer

LEMMA ResolveKeeps ==
    ASSUME TypeOK, IndexInv, NEW e, ResolveExternalId(e)
    PROVE  /\ order' \in Seq(Executions) /\ ToSet(order') \subseteq ToSet(order)
           /\ told[e] # Absent /\ jobNames' = jobNames
<1>1. order \in Seq(Executions)
  BY DEF TypeOK
<1>2. CASE e \in ToSet(order) /\ order' = Touch(order, e)
  <2>1. e \in Executions
    BY <1>1, <1>2 DEF ToSet
  <2> QED BY <1>1, <1>2, <2>1, TouchKeeps DEF IndexInv, ResolveExternalId
<1>3. CASE adapter = "cloudrun" /\ told[e] # Absent /\ UNCHANGED order
  BY <1>1, <1>3 DEF ResolveExternalId
<1> QED BY <1>2, <1>3 DEF ResolveExternalId

\* A step of caller c, who is told nothing but about what it works on.
LEMMA CallerMoves ==
    ASSUME JobsInv, NEW c \in Callers, NEW p, NEW a,
           pc' = [pc EXCEPT ![c] = p], at' = [at EXCEPT ![c] = a], UNCHANGED <<deployment, job>>,
           p # "launched",
           p # "idle" => a \in Executions /\ Started(a) /\ told'[a] # Absent,
           p \in {"snapshot", "delete"} => adapter = "kubernetes",
           \A e : told'[e] = told[e] \/ (pc[c] # "idle" /\ e = at[c] /\ told'[e] # Absent)
    PROVE  \A d \in Callers : ClientInv(d)'
<1> SUFFICES ASSUME NEW d \in Callers PROVE ClientInv(d)'
  OBVIOUS
<1>1. /\ pc \in [Callers -> {"idle", "launched", "read", "cancel", "resolve", "snapshot", "delete"}]
      /\ at \in [Callers -> Executions \union {None}]
  BY DEF JobsInv, TypeOK
<1>2. adapter' = adapter /\ \A e : Started(e)' = Started(e)
  BY DEF adapter, Started
<1>3. ClientInv(c) /\ ClientInv(d)
  BY DEF JobsInv
<1>4. CASE d = c
  <2>1. pc'[d] = p /\ at'[d] = a
    BY <1>1, <1>4
  <2>2. Started(at[d])' = (job'[a] # NoJob)
    BY <2>1 DEF Started
  <2> QED BY <1>2, <2>1, <2>2 DEF ClientInv, Started
<1>5. CASE d # c
  <2>1. pc'[d] = pc[d] /\ at'[d] = at[d]
    BY <1>1, <1>5
  <2>2. pc[d] = "launched" => told'[at[d]] = Absent
    BY <1>3, <1>5 DEF ClientInv
  <2>3. \A x \in Callers : pc'[x] = "launched" => pc[x] = "launched" /\ at'[x] = at[x]
    BY <1>1
  <2>4. pc[d] \notin {"idle", "launched"} => told'[at[d]] # Absent
    BY <1>3 DEF ClientInv
  <2> QED BY <1>2, <1>3, <2>1, <2>2, <2>3, <2>4 DEF ClientInv, Started
<1> QED BY <1>4, <1>5

\* Somebody is told s of job e.
LEMMA JobsTold ==
    ASSUME JobsInv, NEW e \in Executions, Started(e), NEW s, told' = [told EXCEPT ![e] = s],
           UNCHANGED <<deployment, job, task, fails, end>>,
           asked \subseteq asked', gone \subseteq gone',
           \A f \in Executions : f \in asked' \union gone' => Started(f),
           \A f \in Executions : f \in gone' => \/ f \in gone \/ end[f] # None
                                                \/ adapter = "kubernetes" /\ f \in asked',
           adapter = "kubernetes" => asked' \subseteq asked \union gone',
           ToldInv(e)'
    PROVE  \A f \in Executions : JobInv(f)' /\ ToldInv(f)'
<1> SUFFICES ASSUME NEW f \in Executions PROVE JobInv(f)' /\ ToldInv(f)'
  OBVIOUS
<1>1. JobInv(f) /\ ToldInv(f) /\ told \in [Executions -> State \union {Absent}]
  BY DEF JobsInv, TypeOK
<1>2. Started(f) \/ (f \notin asked' /\ f \notin gone')
  OBVIOUS
<1>3. told'[f] = told[f] \/ Started(f)
  BY <1>1
<1>4. JobInv(f)'
  BY <1>1, <1>2, <1>3, JobStays
<1>5. CASE f = e
  BY <1>4, <1>5
<1>6. CASE f # e
  <2>1. told'[f] = told[f]
    BY <1>1, <1>6
  <2> QED BY <1>1, <1>4, <2>1, ToldStays
<1> QED BY <1>5, <1>6

LEMMA Launches ==
    ASSUME JobsInv, NEW c \in Callers, NEW attempts \in Nat \ {0}, Launch(c, attempts),
           Enabled(spec.retry) \/ adapter = "kubernetes" => attempts = EngineAttempts(spec.retry)
    PROVE  JobsInv'
<1>1. PICK e \in Unused :
          /\ job' = [job EXCEPT ![e] = [attempts |-> attempts, deadline |-> spec.timeout]]
          /\ at' = [at EXCEPT ![c] = e]
  BY DEF Launch
<1>2. /\ pc[c] = "idle" /\ pc' = [pc EXCEPT ![c] = "launched"]
      /\ UNCHANGED <<deployment, order, jobNames, task, fails, end, asked, gone, told>>
  BY DEF Launch, index
<1>3. TypeOK /\ e \in Executions /\ ~ Started(e)
  BY Deployed DEF JobsInv, Unused
<1>4. /\ pc \in [Callers -> {"idle", "launched", "read", "cancel", "resolve", "snapshot", "delete"}]
      /\ at \in [Callers -> Executions \union {None}]
      /\ job \in [Executions -> [attempts : Nat, deadline : BOOLEAN]]
      /\ spec.timeout \in BOOLEAN
  BY <1>3, Deployed DEF TypeOK
<1>5. adapter' = adapter /\ Tasks' = Tasks /\ spec' = spec
  BY <1>2 DEF adapter, Tasks, spec
<1>6. job'[e].attempts = attempts /\ job'[e] # NoJob
  <2>1. job'[e] = [attempts |-> attempts, deadline |-> spec.timeout]
    BY <1>1, <1>3, <1>4
  <2>2. job'[e].attempts = attempts
    BY <2>1
  <2>3. NoJob.attempts = 0
    BY DEF NoJob
  <2> QED BY <2>2, <2>3
<1>7. \A f \in Executions \ {e} : job'[f] = job[f]
  BY <1>1, <1>4
<1>8. TypeOK'
  <2>1. /\ job' \in [Executions -> [attempts : Nat, deadline : BOOLEAN]]
        /\ pc' \in [Callers -> {"idle", "launched", "read", "cancel", "resolve", "snapshot", "delete"}]
        /\ at' \in [Callers -> Executions \union {None}]
    BY <1>1, <1>2, <1>3, <1>4
  <2> QED BY <1>2, <1>3, <1>5, <2>1 DEF TypeOK
<1>9. ASSUME NEW f \in Executions PROVE JobInv(f)' /\ ToldInv(f)'
  <2>1. JobInv(f) /\ ToldInv(f)
    BY DEF JobsInv
  <2>2. ToldInv(f)'
    BY <1>2, <2>1, ToldStays
  <2>3. CASE f = e
    <3>1. /\ f \notin asked /\ f \notin gone /\ end[f] = None
          /\ \A i \in Tasks : task[f][i] = "waiting" /\ fails[f][i] = 0
      BY <1>3, <2>1, <2>3 DEF JobInv
    <3>2. Started(f)'
      BY <1>6, <2>3 DEF Started
    <3> QED BY <1>2, <1>5, <1>6, <2>2, <2>3, <3>1, <3>2 DEF JobInv, None
  <2>4. CASE f # e
    <3>1. job'[f] = job[f]
      BY <1>7, <2>4
    <3>2. Started(f) \/ (f \notin asked /\ f \notin gone)
      BY <2>1 DEF JobInv
    <3> QED BY <1>2, <2>1, <2>2, <3>1, <3>2, JobStays
  <2> QED BY <2>3, <2>4
<1>10. ASSUME NEW d \in Callers PROVE ClientInv(d)'
  <2>1. ClientInv(d) /\ JobInv(e)
    BY <1>3 DEF JobsInv
  <2>2. told[e] = Absent
    BY <1>3, <2>1 DEF JobInv
  <2>3. \A x \in Callers \ {c} : /\ pc'[x] = pc[x] /\ at'[x] = at[x]
                                 /\ pc[x] # "idle" => at[x] \in Executions /\ at[x] # e
    BY <1>1, <1>2, <1>3, <1>4 DEF JobsInv, ClientInv
  <2>4. pc'[c] = "launched" /\ at'[c] = e
    BY <1>1, <1>2, <1>4
  <2>5. CASE d = c
    BY <1>2, <1>3, <1>6, <2>2, <2>3, <2>4, <2>5 DEF ClientInv, Started
  <2>6. CASE d # c
    <3>1. pc[d] # "idle" => job'[at[d]] # NoJob
      BY <1>7, <2>1, <2>3, <2>6 DEF ClientInv, Started
    <3> QED BY <1>2, <1>5, <2>1, <2>3, <2>4, <2>6, <3>1 DEF ClientInv, Started
  <2> QED BY <2>5, <2>6
<1>11. IndexInv'
  BY <1>2 DEF JobsInv, IndexInv
<1> QED BY <1>8, <1>9, <1>10, <1>11 DEF JobsInv

LEMMA SubmitStep ==
    ASSUME JobsInv, NEW c \in Callers,
           CloudRunSubmit(c) \/ KubernetesSubmit(c) \/ BatchSubmit(c) \/ AzureSubmit(c)
    PROVE  JobsInv'
<1>1. EngineAttempts(spec.retry) \in Nat \ {0} /\ DefaultAttempts \in Nat \ {0}
  BY Deployed, CloudJobsAssumption DEF JobsInv
<1>2. CASE CloudRunSubmit(c)
  <2> DEFINE n == 1 + Overrides(spec).max_retries
  <2>1. n = IF Enabled(spec.retry) THEN EngineAttempts(spec.retry) ELSE DefaultAttempts
    BY <1>1 DEF Overrides
  <2>2. adapter = "cloudrun" /\ Launch(c, n)
    BY <1>2 DEF CloudRunSubmit
  <2> HIDE DEF n
  <2> QED BY <1>1, <2>1, <2>2, Launches
<1>3. CASE KubernetesSubmit(c)
  <2> DEFINE n == 1 + BuildManifest(spec).backoffLimit
  <2>1. n = EngineAttempts(spec.retry)
    BY <1>1 DEF BuildManifest
  <2>2. Launch(c, n)
    BY <1>3 DEF KubernetesSubmit
  <2> HIDE DEF n
  <2> QED BY <1>1, <2>1, <2>2, Launches
<1>4. CASE BatchSubmit(c)
  <2> DEFINE n == BatchRequest(spec).attempts
  <2>1. n = IF Enabled(spec.retry) THEN EngineAttempts(spec.retry) ELSE DefaultAttempts
    BY DEF BatchRequest
  <2>2. adapter = "batch" /\ Launch(c, n)
    BY <1>4 DEF BatchSubmit
  <2> HIDE DEF n
  <2> QED BY <1>1, <2>1, <2>2, Launches
<1>5. CASE AzureSubmit(c)
  <2> DEFINE n == 1 + BuildTemplate(spec).replicaRetryLimit
  <2>1. n = IF Enabled(spec.retry) THEN EngineAttempts(spec.retry) ELSE DefaultAttempts
    BY <1>1 DEF BuildTemplate
  <2>2. adapter = "containerapps" /\ Launch(c, n)
    BY <1>5 DEF AzureSubmit
  <2> HIDE DEF n
  <2> QED BY <1>1, <2>1, <2>2, Launches
<1> QED BY <1>2, <1>3, <1>4, <1>5

\* A step of caller c that leaves every job, and what is told of it, alone.
LEMMA CallerSteps ==
    ASSUME JobsInv, NEW c \in Callers,
           NEW p \in {"idle", "read", "cancel", "resolve", "snapshot", "delete"},
           NEW a \in Executions \union {None},
           pc' = [pc EXCEPT ![c] = p], at' = [at EXCEPT ![c] = a],
           UNCHANGED <<deployment, engine, told, jobNames>>,
           order' \in Seq(Executions), ToSet(order') \subseteq ToSet(order),
           p # "idle" => a \in Executions /\ told[a] # Absent,
           p \in {"snapshot", "delete"} => adapter = "kubernetes"
    PROVE  JobsInv'
<1>1. UNCHANGED <<job, task, fails, end, asked, gone>>
  BY DEF engine, work
<1>2. \A e \in Executions : JobInv(e)
  BY DEF JobsInv
<1>3. \A e \in Executions : JobInv(e)' /\ ToldInv(e)'
  <2>1. \A e \in Executions : e \in asked' \union gone' => Started(e)
    BY <1>1, <1>2 DEF JobInv
  <2>2. \A e \in Executions : e \in gone' => \/ e \in gone \/ end[e] # None
                                             \/ adapter = "kubernetes" /\ e \in asked'
    BY <1>1
  <2> QED BY <1>1, <2>1, <2>2, JobsRest
<1>4. p # "idle" => Started(a)
  BY <1>2 DEF JobInv
<1>5. \A d \in Callers : ClientInv(d)'
  BY <1>1, <1>4, CallerMoves
<1>6. TypeOK'
  <2>1. /\ pc' \in [Callers -> {"idle", "launched", "read", "cancel", "resolve", "snapshot", "delete"}]
        /\ at' \in [Callers -> Executions \union {None}]
    BY DEF JobsInv, TypeOK
  <2> QED BY <1>1, <2>1 DEF JobsInv, TypeOK, Tasks, spec
<1>7. IndexInv'
  BY DEF JobsInv, IndexInv
<1> QED BY <1>3, <1>5, <1>6, <1>7 DEF JobsInv

\* get, cancel, and the calls that fail.
LEMMA Resolves ==
    ASSUME JobsInv, NEW c \in Callers, NEW e \in Executions, Get(c, e) \/ Cancel(c, e)
    PROVE  JobsInv'
<1>1. PICK p \in {"read", "cancel", "snapshot"} :
          /\ pc' = [pc EXCEPT ![c] = p]
          /\ p = "snapshot" => adapter = "kubernetes"
  BY DEF Get, Cancel
<1>2. /\ ResolveExternalId(e) /\ at' = [at EXCEPT ![c] = e]
      /\ UNCHANGED <<deployment, engine, told>>
  BY DEF Get, Cancel
<1>3. /\ order' \in Seq(Executions) /\ ToSet(order') \subseteq ToSet(order)
      /\ told[e] # Absent /\ jobNames' = jobNames
  BY <1>2, ResolveKeeps DEF JobsInv
<1> QED BY <1>1, <1>2, <1>3, CallerSteps

LEMMA Fails ==
    ASSUME JobsInv, NEW c \in Callers, Return(c), UNCHANGED <<deployment, index, engine, told>>
    PROVE  JobsInv'
<1>1. order' = order /\ jobNames' = jobNames /\ order \in Seq(Executions)
  BY DEF index, JobsInv, TypeOK
<1> QED BY <1>1, CallerSteps DEF Return

LEMMA ResolvesAgain ==
    ASSUME JobsInv, NEW c \in Callers, ResolveAgain(c)
    PROVE  JobsInv'
<1>1. CASE Return(c) /\ UNCHANGED index
  BY <1>1, Fails DEF ResolveAgain
<1>2. CASE ResolveExternalId(at[c]) /\ pc' = [pc EXCEPT ![c] = "read"] /\ UNCHANGED at
  <2>1. pc[c] = "resolve" /\ UNCHANGED <<deployment, engine, told>>
    BY DEF ResolveAgain
  <2>2. at[c] \in Executions
    BY <2>1 DEF JobsInv, ClientInv
  <2>3. /\ order' \in Seq(Executions) /\ ToSet(order') \subseteq ToSet(order)
        /\ told[at[c]] # Absent /\ jobNames' = jobNames
    BY <1>2, ResolveKeeps DEF JobsInv
  <2>4. at' = [at EXCEPT ![c] = at[c]]
    BY <1>2 DEF JobsInv, TypeOK
  <2> QED BY <1>2, <2>1, <2>2, <2>3, <2>4, CallerSteps
<1> QED BY <1>1, <1>2 DEF ResolveAgain

LEMMA Snaps ==
    ASSUME JobsInv, NEW c \in Callers, Snapshot(c)
    PROVE  JobsInv'
<1>1. /\ pc[c] = "snapshot" /\ pc' = [pc EXCEPT ![c] = "delete"] /\ at' = at
      /\ UNCHANGED <<deployment, engine, told>> /\ ResolveExternalId(at[c])
  BY DEF Snapshot
<1>2. at[c] \in Executions /\ adapter = "kubernetes"
  BY <1>1 DEF JobsInv, ClientInv
<1>3. at' = [at EXCEPT ![c] = at[c]]
  BY <1>1 DEF JobsInv, TypeOK
<1>4. /\ order' \in Seq(Executions) /\ ToSet(order') \subseteq ToSet(order)
      /\ told[at[c]] # Absent /\ jobNames' = jobNames
  BY <1>1, ResolveKeeps DEF JobsInv
<1> QED BY <1>1, <1>2, <1>3, <1>4, CallerSteps

\* A request to end a job, which the engine accepts.
LEMMA Asks ==
    ASSUME JobsInv, NEW c \in Callers, Ask(c), adapter # "kubernetes"
    PROVE  JobsInv'
<1> DEFINE e == at[c]
<1>1. /\ pc[c] = "cancel" /\ pc' = [pc EXCEPT ![c] = "resolve"] /\ asked' = asked \union {e}
      /\ UNCHANGED <<deployment, order, jobNames, job, task, fails, end, gone, told, at>>
  BY DEF Ask, index, work
<1>2. e \in Executions /\ Started(e) /\ told[e] # Absent
  BY <1>1 DEF JobsInv, ClientInv
<1> HIDE DEF e
<1>3. \A f \in Executions : JobInv(f)' /\ ToldInv(f)'
  <2>1. \A f \in Executions : f \in asked' \union gone' => Started(f)
    BY <1>1, <1>2 DEF JobsInv, JobInv
  <2> QED BY <1>1, <2>1, JobsRest
<1>4. at' = [at EXCEPT ![c] = e]
  BY <1>1 DEF JobsInv, TypeOK, e
<1>5. \A d \in Callers : ClientInv(d)'
  BY <1>1, <1>2, <1>4, CallerMoves
<1>6. TypeOK'
  <2>1. pc' \in [Callers -> {"idle", "launched", "read", "cancel", "resolve", "snapshot", "delete"}]
    BY <1>1 DEF JobsInv, TypeOK
  <2> QED BY <1>1, <1>2, <2>1 DEF JobsInv, TypeOK, Tasks, spec
<1>7. IndexInv'
  BY <1>1 DEF JobsInv, IndexInv
<1> QED BY <1>3, <1>5, <1>6, <1>7 DEF JobsInv

\* Caller c is told s of the job it works on, and is done with it.
LEMMA Tells ==
    ASSUME JobsInv, NEW c \in Callers, pc[c] # "idle", NEW e \in Executions, e = at[c],
           NEW s \in State, Tell(e, s), Return(c),
           UNCHANGED <<deployment, job, task, fails, end>>,
           asked' \in SUBSET Executions, gone' \in SUBSET Executions,
           asked \subseteq asked', gone \subseteq gone',
           \A f \in Executions : f \in asked' \union gone' => Started(f),
           \A f \in Executions : f \in gone' => \/ f \in gone \/ end[f] # None
                                                \/ adapter = "kubernetes" /\ f \in asked',
           adapter = "kubernetes" => asked' \subseteq asked \union gone',
           ToldInv(e)',
           order' \in Seq(Executions), ToSet(order') \subseteq ToSet(order) \union {e},
           jobNames' \subseteq Executions
    PROVE  JobsInv'
<1>1. Started(e) /\ ClientInv(c)
  BY DEF JobsInv, ClientInv
<1>2. told \in [Executions -> State \union {Absent}] /\ told' = [told EXCEPT ![e] = s]
  BY DEF JobsInv, TypeOK, Tell
<1>3. s # Absent
  BY DEF State, Absent
<1>4. \A f \in Executions : JobInv(f)' /\ ToldInv(f)'
  BY <1>1, <1>2, JobsTold
<1>5. \A f : told'[f] = told[f] \/ (f = e /\ told'[f] # Absent)
  BY <1>1, <1>2, <1>3
<1>6. \A d \in Callers : ClientInv(d)'
  BY <1>5, CallerMoves DEF Return
<1>7. TypeOK'
  <2>1. /\ pc' \in [Callers -> {"idle", "launched", "read", "cancel", "resolve", "snapshot", "delete"}]
        /\ at' \in [Callers -> Executions \union {None}]
        /\ told' \in [Executions -> State \union {Absent}]
    BY <1>1, <1>2 DEF JobsInv, TypeOK, Return
  <2> QED BY <2>1 DEF JobsInv, TypeOK, Tasks, spec
<1>8. IndexInv'
  <2>1. \A f \in ToSet(order') : f \in ToSet(order) \/ f = e
    OBVIOUS
  <2>2. told'[e] # Absent
    BY <1>1, <1>2, <1>3
  <2> QED BY <1>5, <2>1, <2>2 DEF JobsInv, IndexInv
<1> QED BY <1>4, <1>6, <1>7, <1>8 DEF JobsInv

\* The jobs that are asked to end, or deleted, have been started.
LEMMA AskedStarted ==
    ASSUME JobsInv
    PROVE  \A f \in Executions : f \in asked \union gone => Started(f)
BY DEF JobsInv, JobInv

LEMMA Remembers ==
    ASSUME JobsInv, NEW c \in Callers, Remembered(c)
    PROVE  JobsInv'
<1>0. PICK e : e = at[c]
  OBVIOUS
<1>1. /\ pc[c] = "launched" /\ Tell(e, "queued") /\ Return(c)
      /\ UNCHANGED <<deployment, job, task, fails, end, asked, gone>>
      /\ jobNames' = IF adapter = "containerapps" THEN jobNames \union {e} ELSE jobNames
      /\ order' = Remember(order, e, deployment.tracked_ids) \/ order' = order
  BY <1>0 DEF Remembered, engine, work
<1>2. /\ e \in Executions /\ order \in Seq(Executions) /\ jobNames \subseteq Executions
      /\ asked \in SUBSET Executions /\ gone \in SUBSET Executions
      /\ told \in [Executions -> State \union {Absent}] /\ deployment.tracked_ids \in Nat
  BY <1>0, <1>1, Deployed DEF JobsInv, ClientInv, TypeOK
<1>3. order' \in Seq(Executions) /\ ToSet(order') \subseteq ToSet(order) \union {e}
  <2>1. /\ Remember(order, e, deployment.tracked_ids) \in Seq(Executions)
        /\ ToSet(Remember(order, e, deployment.tracked_ids)) \subseteq ToSet(order) \union {e}
    BY <1>2, RememberKeeps
  <2> QED BY <1>1, <1>2, <2>1
<1>4. ToldInv(e)'
  <2>1. told'[e] = "queued"
    BY <1>1, <1>2 DEF Tell
  <2> QED BY <2>1 DEF ToldInv, Terminal
<1>5. "queued" \in State
  BY DEF State
<1> QED BY <1>0, <1>1, <1>2, <1>3, <1>4, <1>5, AskedStarted, Tells

\* What the adapters report is one of the states.
LEMMA MappedIsAState ==
    ASSUME TypeOK, NEW e \in Executions, JobInv(e)
    PROVE  Mapped(e) \in State
<1>1. adapter \in Adapters
  BY Deployed
<1> QED BY <1>1, KubernetesSays, CloudRunSays, BatchSays, AzureSays DEF Adapters, State

\* What an engine may answer: the state of the job, or on Azure, before the end,
\* less than that.
Says(e, s) ==
    \/ s = Mapped(e)
    \/ adapter = "containerapps" /\ end[e] = None /\ s \in {"running", "unknown"}

LEMMA AzureAnswers ==
    ASSUME NEW c \in Callers, AzureRead(c)
    PROVE  \E s : Says(at[c], s) /\ Report(c, s)
<1>1. adapter = "containerapps"
  BY DEF AzureRead
<1>2. PICK a \in AzureStatuses(at[c]) : Report(c, StateMap[a])
  BY DEF AzureRead
<1>3. Says(at[c], StateMap[a])
  <2>1. CASE a = AzureStatus(at[c])
    BY <1>1, <2>1 DEF Says, Mapped
  <2>2. CASE a \in {"Degraded", "Unknown"} /\ end[at[c]] = None
    <3>1. StateMap[a] \in {"running", "unknown"}
      BY <2>2 DEF StateMap
    <3> QED BY <1>1, <2>2, <3>1 DEF Says
  <2> QED BY <1>2, <2>1, <2>2 DEF AzureStatuses
<1> QED BY <1>2, <1>3

\* The engine is read for caller c.
LEMMA Reads ==
    ASSUME JobsInv, NEW c \in Callers,
           CloudRunRead(c) \/ KubernetesRead(c) \/ BatchRead(c) \/ AzureRead(c)
    PROVE  /\ JobsInv'
           /\ \E s : Says(at[c], s) /\ Report(c, s)
<1>0. PICK e : e = at[c]
  OBVIOUS
<1>1. \E s : Says(e, s) /\ Report(c, s)
  <2>1. CASE AzureRead(c)
    BY <1>0, <2>1, AzureAnswers
  <2>2. CASE CloudRunRead(c) \/ KubernetesRead(c) \/ BatchRead(c)
    <3>1. Report(c, Mapped(e))
      BY <1>0, <2>2 DEF CloudRunRead, KubernetesRead, BatchRead, Mapped
    <3> QED BY <3>1 DEF Says
  <2> QED BY <2>1, <2>2
<1>8. PICK s : Says(e, s) /\ Report(c, s)
  BY <1>1
<1>2. /\ pc[c] = "read" /\ Tell(e, s) /\ Return(c)
      /\ UNCHANGED <<deployment, order, jobNames, job, task, fails, end, asked, gone>>
  BY <1>0, <1>8 DEF Report, index, engine, work
<1>3. /\ e \in Executions /\ order \in Seq(Executions) /\ jobNames \subseteq Executions
      /\ asked \in SUBSET Executions /\ gone \in SUBSET Executions
      /\ told \in [Executions -> State \union {Absent}] /\ TypeOK
  BY <1>0, <1>2 DEF JobsInv, ClientInv, TypeOK
<1>4. JobInv(e)
  BY <1>3 DEF JobsInv
<1>5. ToldInv(e)'
  <2>1. told'[e] = s
    BY <1>2, <1>3 DEF Tell
  <2>2. adapter' = adapter /\ Tasks' = Tasks /\ Mapped(e)' = Mapped(e)
    <3>1. task'[e] = task[e] /\ fails'[e] = fails[e] /\ end'[e] = end[e]
      BY <1>2
    <3> QED BY <1>2, <3>1, MappedStays DEF adapter, Tasks, spec
  <2>3. CASE adapter # "kubernetes"
    <3>1. s = Mapped(e) \/ s \notin Terminal
      BY <1>8 DEF Says, Terminal
    <3> QED BY <2>1, <2>2, <2>3, <3>1 DEF ToldInv
  <2>4. CASE adapter = "kubernetes"
    <3>1. /\ Mapped(e) # "cancelled"
          /\ Mapped(e) = "succeeded" => \A i \in Tasks : task[e][i] = "ok"
          /\ Mapped(e) = "failed" => \E i \in Tasks : fails[e][i] > 0
          /\ Mapped(e) = "timed_out" => end[e] = "deadline" /\ \E i \in Tasks : fails[e][i] > 0
      BY <1>3, <1>4, <2>4, KubernetesSays
    <3>2. s = Mapped(e)
      BY <1>8, <2>4 DEF Says
    <3> QED BY <1>2, <2>1, <2>2, <2>4, <3>1, <3>2 DEF ToldInv
  <2> QED BY <2>3, <2>4
<1>6. s \in State
  <2>1. Mapped(e) \in State
    BY <1>3, <1>4, MappedIsAState
  <2> QED BY <1>8, <2>1 DEF Says, State
<1>7. JobsInv'
  BY <1>0, <1>2, <1>3, <1>5, <1>6, AskedStarted, Tells
<1> QED BY <1>0, <1>1, <1>7

LEMMA Deletes ==
    ASSUME JobsInv, NEW c \in Callers, DeleteJob(c)
    PROVE  JobsInv'
<1>0. PICK e : e = at[c]
  OBVIOUS
<1>1. /\ pc[c] = "delete" /\ Tell(e, "cancelled") /\ Return(c)
      /\ gone' = gone \union {e} /\ asked' = asked \union {e}
      /\ UNCHANGED <<deployment, order, jobNames, job, task, fails, end>>
  BY <1>0 DEF DeleteJob, index, work
<1>2. /\ e \in Executions /\ order \in Seq(Executions) /\ jobNames \subseteq Executions
      /\ asked \in SUBSET Executions /\ gone \in SUBSET Executions
      /\ told \in [Executions -> State \union {Absent}]
      /\ adapter = "kubernetes" /\ Started(e)
  BY <1>0, <1>1 DEF JobsInv, ClientInv, TypeOK
<1>3. ToldInv(e)'
  <2>1. told'[e] = "cancelled"
    BY <1>1, <1>2 DEF Tell
  <2>2. adapter' = "kubernetes" /\ e \in gone' /\ e \in asked'
    BY <1>1, <1>2 DEF adapter
  <2> QED BY <2>1, <2>2 DEF ToldInv
<1>4. "cancelled" \in State
  BY DEF State
<1>5. \A f \in Executions : f \in asked' \union gone' => Started(f)
  BY <1>1, <1>2, AskedStarted
<1> QED BY <1>0, <1>1, <1>2, <1>3, <1>4, <1>5, Tells

LEMMA Restarts ==
    ASSUME JobsInv, Restart
    PROVE  JobsInv'
<1>1. /\ order' = <<>> /\ jobNames' = {}
      /\ pc' = [c \in Callers |-> "idle"] /\ at' = [c \in Callers |-> None]
      /\ UNCHANGED <<deployment, job, task, fails, end, asked, gone, told>>
  BY DEF Restart, engine, work
<1>2. \A e \in Executions : JobInv(e)' /\ ToldInv(e)'
  <2>1. \A e \in Executions : e \in asked' \union gone' => Started(e)
    BY <1>1, AskedStarted
  <2> QED BY <1>1, <2>1, JobsRest
<1>3. \A c \in Callers : ClientInv(c)'
  BY <1>1 DEF ClientInv
<1>4. TypeOK'
  <2>1. order' \in Seq(Executions)
    BY <1>1
  <2> QED BY <1>1, <2>1 DEF JobsInv, TypeOK, Tasks, spec
<1>5. IndexInv'
  BY <1>1 DEF IndexInv, ToSet
<1> QED BY <1>2, <1>3, <1>4, <1>5 DEF JobsInv

\* A step that moves nothing but the index, which the reader of a log does.
LEMMA IndexMoves ==
    ASSUME JobsInv, UNCHANGED <<deployment, engine, told, pc, at, jobNames>>,
           order' \in Seq(Executions), ToSet(order') \subseteq ToSet(order)
    PROVE  JobsInv'
<1>1. UNCHANGED <<job, task, fails, end, asked, gone>>
  BY DEF engine, work
<1>2. \A e \in Executions : JobInv(e)' /\ ToldInv(e)'
  <2>1. \A e \in Executions : e \in asked' \union gone' => Started(e)
    BY <1>1, AskedStarted
  <2> QED BY <1>1, <2>1, JobsRest
<1>3. ASSUME NEW c \in Callers PROVE ClientInv(c)'
  <2>1. ClientInv(c)
    BY DEF JobsInv
  <2> QED BY <1>1, <2>1 DEF ClientInv, Started, adapter
<1>4. TypeOK'
  BY <1>1 DEF JobsInv, TypeOK, Tasks, spec
<1>5. IndexInv'
  BY DEF JobsInv, IndexInv
<1> QED BY <1>2, <1>3, <1>4, <1>5 DEF JobsInv

-----------------------------------------------------------------------------
LEMMA CallStep ==
    ASSUME JobsInv, NEW c \in Callers, Call(c)
    PROVE  JobsInv'
<1>1. CASE CloudRunSubmit(c) \/ KubernetesSubmit(c) \/ BatchSubmit(c) \/ AzureSubmit(c)
  BY <1>1, SubmitStep
<1>2. CASE \E e \in Executions : Get(c, e) \/ Cancel(c, e)
  BY <1>2, Resolves
<1>3. CASE Remembered(c)
  BY <1>3, Remembers
<1>4. CASE AnswerLost(c) \/ Raise(c)
  BY <1>4, Fails DEF AnswerLost, Raise
<1>5. CASE CloudRunRead(c) \/ KubernetesRead(c) \/ BatchRead(c) \/ AzureRead(c)
  BY <1>5, Reads
<1>6. CASE CancelExecution(c) \/ TerminateJob(c) \/ StopExecution(c)
  BY <1>6, Asks DEF CancelExecution, TerminateJob, StopExecution
<1>7. CASE ResolveAgain(c)
  BY <1>7, ResolvesAgain
<1>8. CASE Snapshot(c)
  BY <1>8, Snaps
<1>9. CASE DeleteJob(c)
  BY <1>9, Deletes
<1> QED BY <1>1, <1>2, <1>3, <1>4, <1>5, <1>6, <1>7, <1>8, <1>9 DEF Call

\* The reader of a log moves nothing of the jobs but the index.
LEMMA ReaderStep ==
    ASSUME JobsInv,
           \/ \E e \in Executions : Write(e) \/ \E f \in BOOLEAN : StreamLogs(e, f)
           \/ \E k \in Entries : Ingest(k)
           \/ Advance \/ PageFails \/ CheckFails \/ TimeOut
    PROVE  /\ UNCHANGED <<deployment, engine, told, pc, at, jobNames>>
           /\ order' \in Seq(Executions) /\ ToSet(order') \subseteq ToSet(order)
<1> DEFINE Quiet == /\ UNCHANGED <<deployment, engine, told, pc, at, jobNames>>
                    /\ order' \in Seq(Executions) /\ ToSet(order') \subseteq ToSet(order)
<1>1. UNCHANGED vars => Quiet
  BY DEF vars, index, engine, work, JobsInv, TypeOK
<1>2. /\ UNCHANGED <<deployment, engine, told, pc, at>>
      /\ UNCHANGED index \/ (\E e : ResolveExternalId(e))
      => Quiet
  BY ResolveKeeps DEF index, JobsInv, TypeOK
<1> HIDE DEF Quiet
<1>3. CASE \E e \in Executions : Write(e) \/ \E f \in BOOLEAN : StreamLogs(e, f)
  BY <1>1, <1>2, <1>3 DEF Write, StreamLogs, Quiet
<1>4. CASE (\E k \in Entries : Ingest(k)) \/ PageFails \/ CheckFails \/ TimeOut
  BY <1>1, <1>4 DEF Ingest, PageFails, CheckFails, TimeOut, Quiet
<1>5. CASE AwaitPod \/ CloudRunPage \/ BatchPage \/ PodLines \/ Yield
  BY <1>1, <1>5 DEF AwaitPod, CloudRunPage, BatchPage, PodLines, Yield, Answer, Quiet
<1>6. CASE AwaitLogStream
  BY <1>2, <1>6 DEF AwaitLogStream, Describe, Quiet
<1>7. CASE Check
  BY <1>2, <1>7 DEF Check, Describe, Quiet
<1> QED BY <1>3, <1>4, <1>5, <1>6, <1>7 DEF Advance

LEMMA JobsStart ==
    ASSUME Init
    PROVE  JobsInv
<1>1. TypeOK
  <2>1. NoJob \in [attempts : Nat, deadline : BOOLEAN]
    BY DEF NoJob
  <2>2. order \in Seq(Executions)
    BY DEF Init
  <2> QED BY <2>1, <2>2 DEF Init, TypeOK, None
<1>2. ASSUME NEW e \in Executions PROVE JobInv(e) /\ ToldInv(e)
  <2>1. ~ Started(e) /\ job[e] = NoJob /\ NoJob.attempts = 0
    BY DEF Init, Started, NoJob
  <2>2. /\ \A i \in Tasks : task[e][i] = "waiting" /\ fails[e][i] = 0
        /\ end[e] = None /\ told[e] = Absent /\ asked = {} /\ gone = {}
    BY DEF Init
  <2> QED BY <2>1, <2>2 DEF JobInv, ToldInv, Terminal, Absent, None
<1>3. \A c \in Callers : ClientInv(c)
  BY DEF Init, ClientInv
<1>4. IndexInv
  BY DEF Init, IndexInv, ToSet
<1> QED BY <1>1, <1>2, <1>3, <1>4 DEF JobsInv

LEMMA JobsStep ==
    ASSUME JobsInv, [TailNext]_tailVars
    PROVE  JobsInv'
<1>1. CASE Engine
  <2>1. PICK e \in Executions : \/ \E i \in Tasks : TaskStep(e, i)
                                \/ Finish(e) \/ Deadline(e) \/ Expire(e)
    BY <1>1 DEF Engine
  <2> QED BY <2>1, TaskMoves, JobFinishes, JobTimesOut, JobExpires
<1>2. CASE Work
  <2>1. PICK c \in deployment.callers : Call(c)
    BY <1>2 DEF Work
  <2>2. c \in Callers
    BY Deployed DEF JobsInv
  <2> QED BY <2>1, <2>2, CallStep
<1>3. CASE KillTail
  BY <1>3, Restarts DEF KillTail
<1>4. CASE \/ \E e \in Executions : Write(e) \/ \E f \in BOOLEAN : StreamLogs(e, f)
           \/ \E k \in Entries : Ingest(k)
           \/ Advance \/ PageFails \/ CheckFails \/ TimeOut
  BY <1>4, ReaderStep, IndexMoves
<1>5. CASE UNCHANGED tailVars
  <2>1. UNCHANGED <<deployment, engine, told, pc, at, order, jobNames>>
    BY <1>5 DEF tailVars, vars, index, engine, work
  <2> QED BY <2>1, IndexMoves DEF JobsInv, TypeOK
<1> QED BY <1>1, <1>2, <1>3, <1>4, <1>5 DEF TailNext

LEMMA JobsInvariant == TailSpec => []JobsInv
<1>1. TailInit => JobsInv
  BY JobsStart DEF TailInit
<1>2. JobsInv /\ [TailNext]_tailVars => JobsInv'
  BY JobsStep
<1> QED BY <1>1, <1>2, PTL DEF TailSpec

-----------------------------------------------------------------------------
\* Every reachable state of the jobs, of the index and of the callers is of its type.
THEOREM TypeCorrect == TailSpec => []TypeOK
<1>1. JobsInv => TypeOK
  BY DEF JobsInv
<1> QED BY <1>1, JobsInvariant, PTL

LEMMA ReportsTrue ==
    ASSUME JobsInv
    PROVE  ReportIsTrue
<1> SUFFICES
        ASSUME NEW e \in Executions
        PROVE  /\ told[e] = "succeeded" => InState(e, "ok") = Tasks
               /\ told[e] = "failed" => \/ FailedRuns(e) > 0
                                        \/ end[e] = "deadline"
                                        \/ adapter = "batch" /\ e \in asked
               /\ told[e] = "timed_out" => end[e] = "deadline"
               /\ told[e] = "cancelled" => e \in asked
               /\ end[e] # None =>
                      \/ Mapped(e) \in Terminal
                      \/ adapter = "kubernetes" /\ end[e] = "deadline" /\ FailedRuns(e) = 0
  BY DEF ReportIsTrue
<1>1. TypeOK /\ JobInv(e) /\ ToldInv(e)
  BY DEF JobsInv
<1>2. adapter \in Adapters
  BY <1>1, Deployed
<1>3. /\ FailedRuns(e) \in Nat
      /\ FailedRuns(e) > 0 <=> \E i \in Tasks : fails[e][i] > 0
  BY <1>1, FailuresCounted DEF JobInv
<1>4. InState(e, "ok") = Tasks <=> \A i \in Tasks : task[e][i] = "ok"
  BY DEF InState
<1>5. CASE adapter = "cloudrun"
  <2>1. \A i \in Tasks : task[e][i] = "stopped" => e \in asked
    BY <1>1 DEF JobInv
  <2> QED BY <1>1, <1>3, <1>4, <1>5, <2>1, CloudRunSays DEF ToldInv, Terminal
<1>6. CASE adapter = "batch"
  <2>1. /\ end[e] = "succeeded" => \A i \in Tasks : task[e][i] = "ok"
        /\ end[e] = "failed" => \E i \in Tasks : fails[e][i] > 0
        /\ end[e] = "stopped" => e \in asked
    BY <1>1 DEF JobInv
  <2>2. end[e] \in {None, "succeeded", "failed", "deadline", "stopped"}
    BY <1>1 DEF TypeOK
  <2>3. told[e] \in Terminal => Mapped(e) = told[e]
    BY <1>1, <1>6 DEF ToldInv
  <2>4. /\ Mapped(e) \in {"succeeded", "timed_out", "failed", "running", "queued"}
        /\ Mapped(e) = "succeeded" <=> end[e] = "succeeded"
        /\ Mapped(e) = "timed_out" => end[e] = "deadline"
        /\ Mapped(e) \in Terminal <=> end[e] # None
    BY <1>1, <1>6, BatchSays
  <2> QED BY <1>3, <1>4, <1>6, <2>1, <2>2, <2>3, <2>4 DEF Terminal
<1>7. CASE adapter = "containerapps"
  <2>1. /\ end[e] = "succeeded" => \A i \in Tasks : task[e][i] = "ok"
        /\ end[e] = "failed" => \E i \in Tasks : fails[e][i] > 0
        /\ end[e] = "stopped" => e \in asked
    BY <1>1 DEF JobInv
  <2> QED BY <1>1, <1>3, <1>4, <1>7, <2>1, AzureSays DEF ToldInv, Terminal
<1>8. CASE adapter = "kubernetes"
  <2>1. /\ told[e] = "succeeded" => \A i \in Tasks : task[e][i] = "ok"
        /\ told[e] = "failed" => \E i \in Tasks : fails[e][i] > 0
        /\ told[e] = "timed_out" => end[e] = "deadline"
        /\ told[e] = "cancelled" => e \in asked
    BY <1>1, <1>8 DEF ToldInv
  <2>2. end[e] # None /\ ~ (end[e] = "deadline" /\ FailedRuns(e) = 0) => Mapped(e) \in Terminal
    <3>1. end[e] \in {None, "succeeded", "failed", "deadline"}
      BY <1>1, <1>8 DEF TypeOK, JobInv
    <3>2. end[e] = "succeeded" => Mapped(e) = "succeeded"
      BY <1>1, <1>8, KubernetesSays DEF JobInv
    <3>3. end[e] = "deadline" /\ FailedRuns(e) # 0 => Mapped(e) = "timed_out"
      BY <1>1, <1>3, <1>8, KubernetesSays
    <3>4. end[e] = "failed" => Mapped(e) = "failed"
      <4> SUFFICES ASSUME end[e] = "failed" PROVE Mapped(e) = "failed"
        OBVIOUS
      <4>1. PICK i \in Tasks : task[e][i] = "lost"
        BY <1>1 DEF JobInv
      <4>2. FailedRuns(e) > 0
        BY <1>1, <1>3, <4>1 DEF JobInv
      <4>3. Started(e)
        BY <1>1 DEF JobInv, None
      <4>4. InState(e, "active") = {}
        BY <1>1, <4>3 DEF JobInv, InState, None
      <4>5. InState(e, "ok") # Tasks
        BY <1>4, <4>1
      <4> QED BY <1>8, <4>2, <4>4, <4>5 DEF Mapped, MapJobState
    <3> QED BY <3>1, <3>2, <3>3, <3>4 DEF Terminal
  <2> QED BY <1>3, <1>4, <1>8, <2>1, <2>2
<1> QED BY <1>2, <1>5, <1>6, <1>7, <1>8 DEF Adapters

\* What a caller is told of the end of a job is so, on every engine: SUCCEEDED
\* is said only when all tasks have succeeded, FAILED when a run has failed,
\* CANCELLED when somebody asked; and a job that has ended is reported as ended.
THEOREM ReportsCorrect == TailSpec => []ReportIsTrue
<1>1. JobsInv => ReportIsTrue
  BY ReportsTrue
<1> QED BY <1>1, JobsInvariant, PTL

\* No task is run more often than the policy of its spec grants the engine,
\* whatever max_retries, backoffLimit, attempts and replicaRetryLimit count.
THEOREM AttemptsCorrect == TailSpec => []AttemptsWithinPolicy
<1>1. ASSUME JobsInv PROVE AttemptsWithinPolicy
  <2>1. ASSUME NEW e \in Executions, Started(e), Enabled(spec.retry) \/ adapter = "kubernetes",
               NEW i \in Tasks
        PROVE  fails[e][i] <= EngineAttempts(spec.retry)
    <3>1. JobInv(e)
      BY <1>1 DEF JobsInv
    <3>2. job[e].attempts = EngineAttempts(spec.retry) /\ fails[e][i] <= job[e].attempts
      BY <2>1, <3>1 DEF JobInv
    <3> QED BY <3>2
  <2> QED BY <2>1 DEF AttemptsWithinPolicy
<1> QED BY <1>1, JobsInvariant, PTL

\* What one call may do to what has been told.
LEMMA CallTells ==
    ASSUME JobsInv, NEW c \in Callers, Call(c), NEW e \in Executions,
           told[e] \in Terminal, told'[e] # told[e]
    PROVE  adapter = "kubernetes" /\ (told[e] = "failed" \/ told'[e] = "cancelled")
<1>1. /\ TypeOK /\ JobInv(e) /\ ToldInv(e) /\ ClientInv(c)
      /\ told \in [Executions -> State \union {Absent}]
  BY DEF JobsInv, TypeOK
<1>2. ASSUME NEW s, Tell(at[c], s) PROVE at[c] = e /\ told'[e] = s
  BY <1>1, <1>2 DEF Tell
<1>3. told[e] # Absent /\ ~ UNCHANGED told
  BY DEF Terminal, Absent
<1>4. CASE Remembered(c)
  BY <1>1, <1>2, <1>3, <1>4 DEF Remembered, ClientInv
<1>5. CASE CloudRunRead(c) \/ KubernetesRead(c) \/ BatchRead(c) \/ AzureRead(c)
  <2>1. PICK s : Says(at[c], s) /\ Report(c, s)
    BY <1>5, Reads
  <2>5. at[c] = e /\ told'[e] = s /\ e \notin gone /\ Says(e, s)
    BY <1>2, <2>1 DEF Report
  <2>2. at[c] = e /\ told'[e] = Mapped(e) /\ e \notin gone
    <3>1. ASSUME adapter = "containerapps", end[e] = None PROVE FALSE
      <4>1. Mapped(e) \notin Terminal
        BY <1>1, <3>1, AzureSays
      <4> QED BY <1>1, <3>1, <4>1, <2>5 DEF ToldInv
    <3> QED BY <2>5, <3>1 DEF Says
  <2>3. adapter = "kubernetes"
    BY <1>1, <2>2 DEF ToldInv
  <2>4. /\ told[e] = "succeeded" => Mapped(e) = "succeeded"
        /\ told[e] = "timed_out" => Mapped(e) = "timed_out"
        /\ told[e] # "cancelled"
    BY <1>1, <2>2, <2>3, KubernetesSays DEF ToldInv
  <2> QED BY <2>2, <2>3, <2>4 DEF Terminal
<1>6. CASE DeleteJob(c)
  BY <1>1, <1>2, <1>6 DEF DeleteJob, ClientInv
<1>7. UNCHANGED told \/ Remembered(c) \/ DeleteJob(c)
          \/ CloudRunRead(c) \/ KubernetesRead(c) \/ BatchRead(c) \/ AzureRead(c)
  BY DEF Call, CloudRunSubmit, KubernetesSubmit, BatchSubmit, AzureSubmit, Launch, Get, Cancel,
         AnswerLost, CancelExecution, TerminateJob, StopExecution, Ask, ResolveAgain, Snapshot, Raise
<1> QED BY <1>3, <1>4, <1>5, <1>6, <1>7

\* A terminal state is told for good, but on Kubernetes: there FAILED may be said
\* between two pods of one job, and a job that has ended may still be cancelled.
THEOREM EndsCorrect == TailSpec => EndsAreFinal
<1> DEFINE Final == \A e \in Executions :
                        told[e] \in Terminal /\ told'[e] # told[e] =>
                            /\ adapter = "kubernetes"
                            /\ told[e] = "failed" \/ told'[e] = "cancelled"
<1>1. JobsInv /\ [TailNext]_tailVars => Final
  <2> SUFFICES ASSUME JobsInv, [TailNext]_tailVars, NEW e \in Executions,
                      told[e] \in Terminal, told'[e] # told[e]
               PROVE  adapter = "kubernetes" /\ (told[e] = "failed" \/ told'[e] = "cancelled")
    OBVIOUS
  <2>1. CASE Engine
    BY <2>1 DEF Engine, TaskStep, Finish, Deadline, Expire
  <2>2. CASE Work
    <3>1. PICK c \in deployment.callers : Call(c)
      BY <2>2 DEF Work
    <3>2. c \in Callers
      BY Deployed DEF JobsInv
    <3> QED BY <3>1, <3>2, CallTells
  <2>3. CASE KillTail \/ UNCHANGED tailVars
    BY <2>3 DEF KillTail, Restart, tailVars, vars
  <2>4. CASE \/ \E f \in Executions : Write(f) \/ \E b \in BOOLEAN : StreamLogs(f, b)
             \/ \E k \in Entries : Ingest(k)
             \/ Advance \/ PageFails \/ CheckFails \/ TimeOut
    BY <2>4, ReaderStep
  <2> QED BY <2>1, <2>2, <2>3, <2>4 DEF TailNext
<1> QED BY <1>1, JobsInvariant, PTL DEF TailSpec, EndsAreFinal

-----------------------------------------------------------------------------
(* The reader of logs. *)

\* What the reader has been given: what it has yielded and what it has in hand.
Given == ToSet(yielded) \union ToSet(page)

TailTypes ==
    /\ writer \in Seq(Nat) /\ Len(writer) <= Len(Stamps)
    /\ visible \subseteq DOMAIN writer
    /\ repeated \subseteq visible /\ answered \subseteq visible /\ late \subseteq visible
    /\ source \in Executions \union {None}
    /\ phase \in Off \union {"await", "page", "yield", "check"}
    /\ follow \in BOOLEAN
    /\ since = {} \/ \E t \in Nat : since = {t}
    /\ page \in Seq(Entries) /\ yielded \in Seq(Entries)

\* Where the reader is: it has something in hand while it yields, or when it was
\* stopped in between.
PhaseInv ==
    /\ phase = "yield" => page # <<>>
    /\ page # <<>> => phase \in {"yield", "left"}
    /\ phase \in {"idle", "await"} => yielded = <<>> /\ since = {} /\ answered = {}

\* It goes forward in time, and has in hand for a second time what has no insert
\* id alone.
OrderInv ==
    /\ Ordered(yielded) /\ Ordered(page)
    /\ \A k \in ToSet(yielded), j \in ToSet(page) :
           /\ Stamps[k] <= Stamps[j]
           /\ k = j => k \in Anonymous /\ adapter = "cloudrun"
    /\ repeated \subseteq Anonymous /\ (repeated # {} => adapter = "cloudrun")

\* It was given what there was to see when it last asked, but for what came late.
WholeInv == Given = (OfTheSource \intersect answered) \ late

\* Cloud Run: since is the last timestamp that was yielded; late is what is older
\* than something given and was not given itself.
CloudRunTail ==
    /\ \A k \in visible \ Given, j \in Given : Stamps[j] > Stamps[k] => k \in late
    /\ \A k \in late : \E j \in Given : Stamps[j] > Stamps[k]
    /\ since = {} => yielded = <<>>
    /\ \A t \in since :
           /\ \E j \in ToSet(yielded) : Stamps[j] = t
           /\ \A j \in ToSet(yielded) : Stamps[j] <= t

\* Batch: entries become visible in order, and the token counts the answered.
BatchTail ==
    /\ \E n \in Nat : visible = 1 .. n
    /\ late = {}
    /\ since = {} => answered = {}
    /\ \A t \in since : answered = 1 .. t

\* Kubernetes: lines are there at once.
PodTail ==
    /\ visible = DOMAIN writer
    /\ late = {}
    /\ \E m \in Nat : answered = 1 .. m

PagesInv ==
    /\ OrderInv
    /\ WholeInv
    /\ adapter = "cloudrun" => CloudRunTail
    /\ adapter = "batch" => BatchTail
    /\ adapter = "kubernetes" => PodTail

TailInv == TailTypes /\ PhaseInv /\ PagesInv

LEMMA StampsGrow ==
    /\ \A k \in Entries : Stamps[k] \in Nat /\ k \in Nat
    /\ \A i, j \in Entries : i <= j => Stamps[i] <= Stamps[j]
<1>1. \A k \in Entries : Stamps[k] \in Nat /\ k \in Nat
  BY LogTailAssumption DEF Entries
<1>2. ASSUME NEW i \in Entries, NEW j \in Entries, i <= j PROVE Stamps[i] <= Stamps[j]
  <2>1. i = j \/ i < j
    BY <1>1, <1>2
  <2> QED BY <1>1, <2>1, LogTailAssumption DEF Entries
<1> QED BY <1>1, <1>2

LEMMA VisibleIs ==
    ASSUME TailTypes
    PROVE  /\ DOMAIN writer = 1 .. Len(writer) /\ Len(writer) \in Nat
           /\ visible \subseteq Entries /\ visible \subseteq Nat
           /\ ToSet(yielded) \subseteq Entries /\ ToSet(page) \subseteq Entries
           /\ \A S \in SUBSET visible : S \in SUBSET Entries /\ IsFiniteSet(S)
<1>1. Len(writer) \in Nat /\ DOMAIN writer = 1 .. Len(writer)
  BY DEF TailTypes
<1>2. Entries = 1 .. Len(Stamps) /\ Len(Stamps) \in Nat
  BY LogTailAssumption DEF Entries
<1>3. visible \subseteq Entries /\ visible \subseteq Nat
  BY <1>1, <1>2 DEF TailTypes
<1>4. ToSet(yielded) \subseteq Entries /\ ToSet(page) \subseteq Entries
  BY DEF ToSet, TailTypes
<1>5. IsFiniteSet(1 .. Len(writer))
  BY <1>1, FS_Interval
<1>6. ASSUME NEW S \in SUBSET visible PROVE S \in SUBSET Entries /\ IsFiniteSet(S)
  <2>1. S \in SUBSET (1 .. Len(writer))
    BY <1>1 DEF TailTypes
  <2> QED BY <1>3, <1>5, <2>1, FS_Subset
<1> QED BY <1>1, <1>3, <1>4, <1>6

\* An answer lists its entries, each once.
LEMMA ListingIs ==
    ASSUME NEW S \in SUBSET Entries, IsFiniteSet(S), NEW list \in Listings(S)
    PROVE  list \in Seq(Entries) /\ ToSet(list) = S /\ Ordered(list)
<1> DEFINE n == Cardinality(S)
<1>1. n \in Nat
  BY FS_CardinalityType
<1>2. /\ list \in [1 .. n -> S] /\ IsInjective(list)
      /\ \A i, j \in DOMAIN list : i < j => Stamps[list[i]] <= Stamps[list[j]]
  BY DEF Listings
<1>3. list \in Injection(1 .. n, S)
  BY <1>2 DEF Injection, IsInjective
<1>4. IsFiniteSet(1 .. n) /\ Cardinality(1 .. n) = n
  BY <1>1, FS_Interval
<1>5. list \in Surjection(1 .. n, S)
  BY <1>3, <1>4, FS_Injection
<1> HIDE DEF n
<1>6. ToSet(list) = S
  <2>1. DOMAIN list = 1 .. n /\ \A i \in 1 .. n : list[i] \in S
    BY <1>2
  <2>2. \A x \in S : \E i \in 1 .. n : list[i] = x
    BY <1>5 DEF Surjection
  <2> QED BY <2>1, <2>2 DEF ToSet
<1>7. list \in Seq(Entries)
  BY <1>1, <1>2
<1>8. Ordered(list)
  <2> SUFFICES ASSUME NEW i \in 1 .. n, NEW j \in 1 .. n, i < j
               PROVE  list[i] # list[j] /\ Stamps[list[i]] <= Stamps[list[j]]
    BY <1>2 DEF Ordered
  <2>1. i # j
    BY <1>1
  <2> QED BY <1>2, <2>1 DEF IsInjective
<1> QED BY <1>6, <1>7, <1>8

\* The log service answers a reader that has nothing in hand with what it had not
\* been given, none of it earlier than what it has yielded.
LEMMA AnswerKeeps ==
    ASSUME TailTypes, page = <<>>, OrderInv, NEW S \in SUBSET OfTheSource, NEW p, Answer(S, p),
           \A k \in ToSet(yielded), j \in S :
               /\ Stamps[k] <= Stamps[j]
               /\ k = j => k \in Anonymous /\ adapter = "cloudrun",
           p \in {"page", "check", "done"}
    PROVE  /\ UNCHANGED <<deployment, writer, visible, source, follow, yielded, repeated, late>>
           /\ answered' = visible /\ adapter' = adapter
           /\ page' \in Seq(Entries) /\ ToSet(page') = S /\ OrderInv'
           /\ phase' \in {"page", "yield", "check", "done"}
           /\ phase' = "yield" <=> page' # <<>>
           /\ Given' = ToSet(yielded) \union S
<1>1. /\ UNCHANGED <<deployment, writer, visible, source, follow, yielded, repeated, late>>
      /\ answered' = visible
      /\ S = {} => phase' = p /\ page' = <<>>
      /\ S # {} => phase' = "yield" /\ page' \in Listings(S)
  BY DEF Answer, Enter, vars, logs
<1>2. S \in SUBSET Entries /\ IsFiniteSet(S)
  <2>1. OfTheSource \subseteq visible
    BY DEF OfTheSource, LinesOfPod
  <2> QED BY <2>1, VisibleIs
<1>3. page' \in Seq(Entries) /\ ToSet(page') = S /\ Ordered(page')
  <2>1. CASE S = {}
    BY <1>1, <2>1 DEF ToSet, Ordered
  <2>2. CASE S # {}
    BY <1>1, <1>2, <2>2, ListingIs
  <2> QED BY <2>1, <2>2
<1>4. S = {} <=> page' = <<>>
  <2>1. page' = <<>> => ToSet(page') = {}
    BY DEF ToSet
  <2> QED BY <1>1, <1>3, <2>1
<1>5. adapter' = adapter /\ ToSet(yielded') = ToSet(yielded) /\ Ordered(yielded')
  BY <1>1 DEF adapter, OrderInv
<1>6. OrderInv'
  BY <1>1, <1>3, <1>5 DEF OrderInv
<1>7. Given' = ToSet(yielded) \union S
  BY <1>3, <1>5 DEF Given
<1> QED BY <1>1, <1>3, <1>4, <1>5, <1>6, <1>7

\* The reader moves on without reading, or the jobs do without writing.
LEMMA StillTail ==
    ASSUME TailInv,
           UNCHANGED <<deployment, writer, visible, repeated, answered, late, page, yielded, since>>,
           source' \in Executions \union {None}, follow' \in BOOLEAN,
           phase' \in Off \union {"await", "page", "yield", "check"},
           phase' = "yield" => phase = "yield",
           phase = "yield" => phase' \in {"yield", "left"},
           phase = "left" => phase' = "left",
           phase' \in {"idle", "await"} => phase \in {"idle", "await"}
    PROVE  TailInv'
<1>1. TailTypes'
  BY DEF TailInv, TailTypes
<1>2. PhaseInv'
  BY DEF TailInv, PhaseInv
<1>3. /\ LinesOfPod' = LinesOfPod /\ adapter' = adapter
      /\ ToSet(yielded)' = ToSet(yielded) /\ ToSet(page)' = ToSet(page)
      /\ Ordered(yielded)' = Ordered(yielded) /\ Ordered(page)' = Ordered(page)
  BY DEF LinesOfPod, adapter, ToSet, Ordered
<1>4. Given' = Given /\ OfTheSource' = OfTheSource
  BY <1>3 DEF Given, OfTheSource
<1>5. OrderInv' /\ WholeInv'
  BY <1>3, <1>4 DEF TailInv, PagesInv, OrderInv, WholeInv
<1>6. PagesInv'
  BY <1>3, <1>4, <1>5 DEF TailInv, PagesInv, CloudRunTail, BatchTail, PodTail
<1> QED BY <1>1, <1>2, <1>6 DEF TailInv

LEMMA WriteKeeps ==
    ASSUME JobsInv, TailInv, NEW e \in Executions, Write(e)
    PROVE  TailInv'
<1>1. /\ writer' = Append(writer, Runs(e)) /\ Len(writer) < Len(Stamps)
      /\ visible' = IF adapter = "kubernetes" THEN visible \union {Len(writer')} ELSE visible
      /\ UNCHANGED <<deployment, source, phase, follow, since, page, yielded, repeated, answered, late>>
  BY DEF Write, vars, reader, marks
<1>2. TailTypes
  BY DEF TailInv
<1>3. Runs(e) \in Nat
  <2>1. spec.parallelism = 1
    BY LogTailAssumption DEF Write, spec
  <2>2. 1 \in Tasks
    BY <2>1 DEF Tasks
  <2>3. fails[e][1] \in Nat
    BY <2>2 DEF JobsInv, TypeOK
  <2> QED BY <2>3 DEF Runs
<1> DEFINE n == Len(writer)
<1>4. n \in Nat /\ DOMAIN writer = 1 .. n
  BY <1>2 DEF TailTypes
<1>5. /\ writer' \in Seq(Nat) /\ Len(writer') = n + 1 /\ DOMAIN writer' = 1 .. n + 1
      /\ \A i \in 1 .. n : writer'[i] = writer[i]
  BY <1>1, <1>2, <1>3 DEF TailTypes
<1> HIDE DEF n
<1>6. visible \subseteq 1 .. n /\ visible' \subseteq 1 .. n + 1 /\ visible \subseteq visible'
  BY <1>1, <1>2, <1>4, <1>5 DEF TailTypes
<1>7. TailTypes'
  <2>1. n + 1 <= Len(Stamps)
    BY <1>1, <1>4, LogTailAssumption DEF n
  <2>2. late' \subseteq visible' /\ answered' \subseteq visible' /\ repeated' \subseteq visible'
    BY <1>1, <1>2, <1>6 DEF TailTypes
  <2> QED BY <1>1, <1>2, <1>5, <1>6, <2>1, <2>2 DEF TailTypes
<1>8. PhaseInv'
  BY <1>1 DEF TailInv, PhaseInv
<1>9. /\ adapter' = adapter /\ ToSet(yielded)' = ToSet(yielded) /\ ToSet(page)' = ToSet(page)
      /\ Ordered(yielded)' = Ordered(yielded) /\ Ordered(page)' = Ordered(page)
  BY <1>1 DEF adapter, ToSet, Ordered
<1>10. Given' = Given
  BY <1>9 DEF Given
<1>11. OrderInv'
  BY <1>1, <1>9 DEF TailInv, PagesInv, OrderInv
<1>12. adapter # "kubernetes" => visible' = visible
  BY <1>1
<1>13. WholeInv'
  <2>1. answered \subseteq visible
    BY <1>2 DEF TailTypes
  <2>2. LinesOfPod' \intersect answered = LinesOfPod \intersect answered
    BY <1>1, <1>5, <1>6, <2>1 DEF LinesOfPod
  <2>3. OfTheSource' \intersect answered = OfTheSource \intersect answered
    BY <1>9, <1>12, <2>2 DEF OfTheSource
  <2>4. Given = (OfTheSource \intersect answered) \ late
    BY DEF TailInv, PagesInv, WholeInv
  <2>5. answered' = answered /\ late' = late
    BY <1>1
  <2> QED BY <1>10, <2>3, <2>4, <2>5 DEF WholeInv
<1>14. adapter = "cloudrun" => CloudRunTail'
  BY <1>1, <1>9, <1>10, <1>12 DEF TailInv, PagesInv, CloudRunTail
<1>15. adapter = "batch" => BatchTail'
  BY <1>1, <1>9, <1>12 DEF TailInv, PagesInv, BatchTail
<1>16. ASSUME adapter = "kubernetes" PROVE PodTail'
  <2>1. PodTail
    BY <1>16 DEF TailInv, PagesInv
  <2>2. visible' = DOMAIN writer'
    BY <1>1, <1>4, <1>5, <1>16, <2>1 DEF PodTail
  <2> QED BY <1>1, <2>1, <2>2 DEF PodTail
<1>17. PagesInv'
  BY <1>9, <1>11, <1>13, <1>14, <1>15, <1>16 DEF PagesInv
<1> QED BY <1>7, <1>8, <1>17 DEF TailInv

LEMMA IngestKeeps ==
    ASSUME TailInv, NEW k \in Entries, Ingest(k)
    PROVE  TailInv'
<1>1. /\ k \in DOMAIN writer \ visible
      /\ adapter = "batch" => \A j \in DOMAIN writer \ visible : k <= j
      /\ visible' = visible \union {k}
      /\ late' = IF \E j \in Given : Stamps[j] > Stamps[k] THEN late \union {k} ELSE late
      /\ UNCHANGED <<deployment, writer, source, phase, follow, since, page, yielded, repeated, answered>>
  BY DEF Ingest, vars, reader, Given
<1>2. TailTypes
  BY DEF TailInv
<1>3. TailTypes'
  <2>1. /\ visible' \subseteq DOMAIN writer' /\ late' \subseteq visible'
        /\ answered' \subseteq visible' /\ repeated' \subseteq visible'
    BY <1>1, <1>2 DEF TailTypes
  <2> QED BY <1>1, <1>2, <2>1 DEF TailTypes
<1>4. PhaseInv'
  BY <1>1 DEF TailInv, PhaseInv
<1>5. /\ adapter' = adapter /\ ToSet(yielded)' = ToSet(yielded) /\ ToSet(page)' = ToSet(page)
      /\ Ordered(yielded)' = Ordered(yielded) /\ Ordered(page)' = Ordered(page)
  BY <1>1 DEF adapter, ToSet, Ordered
<1>6. Given' = Given
  BY <1>5 DEF Given
<1>7. OrderInv'
  BY <1>1, <1>5 DEF TailInv, PagesInv, OrderInv
<1>8. adapter # "kubernetes"
  BY <1>1 DEF TailInv, PagesInv, PodTail
<1>9. Given = (visible \intersect answered) \ late /\ answered \subseteq visible /\ k \notin answered
  BY <1>1, <1>2, <1>8 DEF TailInv, PagesInv, WholeInv, OfTheSource, TailTypes
<1>10. WholeInv'
  <2>1. OfTheSource' = visible'
    BY <1>5, <1>8 DEF OfTheSource
  <2>2. (visible' \intersect answered) \ late' = (visible \intersect answered) \ late
    BY <1>1, <1>9
  <2>3. answered' = answered
    BY <1>1
  <2> QED BY <1>6, <1>9, <2>1, <2>2, <2>3 DEF WholeInv
<1>11. ASSUME adapter = "cloudrun" PROVE CloudRunTail'
  <2>1. CloudRunTail
    BY <1>11 DEF TailInv, PagesInv
  <2>2. late \subseteq late' /\ \A i \in late' : i \in late \/ (i = k /\ \E j \in Given : Stamps[j] > Stamps[k])
    BY <1>1
  <2>3. \A i \in visible' \ Given, j \in Given : Stamps[j] > Stamps[i] => i \in late'
    <3> SUFFICES ASSUME NEW i \in visible' \ Given, NEW j \in Given, Stamps[j] > Stamps[i]
                 PROVE  i \in late'
      OBVIOUS
    <3>1. CASE i = k
      BY <1>1, <3>1
    <3>2. CASE i # k
      BY <1>1, <2>1, <2>2, <3>2 DEF CloudRunTail
    <3> QED BY <3>1, <3>2
  <2>4. \A i \in late' : \E j \in Given : Stamps[j] > Stamps[i]
    BY <2>1, <2>2 DEF CloudRunTail
  <2> QED BY <1>1, <1>5, <1>6, <2>1, <2>3, <2>4 DEF CloudRunTail
<1>12. ASSUME adapter = "batch" PROVE BatchTail'
  <2>1. BatchTail
    BY <1>12 DEF TailInv, PagesInv
  <2>2. PICK n \in Nat : visible = 1 .. n
    BY <2>1 DEF BatchTail
  <2>3. DOMAIN writer = 1 .. Len(writer) /\ Len(writer) \in Nat
    BY <1>2, VisibleIs
  <2>4. k \in Nat /\ k > n /\ k <= Len(writer)
    BY <1>1, <2>2, <2>3
  <2>5. n + 1 \in DOMAIN writer \ visible
    BY <2>2, <2>3, <2>4
  <2>6. k = n + 1
    BY <1>1, <1>12, <2>4, <2>5
  <2>7. visible' = 1 .. n + 1 /\ n + 1 \in Nat
    BY <1>1, <2>2, <2>6
  <2>8. \A j \in Given : ~ (Stamps[j] > Stamps[k])
    <3> SUFFICES ASSUME NEW j \in Given PROVE ~ (Stamps[j] > Stamps[k])
      OBVIOUS
    <3>1. j \in 1 .. n /\ j \in Entries
      BY <1>2, <1>9, <2>2, VisibleIs
    <3>2. Stamps[j] <= Stamps[k]
      BY <2>6, <3>1, StampsGrow
    <3>3. Stamps[j] \in Nat /\ Stamps[k] \in Nat
      BY <3>1, StampsGrow
    <3> QED BY <3>2, <3>3
  <2>9. late' = {}
    BY <1>1, <2>1, <2>8 DEF BatchTail
  <2> QED BY <1>1, <2>1, <2>7, <2>9 DEF BatchTail
<1>13. PagesInv'
  BY <1>5, <1>7, <1>8, <1>10, <1>11, <1>12 DEF PagesInv
<1> QED BY <1>3, <1>4, <1>13 DEF TailInv

LEMMA AwaitPodKeeps ==
    ASSUME JobsInv, TailInv, AwaitPod
    PROVE  TailInv'
<1>1. /\ adapter = "kubernetes" /\ phase = "await" /\ phase' = "page"
      /\ \E p \in 1 .. Runs(source) : since' = {p}
      /\ UNCHANGED <<deployment, writer, visible, repeated, answered, late, source, follow, page, yielded>>
  BY DEF AwaitPod, Enter, vars, logs, marks
<1>2. yielded = <<>> /\ page = <<>> /\ answered = {} /\ TailTypes /\ OrderInv /\ PodTail
  BY <1>1 DEF TailInv, PhaseInv, PagesInv
<1>3. \E t \in Nat : since' = {t}
  BY <1>1
<1>4. TailTypes'
  BY <1>1, <1>2, <1>3 DEF TailTypes
<1>5. /\ adapter' = adapter /\ ToSet(yielded') = {} /\ ToSet(page') = {}
      /\ Ordered(yielded') /\ Ordered(page')
  BY <1>1, <1>2 DEF adapter, ToSet, Ordered
<1>6. PodTail'
  BY <1>1, <1>2 DEF PodTail
<1>7. OrderInv' /\ WholeInv'
  BY <1>1, <1>2, <1>5 DEF OrderInv, WholeInv, Given
<1>8. PagesInv'
  BY <1>1, <1>5, <1>6, <1>7 DEF PagesInv
<1>9. PhaseInv'
  BY <1>1, <1>2 DEF PhaseInv
<1> QED BY <1>4, <1>8, <1>9 DEF TailInv

LEMMA CloudRunPageKeeps ==
    ASSUME TailInv, CloudRunPage
    PROVE  TailInv'
<1> DEFINE S == NewEntries
           p == AfterEmpty
<1>1. adapter = "cloudrun" /\ phase = "page" /\ Answer(S, p) /\ since' = since
  BY DEF CloudRunPage
<1>2. TailTypes /\ OrderInv /\ CloudRunTail /\ page = <<>> /\ p \in {"page", "check", "done"}
  BY <1>1 DEF TailInv, PagesInv, PhaseInv, AfterEmpty
<1>3. OfTheSource = visible /\ S \in SUBSET visible
  BY <1>1 DEF OfTheSource, NewEntries
<1>4. Given = ToSet(yielded) /\ Given = (visible \intersect answered) \ late
  BY <1>2, <1>3 DEF TailInv, PagesInv, WholeInv, Given, ToSet
<1>5. visible \subseteq Entries /\ ToSet(yielded) \subseteq Entries
  BY <1>2, VisibleIs
<1>6. \A k \in ToSet(yielded), j \in S :
          Stamps[k] <= Stamps[j] /\ (k = j => k \in Anonymous /\ adapter = "cloudrun")
  <2> SUFFICES ASSUME NEW k \in ToSet(yielded), NEW j \in S
               PROVE  Stamps[k] <= Stamps[j] /\ (k = j => k \in Anonymous)
    BY <1>1
  <2>1. (j \in ToSet(yielded) => j \in Anonymous) /\ \A t \in since : Stamps[j] >= t
    BY DEF NewEntries
  <2>2. since # {}
    BY <1>2 DEF CloudRunTail, ToSet
  <2>3. PICK t \in since : t \in Nat
    BY <1>2, <2>2 DEF TailTypes
  <2>4. Stamps[k] <= t
    BY <1>2 DEF CloudRunTail
  <2>5. Stamps[j] \in Nat /\ Stamps[k] \in Nat
    BY <1>3, <1>5, StampsGrow
  <2> QED BY <2>1, <2>3, <2>4, <2>5
<1>7. \A k \in visible \ S : k \in Given \/ \E t \in since : Stamps[k] < t
  <2> SUFFICES ASSUME NEW k \in visible, k \notin S, k \notin Given PROVE \E t \in since : Stamps[k] < t
    OBVIOUS
  <2>1. PICK t \in since : ~ (Stamps[k] >= t)
    BY <1>4 DEF NewEntries
  <2>2. t \in Nat /\ Stamps[k] \in Nat
    BY <1>2, <1>5, StampsGrow DEF TailTypes
  <2> QED BY <2>1, <2>2
<1>8. \A k \in late : k \notin S
  <2> SUFFICES ASSUME NEW k \in late, k \in S PROVE FALSE
    OBVIOUS
  <2>1. PICK j \in Given : Stamps[j] > Stamps[k]
    BY <1>2 DEF CloudRunTail
  <2>2. Stamps[j] <= Stamps[k]
    BY <1>4, <1>6
  <2>3. Stamps[j] \in Nat /\ Stamps[k] \in Nat
    BY <1>3, <1>4, <1>5, StampsGrow
  <2> QED BY <2>1, <2>2, <2>3
<1>9. \A k \in visible : k \notin Given /\ k \notin S => k \in late
  <2> SUFFICES ASSUME NEW k \in visible, k \notin Given, k \notin S PROVE k \in late
    OBVIOUS
  <2>1. PICK t \in since : Stamps[k] < t
    BY <1>7
  <2>2. PICK j \in ToSet(yielded) : Stamps[j] = t
    BY <1>2 DEF CloudRunTail
  <2>3. Stamps[j] \in Nat /\ Stamps[k] \in Nat
    BY <1>5, StampsGrow
  <2>4. Stamps[j] > Stamps[k]
    BY <2>1, <2>2, <2>3
  <2> QED BY <1>2, <1>4, <2>4 DEF CloudRunTail
<1> HIDE DEF S, p
<1>10. /\ UNCHANGED <<deployment, writer, visible, source, follow, yielded, repeated, late>>
       /\ answered' = visible /\ adapter' = adapter
       /\ page' \in Seq(Entries) /\ ToSet(page') = S /\ OrderInv'
       /\ phase' \in {"page", "yield", "check", "done"}
       /\ phase' = "yield" <=> page' # <<>>
       /\ Given' = ToSet(yielded) \union S
  BY <1>1, <1>2, <1>3, <1>6, AnswerKeeps
<1>11. TailTypes' /\ PhaseInv'
  <2>1. TailTypes'
    BY <1>1, <1>2, <1>10 DEF TailTypes, Off
  <2>2. PhaseInv'
    BY <1>10 DEF PhaseInv
  <2> QED BY <2>1, <2>2
<1>12. WholeInv'
  <2>1. OfTheSource' = visible
    BY <1>1, <1>10 DEF OfTheSource
  <2>2. Given \union S = visible \ late
    BY <1>3, <1>4, <1>8, <1>9
  <2> QED BY <1>4, <1>10, <2>1, <2>2 DEF WholeInv
<1>13. CloudRunTail'
  <2>1. Given' = Given \union S
    BY <1>4, <1>10
  <2>2. \A k \in visible' \ Given', j \in Given' : Stamps[j] > Stamps[k] => k \in late'
    BY <1>9, <1>10, <2>1
  <2>3. \A k \in late' : \E j \in Given' : Stamps[j] > Stamps[k]
    BY <1>2, <1>10, <2>1 DEF CloudRunTail
  <2> QED BY <1>1, <1>2, <1>10, <2>2, <2>3 DEF CloudRunTail
<1> QED BY <1>1, <1>10, <1>11, <1>12, <1>13 DEF TailInv, PagesInv

LEMMA BatchPageKeeps ==
    ASSUME TailInv, BatchPage
    PROVE  TailInv'
<1> DEFINE S == {k \in visible : \A t \in since : k > t}
           p == IF since' = since THEN AfterEmpty ELSE "page"
<1>1. adapter = "batch" /\ phase = "page" /\ Answer(S, p) /\ since' = {Cardinality(visible)}
  BY DEF BatchPage
<1>2. TailTypes /\ OrderInv /\ BatchTail /\ page = <<>> /\ p \in {"page", "check", "done"}
  BY <1>1 DEF TailInv, PagesInv, PhaseInv, AfterEmpty
<1>3. OfTheSource = visible /\ S \in SUBSET visible
  BY <1>1 DEF OfTheSource
<1>4. PICK n \in Nat : visible = 1 .. n
  BY <1>2 DEF BatchTail
<1>5. Cardinality(visible) = n
  BY <1>4, FS_Interval
<1>6. Given = ToSet(yielded) /\ Given = answered /\ late = {} /\ answered \subseteq visible
  BY <1>2, <1>3 DEF TailInv, PagesInv, WholeInv, Given, ToSet, BatchTail, TailTypes
<1>7. visible \subseteq Entries
  BY <1>2, VisibleIs
<1>8. \A k \in visible : k \in S <=> k \notin answered
  <2>1. CASE since = {}
    BY <1>2, <2>1 DEF BatchTail
  <2>2. CASE \E t \in Nat : since = {t}
    <3>1. PICK t \in Nat : since = {t}
      BY <2>2
    <3>2. answered = 1 .. t
      BY <1>2, <3>1 DEF BatchTail
    <3> QED BY <1>4, <3>1, <3>2
  <2> QED BY <1>2, <2>1, <2>2 DEF TailTypes
<1>9. \A k \in answered, j \in S : k < j
  <2> SUFFICES ASSUME NEW k \in answered, NEW j \in S PROVE k < j
    OBVIOUS
  <2>1. since # {}
    BY <1>2 DEF BatchTail
  <2>2. PICK t \in since : t \in Nat /\ answered = 1 .. t
    BY <1>2, <2>1 DEF BatchTail, TailTypes
  <2>3. j > t /\ j \in Nat /\ k \in 1 .. t
    BY <1>4, <2>2
  <2> QED BY <2>2, <2>3
<1>10. \A k \in ToSet(yielded), j \in S :
           Stamps[k] <= Stamps[j] /\ (k = j => k \in Anonymous /\ adapter = "cloudrun")
  <2> SUFFICES ASSUME NEW k \in answered, NEW j \in S PROVE Stamps[k] <= Stamps[j] /\ k # j
    BY <1>6
  <2>1. k \in Entries /\ j \in Entries /\ k < j /\ k \in Nat /\ j \in Nat
    BY <1>3, <1>6, <1>7, <1>9, StampsGrow
  <2>2. k <= j /\ k # j
    BY <2>1
  <2> QED BY <2>1, <2>2, StampsGrow
<1> HIDE DEF S, p
<1>11. /\ UNCHANGED <<deployment, writer, visible, source, follow, yielded, repeated, late>>
       /\ answered' = visible /\ adapter' = adapter
       /\ page' \in Seq(Entries) /\ ToSet(page') = S /\ OrderInv'
       /\ phase' \in {"page", "yield", "check", "done"}
       /\ phase' = "yield" <=> page' # <<>>
       /\ Given' = ToSet(yielded) \union S
  BY <1>1, <1>2, <1>3, <1>10, AnswerKeeps
<1>12. TailTypes' /\ PhaseInv'
  <2>1. TailTypes'
    BY <1>1, <1>2, <1>5, <1>11 DEF TailTypes, Off
  <2>2. PhaseInv'
    BY <1>11 DEF PhaseInv
  <2> QED BY <2>1, <2>2
<1>13. WholeInv'
  <2>1. OfTheSource' = visible
    BY <1>1, <1>11 DEF OfTheSource
  <2>2. answered \union S = visible
    BY <1>3, <1>6, <1>8
  <2> QED BY <1>6, <1>11, <2>1, <2>2 DEF WholeInv
<1>14. BatchTail'
  BY <1>1, <1>4, <1>5, <1>6, <1>11 DEF BatchTail
<1> QED BY <1>1, <1>11, <1>12, <1>13, <1>14 DEF TailInv, PagesInv

LEMMA PodLinesKeeps ==
    ASSUME TailInv, PodLines
    PROVE  TailInv'
<1> DEFINE S == LinesOfPod \ ToSet(yielded)
<1>1. adapter = "kubernetes" /\ phase = "page" /\ since' = since
  BY DEF PodLines
<1>2. TailTypes /\ OrderInv /\ PodTail /\ page = <<>>
  BY <1>1 DEF TailInv, PagesInv, PhaseInv
<1>3. CASE /\ phase' = "left"
           /\ UNCHANGED <<deployment, writer, visible, repeated, answered, late,
                          source, follow, page, yielded>>
  <2>1. source \in Executions \union {None} /\ follow \in BOOLEAN
    BY <1>2 DEF TailTypes
  <2> QED BY <1>1, <1>3, <2>1, StillTail DEF Off
<1>4. CASE Answer(S, "done")
  <2>1. OfTheSource = LinesOfPod /\ S \in SUBSET OfTheSource /\ LinesOfPod \subseteq visible
    BY <1>1 DEF OfTheSource, LinesOfPod
  <2>2. Given = ToSet(yielded) /\ Given = LinesOfPod \intersect answered /\ late = {}
    BY <1>2, <2>1 DEF TailInv, PagesInv, WholeInv, Given, ToSet, PodTail
  <2>3. PICK m \in Nat : answered = 1 .. m
    BY <1>2 DEF PodTail
  <2>4. visible \subseteq Entries /\ visible \subseteq Nat
    BY <1>2, VisibleIs
  <2>5. \A k \in ToSet(yielded), j \in S :
            Stamps[k] <= Stamps[j] /\ (k = j => k \in Anonymous /\ adapter = "cloudrun")
    <3> SUFFICES ASSUME NEW k \in ToSet(yielded), NEW j \in S PROVE Stamps[k] <= Stamps[j] /\ k # j
      OBVIOUS
    <3>1. k \in 1 .. m /\ k \in visible /\ j \in visible /\ j \notin 1 .. m
      BY <2>1, <2>2, <2>3
    <3>2. k \in Entries /\ j \in Entries /\ j \in Nat /\ j # 0
      BY <2>4, <3>1, LogTailAssumption DEF Entries
    <3>3. k <= j /\ k # j
      BY <2>3, <3>1, <3>2
    <3> QED BY <3>2, <3>3, StampsGrow
  <2> HIDE DEF S
  <2>6. /\ UNCHANGED <<deployment, writer, visible, source, follow, yielded, repeated, late>>
        /\ answered' = visible /\ adapter' = adapter
        /\ page' \in Seq(Entries) /\ ToSet(page') = S /\ OrderInv'
        /\ phase' \in {"page", "yield", "check", "done"}
        /\ phase' = "yield" <=> page' # <<>>
        /\ Given' = ToSet(yielded) \union S
    BY <1>2, <1>4, <2>1, <2>5, AnswerKeeps
  <2>7. TailTypes' /\ PhaseInv'
    <3>1. TailTypes'
      BY <1>1, <1>2, <2>6 DEF TailTypes, Off
    <3>2. PhaseInv'
      BY <2>6 DEF PhaseInv
    <3> QED BY <3>1, <3>2
  <2>8. LinesOfPod' = LinesOfPod
    BY <1>1, <2>6 DEF LinesOfPod
  <2>9. WholeInv'
    <3>1. OfTheSource' = LinesOfPod
      BY <1>1, <2>6, <2>8 DEF OfTheSource
    <3>2. ToSet(yielded) \union S = LinesOfPod
      BY <2>2 DEF S
    <3> QED BY <2>1, <2>2, <2>6, <3>1, <3>2 DEF WholeInv
  <2>10. PodTail'
    <3>1. visible = 1 .. Len(writer) /\ Len(writer) \in Nat
      BY <1>2, VisibleIs DEF PodTail
    <3> QED BY <1>2, <2>6, <3>1 DEF PodTail
  <2> QED BY <1>1, <2>6, <2>7, <2>9, <2>10 DEF TailInv, PagesInv
<1> QED BY <1>3, <1>4 DEF PodLines, Enter, vars, logs, marks

\* The first entry in hand is yielded.
LEMMA HeadIs ==
    ASSUME page \in Seq(Entries), page # <<>>, Ordered(page)
    PROVE  /\ Head(page) \in Entries /\ Tail(page) \in Seq(Entries) /\ Ordered(Tail(page))
           /\ ToSet(page) = {Head(page)} \union ToSet(Tail(page))
           /\ \A j \in ToSet(Tail(page)) : j # Head(page) /\ Stamps[Head(page)] <= Stamps[j]
<1> DEFINE n == Len(page)
           rest == Tail(page)
<1>1. n \in Nat /\ n > 0 /\ DOMAIN page = 1 .. n
  OBVIOUS
<1>2. /\ rest \in Seq(Entries) /\ Len(rest) = n - 1 /\ DOMAIN rest = 1 .. n - 1
      /\ \A i \in 1 .. n - 1 : rest[i] = page[i + 1]
      /\ Head(page) = page[1] /\ page[1] \in Entries
  BY <1>1
<1> HIDE DEF n, rest
<1>3. \A i \in 1 .. n - 1 : i + 1 \in 1 .. n /\ 1 < i + 1
  BY <1>1
<1>4. Ordered(rest)
  <2> SUFFICES ASSUME NEW i \in 1 .. n - 1, NEW j \in 1 .. n - 1, i < j
               PROVE  rest[i] # rest[j] /\ Stamps[rest[i]] <= Stamps[rest[j]]
    BY <1>2 DEF Ordered
  <2>1. i + 1 \in 1 .. n /\ j + 1 \in 1 .. n /\ i + 1 < j + 1
    BY <1>1
  <2>2. page[i + 1] # page[j + 1] /\ Stamps[page[i + 1]] <= Stamps[page[j + 1]]
    BY <1>1, <2>1 DEF Ordered
  <2> QED BY <1>2, <2>2
<1>5. ASSUME NEW j \in ToSet(rest) PROVE j # page[1] /\ Stamps[page[1]] <= Stamps[j]
  <2>1. PICK i \in 1 .. n - 1 : j = rest[i]
    BY <1>2 DEF ToSet
  <2>2. 1 \in 1 .. n /\ i + 1 \in 1 .. n /\ 1 < i + 1
    BY <1>1
  <2>3. page[1] # page[i + 1] /\ Stamps[page[1]] <= Stamps[page[i + 1]]
    BY <1>1, <2>2 DEF Ordered
  <2> QED BY <1>2, <2>1, <2>3
<1>6. ToSet(page) = {page[1]} \union ToSet(rest)
  <2>1. ASSUME NEW x \in ToSet(page) PROVE x = page[1] \/ x \in ToSet(rest)
    <3>1. PICK i \in 1 .. n : x = page[i]
      BY <1>1 DEF ToSet
    <3>2. CASE i # 1
      <4>1. i - 1 \in 1 .. n - 1 /\ (i - 1) + 1 = i
        BY <1>1, <3>2
      <4>2. x = rest[i - 1]
        BY <1>2, <3>1, <4>1
      <4> QED BY <1>2, <4>1, <4>2 DEF ToSet
    <3> QED BY <3>1, <3>2
  <2>2. page[1] \in ToSet(page)
    BY <1>1 DEF ToSet
  <2>3. ASSUME NEW x \in ToSet(rest) PROVE x \in ToSet(page)
    <3>1. PICK i \in 1 .. n - 1 : x = rest[i]
      BY <1>2 DEF ToSet
    <3> QED BY <1>1, <1>2, <1>3, <3>1 DEF ToSet
  <2> QED BY <2>1, <2>2, <2>3
<1> QED BY <1>2, <1>4, <1>5, <1>6 DEF rest

LEMMA AppendedLast ==
    ASSUME NEW seq \in Seq(Entries), Ordered(seq), NEW k \in Entries,
           \A j \in ToSet(seq) : j # k /\ Stamps[j] <= Stamps[k]
    PROVE  /\ Append(seq, k) \in Seq(Entries) /\ Ordered(Append(seq, k))
           /\ ToSet(Append(seq, k)) = ToSet(seq) \union {k}
<1> DEFINE n == Len(seq)
           longer == Append(seq, k)
<1>1. n \in Nat /\ DOMAIN seq = 1 .. n
  OBVIOUS
<1>2. /\ longer \in Seq(Entries) /\ DOMAIN longer = 1 .. n + 1 /\ longer[n + 1] = k
      /\ \A i \in 1 .. n : longer[i] = seq[i]
  OBVIOUS
<1> HIDE DEF n, longer
<1>3. \A i \in 1 .. n : seq[i] \in ToSet(seq)
  BY <1>1 DEF ToSet
<1>4. \A i \in 1 .. n + 1 : i \in 1 .. n \/ i = n + 1
  BY <1>1
<1>5. \A i \in 1 .. n : i \in 1 .. n + 1
  BY <1>1
<1>6. n + 1 \in 1 .. n + 1
  BY <1>1
<1>7. ToSet(longer) = ToSet(seq) \union {k}
  <2>1. ASSUME NEW x \in ToSet(longer) PROVE x \in ToSet(seq) \union {k}
    <3>1. PICK i \in 1 .. n + 1 : x = longer[i]
      BY <1>2 DEF ToSet
    <3> QED BY <1>2, <1>3, <1>4, <3>1
  <2>2. ASSUME NEW x \in ToSet(seq) PROVE x \in ToSet(longer)
    <3>1. PICK i \in 1 .. n : x = seq[i]
      BY <1>1 DEF ToSet
    <3> QED BY <1>2, <1>5, <3>1 DEF ToSet
  <2>3. k \in ToSet(longer)
    BY <1>2, <1>6 DEF ToSet
  <2> QED BY <2>1, <2>2, <2>3
<1>8. Ordered(longer)
  <2> SUFFICES ASSUME NEW i \in 1 .. n + 1, NEW j \in 1 .. n + 1, i < j
               PROVE  longer[i] # longer[j] /\ Stamps[longer[i]] <= Stamps[longer[j]]
    BY <1>2 DEF Ordered
  <2>1. i \in 1 .. n
    BY <1>1
  <2>2. CASE j \in 1 .. n
    BY <1>1, <1>2, <2>1, <2>2 DEF Ordered
  <2>3. CASE j = n + 1
    BY <1>2, <1>3, <2>1, <2>3
  <2> QED BY <1>4, <2>2, <2>3
<1> QED BY <1>2, <1>7, <1>8 DEF longer

LEMMA YieldKeeps ==
    ASSUME TailInv, Yield
    PROVE  TailInv'
<1>1. /\ phase = "yield" /\ page' = Tail(page)
      /\ IF Head(page) \in ToSet(yielded)
         THEN repeated' = repeated \union {Head(page)} /\ yielded' = yielded
         ELSE yielded' = Append(yielded, Head(page)) /\ repeated' = repeated
      /\ since' = IF adapter = "cloudrun" THEN {Stamps[Head(page)]} ELSE since
      /\ phase' = IF page' # <<>> THEN "yield"
                  ELSE IF adapter = "kubernetes" /\ ~ follow THEN "done" ELSE "page"
      /\ UNCHANGED <<deployment, writer, visible, source, follow, answered, late>>
  BY DEF Yield, Enter, vars, logs
<1>2. TailTypes /\ OrderInv /\ WholeInv /\ page # <<>>
  BY <1>1 DEF TailInv, PagesInv, PhaseInv
<1>3. page \in Seq(Entries) /\ yielded \in Seq(Entries) /\ Ordered(page) /\ Ordered(yielded)
  BY <1>2 DEF TailTypes, OrderInv
<1>4. PICK k : k = Head(page)
  OBVIOUS
<1>5. /\ k \in Entries /\ page' \in Seq(Entries) /\ Ordered(page')
      /\ ToSet(page) = {k} \union ToSet(page')
      /\ \A j \in ToSet(page') : j # k /\ Stamps[k] <= Stamps[j]
  BY <1>1, <1>2, <1>3, <1>4, HeadIs
<1>6. \A j \in ToSet(yielded) : /\ Stamps[j] <= Stamps[k]
                                /\ j = k => k \in Anonymous /\ adapter = "cloudrun"
  BY <1>2, <1>5 DEF OrderInv
<1>7. adapter' = adapter
  BY <1>1 DEF adapter
<1>8. /\ yielded' \in Seq(Entries) /\ Ordered(yielded')
      /\ ToSet(yielded') = ToSet(yielded) \union {k}
  <2>1. CASE k \in ToSet(yielded)
    BY <1>1, <1>3, <1>4, <2>1
  <2>2. CASE k \notin ToSet(yielded)
    <3>1. yielded' = Append(yielded, k) /\ \A j \in ToSet(yielded) : j # k
      BY <1>1, <1>4, <2>2
    <3> QED BY <1>3, <1>5, <1>6, <3>1, AppendedLast
  <2> QED BY <2>1, <2>2
<1>9. Given' = Given
  BY <1>5, <1>8 DEF Given
<1>10. k \in visible /\ Given \subseteq answered
  BY <1>2, <1>5 DEF WholeInv, Given, TailTypes
<1>11. repeated' \subseteq repeated \union {k} /\ (repeated' # repeated => k \in Anonymous /\ adapter = "cloudrun")
  BY <1>1, <1>4, <1>6
<1>12. TailTypes'
  <2>1. repeated' \subseteq visible
    BY <1>2, <1>10, <1>11 DEF TailTypes
  <2>2. since' = {} \/ \E t \in Nat : since' = {t}
    BY <1>1, <1>2, <1>4, <1>5, StampsGrow DEF TailTypes
  <2>3. phase' \in Off \union {"await", "page", "yield", "check"}
    BY <1>1 DEF Off
  <2> QED BY <1>1, <1>2, <1>5, <1>8, <2>1, <2>2, <2>3 DEF TailTypes
<1>13. PhaseInv'
  BY <1>1 DEF PhaseInv
<1>14. OrderInv'
  <2>1. repeated' \subseteq Anonymous /\ (repeated' # {} => adapter' = "cloudrun")
    BY <1>2, <1>7, <1>11 DEF OrderInv
  <2>2. ASSUME NEW i \in ToSet(yielded'), NEW j \in ToSet(page')
        PROVE  Stamps[i] <= Stamps[j] /\ (i = j => i \in Anonymous /\ adapter = "cloudrun")
    <3>1. CASE i = k
      BY <1>5, <3>1
    <3>2. CASE i \in ToSet(yielded)
      BY <1>2, <1>5, <3>2 DEF OrderInv
    <3> QED BY <1>8, <3>1, <3>2
  <2> QED BY <1>5, <1>7, <1>8, <2>1, <2>2 DEF OrderInv
<1>15. ASSUME adapter # "cloudrun" PROVE since' = since /\ LinesOfPod' = LinesOfPod
  BY <1>1, <1>15 DEF LinesOfPod
<1>16. WholeInv'
  <2>1. OfTheSource' = OfTheSource
    BY <1>1, <1>7, <1>15 DEF OfTheSource
  <2> QED BY <1>1, <1>2, <1>9, <2>1 DEF WholeInv
<1>17. ASSUME adapter = "cloudrun" PROVE CloudRunTail'
  <2>1. CloudRunTail /\ since' = {Stamps[k]}
    BY <1>1, <1>4, <1>17 DEF TailInv, PagesInv
  <2>2. \A j \in ToSet(yielded') : Stamps[j] <= Stamps[k]
    <3>1. Stamps[k] \in Nat
      BY <1>5, StampsGrow
    <3> QED BY <1>6, <1>8, <3>1
  <2>3. \E j \in ToSet(yielded') : Stamps[j] = Stamps[k]
    BY <1>8
  <2> QED BY <1>1, <1>9, <2>1, <2>2, <2>3 DEF CloudRunTail
<1>18. adapter # "cloudrun" => (adapter = "batch" => BatchTail') /\ (adapter = "kubernetes" => PodTail')
  BY <1>1, <1>15 DEF TailInv, PagesInv, BatchTail, PodTail
<1>19. PagesInv'
  BY <1>7, <1>14, <1>16, <1>17, <1>18 DEF PagesInv
<1> QED BY <1>12, <1>13, <1>19 DEF TailInv

LEMMA JobsKeepTheirDeployment ==
    ASSUME Engine \/ Work \/ Restart
    PROVE  deployment' = deployment
<1>1. CASE Engine
  BY <1>1 DEF Engine, TaskStep, Finish, Deadline, Expire
<1>2. CASE Work
  BY <1>2 DEF Work, Call, CloudRunSubmit, KubernetesSubmit, BatchSubmit, AzureSubmit, Launch, Get,
              Cancel, Remembered, AnswerLost, CloudRunRead, KubernetesRead, BatchRead, AzureRead,
              Report, CancelExecution, TerminateJob, StopExecution, Ask, ResolveAgain, Snapshot,
              DeleteJob, Raise
<1>3. CASE Restart
  BY <1>3 DEF Restart
<1> QED BY <1>1, <1>2, <1>3

\* A step of the reader that neither reads nor yields, or one beside it.
LEMMA OtherKeeps ==
    ASSUME TailInv,
           \/ (Engine \/ Work) /\ UNCHANGED <<logs, reader, marks>>
           \/ KillTail
           \/ \E e \in Executions, f \in BOOLEAN : StreamLogs(e, f)
           \/ AwaitLogStream \/ Check \/ PageFails \/ CheckFails \/ TimeOut
           \/ UNCHANGED tailVars
    PROVE  TailInv'
<1>1. TailTypes
  BY DEF TailInv
<1>2. CASE (Engine \/ Work) /\ UNCHANGED <<logs, reader, marks>>
  BY <1>1, <1>2, StillTail, JobsKeepTheirDeployment DEF logs, reader, marks, TailTypes
<1>3. CASE KillTail
  BY <1>1, <1>3, StillTail DEF KillTail, Restart, Enter, logs, marks, TailTypes, Off
<1>4. CASE \E e \in Executions, f \in BOOLEAN : StreamLogs(e, f)
  BY <1>1, <1>4, StillTail DEF StreamLogs, Enter, logs, marks, TailTypes, Off
<1>5. CASE AwaitLogStream
  BY <1>1, <1>5, StillTail DEF AwaitLogStream, Enter, logs, marks, TailTypes, Off
<1>6. CASE Check
  BY <1>1, <1>6, StillTail DEF Check, Enter, logs, marks, TailTypes, Off
<1>7. CASE PageFails \/ CheckFails \/ TimeOut
  BY <1>1, <1>7, StillTail DEF PageFails, CheckFails, TimeOut, Enter, vars, logs, marks, TailTypes, Off
<1>8. CASE UNCHANGED tailVars
  BY <1>1, <1>8, StillTail DEF tailVars, vars, logs, reader, marks, TailTypes
<1> QED BY <1>2, <1>3, <1>4, <1>5, <1>6, <1>7, <1>8

LEMMA TailStart == TailInit => TailInv
<1> SUFFICES ASSUME TailInit PROVE TailInv
  OBVIOUS
<1>1. /\ writer = <<>> /\ visible = {} /\ source = None /\ phase = "idle" /\ follow = FALSE
      /\ since = {} /\ page = <<>> /\ yielded = <<>>
      /\ repeated = {} /\ answered = {} /\ late = {}
  BY DEF TailInit
<1>2. TailTypes
  <2>1. writer \in Seq(Nat) /\ yielded \in Seq(Entries) /\ page \in Seq(Entries) /\ Len(writer) = 0
    BY <1>1
  <2>2. Len(Stamps) \in Nat
    BY LogTailAssumption
  <2>3. Len(writer) <= Len(Stamps)
    BY <2>1, <2>2
  <2>4. /\ visible \subseteq DOMAIN writer /\ late \subseteq visible /\ answered \subseteq visible
        /\ repeated \subseteq visible /\ source \in Executions \union {None}
    BY <1>1
  <2>5. phase \in Off \union {"await", "page", "yield", "check"} /\ follow \in BOOLEAN
    BY <1>1 DEF Off
  <2>6. since = {}
    BY <1>1
  <2> QED BY <2>1, <2>3, <2>4, <2>5, <2>6 DEF TailTypes
<1>3. /\ ToSet(yielded) = {} /\ ToSet(page) = {} /\ Ordered(yielded) /\ Ordered(page)
      /\ DOMAIN writer = {}
  BY <1>1 DEF ToSet, Ordered
<1>4. 1 .. 0 = {} /\ 0 \in Nat
  OBVIOUS
<1>5. BatchTail /\ PodTail /\ CloudRunTail
  BY <1>1, <1>3, <1>4 DEF BatchTail, PodTail, CloudRunTail
<1>6. OrderInv /\ WholeInv /\ PhaseInv
  BY <1>1, <1>3 DEF OrderInv, WholeInv, Given, PhaseInv
<1> QED BY <1>2, <1>5, <1>6 DEF TailInv, PagesInv

LEMMA TailStep == JobsInv /\ TailInv /\ [TailNext]_tailVars => TailInv'
<1> SUFFICES ASSUME JobsInv, TailInv, [TailNext]_tailVars PROVE TailInv'
  OBVIOUS
<1>1. CASE \/ (Engine \/ Work) /\ UNCHANGED <<logs, reader, marks>>
           \/ KillTail
           \/ \E e \in Executions, f \in BOOLEAN : StreamLogs(e, f)
           \/ AwaitLogStream \/ Check \/ PageFails \/ CheckFails \/ TimeOut
           \/ UNCHANGED tailVars
  BY <1>1, OtherKeeps
<1>2. CASE \E e \in Executions : Write(e)
  BY <1>2, WriteKeeps
<1>3. CASE \E k \in Entries : Ingest(k)
  BY <1>3, IngestKeeps
<1>4. CASE AwaitPod \/ Yield
  BY <1>4, AwaitPodKeeps, YieldKeeps
<1>5. CASE CloudRunPage \/ BatchPage \/ PodLines
  BY <1>5, CloudRunPageKeeps, BatchPageKeeps, PodLinesKeeps
<1> QED BY <1>1, <1>2, <1>3, <1>4, <1>5 DEF TailNext, Advance

LEMMA TailInvariant == TailSpec => []TailInv
<1>1. TailInit => TailInv
  BY TailStart
<1>2. JobsInv /\ TailInv /\ [TailNext]_tailVars => TailInv'
  BY TailStep
<1> QED BY <1>1, <1>2, JobsInvariant, PTL DEF TailSpec

LEMMA SeqOfItsElements ==
    ASSUME NEW seq \in Seq(Entries), NEW S, ToSet(seq) \subseteq S
    PROVE  seq \in Seq(S)
<1>1. Len(seq) \in Nat /\ seq \in [1 .. Len(seq) -> Entries] /\ DOMAIN seq = 1 .. Len(seq)
  OBVIOUS
<1>2. \A i \in 1 .. Len(seq) : seq[i] \in S
  BY <1>1 DEF ToSet
<1> QED BY <1>1, <1>2

\* The variables of the reader and of the log service keep their type; what is
\* yielded was written, and the log service had made it visible.
THEOREM TailTypeCorrect == TailSpec => []TailTypeOK
<1>1. TailInv => TailTypeOK
  <2> SUFFICES ASSUME TailInv PROVE TailTypeOK
    OBVIOUS
  <2>1. since \subseteq Nat /\ Cardinality(since) <= 1
    <3>1. CASE since = {}
      BY <3>1, FS_EmptySet
    <3>2. CASE \E t \in Nat : since = {t}
      <4>1. PICK t \in Nat : since = {t}
        BY <3>2
      <4>2. Cardinality({t}) = 1
        BY FS_Singleton
      <4> QED BY <4>1, <4>2
    <3> QED BY <3>1, <3>2 DEF TailInv, TailTypes
  <2>2. page \in Seq(visible) /\ yielded \in Seq(visible)
    <3>1. ToSet(page) \subseteq visible /\ ToSet(yielded) \subseteq visible
      BY DEF TailInv, TailTypes, PagesInv, WholeInv, Given
    <3>2. page \in Seq(Entries) /\ yielded \in Seq(Entries)
      BY DEF TailInv, TailTypes
    <3> QED BY <3>1, <3>2, SeqOfItsElements
  <2> QED BY <2>1, <2>2 DEF TailInv, TailTypes, PhaseInv, TailTypeOK
<1> QED BY <1>1, TailInvariant, PTL

\* TailIsFaithful, for any entries and timestamps, whenever the log service lets
\* them be seen and however many runs a job has: stream_logs yields the output (of
\* the one pod) in the order of its timestamps, once but for what has no insert id;
\* and a reader that has read to the end has yielded all there was to see when the
\* log service answered last, but for what came late.
THEOREM TailCorrect == TailSpec => []TailIsFaithful
<1>1. TailInv => TailIsFaithful
  <2> SUFFICES ASSUME TailInv PROVE TailIsFaithful
    OBVIOUS
  <2>1. /\ Ordered(yielded)
        /\ \A k \in ToSet(yielded), j \in ToSet(page) : Stamps[k] <= Stamps[j]
        /\ repeated \subseteq Anonymous /\ (repeated # {} => adapter = "cloudrun")
    BY DEF TailInv, PagesInv, OrderInv
  <2>2. Given = (OfTheSource \intersect answered) \ late
    BY DEF TailInv, PagesInv, WholeInv
  <2>3. phase = "done" => Given = ToSet(yielded)
    BY DEF TailInv, PhaseInv, Given, ToSet
  <2> QED BY <2>1, <2>2, <2>3 DEF TailIsFaithful, Given
<1> QED BY <1>1, TailInvariant, PTL
=============================================================================
