---------------------------- MODULE BrokerTasks ----------------------------
(***************************************************************************)
(* The adapters over worker-based engines (taskferry_celery,                *)
(* taskferry_procrastinate, taskferry_dramatiq): one piece of work that an  *)
(* application submits with a retry policy, the envelope that carries the   *)
(* policy to a worker (taskferry/envelope.py), the dispatcher that turns a  *)
(* failure into a request for a retry, and the state get() reports.         *)
(*                                                                         *)
(* The broker is external.  It holds messages <<job, retries>> and delivers *)
(* each to one worker; a worker acknowledges after the outcome was stored,  *)
(* so with late acknowledgement (Redeliver) a crash puts a copy back.  In   *)
(* Procrastinate the job table is the queue, and one statement both stores  *)
(* the outcome and releases the job.                                        *)
(***************************************************************************)
EXTENDS Naturals, Sequences, Bags, ExecutionStates, RetryPolicy

CONSTANTS Setups,      \* the engines, and what is configured and asked of them
          Exceptions,  \* what a task may raise, as sets of type names
          Workers,
          MaxJobs,     \* submissions of the work, bounds the application
          MaxCrashes

ASSUME BrokerAssumption ==
    /\ \A s \in Setups : /\ s.engine \in {"celery", "procrastinate", "dramatiq"}
                        /\ s.max_retries \in Nat
                        /\ s.redeliver \in BOOLEAN
                        /\ s.policy.owner \in Owners
                        /\ s.policy.max_attempts \in Nat \ {0}
    /\ MaxJobs \in Nat \ {0}
    /\ MaxCrashes \in Nat

Jobs == 1 .. MaxJobs

Idle == <<>>   \* no message

Stages == {"waiting", "started", "again", "succeeded", "failed", "revoked"}

VARIABLES setup,
          submitted,  \* how many jobs were submitted for it
          sent,       \* what each job carries: its retry field and max_retries
          queue,      \* the messages at the broker, a bag of <<job, retries>>
          stage,      \* each job's record at the engine
          revoked,    \* jobs the workers were told to discard
          worker,     \* the message each worker holds, or Idle
          stored,     \* workers that have stored their outcome
          seen,       \* the state the application was last told of each job
          runs,       \* how often the function was called, over all jobs
          crashes

brokerVars == <<setup, submitted, sent, queue, stage, revoked, worker, stored,
          seen, runs, crashes>>

broker == <<queue, stage, revoked>>

application == <<setup, submitted, sent, seen>>

Nothing == "nothing"

Engine == setup.engine

Policy == setup.policy             \* the policy the work is submitted with

EngineRetries == setup.max_retries \* the engine's own limit where none is sent

Redeliver == setup.redeliver       \* whether messages are acknowledged late

BrokerInit ==
    /\ setup \in Setups
    /\ submitted = 0
    /\ sent = <<>>
    /\ queue = EmptyBag
    /\ stage = [j \in Jobs |-> Nothing]
    /\ revoked = {}
    /\ worker = [w \in Workers |-> Idle]
    /\ stored = {}
    /\ seen = [j \in Jobs |-> Absent]
    /\ runs = 0
    /\ crashes = 0

-----------------------------------------------------------------------------
\* The envelope's retry field.

\* encode_retry: the set of what is sent, empty for None; the owner is not
EncodeRetry(p) ==
    IF ~ Enabled(p) THEN {}
    ELSE {[max_attempts |-> p.max_attempts, backoff |-> p.backoff,
           initial_delay |-> p.initial_delay, max_delay |-> p.max_delay,
           retry_on |-> p.retry_on, no_retry_on |-> p.no_retry_on]}

\* NO_RETRY
NoRetry == [max_attempts |-> 1, backoff |-> "exponential", initial_delay |-> 1,
            max_delay |-> {300}, retry_on |-> {}, no_retry_on |-> {},
            owner |-> "none"]

\* decode_retry: the reader's policy has the default owner
DecodeRetry(field) ==
    IF field = {} THEN NoRetry
    ELSE LET raw == CHOOSE r \in field : TRUE IN
         [max_attempts |-> raw.max_attempts, backoff |-> raw.backoff,
          initial_delay |-> raw.initial_delay, max_delay |-> raw.max_delay,
          retry_on |-> raw.retry_on, no_retry_on |-> raw.no_retry_on,
          owner |-> "backend"]

\* Fault: attempts are sent as retries.
MessageAttempts(p) ==
    [retry |-> EncodeRetry(p),
     max_retries |-> IF Engine = "dramatiq" /\ Enabled(p)
                     THEN EngineAttempts(p) ELSE EngineRetries]

\* what _submit hands to the engine; only Dramatiq is given a limit
Message(p) ==
    [retry |-> EncodeRetry(p),
     max_retries |-> IF Engine = "dramatiq" /\ Enabled(p)
                     THEN EngineAttempts(p) - 1 ELSE EngineRetries]

-----------------------------------------------------------------------------
\* What an engine calls the stages of a job, and the state maps.

Word(s) ==
    IF Engine = "procrastinate"
    THEN [waiting |-> "todo", started |-> "doing", again |-> "todo",
          succeeded |-> "succeeded", failed |-> "failed",
          revoked |-> "cancelled"][s]
    ELSE [waiting |-> "PENDING", started |-> "STARTED", again |-> "RETRY",
          succeeded |-> "SUCCESS", failed |-> "FAILURE",
          revoked |-> "REVOKED"][s]

\* _STATE_MAP of the Celery backend
CeleryMap == [PENDING |-> "queued", RECEIVED |-> "queued",
              STARTED |-> "running", RETRY |-> "running",
              SUCCESS |-> "succeeded", FAILURE |-> "failed",
              REVOKED |-> "cancelled"]

\* _STATUS_MAP of the Procrastinate backend
ProcrastinateMap == [todo |-> "queued", doing |-> "running",
                     succeeded |-> "succeeded", failed |-> "failed",
                     cancelled |-> "cancelled", aborting |-> "running",
                     aborted |-> "cancelled"]

\* Fault: a job that waits for its next attempt is shown as queued.
MapStateRequeued(word) ==
    LET map == [RETRY |-> "queued"] @@ CeleryMap @@ ProcrastinateMap IN map[word]

\* map_state, map_status
MapState(word) ==
    LET map == IF Engine = "procrastinate" THEN ProcrastinateMap ELSE CeleryMap
    IN  IF word \in DOMAIN map THEN map[word] ELSE "unknown"

-----------------------------------------------------------------------------
\* The application.

\* _submit, for the first time, or by an application that owns the retry and
\* has seen the last attempt fail
Submit ==
    /\ submitted < MaxJobs
    /\ \/ submitted = 0
       \/ /\ Policy.owner = "application"
          /\ 0 < submitted
          /\ submitted < Policy.max_attempts
          /\ seen[submitted] = "failed"
    /\ submitted' = submitted + 1
    /\ sent' = Append(sent, Message(Policy))
    /\ queue' = queue (+) SetToBag({<<submitted', 0>>})
    /\ stage' = [stage EXCEPT ![submitted'] = "waiting"]
    /\ seen' = [seen EXCEPT ![submitted'] = "queued"]
    /\ UNCHANGED <<setup, revoked, worker, stored, runs, crashes>>

\* _get; Dramatiq does not offer it
Get(j) ==
    /\ Engine # "dramatiq"
    /\ j <= submitted
    /\ seen' = [seen EXCEPT ![j] = MapState(Word(stage[j]))]
    /\ UNCHANGED <<setup, submitted, sent, broker, worker, stored, runs,
                   crashes>>

\* _cancel of the Celery backend: revoke tells the workers, and _get reads
\* what is recorded
Revoke(j) ==
    /\ Engine = "celery"
    /\ j <= submitted
    /\ revoked' = revoked \union {j}
    /\ seen' = [seen EXCEPT ![j] = MapState(Word(stage[j]))]
    /\ UNCHANGED <<setup, submitted, sent, queue, stage, worker, stored,
                   runs, crashes>>

\* _cancel of the Procrastinate backend: cancel_job_by_id changes a job that
\* nobody has taken, and _get reads what became of it
CancelJob(j) ==
    /\ Engine = "procrastinate"
    /\ j <= submitted
    /\ LET gone == IF Word(stage[j]) = "todo" THEN {j} ELSE {} IN
       /\ stage' = [i \in Jobs |-> IF i \in gone THEN "revoked" ELSE stage[i]]
       /\ queue' = SetToBag({m \in BagToSet(queue) : m[1] \notin gone})
    /\ seen' = [seen EXCEPT ![j] = MapState(Word(stage'[j]))]
    /\ UNCHANGED <<setup, submitted, sent, revoked, worker, stored, runs,
                   crashes>>

-----------------------------------------------------------------------------
\* The workers.

\* a message is delivered and its function called; Celery records the start
\* only if it was told to
Start(w) ==
    /\ worker[w] = Idle
    /\ \E m \in BagToSet(queue) :
           /\ m[1] \notin revoked
           /\ queue' = queue (-) SetToBag({m})
           /\ worker' = [worker EXCEPT ![w] = m]
           /\ \E s \in {"started"} \union
                       (IF Engine = "celery" THEN {stage[m[1]]} ELSE {}) :
                  stage' = [stage EXCEPT ![m[1]] = s]
    /\ runs' = runs + 1
    /\ UNCHANGED <<application, revoked, stored, crashes>>

\* a revoked message is recorded and dropped on delivery
Discard(w) ==
    /\ worker[w] = Idle
    /\ \E m \in BagToSet(queue) :
           /\ m[1] \in revoked
           /\ queue' = queue (-) SetToBag({m})
           /\ stage' = [stage EXCEPT ![m[1]] = "revoked"]
    /\ UNCHANGED <<application, revoked, worker, stored, runs, crashes>>

Busy(w) == worker[w] # Idle /\ w \notin stored

\* the outcome is stored, and except in Procrastinate acknowledged later
Settle(w, s) ==
    /\ stage' = [stage EXCEPT ![worker[w][1]] = s]
    /\ IF Engine = "procrastinate"
       THEN worker' = [worker EXCEPT ![w] = Idle] /\ UNCHANGED stored
       ELSE stored' = stored \union {w} /\ UNCHANGED worker

\* execute_message returns
Succeeds(w) ==
    /\ Busy(w)
    /\ Settle(w, "succeeded")
    /\ UNCHANGED <<application, queue, revoked, runs, crashes>>

\* _attempt_number and request.retries + 1: the attempt that has just failed
Attempt(m) == m[2] + 1

\* whether the dispatcher asks for a retry and the engine grants it; in
\* Dramatiq the engine decides alone
Retries(m, exc) ==
    LET message == sent[m[1]] IN
    /\ Engine # "dramatiq" =>
           ShouldRetry(DecodeRetry(message.retry), exc, Attempt(m))
    /\ Engine # "procrastinate" => m[2] < message.max_retries

\* Fault: the retry is recorded and the job not put back.
RaisesForgetful(w) ==
    /\ Busy(w)
    /\ \E exc \in Exceptions :
           Settle(w, IF Retries(worker[w], exc) THEN "again" ELSE "failed")
    /\ UNCHANGED <<application, queue, revoked, runs, crashes>>

\* execute_message raises
Raises(w) ==
    /\ Busy(w)
    /\ \E exc \in Exceptions :
           IF Retries(worker[w], exc)
           THEN /\ Settle(w, "again")
                /\ queue' = queue (+) SetToBag({<<worker[w][1], worker[w][2] + 1>>})
           ELSE Settle(w, "failed") /\ UNCHANGED queue
    /\ UNCHANGED <<application, revoked, runs, crashes>>

Ack(w) ==
    /\ w \in stored
    /\ stored' = stored \ {w}
    /\ worker' = [worker EXCEPT ![w] = Idle]
    /\ UNCHANGED <<application, broker, runs, crashes>>

Crash(w) ==
    /\ worker[w] # Idle
    /\ crashes < MaxCrashes
    /\ crashes' = crashes + 1
    /\ worker' = [worker EXCEPT ![w] = Idle]
    /\ stored' = stored \ {w}
    /\ queue' = IF Redeliver THEN queue (+) SetToBag({worker[w]}) ELSE queue
    /\ UNCHANGED <<application, stage, revoked, runs>>

Work(w) == Start(w) \/ Discard(w) \/ Succeeds(w) \/ Raises(w) \/ Ack(w)

BrokerNext ==
    \/ Submit
    \/ \E j \in Jobs : Get(j) \/ Revoke(j) \/ CancelJob(j)
    \/ \E w \in Workers : Work(w) \/ Crash(w)

BrokerSpec == BrokerInit /\ [][BrokerNext]_brokerVars

\* the engine's workers keep working
FairSpec == BrokerSpec /\ \A w \in Workers : WF_brokerVars(Work(w))

-----------------------------------------------------------------------------
BrokerTypeOK ==
    /\ setup \in Setups
    /\ submitted \in 0 .. MaxJobs
    /\ sent \in Seq({Message(Policy)}) /\ Len(sent) = submitted
    /\ stage \in [Jobs -> Stages \union {Nothing}]
    /\ \A j \in 1 .. submitted : stage[j] \in Stages
    /\ seen \in [Jobs -> State \union {Absent}]
    /\ IsABag(queue) /\ BagToSet(queue) \subseteq (1 .. submitted) \X Nat
    /\ revoked \subseteq Jobs
    /\ worker \in [Workers -> ((1 .. submitted) \X Nat) \union {Idle}]
    /\ stored \subseteq {w \in Workers : worker[w] # Idle}
    /\ runs \in Nat
    /\ crashes \in 0 .. MaxCrashes

\* "Exactly one layer retries": the function is called at most max_attempts
\* times in all, unless crashes make the broker deliver a message again, each
\* of which may cost another round of attempts.
RunsWithinPolicy == runs <= Policy.max_attempts * (1 + crashes)

\* What a worker decides from the envelope is what the submitter's policy
\* would decide, for every failure and attempt, delays included, unless the
\* application owns the retry: the envelope does not say who does.
IntentSurvivesTheWire ==
    Policy.owner # "application" =>
    \A j \in 1 .. submitted :
        LET there == DecodeRetry(sent[j].retry) IN
        \A a \in 1 .. Policy.max_attempts + 1, exc \in Exceptions :
            /\ ShouldRetry(there, exc, a) <=> ShouldRetry(Policy, exc, a)
            /\ ShouldRetry(Policy, exc, a) =>
                   DelayFor(there, a + 1) = DelayFor(Policy, a + 1)

\* A job whose policy lets every failure be retried is recorded as failed only
\* after max_attempts calls.
FailedIsExhausted ==
    \A j \in 1 .. submitted :
        (/\ Policy.owner = "backend"
         /\ \A exc \in Exceptions : ShouldRetry(Policy, exc, 0)
         /\ stage[j] = "failed")
        => runs >= Policy.max_attempts

\* The policy that decides at the worker is the one that was submitted, although
\* only a part of it is in the message: the function is called as often as it
\* grants, no more and no fewer, across crashes and repeated deliveries, and for
\* no failure or attempt would the submitter have decided differently.
SubmittedPolicyDecides == RunsWithinPolicy /\ FailedIsExhausted /\ IntentSurvivesTheWire

\* The states an application is told of one after the other form a legal
\* sequence (Execution.transitions_to), retries and cancellation included, but
\* for two cases: Procrastinate puts a job back to todo for a retry, and a
\* message acknowledged late may be delivered again after its job has ended.
SeenIsLegal ==
    [][\A j \in Jobs :
           \/ seen[j] = Absent
           \/ TransitionsTo(seen[j], seen'[j])
           \/ Engine = "procrastinate" /\ <<seen[j], seen'[j]>> = <<"running", "queued">>
           \/ Redeliver /\ crashes > 0]_brokerVars

\* Every submitted job reaches a terminal record: neither a retry nor a crash
\* loses it, unless the broker was told not to deliver again.
EveryJobSettles ==
    \A j \in Jobs :
        submitted >= j ~> \/ stage[j] \in {"succeeded", "failed", "revoked"}
                          \/ ~ Redeliver /\ crashes > 0
=============================================================================
