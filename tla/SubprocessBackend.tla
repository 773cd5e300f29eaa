------------------------- MODULE SubprocessBackend -------------------------
(***************************************************************************)
(* SubprocessJobBackend (taskferry/backends/subprocess.py): jobs as local  *)
(* child processes.  The record of a job is recomputed from the child only *)
(* when somebody asks (_refresh_locked), the same place stops a child that *)
(* is over its time budget, and the backend's lock is held while a child   *)
(* is being stopped.                                                       *)
(*                                                                         *)
(* Of a child's output the model keeps how many chunks it wrote.           *)
(***************************************************************************)
EXTENDS Naturals, FiniteSets, ExecutionStates

CONSTANTS Jobs,      \* the ids new_execution_id will mint
          Clients,   \* threads calling the backend's public methods
          Budgeted,  \* jobs whose spec.timeout has a number of seconds
          MaxOutput  \* chunks each job's child writes at most

Free == "free"

ASSUME SubprocessAssumption ==
    MaxOutput \in [Jobs -> Nat] /\ Free \notin Clients

VARIABLES
    unused,     \* ids not minted yet
    child,      \* "none", "alive", or its return code: "zero" or "nonzero"
    signal,     \* the strongest signal a living child has been sent
    overdue,    \* its wall-clock budget has passed
    written,    \* chunks in its log file
    records,    \* the keys of _records
    state,      \* record.execution.state (Absent before the record exists)
    verdict,    \* record.execution.result.error ("none" without a result)
    cancelled,  \* record.cancelled
    timed_out,  \* record.timed_out
    lock,       \* _lock: a client or Free
    pc, op, job, \* each client's step, method and argument; what a call
                \* answers is a function of the state in which it returns
    consumed,   \* chunks a stream_logs call has yielded
    todo        \* the records a close call still has to stop

process == <<child, signal, overdue, written>>
record  == <<state, verdict, cancelled, timed_out>>
client  == <<pc, op, job, consumed, todo>>
vars    == <<unused, process, records, record, lock, client>>

Methods == {"none", "submit", "get", "wait", "cancel", "stream", "close"}

Steps == {"idle", "insert", "poll", "grace", "kill_wait", "read", "drain",
          "drained", "close_next", "close_grace"}

Verdicts == {"none", "ok", "exit_code", "cancelled", "timed_out"}

TypeOK ==
    /\ unused \subseteq Jobs
    /\ child \in [Jobs -> {"none", "alive", "zero", "nonzero"}]
    /\ signal \in [Jobs -> {"none", "term", "kill"}]
    /\ overdue \in [Jobs -> BOOLEAN]
    /\ written \in [Jobs -> Nat]
    /\ records \subseteq Jobs
    /\ state \in [Jobs -> {Absent, "running"} \union Terminal]
    /\ verdict \in [Jobs -> Verdicts]
    /\ cancelled \in [Jobs -> BOOLEAN]
    /\ timed_out \in [Jobs -> BOOLEAN]
    /\ lock \in Clients \union {Free}
    /\ pc \in [Clients -> Steps]
    /\ op \in [Clients -> Methods]
    /\ job \in [Clients -> Jobs \union {Absent}]
    /\ consumed \in [Clients -> Nat]
    /\ todo \in [Clients -> SUBSET Jobs]

Init ==
    /\ unused = Jobs
    /\ child = [j \in Jobs |-> "none"]
    /\ signal = [j \in Jobs |-> "none"]
    /\ overdue = [j \in Jobs |-> FALSE]
    /\ written = [j \in Jobs |-> 0]
    /\ records = {}
    /\ state = [j \in Jobs |-> Absent]
    /\ verdict = [j \in Jobs |-> "none"]
    /\ cancelled = [j \in Jobs |-> FALSE]
    /\ timed_out = [j \in Jobs |-> FALSE]
    /\ lock = Free
    /\ pc = [c \in Clients |-> "idle"]
    /\ op = [c \in Clients |-> "none"]
    /\ job = [c \in Clients |-> Absent]
    /\ consumed = [c \in Clients |-> 0]
    /\ todo = [c \in Clients |-> {}]

-----------------------------------------------------------------------------
(* The child and the clock. *)

Write(j) ==
    /\ child[j] = "alive"
    /\ written[j] < MaxOutput[j]
    /\ written' = [written EXCEPT ![j] = @ + 1]
    /\ UNCHANGED <<unused, child, signal, overdue, records, record, lock, client>>

\* A child may exit at any time; one that was killed has no zero to return.
Exit(j) ==
    /\ child[j] = "alive"
    /\ \E code \in IF signal[j] = "kill" THEN {"nonzero"} ELSE {"zero", "nonzero"} :
          child' = [child EXCEPT ![j] = code]
    /\ signal' = [signal EXCEPT ![j] = "none"]
    /\ UNCHANGED <<unused, overdue, written, records, record, lock, client>>

\* The condition of _exceeded_timeout becomes true; it is looked at only while
\* the child runs.
Expire(j) ==
    /\ j \in Budgeted
    /\ child[j] = "alive"
    /\ ~overdue[j]
    /\ overdue' = [overdue EXCEPT ![j] = TRUE]
    /\ UNCHANGED <<unused, child, signal, written, records, record, lock, client>>

-----------------------------------------------------------------------------
(* Clients: a call is entered, moves on, and returns. *)

\* a client whose log stream has ended is as free as an idle one
AtRest(c) == pc[c] \in {"idle", "drained"}

Call(c, method, j, step) ==
    /\ AtRest(c)
    /\ pc' = [pc EXCEPT ![c] = step]
    /\ op' = [op EXCEPT ![c] = method]
    /\ job' = [job EXCEPT ![c] = j]
    /\ consumed' = [consumed EXCEPT ![c] = 0]
    /\ UNCHANGED todo

Goto(c, step) ==
    /\ pc' = [pc EXCEPT ![c] = step]
    /\ UNCHANGED <<op, job, consumed, todo>>

Return(c) ==
    /\ pc' = [pc EXCEPT ![c] = "idle"]
    /\ op' = [op EXCEPT ![c] = "none"]
    /\ job' = [job EXCEPT ![c] = Absent]
    /\ consumed' = [consumed EXCEPT ![c] = 0]
    /\ UNCHANGED todo

\* a call that ends at once, with an exception
CallAndReturn(c) == AtRest(c) /\ Return(c)

-----------------------------------------------------------------------------
(* _submit: Popen, then the locked insertion of the record. *)

Submit(c, j) ==
    /\ j \in unused
    /\ \/ /\ Call(c, "submit", j, "insert")
          /\ unused' = unused \ {j}
          /\ child' = [child EXCEPT ![j] = "alive"]
       \/ \* no argv, or OSError out of Popen: nobody learns of the id
          /\ CallAndReturn(c)
          /\ UNCHANGED <<unused, child>>
    /\ UNCHANGED <<signal, overdue, written, records, record, lock>>

SubmitInsert(c) ==
    /\ pc[c] = "insert"
    /\ lock = Free
    /\ records' = records \union {job[c]}
    /\ state' = [state EXCEPT ![job[c]] = "running"]
    /\ Return(c)
    /\ UNCHANGED <<unused, process, verdict, cancelled, timed_out, lock>>

-----------------------------------------------------------------------------
(* _get, _wait (and _result, which is _wait), _cancel and stream_logs all   *)
(* start with _record; the first three then take the lock to look at the    *)
(* child, stream_logs reads the log first.                                  *)

\* An id is known once submit has returned it.
Known(j) == state[j] # Absent

Begin(c, j, method) ==
    /\ Known(j)
    /\ lock = Free
    /\ \/ /\ j \notin records
          /\ CallAndReturn(c)
       \/ /\ j \in records
          /\ Call(c, method, j, IF method = "stream" THEN "read" ELSE "poll")
    /\ UNCHANGED <<unused, process, records, record, lock>>

Ended(j) == child[j] \in {"zero", "nonzero"}

\* _state_for and _result_for
StateFor(j, stop_flag, cancel_flag) ==
    IF stop_flag THEN "timed_out"
    ELSE IF cancel_flag THEN "cancelled"
    ELSE IF child[j] = "zero" THEN "succeeded" ELSE "failed"

ResultFor(j, stop_flag, cancel_flag) ==
    IF stop_flag THEN "timed_out"
    ELSE IF cancel_flag THEN "cancelled"
    ELSE IF child[j] = "zero" THEN "ok" ELSE "exit_code"

\* What a terminal state means to the caller: stream_logs reads once more.
Report(c) == IF op[c] = "stream" THEN Goto(c, "drain") ELSE Return(c)

\* The end of _refresh_locked, for a child that has ended; _cancel sets
\* record.cancelled just before it.
Settle(c) ==
    LET j    == job[c]
        flag == cancelled[j] \/ op[c] = "cancel"
        s    == StateFor(j, timed_out[j], flag)
    IN  /\ cancelled' = [cancelled EXCEPT ![j] = flag]
        /\ state' = [state EXCEPT ![j] = s]
        /\ verdict' = [verdict EXCEPT ![j] = ResultFor(j, timed_out[j], flag)]
        /\ Report(c)
        /\ lock' = Free
        /\ UNCHANGED <<unused, process, records, timed_out>>

\* What a look at a child that is still running comes to: get answers
\* RUNNING, wait and stream_logs try again until their own timeout.
StillRunning(c) ==
    \/ op[c] = "get" /\ Return(c)
    \/ op[c] = "wait" /\ (Goto(c, "poll") \/ Return(c))
    \/ op[c] = "stream" /\ (Goto(c, "read") \/ Return(c))

\* Fault: recompute the state of an execution that is terminal already.
PollTerminalAgain(c) ==
    /\ pc[c] = "poll" /\ lock = Free
    /\ state[job[c]] \in Terminal
    /\ Settle(c)

\* _refresh_locked and _cancel under the lock, up to the first wait.
PollTerminal(c) ==
    /\ pc[c] = "poll" /\ lock = Free
    /\ state[job[c]] \in Terminal
    /\ Report(c)
    /\ UNCHANGED <<unused, process, records, record, lock>>

PollEnded(c) ==
    /\ pc[c] = "poll" /\ lock = Free
    /\ state[job[c]] = "running"
    /\ Ended(job[c])
    /\ Settle(c)

PollRunning(c) ==
    LET j == job[c]
    IN  /\ pc[c] = "poll" /\ lock = Free
        /\ state[j] = "running"
        /\ child[j] = "alive"
        /\ op[c] # "cancel" /\ ~overdue[j]
        /\ StillRunning(c)
        /\ UNCHANGED <<unused, process, records, record, lock>>

\* Fault: terminate the child and not wait for it.
PollStopNoWait(c) ==
    LET j == job[c]
        s == IF op[c] = "cancel" THEN "cancelled" ELSE "timed_out"
    IN  /\ pc[c] = "poll" /\ lock = Free
        /\ state[j] = "running"
        /\ child[j] = "alive"
        /\ op[c] = "cancel" \/ overdue[j]
        /\ timed_out' = [timed_out EXCEPT ![j] = op[c] # "cancel"]
        /\ signal' = [signal EXCEPT ![j] = "term"]
        /\ state' = [state EXCEPT ![j] = s]
        /\ verdict' = [verdict EXCEPT ![j] = s]
        /\ Report(c)
        /\ UNCHANGED <<unused, child, overdue, written, records, cancelled, lock>>

\* _stop: terminate and wait, with the lock held.
PollStop(c) ==
    LET j == job[c]
    IN  /\ pc[c] = "poll" /\ lock = Free
        /\ state[j] = "running"
        /\ child[j] = "alive"
        /\ op[c] = "cancel" \/ overdue[j]
        /\ timed_out' = [timed_out EXCEPT ![j] = op[c] # "cancel"]
        /\ signal' = [signal EXCEPT ![j] = IF @ = "kill" THEN @ ELSE "term"]
        /\ lock' = c
        /\ Goto(c, "grace")
        /\ UNCHANGED <<unused, child, overdue, written, records, state, verdict,
                       cancelled>>

\* Fault: after the grace period wait again instead of killing the child.
StopNoKill(c) ==
    /\ pc[c] = "grace"
    /\ child[job[c]] = "alive"
    /\ Goto(c, "kill_wait")
    /\ UNCHANGED <<unused, process, records, record, lock>>

\* TERMINATE_GRACE_SECONDS are over: kill, and wait without a timeout.
StopKill(c) ==
    /\ pc[c] = "grace"
    /\ child[job[c]] = "alive"
    /\ signal' = [signal EXCEPT ![job[c]] = "kill"]
    /\ Goto(c, "kill_wait")
    /\ UNCHANGED <<unused, child, overdue, written, records, record, lock>>

StopReaped(c) ==
    /\ pc[c] \in {"grace", "kill_wait"}
    /\ Ended(job[c])
    /\ Settle(c)

\* stream_logs: read what is there without the lock; with nothing new, look
\* at the child.
StreamRead(c) ==
    LET j == job[c]
    IN  /\ pc[c] = "read"
        /\ IF consumed[c] < written[j]
           THEN /\ consumed' = [consumed EXCEPT ![c] = written[j]]
                /\ UNCHANGED <<pc, op, job, todo>>
           ELSE Goto(c, "poll")
        /\ UNCHANGED <<unused, process, records, record, lock>>

\* Fault: stop at the terminal state without the last read.
StreamDrainNothing(c) ==
    /\ pc[c] = "drain"
    /\ Goto(c, "drained")
    /\ UNCHANGED <<unused, process, records, record, lock>>

StreamDrain(c) ==
    /\ pc[c] = "drain"
    /\ consumed' = [consumed EXCEPT ![c] = written[job[c]]]
    /\ pc' = [pc EXCEPT ![c] = "drained"]
    /\ UNCHANGED <<unused, process, records, record, lock, op, job, todo>>

-----------------------------------------------------------------------------
(* close: forget the records under the lock, then stop the children one by  *)
(* one without it.                                                          *)

Close(c) ==
    /\ AtRest(c)
    /\ lock = Free
    /\ records' = {}
    /\ todo' = [todo EXCEPT ![c] = records]
    /\ pc' = [pc EXCEPT ![c] = "close_next"]
    /\ op' = [op EXCEPT ![c] = "close"]
    /\ job' = [job EXCEPT ![c] = Absent]
    /\ consumed' = [consumed EXCEPT ![c] = 0]
    /\ UNCHANGED <<unused, process, record, lock>>

CloseNext(c) ==
    /\ pc[c] = "close_next"
    /\ \/ /\ todo[c] = {}
          /\ Return(c)
          /\ UNCHANGED signal
       \/ \E j \in todo[c] :
             /\ todo' = [todo EXCEPT ![c] = @ \ {j}]
             /\ \/ /\ Ended(j)
                   /\ UNCHANGED <<pc, op, job, consumed, signal>>
                \/ /\ child[j] = "alive"
                   /\ signal' = [signal EXCEPT ![j] = IF @ = "kill" THEN @ ELSE "term"]
                   /\ pc' = [pc EXCEPT ![c] = "close_grace"]
                   /\ job' = [job EXCEPT ![c] = j]
                   /\ UNCHANGED <<op, consumed>>
    /\ UNCHANGED <<unused, child, overdue, written, records, record, lock>>

\* The child ended within the grace period, or is killed and left to die.
CloseGrace(c) ==
    /\ pc[c] = "close_grace"
    /\ \/ Ended(job[c]) /\ UNCHANGED signal
       \/ /\ child[job[c]] = "alive"
          /\ signal' = [signal EXCEPT ![job[c]] = "kill"]
    /\ Goto(c, "close_next")
    /\ UNCHANGED <<unused, child, overdue, written, records, record, lock>>

-----------------------------------------------------------------------------
Child(j) == Write(j) \/ Exit(j) \/ Expire(j)

\* The steps a client takes without being asked again.
Continue(c) ==
    \/ SubmitInsert(c)
    \/ PollTerminal(c) \/ PollEnded(c) \/ PollRunning(c) \/ PollStop(c)
    \/ StopKill(c) \/ StopReaped(c)
    \/ StreamRead(c) \/ StreamDrain(c)
    \/ CloseNext(c) \/ CloseGrace(c)

Next ==
    \/ \E j \in Jobs : Child(j)
    \/ \E c \in Clients :
          \/ Continue(c)
          \/ Close(c)
          \/ \E j \in Jobs :
                \/ Submit(c, j)
                \/ \E m \in {"get", "wait", "cancel", "stream"} : Begin(c, j, m)

Spec == Init /\ [][Next]_vars

\* Threads inside a method are scheduled again, a killed child dies, time
\* passes.  A child that was only asked to terminate need not do anything,
\* and nobody has to call a method.
Fairness ==
    /\ \A c \in Clients : WF_vars(Continue(c))
    /\ \A j \in Budgeted : WF_vars(Expire(j))
    /\ \A j \in Jobs : WF_vars(signal[j] = "kill" /\ Exit(j))

FairSpec == Spec /\ Fairness
-----------------------------------------------------------------------------
(* Properties. *)

\* An execution reported finished, cancelled or timed out has no process left:
\* cancel() "really does stop the work" (docs/concurrency.md), and no answer
\* is given between the signal and the child's end.
TerminalIsGone == \A j \in Jobs : state[j] \in Terminal => Ended(j)

\* _result asserts that every terminal state sets a result; it has to be the
\* one that belongs to the state.
VerdictMatchesState ==
    \A j \in Jobs :
        /\ state[j] \in {Absent, "running"} => verdict[j] = "none"
        /\ state[j] = "succeeded" => verdict[j] = "ok" /\ child[j] = "zero"
        /\ state[j] = "failed" => verdict[j] = "exit_code" /\ child[j] = "nonzero"
        /\ state[j] = "cancelled" => verdict[j] = "cancelled"
        /\ state[j] = "timed_out" => verdict[j] = "timed_out" /\ overdue[j]

\* A stream that ended on its own yielded all the child ever wrote, although
\* the log is read without the lock.
StreamIsComplete ==
    \A c \in Clients :
        pc[c] = "drained" => consumed[c] = written[job[c]]

\* No child is forgotten while it lives on: it has ended, is being killed, or a
\* close call still has it on its list.
ForgottenIsStopped ==
    \A j \in Jobs : Known(j) /\ j \notin records =>
        \/ Ended(j) \/ signal[j] = "kill"
        \/ \E c \in Clients :
              j \in todo[c] \/ (pc[c] = "close_grace" /\ job[c] = j)

\* What the backend says of a job is true of its child: ended when it says
\* so, with the outcome it says, and stopped before it is forgotten.
ReportIsTrue == TerminalIsGone /\ VerdictMatchesState /\ ForgottenIsStopped

\* get, cancel, submit and close return, even while another thread holds the
\* lock to stop a child that ignores SIGTERM.
CallsReturn ==
    \A c \in Clients :
        (~ AtRest(c) /\ op[c] \notin {"wait", "stream"}) ~> AtRest(c)

\* A job over its budget is stopped if somebody is looking at it.
ObservedBudgetIsEnforced ==
    \A j \in Budgeted :
        (overdue[j] /\ \E c \in Clients : job[c] = j /\ pc[c] = "poll") ~> Ended(j)

\* Nobody waits for ever, not for a call and not for the end of a job that is
\* out of time and looked at.
NobodyWaitsForever == CallsReturn /\ ObservedBudgetIsEnforced

\* What callers see of the jobs is a legal execution life cycle.
Observed == INSTANCE Lifecycle WITH
    Executions <- Jobs,
    state <- [j \in Jobs |-> IF j \in records THEN state[j] ELSE Absent],
    forgotten <- {j \in Jobs : Known(j) /\ j \notin records}

ImplementsLifecycle == Observed!LifecycleSpec
=============================================================================
