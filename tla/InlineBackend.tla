--------------------------- MODULE InlineBackend ---------------------------
(***************************************************************************)
(* InlineExecutionBackend (taskferry/backends/inline.py): submit runs the   *)
(* callable in the calling thread, retries included, and then records the   *)
(* finished execution in a bounded history of three parallel structures     *)
(* that no lock protects.  Several threads may call one backend; each       *)
(* operation on a dictionary or on the list is one step, as the             *)
(* interpreter's own lock makes it, and other threads run between them.     *)
(***************************************************************************)
EXTENDS Naturals, Sequences, FiniteSets, SequencesExt, RetryPolicy

CONSTANTS Callers,     \* threads
          Executions,  \* the ids new_execution_id will mint
          Policy,      \* Policy[e] is the retry policy of e's spec
          Exceptions,  \* what a callable may raise, as sets of type names
          History      \* the argument history of the constructor

ASSUME InlineAssumption ==
    /\ IsFiniteSet(Callers)
    /\ History \in Nat
    /\ \A e \in Executions : Policy[e].max_attempts \in Nat \ {0}

VARIABLES executions,  \* keys of _executions
          results,     \* keys of _results
          order,       \* _order
          attempt,     \* calls of e's callable, 0 before the submission
          outcome,     \* "none", "value" or "error" once submit has it
          closed,      \* whether close was ever called, which no code records
          pc,          \* where each thread is
          at,          \* the execution of its call
          evicted,     \* the execution it takes out of the history
          answer       \* how each thread's last call ended

vars == <<executions, results, order, attempt, outcome, closed, pc, at,
          evicted, answer>>

None == "none"

Init ==
    /\ executions = {}
    /\ results = {}
    /\ order = <<>>
    /\ attempt = [e \in Executions |-> 0]
    /\ outcome = [e \in Executions |-> None]
    /\ closed = FALSE
    /\ pc = [c \in Callers |-> "idle"]
    /\ at = [c \in Callers |-> None]
    /\ evicted = [c \in Callers |-> None]
    /\ answer = [c \in Callers |-> None]

history == <<executions, results, order>>

local == <<at, evicted, answer>>

Goto(c, label) == pc' = [pc EXCEPT ![c] = label]

\* a call that goes on after its first step
Enter(c, e, label) ==
    /\ pc[c] = "idle"
    /\ Goto(c, label)
    /\ at' = [at EXCEPT ![c] = e]
    /\ answer' = [answer EXCEPT ![c] = None]
    /\ UNCHANGED evicted

\* the end of a call: its local variables go out of scope
End(c, how) ==
    /\ Goto(c, "idle")
    /\ at' = [at EXCEPT ![c] = None]
    /\ evicted' = [evicted EXCEPT ![c] = None]
    /\ answer' = [answer EXCEPT ![c] = how]

-----------------------------------------------------------------------------
\* submit

Submit(c, e) ==
    /\ attempt[e] = 0
    /\ Enter(c, e, "call")
    /\ attempt' = [attempt EXCEPT ![e] = 1]
    /\ UNCHANGED <<history, outcome, closed>>

\* _remember is left at once when there is no history
Finish(c, how) ==
    /\ outcome' = [outcome EXCEPT ![at[c]] = how]
    /\ IF History = 0
       THEN End(c, "submitted")
       ELSE Goto(c, "execution") /\ UNCHANGED local

CallReturns(c) ==
    /\ pc[c] = "call"
    /\ Finish(c, "value")
    /\ UNCHANGED <<history, attempt, closed>>

CallRaises(c, exc) ==
    /\ pc[c] = "call"
    /\ LET e == at[c]
       IN  \/ /\ ShouldRetry(Policy[e], exc, attempt[e])
              /\ attempt' = [attempt EXCEPT ![e] = @ + 1]
              /\ UNCHANGED <<outcome, pc, local>>
           \/ /\ ~ ShouldRetry(Policy[e], exc, attempt[e])
              /\ Finish(c, "error")
              /\ UNCHANGED attempt
    /\ UNCHANGED <<history, closed>>

\* KeyboardInterrupt and the like pass through submit
CallEscapes(c) ==
    /\ pc[c] = "call"
    /\ End(c, "escaped")
    /\ UNCHANGED <<history, attempt, outcome, closed>>

RememberExecution(c) ==
    /\ pc[c] = "execution"
    /\ executions' = executions \union {at[c]}
    /\ Goto(c, "result")
    /\ UNCHANGED <<results, order, attempt, outcome, closed, local>>

RememberResult(c) ==
    /\ pc[c] = "result"
    /\ results' = results \union {at[c]}
    /\ Goto(c, "append")
    /\ UNCHANGED <<executions, order, attempt, outcome, closed, local>>

AppendOrder(c) ==
    /\ pc[c] = "append"
    /\ order' = Append(order, at[c])
    /\ Goto(c, "check")
    /\ UNCHANGED <<executions, results, attempt, outcome, closed, local>>

\* the condition of the while loop
CheckLength(c) ==
    /\ pc[c] = "check"
    /\ \/ Len(order) > History /\ Goto(c, "pop") /\ UNCHANGED local
       \/ Len(order) <= History /\ End(c, "submitted")
    /\ UNCHANGED <<history, attempt, outcome, closed>>

PopOrder(c) ==
    /\ pc[c] = "pop"
    /\ \/ /\ order # <<>>
          /\ evicted' = [evicted EXCEPT ![c] = Head(order)]
          /\ order' = Tail(order)
          /\ Goto(c, "popexecution")
          /\ UNCHANGED <<at, answer>>
       \/ /\ order = <<>>
          /\ End(c, "IndexError")
          /\ UNCHANGED order
    /\ UNCHANGED <<executions, results, attempt, outcome, closed>>

PopExecution(c) ==
    /\ pc[c] = "popexecution"
    /\ executions' = executions \ {evicted[c]}
    /\ Goto(c, "popresult")
    /\ UNCHANGED <<results, order, attempt, outcome, closed, local>>

\* Fault: the result is not dropped with its execution.
PopResultForgotten(c) ==
    /\ pc[c] = "popresult"
    /\ Goto(c, "check")
    /\ UNCHANGED <<history, attempt, outcome, closed, local>>

PopResult(c) ==
    /\ pc[c] = "popresult"
    /\ results' = results \ {evicted[c]}
    /\ Goto(c, "check")
    /\ UNCHANGED <<executions, order, attempt, outcome, closed, local>>

-----------------------------------------------------------------------------
\* get, result and close; handle.result calls backend.result, always.

\* submit has returned the handle
Submitted(e) ==
    /\ outcome[e] # None
    /\ \A c \in Callers : at[c] = e => pc[c] = "read"

Get(c, e) ==
    /\ pc[c] = "idle"
    /\ Submitted(e)
    /\ End(c, IF e \in executions THEN "found" ELSE "ExecutionNotFound")
    /\ UNCHANGED <<history, attempt, outcome, closed>>

\* the check _result begins with
ResultKnown(c, e) ==
    /\ Submitted(e)
    /\ e \in executions
    /\ Enter(c, e, "read")
    /\ UNCHANGED <<history, attempt, outcome, closed>>

ResultUnknown(c, e) ==
    /\ pc[c] = "idle"
    /\ Submitted(e)
    /\ e \notin executions
    /\ End(c, "ResultNotFound")
    /\ UNCHANGED <<history, attempt, outcome, closed>>

ResultRead(c) ==
    /\ pc[c] = "read"
    /\ End(c, IF at[c] \in results THEN outcome[at[c]] ELSE "KeyError")
    /\ UNCHANGED <<history, attempt, outcome, closed>>

Close(c) ==
    /\ Enter(c, None, "clearresults")
    /\ executions' = {}
    /\ closed' = TRUE
    /\ UNCHANGED <<results, order, attempt, outcome>>

CloseResults(c) ==
    /\ pc[c] = "clearresults"
    /\ results' = {}
    /\ Goto(c, "clearorder")
    /\ UNCHANGED <<executions, order, attempt, outcome, closed, local>>

CloseOrder(c) ==
    /\ pc[c] = "clearorder"
    /\ order' = <<>>
    /\ End(c, "closed")
    /\ UNCHANGED <<executions, results, attempt, outcome, closed>>

Running(c) ==
    \/ CallReturns(c)
    \/ \E exc \in Exceptions : CallRaises(c, exc)
    \/ CallEscapes(c)

Remembering(c) ==
    \/ RememberExecution(c)
    \/ RememberResult(c)
    \/ AppendOrder(c)
    \/ CheckLength(c)
    \/ PopOrder(c)
    \/ PopExecution(c)
    \/ PopResult(c)

Next ==
    \E c \in Callers :
        \/ \E e \in Executions :
               Submit(c, e) \/ Get(c, e) \/ ResultKnown(c, e) \/ ResultUnknown(c, e)
        \/ Running(c)
        \/ Remembering(c)
        \/ ResultRead(c)
        \/ Close(c) \/ CloseResults(c) \/ CloseOrder(c)

Spec == Init /\ [][Next]_vars

-----------------------------------------------------------------------------
Answers == {None, "submitted", "escaped", "IndexError", "found",
            "ExecutionNotFound", "ResultNotFound", "value", "error", "KeyError",
            "closed"}

TypeOK ==
    /\ executions \subseteq Executions
    /\ results \subseteq Executions
    /\ order \in Seq(Executions)
    /\ attempt \in [Executions -> Nat]
    /\ outcome \in [Executions -> {None, "value", "error"}]
    /\ closed \in BOOLEAN
    /\ pc \in [Callers -> {"idle", "call", "execution", "result", "append",
                           "check", "pop", "popexecution", "popresult", "read",
                           "clearresults", "clearorder"}]
    /\ at \in [Callers -> Executions \union {None}]
    /\ evicted \in [Callers -> Executions \union {None}]
    /\ answer \in [Callers -> Answers]

AtRest == \A c \in Callers : pc[c] \in {"idle", "call"}

\* Although nothing is locked, the three structures agree and keep to their
\* bound whenever no thread is inside the backend's bookkeeping: "a
\* long-running process that submits inline work in a loop must not accumulate
\* results forever" (inline.py, class docstring).  After a close that another
\* thread's submit overlapped, records may stay behind that no eviction finds.
HistoryAgrees ==
    AtRest /\ ~ closed => /\ executions = ToSet(order)
                         /\ results = ToSet(order)
                         /\ Len(order) <= History

\* While threads are inside, the history is over its bound by at most the
\* entry each of them is about to remove, or has not listed yet.
OverflowIsBounded ==
    Len(order) <= History + Cardinality(
        {c \in Callers : pc[c] \in {"check", "pop", "popexecution", "popresult"}})

\* docs/concurrency.md lists the built-in backends as safe to share across
\* threads: two threads that submit at the same time never pop from an empty
\* list, as three do, and as a close can make one do.
SubmitNeverBreaks ==
    Cardinality(Callers) <= 2 /\ ~ closed =>
        \A c \in Callers : answer[c] # "IndexError"

\* An execution that get finds has its result, except while its own submit is
\* about to store it or once the backend was closed: an eviction drops the
\* execution first, so that a KeyError out of result() needs an eviction in the
\* middle of the call.
ResultsFollowExecutions ==
    \A e \in executions \ results :
        \/ closed
        \/ \E c \in Callers : at[c] = e /\ pc[c] = "result"

\* The unlocked bookkeeping keeps the history what it is meant to be, inside
\* and outside the threads' critical moments, and breaks no submit.
HistoryIsConsistent ==
    HistoryAgrees /\ OverflowIsBounded /\ ResultsFollowExecutions /\ SubmitNeverBreaks
=============================================================================
