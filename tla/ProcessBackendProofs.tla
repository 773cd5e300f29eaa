------------------------ MODULE ProcessBackendProofs ------------------------
(***************************************************************************)
(* Proofs about ProcessBackend, for any number of tasks and clients, any   *)
(* pool, history and retry policy: a settled entry says what became of its *)
(* future, and what is reported of the tasks implements Lifecycle.         *)
(***************************************************************************)
EXTENDS ProcessBackend, SequenceTheorems, TLAPS

\* Before pool.submit has answered, nothing is known of a task.
NotSubmitted(t) ==
    future[t] = "none" /\ outcome[t] = "none" /\ callback[t] = "none" /\ result[t] = "none"

\* An id not minted yet occurs nowhere.
UnusedInv ==
    \A t \in unused : NotSubmitted(t) /\ t \notin held

\* The future and its callback: the callback is due as soon as the future is
\* complete, once it has been added.
FutureInv(t) ==
    /\ future[t] = "none" => callback[t] = "none"
    /\ future[t] = "done" <=> outcome[t] # "none"
    /\ callback[t] = "added" => future[t] \in {"pending", "running"}
    /\ callback[t] \in {"due", "ran"} => Completed(t)

\* An entry is open until the callback has run, unless a cancel has written
\* CANCELLED; then it says what its future says.
EntryInv(t) ==
    /\ entry[t] # Absent
    /\ callback[t] # "ran" =>
           /\ result[t] = "none"
           /\ entry[t] \in {"queued", "running"} \/ (entry[t] = "cancelled" /\ future[t] = "cancelled")
    /\ future[t] = "none" => entry[t] = "queued"

Submitting == {"insert", "dispatch", "register"}

\* The positions in a call about a task whose submit has registered _settle.
Later == {"settling", "mark", "wait", "await_result", "result", "cancel_future",
          "cancel_callback", "cancel_write", "cancel_read"}

\* What each position of a call implies.
ClientInv(c) ==
    /\ pc[c] \in Submitting => job[c] \in Tasks \ unused
    /\ pc[c] = "insert" => job[c] \notin held
    /\ pc[c] \in {"insert", "dispatch"} => NotSubmitted(job[c])
    /\ pc[c] = "register" => future[job[c]] # "none" /\ callback[job[c]] = "none"
    /\ pc[c] \in Later => job[c] \in Tasks /\ callback[job[c]] # "none"
    /\ pc[c] = "mark" => future[job[c]] \in {"running", "done"}
    /\ pc[c] = "cancel_write" => future[job[c]] = "cancelled"
    /\ pc[c] = "cancel_callback" => future[job[c]] = "cancelled"

\* Two submits never hold the same id.
SubmitInv ==
    \A c, d \in Clients :
        pc[c] \in Submitting /\ pc[d] \in Submitting /\ job[c] = job[d] => c = d

IInv ==
    /\ TypeOK
    /\ UnusedInv
    /\ \A t \in Tasks : FutureInv(t)
    /\ \A t \in held : EntryInv(t)
    /\ \A c \in Clients : ClientInv(c)
    /\ SubmitInv
    /\ SettledIsTrue

-----------------------------------------------------------------------------
\* Nothing client d keeps about its call changes.
SameClient(d) == pc'[d] = pc[d] /\ job'[d] = job[d]

\* What is once true of a task remains true: it has a future and a callback,
\* its function has been started, it was cancelled in time.
Grows(t) ==
    /\ future[t] # "none" => future'[t] # "none"
    /\ future[t] \in {"running", "done"} => future'[t] \in {"running", "done"}
    /\ future[t] = "cancelled" => future'[t] = "cancelled"
    /\ callback[t] # "none" => callback'[t] # "none"

\* Nobody but the submit under way moves a task before its registration.
LeavesAlone(t) ==
    /\ NotSubmitted(t) => NotSubmitted(t)'
    /\ callback[t] = "none" => callback'[t] = "none"

\* The backend as __init__ leaves it satisfies the invariant.
LEMMA InitInv == Init => IInv
<1> SUFFICES ASSUME Init PROVE IInv
  OBVIOUS
<1>1. TypeOK
  <2>1. <<>> \in Seq(Tasks)
    OBVIOUS
  <2> QED BY <2>1 DEF Init, TypeOK, Steps, Futures, Outcomes
<1>2. UnusedInv /\ (\A t \in Tasks : FutureInv(t)) /\ (\A t \in held : EntryInv(t))
  BY DEF Init, UnusedInv, NotSubmitted, FutureInv
<1>3. (\A c \in Clients : ClientInv(c)) /\ SubmitInv /\ SettledIsTrue
  BY DEF Init, ClientInv, Submitting, Later, SubmitInv, SettledIsTrue
<1> QED BY <1>1, <1>2, <1>3 DEF IInv

\* A client that does not move keeps its invariant, if the task it submits is
\* left alone.
LEMMA Bystander ==
    ASSUME NEW d \in Clients, ClientInv(d), SameClient(d), unused' \subseteq unused,
           \A t \in Tasks : Grows(t),
           pc[d] = "insert" => job[d] \notin held',
           pc[d] \in Submitting => LeavesAlone(job[d])
    PROVE  ClientInv(d)'
  BY DEF ClientInv, SameClient, Grows, LeavesAlone, Submitting, Later

\* A step of the pool, of a child or of a callback.
LEMMA EngineStep ==
    ASSUME IInv, TypeOK', UNCHANGED <<unused, held, client>>,
           \A t \in Tasks : FutureInv(t)' /\ Grows(t) /\ LeavesAlone(t),
           \A t \in held : EntryInv(t)',
           SettledIsTrue'
    PROVE  IInv'
<1>1. \A c \in Clients : SameClient(c)
  BY DEF SameClient, client
<1>2. UnusedInv'
  BY DEF IInv, TypeOK, UnusedInv, LeavesAlone
<1>3. ASSUME NEW c \in Clients PROVE ClientInv(c)'
  <2>1. ClientInv(c) /\ (pc[c] \in Submitting => job[c] \in Tasks)
    BY DEF IInv, ClientInv
  <2>2. pc[c] = "insert" => job[c] \notin held'
    BY <2>1 DEF ClientInv
  <2> QED BY <1>1, <2>1, <2>2, Bystander
<1>4. SubmitInv'
  BY <1>1 DEF IInv, SubmitInv, SameClient
<1> QED BY <1>2, <1>3, <1>4 DEF IInv

\* A step of one client.
LEMMA ClientStep ==
    ASSUME IInv, TypeOK', NEW c \in Clients,
           \A d \in Clients \ {c} : SameClient(d),
           unused' \subseteq unused, UnusedInv',
           \A t \in Tasks : FutureInv(t)' /\ Grows(t),
           \A t \in held' : EntryInv(t)',
           SettledIsTrue',
           \A d \in Clients \ {c} :
               /\ pc[d] = "insert" => job[d] \notin held'
               /\ pc[d] \in Submitting => LeavesAlone(job[d])
               /\ pc'[c] \in Submitting /\ pc[d] \in Submitting => job'[c] # job[d],
           ClientInv(c)'
    PROVE  IInv'
<1>1. ASSUME NEW d \in Clients PROVE ClientInv(d)'
  <2>1. CASE d = c
    BY <2>1
  <2>2. CASE d # c
    <3>1. ClientInv(d)
      BY DEF IInv
    <3> QED BY <2>2, <3>1, Bystander
  <2> QED BY <2>1, <2>2
<1>2. SubmitInv'
  BY DEF IInv, SubmitInv, SameClient
<1> QED BY <1>1, <1>2 DEF IInv

\* A step of one client that only moves the call on.
LEMMA MoveStep ==
    ASSUME IInv, TypeOK', NEW c \in Clients,
           UNCHANGED <<unused, backend, engine>>,
           \A d \in Clients \ {c} : SameClient(d),
           ClientInv(c)', pc'[c] \notin Submitting
    PROVE  IInv'
<1>1. UnusedInv' /\ (\A t \in Tasks : FutureInv(t)' /\ Grows(t))
  BY DEF IInv, UnusedInv, NotSubmitted, FutureInv, Completed, Grows, backend, engine
<1>2. (\A t \in held' : EntryInv(t)') /\ SettledIsTrue'
  BY DEF IInv, EntryInv, SettledIsTrue, backend, engine
<1>3. \A t : LeavesAlone(t)
  BY DEF LeavesAlone, NotSubmitted, backend, engine
<1>4. \A d \in Clients \ {c} : pc[d] = "insert" => job[d] \notin held'
  BY DEF IInv, ClientInv, backend
<1> QED BY <1>1, <1>2, <1>3, <1>4, ClientStep

-----------------------------------------------------------------------------
(* The pool, its processes and the callbacks. *)

LEMMA StartStep ==
    ASSUME IInv, Start
    PROVE  IInv'
<1> DEFINE t == Head(queue)
<1>1. t \in Tasks /\ Tail(queue) \in Seq(Tasks)
  BY DEF IInv, TypeOK, Start
<1>2. \/ future[t] = "pending" /\ future' = [future EXCEPT ![t] = "running"]
      \/ UNCHANGED future
  BY DEF Start
<1>3. UNCHANGED <<unused, backend, outcome, callback, pool, closed, client>>
        /\ queue' = Tail(queue) /\ attempt' \in [Tasks -> Nat]
  <2>1. attempt \in [Tasks -> Nat]
    BY DEF IInv, TypeOK
  <2>2. attempt' = attempt \/ attempt' = [attempt EXCEPT ![t] = 1]
    BY DEF Start
  <2>3. attempt' \in [Tasks -> Nat]
    BY <2>1, <2>2
  <2> QED BY <2>3 DEF Start
<1> HIDE DEF t
<1>4. TypeOK'
  BY <1>1, <1>2, <1>3 DEF IInv, TypeOK, Futures, backend, client
<1>5. \A u \in Tasks : FutureInv(u)' /\ Grows(u) /\ LeavesAlone(u)
  BY <1>1, <1>2, <1>3
     DEF IInv, TypeOK, FutureInv, Completed, Grows, LeavesAlone, NotSubmitted, backend
<1>6. \A u \in held : EntryInv(u)'
  BY <1>1, <1>2, <1>3 DEF IInv, TypeOK, EntryInv, backend
<1>7. SettledIsTrue'
  BY <1>1, <1>2, <1>3 DEF IInv, TypeOK, FutureInv, Completed, SettledIsTrue, backend
<1> QED BY <1>3, <1>4, <1>5, <1>6, <1>7, EngineStep DEF backend

\* A future that is completed in some way: by its child, by the crash of a
\* process, or by a shutdown.
LEMMA CompletionStep ==
    ASSUME IInv, NEW S \in SUBSET Tasks, \A t \in S : future[t] \in {"pending", "running"},
           NEW o \in {"value", "error", "exit"},
           future' = [t \in Tasks |-> IF t \in S THEN "done" ELSE future[t]],
           outcome' = [t \in Tasks |-> IF t \in S THEN o ELSE outcome[t]],
           callback' = Due(S),
           UNCHANGED <<unused, backend, attempt, closed, client>>,
           queue' \in Seq(Tasks), pool' \in {"none", "up", "broken", "shutdown"}
    PROVE  IInv'
<1>1. TypeOK'
  BY DEF IInv, TypeOK, Futures, Outcomes, Due, backend, client
<1>2. \A t \in Tasks : FutureInv(t)' /\ Grows(t) /\ LeavesAlone(t)
  BY DEF IInv, TypeOK, FutureInv, Completed, Grows, LeavesAlone, NotSubmitted, Due, backend
<1>3. \A t \in held : EntryInv(t)'
  BY DEF IInv, TypeOK, EntryInv, FutureInv, Completed, Due, backend
<1>4. SettledIsTrue'
  BY DEF IInv, TypeOK, FutureInv, Completed, SettledIsTrue, Due, backend
<1> QED BY <1>1, <1>2, <1>3, <1>4, EngineStep DEF backend

LEMMA CrashStep ==
    ASSUME IInv, Crash
    PROVE  IInv'
<1> DEFINE lost == {t \in Tasks : future[t] \in {"pending", "running"}}
<1>1. lost \in SUBSET Tasks /\ \A t \in lost : future[t] \in {"pending", "running"}
  OBVIOUS
<1>2. /\ future' = [t \in Tasks |-> IF t \in lost THEN "done" ELSE future[t]]
      /\ outcome' = [t \in Tasks |-> IF t \in lost THEN "error" ELSE outcome[t]]
      /\ callback' = Due(lost)
      /\ UNCHANGED <<unused, backend, attempt, closed, client>>
  BY DEF Crash
<1>3. queue' \in Seq(Tasks) /\ pool' \in {"none", "up", "broken", "shutdown"}
  BY DEF IInv, TypeOK, Crash
<1> HIDE DEF lost
<1> QED BY <1>1, <1>2, <1>3, CompletionStep

LEMMA ExecuteStep ==
    ASSUME IInv, NEW t \in Tasks, ExecuteInChild(t)
    PROVE  IInv'
<1>1. CASE \E o \in {"value", "error", "exit"} : Complete(t, o)
  <2>1. PICK o \in {"value", "error", "exit"} : Complete(t, o)
    BY <1>1
  <2>2. /\ future' = [u \in Tasks |-> IF u \in {t} THEN "done" ELSE future[u]]
        /\ outcome' = [u \in Tasks |-> IF u \in {t} THEN o ELSE outcome[u]]
    BY <2>1 DEF IInv, TypeOK, Complete
  <2>3. /\ callback' = Due({t}) /\ future[t] = "running"
        /\ UNCHANGED <<unused, backend, queue, pool, attempt, closed, client>>
    BY <2>1 DEF ExecuteInChild, Complete
  <2>4. queue' \in Seq(Tasks) /\ pool' \in {"none", "up", "broken", "shutdown"}
    BY <2>3 DEF IInv, TypeOK
  <2>5. {t} \in SUBSET Tasks /\ \A u \in {t} : future[u] \in {"pending", "running"}
    BY <2>3
  <2> QED BY <2>2, <2>3, <2>4, <2>5, CompletionStep
<1>2. CASE /\ attempt' = [attempt EXCEPT ![t] = @ + 1]
           /\ UNCHANGED <<future, outcome, callback>>
  <2>1. UNCHANGED <<unused, backend, queue, pool, closed, client>>
    BY DEF ExecuteInChild
  <2>2. TypeOK'
    BY <1>2, <2>1 DEF IInv, TypeOK, backend, client
  <2>3. \A u \in Tasks : FutureInv(u)' /\ Grows(u) /\ LeavesAlone(u)
    BY <1>2, <2>1 DEF IInv, FutureInv, Completed, Grows, LeavesAlone, NotSubmitted, backend
  <2>4. (\A u \in held : EntryInv(u)') /\ SettledIsTrue'
    BY <1>2, <2>1 DEF IInv, EntryInv, SettledIsTrue, backend
  <2> QED BY <2>1, <2>2, <2>3, <2>4, EngineStep DEF backend
<1> QED BY <1>1, <1>2 DEF ExecuteInChild

LEMMA SettleStep ==
    ASSUME IInv, NEW t \in Tasks, Settle(t)
    PROVE  IInv'
<1> USE DEF Settle
<1>1. Completed(t)
  BY DEF IInv, FutureInv
<1>2. TypeOK'
  BY DEF IInv, TypeOK, client
<1>3. \A u \in Tasks : FutureInv(u)' /\ Grows(u) /\ LeavesAlone(u)
  <2>1. callback' = [callback EXCEPT ![t] = "ran"] /\ callback[t] = "due"
          /\ UNCHANGED <<future, outcome>> /\ \A u \in Tasks \ {t} : result'[u] = result[u]
    BY DEF IInv, TypeOK
  <2> QED
    BY <1>1, <2>1 DEF IInv, TypeOK, FutureInv, Completed, Grows, LeavesAlone, NotSubmitted
<1>4. \A u \in held : EntryInv(u)'
  BY <1>1 DEF IInv, TypeOK, EntryInv, FutureInv, Completed, Absent
<1>5. SettledIsTrue'
  BY <1>1 DEF IInv, TypeOK, EntryInv, FutureInv, Completed, SettledIsTrue
<1> QED BY <1>2, <1>3, <1>4, <1>5, EngineStep DEF client

-----------------------------------------------------------------------------
(* Calls that only move on. *)

\* A call about a known task begins, or answers at once.
LEMMA LookStep ==
    ASSUME IInv, NEW c \in Clients, NEW t \in Tasks,
           Get(c, t) \/ CancelCheck(c, t) \/ WaitBegin(c, t, "wait")
               \/ WaitBegin(c, t, "await_result")
    PROVE  IInv'
<1> DEFINE step == pc'[c]
<1>1. UNCHANGED <<unused, backend, engine, closed>> /\ Known(t)
  BY DEF Get, CancelCheck, WaitBegin
<1>2. \/ UNCHANGED client
      \/ /\ pc' = [pc EXCEPT ![c] = step] /\ job' = [job EXCEPT ![c] = t]
         /\ step \in {"mark", "cancel_future", "wait", "await_result"}
         /\ step = "mark" => future[t] = "running"
  BY DEF IInv, TypeOK, Get, CancelCheck, WaitBegin, Call, CallAndReturn
<1> HIDE DEF step
<1>3. TypeOK'
  <2>1. CASE UNCHANGED client
    BY <1>1, <2>1 DEF IInv, TypeOK, backend, engine, client
  <2>2. CASE ~ UNCHANGED client
    <3>1. pc' \in [Clients -> Steps] /\ job' \in [Clients -> Tasks \union {Absent}]
      BY <1>2, <2>2 DEF IInv, TypeOK, Steps
    <3> QED BY <1>1, <3>1 DEF IInv, TypeOK, backend, engine
  <2> QED BY <2>1, <2>2
<1>4. \A d \in Clients \ {c} : SameClient(d)
  BY <1>2 DEF IInv, TypeOK, SameClient, client
<1>5. CASE UNCHANGED client
  <2>1. UNCHANGED <<held, entry, result, future, outcome, callback>>
    BY <1>1 DEF backend, engine
  <2>2. \A u \in Tasks : FutureInv(u)' /\ Grows(u) /\ LeavesAlone(u)
    BY <2>1 DEF IInv, FutureInv, Completed, Grows, LeavesAlone, NotSubmitted
  <2>3. (\A u \in held : EntryInv(u)') /\ SettledIsTrue'
    BY <2>1 DEF IInv, EntryInv, SettledIsTrue
  <2> QED BY <1>1, <1>3, <1>5, <2>1, <2>2, <2>3, EngineStep
<1>6. CASE ~ UNCHANGED client
  <2>1. ClientInv(c)' /\ pc'[c] \notin Submitting
    BY <1>1, <1>2, <1>6 DEF IInv, TypeOK, ClientInv, Submitting, Later, Known, engine
  <2> QED BY <1>1, <1>3, <1>4, <2>1, MoveStep
<1> QED BY <1>5, <1>6

\* A call goes on or returns without a change to the backend.
LEMMA GoOnStep ==
    ASSUME IInv, NEW c \in Clients,
           SubmitSettled(c) \/ WaitWake(c) \/ WaitTimeout(c) \/ ResultRead(c)
               \/ CancelCallback(c) \/ CancelRead(c) \/ CloseJoin(c)
    PROVE  IInv'
<1>1. UNCHANGED <<unused, backend, engine, closed>>
  BY DEF SubmitSettled, WaitWake, WaitTimeout, ResultRead, CancelCallback, CancelRead, CloseJoin
<1>2. \/ Return(c)
      \/ pc[c] = "await_result" /\ Goto(c, "result")
      \/ pc[c] = "cancel_callback" /\ Goto(c, "cancel_write")
  BY DEF SubmitSettled, WaitWake, WaitTimeout, Waiting, ResultRead, CancelCallback, CancelRead,
         CloseJoin
<1>3. TypeOK'
  BY <1>1, <1>2 DEF IInv, TypeOK, Steps, Goto, Return, backend, engine
<1>4. \A d \in Clients \ {c} : SameClient(d)
  BY <1>2 DEF IInv, TypeOK, SameClient, Goto, Return
<1>5. ClientInv(c)' /\ pc'[c] \notin Submitting
  BY <1>1, <1>2 DEF IInv, TypeOK, ClientInv, Submitting, Later, Goto, Return, engine
<1> QED BY <1>1, <1>3, <1>4, <1>5, MoveStep

-----------------------------------------------------------------------------
(* submit. *)

LEMMA SubmitStep ==
    ASSUME IInv, NEW c \in Clients, NEW t \in Tasks, Submit(c, t)
    PROVE  IInv'
<1> USE DEF Submit, Call, CallAndReturn
<1>1. TypeOK'
  BY DEF IInv, TypeOK, Steps, backend, client
<1>2. \A d \in Clients \ {c} : SameClient(d)
  BY DEF IInv, TypeOK, SameClient, client
<1>3. UNCHANGED <<held, order, entry, result, future, outcome, callback>>
        /\ unused' \subseteq unused
  BY DEF IInv, TypeOK, backend
<1>4. UnusedInv' /\ \A u \in Tasks : FutureInv(u)' /\ Grows(u)
  BY <1>3 DEF IInv, UnusedInv, NotSubmitted, FutureInv, Completed, Grows
<1>5. (\A u \in held' : EntryInv(u)') /\ SettledIsTrue' /\ \A u : LeavesAlone(u)
  BY <1>3 DEF IInv, EntryInv, SettledIsTrue, LeavesAlone, NotSubmitted
<1>6. ClientInv(c)'
  BY <1>3 DEF IInv, TypeOK, UnusedInv, ClientInv, Submitting, Later, NotSubmitted, client
<1>7. \A d \in Clients \ {c} :
          /\ pc[d] = "insert" => job[d] \notin held'
          /\ pc'[c] \in Submitting /\ pc[d] \in Submitting => job'[c] # job[d]
  BY <1>3 DEF IInv, TypeOK, ClientInv, Submitting, client
<1> QED BY <1>1, <1>2, <1>3, <1>4, <1>5, <1>6, <1>7, ClientStep

\* The bounded history keeps what was just put in, and no entry appears but it.
LEMMA RememberKeeps ==
    ASSUME IInv, NEW t \in Tasks, RememberLocked(t)
    PROVE  /\ order' \in Seq(Tasks)
           /\ t \in held' /\ held' \subseteq held \union {t}
<1> DEFINE longer == Append(order, t)
           n == Overflow(longer)
<1>1. order \in Seq(Tasks) /\ longer \in Seq(Tasks)
  BY DEF IInv, TypeOK
<1>2. n \in 0 .. Len(longer)
  BY <1>1, ProcessAssumption DEF Overflow
<1>3. order' = SubSeq(longer, n + 1, Len(longer)) /\ t \in held' /\ held' \subseteq held \union {t}
  BY DEF RememberLocked
<1> HIDE DEF longer, n
<1>4. \A i \in n + 1 .. Len(longer) : longer[i] \in Tasks
  BY <1>1, <1>2
<1>5. SubSeq(longer, n + 1, Len(longer)) \in Seq(Tasks)
  BY <1>1, <1>2, <1>4, SubSeqProperties
<1> QED BY <1>3, <1>5

LEMMA SubmitInsertStep ==
    ASSUME IInv, NEW c \in Clients, SubmitInsert(c)
    PROVE  IInv'
<1> DEFINE t == job[c]
<1>1. t \in Tasks \ unused /\ t \notin held /\ NotSubmitted(t)
  BY DEF IInv, ClientInv, SubmitInsert, Submitting
<1>2. order' \in Seq(Tasks) /\ t \in held' /\ held' \subseteq held \union {t}
  BY <1>1, RememberKeeps DEF SubmitInsert
<1>3. /\ pc[c] = "insert" /\ Goto(c, "dispatch")
      /\ entry' = [entry EXCEPT ![t] = "queued"]
      /\ UNCHANGED <<unused, result, future, outcome, callback, queue, attempt, pool, closed>>
  BY DEF SubmitInsert, engine
<1> HIDE DEF t
<1>4. TypeOK'
  BY <1>1, <1>2, <1>3 DEF IInv, TypeOK, Steps, Goto
<1>5. \A d \in Clients \ {c} : SameClient(d)
  BY <1>3 DEF IInv, TypeOK, SameClient, Goto
<1>6. UnusedInv' /\ \A u \in Tasks : FutureInv(u)' /\ Grows(u) /\ LeavesAlone(u)
  BY <1>1, <1>2, <1>3
     DEF IInv, UnusedInv, NotSubmitted, FutureInv, Completed, Grows, LeavesAlone
<1>7. (\A u \in held' : EntryInv(u)') /\ SettledIsTrue'
  BY <1>1, <1>2, <1>3 DEF IInv, TypeOK, EntryInv, NotSubmitted, SettledIsTrue, Absent
<1>8. ClientInv(c)'
  BY <1>1, <1>3 DEF IInv, TypeOK, ClientInv, Submitting, Later, NotSubmitted, Goto, t
<1>9. \A d \in Clients \ {c} :
          /\ pc[d] \in Submitting => job[d] \in Tasks /\ job[d] # t
          /\ pc[d] = "insert" => job[d] \notin held'
  BY <1>2, <1>3 DEF IInv, SubmitInv, ClientInv, Submitting, t
<1>10. job'[c] = t
  BY <1>3 DEF Goto, t
<1> QED BY <1>3, <1>4, <1>5, <1>6, <1>7, <1>8, <1>9, <1>10, ClientStep DEF Goto

LEMMA SubmitDispatchStep ==
    ASSUME IInv, NEW c \in Clients, SubmitDispatch(c)
    PROVE  IInv'
<1> DEFINE t == job[c]
<1>1. t \in Tasks \ unused /\ NotSubmitted(t)
  BY DEF IInv, ClientInv, SubmitDispatch, Submitting
<1>2. \/ Return(c) /\ UNCHANGED <<future, queue>>
      \/ /\ Goto(c, "register")
         /\ future' = [future EXCEPT ![t] = "pending"]
         /\ queue' = Append(queue, t)
  BY DEF SubmitDispatch
<1>3. /\ pc[c] = "dispatch"
      /\ UNCHANGED <<unused, held, order, entry, result, outcome, callback, attempt, pool, closed>>
  BY DEF SubmitDispatch, backend
<1>4. job[c] = t
  OBVIOUS
<1> HIDE DEF t
<1>5. TypeOK'
  <2>1. future' \in [Tasks -> Futures] /\ queue' \in Seq(Tasks)
    <3>1. t \in Tasks /\ future \in [Tasks -> Futures] /\ queue \in Seq(Tasks)
      BY <1>1 DEF IInv, TypeOK
    <3>2. CASE UNCHANGED <<future, queue>>
      BY <3>1, <3>2
    <3>3. CASE future' = [future EXCEPT ![t] = "pending"] /\ queue' = Append(queue, t)
      BY <3>1, <3>3 DEF Futures
    <3> QED BY <1>2, <3>2, <3>3
  <2>2. pc' \in [Clients -> Steps] /\ job' \in [Clients -> Tasks \union {Absent}]
    BY <1>1, <1>2 DEF IInv, TypeOK, Steps, Goto, Return
  <2> QED BY <1>3, <2>1, <2>2 DEF IInv, TypeOK
<1>6. \A d \in Clients \ {c} : SameClient(d)
  BY <1>2 DEF IInv, TypeOK, SameClient, Goto, Return
<1>7. UnusedInv' /\ \A u \in Tasks : FutureInv(u)' /\ Grows(u)
  BY <1>1, <1>2, <1>3
     DEF IInv, TypeOK, UnusedInv, NotSubmitted, FutureInv, Completed, Grows
<1>8. (\A u \in held' : EntryInv(u)') /\ SettledIsTrue'
  <2>1. \A u \in Tasks \ {t} : future'[u] = future[u]
    BY <1>2 DEF IInv, TypeOK
  <2>2. future'[t] \in {"none", "pending"}
    BY <1>1, <1>2 DEF IInv, TypeOK, NotSubmitted
  <2>3. \A u \in held' : EntryInv(u)'
    BY <1>1, <1>3, <2>1, <2>2 DEF IInv, TypeOK, EntryInv, NotSubmitted
  <2>4. SettledIsTrue'
    BY <1>1, <1>3, <2>1 DEF IInv, TypeOK, SettledIsTrue, NotSubmitted
  <2> QED BY <2>3, <2>4
<1>9. ClientInv(c)'
  <2>1. CASE Return(c)
    BY <2>1 DEF IInv, TypeOK, ClientInv, Submitting, Later, Return
  <2>2. CASE Goto(c, "register") /\ future' = [future EXCEPT ![t] = "pending"]
    BY <1>1, <1>3, <1>4, <2>2
       DEF IInv, TypeOK, ClientInv, Submitting, Later, NotSubmitted, Goto
  <2> QED BY <1>2, <2>1, <2>2
<1>10. \A d \in Clients \ {c} :
          /\ pc[d] = "insert" => job[d] \notin held'
          /\ pc[d] \in Submitting => job[d] # t /\ LeavesAlone(job[d])
  <2> SUFFICES ASSUME NEW d \in Clients \ {c}
               PROVE /\ pc[d] = "insert" => job[d] \notin held'
                     /\ pc[d] \in Submitting => job[d] # t /\ LeavesAlone(job[d])
    OBVIOUS
  <2>1. ClientInv(d)
    BY DEF IInv
  <2>2. pc[d] \in Submitting => job[d] \in Tasks /\ job[d] # t
    BY <1>3, <1>4, <2>1 DEF IInv, SubmitInv, ClientInv, Submitting
  <2>3. \A u \in Tasks \ {t} : LeavesAlone(u)
    BY <1>1, <1>2, <1>3 DEF IInv, TypeOK, LeavesAlone, NotSubmitted
  <2> QED BY <1>2, <1>3, <2>1, <2>2, <2>3 DEF ClientInv, Submitting
<1>11. pc'[c] \in Submitting => job'[c] = t
  BY <1>2, <1>4 DEF IInv, TypeOK, Goto, Return, Submitting
<1> QED BY <1>3, <1>5, <1>6, <1>7, <1>8, <1>9, <1>10, <1>11, ClientStep

LEMMA SubmitRegisterStep ==
    ASSUME IInv, NEW c \in Clients, SubmitRegister(c)
    PROVE  IInv'
<1> DEFINE t == job[c]
           s == IF Completed(t) THEN "due" ELSE "added"
<1>1. t \in Tasks \ unused /\ future[t] # "none" /\ callback[t] = "none"
  BY DEF IInv, ClientInv, SubmitRegister, Submitting
<1>2. /\ pc[c] = "register"
      /\ callback' = [callback EXCEPT ![t] = s]
      /\ IF Completed(t) THEN Goto(c, "settling") ELSE Return(c)
      /\ UNCHANGED <<unused, held, order, entry, result, future, outcome, queue, attempt, pool, closed>>
  BY DEF SubmitRegister, backend
<1>3. s \in {"due", "added"} /\ (s = "due" <=> Completed(t)) /\ job[c] = t
  OBVIOUS
<1> HIDE DEF t, s
<1>4. TypeOK'
  <2>1. pc' \in [Clients -> Steps] /\ job' \in [Clients -> Tasks \union {Absent}]
    BY <1>2 DEF IInv, TypeOK, Steps, Goto, Return
  <2>2. callback' \in [Tasks -> {"none", "added", "due", "ran"}]
    BY <1>1, <1>2, <1>3 DEF IInv, TypeOK
  <2> QED BY <1>2, <2>1, <2>2 DEF IInv, TypeOK
<1>5. \A d \in Clients \ {c} : SameClient(d)
  BY <1>2 DEF IInv, TypeOK, SameClient, Goto, Return
<1>6. UnusedInv' /\ \A u \in Tasks : FutureInv(u)' /\ Grows(u)
  BY <1>1, <1>2, <1>3
     DEF IInv, TypeOK, UnusedInv, NotSubmitted, FutureInv, Completed, Grows, Futures
<1>7. (\A u \in held' : EntryInv(u)') /\ SettledIsTrue'
  BY <1>1, <1>2, <1>3 DEF IInv, TypeOK, EntryInv, SettledIsTrue
<1>8. ClientInv(c)' /\ pc'[c] \notin Submitting
  BY <1>1, <1>2, <1>3
     DEF IInv, TypeOK, ClientInv, Submitting, Later, Goto, Return
<1>9. \A d \in Clients \ {c} :
          /\ pc[d] = "insert" => job[d] \notin held'
          /\ pc[d] \in Submitting => LeavesAlone(job[d])
  <2> SUFFICES ASSUME NEW d \in Clients \ {c}
               PROVE /\ pc[d] = "insert" => job[d] \notin held'
                     /\ pc[d] \in Submitting => job[d] # t /\ LeavesAlone(job[d])
    OBVIOUS
  <2>1. ClientInv(d)
    BY DEF IInv
  <2>2. pc[d] \in Submitting => job[d] \in Tasks /\ job[d] # t
    BY <1>2, <1>3, <2>1 DEF IInv, SubmitInv, ClientInv, Submitting
  <2>3. \A u \in Tasks \ {t} : LeavesAlone(u)
    BY <1>1, <1>2, <1>3 DEF IInv, TypeOK, LeavesAlone, NotSubmitted
  <2> QED BY <1>2, <1>3, <2>1, <2>2, <2>3 DEF ClientInv, Submitting
<1> QED BY <1>2, <1>4, <1>5, <1>6, <1>7, <1>8, <1>9, ClientStep

-----------------------------------------------------------------------------
(* get, cancel and close. *)

\* get and cancel write to an entry without a look at the future: what they
\* write is what the future would say, or is written over by _settle.
LEMMA WriteStep ==
    ASSUME IInv, NEW c \in Clients, GetMark(c) \/ CancelWrite(c)
    PROVE  IInv'
<1> DEFINE t == job[c]
<1>1. t \in Tasks /\ callback[t] # "none"
  BY DEF IInv, ClientInv, Later, GetMark, CancelWrite
<1>2. /\ UNCHANGED <<unused, held, order, result, engine, closed>>
      /\ Return(c) \/ Goto(c, "cancel_read")
      /\ pc[c] \in Later
  BY DEF GetMark, CancelWrite, Later
<1>3. \/ /\ future[t] \in {"running", "done"}
         /\ entry' = [entry EXCEPT ![t] = IF entry[t] = "queued" THEN "running" ELSE entry[t]]
      \/ /\ future[t] = "cancelled"
         /\ entry' = [entry EXCEPT ![t] = IF t \in held THEN "cancelled" ELSE @]
  BY DEF IInv, ClientInv, GetMark, CancelWrite
<1>4. job[c] = t
  OBVIOUS
<1> HIDE DEF t
<1>5. TypeOK'
  <2>1. pc' \in [Clients -> Steps] /\ job' \in [Clients -> Tasks \union {Absent}]
    BY <1>2 DEF IInv, TypeOK, Steps, Goto, Return
  <2>2. entry' \in [Tasks -> {Absent, "queued", "running", "cancelled", "succeeded", "failed"}]
    BY <1>1, <1>3 DEF IInv, TypeOK
  <2> QED BY <1>2, <2>1, <2>2 DEF IInv, TypeOK, engine
<1>6. \A d \in Clients \ {c} : SameClient(d)
  BY <1>2 DEF IInv, TypeOK, SameClient, Goto, Return
<1>7. UnusedInv' /\ \A u \in Tasks : FutureInv(u)' /\ Grows(u)
  BY <1>2 DEF IInv, UnusedInv, NotSubmitted, FutureInv, Completed, Grows, engine
<1>8. \A u : LeavesAlone(u)
  BY <1>2 DEF LeavesAlone, NotSubmitted, engine
<1>9. \A u \in held' : EntryInv(u)'
  <2>1. \A u \in held \ {t} : entry'[u] = entry[u]
    BY <1>1, <1>3 DEF IInv, TypeOK
  <2>2. UNCHANGED <<held, result, future, callback>>
    BY <1>2 DEF engine
  <2>3. ASSUME NEW u \in held, u = t PROVE EntryInv(u)'
    <3>1. EntryInv(u) /\ u \in Tasks
      BY <2>3 DEF IInv, TypeOK
    <3>2. \/ entry'[u] = entry[u] /\ future[u] \in {"running", "done"}
          \/ entry'[u] = "running" /\ entry[u] = "queued" /\ future[u] \in {"running", "done"}
          \/ entry'[u] = "cancelled" /\ future[u] = "cancelled"
      BY <1>3, <2>3, <3>1 DEF IInv, TypeOK
    <3> QED BY <2>2, <3>1, <3>2 DEF EntryInv, Absent
  <2>4. ASSUME NEW u \in held, u # t PROVE EntryInv(u)'
    <3>1. EntryInv(u)
      BY <2>4 DEF IInv
    <3> QED BY <2>1, <2>2, <2>4, <3>1 DEF EntryInv
  <2> QED BY <2>2, <2>3, <2>4
<1>10. SettledIsTrue'
  BY <1>1, <1>2, <1>3 DEF IInv, TypeOK, EntryInv, SettledIsTrue, engine
<1>11. ClientInv(c)' /\ pc'[c] \notin Submitting
  BY <1>1, <1>2, <1>4 DEF IInv, TypeOK, ClientInv, Submitting, Later, Goto, Return, engine
<1>12. \A d \in Clients \ {c} : pc[d] = "insert" => job[d] \notin held'
  BY <1>2 DEF IInv, ClientInv
<1> QED BY <1>2, <1>5, <1>6, <1>7, <1>8, <1>9, <1>10, <1>11, <1>12, ClientStep

\* Futures that are cancelled before their work has started.
LEMMA CancellationKeeps ==
    ASSUME IInv, NEW S \in SUBSET Tasks, \A t \in S : future[t] = "pending",
           future' = [t \in Tasks |-> IF t \in S THEN "cancelled" ELSE future[t]],
           callback' = Due(S),
           UNCHANGED <<unused, held, entry, result, outcome>>
    PROVE  /\ future' \in [Tasks -> Futures]
           /\ callback' \in [Tasks -> {"none", "added", "due", "ran"}]
           /\ UnusedInv' /\ SettledIsTrue'
           /\ \A t \in Tasks : FutureInv(t)' /\ Grows(t) /\ LeavesAlone(t)
           /\ \A t \in held' : EntryInv(t)'
<1>1. /\ future' \in [Tasks -> Futures]
      /\ callback' \in [Tasks -> {"none", "added", "due", "ran"}]
  BY DEF IInv, TypeOK, Futures, Due
<1>2. \A t \in Tasks : FutureInv(t)' /\ Grows(t) /\ LeavesAlone(t)
  BY DEF IInv, TypeOK, FutureInv, Completed, Grows, LeavesAlone, NotSubmitted, Due
<1>3. UnusedInv'
  BY <1>2 DEF IInv, TypeOK, UnusedInv, LeavesAlone
<1>4. (\A t \in held' : EntryInv(t)') /\ SettledIsTrue'
  BY DEF IInv, TypeOK, EntryInv, FutureInv, Completed, SettledIsTrue, Due
<1> QED BY <1>1, <1>2, <1>3, <1>4

LEMMA CancelFutureStep ==
    ASSUME IInv, NEW c \in Clients, CancelFuture(c)
    PROVE  IInv'
<1> DEFINE t == job[c]
           step == pc'[c]
<1>1. t \in Tasks /\ callback[t] # "none" /\ future[t] # "none" /\ pc[c] = "cancel_future"
  BY DEF IInv, ClientInv, Later, CancelFuture, FutureInv
<1>2. /\ UNCHANGED <<unused, held, order, entry, result, outcome, queue, attempt, pool, closed>>
      /\ Goto(c, step)
      /\ \/ /\ step = "cancel_callback" /\ future[t] = "pending"
            /\ future' = [future EXCEPT ![t] = "cancelled"]
            /\ callback' = Due({t})
         \/ /\ step = "cancel_write" /\ future[t] = "cancelled" /\ UNCHANGED <<future, callback>>
         \/ step = "cancel_read" /\ UNCHANGED <<future, callback>>
  BY DEF IInv, TypeOK, CancelFuture, Goto, backend
<1>3. job[c] = t /\ step = pc'[c]
  OBVIOUS
<1> HIDE DEF t, step
<1>4. \A d \in Clients \ {c} : SameClient(d)
  BY <1>2 DEF IInv, TypeOK, SameClient, Goto
<1>5. pc' \in [Clients -> Steps] /\ job' \in [Clients -> Tasks \union {Absent}]
  BY <1>2 DEF IInv, TypeOK, Steps, Goto
<1>6. CASE UNCHANGED <<future, callback>>
  <2>1. TypeOK'
    BY <1>2, <1>5, <1>6 DEF IInv, TypeOK
  <2>2. ClientInv(c)' /\ pc'[c] \notin Submitting
    BY <1>1, <1>2, <1>3, <1>6 DEF IInv, TypeOK, ClientInv, Submitting, Later, Goto
  <2> QED BY <1>2, <1>4, <1>6, <2>1, <2>2, MoveStep DEF backend, engine
<1>7. CASE /\ step = "cancel_callback" /\ future[t] = "pending"
           /\ future' = [future EXCEPT ![t] = "cancelled"] /\ callback' = Due({t})
  <2>1. {t} \in SUBSET Tasks /\ \A u \in {t} : future[u] = "pending"
    BY <1>1, <1>7
  <2>2. future' = [u \in Tasks |-> IF u \in {t} THEN "cancelled" ELSE future[u]]
    BY <1>1, <1>7 DEF IInv, TypeOK
  <2>3. /\ future' \in [Tasks -> Futures]
        /\ callback' \in [Tasks -> {"none", "added", "due", "ran"}]
        /\ UnusedInv' /\ SettledIsTrue'
        /\ \A u \in Tasks : FutureInv(u)' /\ Grows(u) /\ LeavesAlone(u)
        /\ \A u \in held' : EntryInv(u)'
    BY <1>2, <1>7, <2>1, <2>2, CancellationKeeps
  <2>4. TypeOK'
    BY <1>2, <1>5, <2>3 DEF IInv, TypeOK
  <2>5. ClientInv(c)' /\ pc'[c] \notin Submitting
    BY <1>1, <1>2, <1>3, <1>7, <2>3
       DEF IInv, TypeOK, ClientInv, Submitting, Later, Goto, Grows
  <2>6. \A d \in Clients \ {c} :
            /\ pc[d] = "insert" => job[d] \notin held'
            /\ pc[d] \in Submitting => LeavesAlone(job[d])
    BY <1>2, <2>3 DEF IInv, ClientInv, Submitting
  <2> QED BY <1>2, <1>4, <2>3, <2>4, <2>5, <2>6, ClientStep
<1> QED BY <1>2, <1>6, <1>7

LEMMA CloseShutdownStep ==
    ASSUME IInv, NEW c \in Clients, CloseShutdown(c)
    PROVE  IInv'
<1> DEFINE drained == {t \in Tasks : future[t] = "pending"}
<1>1. drained \in SUBSET Tasks /\ \A t \in drained : future[t] = "pending"
  OBVIOUS
<1>2. /\ future' = [t \in Tasks |-> IF t \in drained THEN "cancelled" ELSE future[t]]
      /\ callback' = Due(drained)
      /\ UNCHANGED <<unused, held, order, entry, result, outcome, attempt, closed>>
      /\ Goto(c, "join")
  BY DEF CloseShutdown, backend
<1>3. queue' \in Seq(Tasks) /\ pool' \in {"none", "up", "broken", "shutdown"}
  BY DEF IInv, TypeOK, CloseShutdown
<1> HIDE DEF drained
<1>4. /\ future' \in [Tasks -> Futures]
      /\ callback' \in [Tasks -> {"none", "added", "due", "ran"}]
      /\ UnusedInv' /\ SettledIsTrue'
      /\ \A u \in Tasks : FutureInv(u)' /\ Grows(u) /\ LeavesAlone(u)
      /\ \A u \in held' : EntryInv(u)'
  BY <1>1, <1>2, CancellationKeeps
<1>5. TypeOK'
  BY <1>2, <1>3, <1>4 DEF IInv, TypeOK, Steps, Goto
<1>6. \A d \in Clients \ {c} : SameClient(d)
  BY <1>2 DEF IInv, TypeOK, SameClient, Goto
<1>7. ClientInv(c)' /\ pc'[c] \notin Submitting
  BY <1>2 DEF IInv, TypeOK, ClientInv, Submitting, Later, Goto
<1>8. \A d \in Clients \ {c} :
          /\ pc[d] = "insert" => job[d] \notin held'
          /\ pc[d] \in Submitting => LeavesAlone(job[d])
  BY <1>2, <1>4 DEF IInv, ClientInv, Submitting
<1> QED BY <1>2, <1>4, <1>5, <1>6, <1>7, <1>8, ClientStep

LEMMA CloseStep ==
    ASSUME IInv, NEW c \in Clients, Close(c)
    PROVE  IInv'
<1> USE DEF Close, Call, CallAndReturn
<1>1. UNCHANGED <<unused, entry, result, engine>> /\ held' = {} /\ order' \in Seq(Tasks)
        /\ closed' = TRUE
  BY DEF IInv, TypeOK
<1>2. TypeOK'
  BY <1>1 DEF IInv, TypeOK, Steps, engine, client
<1>3. \A d \in Clients \ {c} : SameClient(d)
  BY DEF IInv, TypeOK, SameClient, client
<1>4. UnusedInv' /\ (\A u \in Tasks : FutureInv(u)' /\ Grows(u)) /\ \A u : LeavesAlone(u)
  BY <1>1 DEF IInv, UnusedInv, NotSubmitted, FutureInv, Completed, Grows, LeavesAlone, engine
<1>5. (\A u \in held' : EntryInv(u)') /\ SettledIsTrue'
  BY <1>1 DEF SettledIsTrue
<1>6. ClientInv(c)' /\ pc'[c] \notin Submitting
  BY <1>1 DEF IInv, TypeOK, ClientInv, Submitting, Later, engine, client
<1> QED BY <1>1, <1>2, <1>3, <1>4, <1>5, <1>6, ClientStep

-----------------------------------------------------------------------------
LEMMA NextInv == IInv /\ [Next]_vars => IInv'
<1> SUFFICES ASSUME IInv, [Next]_vars PROVE IInv'
  OBVIOUS
<1>1. CASE Start \/ Crash \/ \E t \in Tasks : ExecuteInChild(t) \/ Settle(t)
  BY <1>1, StartStep, CrashStep, ExecuteStep, SettleStep
<1>2. ASSUME NEW c \in Clients, Continue(c) PROVE IInv'
  BY <1>2, SubmitInsertStep, SubmitDispatchStep, SubmitRegisterStep, GoOnStep, WriteStep,
     CancelFutureStep, CloseShutdownStep DEF Continue
<1>3. ASSUME NEW c \in Clients, WaitTimeout(c) \/ Close(c) PROVE IInv'
  BY <1>3, GoOnStep, CloseStep
<1>4. ASSUME NEW c \in Clients, NEW t \in Tasks,
             \/ Submit(c, t) \/ Get(c, t) \/ CancelCheck(c, t)
             \/ WaitBegin(c, t, "wait") \/ WaitBegin(c, t, "await_result")
      PROVE IInv'
  BY <1>4, SubmitStep, LookStep
<1>5. CASE UNCHANGED vars
  <2>1. UNCHANGED <<unused, held, order, entry, result, future, outcome, callback, queue,
                    attempt, pool, closed, pc, job>>
    BY <1>5 DEF vars, backend, engine, client
  <2>2. TypeOK' /\ UnusedInv' /\ (\A t \in Tasks : FutureInv(t)') /\ (\A t \in held' : EntryInv(t)')
    BY <2>1 DEF IInv, TypeOK, UnusedInv, NotSubmitted, FutureInv, Completed, EntryInv
  <2>3. (\A c \in Clients : ClientInv(c)') /\ SubmitInv' /\ SettledIsTrue'
    BY <2>1 DEF IInv, ClientInv, NotSubmitted, SubmitInv, SettledIsTrue
  <2> QED BY <2>2, <2>3 DEF IInv
<1> QED BY <1>1, <1>2, <1>3, <1>4, <1>5 DEF Next

THEOREM Invariance == Spec => []IInv
  BY InitInv, NextInv, PTL DEF Spec

\* Every variable keeps its type.
THEOREM TypeCorrect == Spec => []TypeOK
<1>1. IInv => TypeOK
  BY DEF IInv
<1> QED BY <1>1, Invariance, PTL

\* Once _settle has run, an entry that is kept has the state and the result of
\* its future, whatever get and cancel write without a look at it.
THEOREM SettledCorrect == Spec => []SettledIsTrue
<1>1. IInv => SettledIsTrue
  BY DEF IInv
<1> QED BY <1>1, Invariance, PTL

-----------------------------------------------------------------------------
(* The refinement: the reports of the tasks follow Lifecycle. *)

\* The tasks the pool has taken: the executions callers can hear of.
Submitted == {t \in Tasks : future[t] # "none"}

\* What a step does to the entries, and to the set of submitted tasks.
LEMMA EntriesMove ==
    ASSUME IInv, [Next]_vars
    PROVE  \/ UNCHANGED <<held, entry, Submitted>>
           \/ \E t \in Tasks \ Submitted, gone \in SUBSET Tasks :
                 /\ held' = (held \ gone) \union {t}
                 /\ entry' = [entry EXCEPT ![t] = "queued"]
                 /\ UNCHANGED Submitted
           \/ \E t \in Tasks \ Submitted :
                 /\ Submitted' = Submitted \union {t}
                 /\ t \in held => entry[t] = "queued"
                 /\ UNCHANGED <<held, entry>>
           \/ \E t \in Submitted :
                 \E s \in {"running", "cancelled", "succeeded", "failed"} :
                    /\ t \in held => s = entry[t] \/ (entry[t] \notin Terminal /\ s \in Allowed(entry[t]))
                    /\ entry' = [entry EXCEPT ![t] = s]
                    /\ UNCHANGED <<held, Submitted>>
           \/ held' = {} /\ UNCHANGED <<entry, Submitted>>
<1> DEFINE Insert == \E t \in Tasks \ Submitted, gone \in SUBSET Tasks :
                        /\ held' = (held \ gone) \union {t}
                        /\ entry' = [entry EXCEPT ![t] = "queued"]
                        /\ UNCHANGED Submitted
           Dispatch == \E t \in Tasks \ Submitted :
                          /\ Submitted' = Submitted \union {t}
                          /\ t \in held => entry[t] = "queued"
                          /\ UNCHANGED <<held, entry>>
           Write == \E t \in Submitted :
                       \E s \in {"running", "cancelled", "succeeded", "failed"} :
                          /\ t \in held => s = entry[t] \/ (entry[t] \notin Terminal /\ s \in Allowed(entry[t]))
                          /\ entry' = [entry EXCEPT ![t] = s]
                          /\ UNCHANGED <<held, Submitted>>
           Same == UNCHANGED <<held, entry, Submitted>>
           Moves == \/ Same \/ Insert \/ Dispatch \/ Write
                    \/ held' = {} /\ UNCHANGED <<entry, Submitted>>
<1> SUFFICES Moves
  OBVIOUS
<1> USE DEF Submitted
<1>1. ASSUME NEW t \in Tasks, ExecuteInChild(t) PROVE Same
  BY <1>1 DEF IInv, TypeOK, ExecuteInChild, Complete, backend
<1>2. CASE Start \/ Crash
  <2>1. CASE Start
    <3>1. Head(queue) \in Tasks
      BY <2>1 DEF IInv, TypeOK, Start
    <3>2. UNCHANGED <<held, entry>>
      BY <2>1 DEF Start, backend
    <3>3. \A u \in Tasks : future'[u] = "none" <=> future[u] = "none"
      BY <2>1, <3>1 DEF IInv, TypeOK, Start
    <3> QED BY <3>2, <3>3
  <2>2. CASE Crash
    BY <2>2 DEF IInv, TypeOK, Crash, backend
  <2> QED BY <1>2, <2>1, <2>2
<1>3. ASSUME NEW t \in Tasks, Settle(t) PROVE Moves
  <2>1. FutureInv(t) /\ (t \in held => EntryInv(t)) /\ callback[t] = "due" /\ UNCHANGED <<held, future>>
    BY <1>3 DEF IInv, Settle
  <2>2. t \in Submitted /\ UNCHANGED Submitted
    BY <2>1 DEF FutureInv
  <2>3. CASE t \notin held
    BY <1>3, <2>1, <2>2, <2>3 DEF Settle
  <2>4. CASE t \in held
    <3>1. PICK s \in {"cancelled", "succeeded", "failed"} :
             /\ entry' = [entry EXCEPT ![t] = s]
             /\ s # "cancelled" => future[t] = "done"
      BY <1>3, <2>4 DEF Settle
    <3>2. entry[t] \in {"queued", "running"} \/ (entry[t] = "cancelled" /\ s = "cancelled")
      BY <2>1, <2>4, <3>1 DEF EntryInv
    <3>3. s = entry[t] \/ (entry[t] \notin Terminal /\ s \in Allowed(entry[t]))
      BY <3>2 DEF Allowed, Terminal
    <3>4. Write
      BY <2>1, <2>2, <3>1, <3>3
    <3> QED BY <3>4
  <2> QED BY <2>3, <2>4
<1>4. ASSUME NEW c \in Clients, SubmitInsert(c) PROVE Insert
  <2>1. job[c] \in Tasks /\ future[job[c]] = "none" /\ UNCHANGED future
    BY <1>4 DEF IInv, ClientInv, Submitting, NotSubmitted, SubmitInsert, engine
  <2>2. entry' = [entry EXCEPT ![job[c]] = "queued"]
    BY <1>4 DEF SubmitInsert
  <2>3. \E gone \in SUBSET Tasks : held' = (held \ gone) \union {job[c]}
    <3>1. PICK gone : held' = (held \ gone) \union {job[c]}
      BY <1>4 DEF SubmitInsert, RememberLocked
    <3>2. held' = (held \ (gone \intersect Tasks)) \union {job[c]}
      BY <3>1 DEF IInv, TypeOK
    <3> QED BY <3>2
  <2> QED BY <2>1, <2>2, <2>3
<1>5. ASSUME NEW c \in Clients, SubmitDispatch(c) PROVE Moves
  <2>1. job[c] \in Tasks /\ future[job[c]] = "none" /\ UNCHANGED <<held, entry>>
    BY <1>5 DEF IInv, ClientInv, Submitting, NotSubmitted, SubmitDispatch, backend
  <2>2. job[c] \in held => entry[job[c]] = "queued"
    BY <2>1 DEF IInv, EntryInv
  <2>3. CASE UNCHANGED future
    BY <2>1, <2>3
  <2>4. CASE future' = [future EXCEPT ![job[c]] = "pending"]
    <3>1. Submitted' = Submitted \union {job[c]}
      BY <2>1, <2>4 DEF IInv, TypeOK
    <3>2. Dispatch
      BY <2>1, <2>2, <3>1
    <3> QED BY <3>2
  <2> QED BY <1>5, <2>3, <2>4 DEF SubmitDispatch
<1>6. ASSUME NEW c \in Clients, GetMark(c) \/ CancelWrite(c) PROVE Moves
  <2>1. job[c] \in Tasks /\ UNCHANGED <<held, future>>
    BY <1>6 DEF IInv, ClientInv, Later, GetMark, CancelWrite, engine
  <2>2. job[c] \in held => EntryInv(job[c])
    BY DEF IInv
  <2>3. CASE GetMark(c)
    <3>1. future[job[c]] \in {"running", "done"}
      BY <2>3 DEF IInv, ClientInv, GetMark
    <3>2. CASE entry[job[c]] # "queued"
      <4>1. entry' = entry
        BY <2>3, <3>2 DEF IInv, TypeOK, GetMark
      <4> QED BY <2>1, <4>1
    <3>3. CASE entry[job[c]] = "queued"
      <4>1. entry' = [entry EXCEPT ![job[c]] = "running"]
        BY <2>3, <3>3 DEF GetMark
      <4>2. "running" \in Allowed("queued") /\ "queued" \notin Terminal
        BY DEF Allowed, Terminal
      <4>3. Write
        BY <2>1, <3>1, <3>3, <4>1, <4>2
      <4> QED BY <4>3
    <3> QED BY <3>2, <3>3
  <2>4. CASE CancelWrite(c)
    <3>1. future[job[c]] = "cancelled"
      BY <2>4 DEF IInv, ClientInv, CancelWrite
    <3>2. CASE job[c] \notin held
      <4>1. entry' = entry
        BY <2>4, <3>2 DEF IInv, TypeOK, CancelWrite
      <4> QED BY <2>1, <4>1
    <3>3. CASE job[c] \in held
      <4>1. entry' = [entry EXCEPT ![job[c]] = "cancelled"]
        BY <2>4, <3>3 DEF CancelWrite
      <4>2. entry[job[c]] \in {"queued", "running", "cancelled"}
        BY <2>1, <2>2, <3>1, <3>3 DEF IInv, EntryInv, SettledIsTrue
      <4>3. "cancelled" = entry[job[c]] \/
               (entry[job[c]] \notin Terminal /\ "cancelled" \in Allowed(entry[job[c]]))
        BY <4>2 DEF Allowed, Terminal
      <4>4. Write
        BY <2>1, <3>1, <4>1, <4>3
      <4> QED BY <4>4
    <3> QED BY <3>2, <3>3
  <2> QED BY <1>6, <2>3, <2>4
<1>7. ASSUME NEW c \in Clients, CancelFuture(c) \/ CloseShutdown(c) PROVE Same
  <2>1. UNCHANGED <<held, entry>>
    BY <1>7 DEF CancelFuture, CloseShutdown, backend
  <2>2. \A t \in Tasks : future'[t] = "none" <=> future[t] = "none"
    BY <1>7 DEF IInv, TypeOK, CancelFuture, CloseShutdown
  <2> QED BY <2>1, <2>2
<1>8. ASSUME NEW c \in Clients,
             \/ SubmitRegister(c) \/ SubmitSettled(c) \/ WaitWake(c) \/ WaitTimeout(c)
             \/ ResultRead(c) \/ CancelCallback(c) \/ CancelRead(c) \/ CloseJoin(c)
      PROVE Same
  BY <1>8 DEF SubmitRegister, SubmitSettled, WaitWake, WaitTimeout, ResultRead,
              CancelCallback, CancelRead, CloseJoin, backend, engine
<1>9. ASSUME NEW c \in Clients, NEW t \in Tasks,
             \/ Submit(c, t) \/ Get(c, t) \/ CancelCheck(c, t)
             \/ WaitBegin(c, t, "wait") \/ WaitBegin(c, t, "await_result")
      PROVE Same
  BY <1>9 DEF Submit, Get, CancelCheck, WaitBegin, backend, engine
<1>10. ASSUME NEW c \in Clients, Close(c) PROVE Moves
  BY <1>10 DEF Close, engine
<1>11. CASE UNCHANGED vars
  BY <1>11 DEF vars, backend, engine
<1>12. (Same => Moves) /\ (Insert => Moves)
  OBVIOUS
<1> HIDE DEF Moves, Same, Insert
<1> QED
  BY <1>12, <1>1, <1>2, <1>3, <1>4, <1>5, <1>6, <1>7, <1>8, <1>9, <1>10, <1>11 DEF Next, Continue

\* Each of them is a step of Lifecycle or, for a task that nobody can ask
\* about, none.
LEMMA StepSimulation ==
    IInv /\ [Next]_vars => [Observed!LifecycleNext]_(Observed!lifecycle)
<1> SUFFICES ASSUME IInv, [Next]_vars
             PROVE  Observed!LifecycleNext \/ UNCHANGED Observed!lifecycle
  BY DEF Observed!lifecycle
<1> DEFINE seen == [t \in Tasks |-> IF t \in held /\ future[t] # "none" THEN entry[t] ELSE Absent]
           gone == {t \in Tasks : future[t] # "none" /\ t \notin held}
<1>1. seen = [t \in Tasks |-> IF t \in held \intersect Submitted THEN entry[t] ELSE Absent]
      /\ gone = Submitted \ held
  BY DEF Submitted
<1>2. seen' = [t \in Tasks |-> IF t \in held' \intersect Submitted' THEN entry'[t] ELSE Absent]
      /\ gone' = Submitted' \ held'
  BY DEF Submitted
<1>3. held \subseteq Tasks /\ Submitted \subseteq Tasks
      /\ entry \in [Tasks -> {Absent, "queued", "running", "cancelled", "succeeded", "failed"}]
  BY DEF IInv, TypeOK, Submitted
<1>4. seen' = seen /\ gone' = gone => UNCHANGED Observed!lifecycle
  BY DEF Observed!lifecycle
<1>5. CASE UNCHANGED <<held, entry, Submitted>>
  BY <1>1, <1>2, <1>4, <1>5
<1>6. ASSUME NEW t \in Tasks \ Submitted, NEW evicted \in SUBSET Tasks,
             held' = (held \ evicted) \union {t},
             entry' = [entry EXCEPT ![t] = "queued"], UNCHANGED Submitted
      PROVE  Observed!LifecycleNext
  <2> DEFINE lost == (held \intersect Submitted) \ held'
  <2>1. seen' = [u \in Tasks |-> IF u \in lost THEN Absent ELSE seen[u]]
    BY <1>1, <1>2, <1>3, <1>6
  <2>2. gone' = gone \union lost
    BY <1>1, <1>2, <1>3, <1>6
  <2>3. lost \in SUBSET Tasks
    BY <1>3
  <2> HIDE DEF lost
  <2>4. \E some \in SUBSET Tasks : Observed!Forget(some)
    BY <2>1, <2>2, <2>3 DEF Observed!Forget, Observed!Absent, Absent
  <2> QED BY <2>4 DEF Observed!LifecycleNext
<1>7. ASSUME NEW t \in Tasks \ Submitted, Submitted' = Submitted \union {t},
             t \in held => entry[t] = "queued", UNCHANGED <<held, entry>>
      PROVE  Observed!LifecycleNext
  <2>1. CASE t \in held
    <3>1. seen[t] = Absent /\ t \notin gone
      BY <1>1, <1>7
    <3>2. gone' = gone
      BY <1>1, <1>2, <1>7, <2>1
    <3>3. ASSUME NEW u \in Tasks PROVE seen'[u] = IF u = t THEN "queued" ELSE seen[u]
      BY <1>1, <1>2, <1>7, <2>1
    <3>4. seen' = [seen EXCEPT ![t] = "queued"]
      BY <3>3
    <3>5. Observed!Appear(t)
      BY <3>1, <3>2, <3>4 DEF Observed!Appear, Observed!Absent, Absent
    <3> QED BY <3>5 DEF Observed!LifecycleNext
  <2>2. CASE t \notin held
    <3>1. seen' = [u \in Tasks |-> IF u \in {t} THEN Absent ELSE seen[u]]
      BY <1>1, <1>2, <1>3, <1>7, <2>2
    <3>2. gone' = gone \union {t}
      BY <1>1, <1>2, <1>3, <1>7, <2>2
    <3>3. \E some \in SUBSET Tasks : Observed!Forget(some)
      <4>1. {t} \in SUBSET Tasks
        OBVIOUS
      <4> QED BY <3>1, <3>2, <4>1 DEF Observed!Forget, Observed!Absent, Absent
    <3> QED BY <3>3 DEF Observed!LifecycleNext
  <2> QED BY <2>1, <2>2
<1>8. ASSUME NEW t \in Submitted, NEW s \in {"running", "cancelled", "succeeded", "failed"},
             t \in held => s = entry[t] \/ (entry[t] \notin Terminal /\ s \in Allowed(entry[t])),
             entry' = [entry EXCEPT ![t] = s], UNCHANGED <<held, Submitted>>
      PROVE  Observed!LifecycleNext \/ UNCHANGED Observed!lifecycle
  <2>1. gone' = gone /\ t \in Tasks
    BY <1>1, <1>2, <1>3, <1>8
  <2>2. CASE t \notin held \/ s = entry[t]
    <3>1. seen' = seen
      BY <1>1, <1>2, <1>3, <1>8, <2>2
    <3> QED BY <1>4, <2>1, <3>1
  <2>3. CASE t \in held /\ entry[t] \notin Terminal /\ s \in Allowed(entry[t])
    <3>0. ASSUME NEW u \in Tasks PROVE seen'[u] = IF u = t THEN s ELSE seen[u]
      <4>1. entry'[u] = IF u = t THEN s ELSE entry[u]
        BY <1>3, <1>8
      <4> QED BY <1>1, <1>2, <1>8, <2>3, <4>1
    <3>1. seen[t] = entry[t] /\ seen' = [seen EXCEPT ![t] = s]
      BY <1>1, <2>1, <2>3, <3>0
    <3>2. entry[t] \in Observed!State \ Observed!Terminal /\ s \in Observed!Allowed(entry[t])
      <4>1. entry[t] \in {"queued", "running"}
        <5>1. EntryInv(t)
          BY <2>3 DEF IInv
        <5> QED BY <1>3, <2>1, <2>3, <5>1 DEF EntryInv, Terminal
      <4> QED BY <2>3, <4>1
              DEF Observed!State, Observed!Terminal, Observed!Allowed, Allowed, Terminal
    <3>3. Observed!Move(t)
      BY <2>1, <3>1, <3>2 DEF Observed!Move
    <3> QED BY <2>1, <3>3 DEF Observed!LifecycleNext
  <2> QED BY <1>8, <2>2, <2>3
<1>9. CASE held' = {} /\ UNCHANGED <<entry, Submitted>>
  <2> DEFINE lost == held \intersect Submitted
  <2>1. seen' = [u \in Tasks |-> IF u \in lost THEN Absent ELSE seen[u]]
    BY <1>1, <1>2, <1>9
  <2>2. gone' = gone \union lost
    BY <1>1, <1>2, <1>9
  <2>3. lost \in SUBSET Tasks
    BY <1>3
  <2> HIDE DEF lost
  <2>4. \E some \in SUBSET Tasks : Observed!Forget(some)
    BY <2>1, <2>2, <2>3 DEF Observed!Forget, Observed!Absent, Absent
  <2> QED BY <2>4 DEF Observed!LifecycleNext
<1> QED
  BY <1>5, <1>6, <1>7, <1>8, <1>9, EntriesMove

\* What callers are told of the tasks is a legal life cycle (execution.py,
\* _ALLOWED): they appear queued, move along the table, end once and for all
\* and may be forgotten, by a full history or by close.
THEOREM Refinement == Spec => ImplementsLifecycle
<1>1. Init => Observed!LifecycleInit
  BY DEF Init, Observed!LifecycleInit, Absent, Observed!Absent
<1> QED
  BY <1>1, StepSimulation, Invariance, PTL DEF Spec, ImplementsLifecycle, Observed!LifecycleSpec

=============================================================================
