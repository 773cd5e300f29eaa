---------------------- MODULE SubprocessBackendProofs ----------------------
(***************************************************************************)
(* Proofs about SubprocessBackend, for any number of jobs and clients, any *)
(* output and any budgets: what the backend reports of a child is true, a  *)
(* stream that ends is complete, and the reports implement Lifecycle.      *)
(***************************************************************************)
EXTENDS SubprocessBackend, TLAPS

\* An id not minted yet occurs nowhere.
UnusedInv ==
    \A j \in unused : child[j] = "none" /\ state[j] = Absent

\* What is kept of a job that has no verdict yet, and of one that has.
JobInv(j) ==
    /\ j \in records => state[j] # Absent
    /\ state[j] \in Terminal => Ended(j)
    /\ timed_out[j] => overdue[j]

Looking == {"get", "wait", "cancel", "stream"}

\* What each position of a call implies.  Only the thread that stops a child
\* has the lock, and nobody settles the child's job meanwhile.
ClientInv(c) ==
    /\ pc[c] = "idle" => op[c] = "none"
    /\ op[c] # "close" => todo[c] = {}
    /\ op[c] = "close" <=> pc[c] \in {"close_next", "close_grace"}
    /\ pc[c] = "close_grace" => job[c] \in Jobs
    /\ pc[c] = "insert" =>
           /\ op[c] = "submit"
           /\ job[c] \in Jobs \ unused
           /\ state[job[c]] = Absent
    /\ pc[c] \in {"poll", "grace", "kill_wait"} =>
           op[c] \in Looking /\ job[c] \in Jobs /\ Known(job[c])
    /\ pc[c] \in {"grace", "kill_wait"} => lock = c /\ state[job[c]] = "running"
    /\ pc[c] \in {"read", "drain", "drained"} =>
           op[c] = "stream" /\ job[c] \in Jobs /\ Known(job[c])
    /\ pc[c] \in {"drain", "drained"} => Ended(job[c])

\* Two submits never hold the same id.
SubmitInv ==
    \A c, d \in Clients :
        pc[c] = "insert" /\ pc[d] = "insert" /\ job[c] = job[d] => c = d

IInv ==
    /\ TypeOK
    /\ UnusedInv
    /\ \A j \in Jobs : JobInv(j)
    /\ \A c \in Clients : ClientInv(c)
    /\ SubmitInv
    /\ VerdictMatchesState
    /\ StreamIsComplete
    /\ ForgottenIsStopped

-----------------------------------------------------------------------------
\* Nothing client d keeps about its call changes.
SameClient(d) ==
    /\ pc'[d] = pc[d] /\ op'[d] = op[d] /\ job'[d] = job[d]
    /\ consumed'[d] = consumed[d] /\ todo'[d] = todo[d]

\* What is once true of a job remains true: it is known, its child has ended.
Grows(j) ==
    /\ Known(j) => Known(j)'
    /\ Ended(j) => Ended(j)'

\* The backend as __init__ leaves it satisfies the invariant.
LEMMA InitInv == Init => IInv
<1> SUFFICES ASSUME Init PROVE IInv
  OBVIOUS
<1>1. TypeOK
  BY DEF Init, TypeOK, Steps, Methods, Verdicts
<1>2. UnusedInv /\ (\A j \in Jobs : JobInv(j)) /\ SubmitInv
  BY DEF Init, UnusedInv, JobInv, SubmitInv, Terminal, Absent
<1>3. \A c \in Clients : ClientInv(c)
  BY DEF Init, ClientInv
<1>4. VerdictMatchesState /\ StreamIsComplete /\ ForgottenIsStopped
  BY DEF Init, VerdictMatchesState, StreamIsComplete, ForgottenIsStopped, Known, Absent
<1> QED BY <1>1, <1>2, <1>3, <1>4 DEF IInv

\* A client that does not move keeps its invariant, if its job is not
\* inserted or settled by somebody else and the lock it has is left to it.
LEMMA Bystander ==
    ASSUME NEW d \in Clients, ClientInv(d), SameClient(d), TypeOK',
           unused' \subseteq unused,
           \A j \in Jobs : Grows(j),
           pc[d] = "insert" => state'[job[d]] = Absent,
           pc[d] \in {"grace", "kill_wait"} => lock' = d /\ state'[job[d]] = "running"
    PROVE  ClientInv(d)'
  BY DEF ClientInv, SameClient, Grows

\* A step of one client.  What it has to show beyond the invariants of the
\* jobs and of the client itself is that it disturbs no other client.
LEMMA ClientStep ==
    ASSUME IInv, TypeOK', NEW c \in Clients,
           \A d \in Clients \ {c} : SameClient(d),
           unused' \subseteq unused, written' = written,
           UnusedInv', \A j \in Jobs : JobInv(j)' /\ Grows(j),
           VerdictMatchesState', ForgottenIsStopped',
           \A d \in Clients \ {c} :
               /\ pc[d] = "insert" => state'[job[d]] = Absent
               /\ pc'[c] = "insert" /\ pc[d] = "insert" => job'[c] # job[d]
               /\ pc[d] \in {"grace", "kill_wait"} => lock' = d /\ state'[job[d]] = "running",
           ClientInv(c)',
           pc'[c] = "drained" => consumed'[c] = written[job'[c]]
    PROVE  IInv'
<1>1. \A d \in Clients : ClientInv(d)'
  <2> SUFFICES ASSUME NEW d \in Clients \ {c} PROVE ClientInv(d)'
    OBVIOUS
  <2>1. ClientInv(d)
    BY DEF IInv
  <2> QED BY <2>1, Bystander
<1>2. SubmitInv'
  BY DEF IInv, SubmitInv, SameClient
<1>3. StreamIsComplete'
  BY DEF IInv, StreamIsComplete, SameClient
<1> QED BY <1>1, <1>2, <1>3 DEF IInv

-----------------------------------------------------------------------------
(* Steps of a child and its clock. *)

\* A child's steps leave the record and every client alone.
LEMMA ChildStep ==
    ASSUME IInv, NEW j \in Jobs, Child(j)
    PROVE  IInv'
<1>1. TypeOK'
  <2>1. CASE Write(j)
    BY <2>1 DEF IInv, TypeOK, Write, record, client
  <2>2. CASE Exit(j)
    BY <2>2 DEF IInv, TypeOK, Exit, record, client
  <2>3. CASE Expire(j)
    BY <2>3 DEF IInv, TypeOK, Expire, record, client
  <2> QED BY <2>1, <2>2, <2>3 DEF Child
<1>2. UnusedInv' /\ (\A k \in Jobs : JobInv(k)' /\ Grows(k))
  BY DEF IInv, TypeOK, UnusedInv, JobInv, Grows, Known, Ended, Child, Write, Exit, Expire,
         record, client
<1>3. \A c \in Clients : SameClient(c)
  BY DEF SameClient, Child, Write, Exit, Expire, client
<1>4. \A c \in Clients : ClientInv(c)'
  <2> SUFFICES ASSUME NEW c \in Clients PROVE ClientInv(c)'
    OBVIOUS
  <2>1. ClientInv(c)
    BY DEF IInv
  <2>2. UNCHANGED <<unused, lock, state>>
    BY DEF Child, Write, Exit, Expire, record, client
  <2> QED BY <1>1, <1>2, <1>3, <2>1, <2>2, Bystander DEF ClientInv
<1>5. SubmitInv'
  BY <1>3 DEF IInv, SubmitInv, SameClient
<1>6. VerdictMatchesState'
  BY DEF IInv, TypeOK, JobInv, VerdictMatchesState, Terminal, Ended,
         Child, Write, Exit, Expire, record, client
<1>7. StreamIsComplete'
  <2> SUFFICES ASSUME NEW c \in Clients, pc'[c] = "drained"
               PROVE  consumed'[c] = written'[job'[c]]
    BY DEF StreamIsComplete
  <2>1. Ended(job[c]) /\ consumed[c] = written[job[c]] /\ job[c] \in Jobs
    BY <1>3 DEF IInv, ClientInv, StreamIsComplete, SameClient
  <2>2. written'[job[c]] = written[job[c]]
    BY <2>1 DEF IInv, TypeOK, Ended, Child, Write, Exit, Expire
  <2> QED BY <1>3, <2>1, <2>2 DEF SameClient
<1>8. ForgottenIsStopped'
  BY <1>3 DEF IInv, TypeOK, ForgottenIsStopped, Known, Ended, SameClient,
              Child, Write, Exit, Expire, record, client
<1> QED BY <1>1, <1>2, <1>4, <1>5, <1>6, <1>7, <1>8 DEF IInv

-----------------------------------------------------------------------------
(* Steps of a client that only move the call on. *)

\* A call that goes on, with the backend as it was.
LEMMA MoveStep ==
    ASSUME IInv, TypeOK', NEW c \in Clients,
           UNCHANGED <<unused, process, records, record, lock>>,
           \A d \in Clients \ {c} : SameClient(d),
           ClientInv(c)', pc'[c] # "insert", pc[c] # "close_grace", todo'[c] = todo[c],
           pc'[c] = "drained" => consumed'[c] = written[job'[c]]
    PROVE  IInv'
<1>1. UnusedInv' /\ \A j \in Jobs : JobInv(j)' /\ Grows(j)
  BY DEF IInv, UnusedInv, JobInv, Grows, Known, Ended, process, record
<1>2. VerdictMatchesState'
  BY DEF IInv, VerdictMatchesState, process, record
<1>3. ForgottenIsStopped'
  BY DEF IInv, ForgottenIsStopped, Known, Ended, SameClient, process, record
<1>4. \A d \in Clients : ClientInv(d)
  BY DEF IInv
<1>5. UNCHANGED <<state, written, lock, unused>>
  BY DEF process, record
<1> QED BY <1>1, <1>2, <1>3, <1>4, <1>5, ClientStep DEF ClientInv

\* A call about a job begins, or ends at once.
LEMMA BeginStep ==
    ASSUME IInv, NEW c \in Clients, NEW j \in Jobs,
           NEW m \in Looking, Begin(c, j, m)
    PROVE  IInv'
<1>1. TypeOK'
  BY SMTT(30) DEF IInv, TypeOK, Begin, Call, CallAndReturn, Return, AtRest, Steps, Methods, process, record, Looking
<1>2. \A d \in Clients \ {c} : SameClient(d)
  BY DEF IInv, TypeOK, SameClient, Begin, Call, CallAndReturn, Return, AtRest
<1>3. ClientInv(c)'
  BY DEF IInv, TypeOK, JobInv, ClientInv, Looking, Known, Ended, Begin, Call, CallAndReturn, Return, AtRest, process, record, Looking
<1>4. pc'[c] # "insert" /\ pc[c] # "close_grace" /\ todo'[c] = todo[c]
  BY DEF IInv, TypeOK, Begin, Call, CallAndReturn, Return, AtRest
<1>5. pc'[c] = "drained" => consumed'[c] = written[job'[c]]
  BY DEF IInv, TypeOK, Begin, Call, CallAndReturn, Return, AtRest
<1>6. UNCHANGED <<unused, process, records, record, lock>>
  BY DEF Begin
<1> QED BY <1>1, <1>2, <1>3, <1>4, <1>5, <1>6, MoveStep

\* A look at a job that has its verdict.
LEMMA PollTerminalStep ==
    ASSUME IInv, NEW c \in Clients, PollTerminal(c)
    PROVE  IInv'
<1>1. TypeOK'
  BY SMTT(30) DEF IInv, TypeOK, PollTerminal, Report, Goto, Return, Steps, Methods, process, record
<1>2. \A d \in Clients \ {c} : SameClient(d)
  BY DEF IInv, TypeOK, SameClient, PollTerminal, Report, Goto, Return
<1>3. ClientInv(c)'
  BY DEF IInv, TypeOK, JobInv, ClientInv, Looking, Known, Ended, PollTerminal, Report, Goto, Return, process, record
<1>4. pc'[c] # "insert" /\ pc[c] # "close_grace" /\ todo'[c] = todo[c]
  BY DEF IInv, TypeOK, PollTerminal, Report, Goto, Return
<1>5. pc'[c] = "drained" => consumed'[c] = written[job'[c]]
  BY DEF IInv, TypeOK, PollTerminal, Report, Goto, Return
<1>6. UNCHANGED <<unused, process, records, record, lock>>
  BY DEF PollTerminal
<1> QED BY <1>1, <1>2, <1>3, <1>4, <1>5, <1>6, MoveStep

\* A look at a child that goes on.
LEMMA PollRunningStep ==
    ASSUME IInv, NEW c \in Clients, PollRunning(c)
    PROVE  IInv'
<1>1. TypeOK'
  BY SMTT(30) DEF IInv, TypeOK, PollRunning, StillRunning, Goto, Return, Steps, Methods, process, record
<1>2. \A d \in Clients \ {c} : SameClient(d)
  BY DEF IInv, TypeOK, SameClient, PollRunning, StillRunning, Goto, Return
<1>3. ClientInv(c)'
  BY DEF IInv, TypeOK, JobInv, ClientInv, Looking, Known, Ended, PollRunning, StillRunning, Goto, Return, process, record
<1>4. pc'[c] # "insert" /\ pc[c] # "close_grace" /\ todo'[c] = todo[c]
  BY DEF IInv, TypeOK, PollRunning, StillRunning, Goto, Return
<1>5. pc'[c] = "drained" => consumed'[c] = written[job'[c]]
  BY DEF IInv, TypeOK, PollRunning, StillRunning, Goto, Return
<1>6. UNCHANGED <<unused, process, records, record, lock>>
  BY DEF PollRunning
<1> QED BY <1>1, <1>2, <1>3, <1>4, <1>5, <1>6, MoveStep

\* A read of the log.
LEMMA StreamReadStep ==
    ASSUME IInv, NEW c \in Clients, StreamRead(c)
    PROVE  IInv'
<1>1. TypeOK'
  BY DEF IInv, TypeOK, ClientInv, StreamRead, Goto, Steps, process, record
<1>2. \A d \in Clients \ {c} : SameClient(d)
  BY DEF IInv, TypeOK, SameClient, StreamRead, Goto
<1>3. ClientInv(c)'
  BY DEF IInv, TypeOK, JobInv, ClientInv, Looking, Known, Ended, StreamRead, Goto, process, record
<1>4. pc'[c] # "insert" /\ pc[c] # "close_grace" /\ todo'[c] = todo[c]
  BY DEF IInv, TypeOK, StreamRead, Goto
<1>5. pc'[c] = "drained" => consumed'[c] = written[job'[c]]
  BY DEF IInv, TypeOK, StreamRead, Goto
<1>6. UNCHANGED <<unused, process, records, record, lock>>
  BY DEF StreamRead
<1> QED BY <1>1, <1>2, <1>3, <1>4, <1>5, <1>6, MoveStep

\* The last read of the log.
LEMMA StreamDrainStep ==
    ASSUME IInv, NEW c \in Clients, StreamDrain(c)
    PROVE  IInv'
<1>1. TypeOK'
  BY DEF IInv, TypeOK, ClientInv, StreamDrain, Steps, process, record
<1>2. \A d \in Clients \ {c} : SameClient(d)
  BY DEF IInv, TypeOK, SameClient, StreamDrain
<1>3. ClientInv(c)'
  BY DEF IInv, TypeOK, JobInv, ClientInv, Looking, Known, Ended, StreamDrain, process, record
<1>4. pc'[c] # "insert" /\ pc[c] # "close_grace" /\ todo'[c] = todo[c]
  BY DEF IInv, TypeOK, StreamDrain
<1>5. pc'[c] = "drained" => consumed'[c] = written[job'[c]]
  BY DEF IInv, TypeOK, StreamDrain
<1>6. UNCHANGED <<unused, process, records, record, lock>>
  BY DEF StreamDrain
<1> QED BY <1>1, <1>2, <1>3, <1>4, <1>5, <1>6, MoveStep

-----------------------------------------------------------------------------
(* submit. *)

\* Popen, or an error before there is a child.
LEMMA SubmitStep ==
    ASSUME IInv, NEW c \in Clients, NEW j \in Jobs, Submit(c, j)
    PROVE  IInv'
<1> USE DEF Submit, AtRest
<1>1. TypeOK'
  BY SMTT(30) DEF IInv, TypeOK, Call, CallAndReturn, Return, Steps, Methods, record
<1>2. \A d \in Clients \ {c} : SameClient(d)
  BY DEF IInv, TypeOK, SameClient, Call, CallAndReturn, Return
<1>3. UnusedInv' /\ \A k \in Jobs : JobInv(k)' /\ Grows(k)
  BY DEF IInv, TypeOK, UnusedInv, JobInv, Grows, Known, Ended, Terminal, Absent, record
<1>4. ClientInv(c)'
  BY DEF IInv, TypeOK, UnusedInv, ClientInv, Looking, Call, CallAndReturn, Return, record
<1>5. VerdictMatchesState'
  BY DEF IInv, TypeOK, UnusedInv, VerdictMatchesState, Terminal, Absent, record
<1>6. ForgottenIsStopped'
  <2>1. j \in unused /\ todo' = todo /\ state' = state /\ records' = records /\ signal' = signal
    BY DEF Call, CallAndReturn, Return, record
  <2>2. \A d \in Clients : pc[d] = "close_grace" => d # c
    BY DEF Call, CallAndReturn
  <2> QED
    BY <1>2, <2>1, <2>2 DEF IInv, TypeOK, UnusedInv, ForgottenIsStopped, Known, Ended, SameClient
<1>7. \A d \in Clients \ {c} :
         pc'[c] = "insert" /\ pc[d] = "insert" => job'[c] # job[d]
  BY DEF IInv, TypeOK, ClientInv, Call, CallAndReturn, Return
<1>8. unused' \subseteq unused /\ UNCHANGED <<written, state, lock>> /\ pc'[c] # "drained"
  BY DEF IInv, TypeOK, Call, CallAndReturn, Return, record
<1>9. \A d \in Clients : ClientInv(d)
  BY DEF IInv
<1> QED BY <1>1, <1>2, <1>3, <1>4, <1>5, <1>6, <1>7, <1>8, <1>9, ClientStep DEF ClientInv

\* The locked insertion of the record.
LEMMA SubmitInsertStep ==
    ASSUME IInv, NEW c \in Clients, SubmitInsert(c)
    PROVE  IInv'
<1> USE DEF SubmitInsert, Return
<1>1. job[c] \in Jobs \ unused /\ state[job[c]] = Absent
  BY DEF IInv, ClientInv
<1>2. TypeOK'
  BY <1>1 DEF IInv, TypeOK, Steps, Methods, process
<1>3. \A d \in Clients \ {c} : SameClient(d)
  BY DEF IInv, TypeOK, SameClient
<1>4. UnusedInv' /\ \A j \in Jobs : JobInv(j)' /\ Grows(j)
  BY <1>1 DEF IInv, TypeOK, UnusedInv, JobInv, Grows, Known, Ended, Terminal, Absent, process
<1>5. ClientInv(c)'
  BY DEF IInv, TypeOK, ClientInv
<1>6. VerdictMatchesState'
  BY <1>1 DEF IInv, TypeOK, VerdictMatchesState, Terminal, Absent, process
<1>7. ForgottenIsStopped'
  BY <1>1, <1>3 DEF IInv, TypeOK, ForgottenIsStopped, Known, Ended, SameClient, process
<1>8. \A d \in Clients \ {c} :
          /\ pc[d] = "insert" => state'[job[d]] = Absent
          /\ pc[d] \in {"grace", "kill_wait"} => lock' = d /\ state'[job[d]] = "running"
  <2> SUFFICES ASSUME NEW d \in Clients \ {c}
               PROVE /\ pc[d] = "insert" => state'[job[d]] = Absent
                     /\ pc[d] \in {"grace", "kill_wait"} =>
                            lock' = d /\ state'[job[d]] = "running"
    OBVIOUS
  <2>1. pc[d] = "insert" => job[d] # job[c] /\ state[job[d]] = Absent /\ job[d] \in Jobs
    BY DEF IInv, SubmitInv, ClientInv
  <2>2. pc[d] \notin {"grace", "kill_wait"}
    BY SubprocessAssumption DEF IInv, ClientInv
  <2> QED BY <2>1, <2>2 DEF IInv, TypeOK
<1>9. unused' \subseteq unused /\ written' = written /\ pc'[c] = "idle"
  BY DEF IInv, TypeOK, process
<1> QED BY <1>2, <1>3, <1>4, <1>5, <1>6, <1>7, <1>8, <1>9, ClientStep

-----------------------------------------------------------------------------
(* A verdict, and the way to it. *)

\* Whoever settles a job is looking at it, its child has ended, and nobody
\* else has the lock.
LEMMA SettleStep ==
    ASSUME IInv, NEW c \in Clients, Settle(c), Ended(job[c]),
           \/ pc[c] = "poll" /\ lock = Free
           \/ pc[c] \in {"grace", "kill_wait"}
    PROVE  IInv'
<1> USE DEF Settle
<1>1. job[c] \in Jobs /\ Known(job[c]) /\ op[c] \in Looking /\ todo[c] = {}
  BY DEF IInv, ClientInv, Looking
<1>2. Report(c) /\ cancelled' = [cancelled EXCEPT ![job[c]] = cancelled'[job[c]]]
        /\ cancelled'[job[c]] \in BOOLEAN
  BY <1>1 DEF IInv, TypeOK
<1>3. \E s \in Terminal, v \in Verdicts :
          /\ state' = [state EXCEPT ![job[c]] = s]
          /\ verdict' = [verdict EXCEPT ![job[c]] = v]
          /\ s = "succeeded" => v = "ok" /\ child[job[c]] = "zero"
          /\ s = "failed" => v = "exit_code" /\ child[job[c]] = "nonzero"
          /\ s = "cancelled" => v = "cancelled"
          /\ s = "timed_out" => v = "timed_out" /\ overdue[job[c]]
  BY <1>1 DEF IInv, TypeOK, JobInv, StateFor, ResultFor, Terminal, Verdicts, Ended
<1>4. UNCHANGED <<unused, process, records, timed_out>> /\ lock' = Free
  OBVIOUS
<1> HIDE DEF Settle
<1>5. TypeOK'
  BY <1>1, <1>2, <1>3, <1>4 DEF IInv, TypeOK, Report, Goto, Return, Steps, Methods, process
<1>6. \A d \in Clients \ {c} : SameClient(d)
  BY <1>2 DEF IInv, TypeOK, SameClient, Report, Goto, Return
<1>7. UnusedInv' /\ \A j \in Jobs : JobInv(j)' /\ Grows(j)
  <2>1. UnusedInv'
    BY <1>1, <1>3, <1>4 DEF IInv, TypeOK, UnusedInv, Known, process
  <2>2. \A j \in Jobs : JobInv(j)' /\ Grows(j)
    BY <1>1, <1>3, <1>4 DEF IInv, TypeOK, JobInv, Grows, Known, Ended, Terminal, Absent, process
  <2> QED BY <2>1, <2>2
<1>8. ClientInv(c)'
  BY <1>1, <1>2, <1>4, <1>7 DEF IInv, TypeOK, ClientInv, Report, Goto, Return, Looking, Grows
<1>9. VerdictMatchesState'
  BY <1>1, <1>3, <1>4 DEF IInv, TypeOK, VerdictMatchesState, Terminal, Absent, process
<1>10. ForgottenIsStopped'
  <2>1. UNCHANGED <<todo, records, child, signal>> /\ \A j \in Jobs : Known(j)' <=> Known(j)
    BY <1>1, <1>2, <1>3, <1>4 DEF IInv, TypeOK, Known, Terminal, Absent, Report, Goto, Return, process
  <2> QED BY <1>6, <2>1 DEF IInv, ForgottenIsStopped, Ended, SameClient
<1>11. \A d \in Clients \ {c} :
          /\ pc[d] = "insert" => state'[job[d]] = Absent
          /\ pc[d] \notin {"grace", "kill_wait"}
  <2> SUFFICES ASSUME NEW d \in Clients \ {c}
               PROVE /\ pc[d] = "insert" => state'[job[d]] = Absent
                     /\ pc[d] \notin {"grace", "kill_wait"}
    OBVIOUS
  <2>1. ClientInv(c) /\ ClientInv(d)
    BY DEF IInv
  <2> QED BY <1>1, <1>3, <2>1, SubprocessAssumption DEF IInv, TypeOK, ClientInv, Known
<1>12. pc'[c] \notin {"insert", "drained"}
  BY <1>2 DEF IInv, TypeOK, Report, Goto, Return
<1> QED BY <1>4, <1>5, <1>6, <1>7, <1>8, <1>9, <1>10, <1>11, <1>12, ClientStep DEF process

LEMMA PollEndedStep ==
    ASSUME IInv, NEW c \in Clients, PollEnded(c)
    PROVE  IInv'
  BY SettleStep DEF PollEnded

LEMMA StopReapedStep ==
    ASSUME IInv, NEW c \in Clients, StopReaped(c)
    PROVE  IInv'
  BY SettleStep DEF StopReaped

\* A signal to a child, which the thread that stops it sends with the lock and
\* close without.
LEMMA PollStopStep ==
    ASSUME IInv, NEW c \in Clients, PollStop(c)
    PROVE  IInv'
<1> USE DEF PollStop, Goto
<1>1. job[c] \in Jobs /\ Known(job[c]) /\ op[c] \in Looking /\ todo[c] = {}
  BY DEF IInv, ClientInv, Looking
<1>2. TypeOK'
  BY <1>1 DEF IInv, TypeOK, Steps
<1>3. \A d \in Clients \ {c} : SameClient(d)
  BY DEF IInv, TypeOK, SameClient
<1>4. UnusedInv' /\ \A j \in Jobs : JobInv(j)' /\ Grows(j)
  BY <1>1 DEF IInv, TypeOK, UnusedInv, JobInv, Grows, Known, Ended
<1>5. ClientInv(c)'
  BY <1>1 DEF IInv, TypeOK, ClientInv, Looking, Known
<1>6. VerdictMatchesState'
  BY DEF IInv, VerdictMatchesState
<1>7. ForgottenIsStopped'
  <2>1. \A j \in Jobs : signal[j] = "kill" => signal'[j] = "kill"
    BY DEF IInv, TypeOK
  <2> QED BY <1>3, <2>1 DEF IInv, ForgottenIsStopped, Known, Ended, SameClient
<1>8. \A d \in Clients \ {c} :
          /\ pc[d] = "insert" => state'[job[d]] = Absent
          /\ pc[d] \notin {"grace", "kill_wait"}
  BY SubprocessAssumption DEF IInv, ClientInv
<1>9. pc'[c] = "grace"
  BY DEF IInv, TypeOK
<1> QED BY <1>2, <1>3, <1>4, <1>5, <1>6, <1>7, <1>8, <1>9, ClientStep

LEMMA StopKillStep ==
    ASSUME IInv, NEW c \in Clients, StopKill(c)
    PROVE  IInv'
<1> USE DEF StopKill, Goto
<1>1. job[c] \in Jobs /\ Known(job[c]) /\ op[c] \in Looking
  BY DEF IInv, ClientInv, Looking
<1>2. TypeOK'
  BY <1>1 DEF IInv, TypeOK, Steps, record
<1>3. \A d \in Clients \ {c} : SameClient(d)
  BY DEF IInv, TypeOK, SameClient
<1>4. UnusedInv' /\ \A j \in Jobs : JobInv(j)' /\ Grows(j)
  BY DEF IInv, UnusedInv, JobInv, Grows, Known, Ended, record
<1>5. ClientInv(c)'
  BY <1>1 DEF IInv, TypeOK, ClientInv, Looking, Known, record
<1>6. VerdictMatchesState'
  BY DEF IInv, VerdictMatchesState, record
<1>7. ForgottenIsStopped'
  <2>1. \A j \in Jobs : signal[j] = "kill" => signal'[j] = "kill"
    BY DEF IInv, TypeOK
  <2> QED BY <1>3, <2>1 DEF IInv, ForgottenIsStopped, Known, Ended, SameClient, record
<1>8. \A d \in Clients \ {c} :
          /\ pc[d] = "insert" => state'[job[d]] = Absent
          /\ pc[d] \in {"grace", "kill_wait"} => lock' = d /\ state'[job[d]] = "running"
  BY DEF IInv, ClientInv, record
<1>9. pc'[c] = "kill_wait"
  BY DEF IInv, TypeOK
<1> QED BY <1>2, <1>3, <1>4, <1>5, <1>6, <1>7, <1>8, <1>9, ClientStep

-----------------------------------------------------------------------------
(* close. *)

\* A step of close: it may signal a child and drop records, and has to show
\* that what it drops or has done with is stopped.
LEMMA CloseCallStep ==
    ASSUME IInv, TypeOK', NEW c \in Clients,
           UNCHANGED <<unused, child, overdue, written, record, lock>>,
           records' \subseteq records,
           \A d \in Clients \ {c} : SameClient(d),
           ClientInv(c)', ForgottenIsStopped',
           pc'[c] \in {"idle", "close_next", "close_grace"}
    PROVE  IInv'
<1>1. UnusedInv' /\ (\A j \in Jobs : JobInv(j)' /\ Grows(j)) /\ VerdictMatchesState'
  BY DEF IInv, UnusedInv, JobInv, Grows, Known, Ended, VerdictMatchesState, record
<1>2. \A d \in Clients \ {c} :
          /\ pc[d] = "insert" => state'[job[d]] = Absent
          /\ pc[d] \in {"grace", "kill_wait"} => lock' = d /\ state'[job[d]] = "running"
  BY DEF IInv, ClientInv, record
<1> QED BY <1>1, <1>2, ClientStep

LEMMA CloseStep ==
    ASSUME IInv, NEW c \in Clients, Close(c)
    PROVE  IInv'
<1> USE DEF Close, AtRest
<1>1. TypeOK'
  BY DEF IInv, TypeOK, Steps, Methods, process, record
<1>2. \A d \in Clients \ {c} : SameClient(d)
  BY DEF IInv, TypeOK, SameClient
<1>3. ClientInv(c)'
  BY DEF IInv, TypeOK, ClientInv
<1>4. ForgottenIsStopped'
  <2> SUFFICES ASSUME NEW j \in Jobs, Known(j)
               PROVE \/ Ended(j)' \/ signal'[j] = "kill"
                     \/ \E d \in Clients :
                            j \in todo'[d] \/ (pc'[d] = "close_grace" /\ job'[d] = j)
    BY DEF ForgottenIsStopped, Known, record
  <2>1. CASE j \in records
    BY <2>1 DEF IInv, TypeOK
  <2>2. CASE j \notin records
    <3>1. todo[c] = {} /\ pc[c] # "close_grace"
      BY DEF IInv, ClientInv
    <3> QED
      BY <1>2, <2>2, <3>1 DEF IInv, ForgottenIsStopped, Ended, SameClient, process
  <2> QED BY <2>1, <2>2
<1>5. UNCHANGED <<unused, child, overdue, written, record, lock>> /\ records' \subseteq records
        /\ pc'[c] = "close_next"
  BY DEF IInv, TypeOK, process
<1> QED BY <1>1, <1>2, <1>3, <1>4, <1>5, CloseCallStep

LEMMA CloseNextStep ==
    ASSUME IInv, NEW c \in Clients, CloseNext(c)
    PROVE  IInv'
<1> USE DEF CloseNext, Return
<1>1. TypeOK'
  BY SMTT(30) DEF IInv, TypeOK, Steps, Methods, record
<1>2. \A d \in Clients \ {c} : SameClient(d)
  BY DEF IInv, TypeOK, SameClient
<1>3. ClientInv(c)'
  BY DEF IInv, TypeOK, ClientInv
<1>4. ForgottenIsStopped'
  <2> SUFFICES ASSUME NEW j \in Jobs, Known(j), j \notin records
               PROVE \/ Ended(j)' \/ signal'[j] = "kill"
                     \/ \E d \in Clients :
                            j \in todo'[d] \/ (pc'[d] = "close_grace" /\ job'[d] = j)
    BY DEF ForgottenIsStopped, Known, record
  <2>1. signal[j] = "kill" => signal'[j] = "kill"
    BY DEF IInv, TypeOK
  <2>2. j \in todo[c] =>
            \/ j \in todo'[c] \/ Ended(j)' \/ (pc'[c] = "close_grace" /\ job'[c] = j)
    BY DEF IInv, TypeOK, Ended
  <2> QED
    BY <1>2, <2>1, <2>2 DEF IInv, ForgottenIsStopped, Ended, SameClient
<1>5. UNCHANGED <<unused, child, overdue, written, record, lock>> /\ records' \subseteq records
        /\ pc'[c] \in {"idle", "close_next", "close_grace"}
  BY DEF IInv, TypeOK
<1> QED BY <1>1, <1>2, <1>3, <1>4, <1>5, CloseCallStep

LEMMA CloseGraceStep ==
    ASSUME IInv, NEW c \in Clients, CloseGrace(c)
    PROVE  IInv'
<1> USE DEF CloseGrace, Goto
<1>1. TypeOK'
  BY DEF IInv, TypeOK, Steps, record
<1>2. \A d \in Clients \ {c} : SameClient(d)
  BY DEF IInv, TypeOK, SameClient
<1>3. ClientInv(c)'
  BY DEF IInv, TypeOK, ClientInv
<1>4. ForgottenIsStopped'
  <2> SUFFICES ASSUME NEW j \in Jobs, Known(j), j \notin records
               PROVE \/ Ended(j)' \/ signal'[j] = "kill"
                     \/ \E d \in Clients :
                            j \in todo'[d] \/ (pc'[d] = "close_grace" /\ job'[d] = j)
    BY DEF ForgottenIsStopped, Known, record
  <2>1. signal[j] = "kill" => signal'[j] = "kill"
    BY DEF IInv, TypeOK
  <2>2. job[c] = j => Ended(j)' \/ signal'[j] = "kill"
    BY DEF IInv, TypeOK, Ended
  <2> QED
    BY <1>2, <2>1, <2>2 DEF IInv, ForgottenIsStopped, Ended, SameClient
<1>5. UNCHANGED <<unused, child, overdue, written, record, lock>> /\ records' \subseteq records
        /\ pc'[c] = "close_next"
  BY DEF IInv, TypeOK
<1> QED BY <1>1, <1>2, <1>3, <1>4, <1>5, CloseCallStep

-----------------------------------------------------------------------------
LEMMA NextInv == IInv /\ [Next]_vars => IInv'
<1> SUFFICES ASSUME IInv, [Next]_vars PROVE IInv'
  OBVIOUS
<1>1. ASSUME NEW j \in Jobs, Child(j) PROVE IInv'
  BY <1>1, ChildStep
<1>2. ASSUME NEW c \in Clients, Continue(c) PROVE IInv'
  BY <1>2, SubmitInsertStep, PollTerminalStep, PollEndedStep, PollRunningStep, PollStopStep,
     StopKillStep, StopReapedStep, StreamReadStep, StreamDrainStep, CloseNextStep,
     CloseGraceStep DEF Continue
<1>3. ASSUME NEW c \in Clients, Close(c) PROVE IInv'
  BY <1>3, CloseStep
<1>4. ASSUME NEW c \in Clients, NEW j \in Jobs,
             Submit(c, j) \/ \E m \in {"get", "wait", "cancel", "stream"} : Begin(c, j, m)
      PROVE IInv'
  BY <1>4, SubmitStep, BeginStep DEF Looking
<1>5. CASE UNCHANGED vars
  <2>1. UNCHANGED <<unused, child, signal, overdue, written, records, state, verdict,
                    timed_out, lock, pc, op, job, consumed, todo, cancelled>>
    BY <1>5 DEF vars, process, record, client
  <2>2. TypeOK' /\ UnusedInv' /\ (\A j \in Jobs : JobInv(j)') /\ (\A c \in Clients : ClientInv(c)')
    BY <2>1 DEF IInv, TypeOK, UnusedInv, JobInv, ClientInv, Known, Ended
  <2>3. SubmitInv' /\ VerdictMatchesState' /\ StreamIsComplete' /\ ForgottenIsStopped'
    BY <2>1 DEF IInv, SubmitInv, VerdictMatchesState, StreamIsComplete, ForgottenIsStopped,
                Known, Ended
  <2> QED BY <2>2, <2>3 DEF IInv
<1> QED BY <1>1, <1>2, <1>3, <1>4, <1>5 DEF Next

THEOREM Invariance == Spec => []IInv
  BY InitInv, NextInv, PTL DEF Spec

\* Every variable keeps its type, the counters of chunks included.
THEOREM TypeCorrect == Spec => []TypeOK
<1>1. IInv => TypeOK
  BY DEF IInv
<1> QED BY <1>1, Invariance, PTL

\* What the backend says of a job is true of its child (subprocess.py,
\* _refresh_locked, _stop and close): a terminal job has no process left, its
\* result is that of its state, and no child is forgotten that is not stopped.
THEOREM ReportsCorrect == Spec => []ReportIsTrue
<1>1. IInv => ReportIsTrue
  BY DEF IInv, JobInv, ReportIsTrue, TerminalIsGone
<1> QED BY <1>1, Invariance, PTL

\* stream_logs that ended by itself has yielded all its child ever wrote,
\* although it reads the log without the lock.
THEOREM StreamsCorrect == Spec => []StreamIsComplete
<1>1. IInv => StreamIsComplete
  BY DEF IInv
<1> QED BY <1>1, Invariance, PTL

-----------------------------------------------------------------------------
(* The reports implement Lifecycle. *)

\* The records and their states change in three ways: a submit inserts a job
\* that runs, a job that runs is settled, close forgets all.
LEMMA StatesMove ==
    ASSUME IInv, [Next]_vars
    PROVE  \/ UNCHANGED <<records, state>>
           \/ \E j \in Jobs :
                 /\ state[j] = Absent
                 /\ state' = [state EXCEPT ![j] = "running"]
                 /\ records' = records \union {j}
           \/ \E j \in Jobs, s \in Terminal :
                 /\ state[j] = "running"
                 /\ state' = [state EXCEPT ![j] = s]
                 /\ UNCHANGED records
           \/ records' = {} /\ UNCHANGED state
<1> DEFINE Moves == \/ UNCHANGED <<records, state>>
                    \/ \E j \in Jobs :
                          /\ state[j] = Absent
                          /\ state' = [state EXCEPT ![j] = "running"]
                          /\ records' = records \union {j}
                    \/ \E j \in Jobs, s \in Terminal :
                          /\ state[j] = "running"
                          /\ state' = [state EXCEPT ![j] = s]
                          /\ UNCHANGED records
                    \/ records' = {} /\ UNCHANGED state
<1>1. ASSUME NEW j \in Jobs, Child(j) PROVE Moves
  BY <1>1 DEF Child, Write, Exit, Expire, record
<1>2. ASSUME NEW c \in Clients, SubmitInsert(c) PROVE Moves
  <2>1. job[c] \in Jobs /\ state[job[c]] = Absent
    BY <1>2 DEF IInv, ClientInv, SubmitInsert
  <2> QED BY <1>2, <2>1 DEF SubmitInsert
<1>3. ASSUME NEW c \in Clients, PollEnded(c) \/ StopReaped(c) PROVE Moves
  <2>1. job[c] \in Jobs /\ state[job[c]] = "running"
    BY <1>3 DEF IInv, ClientInv, PollEnded, StopReaped
  <2>2. StateFor(job[c], timed_out[job[c]], cancelled[job[c]] \/ op[c] = "cancel") \in Terminal
    BY DEF StateFor, Terminal
  <2> QED BY <1>3, <2>1, <2>2 DEF PollEnded, StopReaped, Settle
<1>4. ASSUME NEW c \in Clients, Continue(c), ~ SubmitInsert(c), ~ PollEnded(c), ~ StopReaped(c)
      PROVE UNCHANGED <<records, state>>
  BY <1>4 DEF Continue, PollTerminal, PollRunning, PollStop, StopKill, StreamRead, StreamDrain,
              CloseNext, CloseGrace, record
<1>5. ASSUME NEW c \in Clients, Close(c) PROVE Moves
  BY <1>5 DEF Close, record
<1>6. ASSUME NEW c \in Clients, NEW j \in Jobs,
             Submit(c, j) \/ \E m \in {"get", "wait", "cancel", "stream"} : Begin(c, j, m)
      PROVE UNCHANGED <<records, state>>
  BY <1>6 DEF Submit, Begin, record
<1>7. CASE UNCHANGED vars
  BY <1>7 DEF vars, record
<1> QED BY <1>1, <1>2, <1>3, <1>4, <1>5, <1>6, <1>7 DEF Next

\* Each of them is a step of Lifecycle or, for a job that close has forgotten,
\* none.
LEMMA StepSimulation ==
    IInv /\ [Next]_vars => [Observed!LifecycleNext]_(Observed!lifecycle)
<1> SUFFICES ASSUME IInv, [Next]_vars
             PROVE  Observed!LifecycleNext \/ UNCHANGED Observed!lifecycle
  BY DEF Observed!lifecycle
<1> DEFINE seen == [j \in Jobs |-> IF j \in records THEN state[j] ELSE Absent]
           gone == {j \in Jobs : Known(j) /\ j \notin records}
<1>1. records \subseteq Jobs /\ \A j \in records : Known(j)
  BY DEF IInv, TypeOK, JobInv, Known
<1>2. state \in [Jobs -> {Absent, "running"} \union Terminal]
  BY DEF IInv, TypeOK
<1>3. CASE UNCHANGED <<records, state>>
  BY <1>3 DEF Observed!lifecycle, Known
<1>4. ASSUME NEW j \in Jobs, state[j] = Absent,
             state' = [state EXCEPT ![j] = "running"], records' = records \union {j}
      PROVE  Observed!LifecycleNext
  <2>1. seen[j] = Absent /\ j \notin gone
    BY <1>4 DEF Known
  <2>2. seen' = [seen EXCEPT ![j] = "running"]
    BY <1>1, <1>2, <1>4
  <2>3. gone' = gone
    BY <1>1, <1>2, <1>4 DEF Known, Absent
  <2>4. Observed!Appear(j)
    BY <2>1, <2>2, <2>3 DEF Observed!Appear, Observed!Absent, Absent
  <2> QED BY <2>4 DEF Observed!LifecycleNext
<1>5. ASSUME NEW j \in Jobs, NEW s \in Terminal, state[j] = "running",
             state' = [state EXCEPT ![j] = s], UNCHANGED records
      PROVE  Observed!LifecycleNext \/ UNCHANGED Observed!lifecycle
  <2>1. gone' = gone
    BY <1>2, <1>5 DEF Known, Absent, Terminal
  <2>2. CASE j \notin records
    <3>1. seen' = seen
      BY <1>2, <1>5, <2>2
    <3> QED BY <2>1, <3>1 DEF Observed!lifecycle
  <2>3. CASE j \in records
    <3>1. seen[j] = "running" /\ seen' = [seen EXCEPT ![j] = s]
      BY <1>2, <1>5, <2>3
    <3>2. s \in Observed!Allowed("running") /\ "running" \in Observed!State \ Observed!Terminal
      BY DEF Observed!Allowed, Observed!State, Observed!Terminal, Terminal
    <3>3. Observed!Move(j)
      BY <2>1, <3>1, <3>2 DEF Observed!Move
    <3> QED BY <3>3 DEF Observed!LifecycleNext
  <2> QED BY <2>2, <2>3
<1>6. CASE records' = {} /\ UNCHANGED state
  <2>1. seen' = [j \in Jobs |-> IF j \in records THEN Absent ELSE seen[j]]
    BY <1>6
  <2>2. gone' = gone \union records
    BY <1>1, <1>6 DEF Known
  <2>3. \E some \in SUBSET Jobs : Observed!Forget(some)
    <3>1. records \in SUBSET Jobs
      BY <1>1
    <3> QED BY <2>1, <2>2, <3>1 DEF Observed!Forget, Observed!Absent, Absent
  <2> QED BY <2>3 DEF Observed!LifecycleNext
<1> QED BY <1>3, <1>4, <1>5, <1>6, StatesMove

\* What callers are told of the jobs is a legal life cycle (execution.py,
\* _ALLOWED): they appear running, end once and for all, and are forgotten.
THEOREM Refinement == Spec => ImplementsLifecycle
<1>1. Init => Observed!LifecycleInit
  BY DEF Init, Observed!LifecycleInit, Known, Absent, Observed!Absent
<1> QED
  BY <1>1, StepSimulation, Invariance, PTL DEF Spec, ImplementsLifecycle, Observed!LifecycleSpec

=============================================================================
