------------------------------ MODULE OnCommit ------------------------------
(***************************************************************************)
(* The producer of a queue's messages in a Django application:              *)
(* submit_on_commit of taskferry_django/transaction.py, beside the queue     *)
(* and its consumers.  Inside a transaction a submission is a callback that  *)
(* runs after the commit; outside it happens at once.  The transaction, with *)
(* its savepoints and its list of callbacks, is external.                    *)
(***************************************************************************)
EXTENDS QueueConsumer

VARIABLES tx,     \* "open", "committed" or "rolled back"
          hooks,  \* the messages whose callbacks are still to run, in order
          lost    \* committed, but never to be submitted

producerVars == <<tx, hooks, lost>>

OnCommitInit ==
    /\ Init
    /\ tx \in {"open", "committed"}
    /\ hooks = <<>>
    /\ lost = {}

\* target.submit raises: nothing was sent, unless only the answer was lost.
\* Callbacks that have not run yet are given up.
SubmitRaises(m) ==
    /\ \/ Send(m) /\ lost' = lost \union (ToSet(hooks) \ {m})
       \/ UNCHANGED vars /\ lost' = lost \union ToSet(hooks) \union {m}
    /\ hooks' = <<>>
    /\ UNCHANGED tx

Submit(m) == Send(m) /\ UNCHANGED <<tx, lost>>

\* Fault: the submission is not deferred.
SubmitAtOnce(m) ==
    /\ tx \in {"open", "committed"}
    /\ place[m] = "unsent" /\ m \notin lost
    /\ Submit(m)
    /\ UNCHANGED hooks

\* Django runs the callback at once when there is no transaction
SubmitOnCommit(m) ==
    /\ place[m] = "unsent" /\ m \notin lost \union ToSet(hooks)
    /\ \/ /\ tx = "open"
          /\ hooks' = Append(hooks, m)
          /\ UNCHANGED <<vars, tx, lost>>
       \/ /\ tx = "committed" /\ hooks = <<>>
          /\ (Submit(m) /\ UNCHANGED hooks) \/ SubmitRaises(m)

Commit ==
    /\ tx = "open"
    /\ tx' = "committed"
    /\ UNCHANGED <<vars, hooks, lost>>

\* the transaction, by an exception or by a crash
Rollback ==
    /\ tx = "open"
    /\ tx' = "rolled back"
    /\ hooks' = <<>>
    /\ UNCHANGED <<vars, lost>>

\* an inner atomic block takes back what was registered inside it
RollbackSavepoint ==
    /\ tx = "open"
    /\ \E n \in 0 .. Len(hooks) - 1 : hooks' = SubSeq(hooks, 1, n)
    /\ UNCHANGED <<vars, tx, lost>>

\* _submit, after the commit
RunHook ==
    /\ tx = "committed"
    /\ hooks # <<>>
    /\ \/ Submit(Head(hooks)) /\ hooks' = Tail(hooks)
       \/ SubmitRaises(Head(hooks))

\* between the commit and the last submission
ProducerCrash ==
    /\ tx = "committed"
    /\ hooks # <<>>
    /\ lost' = lost \union ToSet(hooks)
    /\ hooks' = <<>>
    /\ UNCHANGED <<vars, tx>>

Produce ==
    \/ \E m \in Messages : SubmitOnCommit(m)
    \/ Commit \/ Rollback \/ RollbackSavepoint
    \/ RunHook \/ ProducerCrash

Consume ==
    /\ \/ \E m \in Messages : Expire(m)
       \/ \E c \in Consumers :
              \/ Receive(c) \/ ReceiveRaises(c) \/ Work(c)
              \/ Stop(c) \/ Crash(c) \/ Restart(c)
    /\ UNCHANGED producerVars

OnCommitNext == Produce \/ Consume

onCommitVars == <<vars, producerVars>>

\* what the queue and its consumers owe, and a process that goes on after the
\* commit; nobody has to submit, to commit or to roll back
OnCommitSpec ==
    /\ OnCommitInit /\ [][OnCommitNext]_onCommitVars
    /\ WF_onCommitVars(RunHook)
    /\ Fairness

-----------------------------------------------------------------------------
OnCommitTypeOK ==
    /\ TypeOK
    /\ tx \in {"open", "committed", "rolled back"}
    /\ hooks \in Seq(Messages)
    /\ lost \subseteq Messages

\* A worker never reaches a row that is not committed, and a message is deleted
\* only after its task has succeeded: no crash, late acknowledgement or failure
\* of another submission or message makes work start too early or disappear
\* unfinished, and what a rollback took back is never sent.
SentIsCommittedDeletedIsDone ==
    /\ \A m \in Messages : place[m] # "unsent" => tx = "committed"
    /\ \A m \in ToSet(hooks) \union lost : place[m] = "unsent"
    /\ DeletedHasSucceeded

\* What is submitted on commit is sent once the transaction has committed,
\* unless an earlier submission raised or the process died in between, and what
\* is sent ends deleted or with the dead letters while some consumer runs,
\* whatever crashes and however leases run out.
CommittedWorkSettles ==
    \A m \in Messages :
        (tx = "committed" /\ m \in ToSet(hooks)) \/ place[m] # "unsent"
            ~> \/ place[m] \in {"deleted", "dead"}
               \/ m \in lost
               \/ Consumers \subseteq stop
=============================================================================
