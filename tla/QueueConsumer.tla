--------------------------- MODULE QueueConsumer ---------------------------
(***************************************************************************)
(* The consuming side of the queue adapters: poll_forever and process_event *)
(* of taskferry_sqs/consumer.py and receive_forever of                      *)
(* taskferry_servicebus/consumer.py.  Consumers are processes that may      *)
(* crash at any step and are restarted; each takes a batch of messages,     *)
(* runs the task in every one (execute_envelope, taskferry/envelope.py) and *)
(* acknowledges those that succeed.  A consumer may also be an endpoint that *)
(* Cloud Tasks pushes to: handle_request (taskferry_cloudtasks/receiver.py)  *)
(* in a view, or the view of taskferry_django/views.py; its acknowledgement  *)
(* is the status of its response.                                           *)
(*                                                                         *)
(* The queue is external: a received message is leased until it is deleted, *)
(* given back, or its lease runs out; a message received MaxReceives times  *)
(* goes to the dead letters instead of back to the queue.  The n-th         *)
(* delivery of a message carries the receipt n, and only the last one       *)
(* delivered counts.                                                        *)
(***************************************************************************)
EXTENDS Naturals, Sequences, SequencesExt

CONSTANTS Consumers,
          Deployments,  \* "poll", "lambda", "servicebus" or "push" for each
          Messages,
          Poison,       \* messages whose body or task always fails
          BatchSize,    \* max_messages; the others take one at a time
          MaxReceives   \* the queue's redrive policy

ASSUME QueueAssumption ==
    /\ Deployments \subseteq [Consumers -> {"poll", "lambda", "servicebus", "push"}]
    /\ Poison \subseteq Messages
    /\ BatchSize \in Nat \ {0}
    /\ MaxReceives \in Nat \ {0}

VARIABLES mode,       \* how each consumer is deployed
          place,      \* "unsent", "queue", "leased", "deleted" or "dead"
          receives,   \* deliveries of each message so far
          successes,  \* how often its task has run to a success
          expiries,   \* how often its lease has run out
          pc,         \* each consumer's position
          batch,      \* the deliveries it has still to process
          done,       \* lambda: deliveries that did not fail
          stop        \* consumers told to stop

vars == <<mode, place, receives, successes, expiries, pc, batch, done, stop>>

queue == <<mode, place, receives, expiries>>

Delivery == Messages \X (1 .. MaxReceives)

Init ==
    /\ mode \in Deployments
    /\ place = [m \in Messages |-> "unsent"]
    /\ receives = [m \in Messages |-> 0]
    /\ successes = [m \in Messages |-> 0]
    /\ expiries = [m \in Messages |-> 0]
    /\ pc = [c \in Consumers |-> "poll"]
    /\ batch = [c \in Consumers |-> <<>>]
    /\ done = [c \in Consumers |-> {}]
    /\ stop = {}

-----------------------------------------------------------------------------
\* The queue.

\* a submission arrives
Send(m) ==
    /\ place[m] = "unsent"
    /\ place' = [place EXCEPT ![m] = "queue"]
    /\ UNCHANGED <<mode, receives, successes, expiries, pc, batch, done, stop>>

Leased(d) == place[d[1]] = "leased" /\ receives[d[1]] = d[2]

\* where a message goes that nobody holds any more
Released(m) == IF receives[m] = MaxReceives THEN "dead" ELSE "queue"

Expire(m) ==
    /\ place[m] = "leased"
    /\ place' = [place EXCEPT ![m] = Released(m)]
    /\ expiries' = [expiries EXCEPT ![m] = @ + 1]
    /\ UNCHANGED <<mode, receives, successes, pc, batch, done, stop>>

Batches(size) ==
    {b \in SeqOf({m \in Messages : place[m] = "queue"}, size) :
        b # <<>> /\ IsInjective(b)}

-----------------------------------------------------------------------------
\* The consumers.

Goto(c, label) == pc' = [pc EXCEPT ![c] = label]

\* the loop condition and receive_message, or the start of a Lambda call or
\* of a request
Receive(c) ==
    /\ pc[c] = "poll"
    /\ c \notin stop
    /\ \E b \in Batches(IF mode[c] \in {"poll", "lambda"} THEN BatchSize ELSE 1) :
           /\ place' = [m \in Messages |->
                           IF m \in ToSet(b) THEN "leased" ELSE place[m]]
           /\ receives' = [m \in Messages |->
                              receives[m] + IF m \in ToSet(b) THEN 1 ELSE 0]
           /\ batch' = [batch EXCEPT ![c] =
                           [i \in DOMAIN b |-> <<b[i], receives'[b[i]]>>]]
    /\ Goto(c, "process")
    /\ UNCHANGED <<mode, successes, expiries, done, stop>>

\* receive_message fails outside try
ReceiveRaises(c) ==
    /\ pc[c] = "poll"
    /\ c \notin stop
    /\ mode[c] \in {"poll", "servicebus"}
    /\ Goto(c, "raised")
    /\ UNCHANGED <<queue, successes, batch, done, stop>>

Stop(c) ==
    /\ c \notin stop
    /\ stop' = stop \union {c}
    /\ UNCHANGED <<queue, successes, pc, batch, done>>

\* should_stop is asked between batches
Leave(c) ==
    /\ pc[c] = "poll"
    /\ c \in stop
    /\ Goto(c, "stopped")
    /\ UNCHANGED <<queue, successes, batch, done, stop>>

Head1(c) == Head(batch[c])

Drop(c) == batch' = [batch EXCEPT ![c] = Tail(@)]

\* Fault: the branches of try are swapped, a success is given back.
TaskSucceedsAbandons(c) ==
    /\ pc[c] = "process"
    /\ batch[c] # <<>>
    /\ Head1(c)[1] \notin Poison
    /\ successes' = [successes EXCEPT ![Head1(c)[1]] = @ + 1]
    /\ IF mode[c] = "lambda"
       THEN /\ done' = [done EXCEPT ![c] = @ \union {Head1(c)}]
            /\ Drop(c)
            /\ UNCHANGED pc
       ELSE Goto(c, "abandon") /\ UNCHANGED <<batch, done>>
    /\ UNCHANGED <<queue, stop>>

\* process_message returns
TaskSucceeds(c) ==
    /\ pc[c] = "process"
    /\ batch[c] # <<>>
    /\ Head1(c)[1] \notin Poison
    /\ successes' = [successes EXCEPT ![Head1(c)[1]] = @ + 1]
    /\ IF mode[c] = "lambda"
       THEN /\ done' = [done EXCEPT ![c] = @ \union {Head1(c)}]
            /\ Drop(c)
            /\ UNCHANGED pc
       ELSE Goto(c, "ack") /\ UNCHANGED <<batch, done>>
    /\ UNCHANGED <<queue, stop>>

\* Fault: the failed message is tried again in place.
TaskFailsRepeats(c) ==
    /\ pc[c] = "process"
    /\ batch[c] # <<>>
    /\ UNCHANGED vars

\* process_message raises: the next message is taken, a Service Bus message
\* being given back first; or the answer will be an error
TaskFails(c) ==
    /\ pc[c] = "process"
    /\ batch[c] # <<>>
    /\ IF mode[c] \in {"poll", "lambda"}
       THEN Drop(c) /\ UNCHANGED pc
       ELSE Goto(c, "abandon") /\ UNCHANGED batch
    /\ UNCHANGED <<queue, successes, done, stop>>

\* delete_message and complete_message; deleting with an old receipt does
\* nothing, completing without the lock raises
Ack(c) ==
    /\ pc[c] = "ack"
    /\ mode[c] # "push"
    /\ Leased(Head1(c)) \/ mode[c] = "poll"
    /\ place' = [place EXCEPT ![Head1(c)[1]] =
                    IF Leased(Head1(c)) THEN "deleted" ELSE @]
    /\ Drop(c)
    /\ Goto(c, "process")
    /\ UNCHANGED <<mode, receives, successes, expiries, done, stop>>

\* abandon_message
Abandon(c) ==
    /\ pc[c] = "abandon"
    /\ mode[c] # "push"
    /\ Leased(Head1(c))
    /\ place' = [place EXCEPT ![Head1(c)[1]] = Released(Head1(c)[1])]
    /\ Drop(c)
    /\ Goto(c, "process")
    /\ UNCHANGED <<mode, receives, successes, expiries, done, stop>>

\* The lock is lost, or the call fails on its way there or back.  Nothing
\* catches what the acknowledgement raises: the loop ends with it.
AckRaises(c) ==
    /\ pc[c] \in {"ack", "abandon"}
    /\ mode[c] # "push"
    /\ \/ UNCHANGED place
       \/ /\ Leased(Head1(c))
          /\ place' = [place EXCEPT ![Head1(c)[1]] =
                          IF pc[c] = "ack" THEN "deleted" ELSE Released(Head1(c)[1])]
    /\ Goto(c, "raised")
    /\ batch' = [batch EXCEPT ![c] = <<>>]
    /\ UNCHANGED <<mode, receives, expiries, successes, done, stop>>

\* 204, or 400, 404 or 500 for whatever was raised: Cloud Tasks takes every
\* status but 2xx for a failed attempt.  An answer may get lost, and after
\* the dispatch deadline nobody waits for it.
Respond(c) ==
    /\ pc[c] \in {"ack", "abandon"}
    /\ mode[c] = "push"
    /\ \/ UNCHANGED place
       \/ /\ Leased(Head1(c))
          /\ place' = [place EXCEPT ![Head1(c)[1]] =
                          IF pc[c] = "ack" THEN "deleted" ELSE Released(Head1(c)[1])]
    /\ Drop(c)
    /\ Goto(c, "process")
    /\ UNCHANGED <<mode, receives, successes, expiries, done, stop>>

\* the batch is done; Lambda deletes what process_event did not report
BatchEnds(c) ==
    /\ pc[c] = "process"
    /\ batch[c] = <<>>
    /\ place' = [m \in Messages |->
                    IF \E d \in done[c] : d[1] = m /\ Leased(d)
                    THEN "deleted" ELSE place[m]]
    /\ done' = [done EXCEPT ![c] = {}]
    /\ Goto(c, "poll")
    /\ UNCHANGED <<mode, receives, successes, expiries, batch, stop>>

Crash(c) ==
    /\ pc[c] \notin {"stopped", "crashed"}
    /\ Goto(c, "crashed")
    /\ batch' = [batch EXCEPT ![c] = <<>>]
    /\ done' = [done EXCEPT ![c] = {}]
    /\ UNCHANGED <<queue, successes, stop>>

\* the platform starts a container that has ended by itself anew
Restart(c) ==
    /\ pc[c] \in {"crashed", "raised"}
    /\ c \notin stop
    /\ Goto(c, "poll")
    /\ UNCHANGED <<queue, successes, batch, done, stop>>

Work(c) ==
    \/ TaskSucceeds(c)
    \/ TaskFails(c)
    \/ Ack(c)
    \/ Abandon(c)
    \/ AckRaises(c)
    \/ Respond(c)
    \/ BatchEnds(c)
    \/ Leave(c)

Next ==
    \/ \E m \in Messages : Send(m) \/ Expire(m)
    \/ \E c \in Consumers :
           \/ Receive(c) \/ ReceiveRaises(c) \/ Work(c)
           \/ Stop(c) \/ Crash(c) \/ Restart(c)

Spec == Init /\ [][Next]_vars

\* Consumers work, leases run out, containers come back, and a queue hands out
\* every message again and again to consumers that keep asking; consumers may
\* crash for ever, but not all of them are told to stop.
Fairness ==
    /\ \A m \in Messages : WF_vars(Expire(m))
    /\ \A c \in Consumers : WF_vars(Work(c)) /\ WF_vars(Restart(c))
    /\ \A m \in Messages :
           SF_vars(\E c \in Consumers : Receive(c) /\ place'[m] # place[m])

-----------------------------------------------------------------------------
TypeOK ==
    /\ mode \in Deployments
    /\ place \in [Messages -> {"unsent", "queue", "leased", "deleted", "dead"}]
    /\ receives \in [Messages -> 0 .. MaxReceives]
    /\ successes \in [Messages -> Nat]
    /\ expiries \in [Messages -> 0 .. MaxReceives]
    /\ pc \in [Consumers -> {"poll", "process", "ack", "abandon", "raised",
                             "crashed", "stopped"}]
    /\ batch \in [Consumers -> Seq(Delivery)]
    /\ done \in [Consumers -> SUBSET Delivery]
    /\ stop \subseteq Consumers

\* "Deletes a message only after its task succeeds" (and completes, on Service
\* Bus): no crash, late acknowledgement or failure in the middle of a batch
\* makes a message disappear whose task has not succeeded.
DeletedHasSucceeded ==
    \A m \in Messages : place[m] = "deleted" => successes[m] > 0

\* Delivery is at-least-once, but a task succeeds twice only if a lease ran
\* out: as long as leases outlast the work, a batch runs every task once,
\* failures of its other messages notwithstanding.
RepeatsNeedExpiry ==
    \A m \in Messages : successes[m] <= 1 + expiries[m]
=============================================================================
