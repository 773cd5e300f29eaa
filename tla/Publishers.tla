----------------------------- MODULE Publishers -----------------------------
(***************************************************************************)
(* The publishers that hand events to a broker of somebody else             *)
(* (taskferry_events/adapters: aws, gcp, azure, kafka), under               *)
(* BaseEventPublisher (publisher.py), as an application gets them from the  *)
(* registry of module LazyRegistry: the request each makes of an event, and *)
(* a publication, alone or in a batch, whose parts the broker accepts or    *)
(* refuses and whose answers may be lost.                                   *)
(*                                                                         *)
(* A client's publications touch nothing that another client sees, so one   *)
(* publication is one step.  Payloads are left out; the serialisation of a  *)
(* message cannot fail, its data having been checked by Event.              *)
(***************************************************************************)
EXTENDS LazyRegistry, SequencesExt

CONSTANTS Messages,  \* events of models.py: [id, type, source, subject, correlation],
                     \* the last two sets of at most one value
          MaxBatch   \* bound on the length of a batch

VARIABLES complete,  \* the publisher has the topic or the endpoint it needs
          batch,     \* publish_batch: what each client has still to publish
          results,   \* the results it has so far, in order
          raised,    \* how its last publication ended when it raised, else None
          tried,     \* all that it was asked to publish in its last call
          accepted   \* what the broker accepted of them: [event, request], in order

publisherVars == <<complete, batch, results, raised, tried, accepted>>

PublishersInit(configured) ==
    /\ complete = configured
    /\ batch = [c \in Clients |-> <<>>]
    /\ results = [c \in Clients |-> <<>>]
    /\ raised = [c \in Clients |-> None]
    /\ tried = [c \in Clients |-> <<>>]
    /\ accepted = [c \in Clients |-> <<>>]

-----------------------------------------------------------------------------
SNS == {"fanout", "delivery_retry", "dead_letter", "filtering"}
EVENTBRIDGE == SNS \union {"retention", "replay"}
PUBSUB == SNS \union {"retention"}
EVENTGRID == SNS \union {"retention"}
KAFKA == {"fanout", "ordering", "delivery_retry", "retention", "replay"}

Advertised(a) == CASE a = "sns" -> SNS
                   [] a = "snsfifo" -> SNS \union {"ordering"}
                   [] a = "eventbridge" -> EVENTBRIDGE
                   [] a = "pubsub" -> PUBSUB
                   [] a = "orderedpubsub" -> PUBSUB \union {"ordering"}
                   [] a = "eventgrid" -> EVENTGRID
                   [] a = "kafka" -> KAFKA

Given(field, value) == IF value = {} THEN {} ELSE {field}

\* Event.to_cloudevent: the attributes that a message says of its event
ToCloudevent(e) ==
    {"id", "type", "source", "time", "data"}
        \union Given("subject", e.subject) \union Given("correlation", e.correlation)

\* event_attributes, for filters
EventAttributes(e) ==
    {"type", "source"} \union Given("subject", e.subject)
        \union Given("correlation", e.correlation)

\* a subject that is not "", which Python takes for none
Named(e) == e.subject \ {""}

Sns(e) == [body |-> ToCloudevent(e), attributes |-> EventAttributes(e), key |-> {}]

\* the message group
SnsFifo(e) == [Sns(e) EXCEPT !.key = IF Named(e) = {} THEN {e.type} ELSE Named(e)]

\* _build_entry: the detail is the data alone
EventBridge(e) == [body |-> {"data"}, attributes |-> {"type", "source"}, key |-> {}]

PubSub(e) == Sns(e)

\* the ordering key
OrderedPubSub(e) == [PubSub(e) EXCEPT !.key = Named(e)]

EventGrid(e) == [body |-> ToCloudevent(e), attributes |-> {}, key |-> {}]

\* the key of the partition
Kafka(e) ==
    [body |-> ToCloudevent(e), attributes |-> EventAttributes(e),
     key |-> IF Named(e) = {} THEN {e.id} ELSE Named(e)]

RequestOf(a, e) == CASE a = "sns" -> Sns(e)
                     [] a = "snsfifo" -> SnsFifo(e)
                     [] a = "eventbridge" -> EventBridge(e)
                     [] a = "pubsub" -> PubSub(e)
                     [] a = "orderedpubsub" -> OrderedPubSub(e)
                     [] a = "eventgrid" -> EventGrid(e)
                     [] a = "kafka" -> Kafka(e)

-----------------------------------------------------------------------------
Publisher(c) == made[held[c]]

\* publish, or publish_batch with the whole of its iterable
PublishBatch(c, events) ==
    /\ access[c].at = "idle"
    /\ held[c] # 0
    /\ batch[c] = <<>>
    /\ tried[c] = <<>>
    /\ batch' = [batch EXCEPT ![c] = events]
    /\ tried' = [tried EXCEPT ![c] = events]
    /\ UNCHANGED <<complete, results, raised, accepted>>

\* the answers a publisher reads as a success: EventBridge counts the entries
\* that failed; Kafka's producer is flushed, and its delivery reports, which
\* alone say that a message was lost, are read by nobody
Answers(a) == CASE a = "eventbridge" -> {"accepted"}
                [] a = "kafka" -> {"accepted", "undelivered"}
                [] OTHER -> {"accepted"}

\* Fault: the number of failed entries is not looked at.
AnswersUnread(a) == IF a = "eventbridge" THEN {"accepted", "failed"} ELSE Answers(a)

\* what the result is made from
ResultFrom(a) == Answers(a)

Accepted(c, answer) ==
    IF answer = "accepted"
    THEN [accepted EXCEPT ![c] =
             Append(@, [event |-> Head(batch[c]),
                        request |-> RequestOf(Publisher(c), Head(batch[c]))])]
    ELSE accepted

\* Kafka, Pub/Sub and SNS look at the topic, Event Grid at the endpoint when it
\* makes its client; a bus always has a name, and a FIFO topic is known by its own
Configured(c) == complete \/ Publisher(c) \in {"eventbridge", "snsfifo"}

\* _publish returns, and the loop over the batch goes on
PublishNext(c) ==
    /\ batch[c] # <<>>
    /\ Configured(c)
    /\ \E answer \in ResultFrom(Publisher(c)) :
           /\ accepted' = Accepted(c, answer)
           /\ results' = [results EXCEPT ![c] = Append(@, Head(batch[c]).id)]
    /\ batch' = [batch EXCEPT ![c] = Tail(@)]
    /\ UNCHANGED <<complete, raised, tried>>

\* _publish raises, and with it the loop, whose results are gone: the request
\* is refused, some entry failed, or the answer was lost on its way.  Event Grid
\* wraps whatever it raises, its missing endpoint too.
PublishRaises(c) ==
    /\ batch[c] # <<>>
    /\ \/ /\ Configured(c)
          /\ \E answer \in {"accepted", "failed"} : accepted' = Accepted(c, answer)
          /\ raised' = [raised EXCEPT ![c] = "ProviderError"]
       \/ /\ ~Configured(c)
          /\ raised' = [raised EXCEPT ![c] =
                 IF Publisher(c) = "eventgrid" THEN "ProviderError" ELSE "ConfigurationError"]
          /\ UNCHANGED accepted
    /\ batch' = [batch EXCEPT ![c] = <<>>]
    /\ results' = [results EXCEPT ![c] = <<>>]
    /\ UNCHANGED <<complete, tried>>

\* The client has seen how its call ended.
PublishEnds(c) ==
    /\ tried[c] # <<>>
    /\ batch[c] = <<>>
    /\ tried' = [tried EXCEPT ![c] = <<>>]
    /\ results' = [results EXCEPT ![c] = <<>>]
    /\ raised' = [raised EXCEPT ![c] = None]
    /\ accepted' = [accepted EXCEPT ![c] = <<>>]
    /\ UNCHANGED <<complete, batch>>

Publishing(c) ==
    \/ \E n \in 1 .. MaxBatch : \E events \in [1 .. n -> Messages] : PublishBatch(c, events)
    \/ PublishNext(c)
    \/ PublishRaises(c)
    \/ PublishEnds(c)

-----------------------------------------------------------------------------
PublishersTypeOK ==
    /\ complete \in BOOLEAN
    /\ {batch, tried} \subseteq [Clients -> Seq(Messages)]
    /\ \A c \in Clients :
           /\ IsSuffix(batch[c], tried[c])
           /\ raised[c] \in {None, "ProviderError", "ConfigurationError"}
           /\ Len(results[c]) <= MaxBatch
           /\ Len(accepted[c]) <= MaxBatch

Received(c) == [i \in DOMAIN accepted[c] |-> accepted[c][i].event]

\* What a publisher reports is true of the broker.  Every event with a result
\* was accepted, in the order of the batch; a publication that raised reached
\* nothing beyond the event it stopped at.  Kafka is the exception: a lost
\* message has a result too.
\* What was accepted still says what event it is and which flow it belongs to,
\* but for EventBridge's; and wherever "ordering" is advertised, events of one
\* subject have one key.
PublicationsAreTrue ==
    \A c \in Clients : tried[c] # <<>> =>
        LET a == Publisher(c)
        IN  /\ IsPrefix(results[c], [i \in DOMAIN tried[c] |-> tried[c][i].id])
            /\ a # "kafka" =>
                   /\ IsPrefix(Received(c), tried[c])
                   /\ Len(results[c]) <= Len(accepted[c])
            /\ raised[c] = None => Len(results[c]) = Len(tried[c]) - Len(batch[c])
            /\ \A i \in DOMAIN accepted[c] :
                   LET e == accepted[c][i].event
                       says == accepted[c][i].request.body \union accepted[c][i].request.attributes
                   IN  /\ {"type", "source"} \subseteq says
                       /\ a # "eventbridge" =>
                              {"id"} \union Given("subject", e.subject)
                                  \union Given("correlation", e.correlation) \subseteq says
            /\ "ordering" \in Advertised(a) =>
                   \A i, j \in DOMAIN accepted[c] :
                       Named(accepted[c][i].event) = Named(accepted[c][j].event)
                           /\ Named(accepted[c][i].event) # {}
                       => accepted[c][i].request.key = accepted[c][j].request.key
                              /\ accepted[c][i].request.key # {}
=============================================================================
