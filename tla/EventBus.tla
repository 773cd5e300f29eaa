------------------------------ MODULE EventBus ------------------------------
(***************************************************************************)
(* InMemoryEventBus of taskferry_events/adapters/inmemory.py: threads       *)
(* publish events (_publish), subscribe, unsubscribe, replay and clear the  *)
(* history.  The list of subscriptions and the history change under one     *)
(* lock; handlers are called outside of it, one after the other, so other   *)
(* threads and the handlers themselves may do anything in between.          *)
(***************************************************************************)
EXTENDS Naturals, Sequences, SequencesExt

CONSTANTS Threads,
          Subscribers,  \* subscriptions, each made at most once
          Events,       \* events, each published at most once (model values)
          Wants,        \* the events each subscription matches
          Trips,        \* the events of its type at which its predicate may raise
          Fragile,      \* subscriptions whose handler may raise
          Retain,       \* retain
          Limits,       \* what max_history may be
          NoEvent

ASSUME EventBusAssumption ==
    /\ Wants \in [Subscribers -> SUBSET Events]
    /\ Trips \in [Subscribers -> SUBSET Events]
    /\ Fragile \subseteq Subscribers
    /\ Retain \in BOOLEAN
    /\ Limits \subseteq Nat
    /\ NoEvent \notin Events

VARIABLES maxHistory,     \* _max_history
          subscriptions,  \* _subscriptions
          history,        \* _history
          pc,             \* "idle", "deliver" or "replay" for each thread
          event,          \* the event a thread publishes
          targets,        \* the subscriptions it has still to call, by their places
          snapshot,       \* the events it has still to replay
          got,            \* the events each handler was called with, in order
          audience,       \* the subscriptions there were when each event was published
          log,            \* all events retained since the last clear, for ever
          former,         \* subscriptions that were removed
          broken          \* of each publication that was broken off: the place of the
                          \* last handler it called, 0 for none

vars == <<maxHistory, subscriptions, history, pc, event, targets, snapshot, got, audience,
          log, former, broken>>

Init ==
    /\ maxHistory \in Limits
    /\ subscriptions = <<>>
    /\ history = <<>>
    /\ pc = [t \in Threads |-> "idle"]
    /\ event = [t \in Threads |-> NoEvent]
    /\ targets = [t \in Threads |-> {}]
    /\ snapshot = [t \in Threads |-> <<>>]
    /\ got = [s \in Subscribers |-> <<>>]
    /\ audience = [e \in {} |-> <<>>]
    /\ log = <<>>
    /\ former = {}
    /\ broken = [e \in {} |-> 0]

Published == DOMAIN audience

-----------------------------------------------------------------------------
Subscribe(s) ==
    /\ s \notin ToSet(subscriptions) \union former
    /\ subscriptions' = Append(subscriptions, s)
    /\ UNCHANGED <<maxHistory, history, pc, event, targets, snapshot, got, audience, log,
                   former, broken>>

\* Subscription.unsubscribe and _remove
Unsubscribe(s) ==
    /\ s \in ToSet(subscriptions)
    /\ subscriptions' = RemoveAt(subscriptions,
                                 CHOOSE i \in DOMAIN subscriptions : subscriptions[i] = s)
    /\ former' = former \union {s}
    /\ UNCHANGED <<maxHistory, history, pc, event, targets, snapshot, got, audience, log, broken>>

\* Fault: the oldest events are kept.
TrimmedHead(h) == IF Len(h) > maxHistory THEN SubSeq(h, 1, maxHistory) ELSE h

\* the slice [-max_history:], which for zero is the whole list
Trimmed(h) ==
    IF Len(h) > maxHistory /\ maxHistory > 0
    THEN SubSeq(h, Len(h) - maxHistory + 1, Len(h)) ELSE h

\* Subscription.matches
Matches(s, e) == e \in Wants[s]

\* the event enters the history before any subscription is asked
Record(e) ==
    /\ e \notin Published
    /\ history' = IF Retain THEN Trimmed(Append(history, e)) ELSE history
    /\ log' = IF Retain THEN Append(log, e) ELSE log
    /\ audience' = [x \in Published \union {e} |->
                       IF x = e THEN subscriptions ELSE audience[x]]

\* the locked part of _publish
Publish(t, e) ==
    /\ pc[t] = "idle"
    /\ Record(e)
    /\ event' = [event EXCEPT ![t] = e]
    /\ targets' = [targets EXCEPT ![t] =
                      {i \in DOMAIN subscriptions : Matches(subscriptions[i], e)}]
    /\ pc' = [pc EXCEPT ![t] = "deliver"]
    /\ UNCHANGED <<maxHistory, subscriptions, snapshot, got, former, broken>>

BrokenOff(e, i) ==
    broken' = [x \in DOMAIN broken \union {e} |-> IF x = e THEN i ELSE broken[x]]

\* a predicate raises while the targets are collected, and publish with it
PredicateRaises(t, e) ==
    /\ pc[t] = "idle"
    /\ \E s \in ToSet(subscriptions) : e \in Trips[s]
    /\ Record(e)
    /\ BrokenOff(e, 0)
    /\ UNCHANGED <<maxHistory, subscriptions, pc, event, targets, snapshot, got, former>>

\* the place of the next subscription that thread t has to call
Due(t) == {i \in targets[t] : \A j \in targets[t] : i <= j}

Called(t, i) == audience[event[t]][i]

\* Fault: a subscription that was removed meanwhile is passed over.
DeliverLive(t) ==
    /\ pc[t] = "deliver"
    /\ \E i \in Due(t) :
           /\ got' = IF Called(t, i) \in ToSet(subscriptions)
                     THEN [got EXCEPT ![Called(t, i)] = Append(@, event[t])]
                     ELSE got
           /\ targets' = [targets EXCEPT ![t] = @ \ {i}]
    /\ UNCHANGED <<maxHistory, subscriptions, history, pc, event, snapshot, audience, log,
                   former, broken>>

\* the next handler returns
Deliver(t) ==
    /\ pc[t] = "deliver"
    /\ \E i \in Due(t) :
           /\ got' = [got EXCEPT ![Called(t, i)] = Append(@, event[t])]
           /\ targets' = [targets EXCEPT ![t] = @ \ {i}]
    /\ UNCHANGED <<maxHistory, subscriptions, history, pc, event, snapshot, audience, log,
                   former, broken>>

\* the next handler raises, and publish with it
DeliverRaises(t) ==
    /\ pc[t] = "deliver"
    /\ \E i \in Due(t) :
           /\ Called(t, i) \in Fragile
           /\ got' = [got EXCEPT ![Called(t, i)] = Append(@, event[t])]
           /\ BrokenOff(event[t], i)
    /\ targets' = [targets EXCEPT ![t] = {}]
    /\ event' = [event EXCEPT ![t] = NoEvent]
    /\ pc' = [pc EXCEPT ![t] = "idle"]
    /\ UNCHANGED <<maxHistory, subscriptions, history, snapshot, audience, log, former>>

PublishReturns(t) ==
    /\ pc[t] = "deliver"
    /\ targets[t] = {}
    /\ event' = [event EXCEPT ![t] = NoEvent]
    /\ pc' = [pc EXCEPT ![t] = "idle"]
    /\ UNCHANGED <<maxHistory, subscriptions, history, targets, snapshot, got, audience,
                   log, former, broken>>

\* replay reads the history once and calls its handler outside the lock
Replay(t) ==
    /\ pc[t] = "idle"
    /\ history # <<>>
    /\ snapshot' = [snapshot EXCEPT ![t] = history]
    /\ pc' = [pc EXCEPT ![t] = "replay"]
    /\ UNCHANGED <<maxHistory, subscriptions, history, event, targets, got, audience, log,
                   former, broken>>

\* its handler returns, or raises and ends the replay
ReplayNext(t) ==
    /\ pc[t] = "replay"
    /\ \E rest \in {Tail(snapshot[t]), <<>>} : snapshot' = [snapshot EXCEPT ![t] = rest]
    /\ pc' = [pc EXCEPT ![t] = IF snapshot'[t] = <<>> THEN "idle" ELSE @]
    /\ UNCHANGED <<maxHistory, subscriptions, history, event, targets, got, audience, log,
                   former, broken>>

Clear ==
    /\ history # <<>>
    /\ history' = <<>>
    /\ log' = <<>>
    /\ UNCHANGED <<maxHistory, subscriptions, pc, event, targets, snapshot, got, audience,
                   former, broken>>

Next ==
    \/ \E s \in Subscribers : Subscribe(s) \/ Unsubscribe(s)
    \/ Clear
    \/ \E t \in Threads :
           \/ \E e \in Events : Publish(t, e) \/ PredicateRaises(t, e)
           \/ Deliver(t)
           \/ DeliverRaises(t)
           \/ PublishReturns(t)
           \/ Replay(t)
           \/ ReplayNext(t)

Spec == Init /\ [][Next]_vars

-----------------------------------------------------------------------------
TypeOK ==
    /\ maxHistory \in Limits
    /\ subscriptions \in Seq(Subscribers)
    /\ history \in Seq(Events)
    /\ pc \in [Threads -> {"idle", "deliver", "replay"}]
    /\ event \in [Threads -> Events \union {NoEvent}]
    /\ \A t \in Threads : pc[t] = "deliver" <=> event[t] # NoEvent
    /\ targets \in [Threads -> SUBSET Nat]
    /\ snapshot \in [Threads -> Seq(Events)]
    /\ got \in [Subscribers -> Seq(Events)]
    /\ Published \subseteq Events
    /\ former \subseteq Subscribers
    /\ DOMAIN broken \subseteq Published

InProgress(e) == \E t \in Threads : event[t] = e

\* Fan-out and filtering: a handler sees an event at most once, and only one
\* that its subscription asked for.  A publication that has returned reached
\* every subscription there was when it began and that asked for the event,
\* whether it was removed in between or not.  When a handler raises, it is the
\* last one called: of those that asked, the ones subscribed before it were
\* reached, those after it were not.  When a predicate raises, nobody is
\* reached, not even those whose predicates had accepted the event.
PublishedReachesAudience ==
    /\ \A s \in Subscribers : IsInjective(got[s]) /\ ToSet(got[s]) \subseteq Wants[s]
    /\ \A e \in Published : ~ InProgress(e) =>
           LET places == DOMAIN audience[e]
               asked == {i \in places : e \in Wants[audience[e][i]]}
               reached == {i \in places : e \in ToSet(got[audience[e][i]])}
           IN  reached = {i \in asked : e \in DOMAIN broken => i <= broken[e]}

\* The history is the last max_history events in the order in which they were
\* published, however publications and clear interleave, those that a predicate
\* broke off and nobody was called with among them; but a bus that is to keep
\* none keeps them all.
HistoryIsTail ==
    LET kept == IF Len(log) > maxHistory /\ maxHistory > 0 THEN maxHistory ELSE Len(log)
    IN  history = SubSeq(log, 1 + Len(log) - kept, Len(log))

\* What a bus delivers and what it remembers are true of what was published.
BusIsTrue == PublishedReachesAudience /\ HistoryIsTail
=============================================================================
