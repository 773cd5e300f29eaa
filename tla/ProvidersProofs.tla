--------------------------- MODULE ProvidersProofs ---------------------------
(***************************************************************************)
(* Proofs about what an application's threads share besides the runtime     *)
(* (Providers), for any number of threads, subscriptions, events, aliases,  *)
(* instances, users, schedules and callables, and about the adapters over   *)
(* worker-based engines (BrokerTasks), for any engines, policies, workers,  *)
(* exceptions, submissions and crashes.                                     *)
(***************************************************************************)
EXTENDS Providers, BrokerTasks, SequenceTheorems, FiniteSetTheorems, TLAPS

(* The bus in memory. *)

\* The places in the list of an event's subscriptions that asked for it, and
\* those that were called with it.
Asked(e) == {i \in DOMAIN audience[e] : audience[e][i] \in {s \in Subscribers : e \in Wants[s]}}

Reached(e) == {i \in DOMAIN audience[e] : e \in ToSet(got[audience[e][i]])}

\* Nobody subscribes twice, and each publication has its own copy of the list.
ListInv ==
    /\ IsInjective(subscriptions)
    /\ \A e \in Published : audience[e] \in Seq(Subscribers) /\ IsInjective(audience[e])

\* An event is published by one thread, and a handler that was called with it
\* had asked for it.
EventInv ==
    /\ \A t \in Threads : event[t] # NoEvent => event[t] \in Published \ DOMAIN broken
    /\ \A t, u \in Threads : event[t] # NoEvent /\ event[t] = event[u] => t = u
    /\ \A s \in Subscribers :
           IsInjective(got[s]) /\ ToSet(got[s]) \subseteq Published \intersect Wants[s]

\* A publication under way has called those that asked, up to the place of the
\* next.
DeliveryInv(t) ==
    LET e == event[t]
    IN  e # NoEvent =>
            /\ targets[t] \subseteq Asked(e)
            /\ Reached(e) = Asked(e) \ targets[t]
            /\ \A i \in Reached(e), j \in targets[t] : i < j

\* One that has ended has called them all, or those up to the one that raised;
\* nobody when a predicate raised, whose place is 0.
ReturnInv(e) ==
    ~ InProgress(e) => Reached(e) = {i \in Asked(e) : e \in DOMAIN broken => i <= broken[e]}

\* There is something left to replay.
ReplayInv == \A t \in Threads : pc[t] = "replay" => snapshot[t] # <<>>

BusInv ==
    /\ TypeOK
    /\ ReplayInv
    /\ ListInv
    /\ EventInv
    /\ \A t \in Threads : DeliveryInv(t)
    /\ \A e \in Published : ReturnInv(e)
    /\ log \in Seq(Events)
    /\ HistoryIsTail

LEMMA AppendNew ==
    ASSUME NEW S, NEW q \in Seq(S), NEW x \in S
    PROVE  /\ Append(q, x) \in Seq(S)
           /\ ToSet(Append(q, x)) = ToSet(q) \union {x}
           /\ IsInjective(q) /\ x \notin ToSet(q) => IsInjective(Append(q, x))
<1> DEFINE n == Len(q)
           longer == Append(q, x)
<1>1. /\ longer \in Seq(S) /\ Len(longer) = n + 1 /\ n \in Nat
      /\ \A i \in 1 .. n : longer[i] = q[i]
      /\ longer[n + 1] = x
      /\ DOMAIN longer = 1 .. n + 1 /\ DOMAIN q = 1 .. n
  OBVIOUS
<1> HIDE DEF longer
<1>2. ToSet(longer) = ToSet(q) \union {x}
  <2>1. \A i \in 1 .. n + 1 : i \in 1 .. n \/ i = n + 1
    BY <1>1
  <2>2. n + 1 \in 1 .. n + 1 /\ \A i \in 1 .. n : i \in 1 .. n + 1
    BY <1>1
  <2> QED BY <1>1, <2>1, <2>2 DEF ToSet
<1>3. ASSUME IsInjective(q), x \notin ToSet(q) PROVE IsInjective(longer)
  <2> SUFFICES ASSUME NEW i \in 1 .. n + 1, NEW j \in 1 .. n + 1, longer[i] = longer[j]
               PROVE i = j
    BY <1>1 DEF IsInjective
  <2>1. /\ i \in 1 .. n \/ i = n + 1
        /\ j \in 1 .. n \/ j = n + 1
    BY <1>1
  <2> QED BY <1>1, <1>3, <2>1 DEF IsInjective, ToSet
<1> QED BY <1>1, <1>2, <1>3 DEF longer

LEMMA RemoveKeeps ==
    ASSUME NEW S, NEW q \in Seq(S), IsInjective(q), NEW i \in DOMAIN q
    PROVE  RemoveAt(q, i) \in Seq(S) /\ IsInjective(RemoveAt(q, i))
<1> DEFINE n == Len(q)
           rest == RemoveAt(q, i)
<1>1. i \in 1 .. n /\ n \in Nat
  OBVIOUS
<1>2. /\ SubSeq(q, 1, i - 1) \in Seq(S) /\ Len(SubSeq(q, 1, i - 1)) = i - 1
      /\ \A k \in 1 .. i - 1 : SubSeq(q, 1, i - 1)[k] = q[k]
  BY <1>1
<1>3. /\ SubSeq(q, i + 1, n) \in Seq(S) /\ Len(SubSeq(q, i + 1, n)) = n - i
      /\ \A k \in 1 .. n - i : SubSeq(q, i + 1, n)[k] = q[k + i]
  BY <1>1
<1>4. /\ rest \in Seq(S) /\ Len(rest) = n - 1
      /\ \A k \in 1 .. n - 1 : rest[k] = IF k < i THEN q[k] ELSE q[k + 1]
  <2> DEFINE front == SubSeq(q, 1, i - 1)
             back == SubSeq(q, i + 1, n)
  <2>1. rest = front \o back
    BY DEF RemoveAt
  <2> HIDE DEF front, back, rest
  <2>2. /\ front \in Seq(S) /\ Len(front) = i - 1 /\ \A k \in 1 .. i - 1 : front[k] = q[k]
        /\ back \in Seq(S) /\ Len(back) = n - i /\ \A k \in 1 .. n - i : back[k] = q[k + i]
    BY <1>2, <1>3 DEF front, back
  <2>3. front \o back \in Seq(S) /\ Len(front \o back) = n - 1
    BY <1>1, <2>2
  <2>4. ASSUME NEW k \in 1 .. n - 1 PROVE (front \o back)[k] = IF k < i THEN q[k] ELSE q[k + 1]
    <3>1. (front \o back)[k] = IF k <= Len(front) THEN front[k] ELSE back[k - Len(front)]
      <4>1. k \in 1 .. Len(front) + Len(back)
        BY <1>1, <2>2
      <4> QED BY <2>2, <4>1, ConcatProperties
    <3>2. CASE k < i
      BY <1>1, <2>2, <3>1, <3>2
    <3>3. CASE ~(k < i)
      <4>1. /\ k - (i - 1) \in 1 .. n - i /\ (k - (i - 1)) + i = k + 1
            /\ ~ (k <= i - 1)
        BY <1>1, <3>3
      <4>2. (front \o back)[k] = back[k - (i - 1)]
        BY <2>2, <3>1, <4>1
      <4>3. back[k - (i - 1)] = q[k + 1]
        BY <2>2, <4>1
      <4> QED BY <3>3, <4>2, <4>3
    <3> QED BY <3>2, <3>3
  <2> QED BY <2>1, <2>3, <2>4
<1> HIDE DEF rest
<1>5. IsInjective(rest)
  <2> SUFFICES ASSUME NEW j \in 1 .. n - 1, NEW k \in 1 .. n - 1, rest[j] = rest[k] PROVE j = k
    BY <1>4 DEF IsInjective
  <2> DEFINE from(m) == IF m < i THEN m ELSE m + 1
  <2>1. \A a, b \in 1 .. n : q[a] = q[b] => a = b
    BY DEF IsInjective
  <2>2. from(j) \in 1 .. n /\ from(k) \in 1 .. n /\ (from(j) = from(k) => j = k)
    BY <1>1
  <2>3. rest[j] = q[from(j)] /\ rest[k] = q[from(k)]
    BY <1>4
  <2> QED BY <2>1, <2>2, <2>3
<1> QED BY <1>4, <1>5 DEF rest

\* The end of a sequence, place by place.
LEMMA TailOf ==
    ASSUME NEW S, NEW q \in Seq(S), NEW h \in Seq(S), NEW k \in 0 .. Len(q)
    PROVE  h = SubSeq(q, 1 + Len(q) - k, Len(q))
              <=> Len(h) = k /\ \A i \in 1 .. k : h[i] = q[Len(q) - k + i]
<1> DEFINE n == Len(q)
           end == SubSeq(q, 1 + n - k, n)
<1>1. end \in Seq(S) /\ Len(end) = k /\ \A i \in 1 .. k : end[i] = q[n - k + i]
  OBVIOUS
<1> HIDE DEF end
<1>2. ASSUME Len(h) = k, \A i \in 1 .. k : h[i] = q[n - k + i] PROVE h = end
  BY <1>1, <1>2, SeqEqual
<1> QED BY <1>1, <1>2 DEF end

-----------------------------------------------------------------------------
\* A new bus.
LEMMA BusInit == Init => BusInv
<1> SUFFICES ASSUME Init PROVE BusInv
  OBVIOUS
<1>1. /\ maxHistory \in Limits /\ maxHistory \in Nat
      /\ subscriptions = <<>> /\ history = <<>> /\ log = <<>>
      /\ Published = {} /\ DOMAIN broken = {}
  BY EventBusAssumption DEF Init, Published
<1>2. <<>> \in Seq(Events) /\ <<>> \in Seq(Subscribers) /\ ToSet(<<>>) = {} /\ IsInjective(<<>>)
  BY DEF ToSet, IsInjective
<1>3. TypeOK /\ ReplayInv
  BY <1>1, <1>2, EventBusAssumption DEF Init, TypeOK, ReplayInv
<1>4. ListInv /\ EventInv /\ \A e \in Published : ReturnInv(e)
  BY <1>1, <1>2 DEF Init, ListInv, EventInv
<1>5. \A t \in Threads : DeliveryInv(t)
  BY DEF Init, DeliveryInv
<1>6. HistoryIsTail
  <2>1. Len(log) = 0 /\ 0 \in 0 .. Len(log)
    BY <1>1
  <2>2. history = SubSeq(log, 1 + Len(log) - 0, Len(log))
    BY <1>1, <1>2, <2>1, TailOf
  <2> QED BY <1>1, <2>1, <2>2 DEF HistoryIsTail
<1> QED BY <1>1, <1>2, <1>3, <1>4, <1>5, <1>6 DEF BusInv

\* subscribe and _remove change the list alone; a publication has its own copy.
LEMMA ListStep ==
    ASSUME BusInv, NEW s \in Subscribers, Subscribe(s) \/ Unsubscribe(s)
    PROVE  BusInv'
<1>1. UNCHANGED <<maxHistory, history, pc, event, targets, snapshot, got, audience, log, broken>>
  BY DEF Subscribe, Unsubscribe
<1>2. subscriptions \in Seq(Subscribers) /\ IsInjective(subscriptions) /\ former \subseteq Subscribers
  BY DEF BusInv, TypeOK, ListInv
<1>3. subscriptions' \in Seq(Subscribers) /\ IsInjective(subscriptions') /\ former' \subseteq Subscribers
  <2>1. CASE Subscribe(s)
    BY <1>2, <2>1, AppendNew DEF Subscribe
  <2>2. CASE Unsubscribe(s)
    <3> DEFINE i == CHOOSE k \in DOMAIN subscriptions : subscriptions[k] = s
    <3>1. i \in DOMAIN subscriptions
      BY <2>2 DEF Unsubscribe, ToSet
    <3>2. subscriptions' = RemoveAt(subscriptions, i) /\ former' = former \union {s}
      BY <2>2 DEF Unsubscribe
    <3> HIDE DEF i
    <3> QED BY <1>2, <3>1, <3>2, RemoveKeeps
  <2> QED BY <2>1, <2>2
<1>4. TypeOK' /\ ReplayInv' /\ ListInv'
  BY <1>1, <1>3 DEF BusInv, TypeOK, ReplayInv, ListInv, Published
<1>5. EventInv' /\ \A t \in Threads : DeliveryInv(t)'
  BY <1>1 DEF BusInv, EventInv, DeliveryInv, Asked, Reached, Published
<1>6. \A e \in Published' : ReturnInv(e)'
  BY <1>1 DEF BusInv, ReturnInv, InProgress, Asked, Reached, Published
<1>7. log' \in Seq(Events) /\ HistoryIsTail'
  BY <1>1 DEF BusInv, HistoryIsTail
<1> QED BY <1>4, <1>5, <1>6, <1>7 DEF BusInv

\* replay reads and clear empties the history.
LEMMA HistoryStep ==
    ASSUME BusInv, Clear \/ \E t \in Threads : Replay(t) \/ ReplayNext(t)
    PROVE  BusInv'
<1>1. UNCHANGED <<maxHistory, subscriptions, event, targets, got, audience, former, broken>>
  BY DEF Clear, Replay, ReplayNext
<1>2. TypeOK' /\ ReplayInv' /\ HistoryIsTail' /\ log' \in Seq(Events)
  <2>1. CASE Clear
    <3>1. <<>> \in Seq(Events) /\ Len(<<>>) = 0 /\ 0 \in 0 .. 0
      OBVIOUS
    <3>2. log' = <<>> /\ history' = <<>> /\ maxHistory' = maxHistory /\ pc' = pc /\ snapshot' = snapshot
      BY <2>1 DEF Clear
    <3>3. history' = SubSeq(log', 1 + Len(log') - 0, Len(log'))
      BY <3>1, <3>2, TailOf
    <3>4. maxHistory \in Nat
      BY EventBusAssumption DEF BusInv, TypeOK
    <3>5. HistoryIsTail'
      BY <3>1, <3>2, <3>3, <3>4 DEF HistoryIsTail
    <3>6. TypeOK' /\ ReplayInv'
      BY <1>1, <3>1, <3>2 DEF BusInv, TypeOK, ReplayInv, Published
    <3> QED BY <3>1, <3>2, <3>5, <3>6
  <2>2. ASSUME NEW t \in Threads, Replay(t) \/ ReplayNext(t)
        PROVE  TypeOK' /\ ReplayInv' /\ HistoryIsTail' /\ log' \in Seq(Events)
    <3>1. /\ history' = history /\ log' = log /\ maxHistory' = maxHistory
          /\ pc[t] \in {"idle", "replay"} /\ \E label \in {"idle", "replay"} : pc' = [pc EXCEPT ![t] = label]
      BY <2>2 DEF Replay, ReplayNext, BusInv, TypeOK
    <3>2. snapshot' \in [Threads -> Seq(Events)] /\ ReplayInv'
      <4>1. CASE Replay(t)
        BY <4>1 DEF Replay, BusInv, TypeOK, ReplayInv
      <4>2. CASE ReplayNext(t)
        <5>1. snapshot[t] \in Seq(Events) /\ snapshot[t] # <<>>
          BY <4>2 DEF ReplayNext, BusInv, TypeOK, ReplayInv
        <5>2. Tail(snapshot[t]) \in Seq(Events) /\ <<>> \in Seq(Events)
          BY <5>1
        <5>3. PICK rest \in Seq(Events) : snapshot' = [snapshot EXCEPT ![t] = rest]
          BY <4>2, <5>2 DEF ReplayNext
        <5>4. pc' = [pc EXCEPT ![t] = IF snapshot'[t] = <<>> THEN "idle" ELSE @]
          BY <4>2 DEF ReplayNext
        <5> QED BY <5>3, <5>4 DEF BusInv, TypeOK, ReplayInv
      <4> QED BY <2>2, <4>1, <4>2
    <3>3. TypeOK'
      BY <1>1, <3>1, <3>2 DEF BusInv, TypeOK, Published
    <3> QED BY <3>1, <3>2, <3>3 DEF BusInv, HistoryIsTail
  <2> QED BY <2>1, <2>2
<1>3. ListInv' /\ EventInv' /\ \A t \in Threads : DeliveryInv(t)'
  BY <1>1 DEF BusInv, ListInv, EventInv, DeliveryInv, Asked, Reached, Published
<1>4. \A e \in Published' : ReturnInv(e)'
  BY <1>1 DEF BusInv, ReturnInv, InProgress, Asked, Reached, Published
<1> QED BY <1>2, <1>3, <1>4 DEF BusInv

\* A call of the handler at place i with the event of thread t.
LEMMA CallReaches ==
    ASSUME BusInv, NEW t \in Threads, event[t] # NoEvent, NEW i \in Due(t),
           got' = [got EXCEPT ![Called(t, i)] = Append(@, event[t])]
    PROVE  /\ event[t] \in Published /\ i \in Asked(event[t]) /\ i \notin Reached(event[t])
           /\ \A j \in Reached(event[t]) : j < i
           /\ \A e \in Published : audience[e] \in Seq(Subscribers)
           /\ got' \in [Subscribers -> Seq(Events)]
           /\ \A s \in Subscribers :
                 IsInjective(got'[s]) /\ ToSet(got'[s]) \subseteq Published \intersect Wants[s]
           /\ \A e \in Published :
                 {j \in DOMAIN audience[e] : e \in ToSet(got'[audience[e][j]])}
                    = IF e = event[t] THEN Reached(e) \union {i} ELSE Reached(e)
<1> DEFINE e == event[t]
           s == Called(t, i)
<1>1. /\ e \in Published /\ targets[t] \subseteq Asked(e) /\ Reached(e) = Asked(e) \ targets[t]
      /\ \A j \in Reached(e), k \in targets[t] : j < k
      /\ i \in targets[t]
  BY DEF BusInv, EventInv, DeliveryInv, Due
<1>2. i \in Asked(e) /\ i \notin Reached(e) /\ \A j \in Reached(e) : j < i
  BY <1>1
<1>3. /\ audience[e] \in Seq(Subscribers) /\ IsInjective(audience[e])
      /\ i \in DOMAIN audience[e] /\ s = audience[e][i] /\ s \in Subscribers /\ e \in Wants[s]
      /\ Published \subseteq Events
  BY <1>1, <1>2 DEF BusInv, ListInv, Asked, Called, TypeOK
<1>4. e \notin ToSet(got[s])
  BY <1>2, <1>3 DEF Reached
<1>5. /\ got \in [Subscribers -> Seq(Events)] /\ e \in Events
      /\ got' = [got EXCEPT ![s] = Append(got[s], e)]
      /\ \A x \in Subscribers :
            IsInjective(got[x]) /\ ToSet(got[x]) \subseteq Published \intersect Wants[x]
  BY <1>1, <1>3 DEF BusInv, EventInv, TypeOK
<1> HIDE DEF e, s
<1>6. /\ Append(got[s], e) \in Seq(Events) /\ IsInjective(Append(got[s], e))
      /\ ToSet(Append(got[s], e)) = ToSet(got[s]) \union {e}
  BY <1>3, <1>4, <1>5, AppendNew
<1>7. \A x \in Subscribers : got'[x] = IF x = s THEN Append(got[s], e) ELSE got[x]
  BY <1>5
<1>8. got' \in [Subscribers -> Seq(Events)]
  BY <1>5, <1>6
<1>9. \A x \in Subscribers :
         IsInjective(got'[x]) /\ ToSet(got'[x]) \subseteq Published \intersect Wants[x]
  BY <1>1, <1>3, <1>5, <1>6, <1>7
<1>10. ASSUME NEW y \in Published
       PROVE {j \in DOMAIN audience[y] : y \in ToSet(got'[audience[y][j]])}
                    = IF y = e THEN Reached(y) \union {i} ELSE Reached(y)
  <2>1. audience[y] \in Seq(Subscribers) /\ \A j \in DOMAIN audience[y] : audience[y][j] \in Subscribers
    BY DEF BusInv, ListInv
  <2>2. \A x \in Subscribers : y \in ToSet(got'[x]) <=> y \in ToSet(got[x]) \/ (y = e /\ x = s)
    BY <1>6, <1>7
  <2>3. \A j \in DOMAIN audience[y] :
           y \in ToSet(got'[audience[y][j]]) <=> j \in Reached(y) \/ (y = e /\ audience[y][j] = s)
    BY <2>1, <2>2 DEF Reached
  <2>4. \A j \in DOMAIN audience[e] : audience[e][j] = s => j = i
    BY <1>3 DEF IsInjective
  <2>5. Reached(y) \subseteq DOMAIN audience[y]
    BY DEF Reached
  <2>6. CASE y = e
    BY <1>3, <2>3, <2>4, <2>5, <2>6
  <2>7. CASE y # e
    BY <2>3, <2>5, <2>7
  <2> QED BY <2>6, <2>7
<1>11. \A y \in Published : audience[y] \in Seq(Subscribers)
  BY DEF BusInv, ListInv
<1> QED BY <1>1, <1>2, <1>8, <1>9, <1>10, <1>11 DEF e

\* A handler returns.
LEMMA DeliverStep ==
    ASSUME BusInv, NEW t \in Threads, Deliver(t)
    PROVE  BusInv'
<1>1. /\ UNCHANGED <<maxHistory, subscriptions, history, pc, event, snapshot, audience, log,
                     former, broken>>
      /\ pc[t] = "deliver" /\ event[t] # NoEvent
  BY DEF Deliver, BusInv, TypeOK
<1>2. PICK i \in Due(t) : /\ got' = [got EXCEPT ![Called(t, i)] = Append(@, event[t])]
                          /\ targets' = [targets EXCEPT ![t] = @ \ {i}]
  BY DEF Deliver
<1>3. /\ event[t] \in Published /\ i \in Asked(event[t]) /\ i \notin Reached(event[t])
      /\ \A j \in Reached(event[t]) : j < i
      /\ got' \in [Subscribers -> Seq(Events)]
      /\ \A s \in Subscribers :
            IsInjective(got'[s]) /\ ToSet(got'[s]) \subseteq Published \intersect Wants[s]
      /\ \A e \in Published :
            {j \in DOMAIN audience[e] : e \in ToSet(got'[audience[e][j]])}
               = IF e = event[t] THEN Reached(e) \union {i} ELSE Reached(e)
  BY <1>1, <1>2, CallReaches
<1>4. targets \in [Threads -> SUBSET Nat] /\ targets' \in [Threads -> SUBSET Nat]
  BY <1>2 DEF BusInv, TypeOK
<1>5. TypeOK' /\ ReplayInv' /\ ListInv' /\ log' \in Seq(Events) /\ HistoryIsTail'
  BY <1>1, <1>3, <1>4 DEF BusInv, TypeOK, ReplayInv, ListInv, HistoryIsTail, Published
<1>6. EventInv'
  BY <1>1, <1>3 DEF BusInv, EventInv, Published
<1>7. \A e \in Published : /\ Asked(e)' = Asked(e)
                           /\ Reached(e)' = IF e = event[t] THEN Reached(e) \union {i} ELSE Reached(e)
  BY <1>1, <1>3 DEF Asked, Reached, Published
<1>8. ASSUME NEW u \in Threads PROVE DeliveryInv(u)'
  <2>1. CASE event[u] = NoEvent
    BY <1>1, <2>1 DEF DeliveryInv
  <2>2. CASE event[u] # NoEvent
    <3>0. PICK e \in Published : e = event[u]
      BY <2>2 DEF BusInv, EventInv
    <3>1. /\ e \in Published /\ (e = event[t] <=> u = t)
          /\ targets[u] \subseteq Asked(e) /\ Reached(e) = Asked(e) \ targets[u]
          /\ \A j \in Reached(e), k \in targets[u] : j < k
      BY <1>1, <2>2, <3>0 DEF BusInv, EventInv, DeliveryInv
    <3>2. CASE u = t
      <4>1. targets'[u] = targets[u] \ {i} /\ i \in targets[u] /\ \A k \in targets[u] : i <= k
        BY <1>2, <1>4, <3>2 DEF Due
      <4>2. \A k \in targets'[u] : i < k
        BY <1>4, <4>1
      <4>3. Reached(e)' = Reached(e) \union {i} /\ Asked(e)' = Asked(e)
        BY <1>7, <3>1, <3>2
      <4>4. event'[u] = e
        BY <1>1, <3>0
      <4>5. targets'[u] \subseteq Asked(e)' /\ Reached(e)' = Asked(e)' \ targets'[u]
        BY <1>3, <3>1, <4>1, <4>3
      <4>6. \A j \in Reached(e)', k \in targets'[u] : j < k
        BY <3>1, <4>1, <4>2, <4>3
      <4> QED BY <4>4, <4>5, <4>6 DEF DeliveryInv
    <3>3. CASE u # t
      <4>1. targets'[u] = targets[u] /\ event'[u] = e
        BY <1>1, <1>2, <1>4, <3>0, <3>3
      <4>2. Reached(e)' = Reached(e) /\ Asked(e)' = Asked(e)
        BY <1>7, <3>1, <3>3
      <4> QED BY <3>1, <4>1, <4>2 DEF DeliveryInv
    <3> QED BY <3>2, <3>3
  <2> QED BY <2>1, <2>2
<1>9. ASSUME NEW e \in Published' PROVE ReturnInv(e)'
  <2>1. e \in Published /\ InProgress(e)' = InProgress(e) /\ broken' = broken
    BY <1>1 DEF Published, InProgress
  <2>2. CASE InProgress(e)
    BY <2>1, <2>2 DEF ReturnInv
  <2>3. CASE ~InProgress(e)
    <3>1. e # event[t]
      BY <2>3 DEF InProgress
    <3> QED BY <1>7, <2>1, <3>1 DEF BusInv, ReturnInv
  <2> QED BY <2>2, <2>3
<1> QED BY <1>5, <1>6, <1>8, <1>9 DEF BusInv

\* A handler raises, or all of them have returned.
LEMMA EndOfPublication ==
    ASSUME BusInv, NEW t \in Threads, DeliverRaises(t) \/ PublishReturns(t)
    PROVE  BusInv'
<1>1. /\ UNCHANGED <<maxHistory, subscriptions, history, snapshot, audience, log, former>>
      /\ pc[t] = "deliver" /\ pc' = [pc EXCEPT ![t] = "idle"]
      /\ event' = [event EXCEPT ![t] = NoEvent]
  BY DEF DeliverRaises, PublishReturns
<1>2. PICK e \in Published : e = event[t] /\ e # NoEvent /\ e \in Events
  BY <1>1 DEF BusInv, TypeOK, EventInv
<1>3. /\ targets[t] \subseteq Asked(e) /\ Reached(e) = Asked(e) \ targets[t] /\ e \notin DOMAIN broken
      /\ targets \in [Threads -> SUBSET Nat] /\ DOMAIN broken \subseteq Published
  BY <1>2 DEF BusInv, TypeOK, EventInv, DeliveryInv
<1>4. /\ event'[t] = NoEvent
      /\ \A u \in Threads \ {t} : event'[u] = event[u] /\ event[u] # e
      /\ \A x \in Published \ {e} : InProgress(x)' <=> InProgress(x)
      /\ ~ InProgress(e)'
  <2>1. event'[t] = NoEvent /\ \A u \in Threads \ {t} : event'[u] = event[u] /\ event[u] # e
    BY <1>1, <1>2 DEF BusInv, TypeOK, EventInv
  <2>2. \A x \in Published : x \in Events /\ x # NoEvent
    BY EventBusAssumption DEF BusInv, TypeOK
  <2> QED BY <1>2, <2>1, <2>2 DEF InProgress
<1>5. /\ got' \in [Subscribers -> Seq(Events)]
      /\ targets' \in [Threads -> SUBSET Nat] /\ \A u \in Threads \ {t} : targets'[u] = targets[u]
      /\ \A s \in Subscribers :
            IsInjective(got'[s]) /\ ToSet(got'[s]) \subseteq Published \intersect Wants[s]
      /\ DOMAIN broken' \subseteq DOMAIN broken \union {e}
      /\ \A x \in Published \ {e} : /\ Reached(x)' = Reached(x)
                                    /\ x \in DOMAIN broken' <=> x \in DOMAIN broken
                                    /\ x \in DOMAIN broken => broken'[x] = broken[x]
      /\ Reached(e)' = {k \in Asked(e) : e \in DOMAIN broken' => k <= broken'[e]}
  <2>1. CASE DeliverRaises(t)
    <3>1. PICK i \in Due(t) : /\ got' = [got EXCEPT ![Called(t, i)] = Append(@, event[t])]
                              /\ broken' = [x \in DOMAIN broken \union {event[t]} |->
                                                IF x = event[t] THEN i ELSE broken[x]]
      BY <2>1 DEF DeliverRaises, BrokenOff
    <3>2. /\ i \in Asked(e) /\ \A j \in Reached(e) : j < i
          /\ got' \in [Subscribers -> Seq(Events)]
          /\ \A s \in Subscribers :
                IsInjective(got'[s]) /\ ToSet(got'[s]) \subseteq Published \intersect Wants[s]
          /\ \A x \in Published :
                {j \in DOMAIN audience[x] : x \in ToSet(got'[audience[x][j]])}
                   = IF x = e THEN Reached(x) \union {i} ELSE Reached(x)
      BY <1>2, <3>1, CallReaches
    <3>3. \A x \in Published : Reached(x)' = IF x = e THEN Reached(x) \union {i} ELSE Reached(x)
      BY <1>1, <3>2 DEF Reached
    <3>4. /\ DOMAIN broken' = DOMAIN broken \union {e} /\ broken'[e] = i
          /\ \A x \in DOMAIN broken : x # e => broken'[x] = broken[x]
      BY <1>2, <3>1
    <3>5. i \in Nat /\ i \in targets[t] /\ (\A k \in targets[t] : i <= k /\ k \in Nat)
      BY <1>3, <3>1 DEF Due
    <3>6. Reached(e) \union {i} = {k \in Asked(e) : k <= i}
      <4>1. \A k \in Asked(e) : k <= i <=> k \in Reached(e) \/ k = i
        <5> SUFFICES ASSUME NEW k \in Asked(e) PROVE k <= i <=> k \in Reached(e) \/ k = i
          OBVIOUS
        <5>1. k \in Nat
          BY <1>2 DEF Asked, BusInv, ListInv
        <5>2. k \in Reached(e) \/ k \in targets[t]
          BY <1>3
        <5> QED BY <3>2, <3>5, <5>1, <5>2
      <4> QED BY <1>3, <3>2, <4>1
    <3>7. targets' = [targets EXCEPT ![t] = {}]
      BY <2>1 DEF DeliverRaises
    <3>8. targets' \in [Threads -> SUBSET Nat] /\ \A u \in Threads \ {t} : targets'[u] = targets[u]
      BY <1>3, <3>7
    <3>9. Reached(e)' = {k \in Asked(e) : e \in DOMAIN broken' => k <= broken'[e]}
      BY <3>3, <3>4, <3>6
    <3>10. \A x \in Published \ {e} : x \in DOMAIN broken' <=> x \in DOMAIN broken
      BY <3>4
    <3> QED BY <3>2, <3>3, <3>4, <3>8, <3>9, <3>10
  <2>2. CASE PublishReturns(t)
    <3>1. UNCHANGED <<targets, got, broken>> /\ targets[t] = {}
      BY <2>2 DEF PublishReturns
    <3>2. \A x \in Published : Reached(x)' = Reached(x)
      BY <1>1, <3>1 DEF Reached
    <3>3. Reached(e) = {k \in Asked(e) : e \in DOMAIN broken => k <= broken[e]}
      BY <1>3, <3>1
    <3> QED BY <1>3, <3>1, <3>2, <3>3 DEF BusInv, TypeOK, EventInv
  <2> QED BY <2>1, <2>2
<1>6. Published' = Published /\ \A x \in Published : Asked(x)' = Asked(x)
  BY <1>1 DEF Published, Asked
<1>7. TypeOK'
  <2>1. /\ event' \in [Threads -> Events \union {NoEvent}]
        /\ pc' \in [Threads -> {"idle", "deliver", "replay"}]
        /\ \A u \in Threads : pc'[u] = "deliver" <=> event'[u] # NoEvent
    BY <1>1 DEF BusInv, TypeOK
  <2>2. DOMAIN broken' \subseteq Published
    BY <1>3, <1>5
  <2> QED BY <1>1, <1>5, <1>6, <2>1, <2>2 DEF BusInv, TypeOK
<1>8. ReplayInv' /\ ListInv' /\ log' \in Seq(Events) /\ HistoryIsTail'
  BY <1>1, <1>6 DEF BusInv, TypeOK, ReplayInv, ListInv, HistoryIsTail
<1>9. EventInv'
  BY <1>4, <1>5, <1>6 DEF BusInv, EventInv
<1>10. ASSUME NEW u \in Threads PROVE DeliveryInv(u)'
  <2>1. CASE u = t \/ event[u] = NoEvent
    BY <1>4, <2>1 DEF DeliveryInv
  <2>2. CASE u # t /\ event[u] # NoEvent
    <3>1. PICK x \in Published \ {e} : x = event[u]
      BY <1>4, <2>2 DEF BusInv, EventInv
    <3>2. /\ targets[u] \subseteq Asked(x) /\ Reached(x) = Asked(x) \ targets[u]
          /\ \A i \in Reached(x), j \in targets[u] : i < j
      BY <2>2, <3>1 DEF BusInv, DeliveryInv
    <3>3. targets'[u] = targets[u] /\ event'[u] = x /\ Reached(x)' = Reached(x) /\ Asked(x)' = Asked(x)
      BY <1>4, <1>5, <1>6, <2>2, <3>1
    <3> QED BY <3>2, <3>3 DEF DeliveryInv
  <2> QED BY <2>1, <2>2
<1>11. ASSUME NEW x \in Published PROVE ReturnInv(x)'
  <2>1. CASE x = e
    BY <1>5, <1>6, <2>1 DEF ReturnInv
  <2>2. CASE x # e
    <3>1. ReturnInv(x)
      BY DEF BusInv
    <3> QED BY <1>4, <1>5, <1>6, <2>2, <3>1 DEF ReturnInv
  <2> QED BY <2>1, <2>2
<1> QED BY <1>6, <1>7, <1>8, <1>9, <1>10, <1>11 DEF BusInv

\* The history is still the end of the log with one event more.
LEMMA HistoryGrows ==
    ASSUME BusInv, NEW e \in Events,
           history' = Trimmed(Append(history, e)), log' = Append(log, e), maxHistory' = maxHistory
    PROVE  HistoryIsTail' /\ history' \in Seq(Events) /\ log' \in Seq(Events)
<1> DEFINE n == Len(log)
           k == IF n > maxHistory /\ maxHistory > 0 THEN maxHistory ELSE n
           m == IF n + 1 > maxHistory /\ maxHistory > 0 THEN maxHistory ELSE n + 1
           longer == Append(history, e)
<1>1. /\ maxHistory \in Nat /\ n \in Nat /\ log \in Seq(Events) /\ history \in Seq(Events)
      /\ k \in 0 .. n /\ m \in 0 .. n + 1
  BY EventBusAssumption DEF BusInv, TypeOK
<1>2. history = SubSeq(log, 1 + n - k, n)
  BY DEF BusInv, HistoryIsTail
<1>3. Len(history) = k /\ \A i \in 1 .. k : history[i] = log[n - k + i]
  <2> HIDE DEF k
  <2> QED BY <1>1, <1>2, TailOf
<1>4. /\ log' \in Seq(Events) /\ Len(log') = n + 1
      /\ \A i \in 1 .. n : log'[i] = log[i]
      /\ log'[n + 1] = e
  BY <1>1
<1>5. /\ longer \in Seq(Events) /\ Len(longer) = k + 1
      /\ \A i \in 1 .. k : longer[i] = history[i]
      /\ longer[k + 1] = e
  <2> HIDE DEF k
  <2> QED BY <1>1, <1>3
<1> HIDE DEF longer
<1>6. k \in 0 .. n /\ m \in 0 .. n + 1
  BY <1>1
<1>7. \A i \in 1 .. k + 1 : longer[i] = log'[n - k + i]
  <2> SUFFICES ASSUME NEW i \in 1 .. k + 1 PROVE longer[i] = log'[n - k + i]
    OBVIOUS
  <2> HIDE DEF k, n
  <2>1. CASE i \in 1 .. k
    <3>1. n - k + i \in 1 .. n
      BY <1>1, <1>6, <2>1
    <3> QED BY <1>3, <1>4, <1>5, <2>1, <3>1
  <2>2. CASE i = k + 1
    <3>1. n - k + i = n + 1
      BY <1>1, <1>6, <2>2
    <3> QED BY <1>4, <1>5, <2>2, <3>1
  <2>3. i \in 1 .. k \/ i = k + 1
    BY <1>6, <1>1
  <2> QED BY <2>1, <2>2, <2>3
<1>8. /\ history' \in Seq(Events) /\ Len(history') = m
      /\ \A i \in 1 .. m : history'[i] = log'[n + 1 - m + i]
  <2>1. CASE k + 1 > maxHistory /\ maxHistory > 0
    <3>1. m = maxHistory /\ k = maxHistory
      BY <1>1, <2>1
    <3>2. history' = SubSeq(longer, Len(longer) - maxHistory + 1, Len(longer))
      BY <1>5, <2>1 DEF Trimmed, longer
    <3> HIDE DEF k, m, n
    <3>3. Len(longer) - maxHistory + 1 = 2 /\ Len(longer) = k + 1
      BY <1>1, <1>5, <1>6, <3>1
    <3>4. history' = SubSeq(longer, 2, k + 1)
      BY <3>2, <3>3
    <3>5. /\ history' \in Seq(Events) /\ Len(history') = k
          /\ \A i \in 1 .. k : history'[i] = longer[i + 1]
      BY <1>1, <1>5, <1>6, <3>4
    <3>6. ASSUME NEW i \in 1 .. k PROVE history'[i] = log'[n + 1 - k + i]
      <4>1. i + 1 \in 1 .. k + 1 /\ n - k + (i + 1) = n + 1 - k + i
        BY <1>1, <1>6
      <4>2. longer[i + 1] = log'[n - k + (i + 1)]
        BY <1>7, <4>1
      <4> QED BY <3>5, <4>1, <4>2
    <3> QED BY <3>1, <3>5, <3>6
  <2>2. CASE ~(k + 1 > maxHistory /\ maxHistory > 0)
    <3>1. m = n + 1 /\ k = n
      BY <1>1, <2>2
    <3>2. history' = longer
      BY <1>5, <2>2 DEF Trimmed, longer
    <3> HIDE DEF k, m
    <3> QED BY <1>1, <1>5, <1>7, <3>1, <3>2
  <2> QED BY <2>1, <2>2
<1>9. history' = SubSeq(log', 1 + (n + 1) - m, n + 1)
  <2> HIDE DEF m, n
  <2>1. m \in 0 .. Len(log') /\ (n + 1) - m = Len(log') - m
    BY <1>1, <1>4, <1>6
  <2>2. \A i \in 1 .. m : Len(log') - m + i = n + 1 - m + i
    BY <1>1, <1>4, <1>6
  <2> QED BY <1>4, <1>8, <2>1, <2>2, TailOf
<1> QED BY <1>4, <1>8, <1>9 DEF HistoryIsTail

\* The locked part of _publish.
LEMMA PublishStep ==
    ASSUME BusInv, NEW t \in Threads, NEW e \in Events, Publish(t, e)
    PROVE  BusInv'
<1>1. /\ UNCHANGED <<maxHistory, subscriptions, snapshot, got, former, broken>>
      /\ pc[t] = "idle" /\ e \notin Published
      /\ pc' = [pc EXCEPT ![t] = "deliver"] /\ event' = [event EXCEPT ![t] = e]
      /\ targets' = [targets EXCEPT ![t] =
                         {i \in DOMAIN subscriptions : Matches(subscriptions[i], e)}]
      /\ e # NoEvent
  BY EventBusAssumption DEF Publish, Record
<1>2. /\ event[t] = NoEvent /\ targets \in [Threads -> SUBSET Nat]
      /\ subscriptions \in Seq(Subscribers) /\ IsInjective(subscriptions)
      /\ Published \subseteq Events /\ DOMAIN broken \subseteq Published
  BY <1>1 DEF BusInv, TypeOK, ListInv
<1>3. /\ Published' = Published \union {e} /\ audience'[e] = subscriptions
      /\ \A x \in Published : audience'[x] = audience[x] /\ x # e
  <2>1. audience' = [x \in Published \union {e} |->
                        IF x = e THEN subscriptions ELSE audience[x]]
    BY DEF Publish, Record
  <2> QED BY <1>1, <2>1 DEF Published
<1>4. /\ event'[t] = e /\ pc'[t] = "deliver"
      /\ \A u \in Threads \ {t} : /\ event'[u] = event[u] /\ targets'[u] = targets[u]
                                  /\ event[u] # e /\ pc'[u] = pc[u]
      /\ \A x \in Published : InProgress(x)' <=> InProgress(x)
      /\ InProgress(e)'
  <2>1. /\ event'[t] = e /\ pc'[t] = "deliver"
        /\ \A u \in Threads \ {t} : /\ event'[u] = event[u] /\ targets'[u] = targets[u]
                                    /\ event[u] # e /\ pc'[u] = pc[u]
    BY <1>1, <1>2 DEF BusInv, TypeOK, EventInv
  <2>2. \A x \in Published : x # NoEvent
    BY <1>2, EventBusAssumption
  <2> QED BY <1>2, <1>3, <2>1, <2>2 DEF InProgress
<1>5. /\ \A x \in Published : Asked(x)' = Asked(x) /\ Reached(x)' = Reached(x)
      /\ Reached(e)' = {} /\ Asked(e)' = targets'[t]
  <2>1. \A x \in Published : Asked(x)' = Asked(x) /\ Reached(x)' = Reached(x)
    BY <1>1, <1>3 DEF Asked, Reached
  <2>2. \A s \in Subscribers : e \notin ToSet(got[s])
    BY <1>1 DEF BusInv, EventInv
  <2>3. \A i \in DOMAIN subscriptions : subscriptions[i] \in Subscribers
    BY <1>2
  <2>4. Reached(e)' = {}
    BY <1>1, <1>3, <2>2, <2>3 DEF Reached
  <2>5. Asked(e)' = targets'[t]
    BY <1>1, <1>2, <1>3, <2>3 DEF Asked, Matches
  <2> QED BY <2>1, <2>4, <2>5
<1>6. HistoryIsTail' /\ history' \in Seq(Events) /\ log' \in Seq(Events)
  <2>1. CASE Retain
    <3>1. history' = Trimmed(Append(history, e)) /\ log' = Append(log, e)
      BY <2>1 DEF Publish, Record
    <3> QED BY <1>1, <3>1, HistoryGrows
  <2>2. CASE ~ Retain
    BY <1>1, <2>2 DEF Publish, Record, BusInv, TypeOK, HistoryIsTail
  <2> QED BY <2>1, <2>2
<1>7. TypeOK'
  <2>1. /\ event' \in [Threads -> Events \union {NoEvent}]
        /\ pc' \in [Threads -> {"idle", "deliver", "replay"}]
        /\ \A u \in Threads : pc'[u] = "deliver" <=> event'[u] # NoEvent
    BY <1>1, <1>4 DEF BusInv, TypeOK
  <2>2. targets' \in [Threads -> SUBSET Nat]
    <3>1. {i \in DOMAIN subscriptions : Matches(subscriptions[i], e)} \subseteq Nat
      BY <1>2
    <3> QED BY <1>1, <1>2, <3>1
  <2>3. Published' \subseteq Events /\ DOMAIN broken' \subseteq Published'
    BY <1>1, <1>2, <1>3
  <2> QED BY <1>1, <1>6, <2>1, <2>2, <2>3 DEF BusInv, TypeOK
<1>8. ReplayInv' /\ ListInv'
  <2>1. ReplayInv'
    BY <1>1 DEF BusInv, TypeOK, ReplayInv
  <2>2. ListInv'
    BY <1>1, <1>2, <1>3 DEF BusInv, ListInv
  <2> QED BY <2>1, <2>2
<1>9. EventInv'
  <2>1. \A u \in Threads : event'[u] # NoEvent => event'[u] \in Published' \ DOMAIN broken'
    BY <1>1, <1>2, <1>3, <1>4 DEF BusInv, EventInv
  <2>2. \A u, v \in Threads : event'[u] # NoEvent /\ event'[u] = event'[v] => u = v
    BY <1>4 DEF BusInv, EventInv
  <2>3. \A s \in Subscribers :
           IsInjective(got'[s]) /\ ToSet(got'[s]) \subseteq Published' \intersect Wants[s]
    BY <1>1, <1>3 DEF BusInv, EventInv
  <2> QED BY <2>1, <2>2, <2>3 DEF EventInv
<1>10. ASSUME NEW u \in Threads PROVE DeliveryInv(u)'
  <2>1. CASE u = t
    <3>1. targets'[t] \subseteq Asked(e)' /\ Reached(e)' = Asked(e)' \ targets'[t]
      BY <1>5
    <3>2. \A i \in Reached(e)', j \in targets'[t] : i < j
      BY <1>5
    <3> QED BY <1>4, <2>1, <3>1, <3>2 DEF DeliveryInv
  <2>2. CASE u # t /\ event[u] = NoEvent
    BY <1>4, <2>2 DEF DeliveryInv
  <2>3. CASE u # t /\ event[u] # NoEvent
    <3>1. PICK x \in Published : x = event[u]
      BY <2>3 DEF BusInv, EventInv
    <3>2. /\ targets[u] \subseteq Asked(x) /\ Reached(x) = Asked(x) \ targets[u]
          /\ \A i \in Reached(x), j \in targets[u] : i < j
      BY <2>3, <3>1 DEF BusInv, DeliveryInv
    <3>3. targets'[u] = targets[u] /\ event'[u] = x /\ Reached(x)' = Reached(x) /\ Asked(x)' = Asked(x)
      BY <1>4, <1>5, <2>3, <3>1
    <3> QED BY <3>2, <3>3 DEF DeliveryInv
  <2> QED BY <2>1, <2>2, <2>3
<1>11. ASSUME NEW x \in Published' PROVE ReturnInv(x)'
  <2>1. CASE x = e
    BY <1>4, <2>1 DEF ReturnInv
  <2>2. CASE x # e
    <3>1. x \in Published
      BY <1>3, <2>2
    <3>2. ReturnInv(x)
      BY <3>1 DEF BusInv
    <3> QED BY <1>1, <1>4, <1>5, <3>1, <3>2 DEF ReturnInv
  <2> QED BY <2>1, <2>2
<1> QED BY <1>6, <1>7, <1>8, <1>9, <1>10, <1>11 DEF BusInv

\* A predicate raises under the lock: the event is in the history, and no
\* handler was or will be called with it.
LEMMA PredicateRaisesStep ==
    ASSUME BusInv, NEW t \in Threads, NEW e \in Events, PredicateRaises(t, e)
    PROVE  BusInv'
<1>1. /\ UNCHANGED <<maxHistory, subscriptions, pc, event, targets, snapshot, got, former>>
      /\ e \notin Published /\ e # NoEvent
  BY EventBusAssumption DEF PredicateRaises, Record
<1>2. /\ subscriptions \in Seq(Subscribers) /\ IsInjective(subscriptions)
      /\ Published \subseteq Events /\ DOMAIN broken \subseteq Published
      /\ \A u \in Threads : event[u] # e
  BY <1>1 DEF BusInv, TypeOK, ListInv, EventInv
<1>3. /\ Published' = Published \union {e} /\ audience'[e] = subscriptions
      /\ \A x \in Published : audience'[x] = audience[x] /\ x # e
  <2>1. audience' = [x \in Published \union {e} |->
                        IF x = e THEN subscriptions ELSE audience[x]]
    BY DEF PredicateRaises, Record
  <2> QED BY <1>1, <2>1 DEF Published
<1>4. /\ DOMAIN broken' = DOMAIN broken \union {e} /\ broken'[e] = 0
      /\ \A x \in DOMAIN broken : broken'[x] = broken[x]
  <2>1. broken' = [x \in DOMAIN broken \union {e} |-> IF x = e THEN 0 ELSE broken[x]]
    BY DEF PredicateRaises, BrokenOff
  <2> QED BY <1>1, <1>2, <2>1
<1>5. /\ \A x \in Published : Asked(x)' = Asked(x) /\ Reached(x)' = Reached(x)
      /\ Reached(e)' = {} /\ Asked(e)' \subseteq Nat \ {0}
  <2>1. \A x \in Published : Asked(x)' = Asked(x) /\ Reached(x)' = Reached(x)
    BY <1>1, <1>3 DEF Asked, Reached
  <2>2. \A s \in Subscribers : e \notin ToSet(got[s])
    BY <1>1 DEF BusInv, EventInv
  <2>3. DOMAIN subscriptions \subseteq Nat \ {0} /\ \A i \in DOMAIN subscriptions : subscriptions[i] \in Subscribers
    BY <1>2
  <2>4. Reached(e)' = {}
    BY <1>1, <1>3, <2>2, <2>3 DEF Reached
  <2>5. Asked(e)' \subseteq Nat \ {0}
    BY <1>3, <2>3 DEF Asked
  <2> QED BY <2>1, <2>4, <2>5
<1>6. HistoryIsTail' /\ history' \in Seq(Events) /\ log' \in Seq(Events)
  <2>1. CASE Retain
    <3>1. history' = Trimmed(Append(history, e)) /\ log' = Append(log, e)
      BY <2>1 DEF PredicateRaises, Record
    <3> QED BY <1>1, <3>1, HistoryGrows
  <2>2. CASE ~ Retain
    BY <1>1, <2>2 DEF PredicateRaises, Record, BusInv, TypeOK, HistoryIsTail
  <2> QED BY <2>1, <2>2
<1>7. TypeOK' /\ ReplayInv' /\ ListInv'
  <2>1. Published' \subseteq Events /\ DOMAIN broken' \subseteq Published'
    BY <1>2, <1>3, <1>4
  <2>2. TypeOK'
    BY <1>1, <1>6, <2>1 DEF BusInv, TypeOK
  <2>3. ReplayInv' /\ ListInv'
    BY <1>1, <1>2, <1>3 DEF BusInv, ReplayInv, ListInv
  <2> QED BY <2>2, <2>3
<1>8. EventInv'
  <2>1. \A u \in Threads : event'[u] # NoEvent => event'[u] \in Published' \ DOMAIN broken'
    BY <1>1, <1>2, <1>3, <1>4 DEF BusInv, EventInv
  <2>2. \A s \in Subscribers :
           IsInjective(got'[s]) /\ ToSet(got'[s]) \subseteq Published' \intersect Wants[s]
    BY <1>1, <1>3 DEF BusInv, EventInv
  <2> QED BY <1>1, <2>1, <2>2 DEF BusInv, EventInv
<1>9. ASSUME NEW u \in Threads PROVE DeliveryInv(u)'
  <2>1. CASE event[u] = NoEvent
    BY <1>1, <2>1 DEF DeliveryInv
  <2>2. CASE event[u] # NoEvent
    <3>1. PICK x \in Published : x = event[u]
      BY <2>2 DEF BusInv, EventInv
    <3>2. /\ targets[u] \subseteq Asked(x) /\ Reached(x) = Asked(x) \ targets[u]
          /\ \A i \in Reached(x), j \in targets[u] : i < j
      BY <2>2, <3>1 DEF BusInv, DeliveryInv
    <3>3. targets'[u] = targets[u] /\ event'[u] = x /\ Reached(x)' = Reached(x) /\ Asked(x)' = Asked(x)
      BY <1>1, <1>5, <3>1
    <3> QED BY <3>2, <3>3 DEF DeliveryInv
  <2> QED BY <2>1, <2>2
<1>10. ASSUME NEW x \in Published' PROVE ReturnInv(x)'
  <2>1. CASE x = e
    <3>1. {i \in Asked(e)' : i <= 0} = {}
      BY <1>5
    <3>2. e \in DOMAIN broken' /\ broken'[e] = 0 /\ Reached(e)' = {}
      BY <1>4, <1>5
    <3> QED BY <2>1, <3>1, <3>2 DEF ReturnInv
  <2>2. CASE x # e
    <3>1. x \in Published
      BY <1>3, <2>2
    <3>2. ReturnInv(x)
      BY <3>1 DEF BusInv
    <3>3. InProgress(x)' <=> InProgress(x)
      BY <1>1 DEF InProgress
    <3>4. /\ x \in DOMAIN broken' <=> x \in DOMAIN broken
          /\ x \in DOMAIN broken => broken'[x] = broken[x]
      BY <1>4, <2>2
    <3> QED BY <1>5, <3>1, <3>2, <3>3, <3>4 DEF ReturnInv
  <2> QED BY <2>1, <2>2
<1> QED BY <1>6, <1>7, <1>8, <1>9, <1>10 DEF BusInv

\* A step of the bus, or of something else.
LEMMA BusStep == BusInv /\ [Next]_vars => BusInv'
<1> SUFFICES ASSUME BusInv, [Next]_vars PROVE BusInv'
  OBVIOUS
<1>1. CASE UNCHANGED vars
  <2> USE <1>1 DEF vars
  <2>1. TypeOK' /\ ReplayInv' /\ ListInv' /\ log' \in Seq(Events) /\ HistoryIsTail'
    BY DEF BusInv, TypeOK, ReplayInv, ListInv, HistoryIsTail, Published
  <2>2. EventInv' /\ \A t \in Threads : DeliveryInv(t)'
    BY DEF BusInv, EventInv, DeliveryInv, Asked, Reached, Published
  <2>3. \A e \in Published' : ReturnInv(e)'
    BY DEF BusInv, ReturnInv, InProgress, Asked, Reached, Published
  <2> QED BY <2>1, <2>2, <2>3 DEF BusInv
<1>2. ASSUME NEW s \in Subscribers, Subscribe(s) \/ Unsubscribe(s) PROVE BusInv'
  BY <1>2, ListStep
<1>3. CASE Clear
  BY <1>3, HistoryStep
<1>4. ASSUME NEW t \in Threads, Replay(t) \/ ReplayNext(t) PROVE BusInv'
  BY <1>4, HistoryStep
<1>5. ASSUME NEW t \in Threads, NEW e \in Events, Publish(t, e) \/ PredicateRaises(t, e) PROVE BusInv'
  BY <1>5, PublishStep, PredicateRaisesStep
<1>6. ASSUME NEW t \in Threads, Deliver(t) PROVE BusInv'
  BY <1>6, DeliverStep
<1>7. ASSUME NEW t \in Threads, DeliverRaises(t) \/ PublishReturns(t) PROVE BusInv'
  BY <1>7, EndOfPublication
<1> QED BY <1>1, <1>2, <1>3, <1>4, <1>5, <1>6, <1>7 DEF Next

\* What the bus promises.
LEMMA BusSafe == BusInv => BusIsTrue
<1> SUFFICES ASSUME BusInv PROVE PublishedReachesAudience
  BY DEF BusIsTrue, BusInv
<1>1. \A s \in Subscribers : IsInjective(got[s]) /\ ToSet(got[s]) \subseteq Wants[s]
  BY DEF BusInv, EventInv
<1>2. ASSUME NEW e \in Published, ~ InProgress(e)
      PROVE  Reached(e) = {i \in {j \in DOMAIN audience[e] : e \in Wants[audience[e][j]]} :
                              e \in DOMAIN broken => i <= broken[e]}
  <2>1. audience[e] \in Seq(Subscribers) /\ \A i \in DOMAIN audience[e] : audience[e][i] \in Subscribers
    BY DEF BusInv, ListInv
  <2>2. Asked(e) = {j \in DOMAIN audience[e] : e \in Wants[audience[e][j]]}
    BY <2>1 DEF Asked
  <2>3. Reached(e) = {i \in Asked(e) : e \in DOMAIN broken => i <= broken[e]}
    BY <1>2 DEF BusInv, ReturnInv
  <2> QED BY <2>2, <2>3
<1> QED BY <1>1, <1>2 DEF PublishedReachesAudience, Reached

-----------------------------------------------------------------------------
(* The lazy registry. *)

FactoryNames == Factories \union Brokers \union {"inmemory", None}

Labels == {"idle", "take", "build", "store", "return", "unknown", "KeyError"}

AccessRecords == [at : Labels, alias : Aliases \union {None}, factory : FactoryNames,
                  made : Nat, late : BOOLEAN]

RegistryTypes ==
    /\ factories \in [Aliases -> FactoryNames]
    /\ instances \in [Aliases -> Nat]
    /\ made \in Seq(FactoryNames)
    /\ access \in [Clients -> AccessRecords]
    /\ held \in [Clients -> Nat]
    /\ settled \subseteq Clients
    /\ stale \subseteq Nat
    /\ dropping \subseteq Aliases
    /\ \A a \in Aliases : instances[a] <= Len(made)
    /\ \A c \in Clients : held[c] <= Len(made)

\* What an access has taken and made is what the registry would give now, and
\* there is an instance to return, unless a change has overlapped it.
AccessIsTrue(x) ==
    /\ x.made <= Len(made)
    /\ x.at \in {"take", "build", "store", "return"} => x.alias \in Aliases
    /\ x.at = "build" /\ ~ x.late => x.factory = factories[x.alias]
    /\ x.at = "store" => x.made # 0 /\ (x.made \notin stale => made[x.made] = factories[x.alias])
    /\ x.at = "return" /\ instances[x.alias] = 0 => x.late
    /\ x.at = "KeyError" => x.late

AccessInv == \A c \in Clients : AccessIsTrue(access[c])

CacheInv ==
    \A a \in Aliases \ dropping :
        instances[a] # 0 /\ instances[a] \notin stale => made[instances[a]] = factories[a]

\* Nobody builds what a settled client has.
SettledInv ==
    \A c \in settled : held[c] # 0 /\ \E a \in Aliases : instances[a] = held[c] /\ Building(a) = {}

RegistryInv == RegistryTypes /\ AccessInv /\ CacheInv /\ SettledInv

\* A registry with what the configuration registers.
LEMMA RegistryStarts ==
    ASSUME NEW registered \in [Aliases -> FactoryNames], RegistryInit(registered)
    PROVE  RegistryInv
<1>1. NoAccess \in AccessRecords
  BY DEF NoAccess, AccessRecords, Labels, FactoryNames
<1>2. <<>> \in Seq(FactoryNames) /\ Len(<<>>) = 0
  OBVIOUS
<1>3. RegistryTypes
  BY <1>1, <1>2 DEF RegistryInit, RegistryTypes
<1>4. AccessInv
  BY <1>2 DEF RegistryInit, AccessInv, AccessIsTrue, NoAccess
<1>5. CacheInv /\ SettledInv
  BY DEF RegistryInit, CacheInv, SettledInv
<1> QED BY <1>3, <1>4, <1>5 DEF RegistryInv

\* A step of one access that leaves what is shared alone: it may begin to build
\* only what nobody has.
LEMMA AccessMoves ==
    ASSUME RegistryInv, NEW c \in Clients, NEW x \in AccessRecords,
           UNCHANGED <<factories, instances, made, held, stale, dropping>>,
           settled' \in SUBSET settled,
           access' = [access EXCEPT ![c] = x], AccessIsTrue(x),
           x.at \in {"take", "build", "store"} =>
               c \in Building(x.alias) \/ instances[x.alias] = 0
    PROVE  RegistryInv'
<1>1. \A d \in Clients : access'[d] = IF d = c THEN x ELSE access[d]
  BY DEF RegistryInv, RegistryTypes
<1>2. RegistryTypes' /\ CacheInv'
  BY DEF RegistryInv, RegistryTypes, CacheInv
<1>3. AccessInv'
  BY <1>1 DEF RegistryInv, AccessInv, AccessIsTrue
<1>4. SettledInv'
  <2> SUFFICES ASSUME NEW d \in settled'
               PROVE held'[d] # 0 /\ \E a \in Aliases : instances'[a] = held'[d] /\ Building(a)' = {}
    BY DEF SettledInv
  <2>1. PICK a \in Aliases : held[d] # 0 /\ instances[a] = held[d] /\ Building(a) = {}
    BY DEF RegistryInv, SettledInv
  <2>2. Building(a)' = {}
    BY <1>1, <2>1 DEF Building
  <2> QED BY <2>1, <2>2
<1> QED BY <1>2, <1>3, <1>4 DEF RegistryInv

LEMMA BeginStep ==
    ASSUME RegistryInv, NEW c \in Clients, NEW a \in Aliases, Begin(c, a)
    PROVE  RegistryInv'
<1> DEFINE x == [NoAccess EXCEPT !.alias = a, !.at = IF instances[a] = 0 THEN "take" ELSE "return"]
<1>1. /\ x.at = IF instances[a] = 0 THEN "take" ELSE "return"
      /\ x.alias = a /\ x.made = 0 /\ x.late = FALSE
  BY DEF NoAccess
<1>2. x \in AccessRecords
  <2>1. NoAccess \in AccessRecords
    BY DEF NoAccess, AccessRecords, Labels, FactoryNames
  <2> QED BY <2>1 DEF AccessRecords, Labels
<1>3. access' = [access EXCEPT ![c] = x]
  BY DEF Begin
<1> HIDE DEF x
<1>4. AccessIsTrue(x) /\ (x.at \in {"take", "build", "store"} => instances[x.alias] = 0)
  BY <1>1 DEF AccessIsTrue, RegistryInv, RegistryTypes
<1>5. UNCHANGED <<factories, instances, made, held, stale, dropping>> /\ settled' \in SUBSET settled
  BY DEF Begin
<1> QED BY <1>2, <1>3, <1>4, <1>5, AccessMoves

LEMMA TakeStep ==
    ASSUME RegistryInv, NEW c \in Clients, Take(c)
    PROVE  RegistryInv'
<1> DEFINE a == access[c].alias
           x == IF factories[a] = None THEN [NoAccess EXCEPT !.at = "unknown"]
                ELSE [access[c] EXCEPT !.at = "build", !.factory = factories[a]]
<1>1. /\ access[c] \in AccessRecords /\ access[c].at = "take" /\ AccessIsTrue(access[c])
      /\ access \in [Clients -> AccessRecords] /\ factories \in [Aliases -> FactoryNames]
  BY DEF Take, RegistryInv, RegistryTypes, AccessInv
<1>2. a \in Aliases /\ c \in Building(a)
  BY <1>1 DEF AccessIsTrue, Building
<1>3. access' = [access EXCEPT ![c] = x]
  BY <1>1 DEF Take
<1>4. IF factories[a] = None THEN x.at = "unknown" /\ x.made = 0
      ELSE /\ x.at = "build" /\ x.alias = a /\ x.factory = factories[a]
           /\ x.made = access[c].made /\ x.late = access[c].late
  BY <1>1 DEF NoAccess, AccessRecords
<1>5. x \in AccessRecords
  <2>1. NoAccess \in AccessRecords
    BY DEF NoAccess, AccessRecords, Labels, FactoryNames
  <2>2. CASE factories[a] = None
    BY <2>1, <2>2 DEF AccessRecords, Labels
  <2>3. CASE factories[a] # None
    <3>1. x = [access[c] EXCEPT !.at = "build", !.factory = factories[a]]
      BY <2>3
    <3>2. factories[a] \in FactoryNames
      BY <1>1, <1>2
    <3> QED BY <1>1, <3>1, <3>2 DEF AccessRecords, Labels
  <2> QED BY <2>2, <2>3
<1> HIDE DEF x
<1>6. AccessIsTrue(x) /\ (x.at \in {"take", "build", "store"} => c \in Building(x.alias))
  BY <1>1, <1>2, <1>4 DEF AccessIsTrue, RegistryInv, RegistryTypes
<1>7. UNCHANGED <<factories, instances, made, held, stale, dropping>> /\ settled' \in SUBSET settled
  BY DEF Take
<1> QED BY <1>3, <1>5, <1>6, <1>7, AccessMoves

\* An access fails, and the client goes on.
LEMMA FailureStep ==
    ASSUME RegistryInv, NEW c \in Clients, ReturnRaises(c) \/ Recover(c)
    PROVE  RegistryInv'
<1>1. /\ access[c] \in AccessRecords /\ AccessIsTrue(access[c])
      /\ access \in [Clients -> AccessRecords]
      /\ UNCHANGED <<factories, instances, made, held, stale, dropping>> /\ settled' \in SUBSET settled
  BY DEF ReturnRaises, Recover, RegistryInv, RegistryTypes, AccessInv
<1>2. CASE ReturnRaises(c)
  <2> DEFINE x == [access[c] EXCEPT !.at = "KeyError"]
  <2>1. access' = [access EXCEPT ![c] = x] /\ access[c].at = "return" /\ access[c].late
    BY <1>1, <1>2 DEF ReturnRaises, Goto, AccessIsTrue
  <2>2. x \in AccessRecords /\ x.at = "KeyError" /\ x.made = access[c].made /\ x.late = TRUE
    BY <1>1, <2>1 DEF AccessRecords, Labels
  <2> HIDE DEF x
  <2>3. AccessIsTrue(x)
    BY <1>1, <2>2 DEF AccessIsTrue
  <2> QED BY <1>1, <2>1, <2>2, <2>3, AccessMoves
<1>3. CASE Recover(c)
  <2>1. access' = [access EXCEPT ![c] = NoAccess]
    BY <1>3 DEF Recover
  <2>2. NoAccess \in AccessRecords /\ AccessIsTrue(NoAccess) /\ NoAccess.at = "idle"
    BY DEF NoAccess, AccessRecords, Labels, FactoryNames, AccessIsTrue, RegistryInv, RegistryTypes
  <2> QED BY <1>1, <2>1, <2>2, AccessMoves
<1> QED BY <1>2, <1>3

\* A factory is called, or not found.
LEMMA BuildStep ==
    ASSUME RegistryInv, NEW c \in Clients, Build(c)
    PROVE  RegistryInv'
<1>1. /\ access[c] \in AccessRecords /\ access[c].at = "build" /\ AccessIsTrue(access[c])
      /\ access \in [Clients -> AccessRecords]
      /\ made \in Seq(FactoryNames) /\ Len(made) \in Nat
      /\ UNCHANGED <<factories, instances, held, settled, dropping>>
      /\ access[c].alias \in Aliases
  BY DEF Build, RegistryInv, RegistryTypes, AccessInv, AccessIsTrue
<1>2. CASE /\ access[c].factory \notin Importable
           /\ access' = [access EXCEPT ![c] = [NoAccess EXCEPT !.at = "unknown"]]
           /\ UNCHANGED <<made, stale>>
  <2> DEFINE x == [NoAccess EXCEPT !.at = "unknown"]
  <2>1. NoAccess \in AccessRecords
    BY DEF NoAccess, AccessRecords, Labels, FactoryNames
  <2>2. x \in AccessRecords /\ x.at = "unknown" /\ x.made = 0
    BY <2>1 DEF NoAccess, AccessRecords, Labels
  <2>3. access' = [access EXCEPT ![c] = x]
    BY <1>2
  <2> HIDE DEF x
  <2>4. AccessIsTrue(x)
    BY <1>1, <2>2 DEF AccessIsTrue
  <2> QED BY <1>1, <1>2, <2>2, <2>3, <2>4, AccessMoves
<1>3. CASE /\ access[c].factory \in Importable
           /\ made' = Append(made, access[c].factory)
           /\ access' = [access EXCEPT ![c].at = "store", ![c].made = Len(made) + 1]
           /\ stale' = IF access[c].late THEN stale \union {Len(made) + 1} ELSE stale
  <2> DEFINE n == Len(made)
             x == [access[c] EXCEPT !.at = "store", !.made = n + 1]
  <2>1. /\ x \in AccessRecords /\ x.at = "store" /\ x.made = n + 1 /\ x.alias = access[c].alias
    <3>1. n + 1 \in Nat /\ access[c] \in AccessRecords
      BY <1>1
    <3> HIDE DEF n
    <3> QED BY <3>1 DEF AccessRecords, Labels
  <2>2. access' = [access EXCEPT ![c] = x]
    BY <1>1, <1>3
  <2> HIDE DEF x
  <2>3. \A d \in Clients : access'[d] = IF d = c THEN x ELSE access[d]
    BY <1>1, <2>2
  <2>4. /\ made' \in Seq(FactoryNames) /\ Len(made') = n + 1 /\ n \in Nat
        /\ \A i \in 1 .. n : made'[i] = made[i]
        /\ made'[n + 1] = access[c].factory
    BY <1>1, <1>3 DEF AccessRecords
  <2>5. /\ stale \subseteq stale' /\ stale' \subseteq Nat
        /\ n + 1 \notin stale' => ~ access[c].late
    BY <1>1, <1>3, <2>4 DEF RegistryInv, RegistryTypes
  <2> HIDE DEF n
  <2>6. RegistryTypes'
    <3>1. access' \in [Clients -> AccessRecords]
      BY <1>1, <2>1, <2>2
    <3>2. /\ \A a \in Aliases : instances'[a] <= Len(made')
          /\ \A d \in Clients : held'[d] <= Len(made')
      BY <1>1, <2>4 DEF RegistryInv, RegistryTypes, n
    <3> QED BY <1>1, <2>4, <2>5, <3>1, <3>2 DEF RegistryInv, RegistryTypes
  <2>7. AccessInv'
    <3> SUFFICES ASSUME NEW d \in Clients PROVE AccessIsTrue(access[d])'
      BY DEF AccessInv
    <3>1. CASE d = c
      <4>1. /\ access'[d].made = n + 1 /\ access'[d].at = "store"
            /\ access'[d].alias = access[c].alias
        BY <2>1, <2>3, <3>1
      <4>2. n + 1 \notin stale' => made'[n + 1] = factories[access[c].alias]
        BY <1>1, <2>4, <2>5 DEF AccessIsTrue
      <4> QED BY <1>1, <2>4, <4>1, <4>2 DEF AccessIsTrue
    <3>2. CASE d # c
      <4>1. access'[d] = access[d] /\ access[d] \in AccessRecords /\ AccessIsTrue(access[d])
        BY <1>1, <2>3, <3>2 DEF RegistryInv, AccessInv
      <4>2. access[d].made \in Nat
        BY <4>1 DEF AccessRecords
      <4>3. access[d].made <= n
        BY <4>1 DEF AccessIsTrue, n
      <4>4. access[d].made # 0 => made'[access[d].made] = made[access[d].made]
        BY <2>4, <4>2, <4>3
      <4>5. access[d].made <= Len(made')
        BY <2>4, <4>2, <4>3
      <4>6. access[d].made \notin stale' => access[d].made \notin stale
        BY <2>5
      <4> QED BY <1>1, <4>1, <4>4, <4>5, <4>6 DEF AccessIsTrue
    <3> QED BY <3>1, <3>2
  <2>8. CacheInv'
    <3>1. \A a \in Aliases : instances[a] # 0 => made'[instances[a]] = made[instances[a]]
      BY <2>4 DEF RegistryInv, RegistryTypes, n
    <3> QED BY <1>1, <2>5, <3>1 DEF RegistryInv, CacheInv
  <2>9. SettledInv'
    <3>1. \A a : Building(a)' = Building(a)
      BY <1>1, <2>1, <2>3 DEF Building
    <3> QED BY <1>1, <3>1 DEF RegistryInv, SettledInv
  <2> QED BY <2>6, <2>7, <2>8, <2>9 DEF RegistryInv
<1> QED BY <1>2, <1>3 DEF Build

\* An instance is cached.
LEMMA StoreStep ==
    ASSUME RegistryInv, NEW c \in Clients, Store(c)
    PROVE  RegistryInv'
<1> DEFINE a == access[c].alias
           n == access[c].made
           x == [access[c] EXCEPT !.at = "return"]
<1>1. /\ access[c] \in AccessRecords /\ access[c].at = "store" /\ AccessIsTrue(access[c])
      /\ access \in [Clients -> AccessRecords] /\ instances \in [Aliases -> Nat]
      /\ UNCHANGED <<factories, made, held, settled, stale, dropping>>
      /\ access' = [access EXCEPT ![c] = x]
      /\ instances' = [instances EXCEPT ![a] = n]
  BY DEF Store, Goto, RegistryInv, RegistryTypes, AccessInv
<1>2. /\ a \in Aliases /\ n \in Nat \ {0} /\ n <= Len(made)
      /\ n \notin stale => made[n] = factories[a]
      /\ c \in Building(a)
  BY <1>1 DEF AccessIsTrue, AccessRecords, Building
<1>3. /\ x \in AccessRecords /\ x.at = "return" /\ x.made = n /\ x.alias = a
      /\ x.late = access[c].late
  BY <1>1 DEF AccessRecords, Labels
<1> HIDE DEF x, a, n
<1>4. /\ \A d \in Clients : access'[d] = IF d = c THEN x ELSE access[d]
      /\ \A b \in Aliases : instances'[b] = IF b = a THEN n ELSE instances[b]
  BY <1>1
<1>5. RegistryTypes'
  <2>1. access' \in [Clients -> AccessRecords] /\ instances' \in [Aliases -> Nat]
    BY <1>1, <1>2, <1>3
  <2>2. \A b \in Aliases : instances'[b] <= Len(made)
    BY <1>2, <1>4 DEF RegistryInv, RegistryTypes
  <2> QED BY <1>1, <2>1, <2>2 DEF RegistryInv, RegistryTypes
<1>6. AccessInv'
  <2> SUFFICES ASSUME NEW d \in Clients PROVE AccessIsTrue(access[d])'
    BY DEF AccessInv
  <2>1. CASE d = c
    BY <1>1, <1>2, <1>3, <1>4, <2>1 DEF AccessIsTrue
  <2>2. CASE d # c
    <3>1. access'[d] = access[d] /\ AccessIsTrue(access[d])
      BY <1>4, <2>2 DEF RegistryInv, AccessInv
    <3>2. \A b \in Aliases : instances'[b] = 0 => instances[b] = 0
      BY <1>2, <1>4
    <3> QED BY <1>1, <3>1, <3>2 DEF AccessIsTrue
  <2> QED BY <2>1, <2>2
<1>7. CacheInv'
  BY <1>1, <1>2, <1>4 DEF RegistryInv, CacheInv
<1>8. SettledInv'
  <2> SUFFICES ASSUME NEW d \in settled
               PROVE held[d] # 0 /\ \E b \in Aliases : instances'[b] = held[d] /\ Building(b)' = {}
    BY <1>1 DEF SettledInv
  <2>1. PICK b \in Aliases : held[d] # 0 /\ instances[b] = held[d] /\ Building(b) = {}
    BY DEF RegistryInv, SettledInv
  <2>2. b # a
    BY <1>2, <2>1
  <2>3. Building(b)' = {}
    BY <1>3, <1>4, <2>1 DEF Building
  <2> QED BY <1>4, <2>1, <2>2, <2>3
<1> QED BY <1>5, <1>6, <1>7, <1>8 DEF RegistryInv

\* An access returns what is cached.
LEMMA ReturnStep ==
    ASSUME RegistryInv, NEW c \in Clients, Return(c)
    PROVE  RegistryInv'
<1> DEFINE a == access[c].alias
<1>1. /\ access \in [Clients -> AccessRecords] /\ instances \in [Aliases -> Nat]
      /\ held \in [Clients -> Nat] /\ settled \subseteq Clients
      /\ UNCHANGED <<factories, instances, made, stale, dropping>>
      /\ access' = [access EXCEPT ![c] = NoAccess]
      /\ held' = [held EXCEPT ![c] = instances[a]]
      /\ settled' = IF Building(a) = {} THEN settled \union {c} ELSE settled \ {c}
      /\ access[c].at = "return" /\ instances[a] # 0
  BY DEF Return, RegistryInv, RegistryTypes
<1>2. a \in Aliases
  BY <1>1 DEF RegistryInv, AccessInv, AccessIsTrue
<1>3. NoAccess \in AccessRecords /\ NoAccess.at = "idle" /\ NoAccess.made = 0
  BY DEF NoAccess, AccessRecords, Labels, FactoryNames
<1>4. /\ \A d \in Clients : access'[d] = IF d = c THEN NoAccess ELSE access[d]
      /\ \A d \in Clients : held'[d] = IF d = c THEN instances[a] ELSE held[d]
  BY <1>1
<1>5. RegistryTypes'
  <2>1. access' \in [Clients -> AccessRecords] /\ held' \in [Clients -> Nat] /\ settled' \subseteq Clients
    BY <1>1, <1>2, <1>3
  <2>2. \A d \in Clients : held'[d] <= Len(made)
    BY <1>2, <1>4 DEF RegistryInv, RegistryTypes
  <2> QED BY <1>1, <2>1, <2>2 DEF RegistryInv, RegistryTypes
<1>6. AccessInv'
  BY <1>1, <1>3, <1>4 DEF RegistryInv, RegistryTypes, AccessInv, AccessIsTrue
<1>7. CacheInv'
  BY <1>1 DEF RegistryInv, CacheInv
<1>8. SettledInv'
  <2>1. \A b : Building(b) = {} => Building(b)' = {}
    BY <1>3, <1>4 DEF Building
  <2> SUFFICES ASSUME NEW d \in settled'
               PROVE held'[d] # 0 /\ \E b \in Aliases : instances[b] = held'[d] /\ Building(b) = {}
    BY <1>1, <2>1 DEF SettledInv
  <2>2. CASE d = c
    <3>1. Building(a) = {}
      BY <1>1, <2>2
    <3> QED BY <1>1, <1>2, <1>4, <2>2, <3>1
  <2>3. CASE d # c
    BY <1>1, <1>4, <2>3 DEF RegistryInv, SettledInv
  <2> QED BY <2>2, <2>3
<1> QED BY <1>5, <1>6, <1>7, <1>8 DEF RegistryInv

\* What a change makes late.
LEMMA OverlapMarks ==
    ASSUME RegistryInv, NEW which \in SUBSET Aliases, Overlap(which)
    PROVE  /\ access' \in [Clients -> AccessRecords]
           /\ \A c \in Clients :
                 /\ access'[c].at = access[c].at /\ access'[c].alias = access[c].alias
                 /\ access'[c].factory = access[c].factory /\ access'[c].made = access[c].made
                 /\ access'[c].late <=> access[c].late \/ access[c].alias \in which
                 /\ access[c].at = "store" /\ access[c].alias \in which => access[c].made \in stale'
           /\ stale \subseteq stale' /\ stale' \subseteq Nat
           /\ UNCHANGED <<made, held>>
           /\ \A a : Building(a)' = Building(a)
<1>1. /\ access \in [Clients -> AccessRecords] /\ stale \subseteq Nat
      /\ access' = [c \in Clients |->
                       IF access[c].alias \in which THEN [access[c] EXCEPT !.late = TRUE]
                       ELSE access[c]]
      /\ stale' = stale \union {access[c].made : c \in {d \in Clients :
                                    access[d].at = "store" /\ access[d].alias \in which}}
      /\ UNCHANGED <<made, held>>
  BY DEF Overlap, RegistryInv, RegistryTypes
<1>2. ASSUME NEW c \in Clients
      PROVE  /\ access'[c] \in AccessRecords
             /\ access'[c].at = access[c].at /\ access'[c].alias = access[c].alias
             /\ access'[c].factory = access[c].factory /\ access'[c].made = access[c].made
             /\ access'[c].late <=> access[c].late \/ access[c].alias \in which
  <2>1. access[c] \in AccessRecords
    BY <1>1
  <2>2. CASE access[c].alias \in which
    <3>1. access'[c] = [access[c] EXCEPT !.late = TRUE]
      BY <1>1, <2>2
    <3> QED BY <2>1, <2>2, <3>1 DEF AccessRecords
  <2>3. CASE access[c].alias \notin which
    <3>1. access'[c] = access[c]
      BY <1>1, <2>3
    <3> QED BY <2>1, <2>3, <3>1 DEF AccessRecords
  <2> QED BY <2>2, <2>3
<1>3. access' \in [Clients -> AccessRecords]
  BY <1>1, <1>2
<1>4. \A c \in Clients :
         access[c].at = "store" /\ access[c].alias \in which => access[c].made \in stale'
  BY <1>1
<1>5. stale \subseteq stale' /\ stale' \subseteq Nat
  <2>1. \A c \in Clients : access[c].made \in Nat
    BY <1>1 DEF AccessRecords
  <2> QED BY <1>1, <2>1
<1>6. \A a : Building(a)' = Building(a)
  BY <1>2 DEF Building
<1> QED BY <1>1, <1>2, <1>3, <1>4, <1>5, <1>6

\* Whatever is changed of the aliases in which: the instances others have of
\* them, and those still being made, are no longer what the factories make.
LEMMA ChangeKeeps ==
    ASSUME RegistryInv, NEW which \in SUBSET Aliases, Overlap(which),
           factories' \in [Aliases -> FactoryNames],
           \A a \in Aliases \ which : factories'[a] = factories[a],
           instances' \in [Aliases -> Nat],
           \A a \in Aliases : instances'[a] = instances[a] \/ (a \in which /\ instances'[a] = 0),
           dropping' \in SUBSET Aliases, settled' \in SUBSET settled,
           \A a \in Aliases \ dropping' :
               (a \notin which /\ a \notin dropping) \/ instances'[a] = 0,
           \A c \in settled', a \in Aliases : instances[a] = held[c] => instances'[a] = instances[a]
    PROVE  RegistryInv'
<1>1. /\ access' \in [Clients -> AccessRecords]
      /\ \A c \in Clients :
            /\ access'[c].at = access[c].at /\ access'[c].alias = access[c].alias
            /\ access'[c].factory = access[c].factory /\ access'[c].made = access[c].made
            /\ access'[c].late <=> access[c].late \/ access[c].alias \in which
            /\ access[c].at = "store" /\ access[c].alias \in which => access[c].made \in stale'
      /\ stale \subseteq stale' /\ stale' \subseteq Nat
      /\ UNCHANGED <<made, held>>
      /\ \A a : Building(a)' = Building(a)
  BY OverlapMarks
<1>2. RegistryTypes'
  <2>1. made \in Seq(FactoryNames) /\ Len(made) \in Nat /\ instances \in [Aliases -> Nat]
        /\ \A a \in Aliases : instances[a] <= Len(made)
    BY DEF RegistryInv, RegistryTypes
  <2>2. \A a \in Aliases : instances'[a] <= Len(made)
    BY <2>1
  <2>3. settled' \subseteq Clients /\ \A c \in Clients : held[c] <= Len(made)
    BY DEF RegistryInv, RegistryTypes
  <2> QED BY <1>1, <2>1, <2>2, <2>3 DEF RegistryInv, RegistryTypes
<1>3. ASSUME NEW c \in Clients PROVE AccessIsTrue(access[c])'
  <2> DEFINE x == access[c]
             y == access'[c]
  <2>1. AccessIsTrue(x)
    BY DEF RegistryInv, AccessInv
  <2>2. CASE access[c].alias \in which
    BY <1>1, <2>1, <2>2 DEF AccessIsTrue
  <2>3. CASE access[c].alias \notin which
    <3>1. /\ y.at = x.at /\ y.alias = x.alias /\ y.factory = x.factory /\ y.made = x.made
          /\ y.late <=> x.late
          /\ stale \subseteq stale' /\ made' = made
      BY <1>1, <2>3
    <3>2. /\ x.alias \in Aliases => factories'[x.alias] = factories[x.alias]
          /\ x.alias \in Aliases => instances'[x.alias] = instances[x.alias]
      BY <2>3
    <3> HIDE DEF x, y
    <3> QED BY <2>1, <3>1, <3>2 DEF AccessIsTrue, x, y
  <2> QED BY <2>2, <2>3
<1>4. CacheInv'
  BY <1>1 DEF RegistryInv, CacheInv
<1>5. SettledInv'
  <2> SUFFICES ASSUME NEW c \in settled'
               PROVE held[c] # 0 /\ \E a \in Aliases : instances'[a] = held[c] /\ Building(a) = {}
    BY <1>1 DEF SettledInv
  <2> QED BY DEF RegistryInv, SettledInv
<1> QED BY <1>2, <1>3, <1>4, <1>5 DEF RegistryInv, AccessInv

LEMMA ChangeStep ==
    ASSUME RegistryInv, Change
    PROVE  RegistryInv'
<1>1. /\ factories \in [Aliases -> FactoryNames] /\ instances \in [Aliases -> Nat]
      /\ dropping \subseteq Aliases
  BY DEF RegistryInv, RegistryTypes
<1>2. ASSUME NEW which \in SUBSET Aliases, ChangeBegins(which),
             factories' \in [Aliases -> FactoryNames],
             \A a \in Aliases \ which : factories'[a] = factories[a]
      PROVE  RegistryInv'
  <2>1. Overlap(which) /\ dropping = {} /\ dropping' = which /\ UNCHANGED <<instances, settled>>
    BY <1>2 DEF ChangeBegins
  <2> QED BY <1>1, <1>2, <2>1, ChangeKeeps
<1>3. ASSUME NEW a \in Aliases, NEW f \in Factories, NEW replace \in BOOLEAN, Register(a, f, replace)
      PROVE  RegistryInv'
  <2>1. ChangeBegins({a}) /\ factories' = [factories EXCEPT ![a] = f]
    BY <1>3 DEF Register
  <2>2. factories' \in [Aliases -> FactoryNames] /\ \A b \in Aliases \ {a} : factories'[b] = factories[b]
    BY <1>1, <2>1 DEF FactoryNames
  <2> QED BY <1>2, <2>1, <2>2
<1>4. CASE ClearProviders
  <2>1. factories' \in [Aliases -> FactoryNames]
    BY <1>4 DEF ClearProviders, FactoryNames
  <2> QED BY <1>2, <1>4, <2>1 DEF ClearProviders
<1>5. CASE ResetInstances
  BY <1>1, <1>2, <1>5 DEF ResetInstances
<1>6. CASE Drop
  <2>1. /\ instances' = [a \in Aliases |-> IF a \in dropping THEN 0 ELSE instances[a]]
        /\ settled' = settled \ {c \in settled : held[c] \in {instances[a] : a \in dropping}}
        /\ Overlap(dropping) /\ dropping' = {} /\ factories' = factories
    BY <1>6 DEF Drop
  <2>2. instances' \in [Aliases -> Nat]
    BY <1>1, <2>1
  <2>3. \A c \in settled', a \in Aliases : instances[a] = held[c] => instances'[a] = instances[a]
    BY <2>1
  <2> QED BY <1>1, <2>1, <2>2, <2>3, ChangeKeeps
<1> QED BY <1>3, <1>4, <1>5, <1>6 DEF Change

LEMMA GetitemStep ==
    ASSUME RegistryInv, NEW c \in Clients, Getitem(c)
    PROVE  RegistryInv'
BY BeginStep, TakeStep, BuildStep, StoreStep, ReturnStep, FailureStep DEF Getitem

LEMMA RegistryRests ==
    ASSUME RegistryInv, UNCHANGED registryVars
    PROVE  RegistryInv'
<1> USE DEF registryVars
<1>1. RegistryTypes' /\ CacheInv'
  BY DEF RegistryInv, RegistryTypes, CacheInv
<1>2. AccessInv' /\ SettledInv'
  BY DEF RegistryInv, AccessInv, AccessIsTrue, SettledInv, Building
<1> QED BY <1>1, <1>2 DEF RegistryInv

LEMMA RegistrySafe == RegistryInv => RegistryIsTrue
BY DEF RegistryInv, RegistryTypes, AccessInv, AccessIsTrue, CacheInv, SettledInv, RegistryIsTrue

-----------------------------------------------------------------------------
(* The publishers of other brokers. *)

\* The registry was configured with one publisher, and has made no other.
OneBroker(f) ==
    /\ \A a \in Aliases : factories[a] \in {f, None}
    /\ \A c \in Clients : access[c].at = "build" => access[c].factory = f
    /\ \A i \in DOMAIN made : made[i] = f

Delivery(f, e) == [event |-> e, request |-> RequestOf(f, e)]

Deliveries == {Delivery(f, e) : f \in Brokers, e \in Messages}

PublisherTypes ==
    /\ batch \in [Clients -> Seq(Messages)]
    /\ tried \in [Clients -> Seq(Messages)]
    /\ results \in [Clients -> Seq({e.id : e \in Messages})]
    /\ raised \in [Clients -> {None, "ProviderError", "ConfigurationError"}]
    /\ accepted \in [Clients -> Seq(Deliveries)]

\* How far a publication with publisher f has come: the batch is what is left
\* of what was to be published, and each part but the last, which may have been
\* refused, has reached the broker.
Stage(left, res, err, all, acc, f) ==
    /\ all = <<>> => res = <<>> /\ acc = <<>> /\ err = None
    /\ err # None => left = <<>> /\ res = <<>>
    /\ err = None => Len(res) = Len(all) - Len(left)
    /\ Len(left) <= Len(all)
    /\ \A i \in 1 .. Len(left) : left[i] = all[(Len(all) - Len(left)) + i]
    /\ Len(res) <= Len(all)
    /\ \A i \in 1 .. Len(res) : res[i] = all[i].id
    /\ f # "kafka" =>
           /\ Len(res) <= Len(acc) /\ Len(acc) <= Len(all)
           /\ err = None => Len(acc) = Len(res)
           /\ \A i \in 1 .. Len(acc) : acc[i].event = all[i]
    /\ \A i \in 1 .. Len(acc) : \E e \in Messages : acc[i] = Delivery(f, e)

Progress(c, f) ==
    /\ tried[c] # <<>> => held[c] # 0
    /\ Stage(batch[c], results[c], raised[c], tried[c], accepted[c], f)

PublishersInv ==
    /\ PublisherTypes
    /\ place = "publisher" =>
           \E f \in Brokers : OneBroker(f) /\ \A c \in Clients : Progress(c, f)
    /\ place # "publisher" => \A c \in Clients : tried[c] = <<>>

\* What a request says of its event.
LEMMA RequestSays ==
    ASSUME NEW f \in Brokers, NEW e
    PROVE  /\ {"type", "source"} \subseteq RequestOf(f, e).body \union RequestOf(f, e).attributes
           /\ f # "eventbridge" =>
                 {"id"} \union Given("subject", e.subject) \union Given("correlation", e.correlation)
                    \subseteq RequestOf(f, e).body \union RequestOf(f, e).attributes
           /\ "ordering" \in Advertised(f) /\ Named(e) # {} => RequestOf(f, e).key = Named(e)
<1> DEFINE given == Given("subject", e.subject) \union Given("correlation", e.correlation)
           says(r) == /\ {"type", "source"} \subseteq r.body \union r.attributes
                      /\ {"id"} \union given \subseteq r.body \union r.attributes
<1>1. says(Sns(e)) /\ says(PubSub(e)) /\ says(EventGrid(e))
  BY DEF Sns, PubSub, EventGrid, ToCloudevent
<1>2. says(SnsFifo(e)) /\ says(OrderedPubSub(e))
  <2>1. /\ SnsFifo(e).body = Sns(e).body /\ SnsFifo(e).attributes = Sns(e).attributes
        /\ OrderedPubSub(e).body = PubSub(e).body /\ OrderedPubSub(e).attributes = PubSub(e).attributes
    BY DEF SnsFifo, OrderedPubSub, PubSub, Sns
  <2> QED BY <1>1, <2>1
<1>3. says(Kafka(e))
  BY DEF Kafka, ToCloudevent
<1>4. Named(e) # {} =>
         SnsFifo(e).key = Named(e) /\ OrderedPubSub(e).key = Named(e) /\ Kafka(e).key = Named(e)
  BY DEF SnsFifo, OrderedPubSub, PubSub, Sns, Kafka
<1>5. {"type", "source"} \subseteq EventBridge(e).body \union EventBridge(e).attributes
  BY DEF EventBridge
<1>6. /\ f = "sns" => RequestOf(f, e) = Sns(e) /\ "ordering" \notin Advertised(f)
      /\ f = "snsfifo" => RequestOf(f, e) = SnsFifo(e)
      /\ f = "eventbridge" => RequestOf(f, e) = EventBridge(e) /\ "ordering" \notin Advertised(f)
      /\ f = "pubsub" => RequestOf(f, e) = PubSub(e) /\ "ordering" \notin Advertised(f)
      /\ f = "orderedpubsub" => RequestOf(f, e) = OrderedPubSub(e)
      /\ f = "eventgrid" => RequestOf(f, e) = EventGrid(e) /\ "ordering" \notin Advertised(f)
      /\ f = "kafka" => RequestOf(f, e) = Kafka(e)
  BY DEF RequestOf, Advertised, SNS, EVENTBRIDGE, PUBSUB, EVENTGRID
<1> HIDE DEF says
<1>7. f # "eventbridge" => says(RequestOf(f, e))
  BY <1>1, <1>2, <1>3, <1>6, ProvidersAssumption
<1>8. "ordering" \in Advertised(f) /\ Named(e) # {} => RequestOf(f, e).key = Named(e)
  BY <1>4, <1>6, ProvidersAssumption
<1> QED BY <1>5, <1>6, <1>7, <1>8 DEF says

\* What holds of each publication holds of what it reports.
LEMMA PublishersSafe == RegistryInv /\ PublishersInv => PublicationsAreTrue
<1> SUFFICES ASSUME RegistryInv, PublishersInv, NEW c \in Clients, tried[c] # <<>>
             PROVE  LET a == Publisher(c)
                    IN  /\ IsPrefix(results[c], [i \in DOMAIN tried[c] |-> tried[c][i].id])
                        /\ a # "kafka" =>
                               /\ IsPrefix(Received(c), tried[c])
                               /\ Len(results[c]) <= Len(accepted[c])
                        /\ raised[c] = None => Len(results[c]) = Len(tried[c]) - Len(batch[c])
                        /\ \A i \in DOMAIN accepted[c] :
                               LET e == accepted[c][i].event
                                   says == accepted[c][i].request.body
                                               \union accepted[c][i].request.attributes
                               IN  /\ {"type", "source"} \subseteq says
                                   /\ a # "eventbridge" =>
                                          {"id"} \union Given("subject", e.subject)
                                              \union Given("correlation", e.correlation) \subseteq says
                        /\ "ordering" \in Advertised(a) =>
                               \A i, j \in DOMAIN accepted[c] :
                                   Named(accepted[c][i].event) = Named(accepted[c][j].event)
                                       /\ Named(accepted[c][i].event) # {}
                                   => accepted[c][i].request.key = accepted[c][j].request.key
                                          /\ accepted[c][i].request.key # {}
  BY DEF PublicationsAreTrue
<1>1. PICK f \in Brokers : OneBroker(f) /\ Progress(c, f)
  BY DEF PublishersInv
<1>2. Publisher(c) = f
  <2>1. held[c] \in DOMAIN made
    BY <1>1 DEF Progress, Stage, RegistryInv, RegistryTypes
  <2> QED BY <1>1, <2>1 DEF OneBroker, Publisher
<1>3. /\ tried[c] \in Seq(Messages) /\ results[c] \in Seq({e.id : e \in Messages})
      /\ accepted[c] \in Seq(Deliveries)
  BY DEF PublishersInv, PublisherTypes
<1>4. IsPrefix(results[c], [i \in DOMAIN tried[c] |-> tried[c][i].id])
  <2> DEFINE ids == [i \in DOMAIN tried[c] |-> tried[c][i].id]
             k == Len(results[c])
  <2>1. /\ ids \in Seq({e.id : e \in Messages}) /\ Len(ids) = Len(tried[c])
        /\ \A i \in 1 .. Len(ids) : ids[i] = tried[c][i].id
    BY <1>3
  <2>2. k \in Nat /\ k <= Len(ids) /\ \A i \in 1 .. k : results[c][i] = ids[i]
    BY <1>1, <1>3, <2>1 DEF Progress, Stage
  <2> HIDE DEF ids
  <2>3. /\ SubSeq(ids, 1, k) \in Seq({e.id : e \in Messages}) /\ Len(SubSeq(ids, 1, k)) = k
        /\ \A i \in 1 .. k : SubSeq(ids, 1, k)[i] = ids[i]
    BY <2>1, <2>2
  <2>4. /\ SubSeq(results[c], 1, k) \in Seq({e.id : e \in Messages})
        /\ Len(SubSeq(results[c], 1, k)) = k
        /\ \A i \in 1 .. k : SubSeq(results[c], 1, k)[i] = results[c][i]
    BY <1>3, <2>2
  <2>5. SubSeq(results[c], 1, k) = SubSeq(ids, 1, k)
    BY <2>2, <2>3, <2>4, SeqEqual
  <2> QED BY <2>2, <2>5 DEF IsPrefix, ids
<1>5. f # "kafka" => IsPrefix(Received(c), tried[c]) /\ Len(results[c]) <= Len(accepted[c])
  <2> SUFFICES ASSUME f # "kafka" PROVE IsPrefix(Received(c), tried[c])
    BY <1>1 DEF Progress, Stage
  <2> DEFINE r == Received(c)
             k == Len(accepted[c])
  <2>1. \A d \in Deliveries : d.event \in Messages
    BY DEF Deliveries, Delivery
  <2>2. /\ r \in Seq(Messages) /\ Len(r) = k /\ k \in Nat
        /\ \A i \in 1 .. k : r[i] = accepted[c][i].event
    <3>1. k \in Nat /\ DOMAIN accepted[c] = 1 .. k /\ \A i \in 1 .. k : accepted[c][i] \in Deliveries
      BY <1>3
    <3>2. r = [i \in 1 .. k |-> accepted[c][i].event]
      BY <3>1 DEF Received
    <3> HIDE DEF r, k
    <3> QED BY <2>1, <3>1, <3>2
  <2>3. k <= Len(tried[c]) /\ \A i \in 1 .. k : r[i] = tried[c][i]
    BY <1>1, <2>2 DEF Progress, Stage
  <2> HIDE DEF r, k
  <2>4. /\ SubSeq(r, 1, k) \in Seq(Messages) /\ Len(SubSeq(r, 1, k)) = k
        /\ \A i \in 1 .. k : SubSeq(r, 1, k)[i] = r[i]
    BY <2>2
  <2>5. /\ SubSeq(tried[c], 1, k) \in Seq(Messages) /\ Len(SubSeq(tried[c], 1, k)) = k
        /\ \A i \in 1 .. k : SubSeq(tried[c], 1, k)[i] = tried[c][i]
    BY <1>3, <2>2, <2>3
  <2>6. SubSeq(r, 1, k) = SubSeq(tried[c], 1, k)
    BY <2>3, <2>4, <2>5, SeqEqual
  <2> QED BY <2>2, <2>3, <2>6 DEF IsPrefix, r
<1>6. ASSUME NEW i \in DOMAIN accepted[c]
      PROVE  accepted[c][i].request = RequestOf(f, accepted[c][i].event)
  <2>1. i \in 1 .. Len(accepted[c])
    BY <1>3
  <2>2. PICK e \in Messages : accepted[c][i] = Delivery(f, e)
    BY <1>1, <2>1 DEF Progress, Stage
  <2>3. accepted[c][i].event = e /\ accepted[c][i].request = RequestOf(f, e)
    BY <2>2 DEF Delivery
  <2> QED BY <2>3
<1>7. raised[c] = None => Len(results[c]) = Len(tried[c]) - Len(batch[c])
  BY <1>1 DEF Progress, Stage
<1>8. ASSUME NEW i \in DOMAIN accepted[c]
      PROVE  LET e == accepted[c][i].event
                 says == accepted[c][i].request.body \union accepted[c][i].request.attributes
             IN  /\ {"type", "source"} \subseteq says
                 /\ f # "eventbridge" =>
                        {"id"} \union Given("subject", e.subject)
                            \union Given("correlation", e.correlation) \subseteq says
  <2> DEFINE e == accepted[c][i].event
             wire == accepted[c][i].request
  <2>1. wire = RequestOf(f, e)
    BY <1>6
  <2> HIDE DEF e, wire
  <2>2. /\ {"type", "source"} \subseteq wire.body \union wire.attributes
        /\ f # "eventbridge" =>
              {"id"} \union Given("subject", e.subject) \union Given("correlation", e.correlation)
                  \subseteq wire.body \union wire.attributes
    BY <2>1, RequestSays
  <2> QED BY <2>2 DEF e, wire
<1>9. ASSUME "ordering" \in Advertised(f), NEW i \in DOMAIN accepted[c], NEW j \in DOMAIN accepted[c],
             Named(accepted[c][i].event) = Named(accepted[c][j].event),
             Named(accepted[c][i].event) # {}
      PROVE  /\ accepted[c][i].request.key = accepted[c][j].request.key
             /\ accepted[c][i].request.key # {}
  <2> DEFINE e == accepted[c][i].event
             g == accepted[c][j].event
  <2>1. accepted[c][i].request = RequestOf(f, e) /\ accepted[c][j].request = RequestOf(f, g)
    BY <1>6
  <2>2. Named(e) = Named(g) /\ Named(e) # {} /\ Named(g) # {}
    BY <1>9
  <2> HIDE DEF e, g
  <2>3. RequestOf(f, e).key = Named(e) /\ RequestOf(f, g).key = Named(g)
    BY <1>9, <2>2, RequestSays
  <2> QED BY <2>1, <2>2, <2>3
<1> QED BY <1>2, <1>4, <1>5, <1>7, <1>8, <1>9

\* Whoever asks the registry meanwhile is given the same kind of publisher.
LEMMA SameBroker ==
    ASSUME RegistryInv, NEW f \in Brokers, OneBroker(f), NEW c \in Clients, Getitem(c)
    PROVE  OneBroker(f)' /\ \A d \in Clients : held[d] # 0 => held'[d] # 0
<1>1. /\ access \in [Clients -> AccessRecords] /\ held \in [Clients -> Nat]
      /\ made \in Seq(FactoryNames) /\ factories' = factories
      /\ AccessIsTrue(access[c])
  BY DEF RegistryInv, RegistryTypes, AccessInv, Getitem, Begin, Take, Build, Store, Return,
         ReturnRaises, Recover
<1>2. CASE \E a \in Aliases : Begin(c, a)
  <2>1. PICK a \in Aliases : Begin(c, a)
    BY <1>2
  <2>2. made' = made /\ held' = held
    BY <2>1 DEF Begin
  <2>3. \A d \in Clients : access'[d].at = "build" => access'[d] = access[d]
    BY <1>1, <2>1 DEF Begin, NoAccess
  <2> QED BY <1>1, <2>2, <2>3 DEF OneBroker
<1>3. CASE Take(c)
  <2>1. made' = made /\ held' = held
    BY <1>3 DEF Take
  <2>2. \A d \in Clients \ {c} : access'[d] = access[d]
    BY <1>1, <1>3 DEF Take
  <2>3. access'[c].at = "build" => access'[c].factory = f
    <3>1. access[c].alias \in Aliases
      BY <1>1, <1>3 DEF Take, AccessIsTrue
    <3>2. CASE factories[access[c].alias] = None
      BY <1>1, <1>3, <3>2 DEF Take, NoAccess
    <3>3. CASE factories[access[c].alias] # None
      <4>1. access'[c] = [access[c] EXCEPT !.at = "build", !.factory = factories[access[c].alias]]
        BY <1>1, <1>3, <3>3 DEF Take
      <4>2. access'[c].factory = factories[access[c].alias]
        BY <1>1, <4>1 DEF AccessRecords
      <4> QED BY <3>1, <3>3, <4>2 DEF OneBroker
    <3> QED BY <3>2, <3>3
  <2> QED BY <1>1, <2>1, <2>2, <2>3 DEF OneBroker
<1>4. CASE Build(c)
  <2>1. held' = held /\ access[c].at = "build"
    BY <1>4 DEF Build
  <2>2. \A d \in Clients : access'[d].at = "build" => access'[d] = access[d]
    BY <1>1, <1>4 DEF Build, NoAccess, AccessRecords
  <2>3. \A i \in DOMAIN made' : made'[i] = f
    <3>1. CASE made' = made
      BY <3>1 DEF OneBroker
    <3>2. CASE made' = Append(made, access[c].factory)
      <4>1. access[c].factory = f
        BY <2>1 DEF OneBroker
      <4>2. access[c].factory \in FactoryNames
        BY <1>1 DEF AccessRecords
      <4>3. \A i \in 1 .. Len(made) : made[i] = f
        BY <1>1 DEF OneBroker
      <4>4. /\ DOMAIN made' = 1 .. Len(made) + 1 /\ made'[Len(made) + 1] = f
            /\ \A i \in 1 .. Len(made) : made'[i] = made[i]
        BY <1>1, <3>2, <4>1, <4>2
      <4> QED BY <1>1, <4>3, <4>4
    <3> QED BY <1>4, <3>1, <3>2 DEF Build
  <2> QED BY <1>1, <2>1, <2>2, <2>3 DEF OneBroker
<1>5. CASE Store(c) \/ ReturnRaises(c) \/ Recover(c)
  <2>1. made' = made /\ held' = held
    BY <1>5 DEF Store, ReturnRaises, Recover
  <2>2. \A d \in Clients : access'[d].at = "build" => access'[d] = access[d]
    BY <1>1, <1>5 DEF Store, ReturnRaises, Recover, Goto, NoAccess, AccessRecords
  <2> QED BY <1>1, <2>1, <2>2 DEF OneBroker
<1>6. CASE Return(c)
  <2>1. made' = made /\ \A d \in Clients : held[d] # 0 => held'[d] # 0
    BY <1>1, <1>6 DEF Return
  <2>2. \A d \in Clients : access'[d].at = "build" => access'[d] = access[d]
    BY <1>1, <1>6 DEF Return, NoAccess
  <2> QED BY <1>1, <2>1, <2>2 DEF OneBroker
<1> QED BY <1>2, <1>3, <1>4, <1>5, <1>6 DEF Getitem

\* A publication moves on.
LEMMA PublishingStep ==
    ASSUME RegistryInv, PublisherTypes, NEW f \in Brokers, OneBroker(f), NEW c \in Clients,
           \A d \in Clients : Progress(d, f), Publishing(c), UNCHANGED registryVars
    PROVE  PublisherTypes' /\ \A d \in Clients : Progress(d, f)'
<1> DEFINE n == Len(tried[c]) - Len(batch[c])
<1>1. /\ tried[c] \in Seq(Messages) /\ batch[c] \in Seq(Messages) /\ accepted[c] \in Seq(Deliveries)
      /\ results[c] \in Seq({e.id : e \in Messages})
      /\ Progress(c, f) /\ held' = held /\ n \in Nat
      /\ Len(tried[c]) \in Nat /\ Len(batch[c]) \in Nat /\ Len(results[c]) \in Nat
      /\ Len(accepted[c]) \in Nat
  <2>1. /\ tried[c] \in Seq(Messages) /\ batch[c] \in Seq(Messages) /\ accepted[c] \in Seq(Deliveries)
        /\ results[c] \in Seq({e.id : e \in Messages})
    BY DEF PublisherTypes
  <2>2. /\ Len(tried[c]) \in Nat /\ Len(batch[c]) \in Nat /\ Len(results[c]) \in Nat
        /\ Len(accepted[c]) \in Nat
    BY <2>1
  <2>3. Progress(c, f) /\ held' = held
    BY DEF registryVars
  <2>4. Len(batch[c]) <= Len(tried[c])
    BY <2>3 DEF Progress, Stage
  <2> QED BY <2>1, <2>2, <2>3, <2>4
<1>2. ASSUME NEW b \in Seq(Messages), NEW r \in Seq({e.id : e \in Messages}),
             NEW x \in {None, "ProviderError", "ConfigurationError"}, NEW t \in Seq(Messages),
             NEW o \in Seq(Deliveries),
             batch' = [batch EXCEPT ![c] = b], results' = [results EXCEPT ![c] = r],
             raised' = [raised EXCEPT ![c] = x], tried' = [tried EXCEPT ![c] = t],
             accepted' = [accepted EXCEPT ![c] = o],
             t # <<>> => held[c] # 0, Stage(b, r, x, t, o, f)
      PROVE  PublisherTypes' /\ \A d \in Clients : Progress(d, f)'
  <2>1. PublisherTypes'
    BY <1>2 DEF PublisherTypes
  <2>2. /\ batch'[c] = b /\ results'[c] = r /\ raised'[c] = x /\ tried'[c] = t /\ accepted'[c] = o
        /\ \A d \in Clients \ {c} :
              /\ batch'[d] = batch[d] /\ results'[d] = results[d] /\ raised'[d] = raised[d]
              /\ tried'[d] = tried[d] /\ accepted'[d] = accepted[d]
    BY <1>2 DEF PublisherTypes
  <2>3. Progress(c, f)'
    BY <1>1, <1>2, <2>2 DEF Progress
  <2>4. ASSUME NEW d \in Clients \ {c} PROVE Progress(d, f)'
    <3>1. Progress(d, f) /\ held' = held
      BY <1>1
    <3> QED BY <2>2, <3>1 DEF Progress
  <2> QED BY <2>1, <2>3, <2>4
<1>3. <<>> \in Seq(Messages) /\ <<>> \in Seq(Deliveries) /\ <<>> \in Seq({e.id : e \in Messages})
  OBVIOUS
<1>4. ASSUME NEW k \in 1 .. MaxBatch, NEW events \in [1 .. k -> Messages], PublishBatch(c, events)
      PROVE  PublisherTypes' /\ \A d \in Clients : Progress(d, f)'
  <2>1. /\ tried[c] = <<>> /\ held[c] # 0
        /\ batch' = [batch EXCEPT ![c] = events] /\ tried' = [tried EXCEPT ![c] = events]
        /\ UNCHANGED <<results, raised, accepted>>
    BY <1>4 DEF PublishBatch
  <2>2. results[c] = <<>> /\ raised[c] = None /\ accepted[c] = <<>>
    BY <1>1, <2>1 DEF Progress, Stage
  <2>3. /\ results' = [results EXCEPT ![c] = <<>>] /\ raised' = [raised EXCEPT ![c] = None]
        /\ accepted' = [accepted EXCEPT ![c] = <<>>]
    BY <2>1, <2>2 DEF PublisherTypes
  <2>4. events \in Seq(Messages) /\ Len(events) = k /\ k \in Nat
    OBVIOUS
  <2>5. /\ Len(<<>>) = 0 /\ Len(events) - Len(events) = 0
        /\ \A i \in 1 .. Len(events) : events[i] = events[(Len(events) - Len(events)) + i]
    BY <2>4
  <2>6. Stage(events, <<>>, None, events, <<>>, f)
    BY <2>4, <2>5 DEF Stage
  <2> QED BY <1>2, <1>3, <2>1, <2>3, <2>4, <2>6
<1>5. CASE PublishEnds(c)
  <2>1. /\ batch[c] = <<>> /\ tried' = [tried EXCEPT ![c] = <<>>] /\ batch' = batch
        /\ results' = [results EXCEPT ![c] = <<>>] /\ raised' = [raised EXCEPT ![c] = None]
        /\ accepted' = [accepted EXCEPT ![c] = <<>>]
    BY <1>5 DEF PublishEnds
  <2>2. batch' = [batch EXCEPT ![c] = <<>>]
    BY <2>1 DEF PublisherTypes
  <2>3. Stage(<<>>, <<>>, None, <<>>, <<>>, f)
    BY DEF Stage
  <2> QED BY <1>2, <1>3, <2>1, <2>2, <2>3
<1>6. ASSUME batch[c] # <<>>
      PROVE  /\ n < Len(tried[c]) /\ Head(batch[c]) = tried[c][n + 1] /\ Head(batch[c]) \in Messages
             /\ tried[c] # <<>> /\ held[c] # 0 /\ raised[c] = None /\ Publisher(c) = f
             /\ Len(results[c]) = n
  <2>1. Len(batch[c]) >= 1 /\ Head(batch[c]) = batch[c][1] /\ Head(batch[c]) \in Messages
    BY <1>1, <1>6
  <2>2. Len(batch[c]) <= Len(tried[c]) /\ raised[c] = None
    BY <1>1, <1>6 DEF Progress, Stage
  <2>3. n < Len(tried[c]) /\ Len(tried[c]) # 0 /\ 1 \in 1 .. Len(batch[c])
    <3> DEFINE a == Len(tried[c])
               b == Len(batch[c])
    <3>1. a \in Nat /\ b \in Nat /\ b >= 1 /\ b <= a
      BY <1>1, <2>1, <2>2
    <3> HIDE DEF a, b
    <3>2. a - b < a /\ a # 0 /\ 1 \in 1 .. b
      BY <3>1
    <3> QED BY <3>2 DEF a, b
  <2>4. tried[c] # <<>> /\ held[c] # 0
    BY <1>1, <2>3 DEF Progress, Stage
  <2>5. batch[c][1] = tried[c][n + 1]
    BY <1>1, <2>3 DEF Progress, Stage
  <2>6. held[c] \in DOMAIN made
    BY <2>4 DEF RegistryInv, RegistryTypes
  <2>7. Publisher(c) = f
    BY <2>6 DEF OneBroker, Publisher
  <2>8. Len(results[c]) = n
    BY <1>1, <2>2 DEF Progress, Stage
  <2> QED BY <2>1, <2>2, <2>3, <2>4, <2>5, <2>7, <2>8
\* what the broker has after an answer
<1>7. ASSUME batch[c] # <<>>, NEW answer \in {"accepted", "undelivered", "failed"},
             accepted' = Accepted(c, answer)
      PROVE  \E o \in Seq(Deliveries) :
                 /\ accepted' = [accepted EXCEPT ![c] = o]
                 /\ \A i \in 1 .. Len(o) : \E e \in Messages : o[i] = Delivery(f, e)
                 /\ f # "kafka" =>
                        /\ Len(o) = IF answer = "accepted" THEN n + 1 ELSE n
                        /\ \A i \in 1 .. Len(o) : o[i].event = tried[c][i]
  <2> DEFINE e == Head(batch[c])
  <2>1. /\ \A i \in 1 .. Len(accepted[c]) : \E m \in Messages : accepted[c][i] = Delivery(f, m)
        /\ f # "kafka" =>
              /\ Len(accepted[c]) = n
              /\ \A i \in 1 .. Len(accepted[c]) : accepted[c][i].event = tried[c][i]
    BY <1>1, <1>6, <1>7 DEF Progress, Stage
  <2>2. e \in Messages /\ Publisher(c) = f /\ e = tried[c][n + 1]
    BY <1>6, <1>7
  <2> HIDE DEF e, n
  <2>3. CASE answer = "accepted"
    <3> DEFINE o == Append(accepted[c], Delivery(f, e))
    <3>1. Delivery(f, e) \in Deliveries /\ Delivery(f, e).event = e
      BY <2>2 DEF Deliveries, Delivery
    <3>2. /\ o \in Seq(Deliveries) /\ Len(o) = Len(accepted[c]) + 1
          /\ \A i \in 1 .. Len(accepted[c]) : o[i] = accepted[c][i]
          /\ o[Len(accepted[c]) + 1] = Delivery(f, e)
      BY <1>1, <3>1
    <3>3. accepted' = [accepted EXCEPT ![c] = o]
      BY <1>7, <2>2, <2>3 DEF Accepted, Delivery, PublisherTypes, e
    <3> HIDE DEF o
    <3>4. \A i \in 1 .. Len(o) : i \in 1 .. Len(accepted[c]) \/ i = Len(accepted[c]) + 1
      BY <1>1, <3>2
    <3>5. \A i \in 1 .. Len(o) : \E m \in Messages : o[i] = Delivery(f, m)
      BY <2>1, <2>2, <3>2, <3>4
    <3>6. f # "kafka" => Len(o) = n + 1 /\ \A i \in 1 .. Len(o) : o[i].event = tried[c][i]
      BY <2>1, <2>2, <3>1, <3>2, <3>4
    <3> QED BY <2>3, <3>2, <3>3, <3>5, <3>6
  <2>4. CASE answer # "accepted"
    <3>1. accepted' = accepted
      BY <1>7, <2>4 DEF Accepted
    <3>2. accepted' = [accepted EXCEPT ![c] = accepted[c]]
      BY <3>1 DEF PublisherTypes
    <3> QED BY <1>1, <2>1, <2>4, <3>2
  <2> QED BY <2>3, <2>4
<1>8. CASE PublishNext(c)
  <2>1. /\ batch[c] # <<>> /\ raised' = raised /\ tried' = tried
        /\ batch' = [batch EXCEPT ![c] = Tail(batch[c])]
        /\ results' = [results EXCEPT ![c] = Append(results[c], Head(batch[c]).id)]
    BY <1>8 DEF PublishNext, PublisherTypes
  <2>2. PICK answer \in ResultFrom(Publisher(c)) : accepted' = Accepted(c, answer)
    BY <1>8 DEF PublishNext
  <2>3. /\ answer \in {"accepted", "undelivered", "failed"}
        /\ f # "kafka" => answer = "accepted"
    BY <1>6, <2>1, <2>2 DEF ResultFrom, Answers
  <2>4. PICK o \in Seq(Deliveries) :
                 /\ accepted' = [accepted EXCEPT ![c] = o]
                 /\ \A i \in 1 .. Len(o) : \E e \in Messages : o[i] = Delivery(f, e)
                 /\ f # "kafka" =>
                        /\ Len(o) = n + 1
                        /\ \A i \in 1 .. Len(o) : o[i].event = tried[c][i]
    BY <1>7, <2>1, <2>2, <2>3
  <2> DEFINE b == Tail(batch[c])
             r == Append(results[c], Head(batch[c]).id)
  <2>5. raised' = [raised EXCEPT ![c] = None] /\ tried' = [tried EXCEPT ![c] = tried[c]]
    BY <1>6, <2>1 DEF PublisherTypes
  <2>6. /\ n < Len(tried[c]) /\ Head(batch[c]) = tried[c][n + 1] /\ Head(batch[c]) \in Messages
        /\ tried[c] # <<>> /\ held[c] # 0 /\ Len(results[c]) = n
    BY <1>6, <2>1
  <2>7. /\ \A i \in 1 .. Len(batch[c]) : batch[c][i] = tried[c][n + i]
        /\ \A i \in 1 .. n : results[c][i] = tried[c][i].id
    BY <1>1, <2>6 DEF Progress, Stage
  <2>8. /\ b \in Seq(Messages) /\ Len(b) = Len(batch[c]) - 1
        /\ \A i \in 1 .. Len(b) : b[i] = batch[c][i + 1]
    BY <1>1, <2>1
  <2>9. /\ r \in Seq({e.id : e \in Messages}) /\ Len(r) = n + 1
        /\ \A i \in 1 .. n : r[i] = results[c][i]
        /\ r[n + 1] = tried[c][n + 1].id
    <3>1. Head(batch[c]).id \in {e.id : e \in Messages}
      BY <2>6
    <3> HIDE DEF n
    <3> QED BY <1>1, <2>6, <3>1
  <2>10. batch' = [batch EXCEPT ![c] = b] /\ results' = [results EXCEPT ![c] = r]
    BY <2>1
  <2> HIDE DEF b, r
  <2>11. Len(tried[c]) - Len(b) = n + 1 /\ Len(b) <= Len(tried[c]) /\ n + 1 <= Len(tried[c])
    BY <1>1, <2>6, <2>8
  <2>12. \A i \in 1 .. Len(b) : b[i] = tried[c][(Len(tried[c]) - Len(b)) + i]
    <3> SUFFICES ASSUME NEW i \in 1 .. Len(b) PROVE b[i] = tried[c][(Len(tried[c]) - Len(b)) + i]
      OBVIOUS
    <3>1. i + 1 \in 1 .. Len(batch[c]) /\ n + (i + 1) = (Len(tried[c]) - Len(b)) + i
      <4> DEFINE p == Len(b)
                 q == Len(batch[c])
                 d == Len(tried[c]) - p
      <4>1. p \in Nat /\ q \in Nat /\ p = q - 1 /\ n \in Nat /\ d = n + 1 /\ i \in 1 .. p
        BY <1>1, <2>8, <2>11
      <4> HIDE DEF n, p, q, d
      <4>2. i + 1 \in 1 .. q /\ n + (i + 1) = d + i
        BY <4>1
      <4> QED BY <4>2 DEF p, q, d
    <3> QED BY <2>7, <2>8, <3>1
  <2>13. \A i \in 1 .. Len(r) : r[i] = tried[c][i].id
    <3> HIDE DEF n
    <3>1. \A i \in 1 .. Len(r) : i \in 1 .. n \/ i = n + 1
      BY <1>1, <2>9
    <3> QED BY <2>7, <2>9, <3>1
  <2> HIDE DEF n
  <2>14. f # "kafka" =>
             /\ Len(r) <= Len(o) /\ Len(o) <= Len(tried[c])
             /\ Len(o) = Len(r)
             /\ \A i \in 1 .. Len(o) : o[i].event = tried[c][i]
    BY <1>1, <2>4, <2>9, <2>11
  <2>15. Stage(b, r, None, tried[c], o, f)
    BY <1>1, <2>4, <2>6, <2>9, <2>11, <2>12, <2>13, <2>14 DEF Stage
  <2> QED BY <1>1, <1>2, <2>4, <2>5, <2>6, <2>8, <2>9, <2>10, <2>15
<1>9. CASE PublishRaises(c)
  <2>1. /\ batch[c] # <<>> /\ tried' = tried
        /\ batch' = [batch EXCEPT ![c] = <<>>] /\ results' = [results EXCEPT ![c] = <<>>]
    BY <1>9 DEF PublishRaises
  <2>2. PICK x \in {"ProviderError", "ConfigurationError"} : raised' = [raised EXCEPT ![c] = x]
    BY <1>9 DEF PublishRaises
  <2>3. \E answer \in {"accepted", "failed"} : accepted' = Accepted(c, answer)
    BY <1>9 DEF PublishRaises, Accepted
  <2>4. PICK o \in Seq(Deliveries) :
                 /\ accepted' = [accepted EXCEPT ![c] = o]
                 /\ \A i \in 1 .. Len(o) : \E e \in Messages : o[i] = Delivery(f, e)
                 /\ f # "kafka" =>
                        /\ Len(o) \in {n, n + 1}
                        /\ \A i \in 1 .. Len(o) : o[i].event = tried[c][i]
    <3>1. PICK answer \in {"accepted", "failed"} : accepted' = Accepted(c, answer)
      BY <2>3
    <3> QED BY <1>7, <2>1, <3>1
  <2>5. /\ tried' = [tried EXCEPT ![c] = tried[c]]
        /\ n < Len(tried[c]) /\ tried[c] # <<>> /\ held[c] # 0
    BY <1>6, <2>1 DEF PublisherTypes
  <2> HIDE DEF n
  <2>6. /\ Len(<<>>) = 0 /\ x # None /\ 0 <= Len(tried[c]) /\ 0 <= Len(o)
        /\ f # "kafka" => Len(o) <= Len(tried[c])
    BY <1>1, <2>2, <2>4, <2>5 DEF None
  <2>7. Stage(<<>>, <<>>, x, tried[c], o, f)
    BY <2>4, <2>5, <2>6 DEF Stage
  <2>8. /\ batch' = [batch EXCEPT ![c] = <<>>] /\ results' = [results EXCEPT ![c] = <<>>]
        /\ raised' = [raised EXCEPT ![c] = x] /\ tried' = [tried EXCEPT ![c] = tried[c]]
        /\ accepted' = [accepted EXCEPT ![c] = o] /\ held[c] # 0
    BY <2>1, <2>2, <2>4, <2>5
  <2>9. tried[c] \in Seq(Messages)
    BY <1>1
  <2> QED BY <1>2, <1>3, <2>7, <2>8, <2>9
<1> QED BY <1>4, <1>5, <1>8, <1>9 DEF Publishing

-----------------------------------------------------------------------------
(* The registry of functions. *)

\* What is registered has its own name or one that was chosen for it, and what
\* was submitted was a reference.
FunctionsInv ==
    /\ \A n \in DOMAIN functions :
           functions[n] \in Callables /\ (functions[n].name = n \/ n \in Names)
    /\ \A t \in task :
           \/ t.asked \in Callables /\ t.name \in FromCallable(t.asked)
           \/ t.asked \in DOMAIN Program \union Names /\ t.name \in Parse(t.asked)

LEMMA FunctionsStart == FunctionsInit => FunctionsInv
<1>1. DOMAIN <<>> = {}
  OBVIOUS
<1> QED BY <1>1 DEF FunctionsInit, FunctionsInv

LEMMA FunctionsStep == FunctionsInv /\ [Naming]_functionVars => FunctionsInv'
<1> SUFFICES ASSUME FunctionsInv, [Naming]_functionVars PROVE FunctionsInv'
  OBVIOUS
<1>1. CASE UNCHANGED functionVars
  BY <1>1 DEF FunctionsInv, functionVars
<1>2. ASSUME NEW n, NEW f \in Callables, Set(n, f), f.name = n \/ n \in Names
      PROVE  \A x \in DOMAIN functions' :
                 functions'[x] \in Callables /\ (functions'[x].name = x \/ x \in Names)
  BY <1>2 DEF Set, FunctionsInv
<1>3. ASSUME NEW f \in Callables, SubmitCallable(f) PROVE FunctionsInv'
  <2>1. PICK n \in FromCallable(f) :
            /\ IF ~shared \/ n \in DOMAIN functions THEN UNCHANGED functions ELSE Set(n, f)
            /\ task' = {[asked |-> f, name |-> n]}
    BY <1>3 DEF SubmitCallable
  <2>2. n = f.name
    BY <2>1 DEF FromCallable
  <2>3. \A x \in DOMAIN functions' :
            functions'[x] \in Callables /\ (functions'[x].name = x \/ x \in Names)
    <3>1. CASE UNCHANGED functions
      BY <3>1 DEF FunctionsInv
    <3>2. CASE Set(n, f)
      BY <1>2, <2>2, <3>2
    <3> QED BY <2>1, <3>1, <3>2
  <2>4. \A t \in task' : t.asked \in Callables /\ t.name \in FromCallable(t.asked)
    BY <2>1
  <2> QED BY <2>3, <2>4 DEF FunctionsInv
<1>4. ASSUME NEW f \in Callables, NEW replace \in BOOLEAN, RegisterFunction(f, replace)
      PROVE  FunctionsInv'
  <2>1. PICK n \in FromCallable(f) \union Names : Set(n, f) /\ UNCHANGED task
    BY <1>4 DEF RegisterFunction
  <2>2. f.name = n \/ n \in Names
    BY <2>1 DEF FromCallable
  <2> QED BY <1>2, <2>1, <2>2 DEF FunctionsInv
<1>5. ASSUME NEW given \in DOMAIN Program \union Names, SubmitName(given) PROVE FunctionsInv'
  BY <1>5 DEF SubmitName, FunctionsInv
<1>6. ASSUME NEW n, UnregisterFunction(n) PROVE FunctionsInv'
  BY <1>6 DEF UnregisterFunction, FunctionsInv, Restrict
<1> QED BY <1>1, <1>3, <1>4, <1>5, <1>6 DEF Naming

\* A name that parses, and that nobody registered, finds what the program has.
LEMMA ImportFinds ==
    ASSUME NEW n, n \notin DOMAIN functions, Permitted(n), Parse(n) = {n}
    PROVE  Resolve(n) = {Program[m] : m \in {n} \intersect DOMAIN Program}
BY DEF Resolve, Import

\* A reference that was parsed is parsed to itself.
LEMMA ParsedOnce ==
    ASSUME NEW given, given \in [parts : Seq(STRING), split : 0 .. Len(given.parts)],
           NEW n \in Parse(given)
    PROVE  /\ n \in [parts : Seq(STRING), split : Nat \ {0}] /\ n.parts = given.parts
           /\ n.split = IF given.split = 0 THEN Len(given.parts) - 1 ELSE given.split
           /\ Parse(n) = {n}
<1> DEFINE ref == IF given.split = 0 THEN [given EXCEPT !.split = Len(given.parts) - 1] ELSE given
<1>1. n = ref /\ Module(n) # <<>> /\ QualName(n) # <<>>
  BY DEF Parse
<1>2. /\ given.parts \in Seq(STRING) /\ Len(given.parts) \in Nat
      /\ given.split \in 0 .. Len(given.parts)
  OBVIOUS
<1>3. /\ ref.parts = given.parts
      /\ ref.split = IF given.split = 0 THEN Len(given.parts) - 1 ELSE given.split
      /\ ref.split \in Int
  BY <1>2
<1>4. ref \in [parts : Seq(STRING), split : Int]
  BY <1>2, <1>3
<1>5. n.split > 0
  <2>1. SubSeq(n.parts, 1, n.split) # <<>>
    BY <1>1 DEF Module
  <2>2. n.parts \in Seq(STRING) /\ n.split \in Int
    BY <1>1, <1>2, <1>3
  <2> QED BY <2>1, <2>2
<1>6. Parse(n) = {n}
  BY <1>1, <1>3, <1>5 DEF Parse
<1> QED BY <1>1, <1>2, <1>3, <1>4, <1>5, <1>6

LEMMA FunctionsSafe == FunctionsInv => NamesLeadBack
<1> SUFFICES ASSUME FunctionsInv, NEW t \in task
             PROVE  /\ t.asked \in Callables =>
                           LET f == t.asked
                           IN  /\ f.self # "state"
                               /\ Permitted(f.name) /\ t.name \notin DOMAIN functions =>
                                      Resolve(t.name) = {f} \/ Misnamed(f)
                               /\ t.name \in DOMAIN functions =>
                                      f.name \in Names \/ \E g \in Resolve(t.name) : g.name = f.name
                    /\ t.asked \notin Callables /\ Permitted(t.name) /\ t.name \notin DOMAIN functions =>
                           \A n \in DOMAIN Program :
                               /\ n.parts = t.asked.parts
                               /\ \/ n.split = t.asked.split
                                  \/ t.asked.split = 0 /\ Len(QualName(n)) = 1
                               => Resolve(t.name) = {Program[n]}
  BY DEF NamesLeadBack
<1>1. ASSUME t.asked \in Callables
      PROVE  /\ t.asked.self # "state" /\ t.name = t.asked.name /\ t.name \in FromCallable(t.asked)
             /\ Parse(t.name) = {t.name}
  <2>1. t.name \in FromCallable(t.asked)
    BY <1>1, ProgramAssumption DEF FunctionsInv
  <2> QED BY <1>1, <2>1, ProgramAssumption DEF FromCallable
<1>2. ASSUME t.asked \in Callables, Permitted(t.asked.name), t.name \notin DOMAIN functions
      PROVE  Resolve(t.name) = {t.asked} \/ Misnamed(t.asked)
  <2>1. t.name = t.asked.name /\ Parse(t.name) = {t.name} /\ t.name \in FromCallable(t.asked)
    BY <1>1, <1>2
  <2>2. Resolve(t.name) = {Program[m] : m \in {t.name} \intersect DOMAIN Program}
    BY <1>2, <2>1, ImportFinds
  <2>3. CASE "<lambda>" \in ToSet(QualName(t.asked.name))
    BY <2>3 DEF Misnamed
  <2>4. CASE "<lambda>" \notin ToSet(QualName(t.asked.name))
    <3>1. /\ t.asked.self # "state" /\ Module(t.name) # <<"__main__">>
          /\ ToSet(QualName(t.name)) \intersect {"<locals>", "<lambda>"} = {}
      BY <2>1, <2>4 DEF FromCallable
    <3>2. t.name \in DOMAIN Program /\ Program[t.name].name = t.name
      BY <1>2, <2>1, <3>1, ProgramAssumption
    <3>3. Resolve(t.name) = {Program[t.name]}
      BY <2>2, <3>2
    <3> QED BY <2>1, <3>2, <3>3 DEF Misnamed
  <2> QED BY <2>3, <2>4
<1>3. ASSUME t.asked \in Callables, t.name \in DOMAIN functions
      PROVE  t.asked.name \in Names \/ \E g \in Resolve(t.name) : g.name = t.asked.name
  BY <1>1, <1>3 DEF Resolve, FunctionsInv
<1>4. ASSUME t.asked \notin Callables, Permitted(t.name), t.name \notin DOMAIN functions,
             NEW n \in DOMAIN Program, n.parts = t.asked.parts,
             n.split = t.asked.split \/ (t.asked.split = 0 /\ Len(QualName(n)) = 1)
      PROVE  Resolve(t.name) = {Program[n]}
  <2>1. t.asked \in DOMAIN Program \union Names /\ t.name \in Parse(t.asked)
    BY <1>4 DEF FunctionsInv
  <2>2. t.asked \in [parts : Seq(STRING), split : 0 .. Len(t.asked.parts)]
    BY <2>1, ProgramAssumption
  <2>3. /\ t.name \in [parts : Seq(STRING), split : Nat \ {0}] /\ t.name.parts = t.asked.parts
        /\ t.name.split = IF t.asked.split = 0 THEN Len(t.asked.parts) - 1 ELSE t.asked.split
        /\ Parse(t.name) = {t.name}
    BY <2>1, <2>2, ParsedOnce
  <2>4. /\ n \in [parts : Seq(STRING), split : 0 .. Len(n.parts)]
        /\ Parse(n) = {n}
    BY ProgramAssumption
  <2>5. n.split \in Nat \ {0}
    <3>1. n \in Parse(n)
      BY <2>4
    <3> QED BY <2>4, <3>1, ParsedOnce
  <2>6. n.split = t.name.split
    <3>1. CASE n.split = t.asked.split
      BY <2>3, <2>5, <3>1
    <3>2. CASE t.asked.split = 0 /\ Len(QualName(n)) = 1
      <4>1. Len(SubSeq(n.parts, n.split + 1, Len(n.parts))) = 1
        BY <3>2 DEF QualName
      <4>2. n.split + 1 = Len(n.parts)
        BY <2>4, <2>5, <4>1
      <4> QED BY <1>4, <2>3, <2>4, <2>5, <3>2, <4>2
    <3> QED BY <1>4, <3>1, <3>2
  <2>7. n = t.name
    BY <1>4, <2>3, <2>4, <2>6
  <2>8. Resolve(t.name) = {Program[m] : m \in {t.name} \intersect DOMAIN Program}
    BY <1>4, <2>3, ImportFinds
  <2> QED BY <2>7, <2>8
<1> QED BY <1>1, <1>2, <1>3, <1>4

-----------------------------------------------------------------------------
(* The cloud schedulers. *)

Adapters == {"aws", "gcp", "kubernetes"}

\* what every definition has a value of
WellFormed(d) ==
    /\ adapter = "aws" => {"State", "ScheduleExpression"} \subseteq DOMAIN d
    /\ adapter = "gcp" =>
           {"state", "schedule", "time_zone", "target"} \subseteq DOMAIN d /\ "timeZone" \notin DOMAIN d
    /\ adapter = "kubernetes" => {"suspend", "schedule", "env"} \subseteq DOMAIN d

\* The engine would do with definition d what schedule s says.
Honest(d, s) ==
    /\ Agrees(Fires(d), s.trigger)
    /\ adapter = "gcp" => d.target = s.target
    /\ adapter = "kubernetes" => s.env \subseteq d.env

StatusOf(paused) == IF paused THEN "paused" ELSE "enabled"

EngineInv ==
    /\ adapter \in Adapters
    /\ DOMAIN engine = DOMAIN wanted
    /\ \A n \in DOMAIN engine :
           /\ WellFormed(engine[n])
           /\ Status(engine[n]) = StatusOf(wanted[n].paused)
           /\ n \notin torn => Honest(engine[n], wanted[n].schedule)

\* What is going to be written can be expressed, and what was fetched is what
\* was last written, unless somebody has written since.
RequestInv ==
    /\ DOMAIN request = Users
    /\ \A u \in Users :
           LET r == request[u]
           IN  /\ DOMAIN r = {"op", "name", "schedule", "definition", "late"}
               /\ r.op \in {"create", "update"} =>
                      r.schedule \in Schedules /\ r.schedule.trigger.kind \in ScheduleCapabilities
               /\ r.definition # <<>> =>
                      /\ WellFormed(r.definition)
                      /\ ~ r.late /\ r.name \in DOMAIN wanted \ torn =>
                             Honest(r.definition, wanted[r.name].schedule)

HandleInv ==
    /\ DOMAIN told = Users
    /\ \A u \in Users : told[u] # NoHandle =>
           told[u].name \in DOMAIN engine /\ told[u].status = Status(engine[told[u].name])

SchedulersInv == EngineInv /\ RequestInv /\ HandleInv

\* Minutes are off by half of one at most.
LEMMA RoundedIsNear ==
    ASSUME NEW n \in Nat
    PROVE  Rounded(n, 60) \in Nat /\ 60 * Rounded(n, 60) >= n - 30 /\ 60 * Rounded(n, 60) <= n + 30
BY DEF Rounded

\* What an adapter makes of a schedule fires as the schedule says.
LEMMA ExpressionAgrees ==
    ASSUME adapter = "aws", NEW s \in Schedules, NEW d,
           \A key \in DOMAIN BuildScheduleExpression(s.trigger) :
               key \in DOMAIN d /\ d[key] = BuildScheduleExpression(s.trigger)[key],
           "ScheduleExpressionTimezone" \in DOMAIN d =>
               "ScheduleExpressionTimezone" \in DOMAIN BuildScheduleExpression(s.trigger)
    PROVE  "ScheduleExpression" \in DOMAIN d /\ Agrees(Fires(d), s.trigger)
<1> DEFINE t == s.trigger
           e == BuildScheduleExpression(t)
<1>1. /\ t.kind \in {"cron", "interval", "oneshot"}
      /\ t.kind = "interval" => t.seconds \in Nat \ {0}
  BY SchedulesAssumption
<1>2. CASE t.kind = "cron"
  <2> DEFINE first == [ScheduleExpression |-> <<"cron", t.expression>>]
             second == Optional(t.zone # "", [ScheduleExpressionTimezone |-> t.zone])
  <2>1. e = Over(first, second)
    BY <1>2 DEF BuildScheduleExpression
  <2>2. /\ DOMAIN first = {"ScheduleExpression"}
        /\ first["ScheduleExpression"] = <<"cron", t.expression>>
    OBVIOUS
  <2>3. /\ t.zone = "" => DOMAIN second = {}
        /\ t.zone # "" => /\ DOMAIN second = {"ScheduleExpressionTimezone"}
                          /\ second.ScheduleExpressionTimezone = t.zone
    <3>1. DOMAIN <<>> = {}
      OBVIOUS
    <3>2. CASE t.zone = ""
      BY <3>1, <3>2 DEF Optional
    <3>3. CASE t.zone # ""
      <4>1. second = [ScheduleExpressionTimezone |-> t.zone]
        BY <3>3 DEF Optional
      <4> HIDE DEF second
      <4>2. DOMAIN second = {"ScheduleExpressionTimezone"}
        BY <4>1
      <4>3. second.ScheduleExpressionTimezone = t.zone
        BY <4>1
      <4> QED BY <3>3, <4>2, <4>3
    <3> QED BY <3>2, <3>3
  <2> HIDE DEF e, first, second
  <2>4. /\ "ScheduleExpression" \in DOMAIN e /\ e["ScheduleExpression"] = <<"cron", t.expression>>
        /\ t.zone = "" => "ScheduleExpressionTimezone" \notin DOMAIN e
        /\ t.zone # "" => /\ "ScheduleExpressionTimezone" \in DOMAIN e
                          /\ e["ScheduleExpressionTimezone"] = t.zone
    <3>1. /\ DOMAIN e = DOMAIN first \union DOMAIN second
          /\ \A key \in DOMAIN first : e[key] = first[key]
          /\ \A key \in DOMAIN second \ DOMAIN first : e[key] = second[key]
      BY <2>1 DEF Over
    <3> QED BY <2>2, <2>3, <3>1
  <2>5. /\ "ScheduleExpression" \in DOMAIN d /\ d.ScheduleExpression = <<"cron", t.expression>>
        /\ t.zone = "" => "ScheduleExpressionTimezone" \notin DOMAIN d
        /\ t.zone # "" => /\ "ScheduleExpressionTimezone" \in DOMAIN d
                          /\ d.ScheduleExpressionTimezone = t.zone
    BY <2>4 DEF e
  <2>6. Fires(d).how = "cron" /\ Fires(d).when = t.expression /\ Fires(d).zone = Utc(t.zone)
    <3>1. d.ScheduleExpression[1] = "cron" /\ d.ScheduleExpression[2] = t.expression
      <4>1. d.ScheduleExpression = <<"cron", t.expression>>
        BY <2>5
      <4> QED BY <4>1
    <3>2. CASE t.zone = ""
      BY <2>5, <3>1, <3>2 DEF Fires, Utc
    <3>3. CASE t.zone # ""
      BY <2>5, <3>1, <3>3 DEF Fires, Utc
    <3> QED BY <3>2, <3>3
  <2> QED BY <1>2, <2>5, <2>6 DEF Agrees
<1>3. CASE t.kind = "interval"
  <2> DEFINE minutes == Rounded(t.seconds, 60)
             rate == IF minutes < 1 THEN 1 ELSE minutes
  <2>1. e = [ScheduleExpression |-> <<"rate", rate>>]
    BY <1>3 DEF BuildScheduleExpression
  <2>2. /\ minutes \in Nat /\ t.seconds \in Nat
        /\ 60 * minutes >= t.seconds - 30 /\ 60 * minutes <= t.seconds + 30
    BY <1>1, <1>3, RoundedIsNear
  <2> HIDE DEF minutes
  <2>3. 60 * rate >= t.seconds - 30 /\ (60 * rate <= t.seconds + 30 \/ rate = 1)
    BY <2>2
  <2> HIDE DEF rate
  <2>4. "ScheduleExpression" \in DOMAIN d /\ d.ScheduleExpression = <<"rate", rate>>
    BY <2>1
  <2>5. Fires(d).how = "rate" /\ Fires(d).when = rate
    BY <2>4 DEF Fires
  <2> QED BY <1>3, <2>3, <2>4, <2>5 DEF Agrees
<1>4. CASE t.kind = "oneshot"
  <2>1. e = [ScheduleExpression |-> <<"at", t.at>>]
    BY <1>4 DEF BuildScheduleExpression
  <2>2. "ScheduleExpression" \in DOMAIN d /\ d.ScheduleExpression = <<"at", t.at>>
    BY <2>1
  <2>3. Fires(d).how = "at" /\ Fires(d).when = t.at
    BY <2>2 DEF Fires
  <2> QED BY <1>4, <2>2, <2>3 DEF Agrees
<1> QED BY <1>1, <1>2, <1>3, <1>4

\* A schedule that is created or replaces another.
LEMMA AwsWrites ==
    ASSUME adapter = "aws", NEW s \in Schedules
    PROVE  /\ WellFormed(Params(s)) /\ Honest(Params(s), s)
           /\ Status(Params(s)) = StatusOf(~ s.enabled)
<1> DEFINE first == [Target |-> "arn", State |-> IF s.enabled THEN "ENABLED" ELSE "DISABLED"]
           e == BuildScheduleExpression(s.trigger)
           d == Params(s)
<1>1. d = Over(first, e)
  BY DEF Params
<1>2. /\ DOMAIN first = {"Target", "State"}
      /\ first.State = IF s.enabled THEN "ENABLED" ELSE "DISABLED"
  OBVIOUS
<1>3. DOMAIN e \subseteq {"ScheduleExpression", "ScheduleExpressionTimezone"}
  <2> DEFINE t == s.trigger
  <2>1. t.kind \in {"cron", "interval", "oneshot"}
    BY SchedulesAssumption
  <2>2. CASE t.kind = "cron"
    <3> DEFINE f == [ScheduleExpression |-> <<"cron", t.expression>>]
               g == Optional(t.zone # "", [ScheduleExpressionTimezone |-> t.zone])
    <3>1. e = Over(f, g)
      BY <2>2 DEF BuildScheduleExpression
    <3>2. DOMAIN f = {"ScheduleExpression"}
      OBVIOUS
    <3>3. DOMAIN g \subseteq {"ScheduleExpressionTimezone"}
      <4>1. /\ DOMAIN <<>> = {}
            /\ DOMAIN [ScheduleExpressionTimezone |-> t.zone] = {"ScheduleExpressionTimezone"}
        OBVIOUS
      <4>2. \/ g = <<>>
            \/ g = [ScheduleExpressionTimezone |-> t.zone]
        BY DEF Optional
      <4> HIDE DEF g
      <4> QED BY <4>1, <4>2
    <3> HIDE DEF e, f, g
    <3>4. DOMAIN e = DOMAIN f \union DOMAIN g
      BY <3>1 DEF Over
    <3> QED BY <3>2, <3>3, <3>4
  <2>3. CASE t.kind = "interval"
    <3>1. \E x : e = [ScheduleExpression |-> x]
      BY <2>3 DEF BuildScheduleExpression
    <3> HIDE DEF e
    <3> QED BY <3>1
  <2>4. CASE t.kind = "oneshot"
    <3>1. \E x : e = [ScheduleExpression |-> x]
      BY <2>4 DEF BuildScheduleExpression
    <3> HIDE DEF e
    <3> QED BY <3>1
  <2> QED BY <2>1, <2>2, <2>3, <2>4
<1> HIDE DEF first, e, d
<1>4. /\ DOMAIN d = DOMAIN first \union DOMAIN e
      /\ \A key \in DOMAIN first : d[key] = first[key]
      /\ \A key \in DOMAIN e \ DOMAIN first : d[key] = e[key]
  BY <1>1 DEF Over
<1>5. \A key \in DOMAIN e : key \in DOMAIN d /\ d[key] = e[key]
  BY <1>2, <1>3, <1>4
<1>6. "ScheduleExpressionTimezone" \in DOMAIN d => "ScheduleExpressionTimezone" \in DOMAIN e
  BY <1>2, <1>4
<1>7. "ScheduleExpression" \in DOMAIN d /\ Agrees(Fires(d), s.trigger)
  BY <1>5, <1>6, ExpressionAgrees DEF e
<1>8. /\ "State" \in DOMAIN d
      /\ d.State = IF s.enabled THEN "ENABLED" ELSE "DISABLED"
  BY <1>2, <1>4
<1>9. Status(d) = StatusOf(~ s.enabled)
  <2>1. s.enabled \in BOOLEAN
    BY SchedulesAssumption
  <2> QED BY <1>8, <2>1 DEF Status, StatusOf
<1>10. WellFormed(d)
  BY <1>7, <1>8 DEF WellFormed
<1> QED BY <1>7, <1>9, <1>10 DEF Honest, d

LEMMA GcpWrites ==
    ASSUME adapter = "gcp", NEW s \in Schedules, s.trigger.kind = "cron", NEW old,
           "state" \in DOMAIN old, "timeZone" \notin DOMAIN old
    PROVE  LET d == Over(BuildJob(s), old)
           IN  WellFormed(d) /\ Honest(d, s) /\ Status(d) = Status(old)
<1> DEFINE job == BuildJob(s)
           d == Over(job, old)
<1>1. /\ DOMAIN job = {"schedule", "time_zone", "target"}
      /\ job.schedule = s.trigger.expression /\ job.time_zone = s.trigger.zone /\ job.target = s.target
  BY DEF BuildJob
<1> HIDE DEF job
<1>2. /\ DOMAIN d = DOMAIN job \union DOMAIN old
      /\ \A key \in DOMAIN job : d[key] = job[key]
      /\ \A key \in DOMAIN old \ DOMAIN job : d[key] = old[key]
  BY DEF Over
<1> HIDE DEF d
<1>3. /\ {"state", "schedule", "time_zone", "target"} \subseteq DOMAIN d
      /\ d.schedule = s.trigger.expression /\ d.time_zone = s.trigger.zone /\ d.target = s.target
      /\ d.state = old.state /\ "timeZone" \notin DOMAIN d
  BY <1>1, <1>2
<1>4. WellFormed(d) /\ Status(d) = Status(old)
  BY <1>3 DEF WellFormed, Status
<1>5. Honest(d, s)
  BY <1>3 DEF Honest, Fires, Agrees, Utc
<1> QED BY <1>4, <1>5 DEF d, job

LEMMA KubernetesWrites ==
    ASSUME adapter = "kubernetes", NEW s \in Schedules, s.trigger.kind = "cron"
    PROVE  /\ WellFormed(CronJob(s)) /\ Honest(CronJob(s), s)
           /\ Status(CronJob(s)) = StatusOf(~ s.enabled)
           /\ \A old : LET d == Over([CronJob(s) EXCEPT !.env = @ \union old.env], old)
                       IN  /\ WellFormed(d) /\ Honest(d, s)
                           /\ Status(d) = StatusOf(~ s.enabled)
<1> DEFINE first == [schedule |-> s.trigger.expression, suspend |-> ~ s.enabled, env |-> s.env]
           second == Optional(Utc(s.trigger.zone) # "UTC", [timeZone |-> s.trigger.zone])
           job == CronJob(s)
\* what CronJob(s), and more, has
<1> DEFINE Says(d) == /\ {"schedule", "suspend", "env"} \subseteq DOMAIN d
                      /\ d.schedule = s.trigger.expression /\ d.suspend = ~ s.enabled
                      /\ s.env \subseteq d.env
                      /\ Utc(s.trigger.zone) # "UTC" =>
                             "timeZone" \in DOMAIN d /\ d.timeZone = s.trigger.zone
<1>1. job = Over(first, second)
  BY DEF CronJob
<1>2. /\ DOMAIN first = {"schedule", "suspend", "env"}
      /\ first.schedule = s.trigger.expression /\ first.suspend = ~ s.enabled /\ first.env = s.env
  OBVIOUS
<1>3. Utc(s.trigger.zone) # "UTC" => DOMAIN second = {"timeZone"} /\ second.timeZone = s.trigger.zone
  <2> SUFFICES ASSUME Utc(s.trigger.zone) # "UTC"
               PROVE  DOMAIN second = {"timeZone"} /\ second.timeZone = s.trigger.zone
    OBVIOUS
  <2>1. second = [timeZone |-> s.trigger.zone]
    BY DEF Optional
  <2> HIDE DEF second
  <2>2. DOMAIN second = {"timeZone"}
    BY <2>1
  <2>3. second.timeZone = s.trigger.zone
    BY <2>1
  <2> QED BY <2>2, <2>3
<1> HIDE DEF first, second, job
<1>4. /\ DOMAIN job = DOMAIN first \union DOMAIN second
      /\ \A key \in DOMAIN first : job[key] = first[key]
      /\ \A key \in DOMAIN second \ DOMAIN first : job[key] = second[key]
  BY <1>1 DEF Over
<1>5. Says(job) /\ job.env = s.env
  BY <1>2, <1>3, <1>4
<1>6. ASSUME NEW d, Says(d)
      PROVE  WellFormed(d) /\ Honest(d, s) /\ Status(d) = StatusOf(~ s.enabled)
  <2>1. WellFormed(d)
    BY <1>6 DEF WellFormed
  <2>2. Agrees(Fires(d), s.trigger)
    <3>1. /\ Fires(d).how = "cron" /\ Fires(d).when = s.trigger.expression
          /\ "timeZone" \in DOMAIN d => Fires(d).zone = d.timeZone
      BY <1>6 DEF Fires
    <3>2. Utc(s.trigger.zone) # "UTC" => Fires(d).zone = Utc(s.trigger.zone)
      BY <1>6, <3>1 DEF Utc
    <3> QED BY <3>1, <3>2 DEF Agrees
  <2>3. Status(d) = StatusOf(~ s.enabled)
    BY <1>6 DEF Status, StatusOf
  <2> QED BY <1>6, <2>1, <2>2, <2>3 DEF Honest
<1>7. ASSUME NEW old PROVE Says(Over([job EXCEPT !.env = @ \union old.env], old))
  <2> DEFINE merged == [job EXCEPT !.env = @ \union old.env]
             d == Over(merged, old)
  <2>1. /\ DOMAIN merged = DOMAIN job /\ merged.env = job.env \union old.env
        /\ \A key \in DOMAIN job \ {"env"} : merged[key] = job[key]
    BY <1>5
  <2> HIDE DEF merged
  <2>2. DOMAIN merged \subseteq DOMAIN d /\ \A key \in DOMAIN merged : d[key] = merged[key]
    BY DEF Over
  <2> HIDE DEF d
  <2>3. Says(d)
    BY <1>5, <2>1, <2>2
  <2> QED BY <2>3 DEF d, merged
<1> HIDE DEF Says
<1> QED BY <1>5, <1>6, <1>7 DEF job

\* Another state, and the definition as before.
LEMMA SwitchKeeps ==
    ASSUME adapter \in Adapters, NEW old, NEW definition, NEW paused \in BOOLEAN,
           WellFormed(IF adapter = "aws" THEN definition ELSE old)
    PROVE  LET d == Switched(old, definition, paused)
           IN  /\ WellFormed(d) /\ Status(d) = StatusOf(paused)
               /\ \A s : Honest(IF adapter = "aws" THEN definition ELSE old, s) => Honest(d, s)
<1> DEFINE d == Switched(old, definition, paused)
<1>1. CASE adapter = "aws"
  <2> DEFINE head == [State |-> IF paused THEN "DISABLED" ELSE "ENABLED"]
  <2>1. d = Over(head, definition)
    BY <1>1 DEF Switched
  <2>2. DOMAIN head = {"State"} /\ head.State = IF paused THEN "DISABLED" ELSE "ENABLED"
    OBVIOUS
  <2> HIDE DEF head, d
  <2>3. /\ DOMAIN d = {"State"} \union DOMAIN definition
        /\ d.State = IF paused THEN "DISABLED" ELSE "ENABLED"
        /\ \A key \in DOMAIN definition \ {"State"} : d[key] = definition[key]
    BY <2>1, <2>2 DEF Over
  <2>4. WellFormed(d) /\ Status(d) = StatusOf(paused)
    BY <1>1, <2>3 DEF WellFormed, Status, StatusOf
  <2>5. Fires(d) = Fires(definition)
    <3>1. "ScheduleExpression" \in DOMAIN definition
      BY <1>1 DEF WellFormed
    <3>2. d.ScheduleExpression = definition.ScheduleExpression
      BY <2>3, <3>1
    <3>3. "ScheduleExpressionTimezone" \in DOMAIN d <=> "ScheduleExpressionTimezone" \in DOMAIN definition
      BY <2>3
    <3>4. "ScheduleExpressionTimezone" \in DOMAIN definition =>
             d.ScheduleExpressionTimezone = definition.ScheduleExpressionTimezone
      BY <2>3
    <3> QED BY <1>1, <3>2, <3>3, <3>4 DEF Fires
  <2> QED BY <1>1, <2>4, <2>5 DEF Honest, d
<1>2. CASE adapter = "gcp"
  <2> DEFINE head == [state |-> IF paused THEN "PAUSED" ELSE "ENABLED"]
  <2>1. d = Over(head, old)
    BY <1>2 DEF Switched
  <2>2. DOMAIN head = {"state"} /\ head.state = IF paused THEN "PAUSED" ELSE "ENABLED"
    OBVIOUS
  <2> HIDE DEF head, d
  <2>3. /\ DOMAIN d = {"state"} \union DOMAIN old
        /\ d.state = IF paused THEN "PAUSED" ELSE "ENABLED"
        /\ \A key \in DOMAIN old \ {"state"} : d[key] = old[key]
    BY <2>1, <2>2 DEF Over
  <2>4. {"schedule", "time_zone", "target"} \subseteq DOMAIN old /\ "timeZone" \notin DOMAIN old
    BY <1>2 DEF WellFormed
  <2>5. WellFormed(d) /\ Status(d) = StatusOf(paused)
    BY <1>2, <2>3, <2>4 DEF WellFormed, Status, StatusOf
  <2>6. d.schedule = old.schedule /\ d.time_zone = old.time_zone /\ d.target = old.target
    BY <2>3, <2>4
  <2>7. Fires(d) = Fires(old)
    BY <1>2, <2>3, <2>4, <2>6 DEF Fires
  <2> QED BY <1>2, <2>5, <2>6, <2>7 DEF Honest, d
<1>3. CASE adapter = "kubernetes"
  <2> DEFINE head == [suspend |-> paused]
  <2>1. d = Over(head, old)
    BY <1>3 DEF Switched
  <2>2. DOMAIN head = {"suspend"} /\ head.suspend = paused
    OBVIOUS
  <2> HIDE DEF head, d
  <2>3. /\ DOMAIN d = {"suspend"} \union DOMAIN old /\ d.suspend = paused
        /\ \A key \in DOMAIN old \ {"suspend"} : d[key] = old[key]
    BY <2>1, <2>2 DEF Over
  <2>4. {"schedule", "env"} \subseteq DOMAIN old
    BY <1>3 DEF WellFormed
  <2>5. WellFormed(d) /\ Status(d) = StatusOf(paused)
    BY <1>3, <2>3, <2>4 DEF WellFormed, Status, StatusOf
  <2>6. /\ d.schedule = old.schedule /\ d.env = old.env
        /\ "timeZone" \in DOMAIN d <=> "timeZone" \in DOMAIN old
        /\ "timeZone" \in DOMAIN old => d.timeZone = old.timeZone
        /\ "time_zone" \in DOMAIN d <=> "time_zone" \in DOMAIN old
        /\ "time_zone" \in DOMAIN old => d.time_zone = old.time_zone
    BY <2>3, <2>4
  <2>7. Fires(d) = Fires(old)
    BY <1>3, <2>6 DEF Fires
  <2> QED BY <1>3, <2>5, <2>6, <2>7 DEF Honest, d
<1> QED BY <1>1, <1>2, <1>3 DEF Adapters

\* What _set_state keeps of the definition it has fetched is what fires.
LEMMA FetchKeeps ==
    ASSUME adapter = "aws", NEW d, WellFormed(d)
    PROVE  LET e == Restrict(d, DOMAIN d \intersect UpdateKeys)
           IN  e # <<>> /\ WellFormed(e) /\ \A s : Honest(d, s) => Honest(e, s)
<1> DEFINE e == Restrict(d, DOMAIN d \intersect UpdateKeys)
<1>1. DOMAIN e = DOMAIN d \intersect UpdateKeys /\ \A key \in DOMAIN e : e[key] = d[key]
  BY DEF Restrict
<1> HIDE DEF e
<1>2. /\ {"State", "ScheduleExpression"} \subseteq DOMAIN e
      /\ "ScheduleExpressionTimezone" \in DOMAIN e <=> "ScheduleExpressionTimezone" \in DOMAIN d
      /\ "ScheduleExpressionTimezone" \in DOMAIN d =>
            e.ScheduleExpressionTimezone = d.ScheduleExpressionTimezone
      /\ e.ScheduleExpression = d.ScheduleExpression
  BY <1>1 DEF WellFormed, UpdateKeys
<1>3. Fires(e) = Fires(d)
  BY <1>2 DEF Fires
<1>4. e # <<>>
  <2>1. DOMAIN <<>> = {}
    OBVIOUS
  <2> QED BY <1>2, <2>1
<1>5. WellFormed(e)
  BY <1>2 DEF WellFormed
<1> QED BY <1>3, <1>4, <1>5 DEF Honest, e

\* The end of a call, for the others.
LEMMA EndsTells ==
    ASSUME RequestInv, NEW u \in Users, NEW wrote, Ends(u, wrote)
    PROVE  /\ DOMAIN request' = Users /\ request'[u] = NoRequest
           /\ \A v \in Users \ {u} :
                 /\ DOMAIN request'[v] = {"op", "name", "schedule", "definition", "late"}
                 /\ request'[v].op = request[v].op /\ request'[v].name = request[v].name
                 /\ request'[v].schedule = request[v].schedule
                 /\ request'[v].definition = request[v].definition
                 /\ request[v].late => request'[v].late
                 /\ wrote /\ request[v].name = request[u].name /\ request[v].definition # <<>> =>
                       request'[v].late
<1>1. DOMAIN request' = Users /\ request'[u] = NoRequest
  BY DEF Ends
<1>2. ASSUME NEW v \in Users \ {u}
      PROVE  /\ DOMAIN request'[v] = {"op", "name", "schedule", "definition", "late"}
             /\ request'[v].op = request[v].op /\ request'[v].name = request[v].name
             /\ request'[v].schedule = request[v].schedule
             /\ request'[v].definition = request[v].definition
             /\ request[v].late => request'[v].late
             /\ wrote /\ request[v].name = request[u].name /\ request[v].definition # <<>> =>
                   request'[v].late
  <2>1. DOMAIN request[v] = {"op", "name", "schedule", "definition", "late"}
    BY DEF RequestInv
  <2>2. CASE wrote /\ request[v].name = request[u].name /\ request[v].definition # <<>>
    <3>1. request'[v] = [request[v] EXCEPT !.late = TRUE]
      BY <2>2 DEF Ends
    <3> QED BY <2>1, <3>1
  <2>3. CASE ~(wrote /\ request[v].name = request[u].name /\ request[v].definition # <<>>)
    <3>1. request'[v] = request[v]
      BY <2>3 DEF Ends
    <3> QED BY <2>1, <2>3, <3>1
  <2> QED BY <2>2, <2>3
<1> QED BY <1>1, <1>2

LEMMA IdleRequest ==
    /\ DOMAIN NoRequest = {"op", "name", "schedule", "definition", "late"}
    /\ NoRequest.op = "idle" /\ NoRequest.definition = <<>>
BY DEF NoRequest

\* A definition d of schedule s is written, and its answer arrives or is lost.
LEMMA DefinitionIsWritten ==
    ASSUME SchedulersInv, NEW u \in Users, NEW n, n = request[u].name, NEW d, NEW s, NEW paused,
           NEW wrote \in BOOLEAN,
           Put(n, d), Recorded(n, s, paused), Ends(u, wrote), Answered(u, d), adapter' = adapter,
           WellFormed(d), Status(d) = StatusOf(paused), n \notin torn' => Honest(d, s),
           \A m \in DOMAIN engine \ {n} : m \in torn => m \in torn',
           \/ wrote
           \/ /\ n \in DOMAIN wanted /\ s = wanted[n].schedule
              /\ n \in torn => n \in torn'
    PROVE  SchedulersInv'
<1>1. /\ DOMAIN engine' = {n} \union DOMAIN engine /\ engine'[n] = d
      /\ \A m \in DOMAIN engine \ {n} : engine'[m] = engine[m]
  BY DEF Put, Over, Entry
<1>2. /\ DOMAIN wanted' = {n} \union DOMAIN wanted
      /\ wanted'[n].schedule = s /\ wanted'[n].paused = paused
      /\ \A m \in DOMAIN wanted \ {n} : wanted'[m] = wanted[m]
  BY DEF Recorded, Over, Entry
<1>3. \A x, y : /\ WellFormed(x)' = WellFormed(x) /\ Status(x)' = Status(x)
               /\ Honest(x, y)' = Honest(x, y)
  BY DEF WellFormed, Status, Honest, Agrees, Fires
<1>4. EngineInv'
  BY <1>1, <1>2, <1>3 DEF SchedulersInv, EngineInv
<1>5. HandleInv'
  <2>1. HandleInv
    BY DEF SchedulersInv
  <2> DEFINE others == [v \in Users |-> IF told[v].name = n THEN NoHandle ELSE told[v]]
             answer == [name |-> n, status |-> Status(d)]
  <2>2. told' = [others EXCEPT ![u] = answer] \/ told' = [others EXCEPT ![u] = NoHandle]
    BY DEF Answered
  <2>3. DOMAIN told' = Users
    BY <2>2
  <2>4. ASSUME NEW v \in Users, told'[v] # NoHandle
        PROVE  told'[v].name \in DOMAIN engine' /\ told'[v].status = Status(engine'[told'[v].name])
    <3>1. CASE v = u
      <4>1. told'[v] = answer
        BY <2>2, <2>4, <3>1
      <4>2. told'[v].name = n /\ told'[v].status = Status(d)
        BY <4>1
      <4> QED BY <1>1, <4>2
    <3>2. CASE v # u
      <4>1. told'[v] = others[v]
        BY <2>2, <3>2
      <4>2. told'[v] = told[v] /\ told[v].name # n
        BY <2>4, <4>1
      <4>3. told[v].name \in DOMAIN engine /\ told[v].status = Status(engine[told[v].name])
        BY <2>1, <2>4, <4>2 DEF HandleInv
      <4> QED BY <1>1, <4>2, <4>3
    <3> QED BY <3>1, <3>2
  <2>5. ASSUME NEW v \in Users, told'[v] # NoHandle
        PROVE  told'[v].name \in DOMAIN engine' /\ told'[v].status = Status(engine[told[v].name])'
    <3>1. told'[v].name \in DOMAIN engine' /\ told'[v].status = Status(engine'[told'[v].name])
      BY <2>4, <2>5
    <3>2. adapter \in Adapters
      BY DEF SchedulersInv, EngineInv
    <3>3. Status(engine'[told'[v].name]) = Status(engine[told[v].name])'
      BY <3>2 DEF Status, Adapters
    <3> QED BY <3>1, <3>3
  <2> QED BY <2>3, <2>5 DEF HandleInv
<1>6. RequestInv'
  <2>1. RequestInv /\ EngineInv
    BY DEF SchedulersInv
  <2>2. DOMAIN request' = Users /\ request'[u] = NoRequest
    BY <2>1, EndsTells
  <2>3. ASSUME NEW v \in Users \ {u}
        PROVE  /\ DOMAIN request'[v] = {"op", "name", "schedule", "definition", "late"}
               /\ request'[v].op \in {"create", "update"} =>
                      /\ request'[v].schedule \in Schedules
                      /\ request'[v].schedule.trigger.kind \in ScheduleCapabilities'
               /\ request'[v].definition # <<>> =>
                      /\ WellFormed(request[v].definition)'
                      /\ ~ request'[v].late /\ request'[v].name \in DOMAIN wanted' \ torn' =>
                             Honest(request[v].definition, wanted[request[v].name].schedule)'
    <3> DEFINE r == request[v]
               q == request'[v]
    <3>1. /\ DOMAIN q = {"op", "name", "schedule", "definition", "late"}
          /\ q.op = r.op /\ q.name = r.name /\ q.schedule = r.schedule
          /\ q.definition = r.definition /\ (r.late => q.late)
          /\ wrote /\ r.name = n /\ r.definition # <<>> => q.late
      BY <2>1, EndsTells
    <3>2. /\ r.op \in {"create", "update"} =>
                r.schedule \in Schedules /\ r.schedule.trigger.kind \in ScheduleCapabilities
          /\ r.definition # <<>> =>
                /\ WellFormed(r.definition)
                /\ ~ r.late /\ r.name \in DOMAIN wanted \ torn =>
                       Honest(r.definition, wanted[r.name].schedule)
      BY <2>1 DEF RequestInv
    <3>3. ScheduleCapabilities' = ScheduleCapabilities
      BY DEF ScheduleCapabilities
    <3> HIDE DEF q
    <3>4. q.definition # <<>> => WellFormed(q.definition)
      BY <3>1, <3>2
    <3>5. ASSUME q.definition # <<>>, ~ q.late, q.name \in DOMAIN wanted' \ torn'
          PROVE  Honest(q.definition, wanted'[q.name].schedule)
      <4>1. CASE r.name = n
        <5>1. ~ wrote /\ n \in DOMAIN wanted /\ s = wanted[n].schedule /\ n \notin torn
          BY <3>1, <3>5, <4>1
        <5> QED BY <1>2, <3>1, <3>2, <3>5, <4>1, <5>1
      <4>2. CASE r.name # n
        <5>1. r.name \in DOMAIN wanted /\ wanted'[r.name] = wanted[r.name]
          BY <1>2, <3>1, <3>5, <4>2
        <5>2. r.name \notin torn
          BY <2>1, <3>1, <3>5, <4>2, <5>1 DEF EngineInv
        <5> QED BY <3>1, <3>2, <3>5, <5>1, <5>2
      <4> QED BY <4>1, <4>2
    <3>6. q.definition # <<>> => WellFormed(r.definition)'
      BY <3>1, <3>4 DEF WellFormed, q
    <3>7. ASSUME q.definition # <<>>, ~ q.late, q.name \in DOMAIN wanted' \ torn'
          PROVE  Honest(request[v].definition, wanted[request[v].name].schedule)'
      <4>1. Honest(request'[v].definition, wanted'[request'[v].name].schedule)
        BY <3>5, <3>7 DEF q
      <4> QED BY <4>1 DEF Honest, Agrees, Fires
    <3> QED BY <3>1, <3>2, <3>3, <3>6, <3>7 DEF q
  <2> QED BY <2>2, <2>3, IdleRequest DEF RequestInv
<1> QED BY <1>4, <1>5, <1>6 DEF SchedulersInv

\* A request as RequestInv has it.
Sound(r) ==
    /\ DOMAIN r = {"op", "name", "schedule", "definition", "late"}
    /\ r.op \in {"create", "update"} =>
           r.schedule \in Schedules /\ r.schedule.trigger.kind \in ScheduleCapabilities
    /\ r.definition # <<>> =>
           /\ WellFormed(r.definition)
           /\ ~ r.late /\ r.name \in DOMAIN wanted \ torn =>
                  Honest(r.definition, wanted[r.name].schedule)

\* A step that writes nothing.
LEMMA NothingIsWritten ==
    ASSUME SchedulersInv, UNCHANGED <<adapter, engine, wanted, torn>>, DOMAIN request' = Users,
           \A u \in Users : request'[u] = request[u] \/ Sound(request'[u])
    PROVE  EngineInv' /\ RequestInv'
<1>1. \A x, y : /\ WellFormed(x)' = WellFormed(x) /\ Status(x)' = Status(x)
               /\ Honest(x, y)' = Honest(x, y)
  BY DEF WellFormed, Status, Honest, Agrees, Fires
<1>2. EngineInv'
  BY <1>1 DEF SchedulersInv, EngineInv
<1>3. ASSUME NEW u \in Users PROVE Sound(request'[u])
  BY <1>3 DEF SchedulersInv, RequestInv, Sound
<1>4. \A r : Sound(r) => Sound(r)'
  <2>1. ScheduleCapabilities' = ScheduleCapabilities
    BY DEF ScheduleCapabilities
  <2> QED BY <1>1, <2>1 DEF Sound
<1>5. ASSUME NEW u \in Users PROVE Sound(request[u])'
  <2>1. PICK r : r = request'[u]
    OBVIOUS
  <2>2. Sound(r)'
    BY <1>3, <1>4, <2>1
  <2> QED BY <2>1, <2>2 DEF Sound
<1> QED BY <1>2, <1>5 DEF RequestInv, Sound

LEMMA HandlesStay ==
    ASSUME HandleInv, UNCHANGED <<adapter, engine, told>>
    PROVE  HandleInv'
BY DEF HandleInv, Status

LEMMA SchedulersStart ==
    ASSUME NEW adapters, adapters \subseteq Adapters, SchedulersInit(adapters)
    PROVE  SchedulersInv
<1>1. DOMAIN <<>> = {}
  OBVIOUS
<1>2. EngineInv
  BY <1>1 DEF SchedulersInit, EngineInv
<1>3. RequestInv
  BY IdleRequest DEF SchedulersInit, RequestInv
<1>4. HandleInv
  BY DEF SchedulersInit, HandleInv
<1> QED BY <1>2, <1>3, <1>4 DEF SchedulersInv

LEMMA IdleIsSound == Sound(NoRequest)
BY IdleRequest DEF Sound

\* The steps of a call before it leaves the process.
LEMMA CallStep ==
    ASSUME SchedulersInv, NEW u \in Users, NEW r, Sound(r), request' = [request EXCEPT ![u] = r],
           UNCHANGED <<adapter, engine, wanted, torn, told>>
    PROVE  SchedulersInv'
<1>1. DOMAIN request' = Users /\ \A v \in Users : request'[v] = request[v] \/ Sound(request'[v])
  BY DEF SchedulersInv, RequestInv
<1>2. HandleInv'
  BY HandlesStay DEF SchedulersInv
<1> QED BY <1>1, <1>2, NothingIsWritten DEF SchedulersInv

LEMMA WriteStep ==
    ASSUME SchedulersInv, NEW u \in Users, NEW op, NEW s \in Schedules, Write(u, op, s)
    PROVE  SchedulersInv'
<1> DEFINE r == [NoRequest EXCEPT !.op = op, !.name = s.name, !.schedule = s]
<1>1. /\ DOMAIN r = {"op", "name", "schedule", "definition", "late"}
      /\ r.schedule = s /\ r.definition = <<>>
  BY DEF NoRequest
<1>2. request' = [request EXCEPT ![u] = r] /\ UNCHANGED <<adapter, engine, wanted, torn, told>>
  BY DEF Write
<1>3. s.trigger.kind \in ScheduleCapabilities
  BY DEF Write, Validate
<1> HIDE DEF r
<1>4. Sound(r)
  BY <1>1, <1>3 DEF Sound
<1> QED BY <1>2, <1>4, CallStep

LEMMA CommandStep ==
    ASSUME SchedulersInv, NEW u \in Users, NEW op \in {"pause", "resume", "delete", "get"}, NEW n,
           Command(u, op, n)
    PROVE  SchedulersInv'
<1> DEFINE r == [NoRequest EXCEPT !.op = op, !.name = n]
<1>1. /\ DOMAIN r = {"op", "name", "schedule", "definition", "late"}
      /\ r.op = op /\ r.definition = <<>>
  BY DEF NoRequest
<1>2. request' = [request EXCEPT ![u] = r] /\ UNCHANGED <<adapter, engine, wanted, torn, told>>
  BY DEF Command
<1> HIDE DEF r
<1>3. Sound(r)
  BY <1>1 DEF Sound
<1> QED BY <1>2, <1>3, CallStep

LEMMA FetchStep ==
    ASSUME SchedulersInv, NEW u \in Users, Fetch(u)
    PROVE  SchedulersInv'
<1> DEFINE n == request[u].name
           d == engine[n]
           e == Restrict(d, DOMAIN d \intersect UpdateKeys)
           r == [request[u] EXCEPT !.definition = e]
<1>1. /\ adapter = "aws" /\ n \in DOMAIN engine /\ Switches(u)
      /\ request' = [request EXCEPT ![u].definition = e]
      /\ UNCHANGED <<adapter, engine, wanted, torn, told>>
  BY DEF Fetch
<1>2. DOMAIN request[u] = {"op", "name", "schedule", "definition", "late"} /\ DOMAIN request = Users
  BY DEF SchedulersInv, RequestInv
<1>3. request' = [request EXCEPT ![u] = r]
  BY <1>1, <1>2
<1>4. WellFormed(d) /\ (n \notin torn => Honest(d, wanted[n].schedule))
  BY <1>1 DEF SchedulersInv, EngineInv
<1>5. WellFormed(e) /\ \A s : Honest(d, s) => Honest(e, s)
  BY <1>1, <1>4, FetchKeeps
<1>6. /\ DOMAIN r = {"op", "name", "schedule", "definition", "late"}
      /\ r.op = request[u].op /\ r.name = n /\ r.definition = e
  BY <1>2
<1> HIDE DEF r, e, d
<1>7. Sound(r)
  BY <1>1, <1>4, <1>5, <1>6 DEF Sound, Switches
<1> QED BY <1>1, <1>3, <1>7, CallStep

LEMMA CreateStep ==
    ASSUME SchedulersInv, NEW u \in Users, CreateSchedule(u)
    PROVE  SchedulersInv'
<1> DEFINE n == request[u].name
           s == request[u].schedule
           d == Created(s)
           paused == ~ s.enabled /\ adapter # "gcp"
<1>1. /\ n \notin DOMAIN engine /\ request[u].op = "create" /\ Put(n, d) /\ Recorded(n, s, paused)
      /\ torn' = torn \ {n} /\ Ends(u, TRUE) /\ Answered(u, d) /\ adapter' = adapter
  BY DEF CreateSchedule
<1>2. s \in Schedules /\ s.trigger.kind \in ScheduleCapabilities /\ adapter \in Adapters
  BY <1>1 DEF SchedulersInv, RequestInv, EngineInv
<1>3. adapter # "aws" => s.trigger.kind = "cron"
  BY <1>2, SchedulesAssumption DEF ScheduleCapabilities, Cloud
<1>4. WellFormed(d) /\ Status(d) = StatusOf(paused) /\ Honest(d, s)
  <2>1. CASE adapter = "aws"
    <3>1. d = Params(s) /\ (paused <=> ~ s.enabled)
      BY <2>1 DEF Created
    <3>2. StatusOf(paused) = StatusOf(~ s.enabled)
      BY <3>1 DEF StatusOf
    <3> QED BY <1>2, <2>1, <3>1, <3>2, AwsWrites
  <2>2. CASE adapter = "gcp"
    <3> DEFINE old == [state |-> "ENABLED"]
    <3>1. d = Over(BuildJob(s), old)
      BY <2>2 DEF Created
    <3>2. DOMAIN old = {"state"} /\ old.state = "ENABLED"
      OBVIOUS
    <3> HIDE DEF old, d
    <3>3. WellFormed(d) /\ Honest(d, s) /\ Status(d) = Status(old)
      BY <1>2, <1>3, <2>2, <3>1, <3>2, GcpWrites
    <3>4. Status(old) = "enabled"
      BY <2>2, <3>2 DEF Status
    <3> QED BY <2>2, <3>3, <3>4 DEF StatusOf
  <2>3. CASE adapter = "kubernetes"
    <3>1. d = CronJob(s) /\ (paused <=> ~ s.enabled)
      BY <2>3 DEF Created
    <3>2. StatusOf(paused) = StatusOf(~ s.enabled)
      BY <3>1 DEF StatusOf
    <3> QED BY <1>2, <1>3, <2>3, <3>1, <3>2, KubernetesWrites
  <2> QED BY <1>2, <2>1, <2>2, <2>3 DEF Adapters
<1> HIDE DEF n, d, paused, s
<1> QED BY <1>1, <1>4, DefinitionIsWritten DEF n

LEMMA UpdateStep ==
    ASSUME SchedulersInv, NEW u \in Users, UpdateDefinition(u)
    PROVE  SchedulersInv'
<1> DEFINE n == request[u].name
           s == request[u].schedule
           old == engine[n]
           d == Updated(old, s)
           paused == IF adapter = "gcp" THEN wanted[n].paused ELSE ~ s.enabled
<1>1. /\ n \in DOMAIN engine /\ request[u].op = "update" /\ Put(n, d) /\ Recorded(n, s, paused)
      /\ torn' = torn \ {n} /\ Ends(u, TRUE) /\ Answered(u, d) /\ adapter' = adapter
  BY DEF UpdateDefinition
<1>2. /\ s \in Schedules /\ s.trigger.kind \in ScheduleCapabilities /\ adapter \in Adapters
      /\ WellFormed(old) /\ Status(old) = StatusOf(wanted[n].paused)
  BY <1>1 DEF SchedulersInv, RequestInv, EngineInv
<1>3. adapter # "aws" => s.trigger.kind = "cron"
  BY <1>2, SchedulesAssumption DEF ScheduleCapabilities, Cloud
<1>4. WellFormed(d) /\ Status(d) = StatusOf(paused) /\ Honest(d, s)
  <2>1. CASE adapter = "aws"
    <3>1. d = Params(s) /\ paused = ~ s.enabled
      BY <2>1 DEF Updated
    <3> QED BY <1>2, <2>1, <3>1, AwsWrites
  <2>2. CASE adapter = "gcp"
    <3>1. d = Over(BuildJob(s), old) /\ paused = wanted[n].paused
      BY <2>2 DEF Updated
    <3>2. "state" \in DOMAIN old /\ "timeZone" \notin DOMAIN old
      BY <1>2, <2>2 DEF WellFormed
    <3> HIDE DEF old, d
    <3> QED BY <1>2, <1>3, <2>2, <3>1, <3>2, GcpWrites
  <2>3. CASE adapter = "kubernetes"
    <3>1. d = Over([CronJob(s) EXCEPT !.env = @ \union old.env], old) /\ paused = ~ s.enabled
      BY <2>3 DEF Updated
    <3> HIDE DEF old, d
    <3> QED BY <1>2, <1>3, <2>3, <3>1, KubernetesWrites
  <2> QED BY <1>2, <2>1, <2>2, <2>3 DEF Adapters
<1> HIDE DEF n, d, paused, s
<1> QED BY <1>1, <1>4, DefinitionIsWritten DEF n

LEMMA SwitchStep ==
    ASSUME SchedulersInv, NEW u \in Users, Switch(u)
    PROVE  SchedulersInv'
<1> DEFINE n == request[u].name
           s == wanted[n].schedule
           old == engine[n]
           definition == request[u].definition
           paused == request[u].op = "pause"
           d == Switched(old, definition, paused)
<1>1. /\ n \in DOMAIN engine /\ Put(n, d) /\ Recorded(n, s, paused)
      /\ torn' = IF request[u].late THEN torn \union {n} ELSE torn
      /\ Ends(u, FALSE) /\ Answered(u, d) /\ adapter' = adapter
      /\ adapter = "aws" => definition # <<>>
  BY DEF Switch
<1>2. /\ adapter \in Adapters /\ n \in DOMAIN wanted
      /\ WellFormed(old) /\ (n \notin torn => Honest(old, s))
  BY <1>1 DEF SchedulersInv, EngineInv
<1>3. adapter = "aws" => /\ WellFormed(definition)
                         /\ ~ request[u].late /\ n \notin torn => Honest(definition, s)
  BY <1>1, <1>2 DEF SchedulersInv, RequestInv
<1> DEFINE base == IF adapter = "aws" THEN definition ELSE old
<1>4. WellFormed(base) /\ (n \notin torn' => Honest(base, s))
  BY <1>1, <1>2, <1>3
<1>5. /\ WellFormed(d) /\ Status(d) = StatusOf(paused)
      /\ \A x : Honest(base, x) => Honest(d, x)
  BY <1>2, <1>4, SwitchKeeps
<1>6. \A m : m \in torn => m \in torn'
  BY <1>1
<1> HIDE DEF n, d, paused, s, base
<1> QED BY <1>1, <1>2, <1>4, <1>5, <1>6, DefinitionIsWritten DEF n, s

LEMMA DeleteStep ==
    ASSUME SchedulersInv, NEW u \in Users, DeleteSchedule(u)
    PROVE  SchedulersInv'
<1> DEFINE n == request[u].name
<1>1. /\ engine' = Restrict(engine, DOMAIN engine \ {n})
      /\ wanted' = Restrict(wanted, DOMAIN wanted \ {n})
      /\ torn' = torn \ {n} /\ Ends(u, TRUE) /\ adapter' = adapter
      /\ told' = [v \in Users |-> IF told[v].name = n THEN NoHandle ELSE told[v]]
  BY DEF DeleteSchedule
<1>2. /\ DOMAIN engine' = DOMAIN engine \ {n} /\ \A m \in DOMAIN engine' : engine'[m] = engine[m]
      /\ DOMAIN wanted' = DOMAIN wanted \ {n} /\ \A m \in DOMAIN wanted' : wanted'[m] = wanted[m]
  BY <1>1 DEF Restrict
<1>3. \A x, y : /\ WellFormed(x)' = WellFormed(x) /\ Status(x)' = Status(x)
               /\ Honest(x, y)' = Honest(x, y)
  BY <1>1 DEF WellFormed, Status, Honest, Agrees, Fires
<1>4. EngineInv /\ RequestInv /\ HandleInv
  BY DEF SchedulersInv
<1>5. EngineInv'
  BY <1>1, <1>2, <1>3, <1>4 DEF EngineInv
<1>6. HandleInv'
  <2>1. DOMAIN told' = Users
    BY <1>1
  <2>2. ASSUME NEW v \in Users, told'[v] # NoHandle
        PROVE  told'[v].name \in DOMAIN engine' /\ told'[v].status = Status(engine[told[v].name])'
    <3>1. told'[v] = told[v] /\ told[v].name # n
      BY <1>1, <2>2
    <3>2. told[v].name \in DOMAIN engine /\ told[v].status = Status(engine[told[v].name])
      BY <1>4, <2>2, <3>1 DEF HandleInv
    <3>3. engine'[told'[v].name] = engine[told[v].name] /\ told'[v].name \in DOMAIN engine'
      BY <1>2, <3>1, <3>2
    <3> QED BY <1>3, <3>1, <3>2, <3>3
  <2> QED BY <2>1, <2>2 DEF HandleInv
<1>7. RequestInv'
  <2>1. DOMAIN request' = Users /\ request'[u] = NoRequest
    BY <1>1, <1>4, EndsTells
  <2>2. ASSUME NEW v \in Users \ {u} PROVE Sound(request[v])'
    <3> DEFINE r == request[v]
               q == request'[v]
    <3>1. /\ DOMAIN q = {"op", "name", "schedule", "definition", "late"}
          /\ q.op = r.op /\ q.name = r.name /\ q.schedule = r.schedule
          /\ q.definition = r.definition /\ (r.late => q.late)
          /\ r.name = n /\ r.definition # <<>> => q.late
      BY <1>1, <1>4, EndsTells
    <3>2. Sound(r)
      BY <1>4 DEF RequestInv, Sound
    <3>3. ScheduleCapabilities' = ScheduleCapabilities
      BY <1>1 DEF ScheduleCapabilities
    <3> HIDE DEF q
    <3>4. q.definition # <<>> => WellFormed(q.definition)
      BY <3>1, <3>2 DEF Sound
    <3>5. ASSUME q.definition # <<>>, ~ q.late, q.name \in DOMAIN wanted' \ torn'
          PROVE  Honest(q.definition, wanted'[q.name].schedule)
      <4>1. r.name # n /\ r.name \in DOMAIN wanted \ torn /\ wanted'[r.name] = wanted[r.name]
        BY <1>1, <1>2, <3>1, <3>5
      <4> QED BY <3>1, <3>2, <3>5, <4>1 DEF Sound
    <3> QED BY <1>3, <3>1, <3>2, <3>3, <3>4, <3>5 DEF Sound, q
  <2> QED BY <2>1, <2>2, IdleRequest DEF RequestInv, Sound
<1> QED BY <1>5, <1>6, <1>7 DEF SchedulersInv

LEMMA EndStep ==
    ASSUME SchedulersInv, NEW u \in Users, GetSchedule(u) \/ Fails(u)
    PROVE  SchedulersInv'
<1> DEFINE n == request[u].name
<1>1. Ends(u, FALSE) /\ UNCHANGED <<adapter, engine, wanted, torn>>
  BY DEF GetSchedule, Fails
<1>2. DOMAIN request' = Users /\ \A v \in Users : request'[v] = request[v] \/ Sound(request'[v])
  BY <1>1, IdleIsSound DEF Ends
<1>3. EngineInv' /\ RequestInv'
  BY <1>1, <1>2, NothingIsWritten
<1>4. HandleInv'
  <2>1. HandleInv
    BY DEF SchedulersInv
  <2>2. CASE Fails(u)
    BY <1>1, <2>1, <2>2, HandlesStay DEF Fails
  <2>3. CASE GetSchedule(u)
    <3>1. /\ n \in DOMAIN engine
          /\ told' = [told EXCEPT ![u] = [name |-> n, status |-> Status(engine[n])]]
      BY <2>3 DEF GetSchedule
    <3>2. \A x : Status(x)' = Status(x)
      BY <1>1 DEF Status
    <3> QED BY <1>1, <2>1, <3>1, <3>2 DEF HandleInv
  <2> QED BY <2>2, <2>3
<1> QED BY <1>3, <1>4 DEF SchedulersInv

LEMMA SchedulersStep ==
    ASSUME SchedulersInv, [\E u \in Users : Scheduling(u)]_schedulerVars
    PROVE  SchedulersInv'
<1>1. CASE UNCHANGED schedulerVars
  <2>1. EngineInv' /\ RequestInv'
    BY <1>1, NothingIsWritten DEF schedulerVars, SchedulersInv, RequestInv
  <2>2. HandleInv'
    BY <1>1, HandlesStay DEF schedulerVars, SchedulersInv
  <2> QED BY <2>1, <2>2 DEF SchedulersInv
<1>2. ASSUME NEW u \in Users, Scheduling(u) PROVE SchedulersInv'
  BY <1>2, WriteStep, CommandStep, FetchStep, CreateStep, UpdateStep, SwitchStep, DeleteStep, EndStep
     DEF Scheduling
<1> QED BY <1>1, <1>2

LEMMA SchedulersSafe == SchedulersInv => SchedulesAreAsWritten
BY DEF SchedulersInv, EngineInv, HandleInv, SchedulesAreAsWritten, StatusOf, Honest

-----------------------------------------------------------------------------
(* All of them. *)

ProvidersInv == BusInv /\ RegistryInv /\ PublishersInv /\ FunctionsInv /\ SchedulersInv

LEMMA ProvidersStart == ProvidersInit => ProvidersInv
<1> SUFFICES ASSUME ProvidersInit PROVE ProvidersInv
  OBVIOUS
<1>1. BusInv
  BY BusInit DEF ProvidersInit
<1>2. PICK f \in IF place = "publisher" THEN Brokers ELSE {"inmemory"} :
          RegistryInit([a \in Aliases |-> IF a = "default" THEN f ELSE None])
  BY DEF ProvidersInit
<1>3. RegistryInv
  <2>1. [a \in Aliases |-> IF a = "default" THEN f ELSE None] \in [Aliases -> FactoryNames]
    BY <1>2 DEF FactoryNames
  <2> QED BY <1>2, <2>1, RegistryStarts
<1>4. PublishersInv
  <2>1. /\ batch = [c \in Clients |-> <<>>] /\ results = [c \in Clients |-> <<>>]
        /\ raised = [c \in Clients |-> None]
        /\ tried = [c \in Clients |-> <<>>] /\ accepted = [c \in Clients |-> <<>>]
    BY DEF ProvidersInit, PublishersInit
  <2>2. /\ <<>> \in Seq(Messages) /\ <<>> \in Seq(Deliveries)
        /\ <<>> \in Seq({e.id : e \in Messages})
    OBVIOUS
  <2>3. PublisherTypes
    BY <2>1, <2>2 DEF PublisherTypes
  <2>4. ASSUME place = "publisher" PROVE f \in Brokers /\ OneBroker(f)
    BY <1>2, <2>4 DEF RegistryInit, OneBroker, NoAccess
  <2>5. Stage(<<>>, <<>>, None, <<>>, <<>>, f)
    BY DEF Stage
  <2>6. \A c \in Clients : Progress(c, f)
    BY <2>1, <2>5 DEF Progress
  <2> QED BY <2>1, <2>3, <2>4, <2>6 DEF PublishersInv
<1>5. FunctionsInv
  BY FunctionsStart DEF ProvidersInit
<1>6. SchedulersInv
  <2>1. SchedulersInit(Adapters) \/ SchedulersInit({"aws"})
    BY DEF ProvidersInit, Adapters
  <2> QED BY <2>1, SchedulersStart DEF Adapters
<1> QED BY <1>1, <1>3, <1>4, <1>5, <1>6 DEF ProvidersInv

LEMMA PublishersRest ==
    ASSUME PublishersInv, UNCHANGED <<publisherVars, place>>,
           place = "publisher" => UNCHANGED registryVars
    PROVE  PublishersInv'
<1>1. PublisherTypes'
  BY DEF PublishersInv, PublisherTypes, publisherVars
<1>2. CASE place # "publisher"
  BY <1>1, <1>2 DEF PublishersInv, publisherVars
<1>3. CASE place = "publisher"
  <2>1. PICK f \in Brokers : OneBroker(f) /\ \A c \in Clients : Progress(c, f)
    BY <1>3 DEF PublishersInv
  <2>2. OneBroker(f)'
    BY <1>3, <2>1 DEF OneBroker, registryVars
  <2>3. ASSUME NEW c \in Clients PROVE Progress(c, f)'
    <3>1. Progress(c, f)
      BY <2>1
    <3> QED BY <1>3, <3>1 DEF Progress, publisherVars, registryVars
  <2> QED BY <1>1, <1>3, <2>2, <2>3 DEF PublishersInv
<1> QED BY <1>2, <1>3

LEMMA ProvidersStep == ProvidersInv /\ [ProvidersNext]_providersVars => ProvidersInv'
<1> SUFFICES ASSUME ProvidersInv, [ProvidersNext]_providersVars PROVE ProvidersInv'
  OBVIOUS
<1>1. BusInv /\ RegistryInv /\ PublishersInv /\ FunctionsInv /\ SchedulersInv
  BY DEF ProvidersInv
<1>2. BusInv'
  <2>1. [Next]_vars
    BY DEF ProvidersNext, providersVars, AtTheRegistry, AtThePublisher, AtTheBus, AtTheScheduler,
           AtTheFunctions
  <2> QED BY <1>1, <2>1, BusStep
<1>3. FunctionsInv'
  <2>1. [Naming]_functionVars
    BY DEF ProvidersNext, providersVars, AtTheRegistry, AtThePublisher, AtTheBus, AtTheScheduler,
           AtTheFunctions
  <2> QED BY <1>1, <2>1, FunctionsStep
<1>4. RegistryInv' /\ PublishersInv'
  <2>1. CASE AtTheRegistry
    <3>1. RegistryInv'
      BY <1>1, <2>1, GetitemStep, ChangeStep DEF AtTheRegistry
    <3>2. PublishersInv'
      BY <1>1, <2>1, PublishersRest DEF AtTheRegistry
    <3> QED BY <3>1, <3>2
  <2>2. CASE AtThePublisher
    <3>1. place = "publisher" /\ place' = place
      BY <2>2 DEF AtThePublisher
    <3>2. PICK f \in Brokers : OneBroker(f) /\ \A c \in Clients : Progress(c, f)
      BY <1>1, <3>1 DEF PublishersInv
    <3>3. CASE Getitem(Sender) /\ UNCHANGED publisherVars
      <4>1. RegistryInv'
        BY <1>1, <3>3, GetitemStep, ProvidersAssumption
      <4>2. OneBroker(f)' /\ \A d \in Clients : held[d] # 0 => held'[d] # 0
        BY <1>1, <3>2, <3>3, SameBroker, ProvidersAssumption
      <4>3. ASSUME NEW c \in Clients PROVE Progress(c, f)'
        <5>1. Progress(c, f) /\ (held[c] # 0 => held'[c] # 0)
          BY <3>2, <4>2
        <5> QED BY <3>3, <5>1 DEF Progress, publisherVars
      <4>4. PublisherTypes'
        BY <1>1, <3>3 DEF PublishersInv, PublisherTypes, publisherVars
      <4> QED BY <3>1, <4>1, <4>2, <4>3, <4>4 DEF PublishersInv
    <3>4. CASE Publishing(Sender) /\ UNCHANGED registryVars
      <4>1. RegistryInv'
        BY <1>1, <3>4, RegistryRests
      <4>2. PublisherTypes' /\ \A d \in Clients : Progress(d, f)'
        BY <1>1, <3>2, <3>4, PublishingStep, ProvidersAssumption DEF PublishersInv
      <4>3. OneBroker(f)'
        BY <3>2, <3>4 DEF OneBroker, registryVars
      <4> QED BY <3>1, <4>1, <4>2, <4>3 DEF PublishersInv
    <3> QED BY <2>2, <3>3, <3>4 DEF AtThePublisher
  <2>3. CASE UNCHANGED <<registryVars, publisherVars, place>>
    <3>1. UNCHANGED registryVars /\ UNCHANGED <<publisherVars, place>>
      BY <2>3
    <3> QED BY <1>1, <3>1, RegistryRests, PublishersRest
  <2> QED BY <2>1, <2>2, <2>3 DEF ProvidersNext, providersVars, AtTheBus, AtTheScheduler,
                                  AtTheFunctions
<1>5. SchedulersInv'
  <2>1. [\E u \in Users : Scheduling(u)]_schedulerVars
    BY DEF ProvidersNext, providersVars, AtTheRegistry, AtThePublisher, AtTheBus, AtTheScheduler,
           AtTheFunctions
  <2> QED BY <1>1, <2>1, SchedulersStep
<1> QED BY <1>2, <1>3, <1>4, <1>5 DEF ProvidersInv

LEMMA ProvidersInvariant == ProvidersSpec => []ProvidersInv
<1>1. ProvidersInit => ProvidersInv
  BY ProvidersStart
<1>2. ProvidersInv /\ [ProvidersNext]_providersVars => ProvidersInv'
  BY ProvidersStep
<1> QED BY <1>1, <1>2, PTL DEF ProvidersSpec

\* Every subscription there was when an event was published is called with it,
\* once and if it asked for it, but for those after a handler that raised, and
\* nobody is where a predicate raised; and the history is the end of what was
\* published, this event among it, however the threads of InMemoryEventBus
\* interleave.
THEOREM BusCorrect == ProvidersSpec => []BusIsTrue
<1>1. ProvidersInv => BusIsTrue
  BY BusSafe DEF ProvidersInv
<1> QED BY <1>1, ProvidersInvariant, PTL

\* Without a lock LazyRegistry may make two instances of a provider; but those
\* who were given one when nobody was building share it until the registry is
\* changed, what is cached is what is registered, and a KeyError needs a change.
THEOREM RegistryCorrect == ProvidersSpec => []RegistryIsTrue
<1>1. ProvidersInv => RegistryIsTrue
  BY RegistrySafe DEF ProvidersInv
<1> QED BY <1>1, ProvidersInvariant, PTL

\* What publish_batch reports is true of the broker: the results are those of
\* the events that were accepted, in their order, and each request says what
\* event it carries, for every publisher and batch.
THEOREM PublishersCorrect == ProvidersSpec => []PublicationsAreTrue
<1>1. ProvidersInv => PublicationsAreTrue
  BY PublishersSafe DEF ProvidersInv
<1> QED BY <1>1, ProvidersInvariant, PTL

\* What FunctionRegistry.reference accepts is found again by its name, for any
\* callables, names and import policies.
THEOREM NamesCorrect == ProvidersSpec => []NamesLeadBack
<1>1. ProvidersInv => NamesLeadBack
  BY FunctionsSafe DEF ProvidersInv
<1> QED BY <1>1, ProvidersInvariant, PTL

\* Every engine of another fires what was last written, when it was to be
\* fired, whatever else its users do meanwhile and whichever answers are lost;
\* for AWS, unless an older definition was written back to pause a schedule.
THEOREM SchedulesCorrect == ProvidersSpec => []SchedulesAreAsWritten
<1>1. ProvidersInv => SchedulesAreAsWritten
  BY SchedulersSafe DEF ProvidersInv
<1> QED BY <1>1, ProvidersInvariant, PTL

-----------------------------------------------------------------------------
(* Worker-based engines: how often a function is called. *)

\* The layers of a set-up agree: a policy the application owns is retried by no
\* worker, and no limit of the engine's own takes the place of the policy's.
Agreed(s) ==
    /\ s.engine = "dramatiq" => Enabled(s.policy) \/ s.max_retries = 0
    /\ s.engine = "celery" /\ s.policy.owner = "backend" =>
           s.max_retries >= s.policy.max_attempts - 1
    /\ s.engine # "dramatiq" /\ s.policy.owner = "application" /\ Enabled(s.policy) =>
           s.engine = "celery" /\ s.max_retries = 0

\* How often one job may be called, and all that were submitted, without a crash.
Each == EngineAttempts(Policy)

Granted ==
    IF Policy.owner = "application" THEN submitted
    ELSE IF submitted = 0 THEN 0 ELSE Policy.max_attempts

\* The calls that a bag of messages may still lead to, if each may be tried n times.
Waiting(q, n) ==
    {t \in ((DOMAIN q) \X Nat) \X Nat : /\ t[1][2] \in 1 .. q[t[1][1]]
                                       /\ t[2] \in 1 .. (n - t[1][1][2])}

\* Those that the messages in workers' hands may lead to, the one under way not counted.
InHand(hand, done, n) ==
    {t \in (DOMAIN hand) \X Nat : /\ hand[t[1]] # Idle /\ t[1] \notin done
                                  /\ t[2] \in 1 .. (n - hand[t[1]][2] - 1)}

\* Every call is of a message that was within its limit.
AttemptsInv ==
    /\ \A m \in DOMAIN queue : m[2] < Each /\ m[2] <= runs
    /\ \A w \in Workers : Busy(w) => worker[w][2] < Each /\ worker[w][2] + 1 <= runs
    /\ \A w \in Workers : worker[w] # Idle => worker[w][2] < Each /\ worker[w][2] <= runs

\* The calls that were made and those still due are granted, or owed to a crash.
CallsInv ==
    /\ submitted <= IF Policy.owner = "application" THEN Policy.max_attempts ELSE 1
    /\ IsFiniteSet(Waiting(queue, Each)) /\ IsFiniteSet(InHand(worker, stored, Each))
    /\ runs + Cardinality(Waiting(queue, Each)) + Cardinality(InHand(worker, stored, Each))
           <= Granted + Policy.max_attempts * crashes

PolicyInv == BrokerTypeOK /\ Agreed(setup) /\ AttemptsInv /\ CallsInv /\ FailedIsExhausted

-----------------------------------------------------------------------------
(* What the application is told. *)

\* Nothing was delivered twice.
Calm == ~ (Redeliver /\ crashes > 0)

\* A job is at one place, and not over while it is.
OncePlaced ==
    /\ \A m \in DOMAIN queue : queue[m] = 1 /\ stage[m[1]] \in {"waiting", "again"}
    /\ \A m, n \in DOMAIN queue : m[1] = n[1] => m = n
    /\ \A w \in Workers : Busy(w) =>
           /\ stage[worker[w][1]] \in {"waiting", "started", "again"}
           /\ Engine # "celery" => stage[worker[w][1]] = "started"
           /\ \A m \in DOMAIN queue : m[1] # worker[w][1]
           /\ \A v \in Workers : Busy(v) /\ worker[v][1] = worker[w][1] => v = w

\* What get() would tell of a job at each stage.
Shown == [s \in Stages |-> MapState(Word(s))]

\* What was told may be followed by what would be told, and an end is told once for all.
ToldInv ==
    \A j \in 1 .. submitted :
        /\ seen[j] \in State
        /\ \/ TransitionsTo(seen[j], Shown[stage[j]])
           \/ Engine = "procrastinate" /\ <<seen[j], Shown[stage[j]]>> = <<"running", "queued">>
        /\ seen[j] \in Terminal => Shown[stage[j]] = seen[j]

SeenInv ==
    /\ BrokerTypeOK
    /\ \A j \in Jobs : j > submitted => seen[j] = Absent
    /\ Calm => OncePlaced /\ ToldInv
-----------------------------------------------------------------------------
(* Counting calls. *)

\* A row of n pairs adds n to a set that has none of them.
LEMMA RowCount ==
    ASSUME NEW S, IsFiniteSet(S), NEW x, NEW n \in Nat, \A t \in S : t[1] # x
    PROVE  /\ IsFiniteSet(S \union ({x} \X (1 .. n)))
           /\ Cardinality(S \union ({x} \X (1 .. n))) = Cardinality(S) + n
<1> DEFINE R == {x} \X (1 .. n)
<1>1. IsFiniteSet(1 .. n) /\ Cardinality(1 .. n) = n
  BY FS_Interval
<1>2. IsFiniteSet({x}) /\ Cardinality({x}) = 1
  BY FS_Singleton
<1>3. IsFiniteSet(R) /\ Cardinality(R) = n
  BY <1>1, <1>2, FS_Product
<1>4. \A t \in R : t[1] = x
  OBVIOUS
<1>5. S \intersect R = {}
  BY <1>4
<1>6. Cardinality(S \intersect R) = 0
  BY <1>5, FS_EmptySet
<1>7. IsFiniteSet(S) /\ IsFiniteSet(R)
  BY <1>3
<1> HIDE DEF R
<1>8. /\ IsFiniteSet(S \union R)
      /\ Cardinality(S \union R) = Cardinality(S) + Cardinality(R) - Cardinality(S \intersect R)
  BY <1>7, FS_Union
<1>9. Cardinality(S) \in Nat
  BY FS_CardinalityType
<1> QED BY <1>3, <1>6, <1>8, <1>9 DEF R

\* A message is no mark of idleness.
LEMMA NotIdle == \A j, r : <<j, r>> # Idle
  BY DEF Idle

\* A bag with one more copy of a message.
LEMMA OneMore ==
    ASSUME NEW q, IsABag(q), NEW m
    PROVE  /\ IsABag(q (+) SetToBag({m}))
           /\ DOMAIN (q (+) SetToBag({m})) = DOMAIN q \union {m}
           /\ (q (+) SetToBag({m}))[m] = IF m \in DOMAIN q THEN q[m] + 1 ELSE 1
           /\ \A k \in DOMAIN q \ {m} : (q (+) SetToBag({m}))[k] = q[k]
<1>1. \A k \in DOMAIN q : q[k] \in Nat \ {0}
  BY DEF IsABag
<1> QED BY <1>1 DEF (+), SetToBag, IsABag

\* A bag with one copy less.
LEMMA OneLess ==
    ASSUME NEW q, IsABag(q), NEW m \in DOMAIN q
    PROVE  /\ IsABag(q (-) SetToBag({m}))
           /\ DOMAIN (q (-) SetToBag({m})) = IF q[m] = 1 THEN DOMAIN q \ {m} ELSE DOMAIN q
           /\ q[m] # 1 => (q (-) SetToBag({m}))[m] = q[m] - 1
           /\ \A k \in DOMAIN q \ {m} : (q (-) SetToBag({m}))[k] = q[k]
<1>1. \A k \in DOMAIN q : q[k] \in Nat \ {0}
  BY DEF IsABag
<1> DEFINE B == [e \in DOMAIN q |-> IF e \in {m} THEN q[e] - 1 ELSE q[e]]
<1>2. q (-) SetToBag({m}) = [e \in {d \in DOMAIN B : B[d] > 0} |-> B[e]]
  BY DEF (-), SetToBag
<1>3. {d \in DOMAIN B : B[d] > 0} = IF q[m] = 1 THEN DOMAIN q \ {m} ELSE DOMAIN q
  BY <1>1
<1> DEFINE r == q (-) SetToBag({m})
           D == {d \in DOMAIN B : B[d] > 0}
<1>4. r = [e \in D |-> B[e]]
  BY <1>2
<1>5. \A e \in D : e \in DOMAIN q /\ B[e] = (IF e = m THEN q[e] - 1 ELSE q[e])
  BY <1>1
<1>6. D = IF q[m] = 1 THEN DOMAIN q \ {m} ELSE DOMAIN q
  BY <1>3
<1> HIDE DEF r, B, D
<1>7. DOMAIN r = D /\ \A e \in D : r[e] = (IF e = m THEN q[e] - 1 ELSE q[e])
  BY <1>4, <1>5
<1>8. \A e \in D : r[e] \in Nat /\ r[e] > 0
  BY <1>1, <1>5, <1>6, <1>7
<1>9. r = [e \in DOMAIN r |-> r[e]]
  BY <1>4, <1>7
<1>10. IsABag(r)
  BY <1>7, <1>8, <1>9 DEF IsABag
<1>11. \A k \in DOMAIN q \ {m} : r[k] = q[k]
  BY <1>6, <1>7
<1>12. q[m] # 1 => r[m] = q[m] - 1
  BY <1>6, <1>7
<1> QED BY <1>6, <1>7, <1>10, <1>11, <1>12 DEF r

LEMMA LessType ==
    ASSUME NEW q, IsABag(q), NEW m \in DOMAIN q
    PROVE  IsABag(q (-) SetToBag({m})) /\ DOMAIN (q (-) SetToBag({m})) \subseteq DOMAIN q
<1> DEFINE p == q (-) SetToBag({m})
<1>1. IsABag(p) /\ DOMAIN p = IF q[m] = 1 THEN DOMAIN q \ {m} ELSE DOMAIN q
  BY OneLess
<1> HIDE DEF p
<1>2. IsABag(p) /\ DOMAIN p \subseteq DOMAIN q
  BY <1>1
<1> QED BY <1>2 DEF p

\* One more copy of a message may be called as often as it has attempts left.
LEMMA WaitingMore ==
    ASSUME NEW q, IsABag(q), NEW n \in Nat, NEW m, m[2] \in Nat, m[2] < n,
           \A k \in DOMAIN q : k[2] \in Nat,
           IsFiniteSet(Waiting(q, n))
    PROVE  /\ IsFiniteSet(Waiting((q (+) SetToBag({m})), n))
           /\ Cardinality(Waiting((q (+) SetToBag({m})), n)) = Cardinality(Waiting(q, n)) + (n - m[2])
<1> DEFINE c == IF m \in DOMAIN q THEN q[m] + 1 ELSE 1
           x == <<m, c>>
           p == (q (+) SetToBag({m}))
           R == {x} \X (1 .. (n - m[2]))
<1>1. /\ DOMAIN p = DOMAIN q \union {m} /\ p[m] = c /\ c \in Nat \ {0}
      /\ \A k \in DOMAIN q : q[k] \in Nat \ {0} /\ (k # m => p[k] = q[k])
      /\ m \in DOMAIN q => c = q[m] + 1
      /\ m \notin DOMAIN q => c = 1
  <2>1. \A k \in DOMAIN q : q[k] \in Nat \ {0}
    BY DEF IsABag
  <2>2. /\ DOMAIN p = DOMAIN q \union {m} /\ p[m] = c
        /\ \A k \in DOMAIN q \ {m} : p[k] = q[k]
    BY OneMore
  <2> HIDE DEF p
  <2> QED BY <2>1, <2>2
<1>2. n - m[2] \in Nat
  OBVIOUS
<1>3. ASSUME NEW t \in Waiting(q, n) PROVE t[1] # x
  BY <1>1, <1>3 DEF Waiting
<1> HIDE DEF p, c
<1>4. ASSUME NEW t \in Waiting(p, n) PROVE t \in Waiting(q, n) \union R
  <2>1. /\ t \in (((DOMAIN q) \union {m}) \X Nat) \X Nat
        /\ t[1][2] \in 1 .. p[t[1][1]] /\ t[2] \in 1 .. (n - t[1][1][2])
    BY <1>1, <1>4 DEF Waiting
  <2>2. CASE t[1] = x
    <3>1. t[1][1] = m
      BY <2>2
    <3>2. t[2] \in 1 .. (n - m[2]) /\ t = <<x, t[2]>>
      BY <2>1, <2>2, <3>1
    <3> QED BY <3>2
  <2>3. CASE t[1] # x
    <3>1. t[1] = <<t[1][1], t[1][2]>> /\ t = <<t[1], t[2]>>
      BY <2>1
    <3>2. t[1][1] = m => t[1][2] # c
      BY <2>3, <3>1
    <3>3. t[1][1] = m => m \in DOMAIN q /\ t[1][2] \in 1 .. q[m]
      BY <1>1, <2>1, <3>2
    <3>5. t[1][1] # m => t[1][1] \in DOMAIN q /\ t[1][2] \in 1 .. q[t[1][1]]
      BY <1>1, <2>1
    <3>4. t \in ((DOMAIN q) \X Nat) \X Nat
      BY <2>1, <3>1, <3>3, <3>5
    <3> QED BY <2>1, <3>3, <3>4, <3>5 DEF Waiting
  <2> QED BY <2>2, <2>3
<1>5. ASSUME NEW t \in Waiting(q, n) PROVE t \in Waiting(p, n)
  BY <1>1, <1>5 DEF Waiting
<1>6. ASSUME NEW i \in 1 .. (n - m[2]) PROVE <<x, i>> \in Waiting(p, n)
  <2>1. <<x, i>> \in ((DOMAIN p) \X Nat) \X Nat
    BY <1>1
  <2> QED BY <1>1, <2>1 DEF Waiting
<1>7. \A t \in R : \E i \in 1 .. (n - m[2]) : t = <<x, i>>
  OBVIOUS
<1>8. Waiting(p, n) = Waiting(q, n) \union R
  BY <1>4, <1>5, <1>6, <1>7
<1>9. /\ IsFiniteSet(Waiting(q, n) \union R)
      /\ Cardinality(Waiting(q, n) \union R) = Cardinality(Waiting(q, n)) + (n - m[2])
  <2> DEFINE S == Waiting(q, n)
             k == n - m[2]
  <2>1. IsFiniteSet(S) /\ k \in Nat /\ \A t \in S : t[1] # x
    BY <1>2, <1>3
  <2> HIDE DEF S, k, x
  <2>2. /\ IsFiniteSet(S \union ({x} \X (1 .. k)))
        /\ Cardinality(S \union ({x} \X (1 .. k))) = Cardinality(S) + k
    BY <2>1, RowCount
  <2> QED BY <2>2 DEF S, k, x
<1> QED BY <1>8, <1>9 DEF p

\* A copy that is taken away is called no more.
LEMMA WaitingLess ==
    ASSUME NEW q, IsABag(q), NEW n \in Nat, NEW m \in DOMAIN q, m[2] \in Nat, m[2] < n,
           \A k \in DOMAIN q : k[2] \in Nat,
           IsFiniteSet(Waiting(q, n))
    PROVE  /\ IsFiniteSet(Waiting((q (-) SetToBag({m})), n))
           /\ Cardinality(Waiting(q, n)) = Cardinality(Waiting((q (-) SetToBag({m})), n)) + (n - m[2])
<1> DEFINE p == (q (-) SetToBag({m}))
<1>1. /\ IsABag(p) /\ DOMAIN p \subseteq DOMAIN q
      /\ m \in DOMAIN p => p[m] = q[m] - 1
      /\ m \notin DOMAIN p => q[m] = 1
      /\ \A k \in DOMAIN q \ {m} : k \in DOMAIN p /\ p[k] = q[k]
  BY OneLess
<1>2. /\ \A k \in DOMAIN q : q[k] \in Nat \ {0}
      /\ \A k \in DOMAIN p : p[k] \in Nat \ {0}
  <2>1. \A k \in DOMAIN q : q[k] \in Nat \ {0}
    BY DEF IsABag
  <2> HIDE DEF p
  <2>2. \A k \in DOMAIN p : p[k] \in Nat \ {0}
    BY <1>1 DEF IsABag
  <2> QED BY <2>1, <2>2
<1> HIDE DEF p
<1>3. p (+) SetToBag({m}) = q
  <2> DEFINE r == p (+) SetToBag({m})
  <2>1. /\ IsABag(r) /\ DOMAIN r = DOMAIN p \union {m}
        /\ r[m] = IF m \in DOMAIN p THEN p[m] + 1 ELSE 1
        /\ \A k \in DOMAIN p \ {m} : r[k] = p[k]
    BY <1>1, OneMore
  <2> HIDE DEF r
  <2>2. DOMAIN r = DOMAIN q
    BY <1>1, <2>1
  <2>3. r[m] = q[m]
    BY <1>1, <1>2, <2>1
  <2>4. \A k \in DOMAIN q : r[k] = q[k]
    BY <1>1, <2>1, <2>3
  <2>5. r = [k \in DOMAIN r |-> r[k]]
    BY <2>1 DEF IsABag
  <2>7. q = [k \in DOMAIN q |-> q[k]]
    BY DEF IsABag
  <2>6. r = q
    BY <2>2, <2>4, <2>5, <2>7
  <2> QED BY <2>6 DEF r
<1>4. ASSUME NEW t \in Waiting(p, n) PROVE t \in Waiting(q, n)
  <2>1. t \in ((DOMAIN q) \X Nat) \X Nat /\ t[1][2] \in 1 .. p[t[1][1]]
        /\ t[2] \in 1 .. (n - t[1][1][2]) /\ t[1][1] \in DOMAIN p
    BY <1>1, <1>4 DEF Waiting
  <2>2. p[t[1][1]] <= q[t[1][1]] /\ p[t[1][1]] \in Nat /\ q[t[1][1]] \in Nat
    BY <1>1, <1>2, <2>1
  <2>3. t[1][2] \in 1 .. q[t[1][1]]
    BY <2>1, <2>2
  <2> QED BY <2>1, <2>3 DEF Waiting
<1>5. IsFiniteSet(Waiting(p, n))
  BY <1>4, FS_Subset
<1>6. \A k \in DOMAIN p : k[2] \in Nat
  BY <1>1
<1>7. Cardinality(Waiting((p (+) SetToBag({m})), n)) = Cardinality(Waiting(p, n)) + (n - m[2])
  BY <1>1, <1>5, <1>6, WaitingMore
<1> QED BY <1>3, <1>5, <1>7 DEF p

\* One worker's hands are freed of a message it was calling; the others' hold theirs.
Frees(hand, done, less, others, w) ==
    /\ w \in DOMAIN hand /\ hand[w] # Idle /\ w \notin done /\ hand[w][2] \in Nat
    /\ DOMAIN less = DOMAIN hand /\ (less[w] = Idle \/ w \in others)
    /\ \A v \in DOMAIN hand \ {w} : less[v] = hand[v] /\ (v \in done <=> v \in others)

\* A message in one worker's hands is as good as its attempts after this one.
LEMMA HandCount ==
    ASSUME NEW hand, NEW done, NEW less, NEW others, NEW w, NEW n \in Nat,
           Frees(hand, done, less, others, w), hand[w][2] < n
    PROVE  /\ IsFiniteSet(InHand(less, others, n)) <=> IsFiniteSet(InHand(hand, done, n))
           /\ IsFiniteSet(InHand(less, others, n)) =>
                  Cardinality(InHand(hand, done, n))
                      = Cardinality(InHand(less, others, n)) + (n - hand[w][2] - 1)
<1>0. /\ w \in DOMAIN hand /\ hand[w] # Idle /\ w \notin done /\ hand[w][2] \in Nat
      /\ DOMAIN less = DOMAIN hand /\ (less[w] = Idle \/ w \in others)
      /\ \A v \in DOMAIN hand \ {w} : less[v] = hand[v] /\ (v \in done <=> v \in others)
  BY DEF Frees
<1> DEFINE S == InHand(less, others, n)
           R == {w} \X (1 .. (n - hand[w][2] - 1))
<1>1. n - hand[w][2] - 1 \in Nat
  BY <1>0
<1>2. ASSUME NEW t \in S PROVE t[1] # w
  BY <1>0, <1>2 DEF InHand
<1>3. ASSUME NEW t \in InHand(hand, done, n) PROVE t \in S \union R
  <2>1. t \in (DOMAIN hand) \X Nat /\ t = <<t[1], t[2]>>
    BY <1>3 DEF InHand
  <2>2. CASE t[1] = w
    <3>1. t[2] \in 1 .. (n - hand[w][2] - 1)
      BY <1>0, <1>3, <2>2 DEF InHand
    <3> QED BY <2>1, <2>2, <3>1
  <2>3. CASE t[1] # w
    BY <1>0, <1>3, <2>1, <2>3 DEF InHand
  <2> QED BY <2>2, <2>3
<1>4. ASSUME NEW t \in S PROVE t \in InHand(hand, done, n)
  BY <1>0, <1>2, <1>4 DEF InHand
<1>5. ASSUME NEW t \in R PROVE t \in InHand(hand, done, n)
  <2>1. t \in (DOMAIN hand) \X Nat /\ t[1] = w /\ t[2] \in 1 .. (n - hand[w][2] - 1)
    BY <1>0, <1>5
  <2> QED BY <1>0, <2>1 DEF InHand
<1>6. InHand(hand, done, n) = S \union R
  BY <1>3, <1>4, <1>5
<1>7. IsFiniteSet(InHand(hand, done, n)) => IsFiniteSet(S)
  BY <1>6, FS_Subset
<1> HIDE DEF S
<1>8. IsFiniteSet(S) => /\ IsFiniteSet(S \union R)
                        /\ Cardinality(S \union R) = Cardinality(S) + (n - hand[w][2] - 1)
  BY <1>1, <1>2, RowCount
<1> QED BY <1>6, <1>7, <1>8 DEF S

-----------------------------------------------------------------------------
(* Types, and what an engine's record is told as. *)

LEMMA WordIs ==
    ASSUME NEW s \in Stages
    PROVE  /\ s = "waiting" => MapState(Word(s)) = "queued"
           /\ s = "started" => MapState(Word(s)) = "running"
           /\ s = "again" => MapState(Word(s)) = IF Engine = "procrastinate" THEN "queued" ELSE "running"
           /\ s = "succeeded" => MapState(Word(s)) = "succeeded"
           /\ s = "failed" => MapState(Word(s)) = "failed"
           /\ s = "revoked" => MapState(Word(s)) = "cancelled"
           /\ Engine = "procrastinate" => (Word(s) = "todo" <=> s \in {"waiting", "again"})
<1>1. CASE s = "waiting"
  BY <1>1 DEF Word, MapState, ProcrastinateMap, CeleryMap
<1>2. CASE s = "started"
  BY <1>2 DEF Word, MapState, ProcrastinateMap, CeleryMap
<1>3. CASE s = "again"
  BY <1>3 DEF Word, MapState, ProcrastinateMap, CeleryMap
<1>4. CASE s = "succeeded"
  BY <1>4 DEF Word, MapState, ProcrastinateMap, CeleryMap
<1>5. CASE s = "failed"
  BY <1>5 DEF Word, MapState, ProcrastinateMap, CeleryMap
<1>6. CASE s = "revoked"
  BY <1>6 DEF Word, MapState, ProcrastinateMap, CeleryMap
<1> QED BY <1>1, <1>2, <1>3, <1>4, <1>5, <1>6 DEF Stages

LEMMA WordType == \A s \in Stages : MapState(Word(s)) \in State
  BY WordIs DEF Stages, State

LEMMA SetupType ==
    ASSUME BrokerTypeOK
    PROVE  /\ Policy.max_attempts \in Nat \ {0} /\ Policy.owner \in Owners
           /\ Engine \in {"celery", "procrastinate", "dramatiq"}
           /\ EngineRetries \in Nat
           /\ Each \in Nat \ {0} /\ Each <= Policy.max_attempts
<1>1. setup \in Setups
  BY DEF BrokerTypeOK
<1>2. /\ Policy.max_attempts \in Nat \ {0} /\ Policy.owner \in Owners
      /\ Engine \in {"celery", "procrastinate", "dramatiq"}
      /\ EngineRetries \in Nat
  BY <1>1, BrokerAssumption DEF Policy, Engine, EngineRetries
<1> QED BY <1>2 DEF Each, EngineAttempts

\* The messages that there are.
LEMMA MessageType ==
    ASSUME BrokerTypeOK
    PROVE  /\ \A m \in DOMAIN queue : m = <<m[1], m[2]>> /\ m[1] \in 1 .. submitted /\ m[2] \in Nat
           /\ \A w \in Workers : worker[w] # Idle =>
                  LET m == worker[w] IN m = <<m[1], m[2]>> /\ m[1] \in 1 .. submitted /\ m[2] \in Nat
           /\ 1 .. submitted \subseteq Jobs
<1>1. 1 .. submitted \subseteq Jobs
  BY BrokerAssumption DEF BrokerTypeOK, Jobs
<1> QED BY <1>1 DEF BrokerTypeOK, BagToSet

LEMMA SubmitTypes == BrokerTypeOK /\ Submit => BrokerTypeOK'
<1> SUFFICES ASSUME BrokerTypeOK, Submit PROVE BrokerTypeOK'
  OBVIOUS
<1>1. /\ submitted' \in Jobs /\ submitted' = submitted + 1 /\ submitted \in Nat /\ submitted' <= MaxJobs
      /\ 1 .. submitted \subseteq 1 .. submitted'
  BY BrokerAssumption DEF BrokerTypeOK, Submit, Jobs
<1>2. UNCHANGED <<setup, revoked, worker, stored, runs, crashes>>
  BY DEF Submit
<1>3. Policy' = Policy /\ Message(Policy)' = Message(Policy)
  BY <1>2 DEF Policy, Message, Engine, EngineRetries
<1>4. sent' \in Seq({Message(Policy)})' /\ Len(sent') = submitted'
  <2>1. sent \in Seq({Message(Policy)}) /\ sent' = Append(sent, Message(Policy)) /\ Len(sent) = submitted
    BY DEF BrokerTypeOK, Submit
  <2> QED BY <1>1, <1>3, <2>1
<1>5. /\ stage' \in [Jobs -> Stages \union {Nothing}]
      /\ \A j \in 1 .. submitted' : stage'[j] \in Stages
  <2>1. stage' = [stage EXCEPT ![submitted'] = "waiting"] /\ "waiting" \in Stages
    BY DEF Submit, Stages
  <2> QED BY <1>1, <2>1 DEF BrokerTypeOK
<1>6. seen' \in [Jobs -> State \union {Absent}]
  BY <1>1 DEF BrokerTypeOK, Submit, State
<1>7. IsABag(queue') /\ BagToSet(queue') \subseteq (1 .. submitted') \X Nat
  <2>1. queue' = queue (+) SetToBag({<<submitted', 0>>}) /\ IsABag(queue)
    BY DEF Submit, BrokerTypeOK
  <2>2. IsABag(queue') /\ DOMAIN queue' = DOMAIN queue \union {<<submitted', 0>>}
    BY <2>1, OneMore
  <2>3. DOMAIN queue \subseteq (1 .. submitted') \X Nat
    BY <1>1 DEF BrokerTypeOK, BagToSet
  <2>4. <<submitted', 0>> \in (1 .. submitted') \X Nat
    BY <1>1
  <2> QED BY <2>2, <2>3, <2>4 DEF BagToSet
<1>8. worker' \in [Workers -> ((1 .. submitted') \X Nat) \union {Idle}]
  <2>1. worker \in [Workers -> ((1 .. submitted) \X Nat) \union {Idle}]
    BY DEF BrokerTypeOK
  <2> QED BY <1>1, <1>2, <2>1
<1> QED BY <1>1, <1>2, <1>4, <1>5, <1>6, <1>7, <1>8 DEF BrokerTypeOK

LEMMA CallTypes ==
    ASSUME BrokerTypeOK, NEW j \in Jobs, Get(j) \/ Revoke(j) \/ CancelJob(j)
    PROVE  BrokerTypeOK'
<1>1. /\ UNCHANGED <<setup, submitted, sent, worker, stored, runs, crashes>>
      /\ j \in 1 .. submitted
  BY DEF Get, Revoke, CancelJob, BrokerTypeOK, Jobs, broker
<1>2. Policy' = Policy /\ Message(Policy)' = Message(Policy)
  BY <1>1 DEF Policy, Message, Engine, EngineRetries
<1>3. revoked' \subseteq Jobs
  BY DEF Get, Revoke, CancelJob, BrokerTypeOK, broker
<1>4. /\ stage' \in [Jobs -> Stages \union {Nothing}]
      /\ \A i \in 1 .. submitted : stage'[i] \in Stages
  <2>1. CASE Get(j) \/ Revoke(j)
    BY <2>1 DEF Get, Revoke, BrokerTypeOK, broker
  <2>2. CASE CancelJob(j)
    <3>1. \E gone : stage' = [i \in Jobs |-> IF i \in gone THEN "revoked" ELSE stage[i]]
      BY <2>2 DEF CancelJob
    <3>2. "revoked" \in Stages /\ 1 .. submitted \subseteq Jobs
      BY MessageType DEF Stages
    <3> QED BY <3>1, <3>2 DEF BrokerTypeOK
  <2> QED BY <2>1, <2>2
<1>5. IsABag(queue') /\ BagToSet(queue') \subseteq (1 .. submitted) \X Nat
  <2>1. CASE Get(j) \/ Revoke(j)
    BY <2>1 DEF Get, Revoke, BrokerTypeOK, broker
  <2>2. CASE CancelJob(j)
    <3>1. \E gone : queue' = SetToBag({m \in BagToSet(queue) : m[1] \notin gone})
      BY <2>2 DEF CancelJob
    <3> QED BY <3>1 DEF BrokerTypeOK, SetToBag, BagToSet, IsABag
  <2> QED BY <2>1, <2>2
<1>6. seen' \in [Jobs -> State \union {Absent}]
  <2>1. seen' = [seen EXCEPT ![j] = MapState(Word(stage'[j]))]
    BY DEF Get, Revoke, CancelJob, broker
  <2>2. MapState(Word(stage'[j])) \in State
    <3>1. stage'[j] \in Stages
      BY <1>1, <1>4
    <3> QED BY <3>1, WordType
  <2> QED BY <2>1, <2>2 DEF BrokerTypeOK
<1> QED BY <1>1, <1>2, <1>3, <1>4, <1>5, <1>6 DEF BrokerTypeOK

LEMMA WorkTypes ==
    ASSUME BrokerTypeOK, NEW w \in Workers, Work(w) \/ Crash(w)
    PROVE  BrokerTypeOK'
<1>1. UNCHANGED <<setup, submitted, sent, seen, revoked>>
  BY DEF Work, Start, Discard, Succeeds, Raises, Ack, Crash, application, broker, Settle
<1>2. Policy' = Policy /\ Message(Policy)' = Message(Policy)
  BY <1>1 DEF Policy, Message, Engine, EngineRetries
<1>3. runs' \in Nat
  BY DEF Work, Start, Discard, Succeeds, Raises, Ack, Crash, BrokerTypeOK
<1>4. crashes' \in 0 .. MaxCrashes
  BY BrokerAssumption DEF Work, Start, Discard, Succeeds, Raises, Ack, Crash, BrokerTypeOK
<1> DEFINE M == (1 .. submitted) \X Nat
<1>5. /\ IsABag(queue) /\ DOMAIN queue \subseteq M
      /\ \A v \in Workers : worker[v] # Idle => worker[v] \in M
      /\ \A m \in M : m[1] \in Jobs /\ m[1] \in 1 .. submitted /\ <<m[1], m[2] + 1>> \in M
      /\ worker \in [Workers -> M \union {Idle}]
  <2>1. \A m \in M : m[1] \in Jobs /\ m[1] \in 1 .. submitted /\ <<m[1], m[2] + 1>> \in M
    BY MessageType
  <2> QED BY <2>1 DEF BrokerTypeOK, BagToSet
<1>6. IsABag(queue') /\ DOMAIN queue' \subseteq M
  <2>1. \/ UNCHANGED queue
        \/ \E m \in DOMAIN queue : queue' = queue (-) SetToBag({m})
        \/ \E m \in M : queue' = queue (+) SetToBag({m})
    BY <1>5 DEF Work, Start, Discard, Succeeds, Raises, Ack, Crash, broker, Busy, BagToSet
  <2>2. ASSUME NEW m \in DOMAIN queue, queue' = queue (-) SetToBag({m}) PROVE IsABag(queue') /\ DOMAIN queue' \subseteq M
    <3>1. IsABag(queue (-) SetToBag({m})) /\ DOMAIN (queue (-) SetToBag({m})) \subseteq DOMAIN queue
      <4>1. IsABag(queue)
        BY <1>5
      <4> QED BY <4>1, LessType
    <3> HIDE DEF M
    <3> QED BY <1>5, <2>2, <3>1
  <2>3. ASSUME NEW m \in M, queue' = queue (+) SetToBag({m}) PROVE IsABag(queue') /\ DOMAIN queue' \subseteq M
    <3>1. /\ IsABag(queue (+) SetToBag({m}))
          /\ DOMAIN (queue (+) SetToBag({m})) = DOMAIN queue \union {m}
      BY <1>5, OneMore
    <3> HIDE DEF M
    <3> QED BY <1>5, <2>3, <3>1
  <2> QED BY <1>5, <2>1, <2>2, <2>3
<1>7. /\ stage' \in [Jobs -> Stages \union {Nothing}]
      /\ \A i \in 1 .. submitted : stage'[i] \in Stages
  <2>1. \/ UNCHANGED stage
        \/ \E j \in 1 .. submitted : \E s \in Stages : stage' = [stage EXCEPT ![j] = s]
    <3>1. CASE Start(w)
      <4>1. PICK m \in DOMAIN queue :
                \E s \in {"started"} \union (IF Engine = "celery" THEN {stage[m[1]]} ELSE {}) :
                    stage' = [stage EXCEPT ![m[1]] = s]
        BY <3>1 DEF Start, BagToSet
      <4>2. m[1] \in 1 .. submitted /\ stage[m[1]] \in Stages /\ "started" \in Stages
        BY <1>5 DEF BrokerTypeOK, Stages
      <4> QED BY <4>1, <4>2
    <3>2. CASE Discard(w)
      <4>1. PICK m \in DOMAIN queue : stage' = [stage EXCEPT ![m[1]] = "revoked"]
        BY <3>2 DEF Discard, BagToSet
      <4> QED BY <1>5, <4>1 DEF Stages
    <3>3. CASE Succeeds(w) \/ Raises(w)
      <4>1. worker[w][1] \in 1 .. submitted
        BY <1>5, <3>3 DEF Succeeds, Raises, Busy
      <4> QED BY <3>3, <4>1 DEF Succeeds, Raises, Settle, Stages
    <3>4. CASE Ack(w) \/ Crash(w)
      BY <3>4 DEF Ack, Crash, broker
    <3> QED BY <3>1, <3>2, <3>3, <3>4 DEF Work
  <2>2. 1 .. submitted \subseteq Jobs
    BY MessageType
  <2> QED BY <2>1, <2>2 DEF BrokerTypeOK
<1>8. \/ UNCHANGED <<worker, stored>>
      \/ \E m \in M : worker' = [worker EXCEPT ![w] = m] /\ UNCHANGED stored
      \/ worker[w] # Idle /\ stored' = stored \union {w} /\ UNCHANGED worker
      \/ worker' = [worker EXCEPT ![w] = Idle] /\ stored' = stored \ {w}
  <2>1. CASE Start(w)
    <3>1. UNCHANGED stored /\ \E m \in DOMAIN queue : worker' = [worker EXCEPT ![w] = m]
      BY <2>1 DEF Start, BagToSet
    <3> QED BY <1>5, <3>1
  <2>2. CASE Discard(w)
    BY <2>2 DEF Discard
  <2>3. CASE Succeeds(w) \/ Raises(w)
    BY <2>3 DEF Succeeds, Raises, Settle, Busy
  <2>4. CASE Ack(w) \/ Crash(w)
    BY <2>4 DEF Ack, Crash
  <2> QED BY <2>1, <2>2, <2>3, <2>4 DEF Work
<1>9. /\ worker' \in [Workers -> M \union {Idle}]
      /\ stored' \subseteq {v \in Workers : worker'[v] # Idle}
  <2>1. stored \subseteq {v \in Workers : worker[v] # Idle}
    BY DEF BrokerTypeOK
  <2>2. \A m \in M : m # Idle
    BY NotIdle
  <2> HIDE DEF M
  <2> QED BY <1>5, <1>8, <2>1, <2>2
<1> QED BY <1>1, <1>2, <1>3, <1>4, <1>6, <1>7, <1>9 DEF BrokerTypeOK, BagToSet

LEMMA BrokerTypes == BrokerTypeOK /\ [BrokerNext]_brokerVars => BrokerTypeOK'
<1> SUFFICES ASSUME BrokerTypeOK, [BrokerNext]_brokerVars PROVE BrokerTypeOK'
  OBVIOUS
<1>1. CASE UNCHANGED brokerVars
  BY <1>1 DEF brokerVars, BrokerTypeOK, Policy, Message, Engine, EngineRetries
<1> QED BY <1>1, SubmitTypes, CallTypes, WorkTypes DEF BrokerNext

LEMMA BrokerStart == BrokerInit => BrokerTypeOK
<1> SUFFICES ASSUME BrokerInit PROVE BrokerTypeOK
  OBVIOUS
<1>1. IsABag(queue) /\ BagToSet(queue) = {}
  BY DEF BrokerInit, EmptyBag, SetToBag, IsABag, BagToSet
<1> QED BY <1>1, BrokerAssumption DEF BrokerInit, BrokerTypeOK, Jobs

-----------------------------------------------------------------------------
(* The policy decides. *)

\* What a job carries is what its policy makes of it.
LEMMA SentIs == BrokerTypeOK => \A j \in 1 .. submitted : sent[j] = Message(Policy)
<1> SUFFICES ASSUME BrokerTypeOK, NEW j \in 1 .. submitted PROVE sent[j] = Message(Policy)
  OBVIOUS
<1>1. sent \in Seq({Message(Policy)}) /\ Len(sent) = submitted
  BY DEF BrokerTypeOK
<1> QED BY <1>1

\* The envelope loses the owner of a policy, and nothing else of it.
LEMMA WireIs ==
    ASSUME NEW p
    PROVE  LET there == DecodeRetry(EncodeRetry(p))
           IN  /\ ~ Enabled(p) => there = NoRetry
               /\ Enabled(p) =>
                      /\ there.max_attempts = p.max_attempts /\ there.backoff = p.backoff
                      /\ there.initial_delay = p.initial_delay /\ there.max_delay = p.max_delay
                      /\ there.retry_on = p.retry_on /\ there.no_retry_on = p.no_retry_on
                      /\ there.owner = "backend"
<1> DEFINE raw == [max_attempts |-> p.max_attempts, backoff |-> p.backoff,
                   initial_delay |-> p.initial_delay, max_delay |-> p.max_delay,
                   retry_on |-> p.retry_on, no_retry_on |-> p.no_retry_on]
<1>1. CASE ~ Enabled(p)
  BY <1>1 DEF EncodeRetry, DecodeRetry
<1>2. CASE Enabled(p)
  <2>1. EncodeRetry(p) = {raw}
    BY <1>2 DEF EncodeRetry
  <2>2. (CHOOSE r \in {raw} : TRUE) = raw
    OBVIOUS
  <2>3. {raw} # {}
    OBVIOUS
  <2>4. DecodeRetry({raw}) =
            [max_attempts |-> raw.max_attempts, backoff |-> raw.backoff,
             initial_delay |-> raw.initial_delay, max_delay |-> raw.max_delay,
             retry_on |-> raw.retry_on, no_retry_on |-> raw.no_retry_on,
             owner |-> "backend"]
    BY <2>2, <2>3 DEF DecodeRetry
  <2>5. /\ DecodeRetry({raw}).max_attempts = p.max_attempts
        /\ DecodeRetry({raw}).backoff = p.backoff
        /\ DecodeRetry({raw}).initial_delay = p.initial_delay
        /\ DecodeRetry({raw}).max_delay = p.max_delay
        /\ DecodeRetry({raw}).retry_on = p.retry_on
        /\ DecodeRetry({raw}).no_retry_on = p.no_retry_on
        /\ DecodeRetry({raw}).owner = "backend"
    BY <2>4
  <2> HIDE DEF raw
  <2> QED BY <1>2, <2>1, <2>5
<1> QED BY <1>1, <1>2

\* An attempt is granted when the policy grants it, and only then.
LEMMA RetriesAsAgreed ==
    ASSUME BrokerTypeOK, Agreed(setup), NEW m, m[1] \in 1 .. submitted, m[2] \in Nat, NEW exc
    PROVE  /\ Retries(m, exc) => m[2] + 1 < Each
           /\ ~ Retries(m, exc) /\ Policy.owner = "backend" /\ ShouldRetry(Policy, exc, 0) =>
                  m[2] + 1 >= Policy.max_attempts
<1> DEFINE there == DecodeRetry(sent[m[1]].retry)
           limit == sent[m[1]].max_retries
<1>1. sent[m[1]] = Message(Policy)
  BY SentIs
<1>2. /\ limit = IF Engine = "dramatiq" /\ Enabled(Policy) THEN Each - 1 ELSE EngineRetries
      /\ there = DecodeRetry(EncodeRetry(Policy))
  BY <1>1 DEF Message, Each
<1>3. Retries(m, exc) <=> /\ Engine # "dramatiq" => ShouldRetry(there, exc, m[2] + 1)
                          /\ Engine # "procrastinate" => m[2] < limit
  BY DEF Retries, Attempt
<1>4. /\ Engine = "dramatiq" => Enabled(Policy) \/ EngineRetries = 0
      /\ Engine = "celery" /\ Policy.owner = "backend" => EngineRetries >= Policy.max_attempts - 1
      /\ Engine # "dramatiq" /\ Policy.owner = "application" /\ Enabled(Policy) =>
             Engine = "celery" /\ EngineRetries = 0
  BY DEF Agreed, Engine, Policy, EngineRetries
<1>5. /\ ~ Enabled(Policy) => there = NoRetry
      /\ Enabled(Policy) =>
             /\ there.max_attempts = Policy.max_attempts
             /\ there.retry_on = Policy.retry_on /\ there.no_retry_on = Policy.no_retry_on
             /\ there.owner = "backend"
  BY <1>2, WireIs
<1>6. /\ Each = IF Policy.owner = "backend" THEN Policy.max_attempts ELSE 1
      /\ Policy.max_attempts \in Nat \ {0} /\ Each \in Nat \ {0} /\ EngineRetries \in Nat
      /\ Engine \in {"celery", "procrastinate", "dramatiq"}
      /\ Policy.owner \in {"backend", "application", "none"}
      /\ Enabled(Policy) <=> Policy.max_attempts > 1 /\ Policy.owner # "none"
  BY SetupType DEF Each, EngineAttempts, Owners, Enabled
<1> HIDE DEF there, limit
<1>7. ASSUME Retries(m, exc) PROVE m[2] + 1 < Each
  <2>1. CASE Engine = "dramatiq"
    BY <1>2, <1>3, <1>4, <1>6, <1>7, <2>1
  <2>2. CASE Engine # "dramatiq"
    <3>1. ShouldRetry(there, exc, m[2] + 1)
      BY <1>3, <1>7, <2>2
    <3>2. Enabled(Policy)
      BY <1>5, <3>1 DEF ShouldRetry, NoRetry
    <3>3. m[2] + 1 < Policy.max_attempts
      BY <1>5, <3>1, <3>2 DEF ShouldRetry
    <3>4. Policy.owner = "backend"
      BY <1>2, <1>3, <1>4, <1>6, <1>7, <2>2, <3>2
    <3> QED BY <1>6, <3>3, <3>4
  <2> QED BY <2>1, <2>2
<1>8. ASSUME ~ Retries(m, exc), Policy.owner = "backend", ShouldRetry(Policy, exc, 0)
      PROVE  m[2] + 1 >= Policy.max_attempts
  <2>1. CASE ~ Enabled(Policy)
    BY <1>6, <1>8, <2>1
  <2>2. CASE Enabled(Policy)
    <3>1. ShouldRetry(there, exc, m[2] + 1) <=> m[2] + 1 < Policy.max_attempts
      BY <1>5, <1>8, <2>2 DEF ShouldRetry
    <3>2. CASE Engine = "procrastinate"
      BY <1>3, <1>6, <1>8, <3>1, <3>2
    <3>3. CASE Engine # "procrastinate"
      <4>1. ~ (m[2] < limit) \/ ~ (m[2] + 1 < Policy.max_attempts)
        BY <1>2, <1>3, <1>6, <1>8, <2>2, <3>1, <3>3
      <4>2. limit >= Policy.max_attempts - 1 /\ limit \in Nat
        BY <1>2, <1>4, <1>6, <1>8, <2>2, <3>3
      <4> QED BY <1>6, <4>1, <4>2
    <3> QED BY <3>2, <3>3
  <2> QED BY <2>1, <2>2
<1> QED BY <1>7, <1>8

\* What a worker decides by is what the submitter would decide by.
LEMMA WireKeepsIntent == BrokerTypeOK => IntentSurvivesTheWire
<1> SUFFICES ASSUME BrokerTypeOK, Policy.owner # "application", NEW j \in 1 .. submitted,
                    NEW a \in 1 .. Policy.max_attempts + 1, NEW exc \in Exceptions
             PROVE  LET there == DecodeRetry(sent[j].retry)
                    IN  /\ ShouldRetry(there, exc, a) <=> ShouldRetry(Policy, exc, a)
                        /\ ShouldRetry(Policy, exc, a) =>
                               DelayFor(there, a + 1) = DelayFor(Policy, a + 1)
  BY DEF IntentSurvivesTheWire
<1> DEFINE there == DecodeRetry(sent[j].retry)
<1>1. there = DecodeRetry(EncodeRetry(Policy))
  BY SentIs DEF Message
<1>2. /\ Policy.max_attempts \in Nat \ {0} /\ Policy.owner \in {"backend", "none"}
      /\ Enabled(Policy) <=> Policy.max_attempts > 1 /\ Policy.owner # "none"
  BY SetupType DEF Owners, Enabled
<1>3. CASE ~ Enabled(Policy)
  <2>1. there = NoRetry
    BY <1>1, <1>3, WireIs
  <2>2. ~ ShouldRetry(there, exc, a)
    BY <1>2, <2>1 DEF ShouldRetry, NoRetry
  <2>3. ~ ShouldRetry(Policy, exc, a)
    BY <1>2, <1>3 DEF ShouldRetry
  <2> QED BY <2>2, <2>3
<1>4. CASE Enabled(Policy)
  <2>1. /\ there.max_attempts = Policy.max_attempts /\ there.backoff = Policy.backoff
        /\ there.initial_delay = Policy.initial_delay /\ there.max_delay = Policy.max_delay
        /\ there.retry_on = Policy.retry_on /\ there.no_retry_on = Policy.no_retry_on
        /\ there.owner = "backend"
    BY <1>1, <1>4, WireIs
  <2>2. Policy.owner = "backend"
    BY <1>2, <1>4
  <2> HIDE DEF there
  <2>3. ShouldRetry(there, exc, a) <=> ShouldRetry(Policy, exc, a)
    BY <2>1, <2>2 DEF ShouldRetry
  <2>4. Growth(there, a + 1) = Growth(Policy, a + 1)
    BY <2>1 DEF Growth
  <2>5. DelayFor(there, a + 1) = DelayFor(Policy, a + 1)
    BY <2>1, <2>4 DEF DelayFor
  <2> QED BY <2>3, <2>5 DEF there
<1> QED BY <1>3, <1>4

-----------------------------------------------------------------------------
(* Every step spends what is granted, or what a crash owes. *)

\* A policy and what depends on it alone stay.
LEMMA PolicyKept ==
    ASSUME UNCHANGED setup
    PROVE  Policy' = Policy /\ Each' = Each /\ Agreed(setup)' = Agreed(setup)
  BY DEF Policy, Each

\* The failed have been tried as often as they may, if no new ones are added.
LEMMA FailedKept ==
    ASSUME PolicyInv, UNCHANGED setup, submitted' = submitted, runs' \in Nat, runs' >= runs,
           \A j \in 1 .. submitted :
               stage'[j] = "failed" =>
                   \/ stage[j] = "failed"
                   \/ Policy.owner = "backend" /\ (\A exc \in Exceptions : ShouldRetry(Policy, exc, 0))
                          => runs >= Policy.max_attempts
    PROVE  FailedIsExhausted'
<1>1. Policy' = Policy
  BY PolicyKept
<1>2. runs \in Nat /\ Policy.max_attempts \in Nat
  BY SetupType DEF PolicyInv, BrokerTypeOK
<1> QED BY <1>1, <1>2 DEF PolicyInv, FailedIsExhausted

\* What is granted is counted in numbers.
LEMMA CountsType ==
    ASSUME PolicyInv
    PROVE  /\ runs \in Nat /\ submitted \in Nat /\ crashes \in Nat
           /\ Policy.max_attempts \in Nat \ {0} /\ Each \in Nat \ {0} /\ Each <= Policy.max_attempts
           /\ Granted \in Nat /\ Policy.max_attempts * crashes \in Nat
           /\ Cardinality(Waiting(queue, Each)) \in Nat
           /\ Cardinality(InHand(worker, stored, Each)) \in Nat
           /\ IsABag(queue) /\ \A m \in DOMAIN queue : m[2] \in Nat
           /\ DOMAIN worker = Workers
<1>1. runs \in Nat /\ submitted \in Nat /\ crashes \in Nat /\ IsABag(queue) /\ DOMAIN worker = Workers
  BY BrokerAssumption DEF PolicyInv, BrokerTypeOK
<1>2. Policy.max_attempts \in Nat \ {0} /\ Each \in Nat \ {0} /\ Each <= Policy.max_attempts
  BY SetupType DEF PolicyInv
<1>3. Granted \in Nat
  BY <1>1, <1>2 DEF Granted
<1>4. Policy.max_attempts * crashes \in Nat
  BY <1>1, <1>2
<1>5. /\ Cardinality(Waiting(queue, Each)) \in Nat
      /\ Cardinality(InHand(worker, stored, Each)) \in Nat
  BY FS_CardinalityType DEF PolicyInv, CallsInv
<1>6. \A m \in DOMAIN queue : m[2] \in Nat
  BY MessageType DEF PolicyInv
<1> QED BY <1>1, <1>2, <1>3, <1>4, <1>5, <1>6

LEMMA SubmitPolicy == ASSUME PolicyInv, Submit PROVE PolicyInv'
<1>1. /\ BrokerTypeOK /\ BrokerTypeOK' /\ UNCHANGED <<setup, revoked, worker, stored, runs, crashes>>
      /\ submitted' = submitted + 1
  BY SubmitTypes DEF PolicyInv, Submit
<1>2. Policy' = Policy /\ Each' = Each /\ Agreed(setup)'
  BY <1>1, PolicyKept DEF PolicyInv
<1> DEFINE m == <<submitted', 0>>
<1>3. queue' = queue (+) SetToBag({m}) /\ m[2] = 0
  BY DEF Submit
<1>4. DOMAIN queue' = DOMAIN queue \union {m}
  BY <1>3, CountsType, OneMore
<1>5. AttemptsInv'
  <2>1. \A k \in DOMAIN queue' : k[2] < Each /\ k[2] <= runs
    BY <1>3, <1>4, CountsType DEF PolicyInv, AttemptsInv
  <2> QED BY <1>1, <1>2, <2>1 DEF PolicyInv, AttemptsInv, Busy
<1>6. CallsInv'
  <2>1. /\ IsFiniteSet(Waiting(queue', Each))
        /\ Cardinality(Waiting(queue', Each)) = Cardinality(Waiting(queue, Each)) + Each
    <3>1. IsFiniteSet(Waiting(queue, Each))
      BY DEF PolicyInv, CallsInv
    <3>2. m[2] \in Nat /\ m[2] < Each /\ Each \in Nat
      BY <1>3, CountsType
    <3>3. /\ IsFiniteSet(Waiting(queue', Each))
          /\ Cardinality(Waiting(queue', Each)) = Cardinality(Waiting(queue, Each)) + (Each - m[2])
      <4>1. IsABag(queue) /\ \A k \in DOMAIN queue : k[2] \in Nat
        BY CountsType
      <4> HIDE DEF m
      <4>2. /\ IsFiniteSet(Waiting(queue (+) SetToBag({m}), Each))
            /\ Cardinality(Waiting(queue (+) SetToBag({m}), Each))
                   = Cardinality(Waiting(queue, Each)) + (Each - m[2])
        BY <3>1, <3>2, <4>1, WaitingMore
      <4> QED BY <1>3, <4>2
    <3> QED BY <1>3, <3>3, CountsType
  <2>2. Granted' >= Granted + Each /\ Granted' \in Nat
        /\ submitted' <= IF Policy.owner = "application" THEN Policy.max_attempts ELSE 1
    <3>1. CASE Policy.owner = "application"
      <4>1. Each = 1
        BY <3>1 DEF Each, EngineAttempts
      <4>2. submitted' <= Policy.max_attempts
        <5>1. submitted = 0 \/ submitted < Policy.max_attempts
          BY <3>1 DEF Submit
        <5> QED BY <1>1, <5>1, CountsType
      <4> QED BY <1>1, <1>2, <3>1, <4>1, <4>2, CountsType DEF Granted
    <3>2. CASE Policy.owner # "application"
      <4>1. submitted = 0
        BY <3>2 DEF Submit
      <4>2. Granted = 0 /\ Granted' = Policy.max_attempts
        BY <1>1, <1>2, <3>2, <4>1 DEF Granted
      <4> QED BY <1>1, <3>2, <4>1, <4>2, CountsType
    <3> QED BY <3>1, <3>2
  <2>3. /\ IsFiniteSet(InHand(worker, stored, Each))
        /\ runs + Cardinality(Waiting(queue, Each)) + Cardinality(InHand(worker, stored, Each))
               <= Granted + Policy.max_attempts * crashes
    BY DEF PolicyInv, CallsInv
  <2>4. runs + Cardinality(Waiting(queue', Each)) + Cardinality(InHand(worker, stored, Each))
            <= Granted' + Policy.max_attempts * crashes
    BY <2>1, <2>2, <2>3, CountsType
  <2> QED BY <1>1, <1>2, <2>1, <2>2, <2>3, <2>4 DEF CallsInv
<1>7. FailedIsExhausted'
  <2>1. /\ submitted \in Nat /\ submitted' \in Jobs /\ stage \in [Jobs -> Stages \union {Nothing}]
        /\ stage' = [stage EXCEPT ![submitted'] = "waiting"]
    BY <1>1, CountsType DEF BrokerTypeOK, Submit, Jobs
  <2>2. ASSUME NEW j \in 1 .. submitted', stage'[j] = "failed"
        PROVE  j \in 1 .. submitted /\ stage[j] = "failed"
    <3>1. j # submitted'
      BY <2>1, <2>2
    <3> QED BY <1>1, <2>1, <2>2, <3>1
  <2> QED BY <1>1, <1>2, <2>2 DEF PolicyInv, FailedIsExhausted
<1> QED BY <1>1, <1>2, <1>5, <1>6, <1>7 DEF PolicyInv

\* A step that adds no messages keeps the account.
LEMMA FewerCalls ==
    ASSUME PolicyInv, UNCHANGED <<setup, submitted>>, crashes' \in Nat, crashes' >= crashes,
           runs' \in Nat,
           IsFiniteSet(Waiting(queue', Each)), IsFiniteSet(InHand(worker', stored', Each)),
           runs' + Cardinality(Waiting(queue', Each)) + Cardinality(InHand(worker', stored', Each))
               <= runs + Cardinality(Waiting(queue, Each)) + Cardinality(InHand(worker, stored, Each))
                      + (IF crashes' = crashes THEN 0 ELSE Policy.max_attempts)
    PROVE  CallsInv'
<1>1. Policy' = Policy /\ Each' = Each /\ Granted' = Granted
  BY PolicyKept DEF Granted
<1>2. crashes' # crashes => Policy.max_attempts * crashes' >= Policy.max_attempts * crashes + Policy.max_attempts
  <2>1. ASSUME NEW p \in Nat, NEW a \in Nat, NEW b \in Nat, b >= a + 1 PROVE p * b >= p * a + p
    <3>1. PICK d \in Nat : b = a + 1 + d
      <4>1. b - a - 1 \in Nat /\ b = a + 1 + (b - a - 1)
        BY <2>1
      <4> QED BY <4>1
    <3>2. p * b = p * a + p + p * d /\ p * d \in Nat /\ p * a \in Nat
      BY <3>1
    <3> QED BY <3>2
  <2> QED BY <2>1, CountsType
<1>3. /\ submitted <= IF Policy.owner = "application" THEN Policy.max_attempts ELSE 1
      /\ runs + Cardinality(Waiting(queue, Each)) + Cardinality(InHand(worker, stored, Each))
             <= Granted + Policy.max_attempts * crashes
  BY DEF PolicyInv, CallsInv
<1>4. Policy.max_attempts * crashes' \in Nat
  BY CountsType
<1>5. Cardinality(Waiting(queue', Each)) \in Nat /\ Cardinality(InHand(worker', stored', Each)) \in Nat
  BY FS_CardinalityType
<1>6. runs' + Cardinality(Waiting(queue', Each)) + Cardinality(InHand(worker', stored', Each))
          <= Granted + Policy.max_attempts * crashes'
  BY <1>2, <1>3, <1>4, <1>5, CountsType
<1> QED BY <1>1, <1>3, <1>6 DEF CallsInv

\* The calls that may still come of what has been taken away are no more.
LEMMA FewerWaiting ==
    ASSUME NEW p, NEW q, NEW n, IsFiniteSet(Waiting(q, n)),
           \A m \in DOMAIN p : m \in DOMAIN q /\ p[m] \in Nat /\ q[m] \in Nat /\ p[m] <= q[m]
    PROVE  /\ IsFiniteSet(Waiting(p, n))
           /\ Cardinality(Waiting(p, n)) <= Cardinality(Waiting(q, n))
<1>1. ASSUME NEW t \in Waiting(p, n) PROVE t \in Waiting(q, n)
  <2>1. /\ t \in ((DOMAIN p) \X Nat) \X Nat /\ t[1][2] \in 1 .. p[t[1][1]]
        /\ t[2] \in 1 .. (n - t[1][1][2]) /\ t[1][1] \in DOMAIN p
    BY <1>1 DEF Waiting
  <2>2. t \in ((DOMAIN q) \X Nat) \X Nat
    BY <2>1
  <2>3. t[1][2] \in 1 .. q[t[1][1]]
    BY <2>1
  <2> QED BY <2>1, <2>2, <2>3 DEF Waiting
<1>2. Waiting(p, n) \subseteq Waiting(q, n)
  BY <1>1
<1> QED BY <1>2, FS_Subset

LEMMA CallPolicy ==
    ASSUME PolicyInv, NEW j \in Jobs, Get(j) \/ Revoke(j) \/ CancelJob(j)
    PROVE  PolicyInv'
<1>1. /\ UNCHANGED <<setup, submitted, sent, worker, stored, runs, crashes>> /\ BrokerTypeOK'
  BY CallTypes DEF PolicyInv, Get, Revoke, CancelJob
<1>2. Policy' = Policy /\ Each' = Each /\ Agreed(setup)'
  BY <1>1, PolicyKept DEF PolicyInv
<1>3. \A m \in DOMAIN queue' : m \in DOMAIN queue /\ queue'[m] \in Nat /\ queue[m] \in Nat
                                 /\ queue'[m] <= queue[m]
  <2>1. \A m \in DOMAIN queue : queue[m] \in Nat \ {0}
    BY CountsType DEF IsABag
  <2>2. CASE Get(j) \/ Revoke(j)
    BY <2>1, <2>2 DEF Get, Revoke, broker
  <2>3. CASE CancelJob(j)
    <3>1. \E gone : queue' = SetToBag({m \in BagToSet(queue) : m[1] \notin gone})
      BY <2>3 DEF CancelJob
    <3> QED BY <2>1, <3>1 DEF SetToBag, BagToSet
  <2> QED BY <2>2, <2>3
<1>4. AttemptsInv'
  BY <1>1, <1>2, <1>3 DEF PolicyInv, AttemptsInv, Busy
<1>5. CallsInv'
  <2>1. IsFiniteSet(Waiting(queue, Each)) /\ IsFiniteSet(InHand(worker, stored, Each))
    BY DEF PolicyInv, CallsInv
  <2>2. /\ IsFiniteSet(Waiting(queue', Each))
        /\ Cardinality(Waiting(queue', Each)) <= Cardinality(Waiting(queue, Each))
    BY <1>3, <2>1, FewerWaiting
  <2>3. Cardinality(Waiting(queue', Each)) \in Nat
    BY <2>2, FS_CardinalityType
  <2> QED BY <1>1, <2>1, <2>2, <2>3, CountsType, FewerCalls
<1>6. FailedIsExhausted'
  <2>1. \A i \in 1 .. submitted : stage'[i] = "failed" => stage[i] = "failed"
    <3>1. CASE Get(j) \/ Revoke(j)
      BY <3>1 DEF Get, Revoke, broker
    <3>2. CASE CancelJob(j)
      <4>1. \E gone : stage' = [i \in Jobs |-> IF i \in gone THEN "revoked" ELSE stage[i]]
        BY <3>2 DEF CancelJob
      <4>2. 1 .. submitted \subseteq Jobs
        BY MessageType DEF PolicyInv
      <4> QED BY <4>1, <4>2
    <3> QED BY <3>1, <3>2
  <2> QED BY <1>1, <2>1, CountsType, FailedKept
<1> QED BY <1>1, <1>2, <1>4, <1>5, <1>6 DEF PolicyInv

\* A worker that stops counting gives up what its message had left.
LEMMA HandsLess ==
    ASSUME PolicyInv, NEW w \in Workers, NEW less, NEW others, DOMAIN less = Workers,
           less[w] = Idle \/ w \in others,
           \A v \in Workers \ {w} : less[v] = worker[v] /\ (v \in stored <=> v \in others)
    PROVE  /\ IsFiniteSet(InHand(less, others, Each))
           /\ Cardinality(InHand(less, others, Each)) \in Nat
           /\ Busy(w) => Cardinality(InHand(worker, stored, Each))
                             = Cardinality(InHand(less, others, Each)) + (Each - worker[w][2] - 1)
           /\ ~ Busy(w) => InHand(less, others, Each) = InHand(worker, stored, Each)
<1>1. IsFiniteSet(InHand(worker, stored, Each)) /\ DOMAIN worker = Workers /\ Each \in Nat
  BY CountsType DEF PolicyInv, CallsInv
<1>2. CASE Busy(w)
  <2>1. worker[w] # Idle /\ w \notin stored /\ worker[w][2] \in Nat /\ worker[w][2] < Each
    BY <1>2, MessageType DEF Busy, PolicyInv, AttemptsInv
  <2>2. /\ IsFiniteSet(InHand(less, others, Each)) <=> IsFiniteSet(InHand(worker, stored, Each))
        /\ IsFiniteSet(InHand(less, others, Each)) =>
               Cardinality(InHand(worker, stored, Each))
                   = Cardinality(InHand(less, others, Each)) + (Each - worker[w][2] - 1)
    <3>1. Frees(worker, stored, less, others, w)
      BY <1>1, <2>1 DEF Frees
    <3>2. Each \in Nat /\ worker[w][2] < Each
      BY <1>1, <2>1
    <3> DEFINE I == InHand(less, others, Each)
               H == InHand(worker, stored, Each)
    <3>3. IsFiniteSet(I) <=> IsFiniteSet(H)
      BY <3>1, <3>2, HandCount
    <3>4. ASSUME IsFiniteSet(I) PROVE Cardinality(H) = Cardinality(I) + (Each - worker[w][2] - 1)
      BY <3>1, <3>2, <3>4, HandCount
    <3> QED BY <3>3, <3>4
  <2>3. IsFiniteSet(InHand(less, others, Each))
    BY <1>1, <2>2
  <2> QED BY <1>2, <2>2, <2>3, FS_CardinalityType
<1>3. CASE ~ Busy(w)
  <2>1. worker[w] = Idle \/ w \in stored
    BY <1>3 DEF Busy
  <2>2. InHand(less, others, Each) = InHand(worker, stored, Each)
    BY <1>1, <2>1 DEF InHand
  <2> QED BY <1>1, <1>3, <2>2, FS_CardinalityType
<1> QED BY <1>2, <1>3

LEMMA StartPolicy == ASSUME PolicyInv, NEW w \in Workers, Start(w) PROVE PolicyInv'
<1>1. /\ UNCHANGED <<setup, submitted, stored, crashes>> /\ runs' = runs + 1 /\ BrokerTypeOK'
      /\ worker[w] = Idle
  BY WorkTypes DEF PolicyInv, Work, Start, application
<1>2. Policy' = Policy /\ Each' = Each /\ Agreed(setup)'
  BY <1>1, PolicyKept DEF PolicyInv
<1>3. PICK m \in DOMAIN queue :
          /\ queue' = queue (-) SetToBag({m})
          /\ worker' = [worker EXCEPT ![w] = m]
          /\ \E s \in {"started"} \union (IF Engine = "celery" THEN {stage[m[1]]} ELSE {}) :
                 stage' = [stage EXCEPT ![m[1]] = s]
  BY DEF Start, BagToSet
<1>4. /\ m = <<m[1], m[2]>> /\ m[1] \in 1 .. submitted /\ m[2] \in Nat /\ m[2] < Each /\ m[2] <= runs
      /\ DOMAIN queue' \subseteq DOMAIN queue
  <2>1. m = <<m[1], m[2]>> /\ m[1] \in 1 .. submitted /\ m[2] \in Nat
    BY MessageType DEF PolicyInv
  <2>2. m[2] < Each /\ m[2] <= runs
    BY DEF PolicyInv, AttemptsInv
  <2>3. DOMAIN queue' \subseteq DOMAIN queue
    BY <1>3, CountsType, OneLess
  <2> QED BY <2>1, <2>2, <2>3
<1>5. /\ worker'[w] = m /\ m # Idle /\ DOMAIN worker' = Workers /\ w \notin stored
      /\ \A v \in Workers \ {w} : worker'[v] = worker[v]
  <2>1. m # Idle
    BY <1>4, NotIdle
  <2>2. w \notin stored
    BY <1>1 DEF PolicyInv, BrokerTypeOK
  <2> QED BY <1>3, <2>1, <2>2, CountsType
<1>6. AttemptsInv'
  <2>1. \A k \in DOMAIN queue : k[2] < Each /\ k[2] <= runs /\ k[2] \in Nat
    BY CountsType DEF PolicyInv, AttemptsInv
  <2>2. \A k \in DOMAIN queue' : k[2] < Each /\ k[2] <= runs'
    BY <1>1, <1>4, <2>1, CountsType
  <2>3. ASSUME NEW v \in Workers, worker'[v] # Idle
        PROVE  /\ worker'[v][2] < Each /\ worker'[v][2] <= runs'
               /\ v \notin stored => worker'[v][2] + 1 <= runs'
    <3>1. CASE v = w
      BY <1>1, <1>4, <1>5, <3>1, CountsType
    <3>2. CASE v # w
      <4>1. /\ worker[v][2] < Each /\ worker[v][2] <= runs /\ worker[v][2] \in Nat
            /\ v \notin stored => worker[v][2] + 1 <= runs
        BY <1>5, <2>3, <3>2, MessageType DEF PolicyInv, AttemptsInv, Busy
      <4> QED BY <1>1, <1>5, <3>2, <4>1, CountsType
    <3> QED BY <3>1, <3>2
  <2> QED BY <1>1, <1>2, <2>2, <2>3 DEF AttemptsInv, Busy
<1>7. CallsInv'
  <2> DEFINE W == Cardinality(Waiting(queue, Each))
             V == Cardinality(Waiting(queue', Each))
             H == Cardinality(InHand(worker, stored, Each))
             I == Cardinality(InHand(worker', stored', Each))
  <2>1. IsFiniteSet(Waiting(queue, Each)) /\ IsFiniteSet(InHand(worker, stored, Each))
    BY DEF PolicyInv, CallsInv
  <2>2. IsFiniteSet(Waiting(queue', Each)) /\ W = V + (Each - m[2])
    <3>1. Each \in Nat /\ IsABag(queue) /\ \A k \in DOMAIN queue : k[2] \in Nat
      BY CountsType
    <3> QED BY <1>3, <1>4, <2>1, <3>1, WaitingLess
  <2>3. IsFiniteSet(InHand(worker', stored', Each)) /\ I = H + (Each - m[2] - 1)
    <3>1. Frees(worker', stored, worker, stored, w) /\ worker'[w][2] < Each /\ Each \in Nat
      BY <1>1, <1>4, <1>5, CountsType DEF Frees
    <3>2. IsFiniteSet(InHand(worker', stored, Each))
      BY <2>1, <3>1, HandCount
    <3>3. Cardinality(InHand(worker', stored, Each)) = H + (Each - worker'[w][2] - 1)
      BY <2>1, <3>1, HandCount
    <3>4. stored' = stored /\ worker'[w] = m
      BY <1>1, <1>5
    <3> QED BY <3>2, <3>3, <3>4
  <2>4. W \in Nat /\ V \in Nat /\ H \in Nat /\ I \in Nat
    BY <2>1, <2>2, <2>3, FS_CardinalityType
  <2> HIDE DEF W, V, H, I
  <2>5. runs' + V + I <= runs + W + H
    BY <1>1, <1>4, <2>2, <2>3, <2>4, CountsType
  <2> QED BY <1>1, <2>2, <2>3, <2>5, CountsType, FewerCalls DEF W, V, H, I
<1>8. FailedIsExhausted'
  <2>1. \A i \in 1 .. submitted : stage'[i] = "failed" => stage[i] = "failed"
    BY <1>3 DEF PolicyInv, BrokerTypeOK
  <2> QED BY <1>1, <2>1, CountsType, FailedKept
<1> QED BY <1>1, <1>2, <1>6, <1>7, <1>8 DEF PolicyInv

LEMMA DiscardPolicy == ASSUME PolicyInv, NEW w \in Workers, Discard(w) PROVE PolicyInv'
<1>1. UNCHANGED <<setup, submitted, worker, stored, runs, crashes>> /\ BrokerTypeOK'
  BY WorkTypes DEF PolicyInv, Work, Discard, application
<1>2. Policy' = Policy /\ Each' = Each /\ Agreed(setup)'
  BY <1>1, PolicyKept DEF PolicyInv
<1>3. PICK m \in DOMAIN queue :
          queue' = queue (-) SetToBag({m}) /\ stage' = [stage EXCEPT ![m[1]] = "revoked"]
  BY DEF Discard, BagToSet
<1>4. \A k \in DOMAIN queue' : k \in DOMAIN queue /\ queue'[k] \in Nat /\ queue[k] \in Nat
                                 /\ queue'[k] <= queue[k]
  <2>1. \A k \in DOMAIN queue : queue[k] \in Nat \ {0}
    BY CountsType DEF IsABag
  <2>2. /\ DOMAIN queue' = IF queue[m] = 1 THEN DOMAIN queue \ {m} ELSE DOMAIN queue
        /\ queue[m] # 1 => queue'[m] = queue[m] - 1
        /\ \A k \in DOMAIN queue \ {m} : queue'[k] = queue[k]
    BY <1>3, CountsType, OneLess
  <2> QED BY <2>1, <2>2
<1>5. AttemptsInv'
  BY <1>1, <1>2, <1>4 DEF PolicyInv, AttemptsInv, Busy
<1>6. CallsInv'
  <2>1. IsFiniteSet(Waiting(queue, Each)) /\ IsFiniteSet(InHand(worker, stored, Each))
    BY DEF PolicyInv, CallsInv
  <2>2. /\ IsFiniteSet(Waiting(queue', Each))
        /\ Cardinality(Waiting(queue', Each)) <= Cardinality(Waiting(queue, Each))
    BY <1>4, <2>1, FewerWaiting
  <2>3. Cardinality(Waiting(queue', Each)) \in Nat
    BY <2>2, FS_CardinalityType
  <2> QED BY <1>1, <2>1, <2>2, <2>3, CountsType, FewerCalls
<1>7. FailedIsExhausted'
  <2>1. \A i \in 1 .. submitted : stage'[i] = "failed" => stage[i] = "failed"
    BY <1>3 DEF PolicyInv, BrokerTypeOK
  <2> QED BY <1>1, <2>1, CountsType, FailedKept
<1> QED BY <1>1, <1>2, <1>5, <1>6, <1>7 DEF PolicyInv

\* An outcome is stored: the worker's hands are empty, or what is in them is done with.
LEMMA SettleHands ==
    ASSUME PolicyInv, NEW w \in Workers, Busy(w), NEW s, Settle(w, s), UNCHANGED setup
    PROVE  /\ worker'[w] = Idle \/ w \in stored'
           /\ DOMAIN worker' = Workers
           /\ \A v \in Workers \ {w} : worker'[v] = worker[v] /\ (v \in stored <=> v \in stored')
           /\ \A v \in Workers : worker'[v] # Idle => worker'[v] = worker[v] /\ (Busy(v)' => Busy(v))
           /\ stage' = [stage EXCEPT ![worker[w][1]] = s]
<1>1. DOMAIN worker = Workers
  BY CountsType
<1> QED BY <1>1 DEF Settle, Busy

LEMMA SettlePolicy ==
    ASSUME PolicyInv, NEW w \in Workers, Succeeds(w) \/ Raises(w)
    PROVE  PolicyInv'
<1>1. UNCHANGED <<setup, submitted, runs, crashes>> /\ BrokerTypeOK' /\ Busy(w)
  BY WorkTypes DEF PolicyInv, Work, Succeeds, Raises, application
<1>2. Policy' = Policy /\ Each' = Each /\ Agreed(setup)'
  BY <1>1, PolicyKept DEF PolicyInv
<1> DEFINE m == worker[w]
           next == <<m[1], m[2] + 1>>
<1>3. /\ m[1] \in 1 .. submitted /\ m[2] \in Nat /\ m[2] < Each /\ m[2] + 1 <= runs
      /\ next[1] = m[1] /\ next[2] = m[2] + 1
  BY <1>1, MessageType DEF PolicyInv, AttemptsInv, Busy
<1>4. PICK s \in {"succeeded", "again", "failed"} :
          /\ Settle(w, s)
          /\ \/ UNCHANGED queue /\ s # "again"
             \/ s = "again" /\ queue' = queue (+) SetToBag({next}) /\ m[2] + 1 < Each
          /\ s = "failed" /\ Policy.owner = "backend"
                 /\ (\A exc \in Exceptions : ShouldRetry(Policy, exc, 0)) => m[2] + 1 >= Policy.max_attempts
  <2>1. CASE Succeeds(w)
    BY <2>1 DEF Succeeds
  <2>2. CASE Raises(w)
    <3>1. PICK exc \in Exceptions :
              IF Retries(m, exc)
              THEN Settle(w, "again") /\ queue' = queue (+) SetToBag({next})
              ELSE Settle(w, "failed") /\ UNCHANGED queue
      BY <2>2 DEF Raises
    <3>2. /\ Retries(m, exc) => m[2] + 1 < Each
          /\ ~ Retries(m, exc) /\ Policy.owner = "backend" /\ ShouldRetry(Policy, exc, 0) =>
                 m[2] + 1 >= Policy.max_attempts
      BY <1>3, RetriesAsAgreed DEF PolicyInv
    <3> HIDE DEF m, next
    <3> QED BY <3>1, <3>2
  <2> QED BY <1>1, <2>1, <2>2
<1>5. /\ DOMAIN worker' = Workers /\ (worker'[w] = Idle \/ w \in stored')
      /\ \A v \in Workers \ {w} : worker'[v] = worker[v] /\ (v \in stored <=> v \in stored')
      /\ \A v \in Workers : worker'[v] # Idle => worker'[v] = worker[v] /\ (Busy(v)' => Busy(v))
      /\ stage' = [stage EXCEPT ![m[1]] = s]
  BY <1>1, <1>4, SettleHands
<1>6. AttemptsInv'
  <2>1. \A k \in DOMAIN queue' : k[2] < Each /\ k[2] <= runs
    <3>1. \A k \in DOMAIN queue : k[2] < Each /\ k[2] <= runs
      BY DEF PolicyInv, AttemptsInv
    <3>2. CASE UNCHANGED queue
      BY <3>1, <3>2
    <3>3. CASE queue' = queue (+) SetToBag({next}) /\ m[2] + 1 < Each
      <4>1. DOMAIN queue' = DOMAIN queue \union {next}
        BY <3>3, CountsType, OneMore
      <4> QED BY <1>3, <3>1, <3>3, <4>1
    <3> QED BY <1>4, <3>2, <3>3
  <2>2. \A v \in Workers : worker'[v] # Idle => worker'[v][2] < Each /\ worker'[v][2] <= runs
    BY <1>5 DEF PolicyInv, AttemptsInv
  <2>3. \A v \in Workers : Busy(v)' => worker'[v][2] < Each /\ worker'[v][2] + 1 <= runs
    BY <1>5 DEF PolicyInv, AttemptsInv, Busy
  <2> QED BY <1>1, <1>2, <2>1, <2>2, <2>3 DEF AttemptsInv
<1>7. CallsInv'
  <2> DEFINE W == Cardinality(Waiting(queue, Each))
             V == Cardinality(Waiting(queue', Each))
             H == Cardinality(InHand(worker, stored, Each))
             I == Cardinality(InHand(worker', stored', Each))
  <2>1. IsFiniteSet(Waiting(queue, Each))
    BY DEF PolicyInv, CallsInv
  <2>2. IsFiniteSet(InHand(worker', stored', Each)) /\ I \in Nat /\ H = I + (Each - m[2] - 1)
    BY <1>1, <1>5, HandsLess
  <2>3. /\ IsFiniteSet(Waiting(queue', Each)) /\ V \in Nat
        /\ V = W \/ V = W + (Each - (m[2] + 1))
    <3>1. CASE UNCHANGED queue
      BY <2>1, <3>1, CountsType
    <3>2. CASE queue' = queue (+) SetToBag({next}) /\ m[2] + 1 < Each
      <4>1. Each \in Nat /\ IsABag(queue) /\ \A k \in DOMAIN queue : k[2] \in Nat
        BY CountsType
      <4>2. next[2] \in Nat /\ next[2] < Each
        BY <1>3, <3>2
      <4> HIDE DEF next
      <4>3. IsFiniteSet(Waiting(queue', Each)) /\ V = W + (Each - next[2])
        BY <2>1, <3>2, <4>1, <4>2, WaitingMore
      <4> QED BY <1>3, <4>3, FS_CardinalityType
    <3> QED BY <1>4, <3>1, <3>2
  <2>4. IsFiniteSet(InHand(worker', stored', Each)) /\ IsFiniteSet(Waiting(queue', Each))
    BY <2>2, <2>3
  <2>5. runs' + V + I <= runs + W + H
    <3> HIDE DEF W, V, H, I
    <3>1. W \in Nat /\ H \in Nat
      BY CountsType DEF W, H
    <3> QED BY <1>1, <1>3, <2>2, <2>3, <3>1, CountsType
  <2> QED BY <1>1, <2>4, <2>5, CountsType, FewerCalls
<1>8. FailedIsExhausted'
  <2>1. ASSUME NEW i \in 1 .. submitted, stage'[i] = "failed", stage[i] # "failed",
               Policy.owner = "backend", \A exc \in Exceptions : ShouldRetry(Policy, exc, 0)
        PROVE  runs >= Policy.max_attempts
    <3>1. s = "failed"
      <4>1. i \in Jobs /\ stage \in [Jobs -> Stages \union {Nothing}]
        BY MessageType DEF PolicyInv, BrokerTypeOK
      <4> QED BY <1>5, <2>1, <4>1
    <3>2. m[2] + 1 >= Policy.max_attempts
      BY <1>4, <2>1, <3>1
    <3> QED BY <1>3, <3>2, CountsType
  <2> QED BY <1>1, <2>1, CountsType, FailedKept
<1> QED BY <1>1, <1>2, <1>6, <1>7, <1>8 DEF PolicyInv

LEMMA AckPolicy == ASSUME PolicyInv, NEW w \in Workers, Ack(w) PROVE PolicyInv'
<1>1. /\ UNCHANGED <<setup, submitted, queue, stage, runs, crashes>> /\ BrokerTypeOK'
      /\ w \in stored /\ stored' = stored \ {w} /\ worker' = [worker EXCEPT ![w] = Idle]
  BY WorkTypes DEF PolicyInv, Work, Ack, application, broker
<1>2. Policy' = Policy /\ Each' = Each /\ Agreed(setup)'
  BY <1>1, PolicyKept DEF PolicyInv
<1>3. /\ DOMAIN worker' = Workers /\ worker'[w] = Idle
      /\ \A v \in Workers \ {w} : worker'[v] = worker[v] /\ (v \in stored <=> v \in stored')
  BY <1>1, CountsType
<1>4. AttemptsInv'
  BY <1>1, <1>2, <1>3 DEF PolicyInv, AttemptsInv, Busy
<1>5. CallsInv'
  <2>1. ~ Busy(w)
    BY <1>1 DEF Busy
  <2>2. /\ IsFiniteSet(InHand(worker', stored', Each))
        /\ InHand(worker', stored', Each) = InHand(worker, stored, Each)
    BY <1>3, <2>1, HandsLess
  <2>3. IsFiniteSet(Waiting(queue', Each))
    BY <1>1 DEF PolicyInv, CallsInv
  <2> QED BY <1>1, <2>2, <2>3, CountsType, FewerCalls
<1>6. FailedIsExhausted'
  BY <1>1, CountsType, FailedKept
<1> QED BY <1>1, <1>2, <1>4, <1>5, <1>6 DEF PolicyInv

LEMMA CrashPolicy == ASSUME PolicyInv, NEW w \in Workers, Crash(w) PROVE PolicyInv'
<1>1. /\ UNCHANGED <<setup, submitted, stage, runs>> /\ BrokerTypeOK' /\ crashes' = crashes + 1
      /\ stored' = stored \ {w} /\ worker' = [worker EXCEPT ![w] = Idle] /\ worker[w] # Idle
  BY WorkTypes DEF PolicyInv, Crash, application
<1>2. Policy' = Policy /\ Each' = Each /\ Agreed(setup)'
  BY <1>1, PolicyKept DEF PolicyInv
<1>3. /\ DOMAIN worker' = Workers /\ worker'[w] = Idle
      /\ \A v \in Workers \ {w} : worker'[v] = worker[v] /\ (v \in stored <=> v \in stored')
  BY <1>1, CountsType
<1> DEFINE m == worker[w]
<1>4. m[2] \in Nat /\ m[2] < Each /\ m[2] <= runs
  BY <1>1, MessageType DEF PolicyInv, AttemptsInv
<1>5. UNCHANGED queue \/ queue' = queue (+) SetToBag({m})
  BY DEF Crash
<1>6. AttemptsInv'
  <2>1. \A k \in DOMAIN queue' : k[2] < Each /\ k[2] <= runs
    <3>1. \A k \in DOMAIN queue : k[2] < Each /\ k[2] <= runs
      BY DEF PolicyInv, AttemptsInv
    <3>2. CASE UNCHANGED queue
      BY <3>1, <3>2
    <3>3. CASE queue' = queue (+) SetToBag({m})
      <4>1. DOMAIN queue' = DOMAIN queue \union {m}
        BY <3>3, CountsType, OneMore
      <4> QED BY <1>4, <3>1, <4>1
    <3> QED BY <1>5, <3>2, <3>3
  <2>2. \A v \in Workers : worker'[v] # Idle =>
            v # w /\ worker'[v] = worker[v] /\ (Busy(v)' => Busy(v))
    BY <1>3 DEF Busy
  <2> QED BY <1>1, <1>2, <2>1, <2>2 DEF PolicyInv, AttemptsInv, Busy
<1>7. CallsInv'
  <2> DEFINE W == Cardinality(Waiting(queue, Each))
             V == Cardinality(Waiting(queue', Each))
             H == Cardinality(InHand(worker, stored, Each))
             I == Cardinality(InHand(worker', stored', Each))
  <2>1. IsFiniteSet(Waiting(queue, Each))
    BY DEF PolicyInv, CallsInv
  <2>2. /\ IsFiniteSet(InHand(worker', stored', Each)) /\ I \in Nat
        /\ H = I \/ H = I + (Each - m[2] - 1)
    BY <1>3, HandsLess
  <2>3. /\ IsFiniteSet(Waiting(queue', Each)) /\ V \in Nat
        /\ V = W \/ V = W + (Each - m[2])
    <3>1. CASE UNCHANGED queue
      BY <2>1, <3>1, CountsType
    <3>2. CASE queue' = queue (+) SetToBag({m})
      <4>1. Each \in Nat /\ IsABag(queue) /\ \A k \in DOMAIN queue : k[2] \in Nat
        BY CountsType
      <4> HIDE DEF m
      <4>2. IsFiniteSet(Waiting(queue', Each)) /\ V = W + (Each - m[2])
        BY <1>4, <2>1, <3>2, <4>1, WaitingMore
      <4> QED BY <4>2, FS_CardinalityType
    <3> QED BY <1>5, <3>1, <3>2
  <2>4. IsFiniteSet(InHand(worker', stored', Each)) /\ IsFiniteSet(Waiting(queue', Each))
    BY <2>2, <2>3
  <2>5. runs' + V + I <= runs + W + H + Policy.max_attempts
    <3> HIDE DEF W, V, H, I
    <3>1. W \in Nat /\ H \in Nat
      BY CountsType DEF W, H
    <3> QED BY <1>1, <1>4, <2>2, <2>3, <3>1, CountsType
  <2>6. crashes' \in Nat /\ crashes' >= crashes /\ crashes' # crashes /\ runs' \in Nat
    BY <1>1, CountsType
  <2> QED BY <1>1, <2>4, <2>5, <2>6, FewerCalls
<1>8. FailedIsExhausted'
  BY <1>1, CountsType, FailedKept
<1> QED BY <1>1, <1>2, <1>6, <1>7, <1>8 DEF PolicyInv

LEMMA PolicyStep == PolicyInv /\ [BrokerNext]_brokerVars => PolicyInv'
<1> SUFFICES ASSUME PolicyInv, [BrokerNext]_brokerVars PROVE PolicyInv'
  OBVIOUS
<1>1. CASE UNCHANGED brokerVars
  <2>1. BrokerTypeOK'
    BY <1>1, BrokerTypes DEF PolicyInv
  <2>2. /\ UNCHANGED <<setup, submitted, queue, stage, worker, stored, runs, crashes>>
        /\ Policy' = Policy /\ Each' = Each /\ Granted' = Granted
    BY <1>1 DEF brokerVars, Policy, Each, Granted
  <2>3. /\ Agreed(setup)' /\ AttemptsInv' /\ FailedIsExhausted'
    BY <2>2 DEF PolicyInv, AttemptsInv, FailedIsExhausted, Busy
  <2>4. CallsInv'
    BY <2>2 DEF PolicyInv, CallsInv
  <2> QED BY <2>1, <2>3, <2>4 DEF PolicyInv
<1>2. ASSUME NEW w \in Workers, Work(w) \/ Crash(w) PROVE PolicyInv'
  BY <1>2, StartPolicy, DiscardPolicy, SettlePolicy, AckPolicy, CrashPolicy DEF Work
<1> QED BY <1>1, <1>2, SubmitPolicy, CallPolicy DEF BrokerNext

LEMMA PolicyStart == BrokerInit /\ Agreed(setup) => PolicyInv
<1> SUFFICES ASSUME BrokerInit, Agreed(setup) PROVE PolicyInv
  OBVIOUS
<1>1. BrokerTypeOK
  BY BrokerStart
<1>2. /\ DOMAIN queue = {} /\ submitted = 0 /\ runs = 0 /\ crashes = 0
      /\ \A w \in Workers : worker[w] = Idle
      /\ DOMAIN worker = Workers
  BY DEF BrokerInit, EmptyBag, SetToBag
<1>3. Waiting(queue, Each) = {} /\ InHand(worker, stored, Each) = {}
  BY <1>2 DEF Waiting, InHand
<1>4. IsFiniteSet({}) /\ Cardinality({}) = 0
  BY FS_EmptySet
<1>5. /\ Granted = 0 /\ Policy.max_attempts \in Nat \ {0}
  BY <1>1, <1>2, SetupType DEF Granted
<1>6. CallsInv
  BY <1>2, <1>3, <1>4, <1>5 DEF CallsInv
<1>7. AttemptsInv
  BY <1>2 DEF AttemptsInv, Busy
<1>8. FailedIsExhausted
  BY <1>2 DEF FailedIsExhausted
<1> QED BY <1>1, <1>6, <1>7, <1>8 DEF PolicyInv

LEMMA PolicyHolds == PolicyInv => SubmittedPolicyDecides
<1> SUFFICES ASSUME PolicyInv PROVE SubmittedPolicyDecides
  OBVIOUS
<1>1. IntentSurvivesTheWire
  BY WireKeepsIntent DEF PolicyInv
<1>2. RunsWithinPolicy
  <2>1. runs <= Granted + Policy.max_attempts * crashes
    BY CountsType DEF PolicyInv, CallsInv
  <2>2. Granted <= Policy.max_attempts
    BY CountsType DEF PolicyInv, CallsInv, Granted
  <2>3. \A p, a \in Nat : p * (1 + a) = p + p * a /\ p * a \in Nat
    OBVIOUS
  <2>4. Policy.max_attempts * (1 + crashes) = Policy.max_attempts + Policy.max_attempts * crashes
    BY <2>3, CountsType
  <2> QED BY <2>1, <2>2, <2>4, CountsType DEF RunsWithinPolicy
<1> QED BY <1>1, <1>2 DEF SubmittedPolicyDecides, PolicyInv

-----------------------------------------------------------------------------
\* The state of the worker-based engines keeps its type.
THEOREM BrokerTypeCorrect == BrokerSpec => []BrokerTypeOK
BY BrokerStart, BrokerTypes, PTL DEF BrokerSpec

\* Whatever is submitted to whatever engine: if the layers of each set-up agree,
\* the function is called as often as the policy grants, no more and no fewer,
\* across crashes and repeated deliveries, and a worker decides as the submitter
\* would (encode_retry, decode_retry, _submit, the dispatchers).
THEOREM PolicyCorrect ==
    ASSUME \A s \in Setups : Agreed(s)
    PROVE  BrokerSpec => []SubmittedPolicyDecides
<1>1. BrokerInit => PolicyInv
  BY PolicyStart DEF BrokerInit
<1>2. PolicyInv => SubmittedPolicyDecides
  BY PolicyHolds
<1> QED BY <1>1, <1>2, PolicyStep, PTL DEF BrokerSpec

-----------------------------------------------------------------------------
(* What is told. *)

Open == {"waiting", "started", "again"}

LEMMA ShownIs ==
    ASSUME NEW s \in Stages
    PROVE  /\ Shown[s] \in State
           /\ s \in Open => Shown[s] \in {"queued", "running"}
           /\ s \notin Open => Shown[s] \in {"succeeded", "failed", "cancelled"}
           /\ s # "waiting" /\ Shown[s] = "queued" => Engine = "procrastinate"
           /\ Engine = "procrastinate" => (Word(s) = "todo" <=> s \in {"waiting", "again"})
<1>1. Shown[s] = MapState(Word(s))
  BY DEF Shown
<1>2. s \in {"waiting", "started", "again", "succeeded", "failed", "revoked"}
  BY DEF Stages
<1> QED BY <1>1, <1>2, WordIs DEF Open, State

LEMMA ShownKept == UNCHANGED setup => Shown' = Shown /\ Engine' = Engine
  BY DEF Shown, MapState, Word, Engine

\* A record that moves on can still be told after what was told before.
LEMMA LeadsOn ==
    ASSUME NEW last \in State \ Terminal, NEW s \in Stages \ {"waiting"}
    PROVE  \/ TransitionsTo(last, Shown[s])
           \/ Engine = "procrastinate" /\ <<last, Shown[s]>> = <<"running", "queued">>
<1>1. last \in {"pending", "queued", "running", "unknown"}
  BY DEF State, Terminal
<1> DEFINE t == Shown[s]
<1>2. t \in {"queued", "running", "succeeded", "failed", "cancelled"}
  BY ShownIs
<1>3. t = "queued" => Engine = "procrastinate"
  BY ShownIs
<1>4. CASE last = "pending"
  <2>1. Allowed("pending") = {"queued", "running", "unknown"} \union Terminal
    BY DEF Allowed
  <2> QED BY <1>2, <1>4, <2>1 DEF TransitionsTo, Terminal
<1>5. CASE last = "queued"
  <2>1. Allowed("queued") = {"running", "unknown"} \union Terminal
    BY DEF Allowed
  <2> QED BY <1>2, <1>5, <2>1 DEF TransitionsTo, Terminal
<1>6. CASE last = "running"
  <2>1. Allowed("running") = {"unknown"} \union Terminal
    BY DEF Allowed
  <2> QED BY <1>2, <1>3, <1>6, <2>1 DEF TransitionsTo, Terminal
<1>7. CASE last = "unknown"
  <2>1. Allowed("unknown") = State
    BY DEF Allowed
  <2> QED BY <1>2, <1>7, <2>1 DEF TransitionsTo, State
<1> QED BY <1>1, <1>4, <1>5, <1>6, <1>7

\* Records that move on leave what was told as true as it was.
LEMMA ToldKept ==
    ASSUME BrokerTypeOK, ToldInv, UNCHANGED <<setup, submitted>>,
           \A j \in 1 .. submitted :
               /\ \/ stage'[j] = stage[j]
                  \/ stage[j] \in Open /\ stage'[j] \in Stages \ {"waiting"}
               /\ \/ seen'[j] = seen[j]
                  \/ seen'[j] = Shown[stage'[j]] /\ stage'[j] \in Stages
    PROVE  ToldInv'
<1>1. Shown' = Shown /\ Engine' = Engine
  BY ShownKept
<1> SUFFICES ASSUME NEW j \in 1 .. submitted
             PROVE  /\ seen'[j] \in State
                    /\ \/ TransitionsTo(seen'[j], Shown[stage'[j]])
                       \/ Engine = "procrastinate" /\ <<seen'[j], Shown[stage'[j]]>> = <<"running", "queued">>
                    /\ seen'[j] \in Terminal => Shown[stage'[j]] = seen'[j]
  BY <1>1 DEF ToldInv
<1>2. CASE seen'[j] = Shown[stage'[j]] /\ stage'[j] \in Stages
  BY <1>2, ShownIs DEF TransitionsTo
<1>3. CASE seen'[j] = seen[j] /\ stage'[j] = stage[j]
  BY <1>3 DEF ToldInv
<1>4. CASE seen'[j] = seen[j] /\ stage[j] \in Open /\ stage'[j] \in Stages \ {"waiting"}
  <2>1. seen[j] \in State \ Terminal
    <3>1. stage[j] \in Stages
      BY DEF BrokerTypeOK
    <3>2. Shown[stage[j]] \in {"queued", "running"}
      BY <1>4, <3>1, ShownIs
    <3> QED BY <3>2 DEF ToldInv, Terminal
  <2> QED BY <1>4, <2>1, LeadsOn
<1> QED BY <1>2, <1>3, <1>4

\* A job that is somewhere is open.
LEMMA PlacedIsOpen ==
    ASSUME BrokerTypeOK, OncePlaced
    PROVE  /\ \A m \in DOMAIN queue : stage[m[1]] \in Open
           /\ \A w \in Workers : Busy(w) => stage[worker[w][1]] \in Open
  BY DEF OncePlaced, Open

LEMMA CalmBefore ==
    ASSUME SeenInv, Calm', crashes' \in Nat, crashes' \in {crashes, crashes + 1}, UNCHANGED setup
    PROVE  OncePlaced /\ ToldInv /\ BrokerTypeOK
<1>1. crashes \in Nat
  BY BrokerAssumption DEF SeenInv, BrokerTypeOK
<1>2. ~ (Redeliver /\ crashes' > 0)
  BY DEF Calm, Redeliver
<1>3. ~ (Redeliver /\ crashes > 0)
  BY <1>1, <1>2
<1> QED BY <1>3 DEF SeenInv, Calm

\* Workers tell nothing: their steps keep what was told if they move open records on.
LEMMA WorkSeen ==
    ASSUME SeenInv, BrokerTypeOK', UNCHANGED <<setup, submitted, seen>>,
           crashes' \in {crashes, crashes + 1},
           Calm' /\ OncePlaced =>
               /\ OncePlaced'
               /\ \A j \in 1 .. submitted :
                      \/ stage'[j] = stage[j]
                      \/ stage[j] \in Open /\ stage'[j] \in Stages \ {"waiting"}
    PROVE  SeenInv'
<1>1. crashes' \in Nat
  BY BrokerAssumption DEF BrokerTypeOK
<1>2. ASSUME Calm' PROVE OncePlaced' /\ ToldInv'
  <2>1. OncePlaced /\ ToldInv /\ BrokerTypeOK
    BY <1>1, <1>2, CalmBefore
  <2> QED BY <1>2, <2>1, ToldKept
<1>3. \A j \in Jobs : j > submitted' => seen'[j] = Absent
  BY DEF SeenInv
<1> QED BY <1>2, <1>3 DEF SeenInv

\* A bag that loses a message it had once.
LEMMA OnceLess ==
    ASSUME NEW q, IsABag(q), NEW m \in DOMAIN q, q[m] = 1
    PROVE  /\ DOMAIN (q (-) SetToBag({m})) = DOMAIN q \ {m}
           /\ \A k \in DOMAIN q \ {m} : (q (-) SetToBag({m}))[k] = q[k]
  BY OneLess

\* A bag that gains a message it did not have.
LEMMA OnceMore ==
    ASSUME NEW q, IsABag(q), NEW m, m \notin DOMAIN q
    PROVE  /\ DOMAIN (q (+) SetToBag({m})) = DOMAIN q \union {m}
           /\ (q (+) SetToBag({m}))[m] = 1
           /\ \A k \in DOMAIN q : (q (+) SetToBag({m}))[k] = q[k]
<1> DEFINE p == q (+) SetToBag({m})
<1>1. /\ DOMAIN p = DOMAIN q \union {m}
      /\ p[m] = IF m \in DOMAIN q THEN q[m] + 1 ELSE 1
      /\ \A k \in DOMAIN q \ {m} : p[k] = q[k]
  BY OneMore
<1> HIDE DEF p
<1>2. p[m] = 1 /\ \A k \in DOMAIN q : p[k] = q[k]
  BY <1>1
<1> QED BY <1>1, <1>2 DEF p

LEMMA StartSeen == ASSUME SeenInv, NEW w \in Workers, Start(w) PROVE SeenInv'
<1>1. /\ BrokerTypeOK /\ BrokerTypeOK' /\ UNCHANGED <<setup, submitted, seen, stored, crashes>>
      /\ IsABag(queue) /\ worker \in [Workers -> ((1 .. submitted) \X Nat) \union {Idle}]
  BY WorkTypes DEF SeenInv, Work, Start, application, BrokerTypeOK
<1>2. w \notin stored /\ worker[w] = Idle
  BY <1>1 DEF Start, BrokerTypeOK
<1>3. PICK m \in DOMAIN queue :
          /\ queue' = queue (-) SetToBag({m})
          /\ worker' = [worker EXCEPT ![w] = m]
          /\ \E s \in {"started"} \union (IF Engine = "celery" THEN {stage[m[1]]} ELSE {}) :
                 stage' = [stage EXCEPT ![m[1]] = s]
  BY DEF Start, BagToSet
<1>4. /\ m[1] \in 1 .. submitted /\ m # Idle
      /\ \A k \in DOMAIN queue : k[1] \in 1 .. submitted
      /\ \A v \in Workers : worker[v] # Idle => worker[v][1] \in 1 .. submitted
      /\ 1 .. submitted \subseteq Jobs /\ stage \in [Jobs -> Stages \union {Nothing}]
  BY <1>1, MessageType, NotIdle DEF BrokerTypeOK
<1>5. Engine' = Engine
  BY <1>1 DEF Engine
<1>6. ASSUME OncePlaced
      PROVE  /\ OncePlaced'
             /\ \A j \in 1 .. submitted :
                    \/ stage'[j] = stage[j]
                    \/ stage[j] \in Open /\ stage'[j] \in Stages \ {"waiting"}
  <2>1. queue[m] = 1 /\ stage[m[1]] \in {"waiting", "again"}
    BY <1>6 DEF OncePlaced
  <2>2. /\ DOMAIN queue' = DOMAIN queue \ {m}
        /\ \A k \in DOMAIN queue' : queue'[k] = queue[k]
    <3>1. /\ DOMAIN (queue (-) SetToBag({m})) = DOMAIN queue \ {m}
          /\ \A k \in DOMAIN queue \ {m} : (queue (-) SetToBag({m}))[k] = queue[k]
      BY <1>1, <2>1, OnceLess
    <3>2. queue' = queue (-) SetToBag({m})
      BY <1>3
    <3> QED BY <3>1, <3>2
  <2>3. /\ stage'[m[1]] = "started" \/ (stage'[m[1]] = stage[m[1]] /\ Engine = "celery")
        /\ \A j \in Jobs \ {m[1]} : stage'[j] = stage[j]
    <3>1. PICK s \in {"started"} \union (IF Engine = "celery" THEN {stage[m[1]]} ELSE {}) :
              stage' = [stage EXCEPT ![m[1]] = s]
      BY <1>3
    <3>2. s = "started" \/ (s = stage[m[1]] /\ Engine = "celery")
      OBVIOUS
    <3> QED BY <1>4, <3>1, <3>2
  <2>4. /\ worker'[w] = m /\ \A v \in Workers \ {w} : worker'[v] = worker[v]
        /\ \A v \in Workers \ {w} : Busy(v)' <=> Busy(v)
    BY <1>1, <1>3 DEF Busy
  <2>5. \A k \in DOMAIN queue' : queue'[k] = 1 /\ k[1] # m[1] /\ stage'[k[1]] \in {"waiting", "again"}
    BY <1>4, <1>6, <2>2, <2>3 DEF OncePlaced
  <2>6. \A k, n \in DOMAIN queue' : k[1] = n[1] => k = n
    BY <1>6, <2>2 DEF OncePlaced
  <2>7. \A v \in Workers \ {w} : Busy(v)' => Busy(v) /\ worker[v][1] # m[1]
    BY <1>6, <2>4 DEF OncePlaced
  <2>8. ASSUME NEW v \in Workers, Busy(v)'
        PROVE  /\ stage'[worker'[v][1]] \in {"waiting", "started", "again"}
               /\ Engine' # "celery" => stage'[worker'[v][1]] = "started"
               /\ \A k \in DOMAIN queue' : k[1] # worker'[v][1]
               /\ \A u \in Workers : Busy(u)' /\ worker'[u][1] = worker'[v][1] => u = v
    <3>1. CASE v = w
      BY <1>5, <2>1, <2>3, <2>4, <2>5, <2>7, <3>1
    <3>2. CASE v # w
      <4>1. Busy(v) /\ worker'[v] = worker[v] /\ worker[v][1] # m[1] /\ worker[v][1] \in Jobs
        BY <1>4, <2>4, <2>7, <2>8, <3>2 DEF Busy
      <4>2. stage'[worker'[v][1]] = stage[worker[v][1]]
        BY <2>3, <4>1
      <4>3. \A u \in Workers : Busy(u)' /\ worker'[u][1] = worker'[v][1] => u = v
        BY <1>6, <2>4, <4>1 DEF OncePlaced
      <4> QED BY <1>5, <1>6, <2>2, <4>1, <4>2, <4>3 DEF OncePlaced
    <3> QED BY <3>1, <3>2
  <2>9. OncePlaced'
    BY <2>5, <2>6, <2>8 DEF OncePlaced
  <2> QED BY <1>4, <2>1, <2>3, <2>9 DEF Open, Stages
<1> QED BY <1>1, <1>6, WorkSeen

LEMMA DiscardSeen == ASSUME SeenInv, NEW w \in Workers, Discard(w) PROVE SeenInv'
<1>1. /\ BrokerTypeOK /\ BrokerTypeOK' /\ UNCHANGED <<setup, submitted, seen, worker, stored, crashes>>
      /\ IsABag(queue)
  BY WorkTypes DEF SeenInv, Work, Discard, application, BrokerTypeOK
<1>2. PICK m \in DOMAIN queue :
          queue' = queue (-) SetToBag({m}) /\ stage' = [stage EXCEPT ![m[1]] = "revoked"]
  BY DEF Discard, BagToSet
<1>3. /\ m[1] \in 1 .. submitted
      /\ \A k \in DOMAIN queue : k[1] \in 1 .. submitted
      /\ \A v \in Workers : worker[v] # Idle => worker[v][1] \in 1 .. submitted
      /\ 1 .. submitted \subseteq Jobs /\ stage \in [Jobs -> Stages \union {Nothing}]
  BY <1>1, MessageType DEF BrokerTypeOK
<1>4. Engine' = Engine /\ \A v \in Workers : Busy(v)' <=> Busy(v)
  BY <1>1 DEF Engine, Busy
<1>5. ASSUME OncePlaced
      PROVE  /\ OncePlaced'
             /\ \A j \in 1 .. submitted :
                    \/ stage'[j] = stage[j]
                    \/ stage[j] \in Open /\ stage'[j] \in Stages \ {"waiting"}
  <2>1. queue[m] = 1 /\ stage[m[1]] \in {"waiting", "again"}
    BY <1>5 DEF OncePlaced
  <2>2. /\ DOMAIN queue' = DOMAIN queue \ {m}
        /\ \A k \in DOMAIN queue' : queue'[k] = queue[k]
    <3>1. /\ DOMAIN (queue (-) SetToBag({m})) = DOMAIN queue \ {m}
          /\ \A k \in DOMAIN queue \ {m} : (queue (-) SetToBag({m}))[k] = queue[k]
      BY <1>1, <2>1, OnceLess
    <3>2. queue' = queue (-) SetToBag({m})
      BY <1>2
    <3> QED BY <3>1, <3>2
  <2>3. stage'[m[1]] = "revoked" /\ \A j \in Jobs \ {m[1]} : stage'[j] = stage[j]
    BY <1>2, <1>3
  <2>4. \A k \in DOMAIN queue' : queue'[k] = 1 /\ k[1] # m[1] /\ stage'[k[1]] \in {"waiting", "again"}
    BY <1>3, <1>5, <2>2, <2>3 DEF OncePlaced
  <2>5. \A k, n \in DOMAIN queue' : k[1] = n[1] => k = n
    BY <1>5, <2>2 DEF OncePlaced
  <2>6. ASSUME NEW v \in Workers, Busy(v)
        PROVE  /\ stage'[worker[v][1]] \in {"waiting", "started", "again"}
               /\ Engine # "celery" => stage'[worker[v][1]] = "started"
               /\ \A k \in DOMAIN queue' : k[1] # worker[v][1]
               /\ \A u \in Workers : Busy(u) /\ worker[u][1] = worker[v][1] => u = v
    <3>1. worker[v][1] # m[1] /\ worker[v][1] \in Jobs
      BY <1>3, <1>5, <2>6 DEF OncePlaced, Busy
    <3>2. stage'[worker[v][1]] = stage[worker[v][1]]
      BY <2>3, <3>1
    <3> QED BY <1>5, <2>2, <2>6, <3>2 DEF OncePlaced
  <2>7. OncePlaced'
    BY <1>1, <1>4, <2>4, <2>5, <2>6 DEF OncePlaced
  <2> QED BY <1>3, <2>1, <2>3, <2>7 DEF Open, Stages
<1> QED BY <1>1, <1>5, WorkSeen

\* A worker that stores an outcome: its message is gone, or waits for the next attempt.
LEMMA SettleSeen == ASSUME SeenInv, NEW w \in Workers, Succeeds(w) \/ Raises(w) PROVE SeenInv'
<1>1. /\ BrokerTypeOK /\ BrokerTypeOK' /\ UNCHANGED <<setup, submitted, seen, crashes>> /\ Busy(w)
  BY WorkTypes DEF SeenInv, Work, Succeeds, Raises, application
<1> DEFINE j == worker[w][1]
           next == <<j, worker[w][2] + 1>>
<1>2. /\ j \in 1 .. submitted /\ next # Idle
      /\ \A k \in DOMAIN queue : k[1] \in 1 .. submitted
      /\ \A v \in Workers : worker[v] # Idle => worker[v][1] \in 1 .. submitted
      /\ 1 .. submitted \subseteq Jobs /\ stage \in [Jobs -> Stages \union {Nothing}]
      /\ IsABag(queue) /\ DOMAIN worker = Workers
  BY <1>1, MessageType, NotIdle DEF BrokerTypeOK, Busy
<1>3. PICK s \in {"succeeded", "failed", "again"} :
          /\ Settle(w, s)
          /\ \/ UNCHANGED queue /\ s # "again"
             \/ queue' = queue (+) SetToBag({next}) /\ s = "again"
  BY DEF Succeeds, Raises
<1>4. /\ stage'[j] = s /\ \A i \in Jobs \ {j} : stage'[i] = stage[i]
      /\ ~ Busy(w)' /\ \A v \in Workers \ {w} : worker'[v] = worker[v] /\ (Busy(v)' <=> Busy(v))
  <2>1. stage' = [stage EXCEPT ![j] = s]
    BY <1>3 DEF Settle
  <2>2. \/ worker' = [worker EXCEPT ![w] = Idle] /\ UNCHANGED stored
        \/ stored' = stored \union {w} /\ UNCHANGED worker
    BY <1>3 DEF Settle
  <2>3. ~ Busy(w)' /\ \A v \in Workers \ {w} : worker'[v] = worker[v] /\ (Busy(v)' <=> Busy(v))
    BY <1>2, <2>2 DEF Busy
  <2> QED BY <1>2, <2>1, <2>3
<1>5. Engine' = Engine
  BY <1>1 DEF Engine
<1> HIDE DEF next
<1>6. ASSUME OncePlaced
      PROVE  /\ OncePlaced'
             /\ \A i \in 1 .. submitted :
                    \/ stage'[i] = stage[i]
                    \/ stage[i] \in Open /\ stage'[i] \in Stages \ {"waiting"}
  <2>1. /\ stage[j] \in {"waiting", "started", "again"} /\ \A k \in DOMAIN queue : k[1] # j
        /\ \A v \in Workers \ {w} : Busy(v) => worker[v][1] # j
    BY <1>1, <1>6 DEF OncePlaced
  <2>2. next[1] = j /\ next \notin DOMAIN queue
    BY <2>1 DEF next
  <2>3. \/ queue' = queue /\ s # "again"
        \/ /\ DOMAIN queue' = DOMAIN queue \union {next} /\ queue'[next] = 1 /\ s = "again"
           /\ \A k \in DOMAIN queue : queue'[k] = queue[k]
    <3>1. /\ DOMAIN (queue (+) SetToBag({next})) = DOMAIN queue \union {next}
          /\ (queue (+) SetToBag({next}))[next] = 1
          /\ \A k \in DOMAIN queue : (queue (+) SetToBag({next}))[k] = queue[k]
      <4>1. IsABag(queue) /\ next \notin DOMAIN queue
        BY <1>2, <2>2
      <4> QED BY <4>1, OnceMore
    <3> QED BY <1>3, <3>1
  <2>4. \A k \in DOMAIN queue : queue[k] = 1 /\ k[1] # j /\ stage'[k[1]] \in {"waiting", "again"}
    BY <1>2, <1>4, <1>6, <2>1 DEF OncePlaced
  <2>5. \A k \in DOMAIN queue' : k \in DOMAIN queue \/ (k = next /\ s = "again")
    BY <2>3
  <2>6. \A k \in DOMAIN queue' : queue'[k] = 1 /\ stage'[k[1]] \in {"waiting", "again"}
    BY <1>4, <2>2, <2>3, <2>4, <2>5
  <2>7. \A k, n \in DOMAIN queue' : k[1] = n[1] => k = n
    BY <1>6, <2>2, <2>4, <2>5 DEF OncePlaced
  <2>8. ASSUME NEW v \in Workers, Busy(v)'
        PROVE  /\ stage'[worker'[v][1]] \in {"waiting", "started", "again"}
               /\ Engine' # "celery" => stage'[worker'[v][1]] = "started"
               /\ \A k \in DOMAIN queue' : k[1] # worker'[v][1]
               /\ \A u \in Workers : Busy(u)' /\ worker'[u][1] = worker'[v][1] => u = v
    <3>1. v # w /\ Busy(v) /\ worker'[v] = worker[v]
      BY <1>4, <2>8
    <3>2. worker[v][1] # j /\ worker[v][1] \in Jobs
      BY <1>2, <2>1, <3>1 DEF Busy
    <3>3. stage'[worker'[v][1]] = stage[worker[v][1]]
      BY <1>4, <3>1, <3>2
    <3>4. \A k \in DOMAIN queue' : k[1] # worker'[v][1]
      BY <1>6, <2>2, <2>5, <3>1, <3>2 DEF OncePlaced
    <3>5. \A u \in Workers : Busy(u)' /\ worker'[u][1] = worker'[v][1] => u = v
      BY <1>4, <1>6, <3>1 DEF OncePlaced
    <3> QED BY <1>5, <1>6, <3>1, <3>3, <3>4, <3>5 DEF OncePlaced
  <2>9. OncePlaced'
    BY <2>6, <2>7, <2>8 DEF OncePlaced
  <2> QED BY <1>2, <1>4, <2>1, <2>9 DEF Open, Stages
<1> QED BY <1>1, <1>6, WorkSeen

\* A worker that acknowledges, or dies: nothing is placed that was not, unless it is delivered again.
LEMMA LeaveSeen == ASSUME SeenInv, NEW w \in Workers, Ack(w) \/ Crash(w) PROVE SeenInv'
<1>1. /\ BrokerTypeOK /\ BrokerTypeOK' /\ UNCHANGED <<setup, submitted, seen, stage>>
      /\ crashes' \in {crashes, crashes + 1} /\ DOMAIN worker = Workers
      /\ worker' = [worker EXCEPT ![w] = Idle] /\ stored' = stored \ {w}
  BY WorkTypes DEF SeenInv, Work, Ack, Crash, application, broker, BrokerTypeOK
<1>2. /\ ~ Busy(w)' /\ \A v \in Workers \ {w} : worker'[v] = worker[v] /\ (Busy(v)' <=> Busy(v))
      /\ Engine' = Engine
  BY <1>1 DEF Busy, Engine
<1>3. Calm' => UNCHANGED queue
  <2>1. CASE Ack(w)
    BY <2>1 DEF Ack, broker
  <2>2. CASE Crash(w)
    <3>1. crashes' > 0
      BY <2>2, BrokerAssumption DEF Crash, SeenInv, BrokerTypeOK
    <3> QED BY <2>2, <3>1, <1>1 DEF Crash, Calm, Redeliver
  <2> QED BY <2>1, <2>2
<1>4. ASSUME UNCHANGED queue, OncePlaced PROVE OncePlaced'
  <2>1. ASSUME NEW v \in Workers, Busy(v)'
        PROVE  v # w /\ Busy(v) /\ worker'[v] = worker[v]
    BY <1>2, <2>1
  <2> QED BY <1>1, <1>2, <1>4, <2>1 DEF OncePlaced
<1> QED BY <1>1, <1>3, <1>4, WorkSeen

\* Submitting: a new job is nowhere else.
LEMMA SubmitSeen == ASSUME SeenInv, Submit PROVE SeenInv'
<1>1. /\ BrokerTypeOK /\ BrokerTypeOK' /\ UNCHANGED <<setup, worker, stored, crashes>>
      /\ submitted \in Nat /\ submitted' = submitted + 1 /\ submitted' \in Jobs
  <2>1. BrokerTypeOK /\ BrokerTypeOK'
    BY SubmitTypes DEF SeenInv
  <2>2. /\ UNCHANGED <<setup, worker, stored, crashes>>
        /\ submitted < MaxJobs /\ submitted' = submitted + 1
    BY DEF Submit
  <2>3. submitted \in 0 .. MaxJobs /\ MaxJobs \in Nat
    BY <2>1, BrokerAssumption DEF BrokerTypeOK
  <2> QED BY <2>1, <2>2, <2>3 DEF Jobs
<1> DEFINE m == <<submitted', 0>>
<1>2. /\ \A k \in DOMAIN queue : k[1] \in 1 .. submitted
      /\ \A v \in Workers : worker[v] # Idle => worker[v][1] \in 1 .. submitted
      /\ 1 .. submitted \subseteq Jobs /\ IsABag(queue)
      /\ stage \in [Jobs -> Stages \union {Nothing}] /\ seen \in [Jobs -> State \union {Absent}]
  BY <1>1, MessageType DEF BrokerTypeOK
<1>3. /\ queue' = queue (+) SetToBag({m})
      /\ stage' = [stage EXCEPT ![submitted'] = "waiting"]
      /\ seen' = [seen EXCEPT ![submitted'] = "queued"]
  BY DEF Submit
<1>4. /\ stage'[submitted'] = "waiting" /\ seen'[submitted'] = "queued"
      /\ \A j \in Jobs \ {submitted'} : stage'[j] = stage[j] /\ seen'[j] = seen[j]
      /\ \A j \in 1 .. submitted : j \in Jobs /\ j # submitted'
      /\ \A j \in 1 .. submitted' : j \in 1 .. submitted \/ j = submitted'
  BY <1>1, <1>2, <1>3
<1>5. Engine' = Engine /\ Shown' = Shown /\ \A v \in Workers : Busy(v)' <=> Busy(v)
  BY <1>1, ShownKept DEF Engine, Busy
<1>6. m[1] = submitted' /\ m \notin DOMAIN queue
  BY <1>2, <1>4
<1> HIDE DEF m
<1>7. /\ DOMAIN queue' = DOMAIN queue \union {m} /\ queue'[m] = 1
      /\ \A k \in DOMAIN queue : queue'[k] = queue[k]
  <2>1. /\ DOMAIN (queue (+) SetToBag({m})) = DOMAIN queue \union {m}
        /\ (queue (+) SetToBag({m}))[m] = 1
        /\ \A k \in DOMAIN queue : (queue (+) SetToBag({m}))[k] = queue[k]
    <3>1. IsABag(queue) /\ m \notin DOMAIN queue
      BY <1>2, <1>6
    <3> QED BY <3>1, OnceMore
  <2> QED BY <1>3, <2>1
<1>8. ASSUME OncePlaced PROVE OncePlaced'
  <2>1. \A k \in DOMAIN queue : queue'[k] = 1 /\ k[1] # submitted' /\ stage'[k[1]] \in {"waiting", "again"}
    BY <1>2, <1>4, <1>7, <1>8 DEF OncePlaced
  <2>2. \A k \in DOMAIN queue' : queue'[k] = 1 /\ stage'[k[1]] \in {"waiting", "again"}
    BY <1>4, <1>6, <1>7, <2>1
  <2>3. \A k, n \in DOMAIN queue' : k[1] = n[1] => k = n
    BY <1>6, <1>7, <1>8, <2>1 DEF OncePlaced
  <2>4. ASSUME NEW v \in Workers, Busy(v)
        PROVE  /\ stage'[worker[v][1]] = stage[worker[v][1]]
               /\ \A k \in DOMAIN queue' : k[1] # worker[v][1]
    <3>1. worker[v][1] \in 1 .. submitted
      BY <1>2, <2>4 DEF Busy
    <3> QED BY <1>4, <1>6, <1>7, <1>8, <2>4, <3>1 DEF OncePlaced
  <2> QED BY <1>1, <1>5, <1>8, <2>2, <2>3, <2>4 DEF OncePlaced
<1>9. ASSUME ToldInv PROVE ToldInv'
  <2>1. "waiting" \in Stages /\ Shown["waiting"] \in {"queued", "running"} /\ "queued" \in State \ Terminal
    BY ShownIs DEF Stages, Open, State, Terminal
  <2>2. TransitionsTo("queued", Shown["waiting"])
    <3>1. Allowed("queued") = {"running", "unknown"} \union Terminal
      BY DEF Allowed
    <3> QED BY <2>1, <3>1 DEF TransitionsTo
  <2>3. ASSUME NEW j \in 1 .. submitted'
        PROVE  /\ seen'[j] \in State
               /\ \/ TransitionsTo(seen'[j], Shown[stage'[j]])
                  \/ Engine = "procrastinate" /\ <<seen'[j], Shown[stage'[j]]>> = <<"running", "queued">>
               /\ seen'[j] \in Terminal => Shown[stage'[j]] = seen'[j]
    <3>1. CASE j = submitted'
      BY <1>4, <2>1, <2>2, <3>1
    <3>2. CASE j \in 1 .. submitted
      <4>1. stage'[j] = stage[j] /\ seen'[j] = seen[j]
        BY <1>4, <3>2
      <4> QED BY <1>9, <3>2, <4>1 DEF ToldInv
    <3> QED BY <1>4, <3>1, <3>2
  <2> QED BY <1>5, <2>3 DEF ToldInv
<1>10. \A j \in Jobs : j > submitted' => seen'[j] = Absent
  <2>1. \A j \in Jobs : j \in Nat /\ (j > submitted => seen[j] = Absent)
    BY DEF Jobs, SeenInv
  <2> QED BY <1>1, <1>4, <2>1
<1>11. Calm' => Calm
  BY <1>1 DEF Calm, Redeliver
<1> QED BY <1>1, <1>8, <1>9, <1>10, <1>11 DEF SeenInv

\* Asking and cancelling: what is told is what is recorded.
LEMMA CallTells ==
    ASSUME BrokerTypeOK, NEW j \in Jobs, Get(j) \/ Revoke(j) \/ CancelJob(j)
    PROVE  /\ BrokerTypeOK' /\ j \in 1 .. submitted /\ stage'[j] \in Stages
           /\ UNCHANGED <<setup, submitted, worker, stored, crashes>>
           /\ seen'[j] = Shown[stage'[j]] /\ \A i \in Jobs \ {j} : seen'[i] = seen[i]
           /\ \A m \in DOMAIN queue' : m \in DOMAIN queue /\ queue'[m] \in {queue[m], 1}
           /\ \/ UNCHANGED stage
              \/ /\ Engine = "procrastinate" /\ stage[j] \in {"waiting", "again"}
                 /\ stage'[j] = "revoked" /\ \A i \in Jobs \ {j} : stage'[i] = stage[i]
                 /\ \A m \in DOMAIN queue' : m[1] # j
<1>1. BrokerTypeOK' /\ UNCHANGED <<setup, submitted, worker, stored, crashes>> /\ j \in 1 .. submitted
  <2>1. j \in 1 .. submitted
    BY DEF Get, Revoke, CancelJob, BrokerTypeOK, Jobs
  <2> QED BY <2>1, CallTypes DEF Get, Revoke, CancelJob, broker
<1>2. stage'[j] \in Stages /\ stage[j] \in Stages /\ seen \in [Jobs -> State \union {Absent}]
  BY <1>1 DEF BrokerTypeOK
<1>3. seen'[j] = Shown[stage'[j]] /\ \A i \in Jobs \ {j} : seen'[i] = seen[i]
  <2>1. seen' = [seen EXCEPT ![j] = MapState(Word(stage'[j]))]
    BY DEF Get, Revoke, CancelJob, broker
  <2>2. Shown[stage'[j]] = MapState(Word(stage'[j]))
    BY <1>2 DEF Shown
  <2> QED BY <1>2, <2>1, <2>2
<1>4. CASE Get(j) \/ Revoke(j)
  <2>1. UNCHANGED <<stage, queue>>
    BY <1>4 DEF Get, Revoke, broker
  <2> QED BY <1>1, <1>2, <1>3, <2>1
<1>5. CASE CancelJob(j)
  <2> DEFINE gone == IF Word(stage[j]) = "todo" THEN {j} ELSE {}
  <2>1. /\ Engine = "procrastinate"
        /\ stage' = [i \in Jobs |-> IF i \in gone THEN "revoked" ELSE stage[i]]
        /\ queue' = SetToBag({m \in BagToSet(queue) : m[1] \notin gone})
    BY <1>5 DEF CancelJob
  <2>2. (gone = {j} /\ stage[j] \in {"waiting", "again"}) \/ gone = {}
    BY <1>2, <2>1, ShownIs
  <2> HIDE DEF gone
  <2>5. \A m \in DOMAIN queue' : m \in DOMAIN queue /\ queue'[m] \in {queue[m], 1}
    BY <2>1 DEF SetToBag, BagToSet
  <2>3. CASE gone = {j} /\ stage[j] \in {"waiting", "again"}
    <3>1. stage'[j] = "revoked" /\ \A i \in Jobs \ {j} : stage'[i] = stage[i]
      BY <2>1, <2>3
    <3>2. \A m \in DOMAIN queue' : m[1] # j
      BY <2>1, <2>3 DEF SetToBag, BagToSet
    <3> QED BY <1>1, <1>2, <1>3, <2>1, <2>3, <2>5, <3>1, <3>2
  <2>4. CASE gone = {}
    <3>1. stage \in [Jobs -> Stages \union {Nothing}]
      BY DEF BrokerTypeOK
    <3>2. stage' = stage
      BY <2>1, <2>4, <3>1
    <3> QED BY <1>1, <1>2, <1>3, <2>5, <3>2
  <2> QED BY <2>2, <2>3, <2>4
<1> QED BY <1>4, <1>5

LEMMA CallSeen ==
    ASSUME SeenInv, NEW j \in Jobs, Get(j) \/ Revoke(j) \/ CancelJob(j)
    PROVE  SeenInv'
<1>1. /\ BrokerTypeOK /\ BrokerTypeOK' /\ j \in 1 .. submitted /\ stage'[j] \in Stages
      /\ UNCHANGED <<setup, submitted, worker, stored, crashes>>
      /\ seen'[j] = Shown[stage'[j]] /\ \A i \in Jobs \ {j} : seen'[i] = seen[i]
      /\ \A m \in DOMAIN queue' : m \in DOMAIN queue /\ queue'[m] \in {queue[m], 1}
  BY CallTells DEF SeenInv
<1>2. \/ UNCHANGED stage
      \/ /\ Engine = "procrastinate" /\ stage[j] \in {"waiting", "again"}
         /\ stage'[j] = "revoked" /\ \A i \in Jobs \ {j} : stage'[i] = stage[i]
         /\ \A m \in DOMAIN queue' : m[1] # j
  BY CallTells DEF SeenInv
<1>3. /\ \A m \in DOMAIN queue : m[1] \in Jobs
      /\ \A v \in Workers : worker[v] # Idle => worker[v][1] \in Jobs
      /\ 1 .. submitted \subseteq Jobs
  BY <1>1, MessageType
<1>4. Engine' = Engine /\ (Calm' => Calm) /\ \A v \in Workers : Busy(v)' <=> Busy(v)
  BY <1>1 DEF Engine, Busy, Calm, Redeliver
<1>5. ASSUME OncePlaced PROVE OncePlaced'
  <2>1. \A m \in DOMAIN queue' : queue'[m] = 1 /\ stage'[m[1]] = stage[m[1]] /\ m \in DOMAIN queue
    BY <1>1, <1>2, <1>3, <1>5 DEF OncePlaced
  <2>2. ASSUME NEW v \in Workers, Busy(v) PROVE stage'[worker[v][1]] = stage[worker[v][1]]
    <3>1. worker[v][1] \in Jobs
      BY <1>3, <2>2 DEF Busy
    <3>2. Engine # "celery" => stage[worker[v][1]] = "started"
      BY <1>5, <2>2 DEF OncePlaced
    <3>3. Engine = "procrastinate" /\ stage[j] \in {"waiting", "again"} => worker[v][1] # j
      BY <3>2
    <3> QED BY <1>2, <3>1, <3>3
  <2> QED BY <1>1, <1>4, <1>5, <2>1, <2>2 DEF OncePlaced
<1>6. ASSUME ToldInv PROVE ToldInv'
  <2>1. \A i \in 1 .. submitted :
            /\ \/ stage'[i] = stage[i]
               \/ stage[i] \in Open /\ stage'[i] \in Stages \ {"waiting"}
            /\ \/ seen'[i] = seen[i]
               \/ seen'[i] = Shown[stage'[i]] /\ stage'[i] \in Stages
    BY <1>1, <1>2, <1>3 DEF Open, Stages
  <2> QED BY <1>1, <1>6, <2>1, ToldKept
<1>7. \A i \in Jobs : i > submitted' => seen'[i] = Absent
  BY <1>1 DEF SeenInv, BrokerTypeOK, Jobs
<1> QED BY <1>1, <1>4, <1>5, <1>6, <1>7 DEF SeenInv

LEMMA SeenStep == SeenInv /\ [BrokerNext]_brokerVars => SeenInv'
<1> SUFFICES ASSUME SeenInv, [BrokerNext]_brokerVars PROVE SeenInv'
  OBVIOUS
<1>1. CASE UNCHANGED brokerVars
  <2>1. BrokerTypeOK'
    BY BrokerTypes DEF SeenInv
  <2>2. UNCHANGED <<setup, submitted, stage, queue, worker, stored, seen, crashes>>
    BY <1>1 DEF brokerVars
  <2>3. Shown' = Shown /\ Engine' = Engine /\ (Calm' => Calm) /\ \A v \in Workers : Busy(v)' <=> Busy(v)
    BY <2>2, ShownKept DEF Engine, Busy, Calm, Redeliver
  <2>4. (OncePlaced => OncePlaced') /\ (ToldInv => ToldInv')
    BY <2>2, <2>3 DEF OncePlaced, ToldInv
  <2> QED BY <2>1, <2>2, <2>3, <2>4 DEF SeenInv
<1>2. ASSUME NEW w \in Workers, Work(w) \/ Crash(w) PROVE SeenInv'
  BY <1>2, StartSeen, DiscardSeen, SettleSeen, LeaveSeen DEF Work
<1> QED BY <1>1, <1>2, SubmitSeen, CallSeen DEF BrokerNext

LEMMA SeenStart == BrokerInit => SeenInv
<1> SUFFICES ASSUME BrokerInit PROVE SeenInv
  OBVIOUS
<1>1. BrokerTypeOK
  BY BrokerStart
<1>2. /\ DOMAIN queue = {} /\ submitted = 0 /\ \A w \in Workers : worker[w] = Idle
      /\ \A j \in Jobs : seen[j] = Absent
  BY DEF BrokerInit, EmptyBag, SetToBag
<1> QED BY <1>1, <1>2 DEF SeenInv, OncePlaced, ToldInv, Busy

\* What a step tells of a job is a legal next state.
LEMMA SeenLegally ==
    ASSUME SeenInv, [BrokerNext]_brokerVars, NEW j \in Jobs
    PROVE  \/ seen[j] = Absent
           \/ TransitionsTo(seen[j], seen'[j])
           \/ Engine = "procrastinate" /\ <<seen[j], seen'[j]>> = <<"running", "queued">>
           \/ Redeliver /\ crashes > 0
<1> SUFFICES ASSUME Calm, seen[j] # Absent, seen'[j] # seen[j]
             PROVE  \/ TransitionsTo(seen[j], seen'[j])
                    \/ Engine = "procrastinate" /\ <<seen[j], seen'[j]>> = <<"running", "queued">>
  BY DEF Calm, TransitionsTo
<1>1. BrokerTypeOK /\ OncePlaced /\ ToldInv /\ j \in 1 .. submitted
  <2>1. BrokerTypeOK /\ OncePlaced /\ ToldInv /\ (j > submitted => seen[j] = Absent)
    BY DEF SeenInv
  <2>2. submitted \in 0 .. MaxJobs /\ MaxJobs \in Nat /\ j \in 1 .. MaxJobs
    BY <2>1, BrokerAssumption DEF BrokerTypeOK, Jobs
  <2> QED BY <2>1, <2>2
<1>2. stage[j] \in Stages
  BY <1>1 DEF BrokerTypeOK
<1>3. Get(j) \/ Revoke(j) \/ CancelJob(j)
  <2>1. ~ UNCHANGED seen
    OBVIOUS
  <2>2. ASSUME NEW w \in Workers, Work(w) \/ Crash(w) PROVE FALSE
    BY <2>1, <2>2 DEF Work, Start, Discard, Succeeds, Raises, Ack, Crash, application
  <2>3. ASSUME Submit PROVE FALSE
    <3>1. submitted' = submitted + 1 /\ seen' = [seen EXCEPT ![submitted'] = "queued"]
      BY <2>3 DEF Submit
    <3> QED BY <1>1, <3>1 DEF BrokerTypeOK
  <2>4. ASSUME NEW i \in Jobs, Get(i) \/ Revoke(i) \/ CancelJob(i) PROVE i = j
    BY <1>1, <2>4, CallTells
  <2> QED BY <2>1, <2>2, <2>3, <2>4 DEF BrokerNext, brokerVars
<1>4. seen'[j] = Shown[stage'[j]]
  BY <1>1, <1>3, CallTells
<1>5. CASE stage'[j] = stage[j]
  BY <1>1, <1>4, <1>5 DEF ToldInv
<1>6. CASE stage[j] \in {"waiting", "again"} /\ stage'[j] = "revoked"
  <2>1. Shown[stage[j]] \in {"queued", "running"}
    BY <1>2, <1>6, ShownIs DEF Open
  <2>2. seen[j] \in State \ Terminal
    BY <1>1, <2>1 DEF ToldInv, Terminal
  <2>3. "revoked" \in Stages \ {"waiting"}
    BY DEF Stages
  <2> QED BY <1>4, <1>6, <2>2, <2>3, LeadsOn
<1> QED BY <1>1, <1>3, <1>5, <1>6, CallTells

\* The states that an application is told of one after the other form a legal
\* sequence, but for a retry that Procrastinate puts back to todo and a message
\* that was delivered again (map_state, map_status, Execution.transitions_to).
THEOREM SeenCorrect == BrokerSpec => SeenIsLegal
<1>1. SeenInv /\ [BrokerNext]_brokerVars
          => [\A j \in Jobs :
                 \/ seen[j] = Absent
                 \/ TransitionsTo(seen[j], seen'[j])
                 \/ Engine = "procrastinate" /\ <<seen[j], seen'[j]>> = <<"running", "queued">>
                 \/ Redeliver /\ crashes > 0]_brokerVars
  BY SeenLegally
<1> QED BY <1>1, SeenStart, SeenStep, PTL DEF BrokerSpec, SeenIsLegal

=============================================================================
