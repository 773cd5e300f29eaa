--------------------------- MODULE OnCommitProofs ---------------------------
(***************************************************************************)
(* Proofs about the queue (QueueConsumer) and its producer (OnCommit), for  *)
(* any number of messages and consumers, any mix of deployments, any batch  *)
(* size and redrive policy: what is sent was committed, what is deleted has *)
(* succeeded, and a task succeeds again only after a lease has run out.     *)
(*                                                                         *)
(* Then, independently, about the local scheduler (LocalScheduler): what    *)
(* run_pending fires, it fires once and not before its time.               *)
(***************************************************************************)
EXTENDS OnCommit, LocalScheduler, FiniteSetTheorems, TLAPS

\* Delivery d is in consumer c's batch and its task has not succeeded yet: the
\* first of the batch has when it is about to be acknowledged.
Pending(c, d) ==
    \E i \in DOMAIN batch[c] : batch[c][i] = d /\ (pc[c] = "ack" => i # 1)

\* The deliveries of m, by their receipts, whose task may still run.
Open(m) == {n \in 1 .. MaxReceives : \E c \in Consumers : Pending(c, <<m, n>>)}

\* Whether the queue may still hear of the last delivery of m, or has heard.
Outstanding(m) == IF place[m] \in {"unsent", "queue"} THEN 0 ELSE 1

\* Every delivery runs once, and another one is made only after a lease has run
\* out or the message was given back without a success.
BudgetInv(m) == successes[m] + Cardinality(Open(m)) <= expiries[m] + Outstanding(m)

PlaceInv(m) ==
    /\ place[m] = "unsent" => receives[m] = 0
    /\ place[m] = "queue" => receives[m] < MaxReceives
    /\ place[m] = "leased" => expiries[m] < receives[m]
    /\ expiries[m] <= receives[m]

\* No delivery is in two batches, or twice in one.
UnsharedInv ==
    \A c, d \in Consumers : \A i \in DOMAIN batch[c], j \in DOMAIN batch[d] :
        batch[c][i] = batch[d][j] => c = d /\ i = j

\* What a consumer knows of its batch.
BatchInv(c) ==
    /\ pc[c] \in {"ack", "abandon"} => batch[c] # <<>>
    /\ pc[c] \notin {"process", "ack", "abandon"} => batch[c] = <<>>
    /\ pc[c] = "ack" => successes[batch[c][1][1]] > 0
    /\ \A d \in done[c] : successes[d[1]] > 0
    /\ \A i \in DOMAIN batch[c] : batch[c][i][2] <= receives[batch[c][i][1]]

QueueInv ==
    /\ TypeOK
    /\ \A m \in Messages : PlaceInv(m) /\ BudgetInv(m)
    /\ UnsharedInv
    /\ \A c \in Consumers : BatchInv(c)
    /\ DeletedHasSucceeded

\* Every submission is in one place: to come, given up or sent.
ProducerInv ==
    /\ IsInjective(hooks)
    /\ ToSet(hooks) \intersect lost = {}
    /\ \A m \in ToSet(hooks) \union lost : place[m] = "unsent"
    /\ \A m \in Messages : place[m] # "unsent" => tx = "committed"

IInv == OnCommitTypeOK /\ QueueInv /\ ProducerInv

-----------------------------------------------------------------------------
(* Counting the deliveries that may still run. *)

LEMMA OpenIsFinite ==
    ASSUME NEW m
    PROVE  IsFiniteSet(Open(m)) /\ IsFiniteSet(Open(m)') /\ Cardinality(Open(m)) \in Nat
<1>1. IsFiniteSet(1 .. MaxReceives)
  BY QueueAssumption, FS_Interval
<1>2. Open(m) \in SUBSET (1 .. MaxReceives) /\ Open(m)' \in SUBSET (1 .. MaxReceives)
  BY DEF Open
<1> QED BY <1>1, <1>2, FS_Subset, FS_CardinalityType

\* Fewer deliveries are open.
LEMMA OpenShrinks ==
    ASSUME NEW m, Open(m)' \subseteq Open(m)
    PROVE  Cardinality(Open(m)') \in Nat /\ Cardinality(Open(m)') <= Cardinality(Open(m))
  BY OpenIsFinite, FS_Subset, FS_CardinalityType

\* One delivery is not open any more.
LEMMA OpenLoses ==
    ASSUME NEW m, NEW n \in Open(m), Open(m)' \subseteq Open(m) \ {n}
    PROVE  /\ Cardinality(Open(m)') \in Nat
           /\ Cardinality(Open(m)') <= Cardinality(Open(m)) - 1
<1>1. IsFiniteSet(Open(m) \ {n}) /\ Cardinality(Open(m) \ {n}) = Cardinality(Open(m)) - 1
  BY OpenIsFinite, FS_RemoveElement
<1>2. Open(m)' \in SUBSET (Open(m) \ {n})
  OBVIOUS
<1>3. Cardinality(Open(m)') <= Cardinality(Open(m) \ {n})
  BY <1>1, <1>2, FS_Subset
<1>4. Cardinality(Open(m)') \in Nat
  BY OpenIsFinite, FS_CardinalityType
<1> QED BY <1>1, <1>3, <1>4

\* One more is.
LEMMA OpenGains ==
    ASSUME NEW m, NEW n, Open(m)' \subseteq Open(m) \union {n}
    PROVE  /\ Cardinality(Open(m)') \in Nat
           /\ Cardinality(Open(m)') <= Cardinality(Open(m)) + 1
<1>1. /\ IsFiniteSet(Open(m) \union {n})
      /\ Cardinality(Open(m) \union {n}) <= Cardinality(Open(m)) + 1
  <2>1. IsFiniteSet(Open(m)) /\ Cardinality(Open(m)) \in Nat
    BY OpenIsFinite, FS_CardinalityType
  <2>2. /\ IsFiniteSet(Open(m) \union {n})
        /\ \/ Cardinality(Open(m) \union {n}) = Cardinality(Open(m))
           \/ Cardinality(Open(m) \union {n}) = Cardinality(Open(m)) + 1
    BY <2>1, FS_AddElement
  <2> QED BY <2>1, <2>2
<1>2. Open(m)' \in SUBSET (Open(m) \union {n})
  OBVIOUS
<1>3. Cardinality(Open(m)') <= Cardinality(Open(m) \union {n})
  BY <1>1, <1>2, FS_Subset
<1>4. Cardinality(Open(m)') \in Nat /\ Cardinality(Open(m)) \in Nat
      /\ Cardinality(Open(m) \union {n}) \in Nat
  BY <1>1, OpenIsFinite, FS_CardinalityType
<1> QED BY <1>1, <1>3, <1>4

\* The budget, in a form that the arithmetic of a step can use.
LEMMA BudgetTypes ==
    ASSUME QueueInv, NEW m \in Messages
    PROVE  /\ successes[m] \in Nat /\ expiries[m] \in Nat /\ receives[m] \in Nat
           /\ Cardinality(Open(m)) \in Nat
           /\ successes[m] + Cardinality(Open(m)) <= expiries[m] + Outstanding(m)
  BY OpenIsFinite, QueueAssumption DEF QueueInv, TypeOK, BudgetInv

-----------------------------------------------------------------------------
\* The queue and its consumers as they start.
LEMMA InitInv == Init => QueueInv
<1> SUFFICES ASSUME Init PROVE QueueInv
  OBVIOUS
<1>1. TypeOK
  <2>1. <<>> \in Seq(Delivery)
    OBVIOUS
  <2> QED BY <2>1, QueueAssumption DEF Init, TypeOK
<1>2. \A m \in Messages : PlaceInv(m) /\ BudgetInv(m)
  <2> SUFFICES ASSUME NEW m \in Messages PROVE PlaceInv(m) /\ BudgetInv(m)
    OBVIOUS
  <2>1. Open(m) = {}
    BY DEF Init, Open, Pending
  <2>2. Cardinality({}) = 0
    BY FS_EmptySet
  <2> QED BY <2>1, <2>2 DEF Init, PlaceInv, BudgetInv, Outstanding
<1>3. UnsharedInv /\ (\A c \in Consumers : BatchInv(c)) /\ DeletedHasSucceeded
  BY DEF Init, UnsharedInv, BatchInv, DeletedHasSucceeded
<1> QED BY <1>1, <1>2, <1>3 DEF QueueInv

\* A submission reaches the queue.
LEMMA SendStep ==
    ASSUME QueueInv, NEW m \in Messages, Send(m)
    PROVE  QueueInv'
<1>1. TypeOK'
  BY DEF QueueInv, TypeOK, Send
<1>2. ASSUME NEW k \in Messages PROVE PlaceInv(k)' /\ BudgetInv(k)'
  <2>1. PlaceInv(k) /\ BudgetInv(k) /\ Outstanding(k)' = Outstanding(k)
    BY DEF QueueInv, TypeOK, Send, Outstanding
  <2>2. Open(k)' = Open(k)
    BY DEF Send, Open, Pending
  <2> QED BY <2>1, <2>2, QueueAssumption DEF QueueInv, TypeOK, Send, PlaceInv, BudgetInv
<1>3. UnsharedInv' /\ (\A c \in Consumers : BatchInv(c)') /\ DeletedHasSucceeded'
  BY DEF QueueInv, TypeOK, Send, UnsharedInv, BatchInv, DeletedHasSucceeded
<1> QED BY <1>1, <1>2, <1>3 DEF QueueInv

\* A lease runs out.
LEMMA ExpireStep ==
    ASSUME QueueInv, NEW m \in Messages, Expire(m)
    PROVE  QueueInv'
<1>1. PlaceInv(m) /\ Released(m) \in {"queue", "dead"} /\ expiries[m] + 1 \in 0 .. MaxReceives
  BY QueueAssumption DEF QueueInv, TypeOK, Expire, PlaceInv, Released
<1>2. TypeOK'
  BY <1>1 DEF QueueInv, TypeOK, Expire
<1>3. ASSUME NEW k \in Messages PROVE PlaceInv(k)' /\ BudgetInv(k)'
  <2>1. Open(k)' = Open(k)
    BY DEF Expire, Open, Pending
  <2>2. CASE k # m
    BY <2>1, <2>2 DEF QueueInv, TypeOK, Expire, PlaceInv, BudgetInv, Outstanding
  <2>3. CASE k = m
    <3>1. expiries'[m] = expiries[m] + 1 /\ Outstanding(m) = 1 /\ Outstanding(m)' \in {0, 1}
      BY DEF QueueInv, TypeOK, Expire, Outstanding
    <3>2. BudgetInv(m)'
      BY <2>1, <2>3, <3>1, BudgetTypes DEF Expire, BudgetInv
    <3>3. PlaceInv(m)'
      BY <1>1, <3>1, QueueAssumption DEF QueueInv, TypeOK, Expire, PlaceInv, Released
    <3> QED BY <2>3, <3>2, <3>3
  <2> QED BY <2>2, <2>3
<1>4. UnsharedInv' /\ (\A c \in Consumers : BatchInv(c)') /\ DeletedHasSucceeded'
  BY <1>1 DEF QueueInv, TypeOK, Expire, UnsharedInv, BatchInv, DeletedHasSucceeded
<1> QED BY <1>2, <1>3, <1>4 DEF QueueInv

-----------------------------------------------------------------------------
(* The consumers. *)

\* A consumer goes on with its batch or drops its head or all of it; what it
\* has acknowledged it drops.
Proceeds(c) ==
    /\ \A d \in Consumers \ {c} : pc'[d] = pc[d] /\ batch'[d] = batch[d] /\ done'[d] = done[d]
    /\ \/ batch'[c] = batch[c] /\ (pc[c] = "ack" => pc'[c] = "ack")
       \/ batch[c] # <<>> /\ batch'[c] = Tail(batch[c]) /\ pc'[c] # "ack"
       \/ batch'[c] = <<>>

\* It is then through with the delivery at the head of its batch, whose task
\* has not succeeded before.
Finishes(c) ==
    /\ batch[c] # <<>> /\ pc[c] # "ack"
    /\ batch'[c] # batch[c] \/ pc'[c] = "ack"

LEMMA TailItems ==
    ASSUME NEW S, NEW s \in Seq(S), s # <<>>, NEW i \in DOMAIN Tail(s)
    PROVE  i \in Nat \ {0} /\ i + 1 \in DOMAIN s /\ Tail(s)[i] = s[i + 1]
  OBVIOUS

LEMMA TailShorter ==
    ASSUME NEW S, NEW s \in Seq(S), s # <<>>
    PROVE  Tail(s) \in Seq(S) /\ Tail(s) # s
<1>1. Tail(s) \in Seq(S) /\ Len(Tail(s)) = Len(s) - 1 /\ Len(s) \in Nat
  OBVIOUS
<1>2. ASSUME Tail(s) = s PROVE FALSE
  <2>1. Len(s) = Len(s) - 1
    BY <1>1, <1>2
  <2> QED BY <1>1, <2>1
<1> QED BY <1>1, <1>2

LEMMA ProceedsKeeps ==
    ASSUME QueueInv, TypeOK', NEW c \in Consumers, Proceeds(c), UNCHANGED receives,
           \A m \in Messages : successes'[m] >= successes[m],
           BatchInv(c)'
    PROVE  UnsharedInv' /\ \A d \in Consumers : BatchInv(d)'
<1>1. ASSUME NEW d \in Consumers, NEW i \in DOMAIN batch'[d]
      PROVE  \/ i \in DOMAIN batch[d] /\ batch'[d][i] = batch[d][i] /\ batch'[d] = batch[d]
             \/ d = c /\ i + 1 \in DOMAIN batch[d] /\ batch'[d][i] = batch[d][i + 1]
                /\ batch'[d] = Tail(batch[d])
  <2>1. batch[d] \in Seq(Delivery)
    BY DEF QueueInv, TypeOK
  <2>2. CASE batch'[d] = batch[d]
    BY <1>1, <2>2
  <2>3. CASE batch'[d] # batch[d]
    <3>1. d = c /\ batch'[d] # <<>>
      BY <1>1, <2>3 DEF Proceeds
    <3>2. batch[d] # <<>> /\ batch'[d] = Tail(batch[d])
      BY <2>3, <3>1 DEF Proceeds
    <3> QED BY <1>1, <2>1, <3>1, <3>2, TailItems
  <2> QED BY <2>2, <2>3
<1>2. UnsharedInv'
  <2> SUFFICES ASSUME NEW d \in Consumers, NEW e \in Consumers,
                      NEW i \in DOMAIN batch'[d], NEW j \in DOMAIN batch'[e],
                      batch'[d][i] = batch'[e][j]
               PROVE  d = e /\ i = j
    BY DEF UnsharedInv
  <2>1. i \in Nat /\ j \in Nat
    BY DEF TypeOK
  <2>2. d = e
    BY <1>1 DEF QueueInv, UnsharedInv
  <2>3. CASE batch'[d] = batch[d]
    BY <2>2, <2>3 DEF QueueInv, UnsharedInv
  <2>4. CASE batch'[d] # batch[d]
    <3>1. i + 1 \in DOMAIN batch[d] /\ batch'[d][i] = batch[d][i + 1]
      BY <1>1, <2>4
    <3>2. j + 1 \in DOMAIN batch[d] /\ batch'[d][j] = batch[d][j + 1]
      BY <1>1, <2>2, <2>4
    <3>3. i + 1 = j + 1
      BY <2>2, <3>1, <3>2 DEF QueueInv, UnsharedInv
    <3> QED BY <2>1, <2>2, <3>3
  <2> QED BY <2>3, <2>4
<1>3. ASSUME NEW d \in Consumers, d # c PROVE BatchInv(d)'
  <2>1. BatchInv(d) /\ pc'[d] = pc[d] /\ batch'[d] = batch[d] /\ done'[d] = done[d]
    BY <1>3 DEF QueueInv, Proceeds
  <2>2. \A x \in done[d] : x[1] \in Messages
    BY DEF QueueInv, TypeOK, Delivery
  <2>3. pc[d] = "ack" => batch[d][1][1] \in Messages
    <3>1. batch[d] \in Seq(Delivery)
      BY DEF QueueInv, TypeOK
    <3>2. pc[d] = "ack" => batch[d] # <<>>
      BY <2>1 DEF BatchInv
    <3>3. pc[d] = "ack" => batch[d][1] \in Delivery
      BY <3>1, <3>2
    <3> QED BY <3>3 DEF Delivery
  <2>4. \A m \in Messages : successes[m] > 0 => successes'[m] > 0
    BY DEF QueueInv, TypeOK
  <2> QED BY <2>1, <2>2, <2>3, <2>4 DEF BatchInv
<1> QED BY <1>2, <1>3

LEMMA ProceedsOpen ==
    ASSUME QueueInv, NEW c \in Consumers, Proceeds(c), NEW m
    PROVE  Open(m)' \subseteq Open(m)
<1> SUFFICES ASSUME NEW n \in 1 .. MaxReceives, NEW d \in Consumers, Pending(d, <<m, n>>)'
             PROVE  Pending(d, <<m, n>>)
  BY DEF Open
<1>1. CASE d # c
  BY <1>1 DEF Proceeds, Pending
<1>2. CASE d = c
  <2>1. PICK i \in DOMAIN batch'[c] : batch'[c][i] = <<m, n>> /\ (pc'[c] = "ack" => i # 1)
    BY <1>2 DEF Pending
  <2>2. batch[c] \in Seq(Delivery) /\ batch'[c] # <<>>
    BY <2>1 DEF QueueInv, TypeOK
  <2>3. CASE batch'[c] = batch[c] /\ (pc[c] = "ack" => pc'[c] = "ack")
    BY <1>2, <2>1, <2>3 DEF Pending
  <2>4. CASE batch[c] # <<>> /\ batch'[c] = Tail(batch[c])
    <3>1. i \in Nat \ {0} /\ i + 1 \in DOMAIN batch[c] /\ batch[c][i + 1] = <<m, n>>
      BY <2>1, <2>2, <2>4, TailItems
    <3> QED BY <1>2, <3>1 DEF Pending
  <2> QED BY <2>2, <2>3, <2>4 DEF Proceeds
<1> QED BY <1>1, <1>2

LEMMA FinishesOpen ==
    ASSUME QueueInv, NEW c \in Consumers, Proceeds(c), Finishes(c),
           NEW m \in Messages, NEW n, batch[c][1] = <<m, n>>
    PROVE  n \in Open(m) /\ Open(m)' \subseteq Open(m) \ {n}
<1>1. 1 \in DOMAIN batch[c] /\ batch[c] \in Seq(Delivery)
  BY DEF QueueInv, TypeOK, Finishes
<1>2. n \in 1 .. MaxReceives
  BY <1>1 DEF Delivery
<1>3. n \in Open(m)
  BY <1>1, <1>2 DEF Open, Pending, Finishes
<1>4. ASSUME NEW d \in Consumers, Pending(d, <<m, n>>)' PROVE FALSE
  <2>1. PICK i \in DOMAIN batch'[d] : batch'[d][i] = <<m, n>> /\ (pc'[d] = "ack" => i # 1)
    BY <1>4 DEF Pending
  <2>2. CASE d # c
    <3>1. i \in DOMAIN batch[d] /\ batch[d][i] = batch[c][1]
      BY <2>1, <2>2 DEF Proceeds
    <3> QED BY <1>1, <2>2, <3>1 DEF QueueInv, UnsharedInv
  <2>3. CASE d = c
    <3>1. CASE batch'[c] = batch[c]
      BY <1>1, <2>1, <2>3, <3>1 DEF QueueInv, UnsharedInv, Finishes
    <3>2. CASE batch'[c] = Tail(batch[c])
      <4>1. i + 1 \in DOMAIN batch[c] /\ batch[c][i + 1] = batch[c][1] /\ i \in 1 .. Len(Tail(batch[c]))
        BY <1>1, <2>1, <2>3, <3>2
      <4>2. i + 1 = 1
        BY <1>1, <4>1 DEF QueueInv, UnsharedInv
      <4> QED BY <4>1, <4>2
    <3> QED BY <2>1, <2>3, <3>1, <3>2 DEF Proceeds
  <2> QED BY <2>2, <2>3
<1>5. Open(m)' \subseteq Open(m)
  BY ProceedsOpen
<1> QED BY <1>3, <1>4, <1>5 DEF Open

\* A step of a consumer but the reception: a task runs at most once for each
\* delivery, a message goes back to the queue only instead of that run, and is
\* deleted only after it.
LEMMA WorkerStep ==
    ASSUME QueueInv, TypeOK', NEW c \in Consumers, Proceeds(c), BatchInv(c)',
           UNCHANGED <<receives, expiries>>,
           \A m \in Messages :
               \/ successes'[m] = successes[m]
               \/ /\ successes'[m] = successes[m] + 1 /\ place'[m] = place[m]
                  /\ Finishes(c) /\ batch[c][1][1] = m,
           \A m \in Messages :
               \/ place'[m] = place[m]
               \/ place[m] = "leased" /\ place'[m] = "deleted" /\ successes[m] > 0
               \/ /\ place[m] = "leased" /\ place'[m] = Released(m)
                  /\ successes'[m] = successes[m]
                  /\ Finishes(c) /\ batch[c][1][1] = m
    PROVE  QueueInv'
<1>1. \A m \in Messages : successes'[m] \in Nat /\ successes[m] \in Nat /\ successes'[m] >= successes[m]
  <2>1. successes \in [Messages -> Nat]
    BY DEF QueueInv, TypeOK
  <2> QED BY <2>1
<1>2. UnsharedInv' /\ \A d \in Consumers : BatchInv(d)'
  BY <1>1, ProceedsKeeps
<1>3. DeletedHasSucceeded'
  BY <1>1 DEF QueueInv, DeletedHasSucceeded, Released
<1>4. ASSUME NEW m \in Messages PROVE PlaceInv(m)'
  BY QueueAssumption DEF QueueInv, TypeOK, PlaceInv, Released
<1>5. ASSUME NEW m \in Messages PROVE BudgetInv(m)'
  <2>1. /\ successes[m] \in Nat /\ expiries[m] \in Nat /\ Cardinality(Open(m)) \in Nat
        /\ successes[m] + Cardinality(Open(m)) <= expiries[m] + Outstanding(m)
    BY BudgetTypes
  <2>2. Outstanding(m) \in {0, 1} /\ Outstanding(m)' \in {0, 1}
    BY DEF Outstanding
  <2>3. CASE ~ (Finishes(c) /\ batch[c][1][1] = m)
    <3>1. Cardinality(Open(m)') \in Nat /\ Cardinality(Open(m)') <= Cardinality(Open(m))
      BY ProceedsOpen, OpenShrinks
    <3>2. successes'[m] = successes[m]
      BY <2>3
    <3>3. Outstanding(m)' = Outstanding(m)
      BY <2>3 DEF Outstanding
    <3> QED BY <2>1, <2>2, <3>1, <3>2, <3>3 DEF BudgetInv
  <2>4. CASE Finishes(c) /\ batch[c][1][1] = m
    <3>1. batch[c][1] \in Delivery
      BY <2>4 DEF QueueInv, TypeOK, Finishes
    <3>2. batch[c][1] = <<m, batch[c][1][2]>>
      BY <2>4, <3>1 DEF Delivery
    <3>3. Cardinality(Open(m)') \in Nat /\ Cardinality(Open(m)') <= Cardinality(Open(m)) - 1
      BY <2>4, <3>2, FinishesOpen, OpenLoses
    <3>4. CASE successes'[m] = successes[m]
      <4>1. Outstanding(m)' + 1 >= Outstanding(m)
        BY <2>2
      <4> QED BY <2>1, <2>2, <3>3, <3>4, <4>1 DEF BudgetInv
    <3>5. CASE successes'[m] = successes[m] + 1 /\ place'[m] = place[m]
      <4>1. Outstanding(m)' = Outstanding(m)
        BY <3>5 DEF Outstanding
      <4> QED BY <2>1, <2>2, <3>3, <3>5, <4>1 DEF BudgetInv
    <3> QED BY <3>4, <3>5
  <2> QED BY <2>3, <2>4
<1> QED BY <1>2, <1>3, <1>4, <1>5 DEF QueueInv

\* The task at the head of the batch succeeds.
LEMMA TaskSucceedsStep ==
    ASSUME QueueInv, NEW c \in Consumers, TaskSucceeds(c)
    PROVE  QueueInv'
<1>1. batch[c] \in Seq(Delivery) /\ batch[c] # <<>> /\ pc[c] = "process"
      /\ UNCHANGED <<mode, place, receives, expiries, stop>>
  BY DEF QueueInv, TypeOK, TaskSucceeds, queue
<1>2. Head1(c) = batch[c][1] /\ Head1(c)[1] \in Messages /\ Head1(c) \in Delivery
  BY <1>1 DEF Head1, Delivery
<1>3. successes' = [successes EXCEPT ![Head1(c)[1]] = @ + 1]
  BY DEF TaskSucceeds
<1>4. Tail(batch[c]) \in Seq(Delivery) /\ Tail(batch[c]) # batch[c]
  BY <1>1, TailShorter
<1>5. \/ /\ done' = [done EXCEPT ![c] = @ \union {Head1(c)}]
         /\ batch' = [batch EXCEPT ![c] = Tail(@)] /\ pc' = pc
      \/ pc' = [pc EXCEPT ![c] = "ack"] /\ UNCHANGED <<batch, done>>
  BY DEF TaskSucceeds, Drop, Goto
<1>6. TypeOK'
  <2>1. successes' \in [Messages -> Nat]
    BY <1>2, <1>3 DEF QueueInv, TypeOK
  <2>2. batch' \in [Consumers -> Seq(Delivery)]
    BY <1>4, <1>5 DEF QueueInv, TypeOK
  <2>3. done' \in [Consumers -> SUBSET Delivery]
    <3>1. done \in [Consumers -> SUBSET Delivery] /\ done[c] \union {Head1(c)} \in SUBSET Delivery
      BY <1>2 DEF QueueInv, TypeOK
    <3> QED BY <1>5, <3>1
  <2>4. pc' \in [Consumers -> {"poll", "process", "ack", "abandon", "raised", "crashed", "stopped"}]
    BY <1>5 DEF QueueInv, TypeOK
  <2> QED BY <1>1, <2>1, <2>2, <2>3, <2>4 DEF QueueInv, TypeOK
<1>7. Proceeds(c) /\ Finishes(c)
  BY <1>1, <1>4, <1>5 DEF QueueInv, TypeOK, Proceeds, Finishes
<1>8. successes'[Head1(c)[1]] > 0 /\ \A m \in Messages : successes[m] > 0 => successes'[m] > 0
  BY <1>2, <1>3 DEF QueueInv, TypeOK
<1>9. BatchInv(c)'
  <2>1. BatchInv(c) /\ \A d \in done[c] : d[1] \in Messages
    BY DEF QueueInv, TypeOK, Delivery
  <2>2. \A d \in done'[c] : successes'[d[1]] > 0
    BY <1>5, <1>8, <2>1 DEF QueueInv, TypeOK, BatchInv
  <2>3. \A i \in DOMAIN batch'[c] : batch'[c][i][2] <= receives'[batch'[c][i][1]]
    <3>1. CASE UNCHANGED batch
      BY <1>1, <2>1, <3>1 DEF BatchInv
    <3>2. CASE batch' = [batch EXCEPT ![c] = Tail(@)]
      <4>1. batch'[c] = Tail(batch[c])
        BY <3>2 DEF QueueInv, TypeOK
      <4> QED BY <1>1, <2>1, <4>1, TailItems DEF BatchInv
    <3> QED BY <1>5, <3>1, <3>2
  <2>4. /\ pc'[c] \in {"process", "ack"}
        /\ pc'[c] = "ack" => batch'[c] = batch[c]
    BY <1>1, <1>5 DEF QueueInv, TypeOK
  <2> QED BY <1>1, <1>2, <1>8, <2>2, <2>3, <2>4 DEF BatchInv
<1>10. \A m \in Messages :
           \/ successes'[m] = successes[m]
           \/ /\ successes'[m] = successes[m] + 1 /\ place'[m] = place[m]
              /\ Finishes(c) /\ batch[c][1][1] = m
  BY <1>1, <1>2, <1>3, <1>7 DEF QueueInv, TypeOK
<1> QED BY <1>1, <1>6, <1>7, <1>9, <1>10, WorkerStep

Labels == {"poll", "process", "abandon", "raised", "crashed", "stopped"}

\* A step in which no task succeeds.
LEMMA QuietStep ==
    ASSUME QueueInv, NEW c \in Consumers, NEW label \in Labels,
           UNCHANGED <<mode, receives, successes, expiries, stop>>,
           pc' = [pc EXCEPT ![c] = label],
           \/ UNCHANGED batch /\ pc[c] # "ack"
           \/ batch[c] # <<>> /\ batch' = [batch EXCEPT ![c] = Tail(@)]
           \/ batch' = [batch EXCEPT ![c] = <<>>],
           UNCHANGED done \/ done' = [done EXCEPT ![c] = {}],
           label = "abandon" => UNCHANGED batch /\ batch[c] # <<>>,
           label \notin {"process", "abandon"} => batch'[c] = <<>>,
           place' \in [Messages -> {"unsent", "queue", "leased", "deleted", "dead"}],
           \A m \in Messages :
               \/ place'[m] = place[m]
               \/ place[m] = "leased" /\ place'[m] = "deleted" /\ successes[m] > 0
               \/ /\ place[m] = "leased" /\ place'[m] = Released(m)
                  /\ Finishes(c) /\ batch[c][1][1] = m
    PROVE  QueueInv'
<1>1. /\ batch[c] \in Seq(Delivery) /\ <<>> \in Seq(Delivery)
      /\ Tail(batch[c]) \in Seq(Delivery) \/ batch[c] = <<>>
  BY DEF QueueInv, TypeOK
<1>2. TypeOK'
  <2>1. batch' \in [Consumers -> Seq(Delivery)]
    <3>1. <<>> \in Seq(Delivery) /\ (batch[c] # <<>> => Tail(batch[c]) \in Seq(Delivery))
      BY <1>1
    <3>2. batch \in [Consumers -> Seq(Delivery)]
      BY DEF QueueInv, TypeOK
    <3>3. CASE batch[c] # <<>> /\ batch' = [batch EXCEPT ![c] = Tail(@)]
      BY <3>1, <3>2, <3>3
    <3>4. CASE batch' = [batch EXCEPT ![c] = <<>>]
      BY <3>1, <3>2, <3>4
    <3> QED BY <3>2, <3>3, <3>4
  <2>2. done' \in [Consumers -> SUBSET Delivery]
    BY DEF QueueInv, TypeOK
  <2>3. pc' \in [Consumers -> {"poll", "process", "ack", "abandon", "raised", "crashed", "stopped"}]
    BY DEF QueueInv, TypeOK, Labels
  <2> QED BY <2>1, <2>2, <2>3 DEF QueueInv, TypeOK
<1>3. pc'[c] = label
  BY DEF QueueInv, TypeOK
<1>4. \/ batch'[c] = batch[c] /\ pc[c] # "ack"
      \/ batch[c] # <<>> /\ batch'[c] = Tail(batch[c])
      \/ batch'[c] = <<>>
  BY DEF QueueInv, TypeOK
<1>5. Proceeds(c)
  BY <1>3, <1>4 DEF QueueInv, TypeOK, Proceeds, Labels
<1>6. BatchInv(c)'
  <2>1. BatchInv(c)
    BY DEF QueueInv
  <2>2. \A d \in done'[c] : successes'[d[1]] > 0
    BY <2>1 DEF QueueInv, TypeOK, BatchInv
  <2>3. \A i \in DOMAIN batch'[c] : batch'[c][i][2] <= receives'[batch'[c][i][1]]
    <3>1. batch[c] \in Seq(Delivery)
      BY DEF QueueInv, TypeOK
    <3>2. CASE batch'[c] = batch[c]
      BY <2>1, <3>2 DEF BatchInv
    <3>3. CASE batch[c] # <<>> /\ batch'[c] = Tail(batch[c])
      <4> SUFFICES ASSUME NEW i \in DOMAIN Tail(batch[c])
                   PROVE batch'[c][i][2] <= receives'[batch'[c][i][1]]
        BY <3>3
      <4>1. i + 1 \in DOMAIN batch[c] /\ batch'[c][i] = batch[c][i + 1]
        BY <3>1, <3>3, TailItems
      <4> QED BY <2>1, <4>1 DEF BatchInv
    <3>4. CASE batch'[c] = <<>>
      BY <3>4
    <3> QED BY <1>4, <3>2, <3>3, <3>4
  <2>4. label = "abandon" => batch'[c] # <<>>
    OBVIOUS
  <2> QED BY <1>3, <2>2, <2>3, <2>4 DEF BatchInv, Labels
<1> QED BY <1>2, <1>5, <1>6, WorkerStep

\* The answers of the queue to an acknowledgement.
LEMMA AnswerStep ==
    ASSUME QueueInv, NEW c \in Consumers,
           Ack(c) \/ Abandon(c) \/ AckRaises(c) \/ Respond(c)
    PROVE  QueueInv'
<1> DEFINE d == batch[c][1]
<1>1. pc[c] \in {"ack", "abandon"} /\ batch[c] \in Seq(Delivery) /\ batch[c] # <<>>
  BY DEF QueueInv, TypeOK, BatchInv, Ack, Abandon, AckRaises, Respond
<1>2. Head1(c) = d /\ d \in Delivery /\ d[1] \in Messages
  BY <1>1 DEF Head1, Delivery
<1>3. pc[c] = "ack" => successes[d[1]] > 0
  BY DEF QueueInv, BatchInv
<1> HIDE DEF d
<1>4. \/ UNCHANGED place
      \/ place' = [place EXCEPT ![d[1]] = "deleted"] /\ Leased(d) /\ pc[c] = "ack"
      \/ place' = [place EXCEPT ![d[1]] = Released(d[1])] /\ Leased(d) /\ pc[c] = "abandon"
  <2>1. place = [place EXCEPT ![d[1]] = place[d[1]]]
    BY <1>2 DEF QueueInv, TypeOK
  <2> QED BY <1>2, <2>1 DEF Ack, Abandon, AckRaises, Respond
<1>5. /\ place' \in [Messages -> {"unsent", "queue", "leased", "deleted", "dead"}]
      /\ \A m \in Messages :
               \/ place'[m] = place[m]
               \/ place[m] = "leased" /\ place'[m] = "deleted" /\ successes[m] > 0
               \/ /\ place[m] = "leased" /\ place'[m] = Released(m)
                  /\ pc[c] = "abandon" /\ m = d[1]
  BY <1>2, <1>3, <1>4 DEF QueueInv, TypeOK, Released, Leased
<1>6. UNCHANGED <<mode, receives, successes, expiries, done, stop>>
  BY DEF Ack, Abandon, AckRaises, Respond
<1>7. \/ pc' = [pc EXCEPT ![c] = "process"] /\ batch' = [batch EXCEPT ![c] = Tail(@)]
      \/ pc' = [pc EXCEPT ![c] = "raised"] /\ batch' = [batch EXCEPT ![c] = <<>>]
  BY DEF Ack, Abandon, AckRaises, Respond, Drop, Goto
<1>8. batch'[c] # batch[c]
  <2>1. batch'[c] \in {Tail(batch[c]), <<>>}
    BY <1>7 DEF QueueInv, TypeOK
  <2> QED BY <1>1, <2>1, TailShorter
<1>9. pc[c] = "abandon" => Finishes(c) /\ batch[c][1][1] = d[1]
  BY <1>1, <1>8 DEF Finishes, d
<1>10. "process" \in Labels /\ "raised" \in Labels
  BY DEF Labels
<1>11. batch' = [batch EXCEPT ![c] = <<>>] => batch'[c] = <<>>
  BY DEF QueueInv, TypeOK
<1>12. CASE pc' = [pc EXCEPT ![c] = "process"] /\ batch' = [batch EXCEPT ![c] = Tail(@)]
  BY <1>1, <1>5, <1>6, <1>9, <1>10, <1>12, QuietStep
<1>13. CASE pc' = [pc EXCEPT ![c] = "raised"] /\ batch' = [batch EXCEPT ![c] = <<>>]
  BY <1>5, <1>6, <1>9, <1>10, <1>11, <1>13, QuietStep
<1> QED BY <1>7, <1>12, <1>13

\* A task fails.
LEMMA TaskFailsStep ==
    ASSUME QueueInv, NEW c \in Consumers, TaskFails(c)
    PROVE  QueueInv'
<1>1. /\ UNCHANGED <<mode, place, receives, successes, expiries, done, stop>>
      /\ pc[c] = "process" /\ batch[c] # <<>>
      /\ \/ batch' = [batch EXCEPT ![c] = Tail(@)] /\ pc' = pc
         \/ pc' = [pc EXCEPT ![c] = "abandon"] /\ UNCHANGED batch
  BY DEF TaskFails, Drop, Goto, queue
<1>2. pc = [pc EXCEPT ![c] = pc[c]]
  BY DEF QueueInv, TypeOK
<1>3. "process" \in Labels /\ "abandon" \in Labels
  BY DEF Labels
<1>4. place \in [Messages -> {"unsent", "queue", "leased", "deleted", "dead"}]
  BY DEF QueueInv, TypeOK
<1> QED BY <1>1, <1>2, <1>3, <1>4, QuietStep

\* The batch is done.
LEMMA BatchEndsStep ==
    ASSUME QueueInv, NEW c \in Consumers, BatchEnds(c)
    PROVE  QueueInv'
<1>1. /\ UNCHANGED <<mode, receives, successes, expiries, batch, stop>>
      /\ pc[c] = "process" /\ batch[c] = <<>>
      /\ done' = [done EXCEPT ![c] = {}] /\ pc' = [pc EXCEPT ![c] = "poll"]
  BY DEF BatchEnds, Goto
<1>2. place' \in [Messages -> {"unsent", "queue", "leased", "deleted", "dead"}]
  BY DEF QueueInv, TypeOK, BatchEnds
<1>3. \A m \in Messages :
           \/ place'[m] = place[m]
           \/ place[m] = "leased" /\ place'[m] = "deleted" /\ successes[m] > 0
  BY DEF QueueInv, TypeOK, BatchInv, BatchEnds, Leased
<1>4. "poll" \in Labels
  BY DEF Labels
<1> QED BY <1>1, <1>2, <1>3, <1>4, QuietStep

\* A consumer raises, leaves, dies or is started anew.
LEMMA LifeStep ==
    ASSUME QueueInv, NEW c \in Consumers,
           ReceiveRaises(c) \/ Leave(c) \/ Crash(c) \/ Restart(c)
    PROVE  QueueInv'
<1>1. /\ UNCHANGED <<mode, place, receives, successes, expiries, stop>>
      /\ UNCHANGED done \/ done' = [done EXCEPT ![c] = {}]
      /\ \/ batch' = [batch EXCEPT ![c] = <<>>]
         \/ UNCHANGED batch /\ pc[c] \in {"poll", "crashed", "raised"}
  BY DEF ReceiveRaises, Leave, Crash, Restart, queue
<1>2. PICK label \in Labels : pc' = [pc EXCEPT ![c] = label]
  BY DEF ReceiveRaises, Leave, Crash, Restart, Goto, Labels
<1>3. batch'[c] = <<>>
  BY <1>1 DEF QueueInv, TypeOK, BatchInv
<1>4. label # "abandon"
  BY <1>2 DEF QueueInv, TypeOK, ReceiveRaises, Leave, Crash, Restart, Goto
<1>5. place \in [Messages -> {"unsent", "queue", "leased", "deleted", "dead"}]
  BY DEF QueueInv, TypeOK
<1> QED BY <1>1, <1>2, <1>3, <1>4, <1>5, QuietStep

\* It is told to stop.
LEMMA StopStep ==
    ASSUME QueueInv, NEW c \in Consumers, Stop(c)
    PROVE  QueueInv'
<1>1. UNCHANGED <<mode, place, receives, successes, expiries, pc, batch, done>>
      /\ stop' = stop \union {c}
  BY DEF Stop, queue
<1>2. TypeOK' /\ UnsharedInv' /\ DeletedHasSucceeded' /\ (\A d \in Consumers : BatchInv(d)')
  BY <1>1 DEF QueueInv, TypeOK, UnsharedInv, DeletedHasSucceeded, BatchInv
<1>3. ASSUME NEW m \in Messages PROVE PlaceInv(m)' /\ BudgetInv(m)'
  <2>1. Open(m)' = Open(m)
    BY <1>1 DEF Open, Pending
  <2> QED BY <1>1, <2>1 DEF QueueInv, PlaceInv, BudgetInv, Outstanding
<1> QED BY <1>2, <1>3 DEF QueueInv

\* A consumer takes some messages: the deliveries are new ones.
LEMMA ReceiveStep ==
    ASSUME QueueInv, NEW c \in Consumers, Receive(c)
    PROVE  QueueInv'
<1>1. PICK b \in Batches(IF mode[c] \in {"poll", "lambda"} THEN BatchSize ELSE 1) :
         /\ place' = [m \in Messages |-> IF m \in ToSet(b) THEN "leased" ELSE place[m]]
         /\ receives' = [m \in Messages |-> receives[m] + IF m \in ToSet(b) THEN 1 ELSE 0]
         /\ batch' = [batch EXCEPT ![c] = [i \in DOMAIN b |-> <<b[i], receives'[b[i]]>>]]
  BY DEF Receive
<1>2. /\ pc[c] = "poll" /\ pc' = [pc EXCEPT ![c] = "process"]
      /\ UNCHANGED <<mode, successes, expiries, done, stop>>
      /\ batch[c] = <<>>
  BY DEF QueueInv, BatchInv, Receive, Goto
<1>3. PICK n \in Nat : /\ b \in [1 .. n -> {m \in Messages : place[m] = "queue"}]
                       /\ \A i, j \in 1 .. n : b[i] = b[j] => i = j
  <2>1. PICK n \in 0 .. IF mode[c] \in {"poll", "lambda"} THEN BatchSize ELSE 1 :
           b \in [1 .. n -> {m \in Messages : place[m] = "queue"}]
    BY DEF Batches, SeqOf
  <2>2. n \in Nat
    BY QueueAssumption, <2>1
  <2>3. IsInjective(b)
    BY DEF Batches
  <2> QED BY <2>1, <2>2, <2>3 DEF IsInjective
<1>4. \A m : m \in ToSet(b) <=> \E i \in 1 .. n : b[i] = m
  BY <1>3 DEF ToSet
<1>5. \A m \in ToSet(b) : m \in Messages /\ place[m] = "queue" /\ receives[m] \in 0 .. MaxReceives - 1
  <2> SUFFICES ASSUME NEW m \in ToSet(b)
               PROVE  m \in Messages /\ place[m] = "queue" /\ receives[m] \in 0 .. MaxReceives - 1
    OBVIOUS
  <2>1. m \in Messages /\ place[m] = "queue"
    BY <1>3, <1>4
  <2>2. receives[m] \in 0 .. MaxReceives /\ PlaceInv(m)
    BY <2>1 DEF QueueInv, TypeOK
  <2> QED BY <2>1, <2>2, QueueAssumption DEF PlaceInv
<1>6. \A m \in Messages : receives[m] \in Nat
  BY QueueAssumption DEF QueueInv, TypeOK
<1>7. /\ \A m \in Messages : receives'[m] \in 0 .. MaxReceives /\ receives'[m] >= receives[m]
      /\ \A m \in ToSet(b) : receives'[m] = receives[m] + 1 /\ receives'[m] \in 1 .. MaxReceives
  BY <1>1, <1>5, <1>6, QueueAssumption DEF QueueInv, TypeOK
<1>8. /\ batch'[c] \in [1 .. n -> Delivery]
      /\ \A i \in 1 .. n : /\ b[i] \in ToSet(b)
                           /\ batch'[c][i] = <<b[i], receives[b[i]] + 1>>
      /\ \A d \in Consumers \ {c} : batch'[d] = batch[d] /\ pc'[d] = pc[d]
      /\ pc'[c] = "process"
  <2>1. batch'[c] = [i \in 1 .. n |-> <<b[i], receives'[b[i]]>>]
    BY <1>1, <1>3 DEF QueueInv, TypeOK
  <2>2. \A i \in 1 .. n : b[i] \in ToSet(b)
    BY <1>3, <1>4
  <2>3. \A i \in 1 .. n : /\ <<b[i], receives'[b[i]]>> \in Delivery
                         /\ receives'[b[i]] = receives[b[i]] + 1
    BY <1>5, <1>7, <2>2 DEF Delivery
  <2>4. batch'[c] \in [1 .. n -> Delivery]
    BY <2>1, <2>3
  <2>5. ASSUME NEW i \in 1 .. n
        PROVE  b[i] \in ToSet(b) /\ batch'[c][i] = <<b[i], receives[b[i]] + 1>>
    <3>1. batch'[c][i] = <<b[i], receives'[b[i]]>>
      BY <2>1
    <3> QED BY <2>2, <2>3, <3>1
  <2>6. /\ \A d \in Consumers \ {c} : batch'[d] = batch[d] /\ pc'[d] = pc[d]
        /\ pc'[c] = "process"
    BY <1>1, <1>2 DEF QueueInv, TypeOK
  <2> QED BY <2>4, <2>5, <2>6
<1>9. TypeOK'
  <2>1. batch'[c] \in Seq(Delivery)
    BY <1>3, <1>8
  <2>2. batch' \in [Consumers -> Seq(Delivery)]
    BY <1>1, <2>1 DEF QueueInv, TypeOK
  <2>3. place' \in [Messages -> {"unsent", "queue", "leased", "deleted", "dead"}]
        /\ receives' \in [Messages -> 0 .. MaxReceives]
    BY <1>1, <1>7 DEF QueueInv, TypeOK
  <2> QED BY <1>2, <2>2, <2>3 DEF QueueInv, TypeOK
<1>10. ASSUME NEW d \in Consumers \ {c}, NEW i \in DOMAIN batch[d], NEW j \in 1 .. n
       PROVE batch[d][i] # batch'[c][j]
  <2>1. batch[d][i][2] <= receives[batch[d][i][1]]
    BY DEF QueueInv, BatchInv
  <2>2. batch'[c][j] = <<b[j], receives[b[j]] + 1>> /\ receives[b[j]] \in Nat
    BY <1>5, <1>6, <1>8
  <2> QED BY <2>1, <2>2
<1>11. UnsharedInv'
  <2>1. DOMAIN batch'[c] = 1 .. n
    BY <1>8
  <2>2. \A i, j \in 1 .. n : batch'[c][i] = batch'[c][j] => i = j
    BY <1>3, <1>8
  <2> SUFFICES ASSUME NEW d \in Consumers, NEW e \in Consumers,
                      NEW i \in DOMAIN batch'[d], NEW j \in DOMAIN batch'[e],
                      batch'[d][i] = batch'[e][j]
               PROVE  d = e /\ i = j
    BY DEF UnsharedInv
  <2>3. CASE d = c /\ e = c
    BY <2>1, <2>2, <2>3
  <2>4. CASE d = c /\ e # c
    BY <1>8, <1>10, <2>1, <2>4
  <2>5. CASE d # c /\ e = c
    BY <1>8, <1>10, <2>1, <2>5
  <2>6. CASE d # c /\ e # c
    BY <1>8, <2>6 DEF QueueInv, UnsharedInv
  <2> QED BY <2>3, <2>4, <2>5, <2>6
<1>12. ASSUME NEW d \in Consumers PROVE BatchInv(d)'
  <2>1. BatchInv(d)
    BY DEF QueueInv
  <2>2. CASE d = c
    <3>1. \A i \in 1 .. n : batch'[c][i][1] = b[i] /\ batch'[c][i][2] = receives'[b[i]]
      BY <1>7, <1>8
    <3>2. \A i \in DOMAIN batch'[c] : batch'[c][i][2] <= receives'[batch'[c][i][1]]
      <4>1. \A i \in 1 .. n : receives'[b[i]] \in Nat
        BY <1>7, <1>8
      <4> QED BY <1>8, <3>1, <4>1
    <3> QED BY <1>2, <1>8, <2>1, <2>2, <3>2 DEF BatchInv
  <2>3. CASE d # c
    <3>1. \A i \in DOMAIN batch[d] : batch[d][i] \in Delivery
      BY DEF QueueInv, TypeOK
    <3>2. \A i \in DOMAIN batch[d] : batch[d][i][2] <= receives'[batch[d][i][1]]
      <4> SUFFICES ASSUME NEW i \in DOMAIN batch[d]
                   PROVE batch[d][i][2] <= receives'[batch[d][i][1]]
        OBVIOUS
      <4>1. batch[d][i][1] \in Messages /\ batch[d][i][2] \in 1 .. MaxReceives
        BY <3>1 DEF Delivery
      <4>2. batch[d][i][2] <= receives[batch[d][i][1]]
        BY <2>1 DEF BatchInv
      <4> QED BY <1>6, <1>7, <4>1, <4>2, QueueAssumption
    <3> QED BY <1>2, <1>8, <2>1, <2>3, <3>2 DEF BatchInv
  <2> QED BY <2>2, <2>3
<1>13. ASSUME NEW m \in Messages PROVE PlaceInv(m)' /\ BudgetInv(m)'
  <2>1. \A k \in 1 .. MaxReceives, d \in Consumers :
           Pending(d, <<m, k>>)' =>
               Pending(d, <<m, k>>) \/ (m \in ToSet(b) /\ k = receives[m] + 1)
    <3> SUFFICES ASSUME NEW k \in 1 .. MaxReceives, NEW d \in Consumers, Pending(d, <<m, k>>)'
                 PROVE Pending(d, <<m, k>>) \/ (m \in ToSet(b) /\ k = receives[m] + 1)
      OBVIOUS
    <3>1. CASE d # c
      BY <1>8, <3>1 DEF Pending
    <3>2. CASE d = c
      <4>1. PICK i \in 1 .. n : batch'[c][i] = <<m, k>>
        BY <1>8, <3>2 DEF Pending
      <4> QED BY <1>8, <4>1
    <3> QED BY <3>1, <3>2
  <2>2. /\ successes[m] \in Nat /\ expiries[m] \in Nat /\ receives[m] \in Nat
        /\ Cardinality(Open(m)) \in Nat
        /\ successes[m] + Cardinality(Open(m)) <= expiries[m] + Outstanding(m)
    BY BudgetTypes
  <2>3. CASE m \notin ToSet(b)
    <3>1. Open(m)' \subseteq Open(m)
      BY <2>1, <2>3 DEF Open
    <3>2. Cardinality(Open(m)') \in Nat /\ Cardinality(Open(m)') <= Cardinality(Open(m))
      BY <3>1, OpenShrinks
    <3>3. place'[m] = place[m] /\ receives'[m] = receives[m]
      BY <1>1, <1>6, <2>3
    <3>4. Outstanding(m)' = Outstanding(m) /\ Outstanding(m) \in {0, 1}
      BY <3>3 DEF Outstanding
    <3> QED BY <1>2, <2>2, <3>2, <3>3, <3>4 DEF QueueInv, PlaceInv, BudgetInv
  <2>4. CASE m \in ToSet(b)
    <3>1. Open(m)' \subseteq Open(m) \union {receives[m] + 1}
      BY <2>1, <2>4 DEF Open
    <3>2. Cardinality(Open(m)') \in Nat /\ Cardinality(Open(m)') <= Cardinality(Open(m)) + 1
      BY <3>1, OpenGains
    <3>3. place'[m] = "leased" /\ place[m] = "queue" /\ receives'[m] = receives[m] + 1
      BY <1>1, <1>5, <1>7, <2>4
    <3>4. Outstanding(m)' = 1 /\ Outstanding(m) = 0
      BY <3>3 DEF Outstanding
    <3>5. PlaceInv(m)'
      BY <1>2, <2>2, <3>3 DEF QueueInv, PlaceInv
    <3> QED BY <1>2, <2>2, <3>2, <3>4, <3>5 DEF BudgetInv
  <2> QED BY <2>3, <2>4
<1>14. DeletedHasSucceeded'
  BY <1>1, <1>2 DEF QueueInv, TypeOK, DeletedHasSucceeded
<1> QED BY <1>9, <1>11, <1>12, <1>13, <1>14 DEF QueueInv

-----------------------------------------------------------------------------
(* The producer beside them. *)

LEMMA ConsumeStep ==
    ASSUME IInv, Consume
    PROVE  IInv'
<1>1. UNCHANGED <<tx, hooks, lost>>
  BY DEF Consume, producerVars
<1>2. QueueInv
  BY DEF IInv
<1>3. QueueInv'
  <2>1. ASSUME NEW c \in Consumers, Work(c) PROVE QueueInv'
    BY <1>2, <2>1, TaskSucceedsStep, TaskFailsStep, AnswerStep, BatchEndsStep, LifeStep DEF Work
  <2> QED BY <1>2, <2>1, ExpireStep, ReceiveStep, LifeStep, StopStep DEF Consume
<1>4. \A m \in Messages : place'[m] = "unsent" <=> place[m] = "unsent"
  <2>1. place \in [Messages -> {"unsent", "queue", "leased", "deleted", "dead"}]
    BY <1>2 DEF QueueInv, TypeOK
  <2>2. ASSUME NEW m \in Messages, Expire(m)
        PROVE \A k \in Messages : place'[k] = "unsent" <=> place[k] = "unsent"
    BY <2>1, <2>2 DEF Expire, Released
  <2>3. ASSUME NEW c \in Consumers, Receive(c)
        PROVE \A k \in Messages : place'[k] = "unsent" <=> place[k] = "unsent"
    <3>1. PICK b \in Batches(IF mode[c] \in {"poll", "lambda"} THEN BatchSize ELSE 1) :
             place' = [m \in Messages |-> IF m \in ToSet(b) THEN "leased" ELSE place[m]]
      BY <2>3 DEF Receive
    <3>2. \A m \in ToSet(b) : place[m] = "queue"
      BY DEF Batches, SeqOf, ToSet
    <3> QED BY <2>1, <3>1, <3>2
  <2>4. ASSUME NEW c \in Consumers, Ack(c) \/ Abandon(c) \/ AckRaises(c) \/ Respond(c)
        PROVE \A k \in Messages : place'[k] = "unsent" <=> place[k] = "unsent"
    BY <2>1, <2>4 DEF Ack, Abandon, AckRaises, Respond, Leased, Released
  <2>5. ASSUME NEW c \in Consumers, BatchEnds(c)
        PROVE \A k \in Messages : place'[k] = "unsent" <=> place[k] = "unsent"
    BY <2>1, <2>5 DEF BatchEnds, Leased
  <2>6. ASSUME NEW c \in Consumers,
               \/ TaskSucceeds(c) \/ TaskFails(c) \/ Leave(c) \/ ReceiveRaises(c)
               \/ Stop(c) \/ Crash(c) \/ Restart(c)
        PROVE \A k \in Messages : place'[k] = "unsent" <=> place[k] = "unsent"
    BY <2>6 DEF TaskSucceeds, TaskFails, Leave, ReceiveRaises, Stop, Crash, Restart, queue
  <2> QED BY <2>2, <2>3, <2>4, <2>5, <2>6 DEF Consume, Work
<1>5. OnCommitTypeOK'
  BY <1>1, <1>3 DEF IInv, OnCommitTypeOK, QueueInv
<1>6. ProducerInv'
  <2>1. ToSet(hooks) \subseteq Messages /\ lost \subseteq Messages
    <3>1. hooks \in Seq(Messages) /\ lost \subseteq Messages
      BY DEF IInv, OnCommitTypeOK
    <3> QED BY <3>1 DEF ToSet
  <2> QED BY <1>1, <1>4, <2>1 DEF IInv, ProducerInv, ToSet
<1> QED BY <1>3, <1>5, <1>6 DEF IInv

\* Of the submissions some are sent or given up, the others stay in order.
LEMMA SomeHooks ==
    ASSUME IInv, NEW s, s \in {<<>>} \/ s = Tail(hooks)
                        \/ \E n \in 0 .. Len(hooks) - 1 : s = SubSeq(hooks, 1, n),
           hooks # <<>>
    PROVE  /\ s \in Seq(Messages) /\ IsInjective(s) /\ ToSet(s) \subseteq ToSet(hooks)
           /\ s = Tail(hooks) => Head(hooks) \in ToSet(hooks) \ ToSet(s)
<1>1. hooks \in Seq(Messages) /\ \A i, j \in DOMAIN hooks : hooks[i] = hooks[j] => i = j
  BY DEF IInv, OnCommitTypeOK, ProducerInv, IsInjective
<1>2. CASE s = <<>>
  BY <1>1, <1>2 DEF IsInjective, ToSet
<1>3. CASE s = Tail(hooks)
  <2>1. \A i \in DOMAIN s : i \in Nat \ {0} /\ i + 1 \in DOMAIN hooks /\ s[i] = hooks[i + 1]
    BY <1>1, <1>3, TailItems
  <2>2. s \in Seq(Messages) /\ Head(hooks) = hooks[1] /\ 1 \in DOMAIN hooks
    BY <1>1, <1>3
  <2>3. IsInjective(s)
    <3> SUFFICES ASSUME NEW i \in DOMAIN s, NEW j \in DOMAIN s, s[i] = s[j] PROVE i = j
      BY DEF IsInjective
    <3>1. i + 1 = j + 1 /\ i \in Nat /\ j \in Nat
      BY <1>1, <2>1
    <3> QED BY <3>1
  <2>4. ToSet(s) \subseteq ToSet(hooks)
    BY <2>1 DEF ToSet
  <2>5. ASSUME NEW i \in DOMAIN s, s[i] = Head(hooks) PROVE FALSE
    <3>1. i + 1 = 1 /\ i \in Nat \ {0}
      BY <1>1, <2>1, <2>2, <2>5
    <3> QED BY <3>1
  <2> QED BY <2>2, <2>3, <2>4, <2>5 DEF ToSet
<1>4. ASSUME NEW n \in 0 .. Len(hooks) - 1, s = SubSeq(hooks, 1, n)
      PROVE  s \in Seq(Messages) /\ IsInjective(s) /\ ToSet(s) \subseteq ToSet(hooks)
  <2>1. s \in Seq(Messages) /\ \A i \in DOMAIN s : i \in DOMAIN hooks /\ s[i] = hooks[i]
    BY <1>1, <1>4
  <2> QED BY <1>1, <2>1 DEF IsInjective, ToSet
<1> QED BY <1>2, <1>3, <1>4

LEMMA HooksKnown == IInv => ToSet(hooks) \subseteq Messages /\ lost \subseteq Messages
<1> SUFFICES ASSUME IInv PROVE ToSet(hooks) \subseteq Messages /\ lost \subseteq Messages
  OBVIOUS
<1>1. hooks \in Seq(Messages) /\ lost \subseteq Messages
  BY DEF IInv, OnCommitTypeOK
<1> QED BY <1>1 DEF ToSet

\* Nothing happens in the queue.
LEMMA QueueIdle ==
    ASSUME QueueInv, UNCHANGED vars
    PROVE  QueueInv' /\ UNCHANGED place
<1>1. UNCHANGED <<mode, place, receives, successes, expiries, pc, batch, done, stop>>
  BY DEF vars
<1>2. TypeOK'
  BY <1>1 DEF QueueInv, TypeOK
<1>3. UnsharedInv' /\ DeletedHasSucceeded' /\ (\A d \in Consumers : BatchInv(d)')
  BY <1>1 DEF QueueInv, UnsharedInv, DeletedHasSucceeded, BatchInv
<1>4. ASSUME NEW m \in Messages PROVE PlaceInv(m)' /\ BudgetInv(m)'
  <2>1. Open(m)' = Open(m)
    BY <1>1 DEF Open, Pending
  <2> QED BY <1>1, <2>1 DEF QueueInv, PlaceInv, BudgetInv, Outstanding
<1> QED BY <1>1, <1>2, <1>3, <1>4 DEF QueueInv

\* A submission inside the transaction is remembered.
LEMMA DeferStep ==
    ASSUME IInv, NEW m \in Messages, place[m] = "unsent", m \notin lost \union ToSet(hooks),
           hooks' = Append(hooks, m), UNCHANGED <<vars, tx, lost>>
    PROVE  IInv'
<1>1. QueueInv' /\ UNCHANGED place
  BY QueueIdle DEF IInv
<1>2. hooks \in Seq(Messages) /\ \A i, j \in DOMAIN hooks : hooks[i] = hooks[j] => i = j
  BY DEF IInv, OnCommitTypeOK, ProducerInv, IsInjective
<1>3. \A i \in DOMAIN hooks : hooks[i] # m
  BY DEF ToSet
<1>4. /\ hooks' \in Seq(Messages)
      /\ \A i \in DOMAIN hooks' : \/ i \in DOMAIN hooks /\ hooks'[i] = hooks[i]
                                  \/ i = Len(hooks) + 1 /\ hooks'[i] = m
  BY <1>2
<1>5. IsInjective(hooks')
  BY <1>2, <1>3, <1>4 DEF IsInjective
<1>6. ToSet(hooks') \subseteq ToSet(hooks) \union {m}
  BY <1>4 DEF ToSet
<1> QED BY <1>1, <1>4, <1>5, <1>6 DEF IInv, OnCommitTypeOK, QueueInv, ProducerInv

\* A submission reaches the queue or fails, after the commit; some of the
\* others are given up with it.
LEMMA SubmitStep ==
    ASSUME IInv, tx = "committed", tx' = tx,
           NEW m \in Messages, m \notin lost, place[m] = "unsent",
           hooks' \in Seq(Messages), IsInjective(hooks'),
           ToSet(hooks') \subseteq ToSet(hooks) \ {m},
           \/ Send(m) /\ lost' \subseteq lost \union (ToSet(hooks) \ {m})
           \/ UNCHANGED vars /\ lost' \subseteq lost \union ToSet(hooks) \union {m},
           ToSet(hooks') \intersect lost' = {}
    PROVE  IInv'
<1>1. ToSet(hooks) \subseteq Messages /\ lost \subseteq Messages
  BY HooksKnown
<1>2. lost' \subseteq Messages
  BY <1>1
<1>3. CASE Send(m) /\ lost' \subseteq lost \union (ToSet(hooks) \ {m})
  <2>1. QueueInv'
    BY <1>3, SendStep DEF IInv
  <2>2. \A k \in Messages \ {m} : place'[k] = place[k]
    BY <1>3 DEF IInv, QueueInv, TypeOK, Send
  <2>3. \A k \in ToSet(hooks') \union lost' : place'[k] = "unsent"
    BY <1>1, <1>3, <2>2 DEF IInv, ProducerInv
  <2> QED BY <1>2, <2>1, <2>3 DEF IInv, OnCommitTypeOK, QueueInv, ProducerInv
<1>4. CASE UNCHANGED vars /\ lost' \subseteq lost \union ToSet(hooks) \union {m}
  <2>1. QueueInv' /\ UNCHANGED place
    BY <1>4, QueueIdle DEF IInv
  <2>2. \A k \in ToSet(hooks') \union lost' : place'[k] = "unsent"
    BY <1>1, <1>4, <2>1 DEF IInv, ProducerInv
  <2> QED BY <1>2, <2>1, <2>2 DEF IInv, OnCommitTypeOK, QueueInv, ProducerInv
<1> QED BY <1>3, <1>4

\* Submissions are taken back by a rollback, or lost with the process.
LEMMA ForgetStep ==
    ASSUME IInv, UNCHANGED vars,
           hooks' \in Seq(Messages), IsInjective(hooks'), ToSet(hooks') \subseteq ToSet(hooks),
           lost' \subseteq lost \union ToSet(hooks), ToSet(hooks') \intersect lost' = {},
           tx' \in {"open", "committed", "rolled back"}, tx = "committed" => tx' = "committed"
    PROVE  IInv'
<1>1. QueueInv' /\ UNCHANGED place
  BY QueueIdle DEF IInv
<1>2. ToSet(hooks) \subseteq Messages /\ lost \subseteq Messages
  BY HooksKnown
<1>3. ProducerInv'
  BY <1>1 DEF IInv, ProducerInv
<1> QED BY <1>1, <1>2, <1>3 DEF IInv, OnCommitTypeOK, QueueInv

LEMMA ProduceStep ==
    ASSUME IInv, Produce
    PROVE  IInv'
<1>1. /\ hooks \in Seq(Messages) /\ IsInjective(hooks) /\ ToSet(hooks) \intersect lost = {}
      /\ \A m \in ToSet(hooks) : place[m] = "unsent"
      /\ tx \in {"open", "committed", "rolled back"}
  BY DEF IInv, OnCommitTypeOK, ProducerInv
<1>2. <<>> \in Seq(Messages) /\ IsInjective(<<>>) /\ ToSet(<<>>) = {}
  BY DEF IsInjective, ToSet
<1>3. ASSUME NEW m \in Messages, tx = "committed", m \notin lost, place[m] = "unsent",
             SubmitRaises(m)
      PROVE  IInv'
  BY <1>2, <1>3, SubmitStep DEF SubmitRaises
<1>4. ASSUME NEW m \in Messages, SubmitOnCommit(m) PROVE IInv'
  <2>1. place[m] = "unsent" /\ m \notin lost \union ToSet(hooks)
    BY <1>4 DEF SubmitOnCommit
  <2>2. CASE tx = "open"
    BY <1>4, <2>1, <2>2, DeferStep DEF SubmitOnCommit
  <2>3. CASE tx = "committed" /\ Submit(m) /\ UNCHANGED hooks
    BY <1>1, <2>1, <2>3, SubmitStep DEF Submit
  <2>4. CASE tx = "committed" /\ SubmitRaises(m)
    BY <1>3, <2>1, <2>4
  <2> QED BY <1>4, <2>2, <2>3, <2>4 DEF SubmitOnCommit
<1>5. CASE Commit
  BY <1>1, <1>5, ForgetStep DEF Commit
<1>6. CASE Rollback
  BY <1>2, <1>6, ForgetStep DEF Rollback
<1>7. CASE RollbackSavepoint
  <2>1. hooks # <<>> /\ \E n \in 0 .. Len(hooks) - 1 : hooks' = SubSeq(hooks, 1, n)
    BY <1>1, <1>7 DEF RollbackSavepoint
  <2>2. hooks' \in Seq(Messages) /\ IsInjective(hooks') /\ ToSet(hooks') \subseteq ToSet(hooks)
    BY <2>1, SomeHooks
  <2> QED BY <1>1, <1>7, <2>2, ForgetStep DEF RollbackSavepoint
<1>8. CASE RunHook
  <2>1. Head(hooks) \in ToSet(hooks) /\ Head(hooks) \in Messages
    BY <1>1, <1>8 DEF RunHook, ToSet
  <2>2. CASE Submit(Head(hooks)) /\ hooks' = Tail(hooks)
    <3>1. /\ hooks' \in Seq(Messages) /\ IsInjective(hooks')
          /\ ToSet(hooks') \subseteq ToSet(hooks) \ {Head(hooks)}
      BY <1>8, <2>2, SomeHooks DEF RunHook
    <3> QED BY <1>1, <1>8, <2>1, <2>2, <3>1, SubmitStep DEF RunHook, Submit
  <2>3. CASE SubmitRaises(Head(hooks))
    BY <1>1, <1>3, <1>8, <2>1, <2>3 DEF RunHook
  <2> QED BY <1>8, <2>2, <2>3 DEF RunHook
<1>9. CASE ProducerCrash
  BY <1>2, <1>9, ForgetStep DEF ProducerCrash
<1> QED BY <1>4, <1>5, <1>6, <1>7, <1>8, <1>9 DEF Produce

LEMMA NextInv == IInv /\ [OnCommitNext]_onCommitVars => IInv'
<1> SUFFICES ASSUME IInv, [OnCommitNext]_onCommitVars PROVE IInv'
  OBVIOUS
<1>1. CASE UNCHANGED onCommitVars
  <2>1. UNCHANGED <<vars, tx, hooks, lost>>
    BY <1>1 DEF onCommitVars, producerVars
  <2>2. hooks \in Seq(Messages) /\ IsInjective(hooks) /\ ToSet(hooks) \intersect lost = {}
        /\ tx \in {"open", "committed", "rolled back"}
    BY DEF IInv, OnCommitTypeOK, ProducerInv
  <2> QED BY <2>1, <2>2, ForgetStep
<1> QED BY <1>1, ProduceStep, ConsumeStep DEF OnCommitNext

\* The whole invariant holds of every run, fair or not.
THEOREM Invariance == OnCommitSpec => []IInv
<1>1. OnCommitInit => IInv
  <2> SUFFICES ASSUME OnCommitInit PROVE IInv
    OBVIOUS
  <2>1. QueueInv
    BY InitInv DEF OnCommitInit
  <2>2. hooks = <<>> /\ hooks \in Seq(Messages) /\ lost = {} /\ \A m \in Messages : place[m] = "unsent"
    BY DEF OnCommitInit, Init
  <2>3. OnCommitTypeOK /\ ProducerInv
    <3>1. IsInjective(hooks) /\ ToSet(hooks) = {}
      BY <2>2 DEF IsInjective, ToSet
    <3> QED BY <2>1, <2>2, <3>1 DEF OnCommitInit, OnCommitTypeOK, QueueInv, ProducerInv
  <2> QED BY <2>1, <2>3 DEF IInv
<1> QED BY <1>1, NextInv, PTL DEF OnCommitSpec

\* Every variable keeps its type.
THEOREM TypeCorrect == OnCommitSpec => []OnCommitTypeOK
<1>1. IInv => OnCommitTypeOK
  BY DEF IInv
<1> QED BY <1>1, Invariance, PTL

\* Nothing is in the queue before the commit, nothing that was taken back or
\* lost is ever sent, and a message is deleted only after its task has
\* succeeded ("Deletes a message only after its task succeeds").
THEOREM DeliveryCorrect == OnCommitSpec => []SentIsCommittedDeletedIsDone
<1>1. IInv => SentIsCommittedDeletedIsDone
  BY DEF IInv, ProducerInv, QueueInv, SentIsCommittedDeletedIsDone
<1> QED BY <1>1, Invariance, PTL

\* A task succeeds once more only for every lease that has run out.
THEOREM RepeatsCorrect == OnCommitSpec => []RepeatsNeedExpiry
<1>1. IInv => RepeatsNeedExpiry
  <2> SUFFICES ASSUME IInv, NEW m \in Messages PROVE successes[m] <= 1 + expiries[m]
    BY DEF RepeatsNeedExpiry
  <2>1. /\ successes[m] \in Nat /\ expiries[m] \in Nat /\ Cardinality(Open(m)) \in Nat
        /\ successes[m] + Cardinality(Open(m)) <= expiries[m] + Outstanding(m)
    BY BudgetTypes DEF IInv
  <2>2. Outstanding(m) \in {0, 1}
    BY DEF Outstanding
  <2> QED BY <2>1, <2>2
<1> QED BY <1>1, Invariance, PTL

-----------------------------------------------------------------------------
(* The local scheduler: what is fired, and when. *)

\* A schedule that the application is not in the middle of updating.
Steady(s) == s \in created /\ user # s

\* A runner has seen that s is not exhausted, and may fire it.
Firing(r, s) == position[r] \in {"time", "compare", "fire"} /\ current[r] = s

\* A runner has fired s and is to exhaust it or to put it off.
Advancing(r, s) ==
    position[r] \in {"advance", "exhaust", "clear", "postpone"} /\ current[r] = s

Exhausting(r, s) == position[r] \in {"advance", "exhaust"} /\ current[r] = s

\* Only what is no one-shot is put off; nobody knows an entry before it is created;
\* there is one pass at a time until two have overlapped.
PassInv ==
    /\ \A r \in Runners : position[r] = "postpone" => seen[r].kind # "oneshot"
    /\ \A s \in created : trigger[s] \in Triggers
    /\ \A s \in Schedules \ created : last[s] = 0 /\ \A r \in Runners : fired[s][r] = 0
    /\ ~ overlapped => \A q, r \in Runners : InPass(q) /\ InPass(r) => q = r

\* Who has fired a one-shot has exhausted it, or is about to.
FiredOf(s) ==
    \A r \in Runners :
        /\ fired[s][r] \in {0, 1}
        /\ Firing(r, s) => fired[s][r] = 0
        /\ fired[s][r] # 0 => exhausted[s] \/ Exhausting(r, s)
        /\ ~ overlapped /\ fired[s][r] # 0 =>
               \A q \in Runners : ~ Firing(q, s) /\ (q # r => fired[s][q] = 0)

FiredInv == \A s \in Schedules : Steady(s) /\ trigger[s].kind = "oneshot" => FiredOf(s)

\* An entry is due when its trigger says so, and an interval again only an interval after
\* its last fire, unless a runner has put it off by a trigger that is no longer its own.
DueOf(s) ==
    IF trigger[s].kind = "oneshot" THEN nextRun[s] \in {0, trigger[s].time}
    ELSE \/ nextRun[s] = 0 \/ nextRun[s] >= last[s] + trigger[s].time
         \/ \E r \in Runners : Advancing(r, s)

DueInv ==
    ~ overlapped =>
        \A s \in Schedules :
            /\ \A r \in Runners : Advancing(r, s) => last[s] <= moment[r]
            /\ Steady(s) /\ s \notin torn => DueOf(s)

FiresInv == SchedulerTypeOK /\ PassInv /\ FiredInv /\ DueInv

-----------------------------------------------------------------------------
\* The state keeps its type.
LEMMA NamesApart ==
    /\ \A s \in Schedules : s # None /\ s # "idle" /\ s # "join"
    /\ \A r \in Runners : r # None /\ r # "idle" /\ r # "join"
  BY SchedulerAssumption

LEMMA TriggerType ==
    ASSUME NEW t \in Triggers
    PROVE  t.kind \in {"oneshot", "interval"} /\ t.time \in Nat \ {0}
  BY SchedulerAssumption

LEMMA ManageTypes == SchedulerTypeOK /\ Manage => SchedulerTypeOK'
<1> SUFFICES ASSUME SchedulerTypeOK, Manage PROVE SchedulerTypeOK'
  OBVIOUS
<1> USE DEF SchedulerTypeOK
<1>1. CASE \E s \in Schedules, t \in Triggers, st \in {"enabled", "paused"} : Create(s, t, st)
  <2>1. PICK s \in Schedules, t \in Triggers, st \in {"enabled", "paused"} : Create(s, t, st)
    BY <1>1
  <2>2. NextRun(t, now) \in Nat
    BY TriggerType, SchedulerAssumption DEF NextRun
  <2>3. /\ created' = created \union {s} /\ entries' = entries \union {s}
        /\ status' = [status EXCEPT ![s] = st] /\ trigger' = [trigger EXCEPT ![s] = t]
        /\ nextRun' = [nextRun EXCEPT ![s] = NextRun(t, now)]
        /\ UNCHANGED <<now, exhausted, log, runner, control>>
    BY <2>1 DEF Create
  <2> QED BY <2>2, <2>3 DEF log, runner, control
<1>2. CASE \E s \in Schedules, st \in {"enabled", "paused"} : SetStatus(s, st)
  BY <1>2 DEF SetStatus, log, runner, control
<1>3. CASE \E s \in Schedules, t \in Triggers : UpdateSchedule(s, t)
  <2>1. PICK s \in Schedules, t \in Triggers : UpdateSchedule(s, t)
    BY <1>3
  <2>2. /\ s \in entries /\ user' = s /\ trigger' = [trigger EXCEPT ![s] = t]
        /\ UNCHANGED <<now, created, entries, status, nextRun, exhausted, log,
                       runner, thread, stopping, cleared, overlapped>>
    BY <2>1 DEF UpdateSchedule
  <2> QED BY <2>2 DEF log, runner
<1>4. ASSUME NEW s \in Schedules, UpdateExhausted(s) PROVE SchedulerTypeOK'
  <2>1. /\ exhausted' = [exhausted EXCEPT ![s] = FALSE] /\ cleared' = TRUE
        /\ UNCHANGED <<now, created, entries, status, trigger, nextRun, log, runner,
                       thread, stopping, user, overlapped>>
    BY <1>4 DEF UpdateExhausted
  <2> QED BY <2>1 DEF log, runner
<1>5. ASSUME NEW s \in Schedules, UpdateNextRun(s) PROVE SchedulerTypeOK'
  <2>1. NextRun(trigger[s], now) \in Nat
    BY TriggerType, SchedulerAssumption DEF NextRun, NoTrigger
  <2>2. /\ nextRun' = [nextRun EXCEPT ![s] = NextRun(trigger[s], now)]
        /\ fired' = [fired EXCEPT ![s] = [r \in Runners |-> 0]]
        /\ last' = [last EXCEPT ![s] = 0] /\ torn' = torn \ {s}
        /\ user' = "idle" /\ cleared' = FALSE
        /\ UNCHANGED <<now, created, entries, status, trigger, exhausted, runner, thread,
                       stopping, overlapped>>
    BY <1>5 DEF UpdateNextRun
  <2>3. 0 \in 0 .. MaxTime
    BY SchedulerAssumption
  <2>4. nextRun' \in [Schedules -> Nat]
    BY <2>1, <2>2
  <2>5. /\ fired' \in [Schedules -> [Runners -> Nat]]
        /\ last' \in [Schedules -> 0 .. MaxTime]
        /\ torn' \subseteq Schedules
    BY <2>2, <2>3
  <2> QED BY <2>2, <2>4, <2>5 DEF runner
<1>6. CASE \E s \in Schedules : Delete(s)
  BY <1>6 DEF Delete, entry, log, runner, control
<1>7. ASSUME NEW r \in Runners, Start(r) PROVE SchedulerTypeOK'
  <2>1. /\ position' = [position EXCEPT ![r] = "loop"] /\ loop' = loop \union {r}
        /\ thread' = r /\ stopping' = FALSE
        /\ UNCHANGED <<now, created, entries, status, trigger, nextRun, exhausted, fired, last,
                       torn, moment, rest, current, seen, user, cleared, overlapped>>
    BY <1>7 DEF Start, entry, log
  <2>2. position' \in [Runners -> PassLabels]
    BY <2>1 DEF PassLabels
  <2>3. \A q \in Runners : position'[q] \notin {"absent", "off", "loop", "next"} => position'[q] = position[q]
    BY <2>1
  <2> QED BY <2>1, <2>2, <2>3
<1>8. CASE StopBegin \/ StopEnd
  BY <1>8 DEF StopBegin, StopEnd, entry, log, runner
<1> QED BY <1>1, <1>2, <1>3, <1>4, <1>5, <1>6, <1>7, <1>8 DEF Manage, FinishUpdate

\* The type of what a runner's step changes of the runner.
RunnerTypeOK ==
    /\ position \in [Runners -> PassLabels]
    /\ moment \in [Runners -> 0 .. MaxTime]
    /\ rest \in [Runners -> SUBSET created]
    /\ current \in [Runners -> created \union {None}]
    /\ \A r \in Runners : position[r] \notin {"absent", "off", "loop", "next"} => current[r] # None
    /\ seen \in [Runners -> Triggers \union {NoTrigger}]
    /\ loop \subseteq Runners

LEMMA LeaveTypes ==
    ASSUME SchedulerTypeOK, NEW r \in Runners, UNCHANGED created,
           \/ \E label \in {"off", "loop"} : LeavePass(r, label)
           \/ Skip(r)
           \/ position[r] \notin {"absent", "off", "loop", "next"} /\ \E label \in PassLabels : GoOn(r, label)
    PROVE  RunnerTypeOK'
<1>1. 0 \in 0 .. MaxTime
  BY SchedulerAssumption
<1>2. CASE \E label \in {"off", "loop"} : LeavePass(r, label)
  BY <1>1, <1>2 DEF LeavePass, SchedulerTypeOK, RunnerTypeOK, PassLabels
<1>3. CASE Skip(r)
  BY <1>3 DEF Skip, SchedulerTypeOK, RunnerTypeOK, PassLabels
<1>4. CASE position[r] \notin {"absent", "off", "loop", "next"} /\ \E label \in PassLabels : GoOn(r, label)
  BY <1>4 DEF GoOn, SchedulerTypeOK, RunnerTypeOK
<1> QED BY <1>2, <1>3, <1>4

LEMMA RunTypes ==
    ASSUME SchedulerTypeOK, NEW r \in Runners, CallRunPending(r) \/ Step(r)
    PROVE  SchedulerTypeOK'
<1>0. now \in 0 .. MaxTime
  BY SchedulerAssumption DEF SchedulerTypeOK
<1>L. "next" \in PassLabels /\ "time" \in PassLabels /\ "compare" \in PassLabels /\ "fire" \in PassLabels
      /\ "advance" \in PassLabels /\ "clear" \in PassLabels
  BY DEF PassLabels
<1>1. ASSUME RunPending(r), UNCHANGED <<now, created, entries, entry, log, thread, stopping, user, cleared>>
      PROVE  SchedulerTypeOK'
  <2>1. /\ moment' = [moment EXCEPT ![r] = now] /\ rest' = [rest EXCEPT ![r] = entries]
        /\ position' = [position EXCEPT ![r] = "next"] /\ overlapped' \in BOOLEAN
        /\ UNCHANGED <<current, seen, loop>>
    BY <1>1 DEF RunPending
  <2> QED BY <1>0, <1>L, <1>1, <2>1 DEF entry, log, SchedulerTypeOK
<1>2. CASE CallRunPending(r)
  BY <1>1, <1>2 DEF CallRunPending
<1>3. ASSUME RunnerTypeOK', UNCHANGED <<now, created, entries, entry, log, control>>
      PROVE  SchedulerTypeOK'
  BY <1>3 DEF SchedulerTypeOK, RunnerTypeOK, entry, log, control
<1>4. CASE Poll(r)
  <2>1. CASE RunPending(r)
    BY <1>1, <1>4, <2>1 DEF Poll
  <2>2. CASE LeavePass(r, "off") /\ UNCHANGED overlapped
    BY <1>3, <1>4, <2>2, LeaveTypes DEF Poll, control
  <2> QED BY <1>4, <2>1, <2>2 DEF Poll
<1>5. CASE Look(r)
  <2>1. PICK s \in rest[r] :
            /\ rest' = [rest EXCEPT ![r] = @ \ {s}]
            /\ \/ current' = [current EXCEPT ![r] = s] /\ position' = [position EXCEPT ![r] = "status"]
               \/ UNCHANGED <<current, position>>
    BY <1>5 DEF Look
  <2>2. /\ s \in created /\ s # None
        /\ rest' \in [Runners -> SUBSET created]
    BY <2>1, NamesApart DEF SchedulerTypeOK
  <2>3. /\ current' \in [Runners -> created \union {None}]
        /\ position' \in [Runners -> PassLabels]
    <3>1. "status" \in PassLabels
      BY DEF PassLabels
    <3>2. current' \in [Runners -> created \union {None}]
      BY <2>1, <2>2 DEF SchedulerTypeOK
    <3>3. position' \in [Runners -> PassLabels]
      BY <2>1, <3>1 DEF SchedulerTypeOK
    <3> QED BY <3>2, <3>3
  <2>4. ASSUME NEW q \in Runners, position'[q] \notin {"absent", "off", "loop", "next"} PROVE current'[q] # None
    BY <2>1, <2>2, <2>4 DEF SchedulerTypeOK
  <2> QED BY <1>3, <1>5, <2>2, <2>3, <2>4 DEF Look, SchedulerTypeOK, RunnerTypeOK
<1>6. CASE Return(r)
  <2>1. LeavePass(r, "loop") \/ LeavePass(r, "off")
    BY <1>6 DEF Return
  <2> QED BY <1>3, <1>6, <2>1, LeaveTypes DEF Return
<1>7. CASE FireRaises(r)
  BY <1>3, <1>7, LeaveTypes DEF FireRaises
<1>8. CASE LookExhausted(r) \/ LookTime(r)
  BY <1>3, <1>8, <1>L, LeaveTypes DEF LookExhausted, LookTime
<1>9. CASE Compare(r)
  BY <1>3, <1>9, <1>L, LeaveTypes DEF Compare
<1>10. CASE Fire(r)
  <2>1. /\ fired' = [fired EXCEPT ![current[r]][r] = @ + 1]
        /\ last' = [last EXCEPT ![current[r]] = moment[r]]
        /\ GoOn(r, "advance")
        /\ UNCHANGED <<now, created, entries, entry, torn, control>>
    BY <1>10 DEF Fire
  <2>2. fired' \in [Schedules -> [Runners -> Nat]]
    <3> DEFINE c == current[r]
    <3>1. fired' = [fired EXCEPT ![c] = [fired[c] EXCEPT ![r] = fired[c][r] + 1]]
      BY <2>1
    <3>2. c \in Schedules => [fired[c] EXCEPT ![r] = fired[c][r] + 1] \in [Runners -> Nat]
      BY DEF SchedulerTypeOK
    <3> QED BY <3>1, <3>2 DEF SchedulerTypeOK
  <2>3. last' \in [Schedules -> 0 .. MaxTime]
    BY <2>1 DEF SchedulerTypeOK
  <2>4. RunnerTypeOK'
    BY <1>10, <1>L, <2>1, LeaveTypes DEF Fire
  <2> QED BY <2>1, <2>2, <2>3, <2>4 DEF SchedulerTypeOK, RunnerTypeOK, entry, control
<1>11. CASE Advance(r)
  <2>1. /\ seen' = [seen EXCEPT ![r] = trigger[current[r]]]
        /\ \E l \in {"exhaust", "postpone"} : position' = [position EXCEPT ![r] = l]
        /\ UNCHANGED <<now, created, entries, entry, log, moment, rest, current, loop, control>>
    BY <1>11 DEF Advance
  <2>2. current[r] \in Schedules
    BY <1>11 DEF Advance, SchedulerTypeOK
  <2>3. seen' \in [Runners -> Triggers \union {NoTrigger}]
    BY <2>1, <2>2 DEF SchedulerTypeOK
  <2>4. /\ position' \in [Runners -> PassLabels]
        /\ \A q \in Runners : position'[q] \notin {"absent", "off", "loop", "next"} => current'[q] # None
    BY <1>11, <2>1 DEF Advance, SchedulerTypeOK, PassLabels
  <2> QED BY <1>3, <2>1, <2>3, <2>4 DEF SchedulerTypeOK, RunnerTypeOK
<1>12. CASE Exhaust(r)
  <2>1. exhausted' \in [Schedules -> BOOLEAN]
    BY <1>12 DEF Exhaust, SchedulerTypeOK
  <2>2. RunnerTypeOK'
    BY <1>12, <1>L, LeaveTypes DEF Exhaust
  <2> QED BY <1>12, <2>1, <2>2 DEF Exhaust, SchedulerTypeOK, RunnerTypeOK, log, control
<1>13. CASE ClearNextRun(r)
  <2>1. nextRun' \in [Schedules -> Nat]
    BY <1>13 DEF ClearNextRun, SchedulerTypeOK
  <2>2. RunnerTypeOK'
    BY <1>13, LeaveTypes DEF ClearNextRun
  <2> QED BY <1>13, <2>1, <2>2 DEF ClearNextRun, SchedulerTypeOK, RunnerTypeOK, log, control
<1>14. CASE Postpone(r)
  <2>1. moment[r] + seen[r].time \in Nat
    <3>1. \A t \in Triggers \union {NoTrigger} : t.time \in Nat
      BY TriggerType DEF NoTrigger
    <3>2. moment[r] \in Nat /\ seen[r] \in Triggers \union {NoTrigger}
      BY SchedulerAssumption DEF SchedulerTypeOK
    <3> QED BY <3>1, <3>2
  <2>2. nextRun' \in [Schedules -> Nat]
    BY <1>14, <2>1 DEF Postpone, SchedulerTypeOK
  <2>3. torn' \subseteq Schedules
    BY <1>14 DEF Postpone, SchedulerTypeOK
  <2>4. RunnerTypeOK'
    BY <1>14, LeaveTypes DEF Postpone
  <2> QED BY <1>14, <2>2, <2>3, <2>4 DEF Postpone, SchedulerTypeOK, RunnerTypeOK, control
<1> QED BY <1>2, <1>4, <1>5, <1>6, <1>7, <1>8, <1>9, <1>10, <1>11, <1>12, <1>13, <1>14 DEF Step

LEMMA SchedulerTypes == SchedulerTypeOK /\ [SchedulerNext]_schedulerVars => SchedulerTypeOK'
<1> SUFFICES ASSUME SchedulerTypeOK, [SchedulerNext]_schedulerVars PROVE SchedulerTypeOK'
  OBVIOUS
<1>1. CASE Tick
  BY <1>1, SchedulerAssumption DEF Tick, SchedulerTypeOK, entry, log, runner, control
<1>2. CASE UNCHANGED schedulerVars
  BY <1>2 DEF schedulerVars, SchedulerTypeOK
<1> QED BY <1>1, <1>2, ManageTypes, RunTypes DEF SchedulerNext

LEMMA SchedulerStart == SchedulerInit => SchedulerTypeOK
<1> SUFFICES ASSUME SchedulerInit PROVE SchedulerTypeOK
  OBVIOUS
<1>0. PICK b \in Beginnings :
          /\ now = b.time
          /\ position = [r \in Runners |-> IF r \in b.runners THEN "off" ELSE "absent"]
  BY DEF SchedulerInit
<1>1. 0 \in 0 .. MaxTime /\ now \in 1 .. MaxTime
  BY <1>0, SchedulerAssumption
<1>2. /\ now \in 1 .. MaxTime /\ created \subseteq Schedules /\ entries \subseteq created
      /\ status \in [Schedules -> {"enabled", "paused"}]
      /\ trigger \in [Schedules -> Triggers \union {NoTrigger}]
      /\ nextRun \in [Schedules -> Nat] /\ exhausted \in [Schedules -> BOOLEAN]
      /\ torn \subseteq Schedules
  BY <1>1 DEF SchedulerInit
<1>3. /\ fired \in [Schedules -> [Runners -> Nat]] /\ last \in [Schedules -> 0 .. MaxTime]
      /\ moment \in [Runners -> 0 .. MaxTime]
  BY <1>1 DEF SchedulerInit
<1>4. /\ position \in [Runners -> PassLabels]
      /\ \A r \in Runners : position[r] \notin {"absent", "off", "loop", "next"} => current[r] # None
      /\ seen \in [Runners -> Triggers \union {NoTrigger}] /\ cleared \in BOOLEAN
      /\ rest \in [Runners -> SUBSET created] /\ current \in [Runners -> created \union {None}]
      /\ loop \subseteq Runners /\ thread \in Runners \union {None} /\ stopping \in BOOLEAN
      /\ user \in {"idle", "join"} \union entries /\ overlapped \in BOOLEAN
  <2>1. position \in [Runners -> PassLabels] /\ \A r \in Runners : position[r] \in {"off", "absent"}
    BY <1>0 DEF PassLabels
  <2> QED BY <2>1 DEF SchedulerInit
<1> QED BY <1>2, <1>3, <1>4 DEF SchedulerTypeOK

-----------------------------------------------------------------------------

-----------------------------------------------------------------------------
\* What keeps FiredOf(s).
FiredStays(s) ==
    /\ trigger'[s] = trigger[s] /\ fired'[s] = fired[s]
    /\ exhausted[s] => exhausted'[s]
    /\ overlapped => overlapped'
    /\ Steady(s)' => Steady(s)
    /\ \A r \in Runners : Firing(r, s)' => Firing(r, s)
    /\ trigger[s].kind = "oneshot" =>
           \A r \in Runners : Exhausting(r, s) => exhausted'[s] \/ Exhausting(r, s)'

\* What keeps the part of DueInv about s.
DueStays(s) ==
    /\ trigger'[s] = trigger[s] /\ nextRun'[s] = nextRun[s] /\ last'[s] = last[s]
    /\ s \in torn <=> s \in torn'
    /\ overlapped => overlapped'
    /\ Steady(s)' => Steady(s)
    /\ \A r \in Runners : Advancing(r, s)' <=> Advancing(r, s)
    /\ \A r \in Runners : Advancing(r, s) => moment'[r] = moment[r]

LateOf(s) ==
    ~ overlapped =>
        /\ \A r \in Runners : Advancing(r, s) => last[s] <= moment[r]
        /\ Steady(s) /\ s \notin torn => DueOf(s)

OnceOf(s) == Steady(s) /\ trigger[s].kind = "oneshot" => FiredOf(s)

LEMMA BySchedule ==
    /\ FiredInv <=> \A s \in Schedules : OnceOf(s)
    /\ DueInv <=> \A s \in Schedules : LateOf(s)
  BY DEF FiredInv, DueInv, OnceOf, LateOf

LEMMA AllSchedules ==
    ASSUME \A s \in Schedules : OnceOf(s)' /\ LateOf(s)'
    PROVE  FiredInv' /\ DueInv'
<1>1. FiredInv'
  BY DEF FiredInv, OnceOf
<1>2. DueInv'
  BY DEF DueInv, LateOf
<1> QED BY <1>1, <1>2

LEMMA FiredUntouched ==
    ASSUME FiredInv, NEW s \in Schedules, FiredStays(s)
    PROVE  OnceOf(s)'
<1> SUFFICES ASSUME Steady(s)', trigger'[s].kind = "oneshot", NEW r \in Runners
             PROVE  /\ fired'[s][r] \in {0, 1}
                    /\ Firing(r, s)' => fired'[s][r] = 0
                    /\ fired'[s][r] # 0 => exhausted'[s] \/ Exhausting(r, s)'
                    /\ ~ overlapped' /\ fired'[s][r] # 0 =>
                           \A q \in Runners : ~ Firing(q, s)' /\ (q # r => fired'[s][q] = 0)
  BY DEF OnceOf, FiredOf
<1>1. Steady(s) /\ trigger[s].kind = "oneshot"
  BY DEF FiredStays
<1>2. /\ fired[s][r] \in {0, 1}
      /\ Firing(r, s) => fired[s][r] = 0
      /\ fired[s][r] # 0 => exhausted[s] \/ Exhausting(r, s)
      /\ ~ overlapped /\ fired[s][r] # 0 =>
             \A q \in Runners : ~ Firing(q, s) /\ (q # r => fired[s][q] = 0)
  BY <1>1 DEF FiredInv, FiredOf
<1>3. fired'[s][r] # 0 => exhausted'[s] \/ Exhausting(r, s)'
  BY <1>1, <1>2 DEF FiredStays
<1> QED BY <1>2, <1>3 DEF FiredStays

LEMMA DueUntouched ==
    ASSUME DueInv, NEW s \in Schedules, DueStays(s)
    PROVE  LateOf(s)'
<1> SUFFICES ASSUME ~ overlapped'
             PROVE  /\ \A r \in Runners : Advancing(r, s)' => last'[s] <= moment'[r]
                    /\ Steady(s)' /\ s \notin torn' => DueOf(s)'
  BY DEF LateOf
<1>1. /\ \A r \in Runners : Advancing(r, s) => last[s] <= moment[r]
      /\ Steady(s) /\ s \notin torn => DueOf(s)
  BY DEF DueInv, DueStays
<1>2. \A r \in Runners : Advancing(r, s)' => last'[s] <= moment'[r]
  BY <1>1 DEF DueStays
<1>3. Steady(s)' /\ s \notin torn' => DueOf(s)'
  BY <1>1 DEF DueStays, DueOf
<1> QED BY <1>2, <1>3

\* A step that counts no fire, puts no entry off and creates or updates none.
Quiet ==
    /\ UNCHANGED <<created, trigger, nextRun, exhausted, fired, last, torn>>
    /\ user' = user \/ (user \in {"idle", "join"} /\ user' \in {"idle", "join"})
    /\ overlapped => overlapped'
    /\ \A q \in Runners :
           /\ position'[q] \in {"time", "compare", "fire"} =>
                  position[q] \in {"time", "compare", "fire"} /\ current'[q] = current[q]
           /\ position'[q] \in {"advance", "exhaust", "clear", "postpone"} =>
                  position[q] \in {"advance", "exhaust", "clear", "postpone"}
           /\ position[q] \in {"advance", "exhaust", "clear", "postpone"} =>
                  /\ position'[q] = position[q] /\ current'[q] = current[q]
                  /\ moment'[q] = moment[q] /\ seen'[q] = seen[q]
    /\ ~ overlapped' => \A q, r \in Runners : InPass(q)' /\ InPass(r)' => q = r

LEMMA QuietKeeps ==
    ASSUME FiresInv, Quiet
    PROVE  PassInv' /\ FiredInv' /\ DueInv'
<1>1. PassInv /\ FiredInv /\ DueInv
  BY DEF FiresInv
<1>2. UNCHANGED <<created, trigger, nextRun, exhausted, fired, last, torn>>
  BY DEF Quiet
<1>3. \A s \in Schedules : Steady(s)' => Steady(s)
  BY <1>2, NamesApart DEF Quiet, Steady
<1>4. \A q \in Runners, s \in Schedules : Firing(q, s)' => Firing(q, s)
  BY DEF Quiet, Firing
<1>5. \A q \in Runners, s \in Schedules : Advancing(q, s)' <=> Advancing(q, s)
  BY DEF Quiet, Advancing
<1>6. \A q \in Runners, s \in Schedules : Exhausting(q, s) => Exhausting(q, s)'
  BY DEF Quiet, Exhausting
<1>7. \A q \in Runners, s \in Schedules : Advancing(q, s) => moment'[q] = moment[q]
  BY DEF Quiet, Advancing
<1>8. overlapped => overlapped'
  BY DEF Quiet
<1>9. PassInv'
  <2>1. \A q \in Runners : position'[q] = "postpone" => seen'[q].kind # "oneshot"
    BY <1>1 DEF Quiet, PassInv
  <2>2. ~ overlapped' => \A q, r \in Runners : InPass(q)' /\ InPass(r)' => q = r
    BY DEF Quiet
  <2> QED BY <1>1, <1>2, <2>1, <2>2 DEF PassInv
<1>10. \A s \in Schedules : OnceOf(s)'
  BY <1>1, <1>2, <1>3, <1>4, <1>6, <1>8, FiredUntouched DEF FiredStays
<1>11. \A s \in Schedules : LateOf(s)'
  BY <1>1, <1>2, <1>3, <1>5, <1>7, <1>8, DueUntouched DEF DueStays
<1> QED BY <1>9, <1>10, <1>11, AllSchedules

\* A step of one runner p within its pass.
Runs(p) ==
    /\ UNCHANGED <<created, trigger, user, overlapped>>
    /\ InPass(p)
    /\ \A q \in Runners : q # p =>
           /\ position'[q] = position[q] /\ current'[q] = current[q]
           /\ moment'[q] = moment[q] /\ seen'[q] = seen[q]

LEMMA RunsPass ==
    ASSUME PassInv, NEW p \in Runners, Runs(p),
           position'[p] = "postpone" => seen'[p].kind # "oneshot",
           \A s \in Schedules \ created : last'[s] = last[s] /\ fired'[s] = fired[s]
    PROVE  PassInv'
<1>1. \A q \in Runners : InPass(q)' => InPass(q)
  BY DEF Runs, InPass
<1>2. ~ overlapped' => \A q, r \in Runners : InPass(q)' /\ InPass(r)' => q = r
  BY <1>1 DEF Runs, PassInv
<1>3. \A q \in Runners : position'[q] = "postpone" => seen'[q].kind # "oneshot"
  BY DEF Runs, PassInv
<1>4. \A s \in created' : trigger'[s] \in Triggers
  BY DEF Runs, PassInv
<1>5. \A s \in Schedules \ created' : last'[s] = 0 /\ \A r \in Runners : fired'[s][r] = 0
  BY DEF Runs, PassInv
<1> QED BY <1>2, <1>3, <1>4, <1>5 DEF PassInv

\* Alone in its pass, p is the only runner that may be firing or advancing.
LEMMA Alone ==
    ASSUME PassInv, NEW p \in Runners, InPass(p), ~ overlapped, NEW q \in Runners, q # p
    PROVE  \A s : ~ Firing(q, s) /\ ~ Advancing(q, s) /\ ~ Exhausting(q, s)
  BY DEF PassInv, InPass, Firing, Advancing, Exhausting

\* A runner that is in no pass begins one.
LEMMA PassBegins ==
    ASSUME FiresInv, NEW r \in Runners, RunPending(r), position[r] \in {"off", "loop"},
           UNCHANGED <<created, entry, log, user>>
    PROVE  Quiet
<1> USE DEF FiresInv, SchedulerTypeOK
<1>1. /\ position' = [position EXCEPT ![r] = "next"] /\ moment' = [moment EXCEPT ![r] = now]
      /\ overlapped' = (overlapped \/ \E q \in Runners : InPass(q)) /\ UNCHANGED <<current, seen>>
  BY DEF RunPending
<1>2. \A q \in Runners : q # r => position'[q] = position[q] /\ moment'[q] = moment[q]
  BY <1>1
<1>3. position'[r] = "next"
  BY <1>1
<1>4. ASSUME ~ overlapped', NEW p \in Runners, NEW q \in Runners, InPass(p)', InPass(q)'
      PROVE  p = q
  <2>1. \A x \in Runners : ~ InPass(x)
    BY <1>1, <1>4
  <2>2. \A x \in Runners : InPass(x)' => x = r
    BY <1>2, <2>1 DEF InPass
  <2> QED BY <1>4, <2>2
<1>5. overlapped => overlapped'
  BY <1>1
<1>6. UNCHANGED <<created, trigger, nextRun, exhausted, fired, last, torn, user>>
  BY DEF entry, log
<1> QED BY <1>1, <1>2, <1>3, <1>4, <1>5, <1>6 DEF Quiet

\* A runner goes on, skips the entry or leaves, with no entry to put off; it may fire one
\* only if it might before.
LEMMA PassGoesOn ==
    ASSUME FiresInv, NEW r \in Runners, InPass(r), UNCHANGED <<created, entry, log, user, overlapped>>,
           position[r] \notin {"advance", "exhaust", "clear", "postpone"},
           \/ \E label \in {"off", "loop"} : LeavePass(r, label)
           \/ Skip(r)
           \/ \E label \in {"compare", "fire"} :
                  position[r] \in {"time", "compare"} /\ GoOn(r, label)
    PROVE  Quiet
<1> USE DEF FiresInv, SchedulerTypeOK
<1>1. /\ \A q \in Runners : q # r =>
             /\ position'[q] = position[q] /\ current'[q] = current[q]
             /\ moment'[q] = moment[q] /\ seen'[q] = seen[q]
      /\ \/ position'[r] \in {"absent", "off", "loop", "next"}
         \/ position'[r] \in {"compare", "fire"} /\ position[r] \in {"time", "compare"}
            /\ current'[r] = current[r]
  BY DEF LeavePass, Skip, GoOn
<1>2. \A q \in Runners : InPass(q)' => InPass(q)
  BY <1>1 DEF InPass
<1>3. ~ overlapped' => \A p, q \in Runners : InPass(p)' /\ InPass(q)' => p = q
  BY <1>2 DEF PassInv
<1>4. UNCHANGED <<created, trigger, nextRun, exhausted, fired, last, torn, user>>
  BY DEF entry, log
<1>5. ASSUME NEW q \in Runners
      PROVE  /\ position'[q] \in {"time", "compare", "fire"} =>
                    position[q] \in {"time", "compare", "fire"} /\ current'[q] = current[q]
             /\ position'[q] \in {"advance", "exhaust", "clear", "postpone"} =>
                    position[q] \in {"advance", "exhaust", "clear", "postpone"}
             /\ position[q] \in {"advance", "exhaust", "clear", "postpone"} =>
                    /\ position'[q] = position[q] /\ current'[q] = current[q]
                    /\ moment'[q] = moment[q] /\ seen'[q] = seen[q]
  <2>1. CASE q = r
    BY <1>1, <2>1
  <2>2. CASE q # r
    BY <1>1, <2>2
  <2> QED BY <2>1, <2>2
<1> QED BY <1>3, <1>4, <1>5 DEF Quiet

\* The clock and the application, when it touches no entry but its status.
LEMMA ManageIsQuiet ==
    ASSUME FiresInv,
           \/ Tick
           \/ \E s \in Schedules, st \in {"enabled", "paused"} : SetStatus(s, st)
           \/ \E s \in Schedules : Delete(s)
           \/ \E r \in Runners : Start(r)
           \/ StopBegin \/ StopEnd
           \/ UNCHANGED schedulerVars
    PROVE  Quiet
<1>1. ASSUME UNCHANGED <<created, trigger, nextRun, exhausted, fired, last, torn, position, current,
                         moment, seen, overlapped>>,
             user' = user \/ (user \in {"idle", "join"} /\ user' \in {"idle", "join"})
      PROVE  Quiet
  <2>1. \A q \in Runners : InPass(q)' <=> InPass(q)
    BY <1>1 DEF InPass
  <2> QED BY <1>1, <2>1 DEF Quiet, FiresInv, PassInv
<1>2. CASE Tick
  BY <1>1, <1>2 DEF Tick, entry, log, runner, control
<1>3. CASE \E s \in Schedules, st \in {"enabled", "paused"} : SetStatus(s, st)
  BY <1>1, <1>3 DEF SetStatus, log, runner, control
<1>4. CASE \E s \in Schedules : Delete(s)
  BY <1>1, <1>4 DEF Delete, entry, log, runner, control
<1>5. CASE StopBegin \/ StopEnd
  BY <1>1, <1>5 DEF StopBegin, StopEnd, entry, log, runner
<1>6. CASE UNCHANGED schedulerVars
  BY <1>1, <1>6 DEF schedulerVars
<1>7. ASSUME NEW r \in Runners, Start(r) PROVE Quiet
  <2>1. /\ position[r] = "off" /\ position' = [position EXCEPT ![r] = "loop"]
        /\ UNCHANGED <<created, trigger, nextRun, exhausted, fired, last, torn, current, moment,
                       seen, user, overlapped>>
    BY <1>7 DEF Start, entry, log
  <2>2. \A q \in Runners : position'[q] = IF q = r THEN "loop" ELSE position[q]
    BY <2>1 DEF FiresInv, SchedulerTypeOK
  <2>3. \A q \in Runners : InPass(q)' => InPass(q)
    BY <2>2 DEF InPass
  <2>4. ~ overlapped' => \A p, q \in Runners : InPass(p)' /\ InPass(q)' => p = q
    BY <2>1, <2>3 DEF FiresInv, PassInv
  <2> QED BY <2>1, <2>2, <2>4 DEF Quiet
<1> QED BY <1>2, <1>3, <1>4, <1>5, <1>6, <1>7

LEMMA RunIsQuiet ==
    ASSUME FiresInv, NEW r \in Runners,
           \/ CallRunPending(r) \/ Poll(r) \/ Return(r) \/ Look(r) \/ LookTime(r)
           \/ Compare(r) \/ FireRaises(r)
           \/ LookExhausted(r) /\ exhausted[current[r]]
    PROVE  Quiet
<1>1. CASE CallRunPending(r)
  BY <1>1, PassBegins DEF CallRunPending
<1>2. CASE Poll(r)
  <2>1. CASE RunPending(r)
    BY <1>2, <2>1, PassBegins DEF Poll
  <2>2. CASE LeavePass(r, "off") /\ UNCHANGED overlapped
    <3>1. /\ \A q \in Runners : q # r =>
                 /\ position'[q] = position[q] /\ current'[q] = current[q]
                 /\ moment'[q] = moment[q] /\ seen'[q] = seen[q]
          /\ position'[r] = "off" /\ position[r] = "loop"
      BY <1>2, <2>2 DEF Poll, LeavePass, FiresInv, SchedulerTypeOK
    <3>2. \A q \in Runners : InPass(q)' => InPass(q)
      BY <3>1 DEF InPass
    <3>3. ~ overlapped' => \A p, q \in Runners : InPass(p)' /\ InPass(q)' => p = q
      BY <2>2, <3>2 DEF FiresInv, PassInv
    <3>4. UNCHANGED <<created, trigger, nextRun, exhausted, fired, last, torn, user, overlapped>>
      BY <1>2, <2>2 DEF Poll, entry, log
    <3> QED BY <3>1, <3>3, <3>4 DEF Quiet
  <2> QED BY <1>2, <2>1, <2>2 DEF Poll
<1>3. CASE Return(r)
  BY <1>3, PassGoesOn DEF Return, control, InPass
<1>4. CASE FireRaises(r)
  BY <1>4, PassGoesOn DEF FireRaises, control, InPass
<1>5. CASE LookTime(r)
  BY <1>5, PassGoesOn DEF LookTime, control, InPass
<1>6. CASE Compare(r)
  BY <1>6, PassGoesOn DEF Compare, control, InPass
<1>7. CASE LookExhausted(r) /\ exhausted[current[r]]
  BY <1>7, PassGoesOn DEF LookExhausted, control, InPass
<1>8. CASE Look(r)
  <2>1. /\ \A q \in Runners : q # r => position'[q] = position[q] /\ current'[q] = current[q]
        /\ position[r] = "next" /\ position'[r] \in {"next", "status"}
        /\ moment' = moment /\ seen' = seen
    BY <1>8 DEF Look, FiresInv, SchedulerTypeOK
  <2>2. \A q \in Runners : InPass(q)' => InPass(q)
    BY <2>1 DEF InPass
  <2>3. UNCHANGED <<created, trigger, nextRun, exhausted, fired, last, torn, user, overlapped>>
    BY <1>8 DEF Look, entry, log, control
  <2>4. ~ overlapped' => \A p, q \in Runners : InPass(p)' /\ InPass(q)' => p = q
    BY <2>2, <2>3 DEF FiresInv, PassInv
  <2> QED BY <2>1, <2>3, <2>4 DEF Quiet
<1> QED BY <1>1, <1>2, <1>3, <1>4, <1>5, <1>6, <1>7, <1>8

-----------------------------------------------------------------------------
\* The application creates and updates.
LEMMA CreateKeeps ==
    ASSUME FiresInv, NEW c \in Schedules, NEW t \in Triggers, NEW st \in {"enabled", "paused"},
           Create(c, t, st)
    PROVE  PassInv' /\ FiredInv' /\ DueInv'
<1> USE DEF FiresInv, SchedulerTypeOK
<1>1. /\ user = "idle" /\ c \notin created /\ created' = created \union {c}
      /\ trigger' = [trigger EXCEPT ![c] = t]
      /\ nextRun' = [nextRun EXCEPT ![c] = NextRun(t, now)]
      /\ UNCHANGED <<exhausted, fired, last, torn, position, moment, current, seen, user, overlapped>>
  BY DEF Create, log, runner, control
<1>2. \A r \in Runners, s \in Schedules :
          /\ Firing(r, s)' <=> Firing(r, s)
          /\ Advancing(r, s)' <=> Advancing(r, s)
          /\ Exhausting(r, s)' <=> Exhausting(r, s)
  BY <1>1 DEF Firing, Advancing, Exhausting
<1>3. PassInv'
  <2>1. \A s \in created' : trigger'[s] \in Triggers
    BY <1>1 DEF PassInv
  <2>2. \A r \in Runners : InPass(r)' <=> InPass(r)
    BY <1>1 DEF InPass
  <2> QED BY <1>1, <2>1, <2>2 DEF PassInv
<1>4. ASSUME NEW s \in Schedules, s # c PROVE OnceOf(s)' /\ LateOf(s)'
  <2>1. Steady(s)' => Steady(s)
    BY <1>1, <1>4 DEF Steady
  <2>2. trigger'[s] = trigger[s] /\ nextRun'[s] = nextRun[s]
    BY <1>1, <1>4
  <2>3. FiredStays(s)
    BY <1>1, <1>2, <2>1, <2>2 DEF FiredStays
  <2>4. DueStays(s)
    BY <1>1, <1>2, <2>1, <2>2 DEF DueStays
  <2> QED BY <2>3, <2>4, FiredUntouched, DueUntouched
<1>5. \A r \in Runners : ~ Firing(r, c)' /\ ~ Advancing(r, c)'
  <2>1. \A r \in Runners : current[r] # c
    BY <1>1, NamesApart
  <2> QED BY <1>1, <2>1 DEF Firing, Advancing
<1>6. last[c] = 0 /\ \A r \in Runners : fired[c][r] = 0
  BY <1>1 DEF PassInv
<1>7. OnceOf(c)'
  BY <1>1, <1>5, <1>6 DEF OnceOf, FiredOf
<1>8. LateOf(c)'
  <2>1. trigger'[c] = t /\ nextRun'[c] = NextRun(t, now) /\ last'[c] = 0
    BY <1>1, <1>6
  <2>2. t.time \in Nat /\ now \in Nat
    BY TriggerType, SchedulerAssumption
  <2>3. IF t.kind = "oneshot" THEN nextRun'[c] = t.time ELSE nextRun'[c] >= last'[c] + t.time
    BY <2>1, <2>2 DEF NextRun
  <2> QED BY <1>5, <2>1, <2>3 DEF LateOf, DueOf
<1> QED BY <1>3, <1>4, <1>7, <1>8, AllSchedules

\* What the first two writes of update do; the schedule is not steady after them.
LEMMA UpdateKeeps ==
    ASSUME FiresInv, NEW c \in Schedules,
           UpdateExhausted(c) \/ \E t \in Triggers : UpdateSchedule(c, t)
    PROVE  PassInv' /\ FiredInv' /\ DueInv'
<1> USE DEF FiresInv, SchedulerTypeOK
<1>1. /\ user' = c /\ user \in {"idle", c} /\ c # "idle"
      /\ UNCHANGED <<created, nextRun, fired, last, torn, position, moment, current, seen, overlapped>>
  BY NamesApart DEF UpdateSchedule, UpdateExhausted, log, runner
<1>2. \A s \in Schedules : s # c => trigger'[s] = trigger[s] /\ exhausted'[s] = exhausted[s]
  BY DEF UpdateSchedule, UpdateExhausted
<1>3. \A r \in Runners, s \in Schedules :
          /\ Firing(r, s)' <=> Firing(r, s)
          /\ Advancing(r, s)' <=> Advancing(r, s)
          /\ Exhausting(r, s)' <=> Exhausting(r, s)
  BY <1>1 DEF Firing, Advancing, Exhausting
<1>4. PassInv'
  <2>1. \A s \in created' : trigger'[s] \in Triggers
    BY <1>1 DEF PassInv, UpdateSchedule, UpdateExhausted
  <2>2. \A r \in Runners : InPass(r)' <=> InPass(r)
    BY <1>1 DEF InPass
  <2> QED BY <1>1, <2>1, <2>2 DEF PassInv
<1>5. ASSUME NEW s \in Schedules, s # c PROVE OnceOf(s)' /\ LateOf(s)'
  <2>1. Steady(s)' => Steady(s)
    BY <1>1, <1>5, NamesApart DEF Steady
  <2>2. FiredStays(s)
    BY <1>1, <1>2, <1>3, <1>5, <2>1 DEF FiredStays
  <2>3. DueStays(s)
    BY <1>1, <1>2, <1>3, <1>5, <2>1 DEF DueStays
  <2> QED BY <2>2, <2>3, FiredUntouched, DueUntouched
<1>6. ~ Steady(c)'
  BY <1>1 DEF Steady
<1>7. OnceOf(c)'
  BY <1>6 DEF OnceOf
<1>8. LateOf(c)'
  BY <1>1, <1>3, <1>6 DEF LateOf, DueInv
<1> QED BY <1>4, <1>5, <1>7, <1>8, AllSchedules

LEMMA UpdateNextRunKeeps ==
    ASSUME FiresInv, NEW c \in Schedules, UpdateNextRun(c)
    PROVE  PassInv' /\ FiredInv' /\ DueInv'
<1> USE DEF FiresInv, SchedulerTypeOK
<1>1. /\ user = c
      /\ nextRun' = [nextRun EXCEPT ![c] = NextRun(trigger[c], now)]
      /\ fired' = [fired EXCEPT ![c] = [r \in Runners |-> 0]]
      /\ last' = [last EXCEPT ![c] = 0] /\ torn' = torn \ {c} /\ user' = "idle"
      /\ UNCHANGED <<created, trigger, exhausted, position, moment, current, seen, overlapped>>
  BY DEF UpdateNextRun, runner
<1>2. \A r \in Runners, s \in Schedules :
          /\ Firing(r, s)' <=> Firing(r, s)
          /\ Advancing(r, s)' <=> Advancing(r, s)
          /\ Exhausting(r, s)' <=> Exhausting(r, s)
  BY <1>1 DEF Firing, Advancing, Exhausting
<1>c. c \in created
  BY <1>1, NamesApart
<1>3. PassInv'
  <2>1. \A s \in Schedules \ created' : last'[s] = 0 /\ \A r \in Runners : fired'[s][r] = 0
    BY <1>1, <1>c DEF PassInv
  <2>2. \A r \in Runners : InPass(r)' <=> InPass(r)
    BY <1>1 DEF InPass
  <2> QED BY <1>1, <2>1, <2>2 DEF PassInv
<1>4. ASSUME NEW s \in Schedules, s # c PROVE OnceOf(s)' /\ LateOf(s)'
  <2>1. Steady(s)' => Steady(s)
    BY <1>1, <1>4 DEF Steady
  <2>2. nextRun'[s] = nextRun[s] /\ fired'[s] = fired[s] /\ last'[s] = last[s]
        /\ (s \in torn' <=> s \in torn)
    BY <1>1, <1>4
  <2>3. FiredStays(s)
    BY <1>1, <1>2, <2>1, <2>2 DEF FiredStays
  <2>4. DueStays(s)
    BY <1>1, <1>2, <2>1, <2>2 DEF DueStays
  <2> QED BY <2>3, <2>4, FiredUntouched, DueUntouched
<1>5. last'[c] = 0 /\ \A r \in Runners : fired'[c][r] = 0
  BY <1>1, SchedulerAssumption
<1>6. OnceOf(c)'
  BY <1>5 DEF OnceOf, FiredOf
<1>7. LateOf(c)'
  <2>1. nextRun'[c] = NextRun(trigger[c], now) /\ trigger'[c] = trigger[c]
    BY <1>1
  <2>2. trigger[c].time \in Nat /\ now \in Nat
    BY <1>c, TriggerType, SchedulerAssumption DEF PassInv
  <2>3. IF trigger[c].kind = "oneshot" THEN nextRun'[c] = trigger[c].time
        ELSE nextRun'[c] >= last'[c] + trigger'[c].time
    BY <1>5, <2>1, <2>2 DEF NextRun
  <2>4. \A r \in Runners : moment'[r] \in Nat
    BY <1>1, SchedulerAssumption
  <2>5. \A r \in Runners : last'[c] <= moment'[r]
    BY <1>5, <2>4
  <2>6. DueOf(c)'
    BY <2>1, <2>3 DEF DueOf
  <2> QED BY <2>5, <2>6 DEF LateOf
<1> QED BY <1>3, <1>4, <1>6, <1>7, AllSchedules

-----------------------------------------------------------------------------
\* The steps of a pass that touch what is fired and when.
LEMMA LookExhaustedKeeps ==
    ASSUME FiresInv, NEW p \in Runners, LookExhausted(p), ~ exhausted[current[p]]
    PROVE  PassInv' /\ FiredInv' /\ DueInv'
<1> USE DEF FiresInv, SchedulerTypeOK
<1>0. PICK c \in created : c = current[p]
  BY DEF LookExhausted
<1>1. /\ position[p] = "status" /\ position'[p] = "time" /\ current'[p] = c /\ ~ exhausted[c]
      /\ UNCHANGED <<created, trigger, nextRun, exhausted, fired, last, torn, moment, user, overlapped>>
      /\ Runs(p)
  BY <1>0 DEF LookExhausted, GoOn, Runs, InPass, entry, log, control
<1>2. /\ \A q \in Runners, s \in Schedules : Advancing(q, s)' <=> Advancing(q, s)
      /\ \A q \in Runners, s \in Schedules : Exhausting(q, s)' <=> Exhausting(q, s)
  BY <1>1 DEF Runs, Advancing, Exhausting
<1>3. \A q \in Runners, s \in Schedules : Firing(q, s)' <=> Firing(q, s) \/ (q = p /\ s = c)
  BY <1>1 DEF Runs, Firing
<1>4. PassInv'
  BY <1>1, RunsPass
<1>5. \A s \in Schedules : Steady(s)' <=> Steady(s)
  BY <1>1 DEF Steady
<1>6. \A s \in Schedules : LateOf(s)'
  BY <1>1, <1>2, <1>5, DueUntouched DEF DueStays
<1>7. \A s \in Schedules : s # c => OnceOf(s)'
  BY <1>1, <1>2, <1>3, <1>5, FiredUntouched DEF FiredStays
<1>8. ASSUME Steady(c)', trigger'[c].kind = "oneshot" PROVE FiredOf(c)'
  <2>1. FiredOf(c)
    BY <1>1, <1>5, <1>8 DEF FiredInv
  <2>2. \A r \in Runners : fired[c][r] # 0 => Exhausting(r, c)
    BY <1>1, <2>1 DEF FiredOf
  <2>3. ~ Exhausting(p, c)
    BY <1>1 DEF Exhausting
  <2>4. fired[c][p] = 0
    BY <2>2, <2>3
  <2>5. ~ overlapped => \A r \in Runners : fired[c][r] = 0
    BY <1>1, <2>2, <2>3, Alone DEF Runs
  <2> QED BY <1>1, <1>2, <1>3, <2>1, <2>4, <2>5 DEF FiredOf
<1>9. OnceOf(c)'
  BY <1>8 DEF OnceOf
<1> QED BY <1>4, <1>6, <1>7, <1>9, AllSchedules

LEMMA FireKeeps ==
    ASSUME FiresInv, NEW p \in Runners, Fire(p)
    PROVE  PassInv' /\ FiredInv' /\ DueInv'
<1> USE DEF FiresInv, SchedulerTypeOK
<1>0. PICK c \in created : c = current[p]
  BY DEF Fire
<1>1. /\ position[p] = "fire" /\ position'[p] = "advance" /\ current'[p] = c /\ moment'[p] = moment[p]
      /\ fired' = [fired EXCEPT ![c] = [fired[c] EXCEPT ![p] = fired[c][p] + 1]]
      /\ last' = [last EXCEPT ![c] = moment[p]]
      /\ UNCHANGED <<created, trigger, nextRun, exhausted, torn, user, overlapped>>
      /\ Runs(p)
  BY <1>0 DEF Fire, GoOn, Runs, InPass, entry, control
<1>2. \A q \in Runners, s \in Schedules : Advancing(q, s)' <=> Advancing(q, s) \/ (q = p /\ s = c)
  BY <1>1 DEF Runs, Advancing
<1>3. \A q \in Runners, s \in Schedules : Exhausting(q, s)' <=> Exhausting(q, s) \/ (q = p /\ s = c)
  BY <1>1 DEF Runs, Exhausting
<1>4. \A q \in Runners, s \in Schedules : Firing(q, s)' <=> Firing(q, s) /\ q # p
  BY <1>1 DEF Runs, Firing
<1>5. Firing(p, c)
  BY <1>0, <1>1 DEF Firing
<1>6. /\ \A s \in Schedules : s # c => fired'[s] = fired[s] /\ last'[s] = last[s]
      /\ last'[c] = moment[p]
      /\ \A q \in Runners : fired'[c][q] = IF q = p THEN fired[c][p] + 1 ELSE fired[c][q]
  BY <1>1
<1>7. PassInv'
  BY <1>1, <1>6, RunsPass
<1>8. \A s \in Schedules : Steady(s)' <=> Steady(s)
  BY <1>1 DEF Steady
<1>9. ASSUME NEW s \in Schedules, s # c PROVE OnceOf(s)' /\ LateOf(s)'
  <2>1. FiredStays(s)
    BY <1>1, <1>3, <1>4, <1>6, <1>8, <1>9 DEF FiredStays
  <2>2. \A q \in Runners : Advancing(q, s) => moment'[q] = moment[q]
    BY <1>1 DEF Runs
  <2>3. DueStays(s)
    BY <1>1, <1>2, <1>6, <1>8, <1>9, <2>2 DEF DueStays
  <2> QED BY <2>1, <2>3, FiredUntouched, DueUntouched
<1>10. ~ overlapped => \A q \in Runners : q # p => ~ Firing(q, c) /\ ~ Advancing(q, c)
  BY <1>1, Alone DEF Runs
<1>11. LateOf(c)'
  <2>1. ~ overlapped => \A q \in Runners : Advancing(q, c)' => last'[c] <= moment'[q]
    <3>1. moment[p] \in Nat
      BY SchedulerAssumption
    <3> QED BY <1>1, <1>2, <1>6, <1>10, <3>1
  <2>2. Advancing(p, c)'
    BY <1>2
  <2>3. ~ overlapped /\ Steady(c) /\ c \notin torn => DueOf(c)
    BY DEF DueInv
  <2>4. ~ overlapped /\ Steady(c)' /\ c \notin torn' => DueOf(c)'
    BY <1>1, <1>8, <2>2, <2>3 DEF DueOf
  <2> QED BY <1>1, <2>1, <2>4 DEF LateOf
<1>12. ASSUME Steady(c)', trigger'[c].kind = "oneshot" PROVE FiredOf(c)'
  <2>1. FiredOf(c)
    BY <1>1, <1>8, <1>12 DEF FiredInv
  <2>2. fired[c][p] = 0
    BY <1>5, <2>1 DEF FiredOf
  <2>3. fired'[c][p] = 1
    BY <1>6, <2>2
  <2>4. ~ overlapped => \A q \in Runners : fired[c][q] = 0
    BY <1>5, <2>1 DEF FiredOf
  <2>5. ~ overlapped => \A q \in Runners : ~ Firing(q, c)'
    BY <1>4, <1>10
  <2>6. ASSUME NEW r \in Runners
        PROVE  /\ fired'[c][r] \in {0, 1}
               /\ Firing(r, c)' => fired'[c][r] = 0
               /\ fired'[c][r] # 0 => exhausted'[c] \/ Exhausting(r, c)'
               /\ ~ overlapped' /\ fired'[c][r] # 0 =>
                      \A q \in Runners : ~ Firing(q, c)' /\ (q # r => fired'[c][q] = 0)
    <3>1. CASE r = p
      BY <1>1, <1>3, <1>4, <1>6, <2>3, <2>4, <2>5, <3>1
    <3>2. CASE r # p
      BY <1>1, <1>3, <1>4, <1>6, <2>1, <2>4, <3>2 DEF FiredOf
    <3> QED BY <3>1, <3>2
  <2> QED BY <2>6 DEF FiredOf
<1>13. OnceOf(c)'
  BY <1>12 DEF OnceOf
<1> QED BY <1>7, <1>9, <1>11, <1>13, AllSchedules

LEMMA AdvanceKeeps ==
    ASSUME FiresInv, NEW p \in Runners, Advance(p)
    PROVE  PassInv' /\ FiredInv' /\ DueInv'
<1> USE DEF FiresInv, SchedulerTypeOK
<1>0. PICK c \in created : c = current[p]
  BY DEF Advance
<1>1. /\ position[p] = "advance" /\ current'[p] = c /\ moment'[p] = moment[p]
      /\ IF trigger[c].kind = "oneshot" THEN position'[p] = "exhaust" ELSE position'[p] = "postpone"
      /\ seen'[p] = trigger[c]
      /\ UNCHANGED <<created, trigger, nextRun, exhausted, fired, last, torn, user, overlapped>>
      /\ Runs(p)
  BY <1>0 DEF Advance, Runs, InPass, entry, log, control
<1>2. \A q \in Runners, s \in Schedules : Advancing(q, s)' <=> Advancing(q, s)
  BY <1>0, <1>1 DEF Runs, Advancing
<1>3. \A q \in Runners, s \in Schedules : Firing(q, s)' <=> Firing(q, s)
  BY <1>0, <1>1 DEF Runs, Firing
<1>4. ASSUME NEW q \in Runners, NEW s \in Schedules, trigger[s].kind = "oneshot", Exhausting(q, s)
      PROVE  Exhausting(q, s)'
  <2>1. CASE q = p
    BY <1>0, <1>1, <1>4, <2>1 DEF Exhausting
  <2>2. CASE q # p
    BY <1>1, <1>4, <2>2 DEF Runs, Exhausting
  <2> QED BY <2>1, <2>2
<1>5. PassInv'
  BY <1>1, RunsPass
<1>6. \A s \in Schedules : Steady(s)' <=> Steady(s)
  BY <1>1 DEF Steady
<1>7. \A q \in Runners : moment'[q] = moment[q]
  BY <1>1 DEF Runs
<1>8. \A s \in Schedules : OnceOf(s)'
  BY <1>1, <1>3, <1>4, <1>6, FiredUntouched DEF FiredStays
<1>9. \A s \in Schedules : LateOf(s)'
  BY <1>1, <1>2, <1>6, <1>7, DueUntouched DEF DueStays
<1> QED BY <1>5, <1>8, <1>9, AllSchedules

LEMMA ExhaustKeeps ==
    ASSUME FiresInv, NEW p \in Runners, Exhaust(p)
    PROVE  PassInv' /\ FiredInv' /\ DueInv'
<1> USE DEF FiresInv, SchedulerTypeOK
<1>0. PICK c \in created : c = current[p]
  BY DEF Exhaust
<1>1. /\ position[p] = "exhaust" /\ position'[p] = "clear" /\ current'[p] = c /\ moment'[p] = moment[p]
      /\ exhausted' = [exhausted EXCEPT ![c] = TRUE]
      /\ UNCHANGED <<created, trigger, nextRun, fired, last, torn, user, overlapped>>
      /\ Runs(p)
  BY <1>0 DEF Exhaust, GoOn, Runs, InPass, log, control
<1>2. \A q \in Runners, s \in Schedules : Advancing(q, s)' <=> Advancing(q, s)
  BY <1>0, <1>1 DEF Runs, Advancing
<1>3. \A q \in Runners, s \in Schedules : Firing(q, s)' <=> Firing(q, s)
  BY <1>0, <1>1 DEF Runs, Firing
<1>4. \A q \in Runners, s \in Schedules : Exhausting(q, s) => Exhausting(q, s)' \/ s = c
  BY <1>0, <1>1 DEF Runs, Exhausting
<1>5. PassInv'
  BY <1>1, RunsPass
<1>6. \A s \in Schedules : Steady(s)' <=> Steady(s)
  BY <1>1 DEF Steady
<1>7. \A q \in Runners : moment'[q] = moment[q]
  BY <1>1 DEF Runs
<1>8. \A s \in Schedules : exhausted'[s] = (exhausted[s] \/ s = c)
  BY <1>1
<1>9. \A s \in Schedules : OnceOf(s)'
  BY <1>1, <1>3, <1>4, <1>6, <1>8, FiredUntouched DEF FiredStays
<1>10. \A s \in Schedules : LateOf(s)'
  BY <1>1, <1>2, <1>6, <1>7, DueUntouched DEF DueStays
<1> QED BY <1>5, <1>9, <1>10, AllSchedules

\* The last write of _advance: next_run is cleared, or counted from the moment of the fire;
\* then it is due in time, or the trigger it was counted with is no longer the schedule's.
LEMMA PutOffKeeps ==
    ASSUME FiresInv, NEW p \in Runners, ClearNextRun(p) \/ Postpone(p)
    PROVE  PassInv' /\ FiredInv' /\ DueInv'
<1> USE DEF FiresInv, SchedulerTypeOK
<1>0. PICK c \in created : c = current[p]
  BY DEF ClearNextRun, Postpone
<1>1. /\ position[p] \in {"clear", "postpone"} /\ position'[p] = "next"
      /\ UNCHANGED <<created, trigger, exhausted, fired, last, user, overlapped>>
      /\ moment' = moment
      /\ Runs(p)
  BY <1>0 DEF ClearNextRun, Postpone, Skip, Runs, InPass, log, control
<1>2. \/ /\ position[p] = "clear" /\ nextRun' = [nextRun EXCEPT ![c] = 0] /\ torn' = torn
      \/ /\ position[p] = "postpone" /\ nextRun' = [nextRun EXCEPT ![c] = moment[p] + seen[p].time]
         /\ torn' = IF seen[p] = trigger[c] THEN torn \ {c} ELSE torn \union {c}
  BY <1>0 DEF ClearNextRun, Postpone, log
<1>3. \A q \in Runners, s \in Schedules : Advancing(q, s)' <=> Advancing(q, s) /\ q # p
  BY <1>1 DEF Runs, Advancing
<1>4. \A q \in Runners, s \in Schedules : Firing(q, s)' <=> Firing(q, s)
  BY <1>1 DEF Runs, Firing
<1>5. \A q \in Runners, s \in Schedules : Exhausting(q, s)' <=> Exhausting(q, s)
  BY <1>1 DEF Runs, Exhausting
<1>6. PassInv'
  BY <1>1, RunsPass
<1>7. \A s \in Schedules : Steady(s)' <=> Steady(s)
  BY <1>1 DEF Steady
<1>8. \A s \in Schedules : OnceOf(s)'
  BY <1>1, <1>4, <1>5, <1>7, FiredUntouched DEF FiredStays
<1>9. Advancing(p, c)
  BY <1>0, <1>1 DEF Advancing
<1>10. \A s \in Schedules : s # c => ~ Advancing(p, s)
  BY <1>0 DEF Advancing
<1>11. ASSUME NEW s \in Schedules, s # c PROVE LateOf(s)'
  <2>1. nextRun'[s] = nextRun[s] /\ (s \in torn' <=> s \in torn)
    BY <1>2, <1>11
  <2>2. \A q \in Runners : Advancing(q, s)' <=> Advancing(q, s)
    BY <1>3, <1>10, <1>11
  <2>3. DueStays(s)
    BY <1>1, <1>7, <2>1, <2>2 DEF DueStays
  <2> QED BY <2>3, DueUntouched
<1>12. LateOf(c)'
  <2>1. \A q \in Runners : Advancing(q, c)' => Advancing(q, c)
    BY <1>3
  <2>2. ~ overlapped => last[c] <= moment[p] /\ \A q \in Runners : Advancing(q, c)' => last[c] <= moment[q]
    BY <1>9, <2>1 DEF DueInv
  <2>3. ASSUME ~ overlapped, c \notin torn', Steady(c)' PROVE DueOf(c)'
    <3>1. CASE position[p] = "clear"
      <4>1. nextRun'[c] = 0
        BY <1>2, <3>1
      <4> QED BY <4>1 DEF DueOf
    <3>2. CASE position[p] = "postpone"
      <4>1. seen[p] = trigger[c] /\ nextRun'[c] = moment[p] + seen[p].time
        BY <1>2, <2>3, <3>2
      <4>2. trigger'[c].kind # "oneshot"
        BY <1>1, <3>2, <4>1 DEF PassInv
      <4>3. last[c] \in Nat /\ moment[p] \in Nat /\ trigger[c].time \in Nat
        BY TriggerType, SchedulerAssumption DEF PassInv
      <4>4. nextRun'[c] >= last[c] + trigger[c].time
        BY <2>2, <2>3, <4>1, <4>3
      <4> QED BY <1>1, <4>2, <4>4 DEF DueOf
    <3> QED BY <1>1, <3>1, <3>2
  <2> QED BY <1>1, <2>2, <2>3 DEF LateOf
<1> QED BY <1>6, <1>8, <1>11, <1>12, AllSchedules

-----------------------------------------------------------------------------
LEMMA FiresStart == SchedulerInit => FiresInv
<1> SUFFICES ASSUME SchedulerInit PROVE FiresInv
  OBVIOUS
<1>1. /\ created = {} /\ \A s \in Schedules : last[s] = 0 /\ \A r \in Runners : fired[s][r] = 0
      /\ \A r \in Runners : position[r] \in {"off", "absent"}
  BY DEF SchedulerInit
<1>2. PassInv
  BY <1>1 DEF PassInv, InPass
<1>3. FiredInv
  BY <1>1 DEF FiredInv, Steady
<1>4. DueInv
  BY <1>1 DEF DueInv, Steady, Advancing
<1> QED BY <1>2, <1>3, <1>4, SchedulerStart DEF FiresInv

LEMMA FiresStep == FiresInv /\ [SchedulerNext]_schedulerVars => FiresInv'
<1> SUFFICES ASSUME FiresInv, [SchedulerNext]_schedulerVars PROVE FiresInv'
  OBVIOUS
<1>1. SchedulerTypeOK'
  BY SchedulerTypes DEF FiresInv
<1>2. Quiet => PassInv' /\ FiredInv' /\ DueInv'
  BY QuietKeeps
<1>3. CASE Tick \/ UNCHANGED schedulerVars
  BY <1>1, <1>2, <1>3, ManageIsQuiet DEF FiresInv
<1>4. CASE Manage
  <2>1. CASE \E s \in Schedules, t \in Triggers, st \in {"enabled", "paused"} : Create(s, t, st)
    BY <1>1, <2>1, CreateKeeps DEF FiresInv
  <2>2. CASE \E s \in Schedules, t \in Triggers : UpdateSchedule(s, t)
    BY <1>1, <2>2, UpdateKeeps DEF FiresInv
  <2>3. CASE \E s \in Schedules : FinishUpdate(s)
    BY <1>1, <2>3, UpdateKeeps, UpdateNextRunKeeps DEF FiresInv, FinishUpdate
  <2>4. CASE \/ \E s \in Schedules, st \in {"enabled", "paused"} : SetStatus(s, st)
             \/ \E s \in Schedules : Delete(s)
             \/ \E r \in Runners : Start(r)
             \/ StopBegin \/ StopEnd
    BY <1>1, <1>2, <2>4, ManageIsQuiet DEF FiresInv
  <2> QED BY <1>4, <2>1, <2>2, <2>3, <2>4 DEF Manage
<1>5. ASSUME NEW r \in Runners, CallRunPending(r) \/ Step(r) PROVE FiresInv'
  <2>1. CASE \/ CallRunPending(r) \/ Poll(r) \/ Return(r) \/ Look(r) \/ LookTime(r)
             \/ Compare(r) \/ FireRaises(r)
             \/ LookExhausted(r) /\ exhausted[current[r]]
    BY <1>1, <1>2, <2>1, RunIsQuiet DEF FiresInv
  <2>2. CASE LookExhausted(r) /\ ~ exhausted[current[r]]
    BY <1>1, <2>2, LookExhaustedKeeps DEF FiresInv
  <2>3. CASE Fire(r)
    BY <1>1, <2>3, FireKeeps DEF FiresInv
  <2>4. CASE Advance(r)
    BY <1>1, <2>4, AdvanceKeeps DEF FiresInv
  <2>5. CASE Exhaust(r)
    BY <1>1, <2>5, ExhaustKeeps DEF FiresInv
  <2>6. CASE ClearNextRun(r) \/ Postpone(r)
    BY <1>1, <2>6, PutOffKeeps DEF FiresInv
  <2> QED BY <1>5, <2>1, <2>2, <2>3, <2>4, <2>5, <2>6 DEF Step
<1> QED BY <1>3, <1>4, <1>5 DEF SchedulerNext

\* A one-shot that is not being updated has been fired once by whoever fired it.
LEMMA FiresInvIsOnce == FiresInv => OneShotFiresOnce
<1> SUFFICES ASSUME FiresInv, NEW s \in created, trigger[s].kind = "oneshot", user # s
             PROVE  LET by == {r \in Runners : fired[s][r] > 0}
                    IN  /\ \A r \in by : fired[s][r] = 1
                        /\ ~ overlapped => Cardinality(by) <= 1
  BY DEF OneShotFiresOnce
<1> DEFINE by == {r \in Runners : fired[s][r] > 0}
<1>1. s \in Schedules /\ FiredOf(s)
  BY DEF FiresInv, FiredInv, SchedulerTypeOK, Steady
<1>2. \A r \in by : fired[s][r] = 1
  BY <1>1 DEF FiredOf
<1>3. ~ overlapped => \A q, r \in by : q = r
  BY <1>1 DEF FiredOf
<1> HIDE DEF by
<1>4. ASSUME NEW r \in by, ~ overlapped PROVE Cardinality(by) <= 1
  <2>1. by = {r}
    BY <1>3, <1>4
  <2>2. Cardinality({r}) = 1
    BY FS_Singleton
  <2> QED BY <2>1, <2>2
<1>5. ~ overlapped => Cardinality(by) <= 1
  <2>1. by = {} => Cardinality(by) <= 1
    BY FS_EmptySet
  <2> QED BY <1>4, <2>1
<1> QED BY <1>2, <1>5 DEF by

\* Only Compare takes a runner from "compare" to "fire".
LEMMA ComparesFire ==
    ASSUME FiresInv, [SchedulerNext]_schedulerVars, NEW r \in Runners,
           position[r] = "compare", position'[r] = "fire"
    PROVE  nextRun[current[r]] # 0 /\ nextRun[current[r]] <= moment[r]
<1> USE DEF FiresInv, SchedulerTypeOK
<1>1. ~ (Tick \/ UNCHANGED schedulerVars)
  BY DEF Tick, schedulerVars, runner
<1>2. ~ Manage
  <2>1. \A q \in Runners : ~ Start(q)
    BY DEF Start
  <2> QED BY <2>1 DEF Manage, FinishUpdate, Create, SetStatus, UpdateSchedule, UpdateExhausted,
                      UpdateNextRun, Delete, StopBegin, StopEnd, runner
<1>3. PICK p \in Runners : CallRunPending(p) \/ Step(p)
  BY <1>1, <1>2 DEF SchedulerNext
<1>4. ~ CallRunPending(p) /\ ~ Poll(p)
  BY DEF CallRunPending, Poll, RunPending, LeavePass
<1>5. ~ Look(p) /\ ~ Return(p) /\ ~ FireRaises(p)
  BY DEF Look, Return, FireRaises, LeavePass
<1>6. ~ LookExhausted(p) /\ ~ LookTime(p) /\ ~ Fire(p)
  BY DEF LookExhausted, LookTime, Fire, GoOn, Skip
<1>7. ~ Advance(p) /\ ~ Exhaust(p) /\ ~ ClearNextRun(p) /\ ~ Postpone(p)
  BY DEF Advance, Exhaust, ClearNextRun, Postpone, GoOn, Skip
<1>8. Compare(p)
  BY <1>3, <1>4, <1>5, <1>6, <1>7 DEF Step
<1>9. p = r
  BY <1>8 DEF Compare, LeavePass, GoOn, Skip
<1>10. ~ LeavePass(r, "off") /\ ~ Skip(r)
  BY DEF LeavePass, Skip
<1> QED BY <1>8, <1>9, <1>10 DEF Compare

\* What a pass without another finds due is due.
LEMMA CompareIsNotEarly ==
    ASSUME FiresInv, [SchedulerNext]_schedulerVars, NEW r \in Runners,
           position[r] = "compare", position'[r] = "fire", user # current[r],
           current[r] \notin torn, ~ overlapped
    PROVE  moment[r] >= trigger[current[r]].time +
               (IF trigger[current[r]].kind = "oneshot" THEN 0 ELSE last[current[r]])
<1> USE DEF FiresInv, SchedulerTypeOK
<1>1. PICK c \in created : c = current[r]
  OBVIOUS
<1>2. nextRun[c] # 0 /\ nextRun[c] <= moment[r]
  BY <1>1, ComparesFire
<1>3. DueOf(c)
  BY <1>1 DEF DueInv, Steady
<1>4. \A q \in Runners : ~ Advancing(q, c)
  BY DEF PassInv, InPass, Advancing
<1>5. moment[r] \in Nat /\ nextRun[c] \in Nat /\ last[c] \in Nat /\ trigger[c].time \in Nat
  BY TriggerType, SchedulerAssumption DEF PassInv
<1>6. CASE trigger[c].kind = "oneshot"
  <2>1. nextRun[c] \in {0, trigger[c].time}
    BY <1>3, <1>6 DEF DueOf
  <2>2. moment[r] >= trigger[c].time + 0
    BY <1>2, <1>5, <2>1
  <2> QED BY <1>1, <1>6, <2>2
<1>7. CASE trigger[c].kind # "oneshot"
  <2>1. nextRun[c] >= last[c] + trigger[c].time
    BY <1>2, <1>3, <1>4, <1>7 DEF DueOf
  <2>2. moment[r] >= trigger[c].time + last[c]
    BY <1>2, <1>5, <2>1
  <2> QED BY <1>1, <1>7, <2>2
<1> QED BY <1>6, <1>7

-----------------------------------------------------------------------------
\* The scheduler's state has its type (SchedulerTypeOK): a pass works on entries that were
\* created, and the application waits for its own update or stop only.
THEOREM SchedulerTypeCorrect == SchedulerSpec => []SchedulerTypeOK
<1>1. SchedulerInit => SchedulerTypeOK
  BY SchedulerStart
<1>2. SchedulerTypeOK /\ [SchedulerNext]_schedulerVars => SchedulerTypeOK'
  BY SchedulerTypes
<1> QED BY <1>1, <1>2, PTL DEF SchedulerSpec

\* FiresAsAgreed, for any schedules, triggers and runners, with update and run_pending read and
\* written line by line: run_pending fires a one-shot once per runner at most, and once in all
\* while passes do not overlap; a pass that overlaps no other finds no schedule due before its
\* time, nor an interval sooner than the interval after its last fire, unless update is under
\* way or has come between a pass's look at the trigger and what it writes by it.
THEOREM FiresCorrect == SchedulerSpec => FiresAsAgreed
<1> DEFINE Early(r) ==
        LET s == current[r]
        IN  position[r] = "compare" /\ position'[r] = "fire" /\ user # s
                /\ s \notin torn /\ ~ overlapped
                => moment[r] >= trigger[s].time +
                       (IF trigger[s].kind = "oneshot" THEN 0 ELSE last[s])
<1>1. SchedulerInit => FiresInv
  BY FiresStart
<1>2. FiresInv /\ [SchedulerNext]_schedulerVars => FiresInv'
  BY FiresStep
<1>3. FiresInv => OneShotFiresOnce
  BY FiresInvIsOnce
<1>4. FiresInv /\ [SchedulerNext]_schedulerVars => [\A r \in Runners : Early(r)]_schedulerVars
  BY CompareIsNotEarly
<1>5. SchedulerSpec => []OneShotFiresOnce
  BY <1>1, <1>2, <1>3, PTL DEF SchedulerSpec
<1>6. SchedulerSpec => [][\A r \in Runners : Early(r)]_schedulerVars
  BY <1>1, <1>2, <1>4, PTL DEF SchedulerSpec
<1> QED BY <1>5, <1>6, PTL DEF FiresAsAgreed, NeverEarly
=============================================================================
