---------------------------- MODULE CallerProofs ----------------------------
(***************************************************************************)
(* Proofs about what the threads of a caller share for one execution: the   *)
(* backend that runs it in the calling thread (InlineBackend), for any      *)
(* number of threads and executions and every history, and the handle a     *)
(* submission returns (Handle), for any callers, both handles and every     *)
(* number of engine retries.                                                *)
(***************************************************************************)
EXTENDS InlineBackend, Handle, FiniteSetTheorems, TLAPS

(* The inline backend. *)

\* Threads that have an execution the history does not list yet, that work on
\* the history, and that have taken an execution out of it.
Holds(c) == pc[c] \in {"call", "execution", "result", "append"}

Busy == {c \in Callers : pc[c] \in {"check", "pop", "popexecution", "popresult"}}

Takes(c) == pc[c] \in {"popexecution", "popresult"}

\* An execution is in one place: with the thread that submits it, in the list, or
\* with the thread that evicts it.
OrderInv ==
    /\ \A i, j \in DOMAIN order : order[i] = order[j] => i = j
    /\ \A e \in ToSet(order) : attempt[e] > 0

PlaceInv(c) ==
    /\ Holds(c) =>
           /\ at[c] \in Executions /\ attempt[at[c]] > 0 /\ at[c] \notin ToSet(order)
           /\ \A d \in Callers \ {c} : Holds(d) => at[d] # at[c]
           /\ \A d \in Callers : Takes(d) => evicted[d] # at[c]
    /\ Takes(c) =>
           /\ evicted[c] \in Executions /\ attempt[evicted[c]] > 0
           /\ evicted[c] \notin ToSet(order)
           /\ \A d \in Callers \ {c} : Takes(d) => evicted[d] # evicted[c]
    /\ pc[c] = "read" => at[c] \in Executions
    /\ pc[c] \in {"clearresults", "clearorder"} => closed
    /\ pc[c] \notin {"idle", "call", "read", "clearresults", "clearorder"} => History > 0

\* What the two dictionaries have beside what is listed.
InHand(P, e) == \E c \in Callers : pc[c] \in P /\ at[c] = e

Evicting(P, e) == \E c \in Callers : pc[c] \in P /\ evicted[c] = e

DictionariesInv ==
    ~ closed => \A e \in Executions :
        /\ e \in executions <=> \/ e \in ToSet(order)
                                \/ InHand({"result", "append"}, e)
                                \/ Evicting({"popexecution"}, e)
        /\ e \in results <=> \/ e \in ToSet(order)
                             \/ InHand({"append"}, e)
                             \/ Evicting({"popexecution", "popresult"}, e)

\* Of two threads the one that pops has left enough for the other.
Pair == \A c, d, x \in Callers : c = d \/ c = x \/ d = x

PopInv ==
    Pair /\ ~ closed => \A c \in Callers :
        /\ answer[c] # "IndexError"
        /\ pc[c] = "pop" => Len(order) >= History
        /\ \A d \in Callers \ {c} : pc[c] = "pop" /\ pc[d] = "pop" => Len(order) > History

HistoryInv ==
    /\ TypeOK
    /\ OrderInv
    /\ \A c \in Callers : PlaceInv(c)
    /\ DictionariesInv
    /\ Len(order) <= History + Cardinality(Busy)
    /\ PopInv

-----------------------------------------------------------------------------
\* Adding to a list without repetitions something it does not hold.
LEMMA Listed ==
    ASSUME NEW S, NEW s \in Seq(S), NEW e \in S, e \notin ToSet(s),
           \A i, j \in DOMAIN s : s[i] = s[j] => i = j
    PROVE  /\ Append(s, e) \in Seq(S) /\ Len(Append(s, e)) = Len(s) + 1
           /\ ToSet(Append(s, e)) = ToSet(s) \union {e}
           /\ \A i, j \in DOMAIN Append(s, e) : Append(s, e)[i] = Append(s, e)[j] => i = j
<1> DEFINE longer == Append(s, e)
<1>1. /\ longer \in Seq(S) /\ Len(longer) = Len(s) + 1
      /\ DOMAIN longer = 1 .. Len(s) + 1 /\ DOMAIN s = 1 .. Len(s) /\ Len(s) \in Nat
      /\ longer[Len(s) + 1] = e /\ \A i \in 1 .. Len(s) : longer[i] = s[i]
  OBVIOUS
<1> HIDE DEF longer
<1>2. ToSet(longer) = ToSet(s) \union {e}
  <2>1. ASSUME NEW x \in ToSet(longer) PROVE x \in ToSet(s) \union {e}
    <3>1. PICK i \in 1 .. Len(s) + 1 : longer[i] = x
      BY <1>1 DEF ToSet
    <3>2. i = Len(s) + 1 \/ i \in 1 .. Len(s)
      BY <1>1
    <3> QED BY <1>1, <3>1, <3>2 DEF ToSet
  <2>2. ASSUME NEW x \in ToSet(s) PROVE x \in ToSet(longer)
    <3>1. PICK i \in 1 .. Len(s) : s[i] = x
      BY <1>1 DEF ToSet
    <3>2. i \in 1 .. Len(s) + 1 /\ longer[i] = x
      BY <1>1, <3>1
    <3> QED BY <1>1, <3>2 DEF ToSet
  <2>3. e \in ToSet(longer)
    BY <1>1 DEF ToSet
  <2> QED BY <2>1, <2>2, <2>3
<1>3. ASSUME NEW i \in DOMAIN longer, NEW j \in DOMAIN longer, longer[i] = longer[j]
      PROVE  i = j
  <2>1. \A k \in 1 .. Len(s) : s[k] # e
    BY <1>1 DEF ToSet
  <2>2. (i = Len(s) + 1 \/ i \in 1 .. Len(s)) /\ (j = Len(s) + 1 \/ j \in 1 .. Len(s))
    BY <1>1
  <2> QED BY <1>1, <1>3, <2>1, <2>2
<1> QED BY <1>1, <1>2, <1>3 DEF longer

\* Taking the first from a list without repetitions.
LEMMA Taken ==
    ASSUME NEW S, NEW s \in Seq(S), s # <<>>, \A i, j \in DOMAIN s : s[i] = s[j] => i = j
    PROVE  /\ Tail(s) \in Seq(S) /\ Len(Tail(s)) = Len(s) - 1
           /\ Head(s) \in ToSet(s) /\ Head(s) \in S
           /\ ToSet(Tail(s)) = ToSet(s) \ {Head(s)}
           /\ \A i, j \in DOMAIN Tail(s) : Tail(s)[i] = Tail(s)[j] => i = j
<1> DEFINE rest == Tail(s)
           first == Head(s)
<1>1. /\ rest \in Seq(S) /\ Len(rest) = Len(s) - 1 /\ first = s[1] /\ first \in S
      /\ DOMAIN rest = 1 .. Len(s) - 1 /\ DOMAIN s = 1 .. Len(s) /\ Len(s) \in Nat /\ Len(s) > 0
      /\ \A i \in 1 .. Len(s) - 1 : rest[i] = s[i + 1]
  OBVIOUS
<1> HIDE DEF rest, first
<1>2. first \in ToSet(s)
  BY <1>1 DEF ToSet
<1>3. ToSet(rest) = ToSet(s) \ {first}
  <2>1. ASSUME NEW x \in ToSet(rest) PROVE x \in ToSet(s) \ {first}
    <3>1. PICK i \in 1 .. Len(s) - 1 : rest[i] = x
      BY <1>1 DEF ToSet
    <3>2. i + 1 \in 1 .. Len(s) /\ s[i + 1] = x /\ i + 1 # 1
      BY <1>1, <3>1
    <3>3. 1 \in 1 .. Len(s)
      BY <1>1
    <3> QED BY <1>1, <3>2, <3>3 DEF ToSet
  <2>2. ASSUME NEW x \in ToSet(s), x # first PROVE x \in ToSet(rest)
    <3>1. PICK i \in 1 .. Len(s) : s[i] = x
      BY <1>1 DEF ToSet
    <3>2. i # 1
      BY <1>1, <2>2, <3>1
    <3>3. i - 1 \in 1 .. Len(s) - 1 /\ rest[i - 1] = s[i]
      BY <1>1, <3>2
    <3> QED BY <1>1, <3>1, <3>3 DEF ToSet
  <2> QED BY <2>1, <2>2
<1>4. ASSUME NEW i \in DOMAIN rest, NEW j \in DOMAIN rest, rest[i] = rest[j] PROVE i = j
  <2>1. i + 1 \in DOMAIN s /\ j + 1 \in DOMAIN s /\ s[i + 1] = s[j + 1]
    BY <1>1, <1>4
  <2> QED BY <1>1, <2>1
<1> QED BY <1>1, <1>2, <1>3, <1>4 DEF rest, first

\* The number of threads at work on the history.
LEMMA BusyCounted ==
    ASSUME IsFiniteSet(Callers), NEW c \in Callers,
           NEW p, pc' = [pc EXCEPT ![c] = p], NEW P, pc \in [Callers -> P]
    PROVE  /\ Cardinality(Busy) \in Nat /\ Cardinality(Busy)' \in Nat
           /\ c \notin Busy => Cardinality(Busy)' >= Cardinality(Busy)
           /\ c \notin Busy /\ p = "check" => Cardinality(Busy)' = Cardinality(Busy) + 1
           /\ p \in {"check", "pop", "popexecution", "popresult"} =>
                  Cardinality(Busy)' >= Cardinality(Busy)
<1>1. \A d \in Callers : pc'[d] = IF d = c THEN p ELSE pc[d]
  OBVIOUS
<1>2. IsFiniteSet(Busy) /\ IsFiniteSet(Busy')
  BY FS_Subset DEF Busy
<1>3. Cardinality(Busy) \in Nat /\ Cardinality(Busy') \in Nat
  BY <1>2, FS_CardinalityType
<1>4. CASE c \notin Busy \/ p \in {"check", "pop", "popexecution", "popresult"}
  <2>1. Busy \subseteq Busy'
    BY <1>1, <1>4 DEF Busy
  <2>2. Cardinality(Busy) <= Cardinality(Busy')
    BY <1>2, <2>1, FS_Subset
  <2>3. c \notin Busy /\ p = "check" => Cardinality(Busy') = Cardinality(Busy) + 1
    <3>1. c \notin Busy /\ p = "check" => Busy' = Busy \union {c}
      BY <1>1 DEF Busy
    <3> QED BY <1>2, <3>1, FS_AddElement
  <2> QED BY <1>3, <2>2, <2>3
<1> QED BY <1>3, <1>4

\* A step of a thread that touches neither the list nor the dictionaries, and has
\* nothing of theirs in its hands before or after.
LEMMA CallerMoves ==
    ASSUME HistoryInv, NEW c \in Callers,
           NEW p \in {"idle", "call", "execution", "pop", "read"},
           NEW a \in Executions \union {None}, NEW v \in Executions \union {None}, NEW h \in Answers,
           pc' = [pc EXCEPT ![c] = p], at' = [at EXCEPT ![c] = a],
           evicted' = [evicted EXCEPT ![c] = v], answer' = [answer EXCEPT ![c] = h],
           UNCHANGED <<executions, results, order, closed>>,
           attempt' \in [Executions -> Nat], \A e \in Executions : attempt'[e] >= attempt[e],
           outcome' \in [Executions -> {None, "value", "error"}],
           pc[c] \in {"idle", "call", "check", "pop", "read"},
           p \in {"call", "execution"} =>
               /\ a \in Executions /\ attempt'[a] > 0
               /\ (pc[c] = "call" /\ a = at[c]) \/ attempt[a] = 0,
           p = "read" => a \in Executions,
           p \in {"execution", "pop"} => History > 0,
           p = "pop" => Len(order) > History,
           pc[c] \in {"check", "pop"} => p = "pop" \/ Len(order) <= History,
           Pair /\ ~ closed => h # "IndexError"
    PROVE  HistoryInv'
<1> USE DEF HistoryInv
<1>1. /\ pc \in [Callers -> {"idle", "call", "execution", "result", "append",
                             "check", "pop", "popexecution", "popresult", "read",
                             "clearresults", "clearorder"}]
      /\ at \in [Callers -> Executions \union {None}] /\ evicted \in [Callers -> Executions \union {None}]
      /\ answer \in [Callers -> Answers] /\ attempt \in [Executions -> Nat]
      /\ order \in Seq(Executions) /\ Len(order) \in Nat /\ History \in Nat /\ IsFiniteSet(Callers)
  BY InlineAssumption, InlineAssumption DEF TypeOK
<1>2. \A d \in Callers : /\ pc'[d] = IF d = c THEN p ELSE pc[d]
                         /\ at'[d] = IF d = c THEN a ELSE at[d]
                         /\ evicted'[d] = IF d = c THEN v ELSE evicted[d]
                         /\ answer'[d] = IF d = c THEN h ELSE answer[d]
  BY <1>1
<1>3. TypeOK'
  BY <1>1 DEF TypeOK
<1>4. \A e \in ToSet(order) : e \in Executions
  BY <1>1 DEF ToSet
<1>5. OrderInv'
  <2>1. \A e \in ToSet(order) : attempt[e] > 0 /\ attempt[e] \in Nat /\ attempt'[e] \in Nat
    BY <1>1, <1>4 DEF OrderInv
  <2> QED BY <1>4, <2>1 DEF OrderInv
<1>6. ASSUME NEW d \in Callers PROVE PlaceInv(d)'
  <2>1. PlaceInv(c) /\ PlaceInv(d) /\ \A x \in Callers : PlaceInv(x)
    OBVIOUS
  <2>2. \A e \in Executions : attempt[e] \in Nat /\ attempt'[e] \in Nat /\ attempt'[e] >= attempt[e]
    BY <1>1
  <2>3. ~ Takes(c)' /\ \A x \in Callers : Takes(x)' => Takes(x) /\ x # c /\ evicted'[x] = evicted[x]
    BY <1>2 DEF Takes
  <2>4. p \in {"call", "execution"} =>
            /\ a \notin ToSet(order)
            /\ \A x \in Callers \ {c} : Holds(x) => at[x] # a
            /\ \A x \in Callers : Takes(x) => evicted[x] # a
    <3>1. CASE pc[c] = "call" /\ a = at[c]
      BY <2>1, <3>1 DEF PlaceInv, Holds
    <3>2. CASE attempt[a] = 0
      BY <2>1, <3>2 DEF PlaceInv, OrderInv
    <3> QED BY <3>1, <3>2
  <2>5. CASE d = c
    BY <1>2, <2>1, <2>2, <2>3, <2>4, <2>5 DEF PlaceInv, Holds, Takes
  <2>6. CASE d # c
    <3>1. Holds(d)' => Holds(d) /\ at'[d] = at[d]
      BY <1>2, <2>6 DEF Holds
    <3>2. Holds(c)' => at'[c] = a /\ p \in {"call", "execution"}
      BY <1>2 DEF Holds
    <3>3. \A x \in Callers \ {c} : Holds(x)' => Holds(x) /\ at'[x] = at[x]
      BY <1>2 DEF Holds
    <3>4. Holds(d)' => /\ at[d] \in Executions /\ attempt'[at[d]] > 0 /\ at[d] \notin ToSet(order)
                       /\ \A x \in Callers \ {d} : Holds(x)' => at'[x] # at[d]
                       /\ \A x \in Callers : Takes(x)' => evicted'[x] # at[d]
      BY <2>1, <2>2, <2>3, <2>4, <2>6, <3>1, <3>2, <3>3 DEF PlaceInv
    <3>5. Takes(d)' => /\ evicted[d] \in Executions /\ attempt'[evicted[d]] > 0
                       /\ evicted[d] \notin ToSet(order)
                       /\ \A x \in Callers \ {d} : Takes(x)' => evicted'[x] # evicted[d]
      BY <2>1, <2>2, <2>3 DEF PlaceInv
    <3>6. /\ pc'[d] = "read" => at'[d] \in Executions
          /\ pc'[d] \in {"clearresults", "clearorder"} => closed
          /\ pc'[d] \notin {"idle", "call", "read", "clearresults", "clearorder"} => History > 0
      BY <1>2, <2>1, <2>6 DEF PlaceInv
    <3> QED BY <1>2, <2>3, <2>6, <3>1, <3>4, <3>5, <3>6 DEF PlaceInv
  <2> QED BY <2>5, <2>6
<1>7. DictionariesInv'
  <2>1. \A x \in Callers :
            /\ pc'[x] \in {"result", "append", "popexecution", "popresult"} <=>
                   pc[x] \in {"result", "append", "popexecution", "popresult"}
            /\ pc[x] \in {"result", "append", "popexecution", "popresult"} =>
                   pc'[x] = pc[x] /\ at'[x] = at[x] /\ evicted'[x] = evicted[x]
    BY <1>2
  <2>2. ASSUME NEW e, NEW P \in SUBSET {"result", "append", "popexecution", "popresult"}
        PROVE  (InHand(P, e)' <=> InHand(P, e)) /\ (Evicting(P, e)' <=> Evicting(P, e))
    BY <2>1 DEF InHand, Evicting
  <2> QED BY <2>2 DEF DictionariesInv
<1>8. Len(order) <= History + Cardinality(Busy)'
  <2>1. /\ Cardinality(Busy) \in Nat /\ Cardinality(Busy)' \in Nat
        /\ c \notin Busy \/ p = "pop" => Cardinality(Busy)' >= Cardinality(Busy)
    BY <1>1, BusyCounted
  <2>2. c \in Busy => pc[c] \in {"check", "pop"}
    BY DEF Busy
  <2> QED BY <1>1, <2>1, <2>2
<1>9. PopInv'
  BY <1>1, <1>2 DEF PopInv, Pair
<1> QED BY <1>3, <1>5, <1>6, <1>7, <1>8, <1>9

\* The steps of _remember.  The execution is stored.
LEMMA RemembersExecution ==
    ASSUME HistoryInv, NEW c \in Callers, RememberExecution(c)
    PROVE  HistoryInv'
<1> USE DEF HistoryInv
<1>1. /\ pc[c] = "execution" /\ pc' = [pc EXCEPT ![c] = "result"]
      /\ executions' = executions \union {at[c]}
      /\ UNCHANGED <<results, order, attempt, outcome, closed, at, evicted, answer>>
  BY DEF RememberExecution, Goto, local
<1>2. pc \in [Callers -> {"idle", "call", "execution", "result", "append",
                          "check", "pop", "popexecution", "popresult", "read",
                          "clearresults", "clearorder"}]
  BY DEF TypeOK
<1>3. \A d \in Callers : pc'[d] = IF d = c THEN "result" ELSE pc[d]
  BY <1>1, <1>2
<1>4. Holds(c) /\ PlaceInv(c)
  BY <1>1 DEF Holds
<1>5. TypeOK'
  BY <1>1, <1>4 DEF TypeOK, PlaceInv
<1>6. OrderInv'
  BY <1>1 DEF OrderInv
<1>7. ASSUME NEW d \in Callers PROVE PlaceInv(d)'
  <2>1. \A x \in Callers : (Holds(x)' <=> Holds(x)) /\ (Takes(x)' <=> Takes(x))
    BY <1>1, <1>3 DEF Holds, Takes
  <2>2. PlaceInv(d)
    OBVIOUS
  <2> QED BY <1>1, <1>3, <2>1, <2>2 DEF PlaceInv
<1>8. DictionariesInv'
  <2>1. \A e : /\ InHand({"result", "append"}, e)' <=> InHand({"result", "append"}, e) \/ e = at[c]
               /\ InHand({"append"}, e)' <=> InHand({"append"}, e)
    BY <1>1, <1>3 DEF InHand
  <2>2. \A e, P : P \subseteq {"popexecution", "popresult"} => (Evicting(P, e)' <=> Evicting(P, e))
    BY <1>1, <1>3 DEF Evicting
  <2> QED BY <1>1, <2>1, <2>2 DEF DictionariesInv
<1>9. Busy' = Busy
  BY <1>1, <1>3 DEF Busy
<1>10. PopInv'
  BY <1>1, <1>3 DEF PopInv, Pair
<1> QED BY <1>1, <1>5, <1>6, <1>7, <1>8, <1>9, <1>10

\* Its result is stored.
LEMMA RemembersResult ==
    ASSUME HistoryInv, NEW c \in Callers, RememberResult(c)
    PROVE  HistoryInv'
<1> USE DEF HistoryInv
<1>1. /\ pc[c] = "result" /\ pc' = [pc EXCEPT ![c] = "append"]
      /\ results' = results \union {at[c]}
      /\ UNCHANGED <<executions, order, attempt, outcome, closed, at, evicted, answer>>
  BY DEF RememberResult, Goto, local
<1>2. pc \in [Callers -> {"idle", "call", "execution", "result", "append",
                          "check", "pop", "popexecution", "popresult", "read",
                          "clearresults", "clearorder"}]
  BY DEF TypeOK
<1>3. \A d \in Callers : pc'[d] = IF d = c THEN "append" ELSE pc[d]
  BY <1>1, <1>2
<1>4. Holds(c) /\ PlaceInv(c)
  BY <1>1 DEF Holds
<1>5. TypeOK'
  BY <1>1, <1>4 DEF TypeOK, PlaceInv
<1>6. OrderInv'
  BY <1>1 DEF OrderInv
<1>7. ASSUME NEW d \in Callers PROVE PlaceInv(d)'
  <2>1. \A x \in Callers : (Holds(x)' <=> Holds(x)) /\ (Takes(x)' <=> Takes(x))
    BY <1>1, <1>3 DEF Holds, Takes
  <2>2. PlaceInv(d)
    OBVIOUS
  <2> QED BY <1>1, <1>3, <2>1, <2>2 DEF PlaceInv
<1>8. DictionariesInv'
  <2>1. \A e : /\ InHand({"result", "append"}, e)' <=> InHand({"result", "append"}, e)
               /\ InHand({"append"}, e)' <=> InHand({"append"}, e) \/ e = at[c]
    BY <1>1, <1>3 DEF InHand
  <2>2. \A e, P : P \subseteq {"popexecution", "popresult"} => (Evicting(P, e)' <=> Evicting(P, e))
    BY <1>1, <1>3 DEF Evicting
  <2> QED BY <1>1, <2>1, <2>2 DEF DictionariesInv
<1>9. Busy' = Busy
  BY <1>1, <1>3 DEF Busy
<1>10. PopInv'
  BY <1>1, <1>3 DEF PopInv, Pair
<1> QED BY <1>1, <1>5, <1>6, <1>7, <1>8, <1>9, <1>10

\* The list gets it.
LEMMA Appends ==
    ASSUME HistoryInv, NEW c \in Callers, AppendOrder(c)
    PROVE  HistoryInv'
<1> USE DEF HistoryInv
<1>1. /\ pc[c] = "append" /\ pc' = [pc EXCEPT ![c] = "check"]
      /\ order' = Append(order, at[c])
      /\ UNCHANGED <<executions, results, attempt, outcome, closed, at, evicted, answer>>
  BY DEF AppendOrder, Goto, local
<1>2. /\ pc \in [Callers -> {"idle", "call", "execution", "result", "append",
                             "check", "pop", "popexecution", "popresult", "read",
                             "clearresults", "clearorder"}]
      /\ order \in Seq(Executions) /\ Len(order) \in Nat /\ History \in Nat /\ IsFiniteSet(Callers)
  BY InlineAssumption DEF TypeOK
<1>3. \A d \in Callers : pc'[d] = IF d = c THEN "check" ELSE pc[d]
  BY <1>1, <1>2
<1>4. PlaceInv(c) /\ Holds(c)
  BY <1>1 DEF Holds
<1>5. /\ at[c] \in Executions /\ attempt[at[c]] > 0 /\ at[c] \notin ToSet(order)
      /\ \A d \in Callers \ {c} : Holds(d) => at[d] # at[c]
      /\ \A d \in Callers : Takes(d) => evicted[d] # at[c]
  BY <1>4 DEF PlaceInv
<1>6. /\ order' \in Seq(Executions) /\ Len(order') = Len(order) + 1
      /\ ToSet(order') = ToSet(order) \union {at[c]}
      /\ \A i, j \in DOMAIN order' : order'[i] = order'[j] => i = j
  BY <1>1, <1>2, <1>5, Listed DEF OrderInv
<1>7. TypeOK'
  BY <1>1, <1>6 DEF TypeOK
<1>8. OrderInv'
  BY <1>1, <1>5, <1>6 DEF OrderInv
<1>9. ASSUME NEW d \in Callers PROVE PlaceInv(d)'
  <2>1. \A x \in Callers : (Holds(x)' <=> Holds(x) /\ x # c) /\ (Takes(x)' <=> Takes(x))
    BY <1>1, <1>3 DEF Holds, Takes
  <2>2. PlaceInv(d)
    OBVIOUS
  <2> QED BY <1>1, <1>3, <1>5, <1>6, <2>1, <2>2 DEF PlaceInv
<1>10. DictionariesInv'
  <2>1. ASSUME NEW e \in Executions
        PROVE  /\ InHand({"result", "append"}, e) <=> InHand({"result", "append"}, e)' \/ e = at[c]
               /\ InHand({"append"}, e) <=> InHand({"append"}, e)' \/ e = at[c]
    BY <1>1, <1>3 DEF InHand
  <2>2. \A e, P : P \subseteq {"popexecution", "popresult"} => (Evicting(P, e)' <=> Evicting(P, e))
    BY <1>1, <1>3 DEF Evicting
  <2> QED BY <1>1, <1>6, <2>1, <2>2 DEF DictionariesInv
<1>11. Len(order') <= History + Cardinality(Busy)'
  <2>1. c \notin Busy
    BY <1>1 DEF Busy
  <2>2. Cardinality(Busy) \in Nat /\ Cardinality(Busy)' = Cardinality(Busy) + 1
    BY <1>1, <1>2, <2>1, BusyCounted
  <2> QED BY <1>2, <1>6, <2>2
<1>12. PopInv'
  BY <1>1, <1>2, <1>3, <1>6 DEF PopInv, Pair
<1> QED BY <1>7, <1>8, <1>9, <1>10, <1>11, <1>12

\* Another execution is taken out of the list.
LEMMA Pops ==
    ASSUME HistoryInv, NEW c \in Callers, PopOrder(c), order # <<>>
    PROVE  HistoryInv'
<1> USE DEF HistoryInv
<1>1. /\ pc[c] = "pop" /\ pc' = [pc EXCEPT ![c] = "popexecution"]
      /\ order' = Tail(order) /\ evicted' = [evicted EXCEPT ![c] = Head(order)]
      /\ UNCHANGED <<executions, results, attempt, outcome, closed, at, answer>>
  BY DEF PopOrder, Goto
<1>2. /\ pc \in [Callers -> {"idle", "call", "execution", "result", "append",
                             "check", "pop", "popexecution", "popresult", "read",
                             "clearresults", "clearorder"}]
      /\ evicted \in [Callers -> Executions \union {None}]
      /\ order \in Seq(Executions) /\ Len(order) \in Nat /\ History \in Nat /\ IsFiniteSet(Callers)
  BY InlineAssumption DEF TypeOK
<1> DEFINE e1 == Head(order)
<1>3. \A d \in Callers : /\ pc'[d] = IF d = c THEN "popexecution" ELSE pc[d]
                         /\ evicted'[d] = IF d = c THEN e1 ELSE evicted[d]
  BY <1>1, <1>2
<1>4. /\ order' \in Seq(Executions) /\ Len(order') = Len(order) - 1
      /\ e1 \in ToSet(order) /\ e1 \in Executions
      /\ ToSet(order') = ToSet(order) \ {e1}
      /\ \A i, j \in DOMAIN order' : order'[i] = order'[j] => i = j
  BY <1>1, <1>2, Taken DEF OrderInv
<1>5. attempt[e1] > 0
  BY <1>4 DEF OrderInv
<1> HIDE DEF e1
<1>6. TypeOK'
  BY <1>1, <1>4 DEF TypeOK, e1
<1>7. OrderInv'
  BY <1>1, <1>4 DEF OrderInv
<1>8. ASSUME NEW d \in Callers PROVE PlaceInv(d)'
  <2>1. \A x \in Callers : /\ Holds(x)' <=> Holds(x)
                           /\ Takes(x)' <=> Takes(x) \/ x = c
                           /\ ~ Takes(c) /\ ~ Holds(c)
    BY <1>1, <1>3 DEF Holds, Takes
  <2>2. PlaceInv(d) /\ \A x \in Callers : PlaceInv(x)
    OBVIOUS
  <2>3. \A x \in Callers : (Holds(x) => at[x] # e1) /\ (Takes(x) => evicted[x] # e1)
    BY <1>4, <2>2 DEF PlaceInv
  <2> QED BY <1>1, <1>3, <1>4, <1>5, <2>1, <2>2, <2>3 DEF PlaceInv
<1>9. DictionariesInv'
  <2>1. \A e, P : P \subseteq {"result", "append"} => (InHand(P, e)' <=> InHand(P, e))
    BY <1>1, <1>3 DEF InHand
  <2>2. ASSUME NEW e \in Executions, NEW P \in {{"popexecution"}, {"popexecution", "popresult"}}
        PROVE  Evicting(P, e)' <=> Evicting(P, e) \/ e = e1
    BY <1>1, <1>3 DEF Evicting
  <2> QED BY <1>1, <1>4, <2>1, <2>2 DEF DictionariesInv
<1>10. Busy' = Busy
  BY <1>1, <1>3 DEF Busy
<1>11. Len(order') <= History + Cardinality(Busy)'
  <2>1. Cardinality(Busy) \in Nat
    BY <1>1, <1>2, BusyCounted
  <2> QED BY <1>2, <1>4, <1>10, <2>1
<1>12. PopInv'
  BY <1>1, <1>2, <1>3, <1>4 DEF PopInv, Pair
<1> QED BY <1>6, <1>7, <1>8, <1>9, <1>11, <1>12

\* It is dropped from one dictionary,
LEMMA PopsExecution ==
    ASSUME HistoryInv, NEW c \in Callers, PopExecution(c)
    PROVE  HistoryInv'
<1> USE DEF HistoryInv
<1>1. /\ pc[c] = "popexecution" /\ pc' = [pc EXCEPT ![c] = "popresult"]
      /\ executions' = executions \ {evicted[c]}
      /\ UNCHANGED <<results, order, attempt, outcome, closed, at, evicted, answer>>
  BY DEF PopExecution, Goto, local
<1>2. pc \in [Callers -> {"idle", "call", "execution", "result", "append",
                          "check", "pop", "popexecution", "popresult", "read",
                          "clearresults", "clearorder"}]
  BY DEF TypeOK
<1>3. \A d \in Callers : pc'[d] = IF d = c THEN "popresult" ELSE pc[d]
  BY <1>1, <1>2
<1>4. Takes(c) /\ \A d \in Callers : PlaceInv(d)
  BY <1>1 DEF Takes
<1>5. TypeOK'
  BY <1>1 DEF TypeOK
<1>6. OrderInv'
  BY <1>1 DEF OrderInv
<1>7. ASSUME NEW d \in Callers PROVE PlaceInv(d)'
  <2>1. \A x \in Callers : (Holds(x)' <=> Holds(x)) /\ (Takes(x)' <=> Takes(x))
    BY <1>1, <1>3 DEF Holds, Takes
  <2> QED BY <1>1, <1>3, <1>4, <2>1 DEF PlaceInv
<1>8. DictionariesInv'
  <2>1. \A e, P : P \subseteq {"result", "append"} => (InHand(P, e)' <=> InHand(P, e))
    BY <1>1, <1>3 DEF InHand
  <2>2. \A e : Evicting({"popexecution", "popresult"}, e)' <=> Evicting({"popexecution", "popresult"}, e)
    BY <1>1, <1>3 DEF Evicting
  <2>3. \A e : Evicting({"popexecution"}, e)' <=> Evicting({"popexecution"}, e) /\ e # evicted[c]
    <3>1. \A d \in Callers \ {c} : pc[d] = "popexecution" => evicted[d] # evicted[c]
      BY <1>4 DEF PlaceInv, Takes
    <3> QED BY <1>1, <1>3, <3>1 DEF Evicting
  <2>4. evicted[c] \notin ToSet(order) /\ ~ InHand({"result", "append"}, evicted[c])
    BY <1>4 DEF PlaceInv, InHand, Holds
  <2> QED BY <1>1, <2>1, <2>2, <2>3, <2>4 DEF DictionariesInv
<1>9. Busy' = Busy
  BY <1>1, <1>3 DEF Busy
<1>10. PopInv'
  BY <1>1, <1>3 DEF PopInv, Pair
<1> QED BY <1>1, <1>5, <1>6, <1>7, <1>8, <1>9, <1>10

\* and from the other.
LEMMA PopsResult ==
    ASSUME HistoryInv, NEW c \in Callers, PopResult(c)
    PROVE  HistoryInv'
<1> USE DEF HistoryInv
<1>1. /\ pc[c] = "popresult" /\ pc' = [pc EXCEPT ![c] = "check"]
      /\ results' = results \ {evicted[c]}
      /\ UNCHANGED <<executions, order, attempt, outcome, closed, at, evicted, answer>>
  BY DEF PopResult, Goto, local
<1>2. pc \in [Callers -> {"idle", "call", "execution", "result", "append",
                          "check", "pop", "popexecution", "popresult", "read",
                          "clearresults", "clearorder"}]
  BY DEF TypeOK
<1>3. \A d \in Callers : pc'[d] = IF d = c THEN "check" ELSE pc[d]
  BY <1>1, <1>2
<1>4. Takes(c) /\ \A d \in Callers : PlaceInv(d)
  BY <1>1 DEF Takes
<1>5. TypeOK'
  BY <1>1 DEF TypeOK
<1>6. OrderInv'
  BY <1>1 DEF OrderInv
<1>7. ASSUME NEW d \in Callers PROVE PlaceInv(d)'
  <2>1. \A x \in Callers : (Holds(x)' <=> Holds(x)) /\ (Takes(x)' <=> Takes(x) /\ x # c)
    BY <1>1, <1>3 DEF Holds, Takes
  <2> QED BY <1>1, <1>3, <1>4, <2>1 DEF PlaceInv
<1>8. DictionariesInv'
  <2>1. \A e, P : P \subseteq {"result", "append"} => (InHand(P, e)' <=> InHand(P, e))
    BY <1>1, <1>3 DEF InHand
  <2>2. \A e : Evicting({"popexecution"}, e)' <=> Evicting({"popexecution"}, e)
    BY <1>1, <1>3 DEF Evicting
  <2>3. \A e : Evicting({"popexecution", "popresult"}, e)' <=>
                   Evicting({"popexecution", "popresult"}, e) /\ e # evicted[c]
    <3>1. \A d \in Callers \ {c} : pc[d] \in {"popexecution", "popresult"} => evicted[d] # evicted[c]
      BY <1>4 DEF PlaceInv, Takes
    <3> QED BY <1>1, <1>3, <3>1 DEF Evicting
  <2>4. evicted[c] \notin ToSet(order) /\ ~ InHand({"append"}, evicted[c])
    BY <1>4 DEF PlaceInv, InHand, Holds
  <2> QED BY <1>1, <2>1, <2>2, <2>3, <2>4 DEF DictionariesInv
<1>9. Busy' = Busy
  BY <1>1, <1>3 DEF Busy
<1>10. PopInv'
  BY <1>1, <1>3 DEF PopInv, Pair
<1> QED BY <1>1, <1>5, <1>6, <1>7, <1>8, <1>9, <1>10

\* The steps of close, after which neither dictionary has to agree with the list.
LEMMA Closes ==
    ASSUME HistoryInv, NEW c \in Callers,
           Close(c) \/ CloseResults(c) \/ CloseOrder(c)
    PROVE  HistoryInv'
<1> USE DEF HistoryInv
<1>1. PICK p \in {"clearresults", "clearorder", "idle"}, h \in {None, "closed"} \union {answer[c]} :
          /\ pc[c] \in {"idle", "clearresults", "clearorder"}
          /\ pc' = [pc EXCEPT ![c] = p]
          /\ answer' = [answer EXCEPT ![c] = h]
  <2>1. answer = [answer EXCEPT ![c] = answer[c]]
    BY DEF TypeOK
  <2> QED BY <2>1 DEF Close, CloseResults, CloseOrder, Enter, End, Goto, local
<1>2. /\ executions' \subseteq executions /\ results' \subseteq results
      /\ order' = order \/ order' = <<>>
      /\ UNCHANGED <<attempt, outcome>> /\ closed' = TRUE
      /\ at' = at \/ at' = [at EXCEPT ![c] = None]
      /\ evicted' = evicted \/ evicted' = [evicted EXCEPT ![c] = None]
  BY DEF Close, CloseResults, CloseOrder, Enter, End, local, PlaceInv, TypeOK
<1>3. /\ pc \in [Callers -> {"idle", "call", "execution", "result", "append",
                             "check", "pop", "popexecution", "popresult", "read",
                             "clearresults", "clearorder"}]
      /\ at \in [Callers -> Executions \union {None}] /\ evicted \in [Callers -> Executions \union {None}]
      /\ answer \in [Callers -> Answers]
      /\ order \in Seq(Executions) /\ Len(order) \in Nat /\ History \in Nat /\ IsFiniteSet(Callers)
  BY InlineAssumption DEF TypeOK
<1>4. \A d \in Callers : /\ pc'[d] = IF d = c THEN p ELSE pc[d]
                         /\ d # c => at'[d] = at[d] /\ evicted'[d] = evicted[d]
  BY <1>1, <1>2, <1>3
<1>5. order' \in Seq(Executions) /\ Len(order') \in Nat /\ Len(order') <= Len(order)
  <2>1. CASE order' = order
    BY <1>3, <2>1
  <2>2. CASE order' = <<>>
    BY <1>3, <2>2
  <2> QED BY <1>2, <2>1, <2>2
<1>6. TypeOK'
  <2>1. /\ pc' \in [Callers -> {"idle", "call", "execution", "result", "append",
                                "check", "pop", "popexecution", "popresult", "read",
                                "clearresults", "clearorder"}]
        /\ answer' \in [Callers -> Answers]
    BY <1>1, <1>3 DEF Answers
  <2>2. at' \in [Callers -> Executions \union {None}] /\ evicted' \in [Callers -> Executions \union {None}]
    BY <1>2, <1>3
  <2> QED BY <1>2, <1>5, <2>1, <2>2 DEF TypeOK
<1>7. ToSet(order') \subseteq ToSet(order)
  BY <1>2 DEF ToSet
<1>8. OrderInv'
  BY <1>2, <1>7 DEF OrderInv
<1>9. ASSUME NEW d \in Callers PROVE PlaceInv(d)'
  <2>1. \A x \in Callers : /\ Holds(x)' <=> Holds(x)
                           /\ Takes(x)' <=> Takes(x)
                           /\ Holds(x) \/ Takes(x) => x # c
    BY <1>1, <1>4 DEF Holds, Takes
  <2>2. PlaceInv(d)
    OBVIOUS
  <2>3. CASE d = c
    BY <1>2, <1>4, <2>1, <2>3 DEF PlaceInv
  <2>4. CASE d # c
    BY <1>2, <1>4, <1>7, <2>1, <2>2, <2>4 DEF PlaceInv
  <2> QED BY <2>3, <2>4
<1>10. Len(order') <= History + Cardinality(Busy)'
  <2>1. c \notin Busy
    BY <1>1 DEF Busy
  <2>2. /\ Cardinality(Busy) \in Nat /\ Cardinality(Busy)' \in Nat
        /\ Cardinality(Busy)' >= Cardinality(Busy)
    BY <1>1, <1>3, <2>1, BusyCounted
  <2> QED BY <1>3, <1>5, <2>2
<1>11. DictionariesInv' /\ PopInv'
  BY <1>2 DEF DictionariesInv, PopInv
<1> QED BY <1>6, <1>8, <1>9, <1>10, <1>11

\* submit, its callable, the condition of the loop, the IndexError; get and result.
LEMMA Submits ==
    ASSUME HistoryInv, NEW c \in Callers, NEW e \in Executions, Submit(c, e)
    PROVE  HistoryInv'
<1>1. TypeOK
  BY DEF HistoryInv
<1>2. /\ pc[c] = "idle" /\ pc' = [pc EXCEPT ![c] = "call"] /\ at' = [at EXCEPT ![c] = e]
      /\ evicted' = [evicted EXCEPT ![c] = evicted[c]] /\ answer' = [answer EXCEPT ![c] = None]
      /\ attempt' = [attempt EXCEPT ![e] = 1] /\ attempt[e] = 0
      /\ UNCHANGED <<executions, results, order, outcome, closed>>
  BY <1>1 DEF Submit, Enter, Goto, history, TypeOK
<1>3. attempt' \in [Executions -> Nat] /\ attempt'[e] > 0 /\ \A f \in Executions : attempt'[f] >= attempt[f]
  BY <1>1, <1>2 DEF TypeOK
<1>4. evicted[c] \in Executions \union {None} /\ None \in Answers /\ None # "IndexError"
  BY <1>1 DEF TypeOK, Answers, None
<1>5. outcome' \in [Executions -> {None, "value", "error"}]
  BY <1>1, <1>2 DEF TypeOK
<1> QED BY <1>2, <1>3, <1>4, <1>5, CallerMoves

\* The callable returns, raises, or lets an interrupt through.
LEMMA Runs ==
    ASSUME HistoryInv, NEW c \in Callers, Running(c)
    PROVE  HistoryInv'
<1>1. TypeOK /\ PlaceInv(c)
  BY DEF HistoryInv
<1>2. pc[c] = "call" /\ UNCHANGED <<executions, results, order, closed>>
  BY DEF Running, CallReturns, CallRaises, CallEscapes, history
<1>3. at[c] \in Executions /\ attempt[at[c]] > 0
  BY <1>1, <1>2 DEF PlaceInv, Holds
<1>4. PICK p \in {"idle", "call", "execution"}, a \in {None, at[c]}, v \in {None, evicted[c]},
           h \in {answer[c], "submitted", "escaped"} :
          /\ pc' = [pc EXCEPT ![c] = p] /\ at' = [at EXCEPT ![c] = a]
          /\ evicted' = [evicted EXCEPT ![c] = v] /\ answer' = [answer EXCEPT ![c] = h]
          /\ p \in {"call", "execution"} => a = at[c]
          /\ p = "execution" => History # 0
  <2>1. /\ pc = [pc EXCEPT ![c] = "call"] /\ at = [at EXCEPT ![c] = at[c]]
        /\ evicted = [evicted EXCEPT ![c] = evicted[c]] /\ answer = [answer EXCEPT ![c] = answer[c]]
    BY <1>1, <1>2 DEF TypeOK
  <2> QED BY <2>1 DEF Running, CallReturns, CallRaises, CallEscapes, Finish, End, Goto, local
<1>5. /\ attempt' \in [Executions -> Nat] /\ attempt'[at[c]] > 0
      /\ \A f \in Executions : attempt'[f] >= attempt[f]
  <2>1. attempt' = attempt \/ attempt' = [attempt EXCEPT ![at[c]] = @ + 1]
    BY DEF Running, CallReturns, CallRaises, CallEscapes
  <2>2. attempt \in [Executions -> Nat]
    BY <1>1 DEF TypeOK
  <2> QED BY <1>3, <2>1, <2>2
<1>6. outcome' \in [Executions -> {None, "value", "error"}]
  <2>1. outcome' = outcome \/ \E how \in {"value", "error"} : outcome' = [outcome EXCEPT ![at[c]] = how]
    BY DEF Running, CallReturns, CallRaises, CallEscapes, Finish
  <2> QED BY <1>1, <2>1 DEF TypeOK
<1>7. /\ a \in Executions \union {None} /\ v \in Executions \union {None} /\ h \in Answers
      /\ Pair /\ ~ closed => h # "IndexError"
      /\ p = "execution" => History > 0
  BY <1>1, <1>4, InlineAssumption DEF TypeOK, Answers, HistoryInv, PopInv
<1> QED BY <1>2, <1>3, <1>4, <1>5, <1>6, <1>7, CallerMoves

\* The condition of the loop that evicts.
LEMMA Checks ==
    ASSUME HistoryInv, NEW c \in Callers,
           CheckLength(c) \/ (PopOrder(c) /\ order = <<>>)
    PROVE  HistoryInv'
<1>1. /\ TypeOK /\ PlaceInv(c) /\ attempt \in [Executions -> Nat]
      /\ outcome \in [Executions -> {None, "value", "error"}] /\ History \in Nat
      /\ at[c] \in Executions \union {None} /\ evicted[c] \in Executions \union {None}
      /\ answer[c] \in Answers /\ None \in Executions \union {None}
  BY InlineAssumption DEF HistoryInv, TypeOK
<1>2. /\ pc[c] \in {"check", "pop"} /\ UNCHANGED <<executions, results, order, closed, attempt, outcome>>
  BY DEF CheckLength, PopOrder, End, history
<1>3. \A f \in Executions : attempt'[f] >= attempt[f]
  BY <1>1, <1>2
<1>4. CASE CheckLength(c) /\ Len(order) > History
  <2>1. pc' = [pc EXCEPT ![c] = "pop"] /\ Len(order) > History
    BY <1>1, <1>4 DEF CheckLength, Goto
  <2>2. /\ at' = [at EXCEPT ![c] = at[c]] /\ evicted' = [evicted EXCEPT ![c] = evicted[c]]
        /\ answer' = [answer EXCEPT ![c] = answer[c]]
    BY <1>1, <1>4 DEF CheckLength, local, TypeOK
  <2>3. Pair /\ ~ closed => answer[c] # "IndexError"
    BY DEF HistoryInv, PopInv
  <2>4. History > 0
    BY <1>1, <1>4 DEF CheckLength, PlaceInv
  <2> QED BY <1>1, <1>2, <1>3, <2>1, <2>2, <2>3, <2>4, CallerMoves
<1>5. CASE CheckLength(c) /\ ~ (Len(order) > History)
  <2>1. End(c, "submitted") /\ Len(order) <= History
    BY <1>5 DEF CheckLength
  <2>2. "submitted" \in Answers
    BY DEF Answers
  <2> QED BY <1>1, <1>2, <1>3, <2>1, <2>2, CallerMoves DEF End, Goto
<1>6. CASE PopOrder(c) /\ order = <<>>
  <2>1. End(c, "IndexError") /\ pc[c] = "pop"
    BY <1>6 DEF PopOrder
  <2>2. "IndexError" \in Answers /\ Len(order) = 0 /\ Len(order) <= History
    BY <1>1, <1>6 DEF Answers
  <2>3. ~ (Pair /\ ~ closed)
    BY <1>1, <2>1, <2>2 DEF HistoryInv, PopInv, PlaceInv
  <2> QED BY <1>1, <1>2, <1>3, <2>1, <2>2, <2>3, CallerMoves DEF End, Goto
<1> QED BY <1>4, <1>5, <1>6

\* get and result only look.
LEMMA Reads ==
    ASSUME HistoryInv, NEW c \in Callers, NEW e \in Executions,
           Get(c, e) \/ ResultKnown(c, e) \/ ResultUnknown(c, e) \/ ResultRead(c)
    PROVE  HistoryInv'
<1>1. /\ TypeOK /\ PlaceInv(c) /\ attempt \in [Executions -> Nat]
      /\ outcome \in [Executions -> {None, "value", "error"}]
      /\ None \in Executions \union {None} /\ evicted[c] \in Executions \union {None}
  BY DEF HistoryInv, TypeOK
<1>2. /\ pc[c] \in {"idle", "read"} /\ UNCHANGED <<executions, results, order, closed, attempt, outcome>>
  BY DEF Get, ResultKnown, ResultUnknown, ResultRead, Enter, history
<1>3. \A f \in Executions : attempt'[f] >= attempt[f]
  BY <1>1, <1>2
<1>4. CASE ResultKnown(c, e)
  <2>1. /\ pc' = [pc EXCEPT ![c] = "read"] /\ at' = [at EXCEPT ![c] = e]
        /\ evicted' = [evicted EXCEPT ![c] = evicted[c]] /\ answer' = [answer EXCEPT ![c] = None]
    BY <1>1, <1>4 DEF ResultKnown, Enter, Goto, TypeOK
  <2>2. None \in Answers /\ None # "IndexError"
    BY DEF Answers, None
  <2> QED BY <1>1, <1>2, <1>3, <2>1, <2>2, CallerMoves
<1>5. CASE ~ ResultKnown(c, e)
  <2>1. PICK h \in Answers \ {"IndexError"} : End(c, h)
    <3>1. pc[c] = "read" => outcome[at[c]] \in {None, "value", "error"}
      BY <1>1 DEF PlaceInv
    <3> QED BY <1>5, <3>1 DEF Get, ResultUnknown, ResultRead, Answers, None
  <2> QED BY <1>1, <1>2, <1>3, <2>1, CallerMoves DEF End, Goto
<1> QED BY <1>4, <1>5

-----------------------------------------------------------------------------
\* The initial state satisfies the invariant.
LEMMA HistoryStarts ==
    ASSUME Init
    PROVE  HistoryInv
<1>1. TypeOK
  <2>1. order \in Seq(Executions) /\ None \in Answers
    BY DEF Init, Answers
  <2> QED BY <2>1 DEF Init, TypeOK
<1>2. OrderInv
  BY DEF Init, OrderInv, ToSet
<1>3. \A c \in Callers : PlaceInv(c)
  BY DEF Init, PlaceInv, Holds, Takes
<1>4. DictionariesInv
  BY DEF Init, DictionariesInv, InHand, Evicting, ToSet
<1>5. Len(order) <= History + Cardinality(Busy)
  <2>1. Busy = {}
    BY DEF Init, Busy
  <2>2. Cardinality(Busy) = 0 /\ Len(order) = 0
    BY <2>1, FS_EmptySet DEF Init
  <2> QED BY <2>2, InlineAssumption
<1>6. PopInv
  BY DEF Init, PopInv, None
<1> QED BY <1>1, <1>2, <1>3, <1>4, <1>5, <1>6 DEF HistoryInv

\* Every step keeps it.
LEMMA HistoryKept ==
    ASSUME HistoryInv, [Next]_vars
    PROVE  HistoryInv'
<1>1. CASE Next
  <2>1. PICK c \in Callers :
            \/ \E e \in Executions :
                   Submit(c, e) \/ Get(c, e) \/ ResultKnown(c, e) \/ ResultUnknown(c, e)
            \/ Running(c)
            \/ Remembering(c)
            \/ ResultRead(c)
            \/ Close(c) \/ CloseResults(c) \/ CloseOrder(c)
    BY <1>1 DEF Next
  <2>2. CASE \E e \in Executions : Submit(c, e)
    BY <2>2, Submits
  <2>3. CASE \E e \in Executions : Get(c, e) \/ ResultKnown(c, e) \/ ResultUnknown(c, e)
    BY <2>3, Reads
  <2>4. CASE ResultRead(c)
    <3>1. at[c] \in Executions
      BY <2>4 DEF ResultRead, HistoryInv, PlaceInv
    <3> QED BY <2>4, <3>1, Reads
  <2>5. CASE Running(c)
    BY <2>5, Runs
  <2>6. CASE Remembering(c)
    <3>1. CASE CheckLength(c) \/ PopOrder(c)
      BY <3>1, Checks, Pops
    <3>2. CASE ~ (CheckLength(c) \/ PopOrder(c))
      BY <2>6, <3>2, RemembersExecution, RemembersResult, Appends, PopsExecution, PopsResult
         DEF Remembering
    <3> QED BY <3>1, <3>2
  <2>7. CASE Close(c) \/ CloseResults(c) \/ CloseOrder(c)
    BY <2>7, Closes
  <2> QED BY <2>1, <2>2, <2>3, <2>4, <2>5, <2>6, <2>7
<1>2. CASE UNCHANGED vars
  BY <1>2 DEF vars, HistoryInv, TypeOK, OrderInv, PlaceInv, Holds, Takes, DictionariesInv, InHand,
              Evicting, Busy, PopInv, Pair
<1> QED BY <1>1, <1>2

\* Type correctness of the inline backend.
THEOREM TypeCorrect == Spec => []TypeOK
<1>1. Init => HistoryInv
  BY HistoryStarts
<1>2. HistoryInv /\ [Next]_vars => HistoryInv'
  BY HistoryKept
<1>3. HistoryInv => TypeOK
  BY DEF HistoryInv
<1> QED BY <1>1, <1>2, <1>3, PTL DEF Spec

\* It implies the property.
LEMMA Consistent ==
    ASSUME HistoryInv
    PROVE  HistoryIsConsistent
<1>1. TypeOK /\ OrderInv /\ (\A c \in Callers : PlaceInv(c)) /\ DictionariesInv /\ PopInv
  BY DEF HistoryInv
<1>2. History \in Nat /\ IsFiniteSet(Callers)
  BY InlineAssumption
<1>3. HistoryAgrees
  <2> SUFFICES ASSUME AtRest, ~ closed
               PROVE  executions = ToSet(order) /\ results = ToSet(order) /\ Len(order) <= History
    BY DEF HistoryAgrees
  <2>1. \A e, P : P \subseteq {"result", "append", "popexecution", "popresult"} =>
            ~ InHand(P, e) /\ ~ Evicting(P, e)
    BY DEF AtRest, InHand, Evicting
  <2>2. \A e \in Executions : (e \in executions <=> e \in ToSet(order))
                              /\ (e \in results <=> e \in ToSet(order))
    BY <1>1, <2>1 DEF DictionariesInv
  <2>3. ToSet(order) \subseteq Executions /\ executions \subseteq Executions /\ results \subseteq Executions
    BY <1>1 DEF TypeOK, ToSet
  <2>4. Busy = {}
    BY DEF AtRest, Busy
  <2>5. Len(order) <= History + 0
    BY <2>4, FS_EmptySet DEF HistoryInv
  <2>6. executions = ToSet(order) /\ results = ToSet(order)
    BY <2>2, <2>3
  <2>7. Len(order) \in Nat
    BY <1>1 DEF TypeOK
  <2> QED BY <1>2, <2>5, <2>6, <2>7
<1>4. OverflowIsBounded
  BY DEF HistoryInv, OverflowIsBounded, Busy
<1>5. ResultsFollowExecutions
  <2> SUFFICES ASSUME NEW e \in executions \ results, ~ closed
               PROVE  \E c \in Callers : at[c] = e /\ pc[c] = "result"
    BY DEF ResultsFollowExecutions
  <2>1. e \in Executions
    BY <1>1 DEF TypeOK
  <2>2. /\ InHand({"result", "append"}, e) \/ Evicting({"popexecution"}, e)
        /\ ~ InHand({"append"}, e) /\ ~ Evicting({"popexecution", "popresult"}, e)
    BY <1>1, <2>1 DEF DictionariesInv
  <2> QED BY <2>2 DEF InHand, Evicting
<1>6. SubmitNeverBreaks
  <2> SUFFICES ASSUME Cardinality(Callers) <= 2, ~ closed, NEW c \in Callers
               PROVE  answer[c] # "IndexError"
    BY DEF SubmitNeverBreaks
  <2>1. Pair
    <3> SUFFICES ASSUME NEW x \in Callers, NEW y \in Callers, NEW z \in Callers,
                        x # y, x # z, y # z
                 PROVE  FALSE
      BY DEF Pair
    <3> DEFINE two == {x} \union {y}
               three == two \union {z}
    <3>1. IsFiniteSet({x}) /\ Cardinality({x}) = 1
      BY FS_Singleton
    <3>2. IsFiniteSet(two) /\ Cardinality(two) = 2
      BY <3>1, FS_AddElement
    <3>3. z \notin two /\ three \subseteq Callers
      OBVIOUS
    <3> HIDE DEF two
    <3>4. Cardinality(three) = 3
      BY <3>2, <3>3, FS_AddElement
    <3> HIDE DEF three
    <3>5. Cardinality(three) <= Cardinality(Callers) /\ Cardinality(Callers) \in Nat
      BY <1>2, <3>3, FS_Subset, FS_CardinalityType
    <3> QED BY <3>4, <3>5
  <2> QED BY <1>1, <2>1 DEF PopInv
<1> QED BY <1>3, <1>4, <1>5, <1>6 DEF HistoryIsConsistent

\* Whatever number of threads submit, close and ask for results, however their
\* unlocked steps on the three structures of inline.py interleave: at rest the
\* structures agree and keep to the bound, in between the history is over it by
\* no more than the threads that work on it, only a submit under way leaves an
\* execution without its result, and two threads never pop an empty list.
THEOREM HistoryCorrect == Spec => []HistoryIsConsistent
<1>1. Init => HistoryInv
  BY HistoryStarts
<1>2. HistoryInv /\ [Next]_vars => HistoryInv'
  BY HistoryKept
<1>3. HistoryInv => HistoryIsConsistent
  BY Consistent
<1> QED BY <1>1, <1>2, <1>3, PTL DEF Spec

-----------------------------------------------------------------------------
(* The handle.  What its properties rest on is that a snapshot of an        *)
(* execution the backend will not touch again is the backend's record,      *)
(* wherever a copy of it is held: in the cache, in a call under way, in a   *)
(* caller's hands.                                                          *)

\* What is true of every copy of a snapshot.
Genuine(x) ==
    /\ x.epoch <= real.epoch
    /\ IsTerminal(x) =>
          x = real \/ TakenBack(x) \/ (Deleted(x) /\ x.epoch = real.epoch)

\* Each backend has cancel steps of its own, and none marks an entry before its
\* future is past stopping.
PositionOK(c) ==
    /\ doing[c] \in {"stop", "mark"} => backend \in Pools
    /\ doing[c] = "mark" => future # "pending"
    /\ doing[c] = "delete" => backend = "kubernetes"

\* What is true of each caller.
HolderOK(c) ==
    /\ Genuine(fetched[c])
    /\ Genuine(returned[c])
    /\ began[c] <= real.epoch
    /\ PositionOK(c)
    /\ doing[c] = "store" => fetched[c] \in Snapshot /\ fetched[c].epoch >= began[c]
    /\ doing[c] = "idle" /\ returned[c] # NoSnapshot
         => returned[c].epoch >= began[c] \/ TakenBack(returned[c])

\* What a future says of the record: a cancel that has stopped one finds the
\* entry QUEUED, or CANCELLED by another.
FutureInv ==
    /\ future = "none" <=> backend \notin Pools
    /\ future = "pending" => real.state = "queued"
    /\ future = "stopped" => real.state \in {"queued", "cancelled"}

HandleInv ==
    /\ HandleTypeOK
    /\ FutureInv
    /\ Genuine(cached)
    /\ \A c \in Holders : HolderOK(c)

-----------------------------------------------------------------------------

\* The initial state satisfies the invariant.
LEMMA HandleStarts == HandleInit => HandleInv
<1> SUFFICES ASSUME HandleInit PROVE HandleInv
  OBVIOUS
<1>1. /\ real \in Snapshot /\ real.epoch = 0 /\ real.state \in {"queued", "running"}
      /\ backend # "subprocess" => real.state = "queued"
      /\ NoSnapshot.epoch = 0 /\ NoSnapshot.state \notin Terminal
  BY DEF HandleInit, Snapshot, NoSnapshot, State, Terminal, Absent
<1>2. HandleTypeOK
  <2>1. future \in {"none", "pending", "running", "stopped", "done"} /\ undone = {}
    BY DEF HandleInit
  <2>2. /\ doing \in [Holders -> {"idle", "get", "wait", "result", "check", "cancel",
                                "stop", "mark", "delete", "store"}]
        /\ fetched \in [Holders -> Snapshot \union {NoSnapshot}]
        /\ began \in [Holders -> Nat]
        /\ returned \in [Holders -> Snapshot \union {NoSnapshot}]
    BY DEF HandleInit
  <2>3. backend \in Backends /\ cached \in Snapshot
    BY <1>1 DEF HandleInit
  <2>4. gone \in BOOLEAN
    BY DEF HandleInit
  <2>5. retries \in 0 .. MaxRetries
    BY HandleAssumption DEF HandleInit
  <2> QED
    BY <1>1, <2>1, <2>2, <2>3, <2>4, <2>5 DEF HandleTypeOK
<1>3. FutureInv
  BY <1>1 DEF HandleInit, FutureInv, Pools
<1>4. Genuine(cached)
  BY <1>1 DEF HandleInit, Genuine, IsTerminal, Terminal
<1>5. Genuine(NoSnapshot)
  BY <1>1 DEF Genuine, IsTerminal
<1>6. ASSUME NEW c \in Holders PROVE HolderOK(c)
  BY <1>1, <1>5 DEF HandleInit, HolderOK, PositionOK
<1> QED
  BY <1>2, <1>3, <1>4, <1>6 DEF HandleInv

\* The table of execution.py only leads from states to states.
LEMMA AllowedType == ASSUME NEW s \in State PROVE Allowed(s) \subseteq State
BY DEF Allowed, State, Terminal

\* How the backend's record moves in any step, a caller's or an engine's: it
\* leaves an end only if that is one it may go on from, and then it says so.
RecordMoves ==
    /\ backend' = backend
    /\ real' \in Snapshot
    /\ undone \subseteq undone' /\ undone' \subseteq Snapshot
    /\ gone' \in BOOLEAN /\ (gone => gone')
    /\ retries' \in 0 .. MaxRetries
    /\ future # "pending" => future' # "pending"
    /\ \/ real' = real
       \/ /\ real'.epoch = real.epoch + 1
          /\ gone => backend # "kubernetes"
          /\ IsTerminal(real) => real \in undone' /\ real.state \in Undoable

\* The record becomes CANCELLED, or is so already.
LEMMA CancelledMoves ==
    ASSUME HandleTypeOK, Cancelled, ~ IsTerminal(real) \/ real.state = "cancelled",
           gone => backend # "kubernetes",
           UNCHANGED <<backend, future, undone, gone, retries>>
    PROVE  RecordMoves /\ real'.state = "cancelled"
<1>1. real \in Snapshot /\ real.epoch \in Nat /\ real.epoch + 1 \in Nat
      /\ "cancelled" \in State
  BY DEF HandleTypeOK, Snapshot, State
<1>2. CASE real.state = "cancelled"
  BY <1>1, <1>2 DEF HandleTypeOK, Cancelled, RecordMoves
<1>3. CASE real.state # "cancelled"
  <2>1. real' = [state |-> "cancelled", epoch |-> real.epoch + 1]
    BY <1>3 DEF Cancelled, Becomes
  <2>2. real' \in Snapshot /\ real'.epoch = real.epoch + 1 /\ real'.state = "cancelled"
    BY <1>1, <2>1 DEF Snapshot
  <2> QED
    BY <1>3, <2>2 DEF HandleTypeOK, RecordMoves
<1> QED
  BY <1>2, <1>3

\* The engines' steps.
LEMMA EngineStep ==
    ASSUME HandleInv, EngineNext
    PROVE  /\ RecordMoves /\ FutureInv'
           /\ future' \in {"none", "pending", "running", "stopped", "done"}
           /\ UNCHANGED <<cached, doing, fetched, began, returned>>
<1>1. /\ real \in Snapshot /\ real.epoch \in Nat /\ real.epoch + 1 \in Nat
      /\ real.state \in State /\ HandleTypeOK /\ FutureInv
  BY DEF HandleInv, HandleTypeOK, Snapshot
<1>2. ASSUME NEW s \in State, Becomes(s)
      PROVE  real' \in Snapshot /\ real'.epoch = real.epoch + 1 /\ real'.state = s
  BY <1>1, <1>2 DEF Becomes, Snapshot
<1>3. CASE PickUp
  BY <1>1, <1>3 DEF PickUp, callerVars, HandleTypeOK, RecordMoves, FutureInv
<1>4. CASE Advance
  <2>1. PICK s \in Allowed(real.state) :
            /\ Becomes(s)
            /\ future' = IF future = "running" /\ s \in Terminal THEN "done" ELSE future
    BY <1>4 DEF Advance
  <2>2. s \in State
    BY <1>1, <2>1, AllowedType
  <2>3. real' \in Snapshot /\ real'.epoch = real.epoch + 1
    BY <1>2, <2>1, <2>2
  <2>4. RecordMoves
    BY <1>1, <1>4, <2>3 DEF Advance, HandleTypeOK, RecordMoves
  <2>5. future \in {"none", "running"} /\ backend' = backend
    BY <1>1, <1>4 DEF Advance, FutureInv
  <2>6. FutureInv' /\ future' \in {"none", "running", "done"}
    BY <1>1, <2>1, <2>5 DEF FutureInv, Pools
  <2> QED
    BY <1>4, <2>4, <2>6 DEF Advance, callerVars
<1>5. CASE Retry
  <2>1. PICK s \in State \ {real.state} : Becomes(s)
    BY <1>5 DEF Retry
  <2>2. real' \in Snapshot /\ real'.epoch = real.epoch + 1
    BY <1>2, <2>1
  <2>3. retries' \in 0 .. MaxRetries
    BY <1>1, <1>5, HandleAssumption DEF Retry, HandleTypeOK
  <2>4. RecordMoves
    BY <1>1, <1>5, <2>2, <2>3 DEF Retry, HandleTypeOK, RecordMoves
  <2>5. backend \in {"broker", "kubernetes"}
    BY <1>5 DEF Retry, Undoable
  <2>6. future = "none" /\ future' = future /\ backend' = backend
    BY <1>1, <1>5, <2>5 DEF Retry, FutureInv, Pools
  <2> QED
    BY <1>1, <1>5, <2>4, <2>6 DEF Retry, FutureInv, callerVars
<1>6. CASE Leave
  <2>1. future' = "done" /\ backend = "thread" /\ backend' = backend
        /\ UNCHANGED <<gone, retries>>
    BY <1>6 DEF Leave
  <2>2. FutureInv'
    BY <2>1 DEF FutureInv, Pools
  <2>3. RecordMoves
    <3>1. CASE UNCHANGED <<real, undone>>
      BY <1>1, <2>1, <3>1 DEF HandleTypeOK, RecordMoves
    <3>2. CASE ~ UNCHANGED <<real, undone>>
      <4>1. /\ undone' = undone \union {real}
            /\ \E s \in {"succeeded", "failed"} \intersect Reports : Becomes(s)
        BY <1>6, <3>2 DEF Leave
      <4>2. PICK s \in {"succeeded", "failed"} : Becomes(s)
        BY <4>1
      <4>3. real' \in Snapshot /\ real'.epoch = real.epoch + 1
        BY <1>2, <4>2 DEF State
      <4>4. real.state \in Undoable
        BY <1>6 DEF Leave, Undoable
      <4> QED
        BY <1>1, <2>1, <4>1, <4>3, <4>4 DEF HandleTypeOK, RecordMoves
    <3> QED
      BY <3>1, <3>2
  <2> QED
    BY <1>6, <2>1, <2>2, <2>3 DEF Leave, callerVars
<1> QED
  BY <1>3, <1>4, <1>5, <1>6 DEF EngineNext

\* Such a step keeps every genuine snapshot genuine, and what was taken back
\* stays so.
LEMMA GenuineKept ==
    ASSUME HandleTypeOK, RecordMoves, NEW x \in Snapshot \union {NoSnapshot}, Genuine(x)
    PROVE  /\ Genuine(x)'
           /\ TakenBack(x) => TakenBack(x)'
           /\ real'.epoch >= real.epoch
<1>1. x.epoch \in Nat /\ real.epoch \in Nat
  BY DEF Snapshot, NoSnapshot, HandleTypeOK
<1>2. TakenBack(x) => TakenBack(x)'
  BY DEF RecordMoves, TakenBack, Undoable
<1>3. CASE real' = real
  BY <1>1, <1>2, <1>3 DEF RecordMoves, Genuine, IsTerminal, Deleted
<1>4. CASE real' # real
  <2>1. /\ real'.epoch = real.epoch + 1
        /\ gone => backend # "kubernetes"
        /\ IsTerminal(real) => real \in undone' /\ real.state \in Undoable
    BY <1>4 DEF RecordMoves
  <2>2. IsTerminal(x) => TakenBack(x)'
    <3>1. ~ Deleted(x)
      BY <2>1 DEF Deleted
    <3>3. IsTerminal(x) => x = real \/ TakenBack(x)
      BY <3>1 DEF Genuine
    <3>4. CASE IsTerminal(x) /\ x = real
      BY <2>1, <3>4 DEF RecordMoves, TakenBack, Undoable
    <3>5. CASE IsTerminal(x) /\ TakenBack(x)
      BY <1>2, <3>5
    <3> QED
      BY <3>3, <3>4, <3>5
  <2>3. x.epoch <= real.epoch
    BY DEF Genuine
  <2>4. x.epoch <= real'.epoch /\ real'.epoch >= real.epoch
    BY <1>1, <2>1, <2>3
  <2> QED
    BY <1>2, <2>2, <2>4 DEF Genuine, IsTerminal
<1> QED
  BY <1>3, <1>4

\* A caller whose variables are left alone is as it was.
LEMMA HolderFrame ==
    ASSUME HandleInv, RecordMoves, NEW c \in Holders,
           doing'[c] = doing[c], fetched'[c] = fetched[c], began'[c] = began[c],
           returned'[c] = returned[c]
    PROVE  HolderOK(c)'
<1>1. /\ HolderOK(c) /\ HandleTypeOK
      /\ fetched[c] \in Snapshot \union {NoSnapshot}
      /\ returned[c] \in Snapshot \union {NoSnapshot}
      /\ began[c] \in Nat /\ real.epoch \in Nat /\ real'.epoch \in Nat
  BY DEF HandleInv, HandleTypeOK, RecordMoves, Snapshot
<1>2. /\ Genuine(fetched[c]) /\ Genuine(returned[c]) /\ began[c] <= real.epoch
      /\ PositionOK(c)
      /\ doing[c] = "store" => fetched[c] \in Snapshot /\ fetched[c].epoch >= began[c]
      /\ doing[c] = "idle" /\ returned[c] # NoSnapshot
           => returned[c].epoch >= began[c] \/ TakenBack(returned[c])
  BY <1>1 DEF HolderOK
<1>3. PICK g, h \in Snapshot \union {NoSnapshot} : g = fetched[c] /\ h = returned[c]
  BY <1>1
<1>4. Genuine(g) /\ Genuine(h)
  BY <1>2, <1>3 DEF Genuine, IsTerminal, TakenBack, Deleted
<1>5. Genuine(g)' /\ Genuine(h)' /\ (TakenBack(h) => TakenBack(h)')
      /\ real'.epoch >= real.epoch
  BY <1>1, <1>4, GenuineKept
<1>6. fetched'[c] = g /\ returned'[c] = h /\ doing'[c] = doing[c] /\ began'[c] = began[c]
      /\ backend' = backend
  BY <1>3 DEF RecordMoves
<1>7. Genuine(fetched[c])' /\ Genuine(returned[c])'
  BY <1>5, <1>6 DEF Genuine, IsTerminal, TakenBack, Deleted
<1>8. TakenBack(returned[c]) => TakenBack(returned[c])'
  BY <1>3, <1>5, <1>6 DEF TakenBack
<1>9. began'[c] <= real'.epoch
  BY <1>1, <1>2, <1>5, <1>6
<1>10. PositionOK(c)'
  BY <1>2, <1>6 DEF RecordMoves, PositionOK, Pools
<1> QED
  BY <1>2, <1>3, <1>6, <1>7, <1>8, <1>9, <1>10 DEF HolderOK

\* What a caller that steps leaves of the invariant to be shown: its own part of
\* it, and that of what it has written to the cache.
LEMMA CallerStep ==
    ASSUME HandleInv, RecordMoves, FutureInv', NEW c \in Holders,
           future' \in {"none", "pending", "running", "stopped", "done"},
           cached' \in Snapshot, Genuine(cached)',
           doing' \in [Holders -> {"idle", "get", "wait", "result", "check", "cancel",
                                  "stop", "mark", "delete", "store"}],
           fetched' \in [Holders -> Snapshot \union {NoSnapshot}],
           began' \in [Holders -> Nat],
           returned' \in [Holders -> Snapshot \union {NoSnapshot}],
           \A d \in Holders \ {c} :
               /\ doing'[d] = doing[d] /\ fetched'[d] = fetched[d]
               /\ began'[d] = began[d] /\ returned'[d] = returned[d],
           HolderOK(c)'
    PROVE  HandleInv'
<1>1. HandleTypeOK'
  BY DEF HandleInv, HandleTypeOK, RecordMoves
<1>2. ASSUME NEW d \in Holders PROVE HolderOK(d)'
  BY HolderFrame
<1> QED
  BY <1>1, <1>2 DEF HandleInv

\* The cache is left alone: what is in it stays genuine.
LEMMA CacheFrame ==
    ASSUME HandleInv, RecordMoves, cached' = cached
    PROVE  cached' \in Snapshot /\ Genuine(cached)'
<1>1. PICK x \in Snapshot : x = cached
  BY DEF HandleInv, HandleTypeOK
<1>2. HandleTypeOK /\ Genuine(x)
  BY <1>1 DEF HandleInv, Genuine, IsTerminal, TakenBack, Deleted
<1>3. Genuine(x)' /\ cached' = x
  BY <1>1, <1>2, GenuineKept
<1> QED
  BY <1>3 DEF Genuine, IsTerminal, TakenBack, Deleted

\* A step that leaves the engine alone is one of the moves of the record.
LEMMA StillMoves ==
    ASSUME HandleInv, UNCHANGED engineVars
    PROVE  /\ RecordMoves /\ FutureInv' /\ UNCHANGED <<backend, real, undone, gone>>
           /\ future' \in {"none", "pending", "running", "stopped", "done"}
BY DEF HandleInv, HandleTypeOK, engineVars, RecordMoves, FutureInv

\* An exception leaves a caller with no snapshot, which is genuine.
LEMMA NothingIsGenuine ==
    ASSUME HandleTypeOK
    PROVE  /\ Genuine(NoSnapshot) /\ NoSnapshot.epoch = 0
           /\ NoSnapshot.state \notin Terminal
<1>1. NoSnapshot.epoch = 0 /\ NoSnapshot.state \notin Terminal
  BY DEF NoSnapshot, Terminal, Absent
<1>2. real.epoch \in Nat
  BY DEF HandleTypeOK, Snapshot
<1> QED
  BY <1>1, <1>2 DEF Genuine, IsTerminal

\* The first critical section: a terminal snapshot in the cache is an answer
\* that satisfies a caller that began in epoch b.
LEMMA CacheAnswers ==
    ASSUME HandleInv, IsTerminal(cached), NEW b \in Nat, b <= real.epoch
    PROVE  cached.epoch >= b \/ TakenBack(cached)
BY DEF HandleInv, HandleTypeOK, Genuine, IsTerminal, Snapshot

LEMMA FirstSection ==
    ASSUME HandleInv, UNCHANGED <<engineVars, cached, fetched>>,
           NEW c \in Holders, NEW n \in {"get", "wait"},
           FromCacheOr(c, n), began' \in [Holders -> Nat],
           \A d \in Holders \ {c} : began'[d] = began[d],
           began'[c] <= real.epoch
    PROVE  HandleInv'
<1>t. HandleTypeOK
  BY DEF HandleInv
<1>1. /\ doing' \in [Holders -> {"idle", "get", "wait", "result", "check", "cancel",
                                "stop", "mark", "delete", "store"}]
      /\ returned' \in [Holders -> Snapshot \union {NoSnapshot}]
      /\ \/ doing'[c] = "idle" /\ IsTerminal(cached) /\ returned'[c] = cached
         \/ doing'[c] = n /\ returned'[c] = NoSnapshot
      /\ \A d \in Holders \ {c} : doing'[d] = doing[d] /\ returned'[d] = returned[d]
  BY <1>t DEF HandleTypeOK, FromCacheOr, Answer, Ask
<1>2. /\ RecordMoves /\ FutureInv' /\ UNCHANGED <<backend, real, undone, gone>>
      /\ future' \in {"none", "pending", "running", "stopped", "done"}
  BY StillMoves
<1>3. cached' \in Snapshot /\ Genuine(cached)'
  BY <1>2, CacheFrame
<1>4. HolderOK(c)'
  <2>1. Genuine(fetched[c])'
    BY <1>2 DEF HandleInv, HolderOK, Genuine, IsTerminal, TakenBack, Deleted, Undoable
  <2>2. began'[c] <= real'.epoch /\ began'[c] \in Nat
    BY <1>2
  <2>3. CASE doing'[c] = "idle" /\ IsTerminal(cached) /\ returned'[c] = cached
    <3>1. Genuine(returned[c])'
      BY <1>3, <2>3 DEF Genuine, IsTerminal, TakenBack, Deleted
    <3>2. cached.epoch >= began'[c] \/ TakenBack(cached)
      BY <2>2, <2>3, CacheAnswers
    <3>3. TakenBack(cached) => TakenBack(returned[c])'
      BY <1>2, <2>3 DEF TakenBack, Undoable
    <3> QED
      BY <2>1, <2>2, <2>3, <3>1, <3>2, <3>3 DEF HolderOK, PositionOK
  <2>4. CASE doing'[c] = n /\ returned'[c] = NoSnapshot
    <3>1. Genuine(returned[c])'
      BY <1>t, <1>2, <2>4, NothingIsGenuine DEF Genuine, IsTerminal, TakenBack, Deleted
    <3> QED
      BY <2>1, <2>2, <2>4, <3>1 DEF HolderOK, PositionOK
  <2> QED
    BY <1>1, <2>3, <2>4
<1> QED
  BY <1>1, <1>2, <1>3, <1>4, <1>t, CallerStep DEF HandleTypeOK

\* A caller goes on to its next step with the backend, or raises: it has nothing
\* in its hands.
LEMMA GoesOn ==
    ASSUME HandleInv, RecordMoves, FutureInv', cached' = cached, NEW c \in Holders,
           future' \in {"none", "pending", "running", "stopped", "done"},
           fetched' = fetched, began' \in [Holders -> Nat],
           \A d \in Holders \ {c} : began'[d] = began[d],
           began'[c] <= real'.epoch,
           NEW p \in {"idle", "get", "result", "check", "cancel", "stop", "mark",
                      "delete"},
           p \in {"stop", "mark"} => backend \in Pools,
           p = "mark" => future' # "pending", p = "delete" => backend = "kubernetes",
           doing' = [doing EXCEPT ![c] = p],
           returned' = [returned EXCEPT ![c] = NoSnapshot] \/ returned' = returned,
           p = "idle" => returned' = [returned EXCEPT ![c] = NoSnapshot]
    PROVE  HandleInv'
<1>t. HandleTypeOK
  BY DEF HandleInv
<1>1. /\ doing' \in [Holders -> {"idle", "get", "wait", "result", "check", "cancel",
                                "stop", "mark", "delete", "store"}]
      /\ returned' \in [Holders -> Snapshot \union {NoSnapshot}]
      /\ doing'[c] = p
      /\ returned'[c] = NoSnapshot \/ returned'[c] = returned[c]
      /\ p = "idle" => returned'[c] = NoSnapshot
      /\ \A d \in Holders \ {c} : doing'[d] = doing[d] /\ returned'[d] = returned[d]
  BY <1>t DEF HandleTypeOK
<1>2. cached' \in Snapshot /\ Genuine(cached)'
  BY CacheFrame
<1>3. HolderOK(c)'
  <2>1. PICK g, h \in Snapshot \union {NoSnapshot} : g = fetched[c] /\ h = returned'[c]
    BY <1>t, <1>1 DEF HandleTypeOK
  <2>2. Genuine(g) /\ Genuine(h)
    <3>1. Genuine(fetched[c]) /\ Genuine(returned[c]) /\ Genuine(NoSnapshot)
      BY <1>t, NothingIsGenuine DEF HandleInv, HolderOK
    <3> QED
      BY <1>1, <2>1, <3>1 DEF Genuine, IsTerminal, TakenBack, Deleted
  <2>3. Genuine(g)' /\ Genuine(h)'
    BY <1>t, <2>2, GenuineKept
  <2>4. Genuine(fetched[c])' /\ Genuine(returned[c])'
    BY <2>1, <2>3 DEF Genuine, IsTerminal, TakenBack, Deleted
  <2>5. backend' = backend
    BY DEF RecordMoves
  <2> QED
    BY <1>1, <2>4, <2>5 DEF HolderOK, PositionOK, Pools
<1> QED
  BY <1>t, <1>1, <1>2, <1>3, CallerStep DEF HandleTypeOK

\* A caller has its answer from the backend: the record as it is now, or the
\* CANCELLED of a deleted job.
LEMMA HasAnswer ==
    ASSUME HandleInv, RecordMoves, FutureInv', NEW c \in Holders,
           UNCHANGED <<cached, began, returned>>,
           future' \in {"none", "pending", "running", "stopped", "done"},
           doing' = [doing EXCEPT ![c] = "store"],
           NEW x \in Snapshot, fetched' = [fetched EXCEPT ![c] = x],
           x.epoch = real'.epoch, Genuine(x)'
    PROVE  HandleInv'
<1>t. HandleTypeOK
  BY DEF HandleInv
<1>1. /\ doing' \in [Holders -> {"idle", "get", "wait", "result", "check", "cancel",
                                "stop", "mark", "delete", "store"}]
      /\ fetched' \in [Holders -> Snapshot \union {NoSnapshot}]
      /\ doing'[c] = "store" /\ fetched'[c] = x
      /\ began' \in [Holders -> Nat]
      /\ returned' \in [Holders -> Snapshot \union {NoSnapshot}]
      /\ \A d \in Holders \ {c} :
            /\ doing'[d] = doing[d] /\ fetched'[d] = fetched[d]
            /\ began'[d] = began[d] /\ returned'[d] = returned[d]
  BY <1>t DEF HandleTypeOK
<1>2. cached' \in Snapshot /\ Genuine(cached)'
  BY CacheFrame
<1>3. HolderOK(c)'
  <2>1. PICK h \in Snapshot \union {NoSnapshot} : h = returned[c]
    BY <1>t DEF HandleTypeOK
  <2>2. Genuine(h)
    BY <2>1 DEF HandleInv, HolderOK, Genuine, IsTerminal, TakenBack, Deleted
  <2>3. Genuine(h)' /\ real'.epoch >= real.epoch
    BY <1>t, <2>2, GenuineKept
  <2>4. Genuine(returned[c])' /\ Genuine(fetched[c])'
    BY <1>1, <2>1, <2>3 DEF Genuine, IsTerminal, TakenBack, Deleted
  <2>5. began'[c] <= real'.epoch /\ x.epoch >= began'[c]
    <3>1. began[c] <= real.epoch /\ began[c] \in Nat /\ real.epoch \in Nat
          /\ real'.epoch \in Nat /\ began'[c] = began[c]
      BY <1>t DEF HandleInv, HolderOK, HandleTypeOK, RecordMoves, Snapshot
    <3> QED
      BY <2>3, <3>1
  <2> QED
    BY <1>1, <2>4, <2>5 DEF HolderOK, PositionOK
<1> QED
  BY <1>1, <1>2, <1>3, CallerStep

\* The record itself is genuine.
LEMMA RecordIsGenuine ==
    ASSUME HandleTypeOK, RecordMoves
    PROVE  \A x \in Snapshot : x = real' => Genuine(x)' /\ x.epoch = real'.epoch
BY DEF RecordMoves, Genuine, Snapshot

-----------------------------------------------------------------------------

\* The backend's side of a cancel.
LEMMA CancelKeeps ==
    ASSUME HandleInv, NEW c \in Holders,
           BackendCancel(c) \/ StopFuture(c) \/ Mark(c) \/ Delete(c)
    PROVE  HandleInv'
<1>t. /\ HandleTypeOK /\ FutureInv /\ HolderOK(c)
      /\ real \in Snapshot /\ real.epoch \in Nat /\ real.state \in State
      /\ began \in [Holders -> Nat] /\ began[c] <= real.epoch
  BY DEF HandleInv, HandleTypeOK, HolderOK, Snapshot
<1>u. ASSUME RecordMoves PROVE real'.epoch >= real.epoch /\ real' \in Snapshot
                               /\ began[c] <= real'.epoch
  BY <1>t, <1>u DEF RecordMoves, Snapshot
<1>1. CASE BackendCancel(c)
  <2>1. /\ UNCHANGED <<backend, future, undone, gone, retries, cached, began, returned>>
        /\ ~ gone
        /\ doing' = [doing EXCEPT ![c] =
               CASE backend \in {"cloud", "broker"}          -> "get"
                 [] backend = "kubernetes"                   -> "delete"
                 [] backend \in Pools /\ ~ IsTerminal(real)  -> "stop"
                 [] OTHER                                    -> "store"]
        /\ fetched' = IF doing'[c] = "store" THEN [fetched EXCEPT ![c] = real']
                      ELSE fetched
    BY <1>1 DEF BackendCancel
  <2>2. RecordMoves /\ FutureInv'
    <3>1. CASE backend = "subprocess" /\ ~ IsTerminal(real)
      <4>1. Cancelled
        BY <1>1, <3>1 DEF BackendCancel
      <4>2. RecordMoves
        BY <1>t, <2>1, <3>1, <4>1, CancelledMoves
      <4> QED
        BY <1>t, <2>1, <3>1, <4>2 DEF FutureInv, Pools
    <3>2. CASE ~ (backend = "subprocess" /\ ~ IsTerminal(real))
      <4>1. UNCHANGED engineVars
        BY <1>1, <2>1, <3>2 DEF BackendCancel, engineVars
      <4> QED
        BY <4>1, StillMoves
    <3> QED
      BY <3>1, <3>2
  <2>3. doing \in [Holders -> {"idle", "get", "wait", "result", "check", "cancel",
                              "stop", "mark", "delete", "store"}]
        /\ future' \in {"none", "pending", "running", "stopped", "done"}
    BY <1>t, <2>1 DEF HandleTypeOK
  <2>4. PICK p \in {"get", "delete", "stop", "store"} :
            /\ doing' = [doing EXCEPT ![c] = p]
            /\ p = "stop" => backend \in Pools
            /\ p = "delete" => backend = "kubernetes"
    BY <2>1 DEF Pools
  <2>5. doing'[c] = p
    BY <2>3, <2>4
  <2>6. CASE p = "store"
    <3>1. fetched' = [fetched EXCEPT ![c] = real'] /\ doing' = [doing EXCEPT ![c] = "store"]
      BY <2>1, <2>4, <2>5, <2>6
    <3>2. PICK x \in Snapshot : x = real'
      BY <1>u, <2>2
    <3>3. Genuine(x)' /\ x.epoch = real'.epoch
      BY <1>t, <2>2, <3>2, RecordIsGenuine
    <3>4. fetched' = [fetched EXCEPT ![c] = x]
      BY <3>1, <3>2
    <3> QED
      BY <2>1, <2>2, <2>3, <3>1, <3>3, <3>4, HasAnswer
  <2>7. CASE p # "store"
    <3>1. fetched' = fetched /\ p \in {"get", "delete", "stop"}
      BY <2>1, <2>4, <2>5, <2>7
    <3>2. began' = began /\ began'[c] <= real'.epoch /\ cached' = cached /\ returned' = returned
      BY <1>u, <2>1, <2>2
    <3> QED
      BY <1>t, <2>2, <2>3, <2>4, <3>1, <3>2, GoesOn
  <2> QED
    BY <2>6, <2>7
<1>2. CASE StopFuture(c)
  <2>1. /\ UNCHANGED <<backend, real, undone, gone, retries, cached, fetched, began,
                       returned>>
        /\ future' = IF future = "pending" THEN "stopped" ELSE future
        /\ doing[c] = "stop"
        /\ doing' = [doing EXCEPT ![c] =
               IF backend = "thread" \/ future' = "stopped" THEN "mark" ELSE "get"]
    BY <1>2 DEF StopFuture
  <2>2. backend \in Pools
    BY <1>t, <2>1 DEF HolderOK, PositionOK
  <2>3. FutureInv' /\ future' \in {"none", "pending", "running", "stopped", "done"}
    BY <1>t, <2>1, <2>2 DEF FutureInv, HandleTypeOK
  <2>4. RecordMoves
    BY <1>t, <2>1 DEF HandleTypeOK, RecordMoves
  <2>5. PICK p \in {"mark", "get"} : doing' = [doing EXCEPT ![c] = p]
    BY <2>1
  <2>7. future' # "pending"
    BY <2>1
  <2>6. began' = began /\ began'[c] <= real'.epoch /\ cached' = cached /\ fetched' = fetched
        /\ returned' = returned
    BY <1>u, <2>1, <2>4
  <2> QED
    BY <1>t, <2>2, <2>3, <2>4, <2>5, <2>6, <2>7, GoesOn
<1>3. CASE Mark(c)
  <2>1. /\ UNCHANGED <<backend, future, undone, gone, retries, cached, began, returned>>
        /\ doing[c] = "mark"
        /\ doing' = [doing EXCEPT ![c] = IF backend = "thread" THEN "store" ELSE "get"]
        /\ fetched' = IF doing'[c] = "store" THEN [fetched EXCEPT ![c] = real']
                      ELSE fetched
    BY <1>3 DEF Mark
  <2>2. backend \in Pools /\ doing \in [Holders -> {"idle", "get", "wait", "result",
                              "check", "cancel", "stop", "mark", "delete", "store"}]
        /\ future' \in {"none", "pending", "running", "stopped", "done"}
        /\ future # "pending"
    BY <1>t, <2>1 DEF HolderOK, PositionOK, HandleTypeOK
  <2>3. RecordMoves /\ FutureInv'
    <3>1. CASE future = "stopped" \/ real.state = "queued"
      <4>1. Cancelled /\ real.state \in {"queued", "cancelled"}
        BY <1>t, <1>3, <3>1 DEF Mark, FutureInv
      <4>2. RecordMoves /\ real'.state = "cancelled"
        BY <1>t, <2>1, <2>2, <4>1, CancelledMoves DEF IsTerminal, Terminal, Pools
      <4>3. FutureInv'
        BY <1>3, <1>t, <2>1, <2>2, <4>2 DEF FutureInv
      <4> QED
        BY <4>2, <4>3
    <3>2. CASE ~ (future = "stopped" \/ real.state = "queued")
      <4>1. UNCHANGED engineVars
        BY <1>3, <2>1, <3>2 DEF Mark, engineVars
      <4> QED
        BY <4>1, StillMoves
    <3> QED
      BY <3>1, <3>2
  <2>4. CASE backend = "thread"
    <3>1. doing' = [doing EXCEPT ![c] = "store"] /\ fetched' = [fetched EXCEPT ![c] = real']
      BY <2>1, <2>2, <2>4
    <3>2. PICK x \in Snapshot : x = real'
      BY <1>u, <2>3
    <3>3. Genuine(x)' /\ x.epoch = real'.epoch /\ fetched' = [fetched EXCEPT ![c] = x]
      BY <1>t, <2>3, <3>1, <3>2, RecordIsGenuine
    <3> QED
      BY <2>1, <2>2, <2>3, <3>1, <3>3, HasAnswer
  <2>5. CASE backend # "thread"
    <3>1. doing' = [doing EXCEPT ![c] = "get"] /\ fetched' = fetched
      BY <2>1, <2>2, <2>5
    <3>2. began' = began /\ began'[c] <= real'.epoch /\ cached' = cached /\ returned' = returned
      BY <1>u, <2>1, <2>3
    <3> QED
      BY <1>t, <2>2, <2>3, <3>1, <3>2, GoesOn
  <2> QED
    BY <2>4, <2>5
<1>4. CASE Delete(c)
  <2>1. /\ UNCHANGED <<backend, real, future, undone, retries, cached, began, returned>>
        /\ gone' = TRUE
        /\ fetched' = [fetched EXCEPT ![c] = [state |-> "cancelled", epoch |-> real.epoch]]
        /\ doing' = [doing EXCEPT ![c] = "store"]
    BY <1>4 DEF Delete
  <2>2. RecordMoves
    BY <1>t, <2>1 DEF HandleTypeOK, RecordMoves
  <2>3. FutureInv' /\ future' \in {"none", "pending", "running", "stopped", "done"}
    BY <1>t, <2>1 DEF FutureInv, HandleTypeOK
  <2>4. PICK x \in Snapshot : x = [state |-> "cancelled", epoch |-> real.epoch]
    BY <1>t DEF Snapshot, State
  <2>5. x.epoch = real'.epoch /\ Genuine(x)' /\ fetched' = [fetched EXCEPT ![c] = x]
    <3>1. backend = "kubernetes"
      BY <1>4, <1>t DEF Delete, HolderOK, PositionOK
    <3>2. x.epoch = real.epoch /\ x.state = "cancelled" /\ real' = real
      BY <2>1, <2>4
    <3>3. Deleted(x)'
      BY <2>1, <3>1, <3>2 DEF Deleted
    <3> QED
      BY <1>t, <2>1, <2>4, <3>2, <3>3 DEF Genuine
  <2> QED
    BY <2>1, <2>2, <2>3, <2>5, HasAnswer
<1> QED
  BY <1>1, <1>2, <1>3, <1>4

\* Every step keeps the invariant.
LEMMA HandleKept == HandleInv /\ [HandleNext]_handleVars => HandleInv'
<1> SUFFICES ASSUME HandleInv, [HandleNext]_handleVars PROVE HandleInv'
  OBVIOUS
<1>t. /\ HandleTypeOK /\ real \in Snapshot /\ real.epoch \in Nat
      /\ doing \in [Holders -> {"idle", "get", "wait", "result", "check", "cancel",
                               "stop", "mark", "delete", "store"}]
      /\ fetched \in [Holders -> Snapshot \union {NoSnapshot}]
      /\ began \in [Holders -> Nat]
      /\ returned \in [Holders -> Snapshot \union {NoSnapshot}]
      /\ \A c \in Holders : HolderOK(c) /\ began[c] <= real.epoch
  BY DEF HandleInv, HandleTypeOK, HolderOK, Snapshot
<1>f. ASSUME RecordMoves, FutureInv', UNCHANGED <<cached, doing, fetched, began, returned>>,
             future' \in {"none", "pending", "running", "stopped", "done"}
      PROVE  HandleInv'
  <2>1. cached' \in Snapshot /\ Genuine(cached)'
    BY <1>f, CacheFrame
  <2>2. ASSUME NEW c \in Holders PROVE HolderOK(c)'
    BY <1>f, HolderFrame
  <2>3. HandleTypeOK'
    BY <1>f, <1>t, <2>1 DEF RecordMoves, HandleTypeOK
  <2> QED
    BY <1>f, <2>1, <2>2, <2>3 DEF HandleInv
<1>1. CASE EngineNext
  BY <1>1, <1>f, EngineStep
<1>2. ASSUME NEW c \in Holders, Refresh(c) \/ Wait(c) PROVE HandleInv'
  <2>1. /\ UNCHANGED <<engineVars, cached, fetched>>
        /\ FromCacheOr(c, "get") \/ FromCacheOr(c, "wait")
        /\ began' = [began EXCEPT ![c] = real.epoch]
    BY <1>2 DEF Refresh, Wait, Begin
  <2>2. /\ began' \in [Holders -> Nat] /\ began'[c] <= real.epoch
        /\ \A d \in Holders \ {c} : began'[d] = began[d]
    BY <1>t, <2>1
  <2> QED
    BY <2>1, <2>2, FirstSection
<1>3. ASSUME NEW c \in Holders, Result(c) \/ Cancel(c) PROVE HandleInv'
  <2>1. /\ UNCHANGED <<engineVars, cached, fetched>>
        /\ began' = [began EXCEPT ![c] = real.epoch]
    BY <1>3 DEF Result, Cancel, Begin
  <2>2. PICK p \in {"result", "cancel"} : Ask(c, p)
    BY <1>3 DEF Result, Cancel
  <2>3. /\ doing' = [doing EXCEPT ![c] = p]
        /\ returned' = [returned EXCEPT ![c] = NoSnapshot]
    BY <2>2 DEF Ask
  <2>4. /\ RecordMoves /\ FutureInv' /\ real' = real
        /\ future' \in {"none", "pending", "running", "stopped", "done"}
    BY <2>1, StillMoves
  <2>5. /\ began' \in [Holders -> Nat] /\ began'[c] <= real'.epoch
        /\ \A d \in Holders \ {c} : began'[d] = began[d]
    BY <1>t, <2>1, <2>4
  <2> QED
    BY <2>1, <2>3, <2>4, <2>5, GoesOn
<1>4. ASSUME NEW c \in Holders, Fetch(c) \/ BackendWait(c) PROVE HandleInv'
  <2>1. /\ UNCHANGED <<engineVars, cached, began, returned>>
        /\ fetched' = [fetched EXCEPT ![c] = real]
        /\ doing' = [doing EXCEPT ![c] = "store"]
    BY <1>4 DEF Fetch, BackendWait
  <2>2. /\ RecordMoves /\ FutureInv' /\ real' = real
        /\ future' \in {"none", "pending", "running", "stopped", "done"}
    BY <2>1, StillMoves
  <2>3. PICK x \in Snapshot : x = real'
    BY <1>t, <2>2
  <2>4. Genuine(x)' /\ x.epoch = real'.epoch /\ fetched' = [fetched EXCEPT ![c] = x]
    BY <1>t, <2>1, <2>2, <2>3, RecordIsGenuine
  <2> QED
    BY <2>1, <2>2, <2>4, HasAnswer
<1>5. ASSUME NEW c \in Holders,
             BackendCancel(c) \/ StopFuture(c) \/ Mark(c) \/ Delete(c)
      PROVE  HandleInv'
  BY <1>5, CancelKeeps
<1>6. ASSUME NEW c \in Holders, BackendResult(c) \/ Raise(c) PROVE HandleInv'
  <2>1. UNCHANGED <<engineVars, cached, fetched, began>>
    BY <1>6 DEF BackendResult, Raise
  <2>2. PICK p \in {"idle", "check"} :
            /\ doing' = [doing EXCEPT ![c] = p]
            /\ returned' = [returned EXCEPT ![c] = NoSnapshot]
    BY <1>6 DEF BackendResult, Raise, Answer, Ask
  <2>3. /\ RecordMoves /\ FutureInv' /\ real' = real
        /\ future' \in {"none", "pending", "running", "stopped", "done"}
    BY <2>1, StillMoves
  <2>4. began' = began /\ began'[c] <= real'.epoch /\ began' \in [Holders -> Nat]
    BY <1>t, <2>1, <2>3
  <2> QED
    BY <2>1, <2>2, <2>3, <2>4, GoesOn
<1>7. ASSUME NEW c \in Holders, ResultRefresh(c) PROVE HandleInv'
  <2>1. /\ UNCHANGED <<engineVars, cached, fetched, began>>
        /\ FromCacheOr(c, "get")
    BY <1>7 DEF ResultRefresh
  <2> QED
    BY <1>t, <2>1, FirstSection
<1>8. ASSUME NEW c \in Holders, Store(c) PROVE HandleInv'
  <2>1. /\ UNCHANGED <<engineVars, began>> /\ doing[c] = "store"
        /\ cached' = fetched[c]
        /\ fetched' = [fetched EXCEPT ![c] = NoSnapshot]
        /\ doing' = [doing EXCEPT ![c] = "idle"]
        /\ returned' = [returned EXCEPT ![c] = fetched[c]]
    BY <1>8 DEF Store, Answer
  <2>2. /\ RecordMoves /\ FutureInv' /\ UNCHANGED <<backend, real, undone, gone>>
        /\ future' \in {"none", "pending", "running", "stopped", "done"}
    BY <2>1, StillMoves
  <2>3. PICK x \in Snapshot : x = fetched[c] /\ x.epoch >= began[c]
    BY <1>t, <2>1 DEF HolderOK
  <2>4. Genuine(x)
    BY <1>t, <2>3 DEF HolderOK, Genuine, IsTerminal, TakenBack, Deleted
  <2>5. Genuine(x)' /\ Genuine(NoSnapshot)'
    BY <1>t, <2>2, <2>4, NothingIsGenuine, GenuineKept
  <2>6. /\ cached' = x /\ fetched'[c] = NoSnapshot /\ returned'[c] = x /\ doing'[c] = "idle"
        /\ doing' \in [Holders -> {"idle", "get", "wait", "result", "check", "cancel",
                                  "stop", "mark", "delete", "store"}]
        /\ fetched' \in [Holders -> Snapshot \union {NoSnapshot}]
        /\ returned' \in [Holders -> Snapshot \union {NoSnapshot}]
        /\ began' = began
        /\ \A d \in Holders \ {c} :
              /\ doing'[d] = doing[d] /\ fetched'[d] = fetched[d]
              /\ began'[d] = began[d] /\ returned'[d] = returned[d]
    BY <1>t, <2>1, <2>3
  <2>7. /\ Genuine(cached)' /\ Genuine(returned[c])' /\ Genuine(fetched[c])'
    BY <2>5, <2>6 DEF Genuine, IsTerminal, TakenBack, Deleted
  <2>8. HolderOK(c)'
    BY <1>t, <2>2, <2>3, <2>6, <2>7 DEF HolderOK, PositionOK
  <2> QED
    BY <1>t, <2>2, <2>6, <2>7, <2>8, CallerStep
<1>9. CASE UNCHANGED handleVars
  <2>1. UNCHANGED engineVars /\ UNCHANGED <<cached, doing, fetched, began, returned>>
    BY <1>9 DEF handleVars, callerVars
  <2> QED
    BY <1>f, <2>1, StillMoves
<1> QED
  BY <1>1, <1>2, <1>3, <1>4, <1>5, <1>6, <1>7, <1>8, <1>9 DEF HandleNext, Call, Continue

\* The invariant holds in every reachable state.
THEOREM HandleInvariance == HandleSpec => []HandleInv
BY HandleStarts, HandleKept, PTL DEF HandleSpec

-----------------------------------------------------------------------------

\* Type correctness of the handle and of the backend's record.
THEOREM HandleTypeCorrect == HandleSpec => []HandleTypeOK
<1>1. HandleInv => HandleTypeOK
  BY DEF HandleInv
<1> QED
  BY <1>1, HandleInvariance, PTL

\* No answer is older than its call, but for an end the backend has gone on from.
THEOREM Fresh == HandleSpec => []AnswersAreFresh
<1>1. HandleInv => AnswersAreFresh
  BY DEF HandleInv, HolderOK, AnswersAreFresh
<1> QED
  BY <1>1, HandleInvariance, PTL

\* A terminal snapshot in the cache is the backend's record on every backend,
\* with each one's own steps of cancel, unless the backend has gone on from that
\* end or the job was deleted.
THEOREM TrueCache == HandleSpec => []TerminalCacheIsTrue
<1>1. HandleInv => TerminalCacheIsTrue
  BY DEF HandleInv, Genuine, TerminalCacheIsTrue
<1> QED
  BY <1>1, HandleInvariance, PTL

\* All final answers are the same, with the same two exceptions.
THEOREM Agreement == HandleSpec => []FinalAnswersAgree
<1>1. HandleInv => FinalAnswersAgree
  BY DEF HandleInv, HolderOK, Genuine, FinalAnswersAgree
<1> QED
  BY <1>1, HandleInvariance, PTL
=============================================================================
