---------------------------- MODULE BoundedIndex ----------------------------
(***************************************************************************)
(* The bounded OrderedDict that the runtime (taskferry/runtime.py, _track)  *)
(* and the adapters (taskferry/tracking.py) keep their ids in: a sequence   *)
(* of keys, the one to be evicted first.                                    *)
(***************************************************************************)
EXTENDS Naturals, Sequences, SequencesExt

\* order[key] = ...; order.move_to_end(key)
Touch(order, key) ==
    Append(IF key \in ToSet(order)
           THEN RemoveAt(order, CHOOSE i \in DOMAIN order : order[i] = key)
           ELSE order, key)

\* while len(order) > limit: order.popitem(last=False)
Evict(order, limit) ==
    IF Len(order) <= limit THEN order
    ELSE SubSeq(order, Len(order) - limit + 1, Len(order))

\* a limit of zero disables tracking
Remember(order, key, limit) ==
    IF limit = 0 THEN order ELSE Evict(Touch(order, key), limit)
=============================================================================
