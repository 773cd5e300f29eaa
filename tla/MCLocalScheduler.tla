-------------------------- MODULE MCLocalScheduler --------------------------
(* Instances of LocalScheduler for TLC: an interval of one moment, and a       *)
(* one-shot at the last moment, which an interval's fires come before; one     *)
(* runner for the whole time, and two for the last two moments.                *)
EXTENDS LocalScheduler

CONSTANTS r1, r2

MCTriggers ==
    {[kind |-> "oneshot", time |-> MaxTime], [kind |-> "interval", time |-> 1]}

MCBeginnings ==
    {[time |-> 1, runners |-> {r1}], [time |-> MaxTime - 1, runners |-> {r1, r2}]}
=============================================================================
