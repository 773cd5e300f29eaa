---------------------------- MODULE MCCloudJobs ----------------------------
(* Instances of LogTail, with CloudJobs in it, for TLC.  Two callers work on  *)
(* one job of two tasks, retried by the engine, by the application or not at  *)
(* all; a caller has two jobs of which the index keeps one; two callers race  *)
(* for that one place; both have one; and the log of a job is read while a    *)
(* caller asks for it and cancels it.                                         *)
EXTENDS LogTail

CONSTANTS e1, e2, c1, c2

Policy(n, who) == [max_attempts |-> n, owner |-> who]

Job(n, policy, budget) ==
    [parallelism |-> n, retry |-> policy, timeout |-> budget, image |-> TRUE]

Setup(adapters, n, who, jobs, specs) ==
    [adapter : adapters, tracked_ids : {n}, callers : {who}, ids : {jobs}, spec : specs]

MCTailed ==
    Setup({"cloudrun", "batch"}, 1, {c1}, {e1}, {Job(1, Policy(1, "backend"), FALSE)})
        \union
    Setup({"kubernetes"}, 1, {c1}, {e1}, {Job(1, Policy(2, "backend"), TRUE)})

MCDeployments ==
    MCTailed
        \union
    Setup(Adapters, 1, {c1, c2}, {e1},
          {Job(2, Policy(2, "backend"), TRUE), Job(2, Policy(2, "application"), FALSE),
           Job(1, Policy(1, "backend"), TRUE)})
        \union
    Setup(Adapters, 1, {c1}, {e1, e2}, {Job(1, Policy(2, "backend"), FALSE)})
        \union
    Setup({"batch"}, 1, {c1, c2}, {e1, e2}, {Job(1, Policy(1, "backend"), FALSE)})
        \union
    Setup({"containerapps"}, 2, {c1}, {e1, e2}, {Job(1, Policy(1, "backend"), FALSE)})

MCStamps == <<1, 1, 2>>
=============================================================================
