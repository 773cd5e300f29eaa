-------------------------- MODULE MCQueueConsumer --------------------------
(* An instance of OnCommit for TLC: an SQS queue drained by a container and by *)
(* a Lambda function, a Service Bus queue drained by two containers, or a      *)
(* Cloud Tasks queue that pushes to two instances of a service.               *)
EXTENDS OnCommit

CONSTANTS c1, c2

MCDeployments ==
    {[c \in Consumers |-> IF c = c1 THEN "poll" ELSE "lambda"],
     [c \in Consumers |-> "servicebus"],
     [c \in Consumers |-> "push"]}
=============================================================================
