----------------------------- MODULE Providers -----------------------------
(***************************************************************************)
(* The events package and the cloud schedulers, as an application meets    *)
(* them: the lazy registry that hands out both, the publishers of other    *)
(* brokers, the bus in memory and the schedulers; and the other registry of*)
(* an application, the one of its functions.  The threads meet in one of   *)
(* five places, which is chosen at the start: the registry of providers    *)
(* while it is changed; a publisher, which it gave; a bus; a scheduler; or *)
(* the registry of functions.                                              *)
(***************************************************************************)
EXTENDS EventBus, Publishers, CloudSchedulers, FunctionRegistry

CONSTANTS Brokers, \* the publishers of other brokers, as factories
          Sender   \* the client that publishes to them

ASSUME ProvidersAssumption ==
    /\ Sender \in Clients
    /\ Brokers \subseteq {"sns", "snsfifo", "eventbridge", "pubsub", "orderedpubsub", "eventgrid",
                         "kafka"}

VARIABLE place

providersVars ==
    <<vars, registryVars, publisherVars, schedulerVars, functionVars, place>>

\* the registry of publishers is imported with a bus in memory as "default"
ProvidersInit ==
    /\ Init
    /\ place \in {"registry", "publisher", "bus", "scheduler", "functions"}
    /\ place # "bus" => \A n \in Limits : n <= maxHistory
    /\ \E f \in IF place = "publisher" THEN Brokers ELSE {"inmemory"} :
           RegistryInit([a \in Aliases |-> IF a = "default" THEN f ELSE None])
    /\ \E configured \in IF place = "publisher" THEN BOOLEAN ELSE {TRUE} :
           PublishersInit(configured)
    /\ SchedulersInit(IF place = "scheduler" THEN {"aws", "gcp", "kubernetes"} ELSE {"aws"})
    /\ FunctionsInit
    /\ place # "functions" => shared /\ policy.allow_import /\ policy.allowed_modules = {}

AtTheRegistry ==
    /\ place = "registry"
    /\ \/ \E c \in Clients : Getitem(c)
       \/ Change
    /\ UNCHANGED <<vars, publisherVars, schedulerVars, functionVars, place>>

AtThePublisher ==
    /\ place = "publisher"
    /\ \/ Getitem(Sender) /\ UNCHANGED publisherVars
       \/ Publishing(Sender) /\ UNCHANGED registryVars
    /\ UNCHANGED <<vars, schedulerVars, functionVars, place>>

AtTheBus ==
    /\ place = "bus"
    /\ Next
    /\ UNCHANGED <<registryVars, publisherVars, schedulerVars, functionVars, place>>

AtTheScheduler ==
    /\ place = "scheduler"
    /\ \E u \in Users : Scheduling(u)
    /\ UNCHANGED <<vars, registryVars, publisherVars, functionVars, place>>

AtTheFunctions ==
    /\ place = "functions"
    /\ Naming
    /\ UNCHANGED <<vars, registryVars, publisherVars, schedulerVars, place>>

ProvidersNext ==
    \/ AtTheRegistry \/ AtThePublisher \/ AtTheBus \/ AtTheScheduler
    \/ AtTheFunctions

ProvidersSpec == ProvidersInit /\ [][ProvidersNext]_providersVars
=============================================================================
