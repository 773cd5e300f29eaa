CONSTANTS
    c1 = c1
    c2 = c2
    Consumers = {c1, c2}
    Deployments <- MCDeployments
    Messages = {m1, m2}
    Poison = {m2}
    BatchSize = 2
    MaxReceives = 2
SPECIFICATION OnCommitSpec
CHECK_DEADLOCK FALSE
INVARIANTS SentIsCommittedDeletedIsDone RepeatsNeedExpiry
PROPERTY CommittedWorkSettles
