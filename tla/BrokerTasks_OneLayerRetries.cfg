CONSTANTS
    Setups <- MCApplicationOwned
    Names = {"Transient", "Fatal"}
    Exceptions <- MCExceptions
    Workers = {w1, w2}
    MaxJobs = 2
    MaxCrashes = 0
SPECIFICATION BrokerSpec
CHECK_DEADLOCK FALSE
INVARIANT RunsWithinPolicy
