CONSTANTS
    Setups <- MCSetups
    Names = {"Transient", "Fatal"}
    Exceptions <- MCExceptions
    Workers = {w1, w2}
    MaxJobs = 2
    MaxCrashes = 1
SPECIFICATION FairSpec
CHECK_DEADLOCK FALSE
INVARIANTS SubmittedPolicyDecides
PROPERTIES SeenIsLegal EveryJobSettles

