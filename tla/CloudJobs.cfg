CONSTANTS
    e1 = e1
    e2 = e2
    c1 = c1
    c2 = c2
    Executions = {e1, e2}
    Callers = {c1, c2}
    Deployments <- MCDeployments
    Tailed <- MCTailed
    Stamps <- MCStamps
    Anonymous = {2}
    DefaultAttempts = 2
SPECIFICATION TailSpec
CHECK_DEADLOCK FALSE
INVARIANTS ReportIsTrue AttemptsWithinPolicy 
PROPERTIES EndsAreFinal TailsEnd
