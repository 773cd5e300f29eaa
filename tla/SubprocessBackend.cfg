CONSTANTS
    j1 = j1
    j2 = j2
    Jobs = {j1, j2}
    Clients = {c1, c2}
    Budgeted = {j1}
    MaxOutput <- MCOutput
SPECIFICATION FairSpec
INVARIANTS ReportIsTrue StreamIsComplete
PROPERTIES ImplementsLifecycle NobodyWaitsForever
