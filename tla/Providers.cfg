CONSTANTS
    NoEvent = NoEvent
    all = all
    one = one
    e1 = e1
    e3 = e3
    Threads = {t1, t2}
    Subscribers = {all, one}
    Events = {e1, e2, e3}
    Wants <- MCWants
    Trips <- MCTrips
    Fragile = {all}
    Retain = TRUE
    Limits = {0, 2}
    Clients = {c1, c2}
    Sender = c1
    Aliases = {"default"}
    Factories = {"inmemory", "sns", "missing"}
    Importable <- MCImportable
    MaxMade = 4
    MaxChanges = 2
    Brokers <- MCBrokers
    Messages <- MCMessages
    MaxBatch = 3
    Users = {u1, u2}
    Schedules <- MCSchedules
    Callables <- MCCallables
    Program <- MCProgram
    Names <- MCNames
    ImportPolicies <- MCPolicies
    MaxRegistered = 1
SPECIFICATION ProvidersSpec
CHECK_DEADLOCK FALSE
INVARIANTS BusIsTrue RegistryIsTrue PublicationsAreTrue SchedulesAreAsWritten NamesLeadBack
