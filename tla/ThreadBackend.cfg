CONSTANTS
    t1 = t1
    Tasks = {t1, t2}
    Clients = {c1, c2}
    MaxWorkers = 1
    History = 1
    Exceptions <- MCExceptions
    Policy <- MCPolicy
    Escaping = {t1}
SPECIFICATION FairSpec
INVARIANTS
    TypeOK
    NothingIsStranded
    ResultMatchesState
    CallsAreAllowed
PROPERTIES
    EndsAreKept
    AnswersAreTrue
    NobodyWaitsForever
