CONSTANTS
    e1 = e1
    Executions = {e1, e2, e3}
    Callers = {c1, c2}
    History = 1
    Policy <- MCPolicy
    Exceptions <- MCExceptions
SYMMETRY Symmetry
SPECIFICATION Spec
CHECK_DEADLOCK FALSE
INVARIANTS HistoryIsConsistent
