\* Two callers, two connections, one call.
SPECIFICATION Spec
CONSTANTS
    Callers = {t1, t2}
    MaxConns = 2
    MaxRuns = 1
SYMMETRY Symmetry
INVARIANTS
    NetHasReader
    NoneForgotten
    JoinsItsOwn
    ToldIsAccepted
    ToldIsUnderstood
    WaiterHasSender
CHECK_DEADLOCK FALSE
