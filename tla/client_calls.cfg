\* Two callers, two readers.
SPECIFICATION FairSpec
CONSTANTS
    Callers = {t1, t2}
    Readers = {d1, d2}
    MaxSerial = 2
    OutTime = 1
    Nothing = Nothing
INVARIANTS
    TypeOK
    PendingIsQueued
    WaiterHasSender
    AnswerIsOwn
PROPERTIES
    ImplementsRpc
    EveryCallReturns
