\* Two calls on a token that two connections serve, one after the other or both.
SPECIFICATION FairSpec
CONSTANTS
    Tokens = {t1}
    Calls = {c1, c2}
    Conns = {d1, d2}
    MaxSerial = 2
    OutTime = 1
    NoToken = NoToken
    NoCall = NoCall
    NoConn = NoConn
CONSTRAINT ByName
INVARIANTS
    TypeOK
    WaiterHasSender
    PendingIsQueued
    AnswerIsOwn
PROPERTIES
    LateAnswerIsHarmless
    ImplementsRpc
    KnownCallReturns
