\* Two connections fight over two sessions; one handler looks tokens up.
SPECIFICATION FairSpec
CONSTANTS
    Conns = {c1, c2}
    Sessions = {s1, s2}
    Tasks = {k1}
    SaveTime = 1
    NoSession = NoSession
    NoConn = NoConn
CONSTRAINT ByName
INVARIANTS
    TypeOK
    PeerIsServed
    ControllerLifecycle
    DisconnectedIsQueued
    QueueOrdered
PROPERTIES
    SweepLeavesNothingDue
    KeptUnlessResumed
    ImplementsLifecycle
    LeftIsClosed
