\* One connection is enough: its handler outlives it.
SPECIFICATION FairSpec
CONSTANTS
    Conns = {c1}
    Sessions = {s1}
    Tasks = {k1}
    SaveTime = 1
    NoSession = NoSession
    NoConn = NoConn
PROPERTIES
    GetTokenResolves
