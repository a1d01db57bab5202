\* A client that reconnects before the old task has cleaned up.
SPECIFICATION Spec
CONSTANTS
    Conns = {c1, c2}
    Sessions = {s1}
    Tasks = {}
    SaveTime = 1
    NoSession = NoSession
    NoConn = NoConn
INVARIANT DisconnectMeansDisconnected
