\* A session resumed once, left again.
SPECIFICATION Spec
CONSTANTS
    Conns = {c1, c2}
    Sessions = {s1}
    Tasks = {}
    SaveTime = 1
    NoSession = NoSession
    NoConn = NoConn
PROPERTIES
    SavedForFullTime
