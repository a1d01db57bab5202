\* Two sessions, two names, four requests.
SPECIFICATION Spec
CONSTANTS
    Sessions = {s1, s2}
    Names = {n1, n2}
    Tasks = {k1, k2, k3, k4}
    NoSession = NoSession
    NoName = NoName
SYMMETRY Symmetry
INVARIANTS
    NamesClashInRaces
    ClosedHasLeft
    TalkReaches
    PrivateIsForTheNamed
CHECK_DEADLOCK FALSE
