\* One caller closes a connection and connects again before the reader is through.
SPECIFICATION Spec
CONSTANTS
    Callers = {t1}
    MaxConns = 2
    MaxRuns = 0
INVARIANT
    CleansItsOwn
CHECK_DEADLOCK FALSE
