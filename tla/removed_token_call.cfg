\* A session that is removed before its call times out.
SPECIFICATION FairSpec
CONSTANTS
    Tokens = {t1}
    Calls = {c1}
    Conns = {d1}
    MaxSerial = 1
    OutTime = 1
    NoToken = NoToken
    NoCall = NoCall
    NoConn = NoConn
PROPERTIES
    EveryCallReturns
