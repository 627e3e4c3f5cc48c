CONSTANTS
    Call = {c1, c2}
    Batch = {b1}
    Caller = {p1, p2}
    Callee = {q1, q2}
    NoPhone = NoPhone
    NoBatch = NoBatch
    NoCall = NoCall
    MaxStops = 2
    MaxPackets = 0
SPECIFICATION Spec
PROPERTIES
    StopEndsBatch
    PoolReturns
CHECK_DEADLOCK FALSE
