CONSTANTS
    Call = {c1, c2}
    Batch = {b1, b2}
    Caller = {p1, p2, p3, p4}
    Callee = {p1, p2, p3, p4}
    NoPhone = NoPhone
    NoBatch = NoBatch
    NoCall = NoCall
    MaxStops = 2
    MaxPackets = 1
SPECIFICATION Safety
SYMMETRY LocalSymmetry
INVARIANTS
    PairsAreHeld
    CodecIsOwn
    CountsAgree
    BatchReportComplete
    EndedTotalMatchesRecords
PROPERTIES
    PoolSafety
CHECK_DEADLOCK FALSE
