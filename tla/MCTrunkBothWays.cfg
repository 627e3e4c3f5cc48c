CONSTANTS
    mt = mt
    cc = cc
    Server = {mt, cc}
    Direction <- BothWays
    Trunked = {mt, cc}
    Codec = {ulaw, g729}
    Batch = {b1, b2}
    NoCodec = NoCodec
    NoBatch = NoBatch
    MaxFaults = 0
    MaxRestarts = 0
SPECIFICATION Safety
SYMMETRY BatchSymmetry
PROPERTY NoReorderUnderBatch
CHECK_DEADLOCK FALSE
