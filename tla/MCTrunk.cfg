CONSTANTS
    mt = mt
    cc = cc
    Server = {mt, cc}
    Direction <- OneWay
    Trunked = {mt, cc}
    Codec = {ulaw, g729}
    Batch = {b1, b2}
    NoCodec = NoCodec
    NoBatch = NoBatch
    MaxFaults = 2
    MaxRestarts = 1
SPECIFICATION Spec
INVARIANTS
    OneCodecPerDirection
    LiveWhileUntroubled
PROPERTIES
    NoReorderUnderBatch
    EveryBatchReleased
CHECK_DEADLOCK FALSE
