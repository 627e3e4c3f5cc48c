CONSTANTS
    Run = {r1, r2}
    Dial = {d1}
    NoRun = NoRun
    Mode = {"off", "stereo"}
    Tests <- OneRamp
    Target = 1
    Chunks = 1
    MaxStops = 0
    Failures = FALSE
    SlowHangups = FALSE
SPECIFICATION Safety
SYMMETRY RunSymmetry
VIEW OverlapView
INVARIANTS
    CallsHoldTheTrunk
    RecordingOffAtRest
CHECK_DEADLOCK FALSE
