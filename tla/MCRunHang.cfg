CONSTANTS
    Run = {r1}
    Dial = {}
    NoRun = NoRun
    Mode = {"off", "stereo"}
    Tests <- OneRamp
    Target = 2
    Chunks = 1
    MaxStops = 1
    Failures = FALSE
    SlowHangups = FALSE
SPECIFICATION Spec
PROPERTY EveryRunEnds
CHECK_DEADLOCK FALSE
