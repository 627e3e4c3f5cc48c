CONSTANTS
    Run = {r1}
    Dial = {d1}
    NoRun = NoRun
    Mode = {"off", "stereo"}
    Tests <- RollingThenRamp
    Target = 2
    Chunks = 2
    MaxStops = 1
    Failures = TRUE
    SlowHangups = FALSE
SPECIFICATION Spec
INVARIANTS
    RunInv
PROPERTIES
    RunEndsUnlessStopped
    CancelEndsRun
CHECK_DEADLOCK FALSE
