\* How a test is measured, looked up and reported.
CONSTANTS
    Cause = {c1, c2}
    HostMetric = {host_cpu}
    VPSMetric = {vps_cpu}
    SaturatedSamples = 2
    MaxFailures = 2
    MaxSamples = 3
    N = 3
    Older = 1
    PageSize = 2
    Gap = 3
    Skew = 1
    Sizes <- BatchSizes
    MaxPolls = 2
    Run = {r1, r2}
    Standard = {r1}
    Retry = {q1}
    Hardware = {h1}
    None = None
    Retries = 1
    MaxRestarts = 1
SPECIFICATION Spec
INVARIANTS
    DiagnosisInv
    QualityInv
    UploadInv
PROPERTIES
    UploadEnds
CONSTRAINT
    HardwareWithOneRun
CHECK_DEADLOCK FALSE
