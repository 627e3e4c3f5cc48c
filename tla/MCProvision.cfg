\* Provisioning, resetting and the SERVERware host, recording.
CONSTANTS
    j1 = j1
    t1 = t1
    v1 = v1
    v2 = v2
    Job = {j1, j2}
    Code = {t1, t2}
    Default = default
    Count <- Counts
    MaxCount = 3
    Batch = 2
    MaxSkips = 1
    MaxRetries = 1
    VPS = {v1, v2}
    Order <- VPSOrder
    Connect = {c1, c2}
    Restart = {s1, s2}
    Lists <- RestartLists
    a = a
    b = b
    Server = {a, b}
    MultiTenant = {a}
    Toggle = {q1, q2}
    Look = {k1}
    Section <- Sections
    MaxFaults = 1
SPECIFICATION MCSpec
INVARIANTS
    ProvisionInv
    HostInv
    NoStereoAlone
PROPERTIES
    ReadyWhenStored
    AnswersAreTrue
CONSTRAINT HostBound
SYMMETRY Symmetry
CHECK_DEADLOCK FALSE
