CONSTANTS
    s1 = s1
    s2 = s2
    Server = {s1, s2}
    NoServer = NoServer
    Dial = {d1, d2}
    Update = {u1}
    Connect = {c1}
    Reset = {r1}
    NoObj = NoObj
    NoDial = NoDial
    Extensions = 2
    Gap = 1
    MaxFaults = 1
    Asked <- ThePair
    MaxJobs = 2
    MaxRestarts = 1
SPECIFICATION Spec
INVARIANTS
    RegistryInv
    StaleOnlyWhenRaced
    DiskAgrees
PROPERTIES
    DialReturns
CHECK_DEADLOCK FALSE
