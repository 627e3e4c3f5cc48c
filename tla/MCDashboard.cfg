CONSTANTS
    Writer = {w1, w2}
    MaxRecentEvents = 3
    MaxEvents = 4
    Ext = {e1, e2, e3}
    MaxAttempts = 2
    MaxRefreshFailures = 1
    MaxRestarts = 1
    Login = {l1, l2, l3}
    Change = {c1, c2}
    Ip = {i1}
    First = First
    ByCommand = ByCommand
    None = None
    LockAfter = 2
    MaxReboots = 1
SPECIFICATION DashSpec
SYMMETRY DashSymmetry
INVARIANTS
    FeedInv
    BannerIsRight
    AuthInv
PROPERTIES
    LockoutHolds
CHECK_DEADLOCK FALSE
