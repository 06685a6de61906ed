SPECIFICATION Spec
CONSTANTS
    p1 = p1
    e1 = e1
    k1 = k1
    k2 = k2
    s1 = s1
    s2 = s2
    s3 = s3
    t1 = t1
    t2 = t2
    nothing = nothing
    NoEmail = nothing
    Providers = {p1}
    Emails = {e1}
    InitialUsers <- MCUsers
    MaxUsers = 1
    MaxCalls = 1
    CallKinds = {"settings"}
    Limits = {2, 3}
    DefaultLimit = 3
    MaxRotations = 0
    Campaigns = {k1, k2}
    Sends = {s1, s2}
    Sizes = {1, 2}
    Tests = {t1}
    MaxDays = 1
SYMMETRY Symmetry
INVARIANTS
    DailyLimitHolds
    TestsAreTold
CHECK_DEADLOCK FALSE
