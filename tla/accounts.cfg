SPECIFICATION AccountsSpec
CONSTANTS
    p1 = p1
    p2 = p2
    e1 = e1
    e2 = e2
    nothing = nothing
    NoEmail = nothing
    Providers = {p1, p2}
    Emails = {e1, e2}
    InitialUsers <- MCUsers
    MaxUsers = 2
    MaxCalls = 3
    CallKinds = {"login", "reconnect", "settings"}
    Limits = {1, 2}
    DefaultLimit = 2
    MaxRotations = 1
INVARIANTS
    OneUserPerAccount
    TokenIsKept
    LimitIsKept
CHECK_DEADLOCK FALSE
