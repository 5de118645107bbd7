CONSTANTS
    Conns = {c1}
    Devices = {d1}
    None = None
    Chains <- MCChains
    Servers = {"tcp", "highperf"}
    Registered = {"register", "location", "heartbeat"}
    Kinds = {"register", "location", "auth"}
    Rate = 1
    Burst = 1
    MaxCalls = 2
    MaxTime = 3
CHECK_DEADLOCK FALSE
SPECIFICATION Spec
INVARIANT PanicContained
INVARIANT ReplyOrder
INVARIANT RateBound
INVARIANT AuthRequired
PROPERTY RequestEnds
