CONSTANTS
    Conns = {c1}
    Devices = {d1}
    None = None
    Chains <- NoMiddleware
    Servers = {"tcp"}
    Registered = {"register", "location", "heartbeat"}
    Kinds = {"heartbeat", "event"}
    Rate = 1
    Burst = 1
    MaxCalls = 2
    MaxTime = 0
CHECK_DEADLOCK FALSE
SPECIFICATION Spec
INVARIANT UnknownIgnored
