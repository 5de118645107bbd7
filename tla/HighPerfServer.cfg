CONSTANTS
    Conns = {c1, c2}
    Devices = {d1}
    None = None
    Acceptors = {a1}
    MaxConnections = 1
    MaxWorkers = 1
    QueueSize = 1
    ReadTimeout = FALSE
    WriteTimeout = FALSE
    MaxOutstanding = 1
SPECIFICATION Spec
INVARIANT StopComplete
PROPERTY StopReturns
