CONSTANTS
    c1 = c1
    c2 = c2
    d1 = d1
    d2 = d2
    h1 = h1
    Conns = {c1}
    Devices = {d1, d2}
    Slots = {h1}
    NoDevice = NoDevice
    NoConn = NoConn
    MaxConnections = 1
    ReadTimeout = FALSE
    WriteTimeout = TRUE
    Detach = TRUE
SPECIFICATION FairSpec
PROPERTY StopTerminates
PROPERTY TeardownCompletes
