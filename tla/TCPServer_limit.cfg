CONSTANTS
    c1 = c1
    c2 = c2
    d1 = d1
    d2 = d2
    h1 = h1
    Conns = {c1, c2}
    Devices = {d1}
    Slots = {h1}
    NoDevice = NoDevice
    NoConn = NoConn
    MaxConnections = 1
    ReadTimeout = TRUE
    WriteTimeout = TRUE
    Detach = FALSE
SPECIFICATION Spec
SYMMETRY Symmetry
INVARIANT LimitRespected
