CONSTANTS
    c1 = c1
    c2 = c2
    d1 = d1
    d2 = d2
    t1 = t1
    t2 = t2
    t3 = t3
    t4 = t4
    h1 = h1
    h2 = h2
    Conns = {c1}
    Devices = {d1, d2}
    NoDevice = NoDevice
    NoConn = NoConn
    Tasks = {t1}
    Conn <- ConnValue
    Shards = {h1, h2}
    Hash <- HashValue
SPECIFICATION Spec
INVARIANT NoStaleEntry
