CONSTANTS
    Reports <- MCReports
    Writers = {w1, w2}
    Terminals = {d1}
    Limit = 1
    MaxSaves = 3
    Bounds <- MCBounds
    Msgs = {m1, m2}
    MaxDrops = 2
    MaxSends = 3
    Tasks = {t1, t2, t3}
    MinWorkers = 1
    MaxWorkers = 3
    QueueSize = 1
    MaxStarted = 5
    Devices = {d1, d2, d3}
    Conns = {c1}
    NoConn = NoConn
    ShardCount = 2
    Hash <- MCHash
    Keys = {k1}
    Watchers = {x1, x2}
    Guarded = {x1}
    Values <- MCValues
    Unset <- MCUnset
    MaxSets = 3
    Messages <- MCMessages
    MaxMsgs = 2
    MaxPacketSize = 22
    Noise = {0, 1, 2, 125, 126}
INIT Init
NEXT Next
\* Every component may run out of work: calls, messages and changes are bounded.
CHECK_DEADLOCK FALSE
INVARIANT AckedKept
INVARIANT PipelineSettles
INVARIANT QueryExact
INVARIANT DevicesKept
INVARIANT NothingDropped
INVARIANT DuplicatesExplained
INVARIANT OrderKept
INVARIANT WorkersAccounted
INVARIANT TotalExact
INVARIANT RangeSees
INVARIANT WatchersCurrent
INVARIANT OnlyWhatWasSent
INVARIANT OnlyOversizeRefused
