CONSTANTS
    Nil = Nil
    Tasks = {t1, t2}
    Goroutines = {w1, w2, w3, w4, w5}
    InitialWorkers = {w1}
    MaxWorkers = 2
    QueueSize = 1
SPECIFICATION FairSpec
INVARIANT OvershootBounded
PROPERTY ImplementsTaskQueue
PROPERTY StopReturns
