CONSTANTS
    s1 = s1
    s2 = s2
    k1 = k1
    Senders = {s1, s2}
    Closers = {k1}
    Cap = 2
    MaxSends = 2
    WriteTimeout = FALSE
SPECIFICATION FairSpec
INVARIANT NoPanic
INVARIANT OneWriter
PROPERTY ImplementsOutbox
PROPERTY CloseCompletes
PROPERTY AcceptedIsWritten
