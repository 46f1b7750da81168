SPECIFICATION FairSpec
CONSTANTS
    u = u
    t = t
    Clients = {u, t}
    Tcp = {t}
    Readers = {u}
    MaxQueued = 1
INVARIANTS
    TypeOK
    FaultNeedsClose
    RequestChannelOutlivesBatch
    NoStrayAnswer
PROPERTIES
    Reclaimed
\* A daemon that has crashed takes no step, and neither has one to take when
\* every client is gone.
CHECK_DEADLOCK FALSE
