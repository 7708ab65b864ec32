CONSTANTS
    k1 = k1
    k2 = k2
    p1 = p1
    Conns = {k1, k2}
    None = None
    Broken = Broken
    Posters = {p1}
    ChanSize = 1
    QueueSize = 1
    MaxAlerts = 2
    MaxFaults = 1
SPECIFICATION FairSpec
INVARIANTS
    TypeOK
PROPERTIES
    ImplementsAlertQueue
    Reconnects
CHECK_DEADLOCK FALSE
