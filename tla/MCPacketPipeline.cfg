CONSTANTS
    p1 = p1
    p2 = p2
    p3 = p3
    c1 = c1
    c2 = c2
    Packets = {p1, p2, p3}
    Conns = {c1, c2}
    ConOf <- MCConOf
    Bytes <- MCBytes
    Workers = {w1, w2}
    ConnectedAction = "deny"
    DisconnectedAction = "allow"
    NoPacket = NoPacket
SPECIFICATION FairSpec
INVARIANTS
    TypeOK
    OneAsker
    VerdictIsAwaited
    VerdictIsForItsConnection
    NoPacketIsLost
PROPERTIES
    MainQueueAdvances
    AskingEnds
