CONSTANTS
    a = a
    b = b
    w1 = w1
    w2 = w2
    l1 = l1
    Paths = {a, b}
    Parents = {a}
    Comm = Comm
    NoPath = NoPath
    Workers = {w1, w2}
    Lookers = {l1}
    MaxExecs = 4
    MaxBorn = 2
SPECIFICATION FairSpec
INVARIANTS
    TypeOK
    HandledProcessIsInStore
    SoleHandlerWins
PROPERTIES
    DeadEntriesGo
CHECK_DEADLOCK FALSE
