CONSTANTS
    node1 = node1
    node2 = node2
    looper = looper
    s1 = s1
    s2 = s2
    d1 = d1
    Names = {node1, node2, looper}
    Kind <- MCKind
    Sessions = {s1, s2}
    Disk = {d1}
    Main = Main
    NoName = NoName
    MaxTasks = 3
    MaxCalls = 3
SPECIFICATION FairSpec
INVARIANTS
    TypeOK
    RemovedTasksAreStopped
    ListedTasksRun
PROPERTIES
    TempTasksAreStopped
    StopsEnd
CHECK_DEADLOCK FALSE
