SPECIFICATION FairSpec
CONSTANTS
    a = a
    b = b
    watcher = watcher
    gui = gui
    w1 = w1
    Files = {a, b}
    Stoppers = {watcher, gui}
    Locked = {watcher}
    Readers = {w1}
    MaxWrites = 4
CHECK_DEADLOCK FALSE
INVARIANTS
    TypeOK
PROPERTIES
    ListsInHandOnlyShrink
    StopsReturn
    ListsFollowTheDirectory
