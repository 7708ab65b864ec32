CONSTANTS
    h1 = h1
    h2 = h2
    p1 = p1
    Hosts = {h1, h2}
    NoHost = NoHost
    Paths = {p1}
    NoPath = NoPath
    Reports <- MCReports
    PacketWorkers = 2
    Defaults <- MCDefaults
    InitConfigs <- MCInitConfigs
    Configs <- MCConfigs
    MaxReports = 3
    MaxDNS = 1
    MaxCalls = 2
SPECIFICATION FairSpec
INVARIANTS
    TypeOK
    EveryReportIsCountedOnce
    BufferIsBounded
    EventsAreAnnounced
    EventsAreSentOnce
PROPERTIES
    MapsAreBounded
    ReportsEnd
CHECK_DEADLOCK FALSE
