CONSTANTS
    Tests = {t1, t2}
    MaxSockets = 2
    MaxDrops = 1
    NoTest = NoTest
    MaxMounts = 2
    Pings = 2
    MaxStreams = 2
    Chunks = 2
    Ports = {22, 53, 443, 65535, 65536}
    Timeouts = {30, 300, 301}
    Counts = {10, 1000, 1001}
    Names = {"google.com", "example.org"}
    WebTabs = {web1, web2}
    MaxLogins = 2
    MaxClicks = 2
    Ids = {a, b}
    Filters = {all_, online}
    AllFilter = all_
    MaxPages = 2
    MaxActs = 5
    None = None
    Devices = {d1, d2}
    TestTypes = {tcp, udp}
    Latencies = {0, 5}
    NoLatency = NoLatency
    MaxResults = 2
    DashboardLimit = 2
    Cut = 1
    WideCut = 2
SPECIFICATION FrontendsSpec
INVARIANTS RunningExplained ResultIsItsTests
    CancelledShowsNothing DownloadIsWhole AcceptedDownstream RequestFitsType
    RowsAreAskedFor UpdateIsOfItsUser ReportsAgree
PROPERTIES RunEnds CancelEnds LoginEndsByItsUser
CHECK_DEADLOCK FALSE
