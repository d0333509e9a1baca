SPECIFICATION ShutdownSpec
CONSTANTS
    demo = demo
    other = other
    web = web
    db = db
    sock = sock
    i1 = i1
    i2 = i2
    i3 = i3
    c1 = c1
    c2 = c2
    c3 = c3
    NoIp = NoIp
    NoConn = NoConn
    NoProject = NoProject
    Reaper = Reaper
    Nobody = Nobody
    Service <- MCService
    Conn <- MCConn
    Ip <- MCIp
    Failures <- CleanFailures
    Project <- MCProject
    TcpServices <- MCTcp
    UnixServices <- MCUnix
    ProxyTcp <- MCProxyTcp
CHECK_DEADLOCK FALSE
INVARIANTS
    HostsOutlive
    RoutesOutlive
    ExitIsClean
PROPERTIES
    ShutdownEnds
    LeaseTableSpec
