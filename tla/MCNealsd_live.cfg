SPECIFICATION FairSpec
CONSTANTS
    demo = demo
    other = other
    web = web
    db = db
    sock = sock
    i1 = i1
    i2 = i2
    i3 = i3
    c1 = c1
    c2 = c2
    c3 = c3
    NoIp = NoIp
    NoConn = NoConn
    NoProject = NoProject
    Reaper = Reaper
    Nobody = Nobody
    Service <- MCService
    Conn <- MCConn3
    Ip <- MCIp2
    Failures <- ExitOnly
    Project <- MCProject1
    TcpServices <- MCTcp1
    UnixServices <- MCUnix1
    ProxyTcp <- MCTcp1
PROPERTIES
    RequestsAnswered
    DeadIsReaped
