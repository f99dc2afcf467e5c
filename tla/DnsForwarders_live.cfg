SPECIFICATION FairSpec
CONSTANTS
    n1 = n1
    n2 = n2
    n3 = n3
    NameServer = {n1, n2}
    TcpServer = {}
    Request = {r1, r2}
    Config <- RestartConfigs
    MaxGen = 2
    Cap = 1
    Nil = Nil
PROPERTIES RequestSettled StoppedEnds
CHECK_DEADLOCK FALSE
