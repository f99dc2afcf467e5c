SPECIFICATION Spec
CONSTANTS
    n1 = n1
    n2 = n2
    n3 = n3
    NameServer = {n1, n2}
    TcpServer = {}
    Request = {r1}
    Config <- PrimaryAndFallback
    MaxGen = 2
    Cap = 1
    Nil = Nil
INVARIANT FallbackAvailable
CHECK_DEADLOCK FALSE
