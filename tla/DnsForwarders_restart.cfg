SPECIFICATION Spec
CONSTANTS
    n1 = n1
    n2 = n2
    n3 = n3
    NameServer = {n1, n2, n3}
    TcpServer = {n3}
    Request = {r1, r2}
    Config <- MixedConfigs
    MaxGen = 2
    Cap = 1
    Nil = Nil
SYMMETRY RequestSymmetry
INVARIANTS TypeOK OneHolder FwnBound
PROPERTY ReplyOnce
CHECK_DEADLOCK FALSE
