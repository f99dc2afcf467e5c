SPECIFICATION FairSpec
CONSTANTS
    Name = {n1}
    QType = {A}
    MsgId = {m1}
    AnswerId = {a1, a2}
    Forwarder = {f1, f2}
    Loader = Loader
    Pruner = Pruner
    Nil = Nil
    TTL = {2}
    LocalTTL = 2
    PruneThreshold = 3
    StepMax = 1
    MaxTime = 4
    ReloadWhileServing = FALSE
PROPERTY RequestLeaves
