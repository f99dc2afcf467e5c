SPECIFICATION Spec
CONSTANTS
    Name = {n1}
    QType = {A, AAAA}
    MsgId = {m1}
    AnswerId = {a1, a2, a3}
    Forwarder = {f1}
    Loader = Loader
    Pruner = Pruner
    Nil = Nil
    TTL = {2}
    LocalTTL = 2
    PruneThreshold = 3
    StepMax = 1
    MaxTime = 5
    ReloadWhileServing = FALSE
SYMMETRY AnswerSymmetry
INVARIANTS
    TypeOK
    AnswersUnique
    LruMatchesMap
    TTLNotOverstated
    LocalNeverPruned
    NoNilMessage
