SPECIFICATION Spec
CONSTANTS
    Conn = {c1, c2}
    ClientMode = {c1}
    LocalRcpt = {local}
    RemoteRcpt = {remote}
    BadRcpt = {bad}
    Sender = {sender}
    RetryMax = 1
    Cap = 1
    MaxRcpt = 2
    MaxTx = 1
    Nil = Nil
INVARIANTS
    TypeOK
    AuthenticatedMail
    AcceptedIsQueued
    BounceAfterRetries
CHECK_DEADLOCK FALSE
