SPECIFICATION FairSpec
CONSTANTS
    Conn = {c1}
    ClientMode = {c1}
    LocalRcpt = {local}
    RemoteRcpt = {}
    BadRcpt = {}
    Sender = {sender}
    RetryMax = 1
    Cap = 1
    MaxRcpt = 2
    MaxTx = 1
    Nil = Nil
PROPERTY MailProcessed
CHECK_DEADLOCK FALSE
