SPECIFICATION MCSpec
CONSTANTS
  Parts = {"wsFrames", "wsReuse", "wsPair", "wcOne", "wcTwo", "frame", "handshake", "routes",
           "dnsclients", "listeners", "smtpclient"}
  WsFds = {1, 2}
  WsUids = {1}
  WsOps = {"text", "cont", "ping", "close"}
  WsMaxGen = 3
  WsMaxFrames = 3
  WcOps = {"text", "cont", "ping", "close", "bad"}
  WcMaxConn = 2
  WcMaxFrames = 3
  WfLens = {0, 1, 125, 126, 127, 128, 65535, 65536}
  WfCuts = {1, 2, 5, 9, 130}
  WfMaxFrames = 2
  WfMaxPackets = 4
  WhRequests = 3
  WrNames = {"", "a", "b"}
  WrParams = {"x", "y"}
  WrMaxAdds = 3
  WrDepth = 2
  DcProcs = {1, 2}
  DcServers = {1}
  DcMaxQuery = 3
  DlMaxReq = 2
  DlQueueCap = 1
  ScMails <- ScMailsDef
  ScMXs <- ScMXsDef
  ScMaxTo = 2
  ScMaxMails = 5
  ScMaxSplits = 2
INVARIANTS NetTypeOK WsServerSound WsClientSound WsWireExact WrRouted DnsTransportSound ScSound
CHECK_DEADLOCK FALSE
