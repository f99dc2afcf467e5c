-------------------------------- MODULE MCNet --------------------------------
(***************************************************************************)
(* The network side of the library in one run: websocket, the DNS clients  *)
(* and listeners, and the SMTP client.  The components below do not share  *)
(* state: a behaviour picks one of them, and where a component is too      *)
(* large for one set of bounds, one of its scenarios, and stays with it.   *)
(***************************************************************************)
EXTENDS WsServer, WsClient, WsFrame, WsHandshake, WsRoutes, DnsClients, DnsListeners, SmtpClient

CONSTANTS Parts
VARIABLE part

\* WsServer's scenarios: how many descriptors, connections and frames each has.
WsScenario == [wsFrames |-> [fds |-> 1, gens |-> 1, sent |-> 2],
               wsReuse  |-> [fds |-> 1, gens |-> 3, sent |-> 1],
               wsPair   |-> [fds |-> 2, gens |-> 2, sent |-> 1]]
WsPart ==
  /\ WsNext
  /\ LET s == WsScenario[part]
     IN /\ wsGens' <= s.gens /\ wsSent' <= s.sent
        /\ \A c \in WsFds : c > s.fds => ~wsSock'[c].open

\* WsClient's: the messages of one connection, and connections that follow each other.
WcScenario == [wcOne |-> [opened |-> 1, sent |-> 2], wcTwo |-> [opened |-> 2, sent |-> 1]]
WcPart == WcNext /\ wcOpened' <= WcScenario[part].opened /\ wcSent' <= WcScenario[part].sent

\* What the SMTP client sends, and the answers to its lookup of mail exchanges.
ScMailsDef == {[from |-> 1, to |-> <<"a">>], [from |-> 2, to |-> <<"b", "c">>], [from |-> 3, to |-> <<"a", "b", "c">>],
               [from |-> 4, to |-> <<>>]}
ScMXsDef == {<<>>, <<[pref |-> 5, host |-> "h5"], [pref |-> 10, host |-> "h10"]>>}

MCInit == /\ part \in Parts /\ WsInit /\ WcInit /\ WfInit /\ WhInit /\ WrInit
          /\ DcInit /\ DlInit /\ ScInit

MCNext ==
  /\ UNCHANGED part
  /\ IF part \in DOMAIN WsScenario THEN WsPart ELSE UNCHANGED wsVars
  /\ IF part \in DOMAIN WcScenario THEN WcPart ELSE UNCHANGED wcVars
  /\ IF part = "frame" THEN WfNext ELSE UNCHANGED wfVars
  /\ IF part = "handshake" THEN WhNext ELSE UNCHANGED whVars
  /\ IF part = "routes" THEN WrNext ELSE UNCHANGED wrVars
  /\ IF part = "dnsclients" THEN DcNext ELSE UNCHANGED dcVars
  /\ IF part = "listeners" THEN DlNext ELSE UNCHANGED dlVars
  /\ IF part = "smtpclient" THEN ScNext ELSE UNCHANGED scVars
MCSpec == MCInit /\ [][MCNext]_<<part, wsVars, wcVars, wfVars, whVars, wrVars, dcVars, dlVars, scVars>>

(* Every component's variables keep their types.                           *)
NetTypeOK == /\ WsTypeOK /\ WcTypeOK /\ WfTypeOK /\ WhTypeOK /\ WrTypeOK
             /\ DcTypeOK /\ DlTypeOK /\ ScTypeOK

(* What the websocket sends is read exactly, the handshake and the frames, *)
(* wherever the packets are cut and whatever the request before it left.   *)
WsWireExact == WfExact /\ WhAccepted

(* DNS transport: a query gets its own answer from a connection several    *)
(* goroutines use, the server notices a listener that fails and leaves no  *)
(* request behind when it stops.                                           *)
DnsTransportSound == DcMatched /\ DlNoticed /\ DlDrained
=============================================================================
