----------------------------- MODULE DnsClients -----------------------------
(***************************************************************************)
(* UDPClient, TCPClient, DoTClient, DoHClient and UDPClientPool of         *)
(* lib/dns: goroutines that Lookup names over one client or over clients   *)
(* of a pool, and a network that delays, loses and reorders datagrams, or  *)
(* cuts a stream where it likes.  A query is its number; a name server     *)
(* answers a query with a reply of the same number.                        *)
(***************************************************************************)
EXTENDS Integers, Sequences, FiniteSets

CONSTANTS DcProcs,   \* goroutines
          DcServers, \* name servers of the pool: 1..n
          DcMaxQuery \* bound: calls of Lookup
ASSUME DcAssumption == /\ DcMaxQuery \in Nat /\ IsFiniteSet(DcProcs) /\ 0 \notin DcProcs
                       /\ IsFiniteSet(DcServers) /\ DcServers = 1..Cardinality(DcServers)

VARIABLES dcKind,   \* "none", "udp", "tcp" (DoT is the same), "doh" or "pool"
          dcUsers,  \* goroutines that use it
          dcClient, \* goroutine -> client it uses, 0 for none; the clients of the pool are numbered
          dcPool, dcMade, dcSeq, \* clients in the pool; clients made; ucp.seq
          dcLock,   \* client -> the goroutine that holds its mutex, 0 for none
          dcCall,   \* goroutine -> [pc, query, sent], the query of the call and the one that was sent
          dcQueries, dcShared, \* calls so far; the query in cl.req of a DoHClient
          dcWire,   \* client -> queries the server has not answered yet
          dcIn,     \* client -> replies that can be read, [query, part], in the order they came
          dcGot,    \* query -> the reply its Lookup returned, 0 for none, -1 for an error
          dcFault   \* a read timed out, or a stream was cut inside a message

dcVars == <<dcKind, dcUsers, dcClient, dcPool, dcMade, dcSeq, dcLock, dcCall, dcQueries, dcShared, dcWire, dcIn, dcGot, dcFault>>
dcPoolVars == <<dcKind, dcUsers, dcClient, dcPool, dcMade, dcSeq>>

DcClients == 1..(Cardinality(DcServers) + Cardinality(DcProcs))
DcQuery == 1..DcMaxQuery
DcIdle == [pc |-> "idle", query |-> 0, sent |-> 0]

DcInit ==
  /\ dcKind = "none" /\ dcUsers = {} /\ dcClient = [p \in DcProcs |-> 0] /\ dcPool = {} /\ dcMade = 0 /\ dcSeq = 0
  /\ dcLock = [c \in DcClients |-> 0] /\ dcCall = [p \in DcProcs |-> DcIdle] /\ dcQueries = 0 /\ dcShared = 0
  /\ dcWire = [c \in DcClients |-> {}] /\ dcIn = [c \in DcClients |-> <<>>]
  /\ dcGot = [q \in DcQuery |-> 0] /\ dcFault = FALSE

\* NewUDPClient, NewTCPClient, NewDoTClient, NewDoHClient: one client, shared by the users;
\* NewUDPClientPool: one client for every name server.
DcNew == \E kind \in {"udp", "tcp", "doh", "pool"}, users \in (SUBSET DcProcs) \ {{}} :
  /\ dcKind = "none" /\ dcKind' = kind /\ dcUsers' = users
  /\ dcMade' = IF kind = "pool" THEN Cardinality(DcServers) ELSE 1
  /\ dcPool' = IF kind = "pool" THEN DcServers ELSE {}
  /\ dcClient' = [p \in DcProcs |-> IF p \in users /\ kind # "pool" THEN 1 ELSE 0]
  /\ UNCHANGED <<dcSeq, dcLock, dcCall, dcQueries, dcShared, dcWire, dcIn, dcGot, dcFault>>

\* Get: any client of the pool; sync.Pool may also forget them and call newClient.
DcGet == \E p \in dcUsers :
  /\ dcKind = "pool" /\ dcClient[p] = 0
  /\ \/ \E c \in dcPool : dcClient' = [dcClient EXCEPT ![p] = c] /\ dcPool' = dcPool \ {c} /\ UNCHANGED <<dcMade, dcSeq>>
     \/ /\ dcMade + 1 \in DcClients /\ dcClient' = [dcClient EXCEPT ![p] = dcMade + 1] /\ dcMade' = dcMade + 1
        /\ dcSeq' = (dcSeq % Cardinality(DcServers)) + 1 /\ UNCHANGED dcPool
  /\ UNCHANGED <<dcKind, dcUsers, dcLock, dcCall, dcQueries, dcShared, dcWire, dcIn, dcGot, dcFault>>
DcPut == \E p \in dcUsers :
  /\ dcKind = "pool" /\ dcClient[p] # 0 /\ dcCall[p] = DcIdle
  /\ dcPool' = dcPool \cup {dcClient[p]} /\ dcClient' = [dcClient EXCEPT ![p] = 0]
  /\ UNCHANGED <<dcKind, dcUsers, dcMade, dcSeq, dcLock, dcCall, dcQueries, dcShared, dcWire, dcIn, dcGot, dcFault>>

\* Lookup: a message with a new ID is packed.  A DoHClient puts it into the request that all share.
DcLookup == \E p \in dcUsers :
  /\ dcClient[p] # 0 /\ dcCall[p] = DcIdle /\ dcQueries < DcMaxQuery
  /\ dcQueries' = dcQueries + 1 /\ dcCall' = [dcCall EXCEPT ![p] = [pc |-> "query", query |-> dcQueries + 1, sent |-> 0]]
  /\ dcShared' = IF dcKind = "doh" THEN dcQueries + 1 ELSE dcShared
  /\ UNCHANGED <<dcPoolVars, dcLock, dcWire, dcIn, dcGot, dcFault>>

\* Query: a UDPClient is locked over write and read; the others are not.  What is sent is the
\* packet, or for DoH the shared request.
\* Mutant of DcMayWrite: without the lock.
DcMayWriteFree(p, c) == dcClient[p] = c
DcMayWrite(p, c) == dcClient[p] = c /\ (dcKind \in {"udp", "pool"} => dcLock[c] = 0)
DcWrite == \E p \in dcUsers, c \in DcClients :
  /\ dcCall[p].pc = "query" /\ DcMayWrite(p, c)
  /\ dcLock' = IF dcKind \in {"udp", "pool"} THEN [dcLock EXCEPT ![c] = p] ELSE dcLock
  /\ LET sent == IF dcKind = "doh" THEN dcShared ELSE dcCall[p].query
     IN /\ dcWire' = [dcWire EXCEPT ![c] = @ \cup {sent}]
        /\ dcCall' = [dcCall EXCEPT ![p] = [@ EXCEPT !.pc = "read", !.sent = sent]]
  /\ UNCHANGED <<dcPoolVars, dcQueries, dcShared, dcIn, dcGot, dcFault>>

\* The server answers.  A stream may bring the reply in two pieces.
DcReply == \E c \in DcClients : \E q \in dcWire[c] :
  /\ dcWire' = [dcWire EXCEPT ![c] = @ \ {q}]
  /\ \/ dcIn' = [dcIn EXCEPT ![c] = Append(@, [query |-> q, part |-> "all"])] /\ UNCHANGED dcFault
     \/ /\ dcKind = "tcp" /\ dcFault' = TRUE
        /\ dcIn' = [dcIn EXCEPT ![c] = @ \o <<[query |-> q, part |-> "head"], [query |-> q, part |-> "tail"]>>]
  /\ UNCHANGED <<dcPoolVars, dcLock, dcCall, dcQueries, dcShared, dcGot>>
DcLose == \E c \in DcClients : \E q \in dcWire[c] :
  /\ dcKind \in {"udp", "pool"} /\ dcWire' = [dcWire EXCEPT ![c] = @ \ {q}]
  /\ UNCHANGED <<dcPoolVars, dcLock, dcCall, dcQueries, dcShared, dcIn, dcGot, dcFault>>

DcReturn(p, got) ==
  /\ dcGot' = [dcGot EXCEPT ![dcCall[p].query] = got] /\ dcCall' = [dcCall EXCEPT ![p] = DcIdle]
  /\ dcLock' = [c \in DcClients |-> IF dcLock[c] = p THEN 0 ELSE dcLock[c]]
\* What Unpack makes of the bytes: a piece of a message is an error.
DcUnpack(r) == IF r.part = "all" THEN r.query ELSE -1

\* recv: a datagram, whichever came first; from a stream n messages that came together, of which
\* Unpack sees the first.
DcRecv == \E p \in dcUsers, c \in DcClients, n \in 1..2 :
  /\ dcCall[p].pc = "read" /\ dcClient[p] = c /\ dcKind # "doh" /\ n <= Len(dcIn[c]) /\ (n > 1 => dcKind = "tcp")
  /\ DcReturn(p, DcUnpack(dcIn[c][1])) /\ dcIn' = [dcIn EXCEPT ![c] = SubSeq(@, n + 1, Len(@))]
  /\ UNCHANGED <<dcPoolVars, dcQueries, dcShared, dcWire, dcFault>>
\* Get of DoH: HTTP brings the reply to what this call sent.
DcRecvDoH == \E p \in dcUsers, c \in DcClients : \E i \in 1..Len(dcIn[c]) :
  /\ dcCall[p].pc = "read" /\ dcClient[p] = c /\ dcKind = "doh" /\ dcIn[c][i].query = dcCall[p].sent
  /\ DcReturn(p, DcUnpack(dcIn[c][i]))
  /\ UNCHANGED <<dcPoolVars, dcQueries, dcShared, dcWire, dcIn, dcFault>>
DcTimeout == \E p \in dcUsers :
  /\ dcCall[p].pc = "read" /\ DcReturn(p, -1) /\ dcFault' = TRUE
  /\ UNCHANGED <<dcPoolVars, dcQueries, dcShared, dcWire, dcIn>>

DcNext == DcNew \/ DcGet \/ DcPut \/ DcLookup \/ DcWrite \/ DcReply \/ DcLose \/ DcRecv \/ DcRecvDoH \/ DcTimeout
DcSpec == DcInit /\ [][DcNext]_dcVars

-----------------------------------------------------------------------------
DcTypeOK == /\ dcQueries \in 0..DcMaxQuery /\ dcPool \subseteq DcClients /\ dcMade \in 0..Cardinality(DcClients)
            /\ \A p \in DcProcs : dcCall[p].pc \in {"idle", "query", "read"} /\ dcClient[p] \in DcClients \cup {0}
            /\ \A q \in DcQuery : dcGot[q] \in -1..dcQueries

(* The clients do not compare the ID of the reply with that of the query,  *)
(* so it is the protocol that has to bring the right one.  A Lookup over a *)
(* UDP client or a client of the pool, by however many goroutines, returns *)
(* the reply to its own query, and so does the one user of another client; *)
(* as long as no read has timed out and no message came in two pieces.     *)
DcMatched == ~dcFault /\ (dcKind \in {"udp", "pool"} \/ Cardinality(dcUsers) = 1) =>
  \A q \in DcQuery : dcGot[q] \in {0, q}

(* Lookup of a TCP client is safe to be used concurrently: every goroutine *)
(* gets the reply to its own query.                                        *)
DcTcpMatched == ~dcFault /\ dcKind = "tcp" => \A q \in DcQuery : dcGot[q] \in {0, q}
=============================================================================
