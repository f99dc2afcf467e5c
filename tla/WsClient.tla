------------------------------ MODULE WsClient ------------------------------
(***************************************************************************)
(* The WebSocket client of lib/websocket: one user goroutine that calls    *)
(* Connect, Send* and Quit, and the serve goroutine each Connect starts.   *)
(* They share conn, frame and frames of the Client; only Quit takes the    *)
(* lock.  Connections are numbered in the order they are opened, 0 is nil. *)
(* Frames are those of WsServer: whole, or cut into a head and a tail.     *)
(***************************************************************************)
EXTENDS Integers, Sequences, FiniteSets

CONSTANTS WcOps,       \* opcodes the server sends; "bad" is any frame isValid refuses
          WcMaxConn,   \* bound: connections opened
          WcMaxFrames  \* bound: frames the server sends

ASSUME WcAssumption == WcMaxConn \in Nat /\ WcMaxFrames \in Nat

VARIABLES wcConn, wcFrame, wcFrames, \* fields of Client
          wcOpened, wcOpen,  \* connections opened, and the set of those still open
          wcIn,      \* pieces in flight to the client, by connection
          wcHalf,    \* the frame of which only the head was sent, by connection
          wcUp,      \* connections the server has not closed
          wcServe,   \* serve goroutines: k -> [pc, on, todo]
          wcUser,    \* the user goroutine
          wcQuits, wcFailed, \* calls of HandleQuit; handshakes that failed
          wcRefused, \* connections on which handleBadRequest was called
          wcSent, wcGot \* frames sent, message last given to HandleText

wcVars == <<wcConn, wcFrame, wcFrames, wcOpened, wcOpen, wcIn, wcHalf, wcUp, wcServe, wcUser,
            wcQuits, wcFailed, wcRefused, wcSent, wcGot>>
wcNet == <<wcIn, wcHalf, wcUp, wcSent>>

WcIds == 1..WcMaxConn
WcNone == [op |-> "none", fin |-> FALSE, on |-> 0, n |-> 0]
WcIdle == [pc |-> "none", on |-> 0, todo |-> <<>>]

WcInit ==
  /\ wcConn = 0 /\ wcFrame = WcNone /\ wcFrames = <<>> /\ wcOpened = 0 /\ wcOpen = {}
  /\ wcIn = [k \in WcIds |-> <<>>] /\ wcHalf = [k \in WcIds |-> WcNone] /\ wcUp = WcIds
  /\ wcServe = [k \in WcIds |-> WcIdle] /\ wcUser = "idle"
  /\ wcQuits = 0 /\ wcFailed = 0 /\ wcRefused = {} /\ wcSent = 0 /\ wcGot = <<>>

-----------------------------------------------------------------------------
(* The server at the other end.                                            *)

WcServerSend == \E k \in wcOpen, op \in WcOps, fin, whole \in BOOLEAN :
  LET f == [op |-> op, fin |-> fin, on |-> k, n |-> wcSent + 1]
  IN /\ k \in wcUp /\ wcHalf[k] = WcNone /\ wcSent < WcMaxFrames
     /\ op \notin {"text", "cont"} => fin
     /\ wcSent' = wcSent + 1
     /\ wcIn' = [wcIn EXCEPT ![k] = Append(@, [f |-> f, part |-> IF whole THEN "whole" ELSE "head"])]
     /\ wcHalf' = [wcHalf EXCEPT ![k] = IF whole THEN WcNone ELSE f]
     /\ UNCHANGED <<wcConn, wcFrame, wcFrames, wcOpened, wcOpen, wcUp, wcServe, wcUser, wcQuits, wcFailed, wcRefused, wcGot>>

WcServerRest == \E k \in wcOpen :
  /\ k \in wcUp /\ wcHalf[k] # WcNone
  /\ wcIn' = [wcIn EXCEPT ![k] = Append(@, [f |-> wcHalf[k], part |-> "tail"])]
  /\ wcHalf' = [wcHalf EXCEPT ![k] = WcNone]
  /\ UNCHANGED <<wcConn, wcFrame, wcFrames, wcOpened, wcOpen, wcUp, wcServe, wcUser, wcQuits, wcFailed, wcRefused, wcSent, wcGot>>

WcServerClose == \E k \in wcOpen \cap wcUp :
  /\ wcUp' = wcUp \ {k}
  /\ UNCHANGED <<wcConn, wcFrame, wcFrames, wcOpened, wcOpen, wcIn, wcHalf, wcServe, wcUser, wcQuits, wcFailed, wcRefused, wcSent, wcGot>>

-----------------------------------------------------------------------------
(* Quit: under the lock, nothing when conn is nil; HandleQuit after it.    *)

\* Mutant of WcQuit: HandleQuit is called for a nil conn too.
WcQuitAlways == wcConn' = 0 /\ wcOpen' = wcOpen \ {wcConn} /\ wcQuits' = wcQuits + 1

WcQuit ==
  /\ wcConn' = 0 /\ wcOpen' = wcOpen \ {wcConn}
  /\ wcQuits' = IF wcConn = 0 THEN wcQuits ELSE wcQuits + 1

\* Connect on a client that is connected quits first; frame and frames stay as they are.
WcConnect ==
  /\ wcUser = "idle" /\ wcOpened < WcMaxConn
  /\ wcUser' = "open" /\ WcQuit
  /\ UNCHANGED <<wcFrame, wcFrames, wcOpened, wcNet, wcServe, wcFailed, wcRefused, wcGot>>

WcOpen == \E ok \in BOOLEAN :
  /\ wcUser = "open"
  /\ IF ok
     THEN /\ wcOpened' = wcOpened + 1 /\ wcConn' = wcOpened + 1
          /\ wcOpen' = wcOpen \cup {wcOpened + 1} /\ wcUser' = "handshake"
     ELSE wcUser' = "idle" /\ UNCHANGED <<wcOpened, wcConn, wcOpen>>
  /\ UNCHANGED <<wcFrame, wcFrames, wcNet, wcServe, wcQuits, wcFailed, wcRefused, wcGot>>

\* Connect closes the connection itself when the handshake fails.  Else the frames that came with
\* the response are handled, and serve goes on from there unless they closed the client.  Meanwhile
\* a serve of an earlier Connect may have called Quit: conn is nil.
WcHandshake == \E ok \in BOOLEAN :
  /\ wcUser = "handshake"
  /\ IF ok /\ wcConn # 0
     THEN /\ wcServe' = [wcServe EXCEPT ![wcOpened] = [pc |-> "frames", on |-> wcConn, todo |-> wcIn[wcConn]]]
          /\ wcIn' = [wcIn EXCEPT ![wcConn] = <<>>]
          /\ wcUser' = "idle" /\ UNCHANGED <<wcConn, wcOpen, wcFailed>>
     ELSE /\ wcUser' = IF wcConn = 0 THEN "panic" ELSE "idle"
          /\ wcFailed' = wcFailed + (IF wcConn = 0 THEN 0 ELSE 1)
          /\ wcConn' = 0 /\ wcOpen' = wcOpen \ {wcConn} /\ UNCHANGED <<wcServe, wcIn>>
  /\ UNCHANGED <<wcFrame, wcFrames, wcOpened, wcHalf, wcUp, wcSent, wcQuits, wcRefused, wcGot>>

WcUserQuit ==
  /\ wcUser = "idle" /\ wcConn # 0 /\ WcQuit
  /\ UNCHANGED <<wcFrame, wcFrames, wcOpened, wcNet, wcServe, wcUser, wcFailed, wcRefused, wcGot>>

\* send tests conn, and uses it later without the lock: a Quit in between is a nil dereference.
WcSendCheck ==
  /\ wcUser = "idle" /\ wcConn # 0 /\ wcUser' = "sending"
  /\ UNCHANGED <<wcConn, wcFrame, wcFrames, wcOpened, wcOpen, wcNet, wcServe, wcQuits, wcFailed, wcRefused, wcGot>>

WcSendWrite ==
  /\ wcUser = "sending" /\ wcUser' = IF wcConn = 0 THEN "panic" ELSE "idle"
  /\ UNCHANGED <<wcConn, wcFrame, wcFrames, wcOpened, wcOpen, wcNet, wcServe, wcQuits, wcFailed, wcRefused, wcGot>>

-----------------------------------------------------------------------------
(* serve.                                                                  *)

WcSet(k, pc, on, todo) == wcServe' = [wcServe EXCEPT ![k] = [pc |-> pc, on |-> on, todo |-> todo]]

\* recv takes whatever conn is now: after a Connect that may be another connection than its own.
WcRecvStart(k) ==
  /\ wcServe[k].pc = "recv"
  /\ WcSet(k, IF wcConn = 0 THEN "quit" ELSE "read", wcConn, <<>>)
  /\ UNCHANGED <<wcConn, wcFrame, wcFrames, wcOpened, wcOpen, wcNet, wcUser, wcQuits, wcFailed, wcRefused, wcGot>>

\* Read: an end of stream or a closed connection gives an empty packet.
WcRead(k) ==
  LET c == wcServe[k].on
      pieces == IF c \in wcOpen THEN wcIn[c] ELSE <<>>
  IN /\ wcServe[k].pc = "read"
     /\ pieces # <<>> \/ c \notin wcUp \/ c \notin wcOpen
     /\ WcSet(k, IF pieces = <<>> THEN "quit" ELSE "frames", c, pieces)
     /\ wcIn' = [wcIn EXCEPT ![c] = <<>>]
     /\ UNCHANGED <<wcConn, wcFrame, wcFrames, wcOpened, wcOpen, wcHalf, wcUp, wcSent, wcUser, wcQuits, wcFailed, wcRefused, wcGot>>

\* The next frame of the packet; a tail without its own head spells any frame.
WcUnpacked(p) == IF p.part = (IF wcFrame = WcNone THEN "whole" ELSE "tail") /\ wcFrame \in {WcNone, p.f}
                 THEN {p.f} ELSE [op : WcOps, fin : {TRUE}, on : {0}, n : {0}]

\* Mutant of WcHandleFragment: only the payload of the last fragment is handed over.
WcHandleFragmentLast(k, f) ==
  /\ WcSet(k, "frames", wcServe[k].on, Tail(wcServe[k].todo))
  /\ wcFrames' = IF f.fin THEN <<>> ELSE Append(wcFrames, f)
  /\ wcGot' = IF f.fin THEN <<f>> ELSE wcGot
  /\ UNCHANGED <<wcConn, wcOpen, wcQuits, wcRefused>>

\* handleFragment, then HandleText or HandleBin.
WcHandleFragment(k, f) ==
  /\ WcSet(k, "frames", wcServe[k].on, Tail(wcServe[k].todo))
  /\ wcFrames' = IF f.fin THEN <<>> ELSE Append(wcFrames, f)
  /\ wcGot' = IF f.fin THEN Append(wcFrames, f) ELSE wcGot
  /\ UNCHANGED <<wcConn, wcOpen, wcQuits, wcRefused>>

\* handleBadRequest and handleInvalidData answer; serve returns and leaves the connection open.
WcBadRequest(k) ==
  /\ WcSet(k, "done", 0, <<>>) /\ wcRefused' = wcRefused \cup {wcConn}
  /\ UNCHANGED <<wcConn, wcOpen, wcQuits, wcFrames, wcGot>>

\* clientOnClose answers with a close frame and quits.
WcOnClose(k) == WcSet(k, "done", 0, <<>>) /\ WcQuit /\ UNCHANGED <<wcFrames, wcRefused, wcGot>>

WcHandleFrame(k, f) ==
  IF f.op \in {"text", "cont"} /\ (wcFrames = <<>>) # (f.op = "cont") THEN WcHandleFragment(k, f)
  ELSE IF f.op = "close" THEN WcOnClose(k)
  ELSE IF f.op = "ping" THEN /\ WcSet(k, "frames", wcServe[k].on, Tail(wcServe[k].todo))
                             /\ UNCHANGED <<wcConn, wcOpen, wcQuits, wcFrames, wcRefused, wcGot>>
  ELSE WcBadRequest(k)

WcFrameStep(k) ==
  LET s == wcServe[k]
  IN /\ s.pc = "frames" /\ s.todo # <<>>
     /\ IF Head(s.todo).part = "head"
        THEN /\ wcFrame' = Head(s.todo).f /\ WcSet(k, "frames", s.on, Tail(s.todo))
             /\ UNCHANGED <<wcConn, wcOpen, wcQuits, wcFrames, wcRefused, wcGot>>
        ELSE wcFrame' = WcNone /\ \E f \in WcUnpacked(Head(s.todo)) : WcHandleFrame(k, f)
     /\ UNCHANGED <<wcOpened, wcNet, wcUser, wcFailed>>

WcAgain(k) ==
  /\ wcServe[k].pc = "frames" /\ wcServe[k].todo = <<>>
  /\ WcSet(k, "recv", 0, <<>>)
  /\ UNCHANGED <<wcConn, wcFrame, wcFrames, wcOpened, wcOpen, wcNet, wcUser, wcQuits, wcFailed, wcRefused, wcGot>>

\* Mutant of WcServeQuit: serve returns without Quit.
WcServeQuitNot(k) ==
  /\ wcServe[k].pc = "quit" /\ WcSet(k, "done", 0, <<>>)
  /\ UNCHANGED <<wcConn, wcOpen, wcQuits, wcFrame, wcFrames, wcOpened, wcNet, wcUser, wcFailed, wcRefused, wcGot>>

WcServeQuit(k) ==
  /\ wcServe[k].pc = "quit"
  /\ WcQuit /\ WcSet(k, "done", 0, <<>>)
  /\ UNCHANGED <<wcFrame, wcFrames, wcOpened, wcNet, wcUser, wcFailed, wcRefused, wcGot>>

WcServeStep(k) == WcRecvStart(k) \/ WcRead(k) \/ WcFrameStep(k) \/ WcAgain(k) \/ WcServeQuit(k)

WcNext == wcUser # "panic" /\
          (\/ WcServerSend \/ WcServerRest \/ WcServerClose
           \/ WcConnect \/ WcOpen \/ WcHandshake \/ WcUserQuit \/ WcSendCheck \/ WcSendWrite
           \/ \E k \in WcIds : WcServeStep(k))
WcSpec == WcInit /\ [][WcNext]_wcVars

-----------------------------------------------------------------------------

WcTypeOK == /\ wcConn \in 0..WcMaxConn /\ wcOpened \in 0..WcMaxConn /\ wcOpen \subseteq 1..wcOpened
            /\ \A k \in WcIds : wcServe[k].pc \in {"none", "recv", "read", "frames", "quit", "done"}
            /\ wcUser \in {"idle", "open", "handshake", "sending", "panic"} /\ wcSent \in 0..WcMaxFrames

(* Quit, which the user and any number of serve goroutines may call at     *)
(* once, closes a connection once: at every moment the only socket that is *)
(* open is the one conn names, and each one that was closed was announced  *)
(* by one HandleQuit or is a handshake that failed.                        *)
WcNoLeak == /\ wcOpen = {wcConn} \ {0}
            /\ wcOpened = Cardinality(wcOpen) + wcQuits + wcFailed

(* A connection is not forgotten: while the client has one, Connect is     *)
(* still at work on it or a serve goroutine is there to read it, except    *)
(* after a bad request, when serve returns without Quit.                   *)
WcAttended == wcConn # 0 /\ wcConn \notin wcRefused =>
                \/ wcUser = "handshake"
                \/ \E k \in WcIds : wcServe[k].pc \notin {"none", "done"}

(* The first connection's messages arrive as they were sent: fragments in  *)
(* order, from the first to the last, chopped or not.                      *)
WcReassembled == (\A i \in DOMAIN wcGot : wcGot[i].on \in {0, 1}) /\ wcOpened <= 1 =>
  /\ \A i \in DOMAIN wcGot : /\ (wcGot[i].op = "cont") = (i > 1)
                             /\ wcGot[i].fin = (i = Len(wcGot)) /\ wcGot[i].on = 1
  /\ \A i, j \in DOMAIN wcGot : i < j => wcGot[i].n < wcGot[j].n

(* The client and its connections: whoever calls Quit, and whenever, no    *)
(* socket is lost or left without a reader, and what is read is delivered. *)
WsClientSound == WcNoLeak /\ WcAttended /\ WcReassembled
=============================================================================
