------------------------------ MODULE WsServer ------------------------------
(***************************************************************************)
(* The WebSocket server of lib/websocket: the ClientManager, the epoll     *)
(* set, and the goroutines that share them.  The upgrader adds the clients,*)
(* the reader serves their frames, the pinger and the goroutine that       *)
(* answers a text message remove a client whose socket fails.  File        *)
(* descriptors are reused by the kernel, lowest free first; gen tells the  *)
(* connections that had the same descriptor apart.                         *)
(*                                                                         *)
(* A frame is [op, fin, gen, n, safe]: n is its place among the frames its *)
(* client sent, safe says that every byte of that client was sent after    *)
(* ClientManager.add and on a descriptor no other connection had before.   *)
(* A read returns the pieces that arrived: a whole frame, or the head or   *)
(* the tail of one.                                                        *)
(***************************************************************************)
EXTENDS Integers, Sequences, FiniteSets, SequencesExt

CONSTANTS WsFds,       \* descriptors the kernel hands out
          WsUids,      \* user ids in a context, 0 for none
          WsOps,       \* opcodes a client may send; "bad" is any frame isValid refuses
          WsMaxGen,    \* bound: connections accepted
          WsMaxFrames  \* bound: frames all clients send together

ASSUME WsAssumption == WsFds \subseteq Nat /\ 0 \notin WsFds /\ IsFiniteSet(WsFds)
                       /\ WsUids \subseteq Nat /\ WsMaxGen \in Nat /\ WsMaxFrames \in Nat

VARIABLES wsSock,    \* kernel: fd -> [open, gen, up, in, half, safe]
          wsPoll,    \* epoll: fd -> "none", "armed" or "fired" (EPOLLONESHOT)
          wsAll, wsConns, wsCtx, wsFrame, wsFrames, \* the fields of ClientManager
          wsChan,    \* chUpgrade
          wsPc, wsFd, \* where each goroutine is, and its conn
          wsBatch,   \* fds the reader got from WaitRead and has not served yet
          wsTodo,    \* the rest of the packet the reader is working on
          wsClosing, \* the reader's isClosing
          wsHeld,    \* the accept loop's conn, 0 when it waits in Accept
          wsPing,    \* the pinger's copy of all
          wsGens, wsSent, \* connections accepted and frames sent so far
          wsGot,     \* the message last given to HandleText or HandleBin: [frags, member]
          wsStop     \* "run", "stopped", or "panic"

wsMgr == <<wsAll, wsConns, wsCtx, wsFrame, wsFrames>>
wsVars == <<wsSock, wsPoll, wsAll, wsConns, wsCtx, wsFrame, wsFrames, wsChan, wsPc, wsFd,
            wsBatch, wsTodo, wsClosing, wsHeld, wsPing, wsGens, wsSent, wsGot, wsStop>>

WsThreads == {"upgrader", "reader", "pinger", "text"}
WsNone == [op |-> "none", fin |-> FALSE, gen |-> 0, n |-> 0, safe |-> FALSE]
WsClosed == [open |-> FALSE, gen |-> 0, up |-> FALSE, in |-> <<>>, half |-> WsNone, safe |-> FALSE]

WsInit ==
  /\ wsSock = [c \in WsFds |-> WsClosed] /\ wsPoll = [c \in WsFds |-> "none"]
  /\ wsAll = <<>> /\ wsConns = [u \in WsUids \ {0} |-> <<>>]
  /\ wsCtx = [c \in WsFds |-> -1]
  /\ wsFrame = [c \in WsFds |-> WsNone] /\ wsFrames = [c \in WsFds |-> <<>>]
  /\ wsChan = <<>> /\ wsPc = [t \in WsThreads |-> "idle"] /\ wsFd = [t \in WsThreads |-> 0]
  /\ wsBatch = <<>> /\ wsTodo = <<>> /\ wsClosing = FALSE /\ wsHeld = 0 /\ wsPing = <<>>
  /\ wsGens = 0 /\ wsSent = 0 /\ wsGot = [frags |-> <<>>, member |-> FALSE] /\ wsStop = "run"

WsGoOn(t, pc, c) == wsPc' = [wsPc EXCEPT ![t] = pc] /\ wsFd' = [wsFd EXCEPT ![t] = IF pc = "idle" THEN 0 ELSE c]
WsGo(t, pc) == WsGoOn(t, pc, wsFd[t])
\* A write fails on a closed descriptor, may fail once the peer has gone, and may not otherwise.
WsSendOutcomes(c) == IF ~wsSock[c].open THEN {"err"} ELSE IF wsSock[c].up THEN {"ok"} ELSE {"ok", "err"}

-----------------------------------------------------------------------------
(* The clients.                                                            *)

WsPeerSend == \E c \in WsFds, op \in WsOps, fin \in BOOLEAN, whole \in BOOLEAN :
  LET s == wsSock[c]
      safe == s.safe /\ wsCtx[c] # -1
      f == [op |-> op, fin |-> fin, gen |-> s.gen, n |-> wsSent + 1, safe |-> safe]
  IN /\ s.open /\ s.up /\ s.half = WsNone /\ wsSent < WsMaxFrames /\ wsSent' = wsSent + 1
     /\ op \notin {"text", "cont"} => fin
     /\ wsPoll[c] # "none"
     /\ wsSock' = [wsSock EXCEPT ![c] =
          [s EXCEPT !.in = Append(s.in, [f |-> f, part |-> IF whole THEN "whole" ELSE "head"]),
                    !.half = IF whole THEN WsNone ELSE f, !.safe = safe]]
     /\ UNCHANGED <<wsPoll, wsMgr, wsChan, wsPc, wsFd, wsBatch, wsTodo, wsClosing, wsHeld, wsPing, wsGens, wsGot, wsStop>>

WsPeerRest == \E c \in WsFds :
  LET s == wsSock[c]
  IN /\ s.open /\ s.up /\ s.half # WsNone
     /\ wsSock' = [wsSock EXCEPT ![c] =
          [s EXCEPT !.in = Append(s.in, [f |-> s.half, part |-> "tail"]), !.half = WsNone]]
     /\ UNCHANGED <<wsPoll, wsMgr, wsChan, wsPc, wsFd, wsBatch, wsTodo, wsClosing, wsHeld, wsPing, wsGens, wsSent, wsGot, wsStop>>

WsPeerClose == \E c \in WsFds :
  /\ wsSock[c].open /\ wsSock[c].up
  /\ wsSock' = [wsSock EXCEPT ![c].up = FALSE]
  /\ UNCHANGED <<wsPoll, wsMgr, wsChan, wsPc, wsFd, wsBatch, wsTodo, wsClosing, wsHeld, wsPing, wsGens, wsSent, wsGot, wsStop>>

-----------------------------------------------------------------------------
(* ClientManager.  Each method holds the lock from start to end.           *)

WsRemoveAll(c) ==
  /\ wsFrame' = [wsFrame EXCEPT ![c] = WsNone]
  /\ wsFrames' = [wsFrames EXCEPT ![c] = <<>>]
  /\ wsAll' = RemoveFirst(wsAll, c)
  /\ wsCtx' = [wsCtx EXCEPT ![c] = -1]
  /\ wsConns' = [u \in DOMAIN wsConns |->
                   IF u = wsCtx[c] THEN RemoveFirst(wsConns[u], c) ELSE wsConns[u]]

WsAddLocked(c, uid) ==
  /\ wsAll' = IF Contains(wsAll, c) THEN wsAll ELSE Append(wsAll, c)
  /\ wsCtx' = [wsCtx EXCEPT ![c] = uid]
  /\ wsConns' = IF uid > 0 THEN [wsConns EXCEPT ![uid] = Append(@, c)] ELSE wsConns
  /\ UNCHANGED <<wsFrame, wsFrames>>

-----------------------------------------------------------------------------
(* ClientRemove, run by the reader, the pinger and the text goroutine: the *)
(* manager is left first, epoll and the kernel after it.  Closing also     *)
(* takes a descriptor out of epoll, so the two are one step.               *)

WsCloseFd(c) ==
  /\ wsSock' = [wsSock EXCEPT ![c] = [WsClosed EXCEPT !.gen = wsSock[c].gen]]
  /\ wsPoll' = [wsPoll EXCEPT ![c] = "none"]

WsRemoveMgr(t) ==
  /\ wsPc[t] = "remove"
  /\ WsRemoveAll(wsFd[t]) /\ WsGo(t, "close")
  /\ UNCHANGED <<wsSock, wsPoll, wsChan, wsBatch, wsTodo, wsClosing, wsHeld, wsPing, wsGens, wsSent, wsGot, wsStop>>

\* After handlePing's removal the reader goes on with the packet; else it takes the next fd.
WsRemoveClose(t) ==
  /\ wsPc[t] = "close"
  /\ WsCloseFd(wsFd[t])
  /\ WsGo(t, IF t = "reader" THEN (IF wsClosing THEN "idle" ELSE "frames")
              ELSE IF t = "pinger" THEN "ping" ELSE "idle")
  /\ wsClosing' = (wsClosing /\ t # "reader")
  /\ UNCHANGED <<wsMgr, wsChan, wsBatch, wsTodo, wsHeld, wsPing, wsGens, wsSent, wsGot, wsStop>>

WsClientRemove(t) == WsRemoveMgr(t) \/ WsRemoveClose(t)

-----------------------------------------------------------------------------
(* Start's accept loop and the upgrader.                                   *)

WsAccept == \E c \in WsFds :
  /\ wsGens < WsMaxGen /\ wsStop = "run" /\ wsHeld = 0
  /\ ~wsSock[c].open /\ \A d \in WsFds : d < c => wsSock[d].open
  /\ wsGens' = wsGens + 1 /\ wsHeld' = c
  /\ wsSock' = [wsSock EXCEPT ![c] = [WsClosed EXCEPT !.open = TRUE, !.gen = wsGens + 1, !.up = TRUE,
                                                      !.safe = (wsSock[c].gen = 0)]]
  /\ UNCHANGED <<wsPoll, wsMgr, wsChan, wsPc, wsFd, wsBatch, wsTodo, wsClosing, wsPing, wsSent, wsGot, wsStop>>

\* chUpgrade <- conn; after Stop has closed the channel the send panics.
WsSendUpgrade ==
  /\ wsHeld # 0 /\ wsHeld' = 0
  /\ IF wsStop = "run" THEN wsChan' = Append(wsChan, wsHeld) /\ UNCHANGED wsStop
     ELSE wsStop' = "panic" /\ UNCHANGED wsChan
  /\ UNCHANGED <<wsSock, wsPoll, wsMgr, wsPc, wsFd, wsBatch, wsTodo, wsClosing, wsPing, wsGens, wsSent, wsGot>>

\* The handshake: nothing read, a bad request (handleError) and a failed answer close the socket.
WsUpgrade == \E ok \in BOOLEAN :
  /\ wsPc["upgrader"] = "idle" /\ wsChan # <<>>
  /\ wsChan' = Tail(wsChan)
  /\ ~ok => WsCloseFd(Head(wsChan))
  /\ ok => UNCHANGED <<wsSock, wsPoll>>
  /\ WsGoOn("upgrader", IF ok THEN "register" ELSE "idle", Head(wsChan))
  /\ UNCHANGED <<wsMgr, wsBatch, wsTodo, wsClosing, wsHeld, wsPing, wsGens, wsSent, wsGot, wsStop>>

\* RegisterRead fails on a descriptor that was closed meanwhile, and the upgrader closes it again.
WsRegister ==
  LET c == wsFd["upgrader"]
  IN /\ wsPc["upgrader"] = "register"
     /\ IF wsSock[c].open /\ wsPoll[c] = "none"
        THEN /\ wsPoll' = [wsPoll EXCEPT ![c] = "armed"] /\ WsGo("upgrader", "addRemove")
             /\ UNCHANGED wsSock
        ELSE WsCloseFd(c) /\ WsGo("upgrader", "idle")
     /\ UNCHANGED <<wsMgr, wsChan, wsBatch, wsTodo, wsClosing, wsHeld, wsPing, wsGens, wsSent, wsGot, wsStop>>

\* Mutant of WsAddRemove: the earlier entry of the descriptor is left in place.
WsAddRemoveNot ==
  /\ wsPc["upgrader"] = "addRemove" /\ WsGo("upgrader", "add")
  /\ UNCHANGED <<wsSock, wsPoll, wsMgr, wsChan, wsBatch, wsTodo, wsClosing, wsHeld, wsPing, wsGens, wsSent, wsGot, wsStop>>

WsAddRemove ==
  /\ wsPc["upgrader"] = "addRemove"
  /\ WsRemoveAll(wsFd["upgrader"]) /\ WsGo("upgrader", "add")
  /\ UNCHANGED <<wsSock, wsPoll, wsChan, wsBatch, wsTodo, wsClosing, wsHeld, wsPing, wsGens, wsSent, wsGot, wsStop>>

WsAdd == \E uid \in WsUids :
  /\ wsPc["upgrader"] = "add"
  /\ WsAddLocked(wsFd["upgrader"], uid) /\ WsGo("upgrader", "idle")
  /\ UNCHANGED <<wsSock, wsPoll, wsChan, wsBatch, wsTodo, wsClosing, wsHeld, wsPing, wsGens, wsSent, wsGot, wsStop>>

-----------------------------------------------------------------------------
(* The reader.                                                             *)

WsReady(c) == wsPoll[c] = "armed" /\ (wsSock[c].in # <<>> \/ ~wsSock[c].up)

\* WaitRead: every ready descriptor is reported once and disarmed (EPOLLONESHOT).
WsWaitRead ==
  LET ready == {c \in WsFds : WsReady(c)}
  IN /\ wsPc["reader"] = "idle" /\ wsBatch = <<>> /\ ready # {} /\ wsStop = "run"
     /\ \E order \in SetToSeqs(ready) : wsBatch' = order
     /\ wsPoll' = [c \in WsFds |-> IF c \in ready THEN "fired" ELSE wsPoll[c]]
     /\ UNCHANGED <<wsSock, wsMgr, wsChan, wsPc, wsFd, wsTodo, wsClosing, wsHeld, wsPing, wsGens, wsSent, wsGot, wsStop>>

\* Recv returns no error; an empty packet (end of stream, EAGAIN, EBADF) removes the client.
WsRecv ==
  LET c == Head(wsBatch)
  IN /\ wsPc["reader"] = "idle" /\ wsBatch # <<>>
     /\ wsBatch' = Tail(wsBatch)
     /\ wsTodo' = wsSock[c].in
     /\ wsSock' = [wsSock EXCEPT ![c].in = <<>>]
     /\ wsClosing' = (wsSock[c].in = <<>>)
     /\ WsGoOn("reader", IF wsSock[c].in = <<>> THEN "remove" ELSE "frames", c)
     /\ UNCHANGED <<wsPoll, wsMgr, wsChan, wsHeld, wsPing, wsGens, wsSent, wsGot, wsStop>>

\* What unpack makes of the next piece: the frame itself, or, when a head is missing or is
\* another frame's, any frame those bytes happen to spell.
WsUnpacked(c) ==
  LET p == Head(wsTodo)
  IN IF p.part = (IF wsFrame[c] = WsNone THEN "whole" ELSE "tail") /\ wsFrame[c] \in {WsNone, p.f}
     THEN {p.f}
     ELSE [op : WsOps, fin : {TRUE}, gen : {0}, n : {0}, safe : {p.f.safe}]

\* Mutant of WsStoreHead: the part of the frame that arrived is dropped.
WsStoreHeadLost(c) ==
  /\ wsTodo' = Tail(wsTodo) /\ wsFrame' = [wsFrame EXCEPT ![c] = WsNone]
  /\ UNCHANGED <<wsSock, wsFrames, wsPc, wsFd, wsClosing, wsGot>>

WsStoreHead(c) ==
  /\ wsFrame' = [wsFrame EXCEPT ![c] = Head(wsTodo).f]
  /\ wsTodo' = Tail(wsTodo)
  /\ UNCHANGED <<wsSock, wsFrames, wsPc, wsFd, wsClosing, wsGot>>

\* handleBadRequest, handleInvalidData and handleClose: a close frame, and the client is removed;
\* the first two also read and drop what the client sent.
WsCloseClient(c, drop) ==
  /\ WsGo("reader", "remove") /\ wsTodo' = <<>> /\ wsClosing' = TRUE
  /\ wsSock' = IF drop THEN [wsSock EXCEPT ![c].in = <<>>] ELSE wsSock
  /\ UNCHANGED <<wsFrames, wsGot>>

WsHandlePing(c) == \E sent \in WsSendOutcomes(c) :
  /\ WsGo("reader", IF sent = "ok" THEN "frames" ELSE "remove")
  /\ wsTodo' = Tail(wsTodo)
  /\ UNCHANGED <<wsSock, wsFrames, wsClosing, wsGot>>

\* handleFragment keeps a fragment; the last one delivers the message to a goroutine of its own
\* (bound: one such goroutine at a time).
WsHandleFragment(c, f) ==
  /\ wsTodo' = Tail(wsTodo) /\ UNCHANGED <<wsSock, wsClosing>>
  /\ IF f.fin
     THEN /\ wsPc["text"] = "idle"
          /\ wsFrames' = [wsFrames EXCEPT ![c] = <<>>]
          /\ wsGot' = [frags |-> Append(wsFrames[c], f),
                       member |-> wsCtx[c] # -1 /\ wsSock[c].gen = Head(wsTodo).f.gen]
          /\ WsGoOn("text", "answer", c)
     ELSE wsFrames' = [wsFrames EXCEPT ![c] = Append(@, f)] /\ UNCHANGED <<wsGot, wsPc, wsFd>>

WsHandleFrame(c, f) ==
  IF f.op = "ping" THEN WsHandlePing(c)
  ELSE IF f.op \in {"text", "cont"} /\ (wsFrames[c] = <<>>) # (f.op = "cont") THEN WsHandleFragment(c, f)
  ELSE WsCloseClient(c, f.op # "close")

\* One frame of the packet: an incomplete one is stored, a complete one is handled.
WsFrameStep ==
  LET c == wsFd["reader"]
  IN /\ wsPc["reader"] = "frames" /\ wsTodo # <<>>
     /\ IF Head(wsTodo).part = "head" THEN WsStoreHead(c)
        ELSE /\ wsFrame' = [wsFrame EXCEPT ![c] = WsNone]
             /\ \E f \in WsUnpacked(c) : WsHandleFrame(c, f)
     /\ UNCHANGED <<wsPoll, wsAll, wsConns, wsCtx, wsChan, wsBatch, wsHeld, wsPing, wsGens, wsSent, wsStop>>

\* Mutant of WsReregister: the one-shot descriptor is not armed again.
WsReregisterNot ==
  /\ wsPc["reader"] = "frames" /\ wsTodo = <<>> /\ WsGo("reader", "idle")
  /\ UNCHANGED <<wsSock, wsPoll, wsMgr, wsChan, wsBatch, wsTodo, wsClosing, wsHeld, wsPing, wsGens, wsSent, wsGot, wsStop>>

\* The packet is used up: ReregisterRead; on a descriptor epoll does not know it fails.
WsReregister ==
  LET c == wsFd["reader"]
  IN /\ wsPc["reader"] = "frames" /\ wsTodo = <<>>
     /\ wsPoll' = [wsPoll EXCEPT ![c] = IF @ = "none" THEN @ ELSE "armed"]
     /\ WsGo("reader", "idle")
     /\ UNCHANGED <<wsSock, wsMgr, wsChan, wsBatch, wsTodo, wsClosing, wsHeld, wsPing, wsGens, wsSent, wsGot, wsStop>>

-----------------------------------------------------------------------------
(* The pinger, the text goroutine, Stop.                                   *)

WsPingTick ==
  /\ wsPc["pinger"] = "idle" /\ wsAll # <<>> /\ wsStop = "run"
  /\ wsPing' = wsAll /\ WsGo("pinger", "ping")
  /\ UNCHANGED <<wsSock, wsPoll, wsMgr, wsChan, wsBatch, wsTodo, wsClosing, wsHeld, wsGens, wsSent, wsGot, wsStop>>

WsPingOne ==
  /\ wsPc["pinger"] = "ping"
  /\ IF wsPing = <<>> THEN WsGo("pinger", "idle") /\ UNCHANGED wsPing
     ELSE /\ wsPing' = Tail(wsPing)
          /\ \E sent \in WsSendOutcomes(Head(wsPing)) :
               WsGoOn("pinger", IF sent = "ok" THEN "ping" ELSE "remove", Head(wsPing))
  /\ UNCHANGED <<wsSock, wsPoll, wsMgr, wsChan, wsBatch, wsTodo, wsClosing, wsHeld, wsGens, wsSent, wsGot, wsStop>>

\* handleText: route the request, send the response; a failed send removes the client.
WsTextAnswer ==
  /\ wsPc["text"] = "answer"
  /\ \E sent \in WsSendOutcomes(wsFd["text"]) : WsGo("text", IF sent = "ok" THEN "idle" ELSE "remove")
  /\ UNCHANGED <<wsSock, wsPoll, wsMgr, wsChan, wsBatch, wsTodo, wsClosing, wsHeld, wsPing, wsGens, wsSent, wsGot, wsStop>>

\* Stop closes the listener, epoll and chUpgrade: no accept and no WaitRead after it.
WsStopServer ==
  /\ wsStop = "run" /\ wsStop' = "stopped"
  /\ UNCHANGED <<wsSock, wsPoll, wsMgr, wsChan, wsPc, wsFd, wsBatch, wsTodo, wsClosing, wsHeld, wsPing, wsGens, wsSent, wsGot>>

WsServe == \/ WsAccept \/ WsSendUpgrade \/ WsUpgrade \/ WsRegister \/ WsAddRemove \/ WsAdd
           \/ WsWaitRead \/ WsRecv \/ WsFrameStep \/ WsReregister
           \/ WsPingTick \/ WsPingOne \/ WsTextAnswer \/ WsStopServer
           \/ \E t \in {"reader", "pinger", "text"} : WsClientRemove(t)
WsNext == wsStop # "panic" /\ (WsServe \/ WsPeerSend \/ WsPeerRest \/ WsPeerClose)
WsSpec == WsInit /\ [][WsNext]_wsVars

-----------------------------------------------------------------------------

WsTypeOK ==
  /\ \A c \in WsFds : wsPoll[c] \in {"none", "armed", "fired"} /\ wsCtx[c] \in WsUids \cup {-1}
  /\ ToSet(wsAll) \subseteq WsFds /\ ToSet(wsPing) \subseteq WsFds /\ ToSet(wsBatch) \subseteq WsFds
  /\ \A t \in WsThreads : wsPc[t] \in {"idle", "register", "addRemove", "add", "frames", "remove",
                                        "close", "ping", "answer"}
  /\ wsGens \in 0..WsMaxGen /\ wsStop \in {"run", "stopped", "panic"}

(* ClientManager's three views of its clients agree: all, ctx and the      *)
(* per-user lists hold the same connections, each of them once, although a *)
(* descriptor may be added again before a late ClientRemove of the         *)
(* connection that had it is over.                                         *)
WsManagerConsistent ==
  /\ IsInjective(wsAll) /\ ToSet(wsAll) = {c \in WsFds : wsCtx[c] # -1}
  /\ \A u \in DOMAIN wsConns : /\ IsInjective(wsConns[u])
                               /\ ToSet(wsConns[u]) = {c \in WsFds : wsCtx[c] = u}

WsRemoving(c) == \E t \in WsThreads : wsFd[t] = c /\ wsPc[t] \in {"remove", "close"}

(* No client goes deaf: an open connection that the upgrader is done with  *)
(* is armed in epoll, or the reader has it in hand, or someone is removing *)
(* it.  With EPOLLONESHOT one path of the reader without ReregisterRead is *)
(* enough to lose a client for good.                                       *)
WsNotDeaf == wsStop = "run" =>
  \A c \in WsFds :
    wsSock[c].open /\ c # wsHeld /\ ~Contains(wsChan, c) /\ (wsFd["upgrader"] = c => wsPc["upgrader"] = "idle") =>
      \/ wsPoll[c] = "armed" \/ WsRemoving(c)
      \/ Contains(wsBatch, c) \/ (wsFd["reader"] = c /\ wsPc["reader"] = "frames")

(* What a handler gets is what its client sent: the frames of one message, *)
(* in order and complete, though they may arrive chopped, with pings in    *)
(* between and while other goroutines remove other clients.  It is said of *)
(* connections that are still registered and of bytes sent after the       *)
(* registration on a descriptor that is used for the first time.           *)
WsReassembled ==
  wsGot.member /\ (\A i \in DOMAIN wsGot.frags : wsGot.frags[i].safe) =>
    LET fr == wsGot.frags
    IN /\ \A i \in DOMAIN fr : /\ fr[i].gen = fr[1].gen /\ fr[i].gen > 0
                              /\ (fr[i].op = "cont") = (i > 1) /\ fr[i].fin = (i = Len(fr))
       /\ \A i, j \in DOMAIN fr : i < j => fr[i].n < fr[j].n

(* The server and its clients: what the epoll set, the client manager and  *)
(* the handlers know of a connection agrees, while clients come, go, and   *)
(* reuse each other's descriptors.                                         *)
WsServerSound == WsManagerConsistent /\ WsNotDeaf /\ WsReassembled
=============================================================================
