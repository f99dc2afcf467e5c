---------------------------- MODULE DnsListeners ----------------------------
(***************************************************************************)
(* The life of the DNS server of lib/dns: ListenAndServe with the          *)
(* goroutines of its four listeners, the connections they serve, and Stop, *)
(* which ListenAndServe calls after the first error and the application    *)
(* may call at any time.  What becomes of a request after requestq is in   *)
(* DnsForwarders and DnsCaches.                                            *)
(***************************************************************************)
EXTENDS Integers, Sequences, FiniteSets

CONSTANTS DlMaxReq,  \* bound: requests
          DlQueueCap \* capacity of requestq
ASSUME DlAssumption == DlMaxReq \in Nat /\ DlQueueCap \in Nat \ {0}

VARIABLES dlTLS,   \* tlsConfig is not nil
          dlMain,  \* ListenAndServe: "idle", "wait", the next step of Stop, "done"
          dlUser,  \* Stop of the application: "no", the next step, "done"
          dlL,     \* listener -> "off", "up", "closed", "fail", "ended"
          dlErr,   \* errors in errListener, whose capacity is 1
          dlSource, \* source of requests -> the request it is about to send, 0 for none
          dlReqs,  \* requests so far
          dlQ, dlClosed, \* requestq
          dlProc,  \* processRequest runs
          dlAnswered, dlWaiting, \* requests that left requestq; those a DoH handler waits for
          dlPanic  \* the process is gone

dlVars == <<dlTLS, dlMain, dlUser, dlL, dlErr, dlSource, dlReqs, dlQ, dlClosed, dlProc, dlAnswered, dlWaiting, dlPanic>>
dlQueueVars == <<dlSource, dlReqs, dlQ, dlAnswered, dlWaiting>>

DlListener == {"udp", "tcp", "dot", "doh"}
DlInit ==
  /\ dlTLS = FALSE /\ dlMain = "idle" /\ dlUser = "no" /\ dlL = [l \in DlListener |-> "off"] /\ dlErr = 0
  /\ dlSource = [l \in DlListener |-> 0] /\ dlReqs = 0 /\ dlQ = <<>> /\ dlClosed = FALSE /\ dlProc = FALSE
  /\ dlAnswered = {} /\ dlWaiting = {} /\ dlPanic = FALSE

\* NewServer listens on UDP and TCP; then ListenAndServe.
DlListenAndServe == \E tls \in BOOLEAN :
  /\ dlMain = "idle" /\ dlMain' = "wait" /\ dlTLS' = tls /\ dlProc' = TRUE
  /\ dlL' = [dlL EXCEPT !["udp"] = "up", !["tcp"] = "up"]
  /\ UNCHANGED <<dlUser, dlErr, dlQueueVars, dlClosed, dlPanic>>
\* serveDoH and serveDoT start their listener when they are scheduled; serveDoT does it again after an error.
DlServeDoH ==
  /\ ~dlPanic /\ dlMain # "idle" /\ dlL["doh"] = "off" /\ dlL' = [dlL EXCEPT !["doh"] = "up"]
  /\ UNCHANGED <<dlTLS, dlMain, dlUser, dlErr, dlQueueVars, dlClosed, dlProc, dlPanic>>
DlServeDoT ==
  /\ ~dlPanic /\ dlMain # "idle" /\ dlTLS /\ dlL["dot"] = "off" /\ dlL' = [dlL EXCEPT !["dot"] = "up"]
  /\ UNCHANGED <<dlTLS, dlMain, dlUser, dlErr, dlQueueVars, dlClosed, dlProc, dlPanic>>

\* Accept or ReadFromUDP fails, by itself or because the listener was closed.
DlFail == \E l \in DlListener :
  /\ ~dlPanic /\ (l = "udp" => dlSource[l] = 0) /\ dlL[l] \in {"up", "closed"} /\ dlL' = [dlL EXCEPT ![l] = "fail"]
  /\ UNCHANGED <<dlTLS, dlMain, dlUser, dlErr, dlQueueVars, dlClosed, dlProc, dlPanic>>
\* errListener <- err, and the goroutine ends; that of DoT listens again.
\* Mutant of DlSendErr: an error that finds the channel full, or a UDP error, is dropped.
DlSendErrDrop == \E l \in DlListener :
  /\ ~dlPanic /\ dlL[l] = "fail" /\ dlErr' = IF l = "udp" THEN dlErr ELSE 1
  /\ dlL' = [dlL EXCEPT ![l] = IF l = "dot" THEN "off" ELSE "ended"]
  /\ UNCHANGED <<dlTLS, dlMain, dlUser, dlQueueVars, dlClosed, dlProc, dlPanic>>
DlSendErr == \E l \in DlListener :
  /\ ~dlPanic /\ dlL[l] = "fail" /\ dlErr = 0 /\ dlErr' = 1
  /\ dlL' = [dlL EXCEPT ![l] = IF l = "dot" THEN "off" ELSE "ended"]
  /\ UNCHANGED <<dlTLS, dlMain, dlUser, dlQueueVars, dlClosed, dlProc, dlPanic>>
DlRecvErr ==
  /\ ~dlPanic /\ dlMain = "wait" /\ dlErr = 1 /\ dlErr' = 0 /\ dlMain' = "udp"
  /\ UNCHANGED <<dlTLS, dlUser, dlL, dlQueueVars, dlClosed, dlProc, dlPanic>>

\* The steps of Stop: udp, tcp, dot if there is one, doh, requestq.  srv.doh is nil until serveDoH
\* has run, and a channel is closed once.
DlShut(l) == dlL' = [dlL EXCEPT ![l] = IF @ = "up" THEN "closed" ELSE @] /\ UNCHANGED <<dlClosed, dlPanic>>
DlStopStep(n) ==
  \/ n \in {"udp", "tcp", "dot"} /\ DlShut(n)
  \/ n = "doh" /\ dlL[n] # "off" /\ DlShut(n)
  \/ n = "doh" /\ dlL[n] = "off" /\ dlPanic' = TRUE /\ UNCHANGED <<dlL, dlClosed>>
  \/ n = "queue" /\ ~dlClosed /\ dlClosed' = TRUE /\ UNCHANGED <<dlL, dlPanic>>
  \/ n = "queue" /\ dlClosed /\ dlPanic' = TRUE /\ UNCHANGED <<dlL, dlClosed>>
DlAfter == [udp |-> "tcp", tcp |-> "dot", dot |-> "doh", doh |-> "queue", queue |-> "done"]
DlMainStop == \E n \in DOMAIN DlAfter :
  /\ ~dlPanic /\ dlMain = n /\ DlStopStep(n) /\ dlMain' = DlAfter[n]
  /\ UNCHANGED <<dlTLS, dlUser, dlErr, dlQueueVars, dlProc>>
DlUserCall ==
  /\ ~dlPanic /\ dlMain # "idle" /\ dlUser = "no" /\ dlUser' = "udp"
  /\ UNCHANGED <<dlTLS, dlMain, dlL, dlErr, dlQueueVars, dlClosed, dlProc, dlPanic>>
DlUserStop == \E n \in DOMAIN DlAfter :
  /\ ~dlPanic /\ dlUser = n /\ DlStopStep(n) /\ dlUser' = DlAfter[n]
  /\ UNCHANGED <<dlTLS, dlMain, dlErr, dlQueueVars, dlProc>>

\* A request is read and unpacked: by serveUDP, serveTCPClient of a TCP or DoT connection, or
\* handleDoHRequest.  The connections live on when their listener is closed.
DlRead == \E l \in DlListener :
  /\ ~dlPanic /\ dlReqs < DlMaxReq /\ dlSource[l] = 0
  /\ IF l = "udp" THEN dlL[l] = "up" ELSE dlL[l] # "off"
  /\ dlReqs' = dlReqs + 1 /\ dlSource' = [dlSource EXCEPT ![l] = dlReqs + 1]
  /\ UNCHANGED <<dlTLS, dlMain, dlUser, dlL, dlErr, dlQ, dlClosed, dlProc, dlAnswered, dlWaiting, dlPanic>>
\* requestq <- req; a DoH handler then waits for the response.
DlSend == \E l \in DlListener :
  /\ ~dlPanic /\ dlSource[l] # 0
  /\ IF dlClosed THEN dlPanic' = TRUE /\ UNCHANGED dlQueueVars
     ELSE /\ Len(dlQ) < DlQueueCap /\ dlQ' = Append(dlQ, dlSource[l]) /\ dlSource' = [dlSource EXCEPT ![l] = 0]
          /\ dlWaiting' = IF l = "doh" THEN dlWaiting \cup {dlSource[l]} ELSE dlWaiting
          /\ UNCHANGED <<dlReqs, dlAnswered, dlPanic>>
  /\ UNCHANGED <<dlTLS, dlMain, dlUser, dlL, dlErr, dlClosed, dlProc>>
\* processRequest takes a request and answers it, or passes it on to where it is answered, or
\* drops it; a dropped one is never written to, so a DoH handler waits on.
DlTake == \E dropped \in BOOLEAN :
  /\ ~dlPanic /\ dlProc /\ dlQ # <<>> /\ dlQ' = Tail(dlQ) /\ dlAnswered' = dlAnswered \cup {Head(dlQ)}
  /\ dlWaiting' = IF dropped THEN dlWaiting ELSE dlWaiting \ {Head(dlQ)}
  /\ UNCHANGED <<dlTLS, dlMain, dlUser, dlL, dlErr, dlSource, dlReqs, dlClosed, dlProc, dlPanic>>
\* Mutant of DlProcEnd: the loop is left as soon as the channel is closed.
DlProcEndEarly ==
  /\ ~dlPanic /\ dlProc /\ dlClosed /\ dlProc' = FALSE
  /\ UNCHANGED <<dlTLS, dlMain, dlUser, dlL, dlErr, dlQueueVars, dlClosed, dlPanic>>
DlProcEnd ==
  /\ ~dlPanic /\ dlProc /\ dlClosed /\ dlQ = <<>> /\ dlProc' = FALSE
  /\ UNCHANGED <<dlTLS, dlMain, dlUser, dlL, dlErr, dlQueueVars, dlClosed, dlPanic>>

DlNext == DlListenAndServe \/ DlServeDoH \/ DlServeDoT \/ DlFail \/ DlSendErr \/ DlRecvErr \/ DlMainStop \/ DlUserCall
          \/ DlUserStop \/ DlRead \/ DlSend \/ DlTake \/ DlProcEnd
DlSpec == DlInit /\ [][DlNext]_dlVars

-----------------------------------------------------------------------------
DlTypeOK == /\ dlErr \in 0..1 /\ dlReqs \in 0..DlMaxReq /\ Len(dlQ) <= DlQueueCap /\ dlWaiting \subseteq 1..dlReqs
            /\ \A l \in DlListener : dlL[l] \in {"off", "up", "closed", "fail", "ended"}

(* ListenAndServe does not go on waiting over a listener that has ended:   *)
(* the error is in errListener for it to receive.                          *)
DlNoticed == dlMain = "wait" /\ (\E l \in DlListener : dlL[l] = "ended") => dlErr = 1

(* A request that was taken into requestq is processed, even when Stop     *)
(* closes the queue: processRequest ends only when all of them are.        *)
DlDrained == ~dlProc /\ dlMain # "idle" =>
  \A r \in 1..dlReqs : r \in dlAnswered \/ \E l \in DlListener : dlSource[l] = r

(* Stop closes all listeners: when ListenAndServe has returned after it,   *)
(* and nobody else has called it, none is open.                            *)
DlAllClosed == dlMain = "done" /\ ~dlPanic => \A l \in DlListener : dlL[l] # "up"
=============================================================================
