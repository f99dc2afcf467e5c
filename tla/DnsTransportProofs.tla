------------------------- MODULE DnsTransportProofs -------------------------
(***************************************************************************)
(* Theorems about DNS transport: the life of the server's listeners and of *)
(* its request queue (DnsListeners), the clients that several goroutines   *)
(* use (DnsClients), and the run that has both (MCNet).                    *)
(***************************************************************************)
EXTENDS MCNet, FiniteSetTheorems, SequenceTheorems, TLAPS

-----------------------------------------------------------------------------
(* The listeners and the request queue.                                    *)
DlInQueue(r) == \E i \in 1..Len(dlQ) : dlQ[i] = r

DlTypes ==
  /\ dlMain \in {"idle", "wait", "done"} \cup DOMAIN DlAfter /\ dlErr \in 0..1 /\ dlReqs \in 0..DlMaxReq
  /\ dlL \in [DlListener -> {"off", "up", "closed", "fail", "ended"}]
  /\ dlSource \in [DlListener -> 0..dlReqs] /\ dlQ \in Seq(1..dlReqs) /\ Len(dlQ) <= DlQueueCap
  /\ dlWaiting \subseteq 1..dlReqs /\ dlProc \in BOOLEAN /\ dlClosed \in BOOLEAN

\* Nothing listens before ListenAndServe.
DlBefore == dlMain = "idle" => dlL = [l \in DlListener |-> "off"]
\* Every request read is somewhere.
DlSomewhere == \A r \in 1..dlReqs : r \in dlAnswered \/ DlInQueue(r) \/ \E l \in DlListener : dlSource[l] = r
\* processRequest has ended only over a closed and empty queue.
DlEnded == ~dlProc /\ dlMain # "idle" => dlClosed /\ dlQ = <<>>

DlInv == DlTypes /\ DlBefore /\ DlSomewhere /\ DlEnded /\ DlNoticed

(* A server that does not listen yet satisfies the invariant.              *)
LEMMA DlInitInv == DlInit => DlInv
<1> SUFFICES ASSUME DlInit PROVE DlInv
  OBVIOUS
<1> USE DlAssumption DEF DlInit
<1>0. <<>> \in Seq(1..0) /\ Len(<<>>) = 0
  OBVIOUS
<1>1. DlTypes
  <2>1. /\ dlMain \in {"idle", "wait", "done"} /\ dlErr \in 0..1 /\ dlReqs \in 0..DlMaxReq
        /\ dlL \in [DlListener -> {"off", "up", "closed", "fail", "ended"}] /\ dlSource \in [DlListener -> 0..dlReqs]
        /\ dlWaiting \subseteq 1..dlReqs
    OBVIOUS
  <2>3. dlProc \in BOOLEAN /\ dlClosed \in BOOLEAN
    BY Zenon
  <2>2. dlQ \in Seq(1..dlReqs) /\ Len(dlQ) <= DlQueueCap
    BY <1>0
  <2> QED BY <2>1, <2>2, <2>3 DEF DlTypes
<1> QED BY <1>1 DEF DlInv, DlBefore, DlSomewhere, DlEnded, DlNoticed

(* A step of Stop changes no listener but an open one, which it closes,    *)
(* and may close the queue.                                                *)
LEMMA DlStopStepKeeps == ASSUME DlInv, NEW n, DlStopStep(n)
                         PROVE  /\ dlL' \in [DlListener -> {"off", "up", "closed", "fail", "ended"}]
                                /\ \A l \in DlListener : dlL'[l] = "ended" => dlL[l] = "ended"
                                /\ dlClosed' \in BOOLEAN /\ (dlClosed => dlClosed')
                                /\ dlL = [l \in DlListener |-> "off"] => dlL' = dlL
<1>1. dlL \in [DlListener -> {"off", "up", "closed", "fail", "ended"}] /\ dlClosed \in BOOLEAN
  BY DEF DlInv, DlTypes
<1>2. CASE DlShut(n)
  BY <1>1, <1>2 DEF DlShut
<1>3. CASE UNCHANGED <<dlL, dlClosed>>
  BY <1>1, <1>3
<1>4. CASE UNCHANGED dlL /\ dlClosed' = TRUE
  BY <1>1, <1>4
<1> QED BY <1>2, <1>3, <1>4 DEF DlStopStep

(* A step that leaves requests and queue alone keeps what is said of them. *)
LEMMA DlQueueKept == ASSUME DlInv, UNCHANGED dlQueueVars PROVE DlSomewhere'
  BY DEF DlInv, DlSomewhere, DlInQueue, dlQueueVars

(* Every step of the server, its listeners, its connections and of Stop,   *)
(* called by ListenAndServe or by the application, preserves the invariant. *)
LEMMA DlNextInv == DlInv /\ [DlNext]_dlVars => DlInv'
<1> SUFFICES ASSUME DlInv, [DlNext]_dlVars PROVE DlInv'
  OBVIOUS
<1> USE DlAssumption
<1>1. CASE DlListenAndServe
  <2>1. /\ dlMain = "idle" /\ dlMain' = "wait" /\ dlProc' = TRUE
        /\ dlL' = [dlL EXCEPT !["udp"] = "up", !["tcp"] = "up"] /\ UNCHANGED <<dlErr, dlQueueVars, dlClosed>>
    BY <1>1 DEF DlListenAndServe
  <2>2. \A l \in DlListener : dlL[l] = "off"
    BY <2>1 DEF DlInv, DlBefore
  <2>3. dlL' \in [DlListener -> {"off", "up", "closed", "fail", "ended"}] /\ \A l \in DlListener : dlL'[l] # "ended"
    BY <2>1, <2>2 DEF DlInv, DlTypes
  <2>4. DlTypes'
    BY <2>1, <2>3 DEF DlInv, DlTypes, dlQueueVars
  <2>5. DlBefore' /\ DlNoticed' /\ DlEnded'
    BY <2>1, <2>3 DEF DlBefore, DlNoticed, DlEnded
  <2> QED BY <2>1, <2>4, <2>5, DlQueueKept DEF DlInv
<1>2. CASE DlServeDoH \/ DlServeDoT \/ DlFail
  <2>1. /\ UNCHANGED <<dlMain, dlErr, dlQueueVars, dlClosed, dlProc>>
        /\ dlL' \in [DlListener -> {"off", "up", "closed", "fail", "ended"}]
        /\ \A l \in DlListener : dlL'[l] = "ended" => dlL[l] = "ended"
        /\ dlMain # "idle"
    <3>1. CASE DlServeDoH
      BY <3>1 DEF DlServeDoH, DlInv, DlTypes
    <3>2. CASE DlServeDoT
      BY <3>2 DEF DlServeDoT, DlInv, DlTypes
    <3>3. CASE DlFail
      BY <3>3 DEF DlFail, DlInv, DlTypes, DlBefore
    <3> QED BY <1>2, <3>1, <3>2, <3>3
  <2>2. DlTypes'
    BY <2>1 DEF DlInv, DlTypes, dlQueueVars
  <2>3. DlBefore' /\ DlNoticed' /\ DlEnded'
    BY <2>1 DEF DlInv, DlBefore, DlNoticed, DlEnded, dlQueueVars
  <2> QED BY <2>1, <2>2, <2>3, DlQueueKept DEF DlInv
<1>3. CASE DlSendErr
  <2>1. /\ UNCHANGED <<dlMain, dlQueueVars, dlClosed, dlProc>> /\ dlErr' = 1
        /\ dlL' \in [DlListener -> {"off", "up", "closed", "fail", "ended"}] /\ dlMain # "idle"
    BY <1>3 DEF DlSendErr, DlInv, DlTypes, DlBefore
  <2>2. DlTypes'
    BY <2>1 DEF DlInv, DlTypes, dlQueueVars
  <2>3. DlBefore' /\ DlNoticed' /\ DlEnded'
    BY <2>1 DEF DlInv, DlBefore, DlNoticed, DlEnded, dlQueueVars
  <2> QED BY <2>1, <2>2, <2>3, DlQueueKept DEF DlInv
<1>4. CASE DlRecvErr
  <2>1. /\ dlMain' = "udp" /\ dlErr' = 0 /\ dlMain = "wait" /\ UNCHANGED <<dlL, dlQueueVars, dlClosed, dlProc>>
    BY <1>4 DEF DlRecvErr
  <2>2. DlTypes'
    BY <2>1 DEF DlInv, DlTypes, dlQueueVars, DlAfter
  <2>3. DlBefore' /\ DlNoticed' /\ DlEnded'
    BY <2>1 DEF DlInv, DlBefore, DlNoticed, DlEnded, dlQueueVars
  <2> QED BY <2>1, <2>2, <2>3, DlQueueKept DEF DlInv
<1>5. CASE DlMainStop
  <2>1. PICK n \in DOMAIN DlAfter : /\ dlMain = n /\ DlStopStep(n) /\ dlMain' = DlAfter[n]
                                    /\ UNCHANGED <<dlErr, dlQueueVars, dlProc>>
    BY <1>5 DEF DlMainStop
  <2>2. dlMain' \in {"done"} \cup DOMAIN DlAfter /\ dlMain # "idle" /\ dlMain' # "wait" /\ dlMain' # "idle"
    BY <2>1 DEF DlAfter
  <2>3. DlTypes'
    BY <2>1, <2>2, DlStopStepKeeps DEF DlInv, DlTypes, dlQueueVars
  <2>4. DlEnded'
    BY <2>1, <2>2, DlStopStepKeeps DEF DlInv, DlEnded, dlQueueVars
  <2>5. DlBefore' /\ DlNoticed'
    BY <2>2 DEF DlBefore, DlNoticed
  <2> QED BY <2>1, <2>3, <2>4, <2>5, DlQueueKept DEF DlInv
<1>6. CASE DlUserStop
  <2>1. PICK n \in DOMAIN DlAfter : DlStopStep(n) /\ UNCHANGED <<dlMain, dlErr, dlQueueVars, dlProc>>
    BY <1>6 DEF DlUserStop
  <2>2. DlTypes'
    BY <2>1, DlStopStepKeeps DEF DlInv, DlTypes, dlQueueVars
  <2>3. DlBefore' /\ DlNoticed'
    BY <2>1, DlStopStepKeeps DEF DlInv, DlBefore, DlNoticed
  <2>4. DlEnded'
    BY <2>1, DlStopStepKeeps DEF DlInv, DlEnded, dlQueueVars
  <2> QED BY <2>1, <2>2, <2>3, <2>4, DlQueueKept DEF DlInv
<1>7. CASE DlRead
  <2>1. PICK l \in DlListener :
          /\ dlReqs < DlMaxReq /\ dlSource[l] = 0 /\ dlReqs' = dlReqs + 1
          /\ dlSource' = [dlSource EXCEPT ![l] = dlReqs + 1]
          /\ UNCHANGED <<dlMain, dlL, dlErr, dlQ, dlClosed, dlProc, dlAnswered, dlWaiting>>
    BY <1>7 DEF DlRead
  <2>2. dlReqs \in Nat /\ dlReqs + 1 \in 0..DlMaxReq /\ dlSource \in [DlListener -> 0..dlReqs]
    BY <2>1 DEF DlInv, DlTypes
  <2>3. dlSource' \in [DlListener -> 0..dlReqs'] /\ 1..dlReqs \subseteq 1..dlReqs'
    BY <2>1, <2>2
  <2>4. dlQ' \in Seq(1..dlReqs') /\ Len(dlQ') = Len(dlQ)
    BY <2>1, <2>3, SeqMonotonic DEF DlInv, DlTypes
  <2>5. DlTypes'
    BY <2>1, <2>2, <2>3, <2>4 DEF DlInv, DlTypes
  <2>6. DlSomewhere'
    <3> SUFFICES ASSUME NEW r \in 1..(dlReqs + 1)
                 PROVE  r \in dlAnswered \/ DlInQueue(r) \/ \E k \in DlListener : dlSource'[k] = r
      BY <2>1 DEF DlSomewhere, DlInQueue
    <3>1. CASE r = dlReqs + 1
      BY <2>1, <2>2, <3>1
    <3>2. CASE r # dlReqs + 1
      <4>1. r \in 1..dlReqs /\ r # 0
        BY <2>2, <3>2
      <4> QED BY <2>1, <4>1 DEF DlInv, DlTypes, DlSomewhere
    <3> QED BY <3>1, <3>2
  <2>7. DlBefore' /\ DlNoticed' /\ DlEnded'
    BY <2>1 DEF DlInv, DlBefore, DlNoticed, DlEnded
  <2> QED BY <2>5, <2>6, <2>7 DEF DlInv
<1>8. CASE DlSend
  <2>0. PICK l \in DlListener :
          /\ dlSource[l] # 0
          /\ IF dlClosed THEN UNCHANGED dlQueueVars
             ELSE /\ Len(dlQ) < DlQueueCap /\ dlQ' = Append(dlQ, dlSource[l])
                  /\ dlSource' = [dlSource EXCEPT ![l] = 0]
                  /\ dlWaiting' = IF l = "doh" THEN dlWaiting \cup {dlSource[l]} ELSE dlWaiting
                  /\ UNCHANGED <<dlReqs, dlAnswered>>
          /\ UNCHANGED <<dlMain, dlL, dlErr, dlClosed, dlProc>>
    BY <1>8 DEF DlSend
  <2>1. CASE dlClosed
    <3>1. UNCHANGED <<dlQueueVars, dlMain, dlL, dlErr, dlClosed, dlProc>>
      BY <2>0, <2>1
    <3>2. DlTypes' /\ DlBefore' /\ DlNoticed' /\ DlEnded'
      BY <3>1 DEF DlInv, DlTypes, DlBefore, DlNoticed, DlEnded, dlQueueVars
    <3> QED BY <3>1, <3>2, DlQueueKept DEF DlInv
  <2>2. CASE ~dlClosed
    <3>1. /\ Len(dlQ) < DlQueueCap /\ dlQ' = Append(dlQ, dlSource[l]) /\ dlSource' = [dlSource EXCEPT ![l] = 0]
          /\ dlWaiting' \subseteq dlWaiting \cup {dlSource[l]}
          /\ UNCHANGED <<dlReqs, dlAnswered, dlMain, dlL, dlErr, dlClosed, dlProc>>
      BY <2>0, <2>2
    <3>2. dlSource[l] \in 1..dlReqs /\ dlReqs \in Nat /\ dlQ \in Seq(1..dlReqs) /\ dlSource \in [DlListener -> 0..dlReqs]
      BY <2>0 DEF DlInv, DlTypes
    <3>3. /\ dlQ' \in Seq(1..dlReqs) /\ Len(dlQ') = Len(dlQ) + 1
          /\ \A i \in 1..Len(dlQ) : dlQ'[i] = dlQ[i]
          /\ dlQ'[Len(dlQ) + 1] = dlSource[l] /\ Len(dlQ) \in Nat
      BY <3>1, <3>2
    <3>4. DlTypes'
      BY <3>1, <3>2, <3>3 DEF DlInv, DlTypes
    <3>5. DlSomewhere'
      <4> SUFFICES ASSUME NEW r \in 1..dlReqs
                   PROVE  r \in dlAnswered \/ DlInQueue(r)' \/ \E k \in DlListener : dlSource'[k] = r
        BY <3>1 DEF DlSomewhere
      <4>1. CASE r = dlSource[l]
        BY <3>3, <4>1 DEF DlInQueue
      <4>2. CASE DlInQueue(r)
        BY <3>3, <4>2 DEF DlInQueue
      <4>3. CASE r # dlSource[l] /\ \E k \in DlListener : dlSource[k] = r
        BY <3>1, <3>2, <4>3
      <4> QED BY <4>1, <4>2, <4>3 DEF DlInv, DlSomewhere
    <3>6. DlBefore' /\ DlNoticed' /\ DlEnded'
      BY <2>2, <3>1 DEF DlInv, DlBefore, DlNoticed, DlEnded
    <3> QED BY <3>4, <3>5, <3>6 DEF DlInv
  <2> QED BY <2>1, <2>2
<1>9. CASE DlTake
  <2>1. /\ dlProc /\ dlQ # <<>> /\ dlQ' = Tail(dlQ) /\ dlAnswered' = dlAnswered \cup {Head(dlQ)}
        /\ dlWaiting' \subseteq dlWaiting
        /\ UNCHANGED <<dlMain, dlL, dlErr, dlSource, dlReqs, dlClosed, dlProc>>
    BY <1>9 DEF DlTake
  <2>2. /\ dlQ' \in Seq(1..dlReqs) /\ Len(dlQ') = Len(dlQ) - 1 /\ Head(dlQ) = dlQ[1] /\ Len(dlQ) \in Nat
        /\ \A i \in 1..Len(dlQ) : i # 1 => i - 1 \in 1..Len(dlQ') /\ dlQ'[i - 1] = dlQ[i]
    BY <2>1 DEF DlInv, DlTypes
  <2>3. DlTypes'
    BY <2>1, <2>2 DEF DlInv, DlTypes
  <2>4. DlSomewhere'
    <3>1. \A r : DlInQueue(r) => r = Head(dlQ) \/ DlInQueue(r)'
      BY <2>2 DEF DlInQueue
    <3> QED BY <2>1, <3>1 DEF DlInv, DlSomewhere
  <2>5. DlBefore' /\ DlNoticed' /\ DlEnded'
    BY <2>1 DEF DlInv, DlBefore, DlNoticed, DlEnded
  <2> QED BY <2>3, <2>4, <2>5 DEF DlInv
<1>10. CASE DlProcEnd
  <2>1. dlClosed /\ dlQ = <<>> /\ dlProc' = FALSE /\ UNCHANGED <<dlMain, dlL, dlErr, dlQueueVars, dlClosed>>
    BY <1>10 DEF DlProcEnd
  <2>2. DlTypes' /\ DlBefore' /\ DlNoticed' /\ DlEnded'
    BY <2>1 DEF DlInv, DlTypes, DlBefore, DlNoticed, DlEnded, dlQueueVars
  <2> QED BY <2>1, <2>2, DlQueueKept DEF DlInv
<1>11. CASE DlUserCall \/ UNCHANGED dlVars
  <2>1. UNCHANGED <<dlMain, dlL, dlErr, dlQueueVars, dlClosed, dlProc>>
    BY <1>11 DEF DlUserCall, dlVars, dlQueueVars
  <2>2. DlTypes' /\ DlBefore' /\ DlNoticed' /\ DlEnded'
    BY <2>1 DEF DlInv, DlTypes, DlBefore, DlNoticed, DlEnded, dlQueueVars
  <2> QED BY <2>1, <2>2, DlQueueKept DEF DlInv
<1> QED BY <1>1, <1>2, <1>3, <1>4, <1>5, <1>6, <1>7, <1>8, <1>9, <1>10, <1>11 DEF DlNext

(* The invariant says that an ended listener is noticed and, as the queue  *)
(* is empty when processRequest has ended, that no request is left there.  *)
LEMMA DlInvSound == DlInv => DlNoticed /\ DlDrained /\ DlTypeOK
<1> SUFFICES ASSUME DlInv PROVE DlNoticed /\ DlDrained /\ DlTypeOK
  OBVIOUS
<1>1. DlDrained
  BY DEF DlInv, DlSomewhere, DlEnded, DlInQueue, DlDrained
<1>2. DlTypeOK
  BY DEF DlInv, DlTypes, DlTypeOK
<1> QED BY <1>1, <1>2 DEF DlInv

(* ListenAndServe receives the error of a listener that ended, and every   *)
(* request that was taken into requestq is processed before processRequest *)
(* ends: for any number of requests and any capacity of the queue.         *)
THEOREM ListenersSound == DlSpec => [](DlNoticed /\ DlDrained /\ DlTypeOK)
  BY DlInitInv, DlNextInv, DlInvSound, PTL DEF DlSpec

-----------------------------------------------------------------------------
(* The clients.                                                            *)
DcReplies == [query : 0..dcQueries, part : {"all", "head", "tail"}]

DcTypes ==
  /\ dcKind \in {"none", "udp", "tcp", "doh", "pool"} /\ dcUsers \subseteq DcProcs
  /\ dcClient \in [DcProcs -> DcClients \cup {0}] /\ dcPool \subseteq DcClients /\ dcMade \in 0..Cardinality(DcClients)
  /\ dcLock \in [DcClients -> DcProcs \cup {0}] /\ dcQueries \in 0..DcMaxQuery /\ dcShared \in 0..dcQueries
  /\ dcCall \in [DcProcs -> [pc : {"idle", "query", "read"}, query : 0..dcQueries, sent : 0..dcQueries]]
  /\ dcWire \in [DcClients -> SUBSET (0..dcQueries)] /\ dcIn \in [DcClients -> Seq(DcReplies)]
  /\ dcGot \in [DcQuery -> -1..dcQueries] /\ dcFault \in BOOLEAN

\* A call in progress has a query and a client; before there are users nothing has happened.
DcBegun ==
  /\ \A p \in DcProcs : dcCall[p].pc # "idle" => p \in dcUsers /\ dcCall[p].query \in DcQuery /\ dcClient[p] # 0
  /\ dcKind = "none" => /\ dcUsers = {} /\ dcWire = [c \in DcClients |-> {}] /\ dcIn = [c \in DcClients |-> <<>>]
                        /\ dcGot = [q \in DcQuery |-> 0]

DcLocked == {"udp", "pool"}
\* The mutex of a client: held by the goroutine that waits for its reply, and by no other.
DcHeld == dcKind \in DcLocked =>
  \A p \in DcProcs : dcCall[p].pc = "read" => dcLock[dcClient[p]] = p

\* What DcMatched is about: no fault, and a locked client or one user.
DcSafe == ~dcFault /\ (dcKind \in DcLocked \/ Cardinality(dcUsers) = 1)

DcReads(p, c) == dcCall[p].pc = "read" /\ dcClient[p] = c

\* A client is waited on by one goroutine; what is on its way is the answer to that goroutine's
\* query, and there is one of it.
DcOneReader == DcSafe => \A c \in DcClients, p, q \in DcProcs : DcReads(p, c) /\ DcReads(q, c) => p = q
DcOnTheWay == DcSafe /\ dcKind # "doh" => \A c \in DcClients :
  /\ dcWire[c] # {} => dcIn[c] = <<>>
  /\ Len(dcIn[c]) <= 1
  /\ dcWire[c] # {} \/ dcIn[c] # <<>> => \E p \in DcProcs :
       /\ DcReads(p, c) /\ dcWire[c] \subseteq {dcCall[p].query}
       /\ \A i \in 1..Len(dcIn[c]) : dcIn[c][i].query = dcCall[p].query
\* The request of a DoHClient with one user is that user's.
DcOwnRequest == DcSafe /\ dcKind = "doh" =>
  \A p \in DcProcs : /\ dcCall[p].pc = "query" => dcShared = dcCall[p].query
                     /\ dcCall[p].pc = "read" => dcCall[p].sent = dcCall[p].query
\* Without a fault every reply comes in one piece.
DcWhole == ~dcFault => \A c \in DcClients : \A i \in 1..Len(dcIn[c]) : dcIn[c][i].part = "all"

DcInv == DcTypes /\ DcBegun /\ DcHeld /\ DcOneReader /\ DcOnTheWay /\ DcOwnRequest /\ DcWhole /\ DcMatched

(* The clients are numbered from 1, the ones of the name servers first.    *)
LEMMA DcNumbered == /\ Cardinality(DcServers) \in Nat /\ Cardinality(DcProcs) \in Nat
                    /\ DcServers \subseteq DcClients /\ Cardinality(DcServers) <= Cardinality(DcClients)
                    /\ Cardinality(DcClients) \in Nat /\ DcClients = 1..Cardinality(DcClients)
                    /\ (DcProcs # {} => 1 \in DcClients)
<1>1. Cardinality(DcServers) \in Nat /\ Cardinality(DcProcs) \in Nat
  BY DcAssumption, FS_CardinalityType
<1>2. DcProcs # {} => Cardinality(DcProcs) # 0
  BY DcAssumption, FS_EmptySet
<1>3. Cardinality(DcClients) = Cardinality(DcServers) + Cardinality(DcProcs)
  BY <1>1, FS_Interval DEF DcClients
<1> HIDE DEF DcClients
<1>4. DcClients = 1..Cardinality(DcClients)
  BY <1>3 DEF DcClients
<1>5. DcServers = 1..Cardinality(DcServers)
  BY DcAssumption
<1> DEFINE s == Cardinality(DcServers)
           k == Cardinality(DcProcs)
           n == Cardinality(DcClients)
<1>6. s \in Nat /\ k \in Nat /\ n = s + k /\ DcServers = 1..s /\ DcClients = 1..n /\ (DcProcs # {} => k # 0)
  BY <1>1, <1>2, <1>3, <1>4, <1>5
<1> HIDE DEF s, k, n
<1>7. DcServers \subseteq DcClients /\ s <= n /\ n \in Nat /\ (DcProcs # {} => 1 \in DcClients)
  BY <1>6
<1> QED BY <1>1, <1>4, <1>7 DEF s, n

(* One user is one goroutine.                                              *)
LEMMA DcOneUser == ASSUME DcTypes, Cardinality(dcUsers) = 1, NEW p \in dcUsers, NEW q \in dcUsers PROVE p = q
<1>1. IsFiniteSet(dcUsers)
  BY DcAssumption, FS_Subset DEF DcTypes
<1> QED BY <1>1, FS_Singleton

(* No client, no goroutine: the invariant holds.                           *)
LEMMA DcInitInv == DcInit => DcInv
<1> SUFFICES ASSUME DcInit PROVE DcInv
  OBVIOUS
<1> USE DcAssumption DEF DcInit
<1>1. DcTypes
  <2>1. <<>> \in Seq(DcReplies)
    OBVIOUS
  <2>2. dcIn \in [DcClients -> Seq(DcReplies)]
    BY <2>1
  <2>3. dcCall \in [DcProcs -> [pc : {"idle", "query", "read"}, query : 0..dcQueries, sent : 0..dcQueries]]
    BY DEF DcIdle
  <2>4. dcFault \in BOOLEAN
    BY Zenon
  <2>5. dcGot \in [DcQuery -> -1..dcQueries]
    OBVIOUS
  <2>6. dcMade \in 0..Cardinality(DcClients)
    BY DcNumbered
  <2> QED BY <2>2, <2>3, <2>4, <2>5, <2>6 DEF DcTypes
<1>2. DcBegun /\ DcHeld
  BY DEF DcBegun, DcHeld, DcIdle
<1>3. DcOneReader /\ DcOwnRequest
  BY DEF DcOneReader, DcOwnRequest, DcReads, DcIdle
<1>4. DcOnTheWay /\ DcWhole
  BY DEF DcOnTheWay, DcWhole
<1>5. DcMatched
  BY DEF DcMatched
<1> QED BY <1>1, <1>2, <1>3, <1>4, <1>5 DEF DcInv

(* A client or a pool is made: nobody has called, nothing is on its way.   *)
LEMMA DcNewInv == DcInv /\ DcNew => DcInv'
<1> SUFFICES ASSUME DcInv, DcNew PROVE DcInv'
  OBVIOUS
<1>1. PICK kind \in {"udp", "tcp", "doh", "pool"}, users \in (SUBSET DcProcs) \ {{}} :
        /\ dcKind = "none" /\ dcKind' = kind /\ dcUsers' = users
        /\ dcMade' = IF kind = "pool" THEN Cardinality(DcServers) ELSE 1
        /\ dcPool' = IF kind = "pool" THEN DcServers ELSE {}
        /\ dcClient' = [p \in DcProcs |-> IF p \in users /\ kind # "pool" THEN 1 ELSE 0]
        /\ UNCHANGED <<dcLock, dcCall, dcQueries, dcShared, dcWire, dcIn, dcGot, dcFault>>
  BY DEF DcNew
<1>2. /\ dcUsers = {} /\ dcWire = [c \in DcClients |-> {}] /\ dcIn = [c \in DcClients |-> <<>>]
      /\ dcGot = [q \in DcQuery |-> 0] /\ \A p \in DcProcs : dcCall[p].pc = "idle"
  BY <1>1 DEF DcInv, DcBegun
<1>3. 1 \in DcClients /\ 1 \in 0..Cardinality(DcClients)
  <2>1. DcProcs # {}
    BY <1>1
  <2>2. 1 \in DcClients
    BY <2>1, DcNumbered
  <2> HIDE DEF DcClients
  <2> QED BY <2>2, DcNumbered
<1>4. DcTypes'
  <2>1. dcMade' \in 0..Cardinality(DcClients) /\ dcPool' \subseteq DcClients
    BY <1>1, <1>3, DcNumbered
  <2>2. dcClient' \in [DcProcs -> DcClients \cup {0}] /\ dcUsers' \subseteq DcProcs
    BY <1>1, <1>3
  <2> QED BY <1>1, <2>1, <2>2 DEF DcInv, DcTypes, DcReplies
<1>5. DcBegun' /\ DcHeld'
  BY <1>1, <1>2 DEF DcBegun, DcHeld
<1>6. DcOneReader' /\ DcOwnRequest'
  BY <1>1, <1>2 DEF DcOneReader, DcOwnRequest, DcReads
<1>7. DcOnTheWay' /\ DcWhole'
  BY <1>1, <1>2 DEF DcOnTheWay, DcWhole
<1>8. DcMatched'
  BY <1>1, <1>2 DEF DcMatched
<1> QED BY <1>4, <1>5, <1>6, <1>7, <1>8 DEF DcInv

(* Get and Put of the pool move clients only between calls.                *)
LEMMA DcPoolInv == DcInv /\ (DcGet \/ DcPut) => DcInv'
<1> SUFFICES ASSUME DcInv, DcGet \/ DcPut PROVE DcInv'
  OBVIOUS
<1>1. /\ UNCHANGED <<dcKind, dcUsers, dcLock, dcCall, dcQueries, dcShared, dcWire, dcIn, dcGot, dcFault>>
      /\ dcClient' \in [DcProcs -> DcClients \cup {0}] /\ dcPool' \subseteq DcClients
      /\ dcMade' \in 0..Cardinality(DcClients)
      /\ \A p \in DcProcs : dcCall[p].pc # "idle" => dcClient'[p] = dcClient[p]
      /\ dcKind # "none"
  <2>1. CASE DcPut
    <3>1. PICK p \in dcUsers : /\ dcKind = "pool" /\ dcClient[p] # 0 /\ dcCall[p] = DcIdle
                               /\ dcPool' = dcPool \cup {dcClient[p]} /\ dcClient' = [dcClient EXCEPT ![p] = 0]
                               /\ UNCHANGED <<dcKind, dcUsers, dcMade, dcLock, dcCall, dcQueries, dcShared, dcWire, dcIn, dcGot, dcFault>>
      BY <2>1 DEF DcPut
    <3> QED BY <3>1 DEF DcInv, DcTypes, DcIdle
  <2>2. CASE DcGet
    <3>1. PICK p \in dcUsers :
            /\ dcKind = "pool" /\ dcClient[p] = 0
            /\ \/ \E c \in dcPool : dcClient' = [dcClient EXCEPT ![p] = c] /\ dcPool' = dcPool \ {c} /\ UNCHANGED dcMade
               \/ /\ dcMade + 1 \in DcClients /\ dcClient' = [dcClient EXCEPT ![p] = dcMade + 1] /\ dcMade' = dcMade + 1
                  /\ UNCHANGED dcPool
            /\ UNCHANGED <<dcKind, dcUsers, dcLock, dcCall, dcQueries, dcShared, dcWire, dcIn, dcGot, dcFault>>
      BY <2>2 DEF DcGet
    <3>2. dcCall[p].pc = "idle"
      BY <3>1 DEF DcInv, DcTypes, DcBegun
    <3>3. \E c \in DcClients : dcClient' = [dcClient EXCEPT ![p] = c]
      BY <3>1 DEF DcInv, DcTypes
    <3>4. dcPool' \subseteq DcClients /\ dcMade' \in 0..Cardinality(DcClients)
      <4>1. ASSUME dcMade + 1 \in DcClients PROVE dcMade + 1 \in 0..Cardinality(DcClients)
        BY <4>1, DcNumbered DEF DcInv, DcTypes
      <4> QED BY <3>1, <4>1 DEF DcInv, DcTypes
    <3> QED BY <3>1, <3>2, <3>3, <3>4 DEF DcInv, DcTypes
  <2> QED BY <2>1, <2>2
<1>2. DcTypes'
  BY <1>1 DEF DcInv, DcTypes, DcReplies
<1>3. DcBegun' /\ DcHeld'
  BY <1>1 DEF DcInv, DcBegun, DcHeld
<1>4. \A p \in DcProcs : \A c : DcReads(p, c)' <=> DcReads(p, c)
  BY <1>1 DEF DcReads
<1>5. DcSafe' <=> DcSafe
  BY <1>1 DEF DcSafe
<1>6. DcOneReader'
  BY <1>1, <1>4, <1>5 DEF DcInv, DcOneReader
<1>7. DcOnTheWay'
  BY <1>1, <1>4, <1>5 DEF DcInv, DcOnTheWay
<1>8. DcOwnRequest' /\ DcWhole' /\ DcMatched'
  BY <1>1, <1>5 DEF DcInv, DcOwnRequest, DcWhole, DcMatched
<1> QED BY <1>2, <1>3, <1>6, <1>7, <1>8 DEF DcInv

(* Lookup begins a call; it sends nothing yet.                             *)
LEMMA DcLookupInv == DcInv /\ DcLookup => DcInv'
<1> SUFFICES ASSUME DcInv, DcLookup PROVE DcInv'
  OBVIOUS
<1>1. PICK p \in dcUsers :
        /\ dcClient[p] # 0 /\ dcCall[p] = DcIdle /\ dcQueries < DcMaxQuery /\ dcQueries' = dcQueries + 1
        /\ dcCall' = [dcCall EXCEPT ![p] = [pc |-> "query", query |-> dcQueries + 1, sent |-> 0]]
        /\ dcShared' = IF dcKind = "doh" THEN dcQueries + 1 ELSE dcShared
        /\ UNCHANGED <<dcKind, dcUsers, dcClient, dcPool, dcMade, dcLock, dcWire, dcIn, dcGot, dcFault>>
  BY DEF DcLookup, dcPoolVars
<1>2. p \in DcProcs /\ dcQueries \in Nat /\ dcQueries + 1 \in 1..DcMaxQuery /\ dcKind # "none"
  BY <1>1, DcAssumption DEF DcInv, DcTypes, DcBegun
<1>3. /\ dcCall'[p].pc = "query" /\ dcCall'[p].query = dcQueries + 1 /\ dcCall[p].pc = "idle"
      /\ \A q \in DcProcs \ {p} : dcCall'[q] = dcCall[q]
  BY <1>1, <1>2 DEF DcInv, DcTypes, DcIdle
<1>4. DcTypes'
  <2>1. 0..dcQueries \subseteq 0..dcQueries' /\ -1..dcQueries \subseteq -1..dcQueries' /\ dcQueries' \in 0..DcMaxQuery
    BY <1>1, <1>2
  <2>2. DcReplies \subseteq DcReplies'
    BY <2>1 DEF DcReplies
  <2>3. \A c \in DcClients : dcIn[c] \in Seq(DcReplies')
    <3>1. \A c \in DcClients : dcIn[c] \in Seq(DcReplies)
      BY DEF DcInv, DcTypes
    <3> QED BY <2>2, <3>1, SeqMonotonic
  <2>4. dcIn' \in [DcClients -> Seq(DcReplies')]
    BY <1>1, <2>3 DEF DcInv, DcTypes
  <2>5. dcWire' \in [DcClients -> SUBSET (0..dcQueries')]
    BY <1>1, <2>1 DEF DcInv, DcTypes
  <2>6. dcGot' \in [DcQuery -> -1..dcQueries'] /\ dcShared' \in 0..dcQueries'
    BY <1>1, <1>2, <2>1 DEF DcInv, DcTypes
  <2>7. dcCall' \in [DcProcs -> [pc : {"idle", "query", "read"}, query : 0..dcQueries', sent : 0..dcQueries']]
    BY <1>1, <1>2, <2>1 DEF DcInv, DcTypes
  <2> QED BY <1>1, <2>1, <2>4, <2>5, <2>6, <2>7 DEF DcInv, DcTypes
<1>5. DcBegun'
  BY <1>1, <1>2, <1>3 DEF DcInv, DcBegun, DcQuery
<1>6. DcHeld'
  BY <1>1, <1>3 DEF DcInv, DcHeld
<1>7. \A q \in DcProcs : \A c : DcReads(q, c)' <=> DcReads(q, c)
  BY <1>1, <1>3 DEF DcReads
<1>8. DcSafe' <=> DcSafe
  BY <1>1 DEF DcSafe
<1>9. DcOneReader'
  BY <1>1, <1>7, <1>8 DEF DcInv, DcOneReader
<1>10. DcOnTheWay'
  <2>1. \A q \in DcProcs, c \in DcClients : DcReads(q, c) => dcCall'[q].query = dcCall[q].query
    BY <1>3 DEF DcReads
  <2> QED BY <1>1, <1>7, <1>8, <2>1 DEF DcInv, DcOnTheWay
<1>11. DcOwnRequest'
  <2> SUFFICES ASSUME DcSafe, dcKind = "doh", NEW q \in DcProcs
               PROVE  /\ dcCall'[q].pc = "query" => dcShared' = dcCall'[q].query
                      /\ dcCall'[q].pc = "read" => dcCall'[q].sent = dcCall'[q].query
    BY <1>1, <1>8 DEF DcOwnRequest
  <2>1. CASE q = p
    BY <1>1, <1>3, <2>1
  <2>2. CASE q # p
    <3>1. Cardinality(dcUsers) = 1
      BY DEF DcSafe, DcLocked
    <3>2. q \notin dcUsers
      BY <1>1, <2>2, <3>1, DcOneUser DEF DcInv
    <3> QED BY <1>3, <2>2, <3>2 DEF DcInv, DcBegun
  <2> QED BY <2>1, <2>2
<1>12. DcWhole' /\ DcMatched'
  BY <1>1, <1>8 DEF DcInv, DcWhole, DcMatched
<1> QED BY <1>4, <1>5, <1>6, <1>9, <1>10, <1>11, <1>12 DEF DcInv

(* Who may write to a client under the conditions of DcMatched finds no    *)
(* other goroutine waiting there: the mutex, or the one user, sees to it.  *)
LEMMA DcNobodyReads == ASSUME DcInv, DcSafe, NEW p \in dcUsers, NEW c \in DcClients, dcCall[p].pc = "query", DcMayWrite(p, c)
                       PROVE  \A q \in DcProcs : ~DcReads(q, c)
<1> SUFFICES ASSUME NEW q \in DcProcs, DcReads(q, c) PROVE FALSE
  OBVIOUS
<1>1. CASE dcKind \in DcLocked
  <2>1. dcLock[c] = 0
    BY <1>1 DEF DcMayWrite, DcLocked
  <2>2. dcLock[c] = q
    BY <1>1 DEF DcInv, DcHeld, DcReads
  <2> QED BY <2>1, <2>2, DcAssumption
<1>2. CASE Cardinality(dcUsers) = 1
  <2>1. q \in dcUsers
    BY DEF DcInv, DcBegun, DcReads
  <2>2. q = p
    BY <1>2, <2>1, DcOneUser DEF DcInv
  <2> QED BY <2>2 DEF DcReads
<1> QED BY <1>1, <1>2 DEF DcSafe

(* Query writes: the client had nothing on its way, and now has the query. *)
LEMMA DcWriteInv == DcInv /\ DcWrite => DcInv'
<1> SUFFICES ASSUME DcInv, DcWrite PROVE DcInv'
  OBVIOUS
<1> DEFINE Sent(p) == IF dcKind = "doh" THEN dcShared ELSE dcCall[p].query
<1>1. PICK p \in dcUsers, c \in DcClients :
        /\ dcCall[p].pc = "query" /\ DcMayWrite(p, c)
        /\ dcLock' = IF dcKind \in {"udp", "pool"} THEN [dcLock EXCEPT ![c] = p] ELSE dcLock
        /\ dcWire' = [dcWire EXCEPT ![c] = @ \cup {Sent(p)}]
        /\ dcCall' = [dcCall EXCEPT ![p] = [@ EXCEPT !.pc = "read", !.sent = Sent(p)]]
        /\ UNCHANGED <<dcKind, dcUsers, dcClient, dcPool, dcMade, dcQueries, dcShared, dcIn, dcGot, dcFault>>
  BY DEF DcWrite, dcPoolVars
<1> DEFINE sent == Sent(p)
<1>2. p \in DcProcs /\ sent \in 0..dcQueries /\ dcKind # "none" /\ dcClient[p] = c
  BY <1>1 DEF DcInv, DcTypes, DcBegun, DcMayWrite
<1>3. dcKind # "doh" => sent = dcCall[p].query
  OBVIOUS
<1>4. DcSafe /\ dcKind = "doh" => sent = dcCall[p].query
  BY <1>1, <1>2 DEF DcInv, DcOwnRequest
<1>5. /\ dcWire' = [dcWire EXCEPT ![c] = @ \cup {sent}]
      /\ dcCall' = [dcCall EXCEPT ![p] = [@ EXCEPT !.pc = "read", !.sent = sent]]
  BY <1>1
<1> HIDE DEF sent
<1>6. /\ dcCall'[p].pc = "read" /\ dcCall'[p].query = dcCall[p].query /\ dcCall'[p].sent = sent
      /\ \A q \in DcProcs \ {p} : dcCall'[q] = dcCall[q]
      /\ dcCall' \in [DcProcs -> [pc : {"idle", "query", "read"}, query : 0..dcQueries, sent : 0..dcQueries]]
  BY <1>2, <1>5 DEF DcInv, DcTypes
<1>7. DcTypes'
  <2>1. dcWire' \in [DcClients -> SUBSET (0..dcQueries)] /\ dcLock' \in [DcClients -> DcProcs \cup {0}]
    BY <1>1, <1>2, <1>5 DEF DcInv, DcTypes
  <2> QED BY <1>1, <1>6, <2>1 DEF DcInv, DcTypes, DcReplies
<1>8. DcBegun'
  BY <1>1, <1>2, <1>6 DEF DcInv, DcBegun
<1>9. DcHeld'
  <2> SUFFICES ASSUME dcKind \in DcLocked, NEW q \in DcProcs, dcCall'[q].pc = "read" PROVE dcLock'[dcClient[q]] = q
    BY <1>1 DEF DcHeld
  <2>1. dcLock' = [dcLock EXCEPT ![c] = p] /\ dcLock[c] = 0
    BY <1>1 DEF DcLocked, DcMayWrite
  <2>2. CASE q = p
    BY <1>2, <2>1, <2>2 DEF DcInv, DcTypes
  <2>3. CASE q # p
    <3>1. dcCall[q].pc = "read"
      BY <1>6, <2>3
    <3>2. dcLock[dcClient[q]] = q
      BY <3>1 DEF DcInv, DcHeld
    <3>3. dcClient[q] # c
      BY <2>1, <3>2, DcAssumption
    <3>4. dcClient[q] \in DcClients
      BY <3>1 DEF DcInv, DcTypes, DcBegun
    <3> QED BY <2>1, <3>2, <3>3, <3>4 DEF DcInv, DcTypes
  <2> QED BY <2>2, <2>3
<1>10. DcSafe' <=> DcSafe
  BY <1>1 DEF DcSafe
<1>11. DcSafe => \A q \in DcProcs : ~DcReads(q, c)
  BY <1>1, DcNobodyReads
<1>12. \A q \in DcProcs, d \in DcClients : DcReads(q, d)' <=> (DcReads(q, d) \/ (q = p /\ d = c))
  BY <1>1, <1>2, <1>6 DEF DcReads
<1>13. DcOneReader'
  BY <1>1, <1>10, <1>11, <1>12 DEF DcInv, DcOneReader
<1>14. DcOnTheWay'
  <2> SUFFICES ASSUME DcSafe, dcKind # "doh", NEW d \in DcClients
               PROVE  /\ dcWire'[d] # {} => dcIn'[d] = <<>>
                      /\ Len(dcIn'[d]) <= 1
                      /\ dcWire'[d] # {} \/ dcIn'[d] # <<>> => \E q \in DcProcs :
                           /\ DcReads(q, d)' /\ dcWire'[d] \subseteq {dcCall'[q].query}
                           /\ \A i \in 1..Len(dcIn'[d]) : dcIn'[d][i].query = dcCall'[q].query
    BY <1>1, <1>10 DEF DcOnTheWay
  <2>1. CASE d = c
    <3>1. dcWire[c] = {} /\ dcIn[c] = <<>>
      BY <1>11 DEF DcInv, DcOnTheWay
    <3>2. dcWire'[c] = {sent} /\ dcIn'[c] = <<>>
      BY <1>1, <1>5, <3>1 DEF DcInv, DcTypes
    <3>3. DcReads(p, c)' /\ dcWire'[c] \subseteq {dcCall'[p].query}
      BY <1>2, <1>3, <1>6, <1>12, <3>2
    <3>4. Len(dcIn'[c]) = 0
      BY <3>2
    <3> QED BY <1>2, <2>1, <3>2, <3>3, <3>4
  <2>2. CASE d # c
    <3>1. dcWire'[d] = dcWire[d] /\ dcIn'[d] = dcIn[d]
      BY <1>1, <1>5, <2>2 DEF DcInv, DcTypes
    <3>2. \A q \in DcProcs : DcReads(q, d) => DcReads(q, d)' /\ dcCall'[q].query = dcCall[q].query
      BY <1>6, <1>12
    <3> QED BY <3>1, <3>2 DEF DcInv, DcOnTheWay
  <2> QED BY <2>1, <2>2
<1>15. DcOwnRequest'
  BY <1>1, <1>4, <1>6, <1>10 DEF DcInv, DcOwnRequest
<1>16. DcWhole' /\ DcMatched'
  BY <1>1 DEF DcInv, DcWhole, DcMatched
<1> QED BY <1>7, <1>8, <1>9, <1>13, <1>14, <1>15, <1>16 DEF DcInv

(* The server answers the one query on its way; a reply cut in two, and    *)
(* whatever follows it, is what DcMatched leaves out.                      *)
LEMMA DcReplyInv == DcInv /\ DcReply => DcInv'
<1> SUFFICES ASSUME DcInv, DcReply PROVE DcInv'
  OBVIOUS
<1>1. PICK c \in DcClients : \E q \in dcWire[c] :
        /\ dcWire' = [dcWire EXCEPT ![c] = @ \ {q}]
        /\ \/ dcIn' = [dcIn EXCEPT ![c] = Append(@, [query |-> q, part |-> "all"])] /\ UNCHANGED dcFault
           \/ /\ dcKind = "tcp" /\ dcFault' = TRUE
              /\ dcIn' = [dcIn EXCEPT ![c] = @ \o <<[query |-> q, part |-> "head"], [query |-> q, part |-> "tail"]>>]
        /\ UNCHANGED <<dcKind, dcUsers, dcClient, dcPool, dcMade, dcLock, dcCall, dcQueries, dcShared, dcGot>>
  BY DEF DcReply, dcPoolVars
<1>2. PICK q \in dcWire[c] :
        /\ dcWire' = [dcWire EXCEPT ![c] = @ \ {q}]
        /\ \/ dcIn' = [dcIn EXCEPT ![c] = Append(@, [query |-> q, part |-> "all"])] /\ UNCHANGED dcFault
           \/ /\ dcKind = "tcp" /\ dcFault' = TRUE
              /\ dcIn' = [dcIn EXCEPT ![c] = @ \o <<[query |-> q, part |-> "head"], [query |-> q, part |-> "tail"]>>]
        /\ UNCHANGED <<dcKind, dcUsers, dcClient, dcPool, dcMade, dcLock, dcCall, dcQueries, dcShared, dcGot>>
  BY <1>1
<1>3. /\ q \in 0..dcQueries /\ dcKind # "none" /\ dcIn[c] \in Seq(DcReplies) /\ dcWire \in [DcClients -> SUBSET (0..dcQueries)]
      /\ dcIn \in [DcClients -> Seq(DcReplies)] /\ Len(dcIn[c]) \in Nat
  <2>1. q \in 0..dcQueries /\ dcIn[c] \in Seq(DcReplies) /\ dcWire \in [DcClients -> SUBSET (0..dcQueries)]
        /\ dcIn \in [DcClients -> Seq(DcReplies)]
    BY <1>2 DEF DcInv, DcTypes
  <2>2. dcKind # "none"
    BY <1>2 DEF DcInv, DcBegun
  <2> QED BY <2>1, <2>2
<1>4. \A piece \in {"all", "head", "tail"} : [query |-> q, part |-> piece] \in DcReplies
  BY <1>3 DEF DcReplies
<1>5. DcTypes'
  <2>1. \E s \in Seq(DcReplies) : dcIn' = [dcIn EXCEPT ![c] = s]
    <3>1. Append(dcIn[c], [query |-> q, part |-> "all"]) \in Seq(DcReplies)
      BY <1>3, <1>4
    <3>2. <<[query |-> q, part |-> "head"], [query |-> q, part |-> "tail"]>> \in Seq(DcReplies)
      BY <1>4
    <3>3. dcIn[c] \o <<[query |-> q, part |-> "head"], [query |-> q, part |-> "tail"]>> \in Seq(DcReplies)
      BY <1>3, <3>2, ConcatProperties
    <3> QED BY <1>2, <3>1, <3>3
  <2>2. dcIn' \in [DcClients -> Seq(DcReplies)]
    BY <1>3, <2>1
  <2>3. dcWire' \in [DcClients -> SUBSET (0..dcQueries)]
    BY <1>2, <1>3
  <2>4. dcFault' \in BOOLEAN
    BY <1>2, Zenon DEF DcInv, DcTypes
  <2> QED BY <1>2, <2>2, <2>3, <2>4 DEF DcInv, DcTypes, DcReplies
<1>6. DcBegun' /\ DcHeld'
  BY <1>2, <1>3 DEF DcInv, DcBegun, DcHeld
<1>7. \A p \in DcProcs : \A d : DcReads(p, d)' <=> DcReads(p, d)
  BY <1>2 DEF DcReads
<1>8. ~dcFault' => ~dcFault /\ dcIn' = [dcIn EXCEPT ![c] = Append(@, [query |-> q, part |-> "all"])]
  BY <1>2
<1>9. DcSafe' => DcSafe /\ ~dcFault'
  BY <1>2, <1>8 DEF DcSafe
<1>10. DcOneReader' /\ DcOwnRequest'
  BY <1>2, <1>7, <1>9 DEF DcInv, DcOneReader, DcOwnRequest
<1>11. ~dcFault' => /\ \A d \in DcClients : d # c => dcIn'[d] = dcIn[d]
                    /\ Len(dcIn'[c]) = Len(dcIn[c]) + 1 /\ \A i \in 1..Len(dcIn[c]) : dcIn'[c][i] = dcIn[c][i]
                    /\ dcIn'[c][Len(dcIn[c]) + 1].query = q /\ dcIn'[c][Len(dcIn[c]) + 1].part = "all"
  BY <1>3, <1>8
<1>12. DcOnTheWay'
  <2> SUFFICES ASSUME DcSafe, ~dcFault', dcKind # "doh", NEW d \in DcClients
               PROVE  /\ dcWire'[d] # {} => dcIn'[d] = <<>>
                      /\ Len(dcIn'[d]) <= 1
                      /\ dcWire'[d] # {} \/ dcIn'[d] # <<>> => \E p \in DcProcs :
                           /\ DcReads(p, d)' /\ dcWire'[d] \subseteq {dcCall'[p].query}
                           /\ \A i \in 1..Len(dcIn'[d]) : dcIn'[d][i].query = dcCall'[p].query
    BY <1>2, <1>9 DEF DcOnTheWay
  <2>1. CASE d # c
    <3>1. dcWire'[d] = dcWire[d] /\ dcIn'[d] = dcIn[d] /\ dcCall' = dcCall
      BY <1>2, <1>3, <1>11, <2>1
    <3> QED BY <1>7, <3>1 DEF DcInv, DcOnTheWay
  <2>2. CASE d = c
    <3>1. dcIn[c] = <<>> /\ \E p \in DcProcs : DcReads(p, c) /\ dcWire[c] \subseteq {dcCall[p].query}
      BY DEF DcInv, DcOnTheWay
    <3>2. PICK p \in DcProcs : DcReads(p, c) /\ dcWire[c] \subseteq {dcCall[p].query}
      BY <3>1
    <3>3. q = dcCall[p].query /\ dcWire'[c] = {}
      BY <1>2, <1>3, <3>2
    <3>4. Len(dcIn'[c]) = 1 /\ dcIn'[c][1].query = q
      BY <1>11, <3>1
    <3>5. DcReads(p, c)' /\ dcCall'[p].query = q
      BY <1>2, <1>7, <3>2, <3>3
    <3> QED BY <2>2, <3>3, <3>4, <3>5
  <2> QED BY <2>1, <2>2
<1>13. DcWhole'
  <2> SUFFICES ASSUME ~dcFault', NEW d \in DcClients, NEW i \in 1..Len(dcIn'[d]) PROVE dcIn'[d][i].part = "all"
    BY DEF DcWhole
  <2>1. CASE d = c /\ i = Len(dcIn[c]) + 1
    BY <1>11, <2>1
  <2>2. CASE d # c \/ i # Len(dcIn[c]) + 1
    <3>1. i \in 1..Len(dcIn[d]) /\ dcIn'[d][i] = dcIn[d][i]
      BY <1>3, <1>11, <2>2
    <3> QED BY <1>8, <3>1 DEF DcInv, DcWhole
  <2> QED BY <2>1, <2>2
<1>14. DcMatched'
  BY <1>2, <1>8 DEF DcInv, DcMatched
<1> QED BY <1>5, <1>6, <1>10, <1>12, <1>13, <1>14 DEF DcInv

(* A datagram is lost.                                                     *)
LEMMA DcLoseInv == DcInv /\ DcLose => DcInv'
<1> SUFFICES ASSUME DcInv, DcLose PROVE DcInv'
  OBVIOUS
<1>1. PICK c \in DcClients : \E q \in dcWire[c] :
        /\ dcKind \in {"udp", "pool"} /\ dcWire' = [dcWire EXCEPT ![c] = @ \ {q}]
        /\ UNCHANGED <<dcKind, dcUsers, dcClient, dcPool, dcMade, dcLock, dcCall, dcQueries, dcShared, dcIn, dcGot, dcFault>>
  BY DEF DcLose, dcPoolVars
<1>2. /\ dcKind \in {"udp", "pool"} /\ dcWire' \in [DcClients -> SUBSET (0..dcQueries)]
      /\ \A d \in DcClients : dcWire'[d] \subseteq dcWire[d]
      /\ UNCHANGED <<dcKind, dcUsers, dcClient, dcPool, dcMade, dcLock, dcCall, dcQueries, dcShared, dcIn, dcGot, dcFault>>
  BY <1>1 DEF DcInv, DcTypes
<1>3. DcTypes'
  BY <1>2 DEF DcInv, DcTypes, DcReplies
<1>4. DcBegun' /\ DcHeld'
  BY <1>2 DEF DcInv, DcBegun, DcHeld
<1>5. \A p \in DcProcs : \A d : DcReads(p, d)' <=> DcReads(p, d)
  BY <1>2 DEF DcReads
<1>6. DcSafe' => DcSafe
  BY <1>2 DEF DcSafe
<1>7. DcOneReader' /\ DcOwnRequest'
  BY <1>2, <1>5, <1>6 DEF DcInv, DcOneReader, DcOwnRequest
<1>8. DcOnTheWay'
  <2> SUFFICES ASSUME DcSafe, dcKind # "doh", NEW d \in DcClients
               PROVE  /\ dcWire'[d] # {} => dcIn[d] = <<>>
                      /\ Len(dcIn[d]) <= 1
                      /\ dcWire'[d] # {} \/ dcIn[d] # <<>> => \E p \in DcProcs :
                           /\ DcReads(p, d)' /\ dcWire'[d] \subseteq {dcCall[p].query}
                           /\ \A i \in 1..Len(dcIn[d]) : dcIn[d][i].query = dcCall[p].query
    BY <1>2, <1>6 DEF DcOnTheWay
  <2>1. dcWire'[d] \subseteq dcWire[d]
    BY <1>2
  <2> QED BY <1>5, <2>1 DEF DcInv, DcOnTheWay
<1>9. DcWhole' /\ DcMatched'
  BY <1>2 DEF DcInv, DcWhole, DcMatched
<1> QED BY <1>3, <1>4, <1>7, <1>8, <1>9 DEF DcInv

(* What a call that returns leaves: its goroutine idle, its mutex free,    *)
(* the other calls and their mutexes alone.                                *)
LEMMA DcReturned == ASSUME DcInv, NEW p \in dcUsers, dcCall[p].pc = "read", NEW got \in -1..dcQueries, DcReturn(p, got),
                           UNCHANGED <<dcKind, dcUsers, dcClient, dcQueries>>
                    PROVE  /\ dcCall' \in [DcProcs -> [pc : {"idle", "query", "read"}, query : 0..dcQueries, sent : 0..dcQueries]]
                           /\ dcLock' \in [DcClients -> DcProcs \cup {0}] /\ dcGot' \in [DcQuery -> -1..dcQueries]
                           /\ dcCall'[p].pc = "idle" /\ \A q \in DcProcs \ {p} : dcCall'[q] = dcCall[q]
                           /\ dcGot'[dcCall[p].query] = got
                           /\ \A q \in DcQuery \ {dcCall[p].query} : dcGot'[q] = dcGot[q]
                           /\ p \in DcProcs /\ dcCall[p].query \in DcQuery /\ dcKind # "none"
                           /\ DcBegun' /\ DcHeld'
<1>1. p \in DcProcs /\ dcCall[p].query \in DcQuery /\ dcKind # "none"
  BY DEF DcInv, DcTypes, DcBegun
<1>2. /\ dcGot' = [dcGot EXCEPT ![dcCall[p].query] = got] /\ dcCall' = [dcCall EXCEPT ![p] = DcIdle]
      /\ dcLock' = [c \in DcClients |-> IF dcLock[c] = p THEN 0 ELSE dcLock[c]]
  BY DEF DcReturn
<1>3. 0 \in 0..dcQueries
  BY DEF DcInv, DcTypes
<1>4. DcIdle \in [pc : {"idle", "query", "read"}, query : 0..dcQueries, sent : 0..dcQueries]
  BY <1>3 DEF DcIdle
<1>5. dcCall' \in [DcProcs -> [pc : {"idle", "query", "read"}, query : 0..dcQueries, sent : 0..dcQueries]]
  BY <1>2, <1>4 DEF DcInv, DcTypes
<1>6. dcLock' \in [DcClients -> DcProcs \cup {0}] /\ dcGot' \in [DcQuery -> -1..dcQueries]
  BY <1>1, <1>2 DEF DcInv, DcTypes
<1>7. dcCall'[p].pc = "idle" /\ \A q \in DcProcs \ {p} : dcCall'[q] = dcCall[q]
  BY <1>1, <1>2 DEF DcInv, DcTypes, DcIdle
<1>8. dcGot'[dcCall[p].query] = got /\ \A q \in DcQuery \ {dcCall[p].query} : dcGot'[q] = dcGot[q]
  BY <1>1, <1>2 DEF DcInv, DcTypes
<1>9. DcBegun'
  BY <1>1, <1>7 DEF DcInv, DcBegun
<1>10. DcHeld'
  <2> SUFFICES ASSUME dcKind \in DcLocked, NEW q \in DcProcs, dcCall'[q].pc = "read" PROVE dcLock'[dcClient[q]] = q
    BY DEF DcHeld
  <2>1. q # p /\ dcCall[q].pc = "read"
    BY <1>7
  <2>2. dcLock[dcClient[q]] = q /\ dcClient[q] \in DcClients
    BY <2>1 DEF DcInv, DcHeld, DcBegun, DcTypes
  <2> QED BY <1>2, <2>1, <2>2
<1> QED BY <1>1, <1>5, <1>6, <1>7, <1>8, <1>9, <1>10

(* Every reply that can be read has the number of a query.                 *)
LEMMA DcUnpacked == ASSUME DcTypes, NEW c \in DcClients, NEW i \in 1..Len(dcIn[c])
                    PROVE  DcUnpack(dcIn[c][i]) \in -1..dcQueries
<1>1. dcIn[c] \in Seq(DcReplies) /\ dcQueries \in Nat
  BY DEF DcTypes
<1>2. dcIn[c][i] \in DcReplies
  BY <1>1
<1> QED BY <1>1, <1>2 DEF DcReplies, DcUnpack

(* recv reads the reply to its own query where DcMatched speaks of it, and *)
(* leaves nothing behind.                                                  *)
LEMMA DcRecvInv == DcInv /\ DcRecv => DcInv'
<1> SUFFICES ASSUME DcInv, DcRecv PROVE DcInv'
  OBVIOUS
<1>1. PICK p \in dcUsers, c \in DcClients, n \in 1..2 :
        /\ dcCall[p].pc = "read" /\ dcClient[p] = c /\ dcKind # "doh" /\ n <= Len(dcIn[c])
        /\ DcReturn(p, DcUnpack(dcIn[c][1])) /\ dcIn' = [dcIn EXCEPT ![c] = SubSeq(@, n + 1, Len(@))]
        /\ UNCHANGED <<dcKind, dcUsers, dcClient, dcPool, dcMade, dcQueries, dcShared, dcWire, dcFault>>
  BY DEF DcRecv, dcPoolVars
<1> DEFINE got == DcUnpack(dcIn[c][1])
<1>2. dcIn[c] \in Seq(DcReplies) /\ Len(dcIn[c]) \in Nat /\ 1 \in 1..Len(dcIn[c]) /\ dcIn \in [DcClients -> Seq(DcReplies)]
  <2>1. dcIn[c] \in Seq(DcReplies) /\ dcIn \in [DcClients -> Seq(DcReplies)]
    BY DEF DcInv, DcTypes
  <2> QED BY <1>1, <2>1
<1>3. got \in -1..dcQueries
  BY <1>2, DcUnpacked DEF DcInv
<1>4. DcReturn(p, got)
  BY <1>1
<1>5. ~dcFault => got = dcIn[c][1].query
  BY <1>2 DEF DcInv, DcWhole, DcUnpack
<1> HIDE DEF got
<1>6. /\ dcCall' \in [DcProcs -> [pc : {"idle", "query", "read"}, query : 0..dcQueries, sent : 0..dcQueries]]
      /\ dcLock' \in [DcClients -> DcProcs \cup {0}] /\ dcGot' \in [DcQuery -> -1..dcQueries]
      /\ dcCall'[p].pc = "idle" /\ \A q \in DcProcs \ {p} : dcCall'[q] = dcCall[q]
      /\ dcGot'[dcCall[p].query] = got
      /\ \A q \in DcQuery \ {dcCall[p].query} : dcGot'[q] = dcGot[q]
      /\ p \in DcProcs /\ dcCall[p].query \in DcQuery /\ dcKind # "none"
      /\ DcBegun' /\ DcHeld'
  BY <1>1, <1>3, <1>4, DcReturned
<1>7. /\ dcIn' \in [DcClients -> Seq(DcReplies)] /\ \A d \in DcClients : d # c => dcIn'[d] = dcIn[d]
      /\ Len(dcIn'[c]) = Len(dcIn[c]) - n
      /\ \A i \in 1..Len(dcIn'[c]) : i + n \in 1..Len(dcIn[c]) /\ dcIn'[c][i] = dcIn[c][i + n]
  <2>1. SubSeq(dcIn[c], n + 1, Len(dcIn[c])) \in Seq(DcReplies)
        /\ Len(SubSeq(dcIn[c], n + 1, Len(dcIn[c]))) = Len(dcIn[c]) - n
        /\ \A i \in 1..(Len(dcIn[c]) - n) : SubSeq(dcIn[c], n + 1, Len(dcIn[c]))[i] = dcIn[c][i + n]
    BY <1>1, <1>2
  <2>2. dcIn'[c] = SubSeq(dcIn[c], n + 1, Len(dcIn[c])) /\ \A d \in DcClients : d # c => dcIn'[d] = dcIn[d]
    BY <1>1, <1>2
  <2>3. dcIn' \in [DcClients -> Seq(DcReplies)]
    BY <1>1, <1>2, <2>1
  <2>4. \A i \in 1..(Len(dcIn[c]) - n) : i + n \in 1..Len(dcIn[c])
    BY <1>1, <1>2
  <2> QED BY <2>1, <2>2, <2>3, <2>4
<1>8. DcTypes'
  BY <1>1, <1>6, <1>7 DEF DcInv, DcTypes, DcReplies
<1>9. DcSafe' <=> DcSafe
  BY <1>1 DEF DcSafe
<1>10. \A q \in DcProcs, d \in DcClients : DcReads(q, d)' <=> (DcReads(q, d) /\ q # p)
  BY <1>1, <1>6 DEF DcReads
<1>11. DcOneReader'
  BY <1>9, <1>10 DEF DcInv, DcOneReader
<1>12. DcSafe => dcWire[c] = {} /\ Len(dcIn[c]) = 1 /\ dcIn[c][1].query = dcCall[p].query
  <2> SUFFICES ASSUME DcSafe PROVE dcWire[c] = {} /\ Len(dcIn[c]) = 1 /\ dcIn[c][1].query = dcCall[p].query
    OBVIOUS
  <2>1. dcIn[c] # <<>>
    BY <1>2
  <2>2. /\ dcWire[c] = {} /\ Len(dcIn[c]) <= 1
        /\ \E q \in DcProcs : DcReads(q, c) /\ \A i \in 1..Len(dcIn[c]) : dcIn[c][i].query = dcCall[q].query
    BY <1>1, <2>1 DEF DcInv, DcOnTheWay
  <2>3. PICK q \in DcProcs : DcReads(q, c) /\ \A i \in 1..Len(dcIn[c]) : dcIn[c][i].query = dcCall[q].query
    BY <2>2
  <2>4. q = p
    <3>1. DcReads(p, c)
      BY <1>1 DEF DcReads
    <3> QED BY <1>6, <2>3, <3>1 DEF DcInv, DcOneReader
  <2>5. Len(dcIn[c]) = 1
    <3> DEFINE k == Len(dcIn[c])
    <3>1. k \in Nat /\ 1 \in 1..k /\ k <= 1
      BY <1>2, <2>2
    <3> HIDE DEF k
    <3>2. k = 1
      BY <3>1
    <3> QED BY <3>2 DEF k
  <2>6. dcIn[c][1].query = dcCall[q].query
    BY <1>2, <2>3
  <2> QED BY <2>2, <2>4, <2>5, <2>6
<1>13. DcOnTheWay'
  <2> SUFFICES ASSUME DcSafe, NEW d \in DcClients
               PROVE  /\ dcWire[d] # {} => dcIn'[d] = <<>>
                      /\ Len(dcIn'[d]) <= 1
                      /\ dcWire[d] # {} \/ dcIn'[d] # <<>> => \E q \in DcProcs :
                           /\ DcReads(q, d)' /\ dcWire[d] \subseteq {dcCall'[q].query}
                           /\ \A i \in 1..Len(dcIn'[d]) : dcIn'[d][i].query = dcCall'[q].query
    BY <1>1, <1>9 DEF DcOnTheWay
  <2>1. CASE d = c
    <3>0. n = 1
      <4>1. n <= Len(dcIn[c]) /\ Len(dcIn[c]) = 1
        BY <1>1, <1>12
      <4> QED BY <4>1
    <3>1. Len(dcIn'[c]) = 0 /\ dcIn'[c] \in Seq(DcReplies)
      BY <1>7, <1>12, <3>0
    <3>2. dcIn'[c] = <<>>
      BY <3>1
    <3> QED BY <1>12, <2>1, <3>1, <3>2
  <2>2. CASE d # c
    <3>1. dcIn'[d] = dcIn[d]
      BY <1>7, <2>2
    <3>2. \A q \in DcProcs : DcReads(q, d) => DcReads(q, d)' /\ dcCall'[q] = dcCall[q]
      BY <1>1, <1>6, <1>10, <2>2 DEF DcReads
    <3> QED BY <1>1, <3>1, <3>2 DEF DcInv, DcOnTheWay
  <2> QED BY <2>1, <2>2
<1>14. DcOwnRequest'
  BY <1>1 DEF DcOwnRequest
<1>15. DcWhole'
  <2> SUFFICES ASSUME ~dcFault, NEW d \in DcClients, NEW i \in 1..Len(dcIn'[d]) PROVE dcIn'[d][i].part = "all"
    BY <1>1 DEF DcWhole
  <2>1. CASE d = c
    BY <1>7, <2>1 DEF DcInv, DcWhole
  <2>2. CASE d # c
    BY <1>7, <2>2 DEF DcInv, DcWhole
  <2> QED BY <2>1, <2>2
<1>16. DcMatched'
  <2> SUFFICES ASSUME DcSafe, NEW q \in DcQuery PROVE dcGot'[q] \in {0, q}
    BY <1>9 DEF DcMatched, DcSafe, DcLocked
  <2>1. DcMatched /\ ~dcFault
    BY DEF DcInv, DcSafe
  <2> QED BY <1>5, <1>6, <1>12, <2>1 DEF DcMatched, DcSafe, DcLocked
<1> QED BY <1>6, <1>8, <1>11, <1>13, <1>14, <1>15, <1>16 DEF DcInv

(* Get of DoH returns the reply to what the call sent, which is its own    *)
(* query when the client has one user.                                     *)
LEMMA DcRecvDoHInv == DcInv /\ DcRecvDoH => DcInv'
<1> SUFFICES ASSUME DcInv, DcRecvDoH PROVE DcInv'
  OBVIOUS
<1>1. PICK p \in dcUsers, c \in DcClients : \E i \in 1..Len(dcIn[c]) :
        /\ dcCall[p].pc = "read" /\ dcClient[p] = c /\ dcKind = "doh" /\ dcIn[c][i].query = dcCall[p].sent
        /\ DcReturn(p, DcUnpack(dcIn[c][i]))
        /\ UNCHANGED <<dcKind, dcUsers, dcClient, dcPool, dcMade, dcQueries, dcShared, dcWire, dcIn, dcFault>>
  BY DEF DcRecvDoH, dcPoolVars
<1>2. PICK i \in 1..Len(dcIn[c]) :
        /\ dcCall[p].pc = "read" /\ dcClient[p] = c /\ dcKind = "doh" /\ dcIn[c][i].query = dcCall[p].sent
        /\ DcReturn(p, DcUnpack(dcIn[c][i]))
        /\ UNCHANGED <<dcKind, dcUsers, dcClient, dcPool, dcMade, dcQueries, dcShared, dcWire, dcIn, dcFault>>
  BY <1>1
<1> DEFINE got == DcUnpack(dcIn[c][i])
<1>3. got \in -1..dcQueries /\ DcReturn(p, got)
  BY <1>2, DcUnpacked DEF DcInv
<1>4. ~dcFault => got = dcCall[p].sent
  BY <1>2 DEF DcInv, DcWhole, DcUnpack
<1> HIDE DEF got
<1>5. /\ dcCall' \in [DcProcs -> [pc : {"idle", "query", "read"}, query : 0..dcQueries, sent : 0..dcQueries]]
      /\ dcLock' \in [DcClients -> DcProcs \cup {0}] /\ dcGot' \in [DcQuery -> -1..dcQueries]
      /\ dcCall'[p].pc = "idle" /\ \A q \in DcProcs \ {p} : dcCall'[q] = dcCall[q]
      /\ dcGot'[dcCall[p].query] = got
      /\ \A q \in DcQuery \ {dcCall[p].query} : dcGot'[q] = dcGot[q]
      /\ p \in DcProcs /\ dcCall[p].query \in DcQuery /\ dcKind # "none"
      /\ DcBegun' /\ DcHeld'
  BY <1>2, <1>3, DcReturned
<1>6. DcTypes'
  BY <1>2, <1>5 DEF DcInv, DcTypes, DcReplies
<1>7. DcSafe' <=> DcSafe
  BY <1>2 DEF DcSafe
<1>8. \A q \in DcProcs, d \in DcClients : DcReads(q, d)' => DcReads(q, d)
  BY <1>2, <1>5 DEF DcReads
<1>9. DcOneReader'
  BY <1>7, <1>8 DEF DcInv, DcOneReader
<1>10. DcOnTheWay' /\ DcWhole'
  BY <1>2 DEF DcInv, DcOnTheWay, DcWhole
<1>11. DcOwnRequest'
  BY <1>2, <1>5, <1>7 DEF DcInv, DcOwnRequest
<1>12. DcMatched'
  <2> SUFFICES ASSUME DcSafe, NEW q \in DcQuery PROVE dcGot'[q] \in {0, q}
    BY <1>7 DEF DcMatched, DcSafe, DcLocked
  <2>1. DcMatched /\ ~dcFault
    BY DEF DcInv, DcSafe
  <2>2. dcCall[p].sent = dcCall[p].query
    BY <1>2, <1>5 DEF DcInv, DcOwnRequest
  <2> QED BY <1>4, <1>5, <2>1, <2>2 DEF DcMatched, DcSafe, DcLocked
<1> QED BY <1>5, <1>6, <1>9, <1>10, <1>11, <1>12 DEF DcInv

(* A read times out: the answer may come later, which is the fault that    *)
(* DcMatched leaves out.                                                   *)
LEMMA DcTimeoutInv == DcInv /\ DcTimeout => DcInv'
<1> SUFFICES ASSUME DcInv, DcTimeout PROVE DcInv'
  OBVIOUS
<1>1. PICK p \in dcUsers :
        /\ dcCall[p].pc = "read" /\ DcReturn(p, -1) /\ dcFault' = TRUE
        /\ UNCHANGED <<dcKind, dcUsers, dcClient, dcPool, dcMade, dcQueries, dcShared, dcWire, dcIn>>
  BY DEF DcTimeout, dcPoolVars
<1>2. -1 \in -1..dcQueries
  BY DEF DcInv, DcTypes
<1>3. /\ dcCall' \in [DcProcs -> [pc : {"idle", "query", "read"}, query : 0..dcQueries, sent : 0..dcQueries]]
      /\ dcLock' \in [DcClients -> DcProcs \cup {0}] /\ dcGot' \in [DcQuery -> -1..dcQueries]
      /\ DcBegun' /\ DcHeld'
  BY <1>1, <1>2, DcReturned
<1>4. DcTypes'
  BY <1>1, <1>3 DEF DcInv, DcTypes, DcReplies
<1>5. ~DcSafe' /\ DcWhole' /\ DcMatched'
  BY <1>1 DEF DcSafe, DcWhole, DcMatched
<1>6. DcOneReader' /\ DcOnTheWay' /\ DcOwnRequest'
  BY <1>5 DEF DcOneReader, DcOnTheWay, DcOwnRequest
<1> QED BY <1>3, <1>4, <1>5, <1>6 DEF DcInv

(* Every step of the goroutines, the servers and the network preserves the *)
(* invariant.                                                              *)
LEMMA DcNextInv == DcInv /\ [DcNext]_dcVars => DcInv'
<1> SUFFICES ASSUME DcInv, [DcNext]_dcVars PROVE DcInv'
  OBVIOUS
<1>1. CASE UNCHANGED dcVars
  <2>1. UNCHANGED <<dcKind, dcUsers, dcClient, dcPool, dcMade, dcLock, dcCall, dcQueries, dcShared, dcWire, dcIn, dcGot, dcFault>>
    BY <1>1 DEF dcVars
  <2>2. DcTypes' /\ DcBegun' /\ DcHeld'
    BY <2>1 DEF DcInv, DcTypes, DcReplies, DcBegun, DcHeld
  <2>3. DcOneReader' /\ DcOnTheWay'
    BY <2>1 DEF DcInv, DcOneReader, DcOnTheWay, DcSafe, DcReads
  <2>4. DcOwnRequest' /\ DcWhole' /\ DcMatched'
    BY <2>1 DEF DcInv, DcOwnRequest, DcWhole, DcMatched, DcSafe
  <2> QED BY <2>2, <2>3, <2>4 DEF DcInv
<1> QED BY <1>1, DcNewInv, DcPoolInv, DcLookupInv, DcWriteInv, DcReplyInv, DcLoseInv, DcRecvInv, DcRecvDoHInv, DcTimeoutInv DEF DcNext

(* A Lookup over a UDP client or a client of the pool, by any number of    *)
(* goroutines, and by the one user of another client, returns the reply to *)
(* its own query, as long as no read timed out and no message was cut:     *)
(* the clients compare no ID, and need not.                                *)
THEOREM OwnAnswer == DcSpec => [](DcMatched /\ DcTypeOK)
<1>1. DcInv => DcMatched /\ DcTypeOK
  <2> SUFFICES ASSUME DcInv PROVE DcMatched /\ DcTypeOK
    OBVIOUS
  <2>1. \A p \in DcProcs : dcCall[p].pc \in {"idle", "query", "read"} /\ dcClient[p] \in DcClients \cup {0}
    BY DEF DcInv, DcTypes
  <2>2. \A q \in DcQuery : dcGot[q] \in -1..dcQueries
    BY DEF DcInv, DcTypes
  <2> QED BY <2>1, <2>2 DEF DcInv, DcTypes, DcTypeOK
<1> QED BY <1>1, DcInitInv, DcNextInv, PTL DEF DcSpec

(* DNS transport in the run that has both components: a query gets its own *)
(* answer, a listener that fails is noticed, and no request is left in the *)
(* queue, for every value of the constants.                                *)
THEOREM TransportSound == MCSpec => []DnsTransportSound
<1>1. MCInit => DcInit /\ DlInit
  BY DEF MCInit
<1>2. [MCNext]_<<part, wsVars, wcVars, wfVars, whVars, wrVars, dcVars, dlVars, scVars>> => [DcNext]_dcVars /\ [DlNext]_dlVars
  BY DEF MCNext
<1>3. DcSpec /\ DlSpec => []DnsTransportSound
  BY OwnAnswer, ListenersSound, PTL DEF DnsTransportSound
<1> QED BY <1>1, <1>2, <1>3, PTL DEF MCSpec, DcSpec, DlSpec
=============================================================================
