------------------------- MODULE WebsocketProofs -------------------------
(***************************************************************************)
(* Theorems about the websocket client (WsClient), the frames (WsFrame),   *)
(* the handshake of the server (WsHandshake), the routes (WsRoutes) and    *)
(* the server itself (WsServer), alone and in the module that composes     *)
(* them (MCNet), and about the types of all of that module's state.        *)
(***************************************************************************)
EXTENDS MCNet, DnsTransportProofs, SmtpClientProofs, FiniteSetTheorems, SequenceTheorems, WellFoundedInduction, TLAPS

-----------------------------------------------------------------------------
(* The client.                                                             *)
WcFrameType == [op : WcOps \cup {"none"}, fin : BOOLEAN, on : 0..WcMaxConn, n : 0..WcMaxFrames]
WcPieceType == [f : WcFrameType, part : {"whole", "head", "tail"}]

WcTypes ==
  /\ wcOpened \in 0..WcMaxConn /\ wcSent \in 0..WcMaxFrames /\ wcQuits \in Nat /\ wcFailed \in Nat
  /\ wcUser \in {"idle", "open", "handshake", "sending", "panic"}
  /\ wcFrame \in WcFrameType /\ wcFrames \in Seq(WcFrameType) /\ wcGot \in Seq(WcFrameType)
  /\ wcIn \in [WcIds -> Seq(WcPieceType)] /\ wcHalf \in [WcIds -> WcFrameType]
  /\ wcServe \in [WcIds -> [pc : {"none", "recv", "read", "frames", "quit", "done"},
                            on : 0..WcMaxConn, todo : Seq(WcPieceType)]]

\* conn is nil or the connection opened last; Connect has made it nil before it opens the next.
WcTurns ==
  /\ wcConn \in {0, wcOpened}
  /\ wcUser = "open" => wcConn = 0 /\ wcOpened < WcMaxConn
  /\ wcUser = "handshake" => wcOpened > 0 /\ wcServe[wcOpened] = WcIdle
  /\ \A k \in WcIds : k > wcOpened => wcServe[k] = WcIdle /\ wcIn[k] = <<>> /\ wcHalf[k] = WcNone
  /\ \A k \in WcIds : /\ wcServe[k].pc \in {"read", "frames"} => wcServe[k].on \in 1..wcOpened
                      /\ wcServe[k].pc # "frames" => wcServe[k].todo = <<>>

\* The frame of which the piece before the i-th of a stream is the head; held is the one the
\* stream begins in.
WcBefore(Q, held, i) == IF i = 1 THEN held ELSE IF Q[i - 1].part = "head" THEN Q[i - 1].f ELSE WcNone

WcPieceSound(Q, held, low, sent, i) ==
  /\ Q[i].f.on = 1 /\ Q[i].f.n \in (low + 1)..sent
  /\ Q[i].part = "tail" => Q[i].f = WcBefore(Q, held, i)
  /\ WcBefore(Q, held, i) # WcNone => Q[i].part = "tail"
  /\ Q[i].part # "tail" => WcBefore(Q, held, i) = WcNone

\* A stream of pieces that the first connection's server sent, after frame low and up to frame
\* sent: every tail follows its own head, the frames are in order, half is the one it ends in.
WcChain(Q, held, half, low, sent) ==
  /\ held # WcNone => held.on = 1 /\ held.n \in (low + 1)..sent
  /\ half # WcNone => half.on = 1 /\ half.n \in (low + 1)..sent
  /\ half = WcBefore(Q, held, Len(Q) + 1)
  /\ \A i \in 1..Len(Q) : WcPieceSound(Q, held, low, sent, i)
  /\ \A i, j \in 1..Len(Q) : i < j => Q[i].f.n < Q[j].f.n \/ (j = i + 1 /\ Q[j].part = "tail")

\* The fragments of one message, none after frame low; whole says that the last one is among them.
WcMessage(fs, whole, low) ==
  /\ \A i \in 1..Len(fs) : /\ fs[i].on = 1 /\ fs[i].n <= low /\ (fs[i].op = "cont") = (i > 1)
                           /\ fs[i].fin = (whole /\ i = Len(fs))
  /\ \A i, j \in 1..Len(fs) : i < j => fs[i].n < fs[j].n

\* A stream that begins in frame held, and the fragments before it.
WcReading(Q, fs, held, half, sent) ==
  \E low \in 0..sent : WcMessage(fs, FALSE, low) /\ WcChain(Q, held, half, low, sent)

\* The bytes of the first connection are still being read.
WcLive == wcUser = "handshake" \/ wcServe[1].pc \in {"recv", "read", "frames"}
WcStream == wcServe[1].todo \o wcIn[1]
WcFirst ==
  /\ wcOpened = 0 => wcGot = <<>> /\ wcFrames = <<>> /\ wcFrame = WcNone
  /\ wcOpened = 1 =>
       /\ WcMessage(wcGot, TRUE, wcSent)
       /\ WcLive => WcReading(WcStream, wcFrames, wcFrame, wcHalf[1], wcSent)

WcInv == WcTypes /\ WcTurns /\ WcNoLeak /\ WcAttended /\ WcFirst

(* A piece at the end of a stream: a frame that the server begins.         *)
LEMMA WcPushed == ASSUME NEW Q \in Seq(WcPieceType), NEW held \in WcFrameType, NEW low \in Nat, NEW sent \in Nat,
                         NEW f \in WcFrameType, NEW p \in {"whole", "head"},
                         WcChain(Q, held, WcNone, low, sent), low <= sent, f.on = 1, f.n = sent + 1
                  PROVE  WcChain(Append(Q, [f |-> f, part |-> p]), held, IF p = "whole" THEN WcNone ELSE f, low, sent + 1)
<1> DEFINE x == [f |-> f, part |-> p]
           R == Append(Q, x)
           half == IF p = "whole" THEN WcNone ELSE f
<1>0. x \in WcPieceType /\ x.f = f /\ x.part = p
  BY DEF WcPieceType
<1> HIDE DEF x
<1>1. /\ R \in Seq(WcPieceType) /\ Len(R) = Len(Q) + 1 /\ R[Len(Q) + 1] = x /\ Len(Q) \in Nat
      /\ \A i \in 1..Len(Q) : R[i] = Q[i] /\ Q[i] \in WcPieceType
  BY <1>0
<1>2. \A i \in 1..Len(Q) + 1 : WcBefore(R, held, i) = WcBefore(Q, held, i)
  BY <1>1 DEF WcBefore
<1>3. WcBefore(Q, held, Len(Q) + 1) = WcNone
  BY DEF WcChain
<1>4. \A i \in 1..Len(Q) : Q[i].f.n \in 0..WcMaxFrames /\ held.n \in 0..WcMaxFrames
  BY <1>1 DEF WcPieceType, WcFrameType
<1> HIDE DEF R
<1>5. \A i \in 1..Len(R) : WcPieceSound(R, held, low, sent + 1, i)
  <2> SUFFICES ASSUME NEW i \in 1..Len(R)
               PROVE  WcPieceSound(R, held, low, sent + 1, i)
    OBVIOUS
  <2>1. CASE i \in 1..Len(Q)
    <3>1. /\ Q[i].f.on = 1 /\ Q[i].f.n \in (low + 1)..sent
          /\ Q[i].part = "tail" => Q[i].f = WcBefore(Q, held, i)
          /\ WcBefore(Q, held, i) # WcNone => Q[i].part = "tail"
          /\ Q[i].part # "tail" => WcBefore(Q, held, i) = WcNone
      BY <2>1 DEF WcChain, WcPieceSound
    <3>2. R[i] = Q[i] /\ WcBefore(R, held, i) = WcBefore(Q, held, i)
      BY <1>1, <1>2, <2>1
    <3> QED BY <3>1, <3>2 DEF WcPieceSound
  <2>2. CASE i = Len(Q) + 1
    BY <1>0, <1>1, <1>2, <1>3, <2>2 DEF WcPieceSound
  <2> QED BY <1>1, <2>1, <2>2
<1>6. \A i, j \in 1..Len(R) : i < j => R[i].f.n < R[j].f.n \/ (j = i + 1 /\ R[j].part = "tail")
  <2> SUFFICES ASSUME NEW i \in 1..Len(R), NEW j \in 1..Len(R), i < j
               PROVE  R[i].f.n < R[j].f.n \/ (j = i + 1 /\ R[j].part = "tail")
    OBVIOUS
  <2>1. i \in 1..Len(Q) /\ R[i] = Q[i] /\ Q[i].f.n \in (low + 1)..sent
    BY <1>1 DEF WcChain, WcPieceSound
  <2>2. CASE j \in 1..Len(Q)
    BY <1>1, <2>1, <2>2 DEF WcChain
  <2>3. CASE j = Len(Q) + 1
    BY <1>0, <1>1, <2>1, <2>3
  <2>4. j \in 1..Len(Q) \/ j = Len(Q) + 1
    BY <1>1
  <2> QED BY <2>2, <2>3, <2>4
<1>7. WcBefore(R, held, Len(R) + 1) = half
  BY <1>0, <1>1 DEF WcBefore
<1>8. held # WcNone => held.on = 1 /\ held.n \in (low + 1)..(sent + 1)
  BY <1>4 DEF WcChain, WcFrameType
<1>9. half # WcNone => half.on = 1 /\ half.n \in (low + 1)..(sent + 1)
  OBVIOUS
<1> HIDE DEF half
<1>10. WcChain(R, held, half, low, sent + 1)
  BY <1>5, <1>6, <1>7, <1>8, <1>9, Zenon DEF WcChain
<1> QED BY <1>10 DEF R, half, x

(* The rest of a frame at the end of a stream.                             *)
LEMMA WcRested == ASSUME NEW Q \in Seq(WcPieceType), NEW held \in WcFrameType, NEW low \in Nat, NEW sent \in Nat,
                         NEW half \in WcFrameType, half # WcNone, WcChain(Q, held, half, low, sent)
                  PROVE  WcChain(Append(Q, [f |-> half, part |-> "tail"]), held, WcNone, low, sent)
<1> DEFINE x == [f |-> half, part |-> "tail"]
           R == Append(Q, x)
<1>0. x \in WcPieceType /\ x.f = half /\ x.part = "tail"
  BY DEF WcPieceType
<1> HIDE DEF x
<1>1. /\ R \in Seq(WcPieceType) /\ Len(R) = Len(Q) + 1 /\ R[Len(Q) + 1] = x /\ Len(Q) \in Nat
      /\ \A i \in 1..Len(Q) : R[i] = Q[i] /\ Q[i] \in WcPieceType
  BY <1>0
<1>2. \A i \in 1..Len(Q) + 1 : WcBefore(R, held, i) = WcBefore(Q, held, i)
  BY <1>1 DEF WcBefore
<1>3. WcBefore(Q, held, Len(Q) + 1) = half /\ half.on = 1 /\ half.n \in (low + 1)..sent
  BY DEF WcChain
<1> HIDE DEF R
<1>5. \A i \in 1..Len(R) : WcPieceSound(R, held, low, sent, i)
  <2> SUFFICES ASSUME NEW i \in 1..Len(R)
               PROVE  WcPieceSound(R, held, low, sent, i)
    OBVIOUS
  <2>1. CASE i \in 1..Len(Q)
    <3>1. /\ Q[i].f.on = 1 /\ Q[i].f.n \in (low + 1)..sent
          /\ Q[i].part = "tail" => Q[i].f = WcBefore(Q, held, i)
          /\ WcBefore(Q, held, i) # WcNone => Q[i].part = "tail"
          /\ Q[i].part # "tail" => WcBefore(Q, held, i) = WcNone
      BY <2>1 DEF WcChain, WcPieceSound
    <3>2. R[i] = Q[i] /\ WcBefore(R, held, i) = WcBefore(Q, held, i)
      BY <1>1, <1>2, <2>1
    <3> QED BY <3>1, <3>2 DEF WcPieceSound
  <2>2. CASE i = Len(Q) + 1
    BY <1>0, <1>1, <1>2, <1>3, <2>2 DEF WcPieceSound
  <2> QED BY <1>1, <2>1, <2>2
<1>6. \A i, j \in 1..Len(R) : i < j => R[i].f.n < R[j].f.n \/ (j = i + 1 /\ R[j].part = "tail")
  <2> SUFFICES ASSUME NEW i \in 1..Len(R), NEW j \in 1..Len(R), i < j
               PROVE  R[i].f.n < R[j].f.n \/ (j = i + 1 /\ R[j].part = "tail")
    OBVIOUS
  <2>1. i \in 1..Len(Q) /\ R[i] = Q[i]
    BY <1>1
  <2>2. CASE j \in 1..Len(Q)
    BY <1>1, <2>1, <2>2 DEF WcChain
  <2>3. CASE j = Len(Q) + 1 /\ i = Len(Q)
    BY <1>0, <1>1, <2>3
  <2>4. CASE j = Len(Q) + 1 /\ i # Len(Q)
    <3>1. Len(Q) >= 1 /\ Q[Len(Q)].part = "head" /\ Q[Len(Q)].f = half
      BY <1>1, <1>3, <2>1, <2>4 DEF WcBefore
    <3>2. Q[i].f.n < Q[Len(Q)].f.n
      BY <1>1, <2>1, <2>4, <3>1 DEF WcChain
    <3> QED BY <1>0, <1>1, <2>1, <2>4, <3>1, <3>2
  <2> QED BY <1>1, <2>2, <2>3, <2>4
<1>7. WcBefore(R, held, Len(R) + 1) = WcNone
  BY <1>0, <1>1 DEF WcBefore
<1>8. held # WcNone => held.on = 1 /\ held.n \in (low + 1)..sent
  BY DEF WcChain
<1>10. WcChain(R, held, WcNone, low, sent)
  BY <1>5, <1>6, <1>7, <1>8, Zenon DEF WcChain
<1> QED BY <1>10 DEF R, x

(* The first piece of a stream is taken: a head is kept, and the stream    *)
(* goes on in that frame; else it ends a frame that was sent after low.    *)
LEMMA WcPopped == ASSUME NEW Q \in Seq(WcPieceType), NEW held \in WcFrameType, NEW low \in Nat, NEW sent \in Nat,
                         NEW half \in WcFrameType, Q # <<>>, WcChain(Q, held, half, low, sent)
                  PROVE  /\ Q[1].f.on = 1 /\ Q[1].f.n \in (low + 1)..sent /\ Q[1] \in WcPieceType
                         /\ Q[1].part = "head" => WcChain(Tail(Q), Q[1].f, half, low, sent)
                         /\ Q[1].part # "head" =>
                              /\ Q[1].part = (IF held = WcNone THEN "whole" ELSE "tail") /\ held \in {WcNone, Q[1].f}
                              /\ WcChain(Tail(Q), WcNone, half, Q[1].f.n, sent)
<1> DEFINE R == Tail(Q)
<1>1. /\ R \in Seq(WcPieceType) /\ Len(R) = Len(Q) - 1 /\ Len(Q) \in Nat /\ Len(Q) >= 1
      /\ \A i \in 1..Len(R) : R[i] = Q[i + 1] /\ i + 1 \in 1..Len(Q)
      /\ \A i \in 1..Len(Q) : Q[i] \in WcPieceType
  OBVIOUS
<1> HIDE DEF R
<1>2. /\ Q[1].f.on = 1 /\ Q[1].f.n \in (low + 1)..sent /\ Q[1] \in WcPieceType
      /\ Q[1].part = "tail" => Q[1].f = held
      /\ held # WcNone => Q[1].part = "tail"
      /\ Q[1].part # "tail" => held = WcNone
  BY <1>1 DEF WcChain, WcPieceSound, WcBefore
<1>3. Q[1].f # WcNone /\ Q[1].f.n \in Nat /\ Q[1].part \in {"whole", "head", "tail"}
  BY <1>2 DEF WcNone, WcPieceType, WcFrameType
<1> DEFINE new == IF Q[1].part = "head" THEN Q[1].f ELSE WcNone
           from == IF Q[1].part = "head" THEN low ELSE Q[1].f.n
<1>4. \A i \in 1..Len(R) + 1 : WcBefore(R, new, i) = WcBefore(Q, held, i + 1)
  BY <1>1, SMTT(60) DEF WcBefore
<1>5. from \in Nat /\ from >= low /\ (new # WcNone => new.on = 1 /\ new.n \in (from + 1)..sent)
  BY <1>2, <1>3
<1>6. \A i, j \in 1..Len(R) : i < j => R[i].f.n < R[j].f.n \/ (j = i + 1 /\ R[j].part = "tail")
  <2> SUFFICES ASSUME NEW i \in 1..Len(R), NEW j \in 1..Len(R), i < j
               PROVE  R[i].f.n < R[j].f.n \/ (j = i + 1 /\ R[j].part = "tail")
    OBVIOUS
  <2>1. i + 1 \in 1..Len(Q) /\ j + 1 \in 1..Len(Q) /\ i + 1 < j + 1 /\ R[i] = Q[i + 1] /\ R[j] = Q[j + 1]
    BY <1>1
  <2> QED BY <2>1 DEF WcChain
<1>7. \A i \in 1..Len(R) : R[i].f.n \in (from + 1)..sent
  <2> SUFFICES ASSUME NEW i \in 1..Len(R) PROVE R[i].f.n \in (from + 1)..sent
    OBVIOUS
  <2>1. i + 1 \in 1..Len(Q) /\ R[i] = Q[i + 1] /\ Q[i + 1].f.n \in (low + 1)..sent
    BY <1>1 DEF WcChain, WcPieceSound
  <2>2. CASE Q[1].part = "head"
    BY <2>1, <2>2
  <2>3. CASE Q[1].part # "head"
    <3>1. 1 \in 1..Len(Q) /\ 1 < i + 1
      BY <1>1
    <3>2. Q[1].f.n < Q[i + 1].f.n \/ (i + 1 = 1 + 1 /\ Q[i + 1].part = "tail")
      BY <2>1, <3>1 DEF WcChain
    <3>3. CASE i = 1 /\ Q[2].part = "tail"
      <4>1. Q[2].f = WcBefore(Q, held, 2) /\ Q[2].f.on = 1
        BY <2>1, <3>3 DEF WcChain, WcPieceSound
      <4> QED BY <4>1, <2>3 DEF WcBefore, WcNone
    <3> QED BY <1>3, <2>1, <2>3, <3>2, <3>3, SMTT(60)
  <2> QED BY <2>2, <2>3
<1>8. \A i \in 1..Len(R) : WcPieceSound(R, new, from, sent, i)
  <2> SUFFICES ASSUME NEW i \in 1..Len(R)
               PROVE  WcPieceSound(R, new, from, sent, i)
    OBVIOUS
  <2> DEFINE j == i + 1
  <2>1. j \in 1..Len(Q) /\ R[i] = Q[j] /\ WcBefore(R, new, i) = WcBefore(Q, held, j)
    BY <1>1, <1>4
  <2> HIDE DEF j, new, from
  <2>2. /\ Q[j].f.on = 1
        /\ Q[j].part = "tail" => Q[j].f = WcBefore(Q, held, j)
        /\ WcBefore(Q, held, j) # WcNone => Q[j].part = "tail"
        /\ Q[j].part # "tail" => WcBefore(Q, held, j) = WcNone
    BY <2>1 DEF WcChain, WcPieceSound
  <2> QED BY <1>7, <2>1, <2>2 DEF WcPieceSound
<1>9. half = WcBefore(R, new, Len(R) + 1)
  <2>1. half = WcBefore(Q, held, Len(Q) + 1)
    BY DEF WcChain
  <2> QED BY <1>1, <1>4, <2>1, SMTT(60)
<1>10. half # WcNone => half.on = 1 /\ half.n \in (from + 1)..sent
  <2>1. CASE Len(R) = 0
    BY <1>5, <1>9, <2>1 DEF WcBefore
  <2>2. CASE Len(R) # 0
    <3>1. Len(R) \in 1..Len(R) /\ Len(R) + 1 - 1 = Len(R) /\ Len(R) + 1 # 1
      BY <1>1, <2>2
    <3>2. half # WcNone => half = R[Len(R)].f
      BY <1>9, <3>1 DEF WcBefore
    <3> QED BY <1>8, <3>1, <3>2 DEF WcPieceSound
  <2> QED BY <2>1, <2>2
<1> HIDE DEF new, from
<1>11. WcChain(R, new, half, from, sent)
  BY <1>5, <1>6, <1>8, <1>9, <1>10, Zenon DEF WcChain
<1> QED BY <1>2, <1>3, <1>11 DEF new, from, R

(* A fragment more.                                                        *)
LEMMA WcFragment == ASSUME NEW fs \in Seq(WcFrameType), NEW f \in WcFrameType, NEW low \in Nat,
                           WcMessage(fs, FALSE, low), f.on = 1, f.n > low, (f.op = "cont") = (fs # <<>>)
                    PROVE  WcMessage(Append(fs, f), f.fin, f.n)
<1> DEFINE R == Append(fs, f)
<1>1. /\ Len(R) = Len(fs) + 1 /\ R[Len(fs) + 1] = f /\ Len(fs) \in Nat
      /\ \A i \in 1..Len(fs) : R[i] = fs[i] /\ fs[i] \in WcFrameType
      /\ (fs = <<>>) = (Len(fs) = 0)
  OBVIOUS
<1>2. f.n \in Nat /\ f.fin \in BOOLEAN /\ \A i \in 1..Len(fs) : fs[i].n \in Nat
  BY <1>1 DEF WcFrameType
<1> HIDE DEF R
<1>3. \A i \in 1..Len(R) : /\ R[i].on = 1 /\ R[i].n <= f.n /\ (R[i].op = "cont") = (i > 1)
                           /\ R[i].fin = (f.fin /\ i = Len(R))
  <2> SUFFICES ASSUME NEW i \in 1..Len(R)
               PROVE  /\ R[i].on = 1 /\ R[i].n <= f.n /\ (R[i].op = "cont") = (i > 1)
                      /\ R[i].fin = (f.fin /\ i = Len(R))
    OBVIOUS
  <2>1. CASE i \in 1..Len(fs)
    <3>1. fs[i].on = 1 /\ fs[i].n <= low /\ (fs[i].op = "cont") = (i > 1) /\ fs[i].fin = (FALSE /\ i = Len(fs))
      BY <2>1 DEF WcMessage
    <3>2. i # Len(R)
      BY <1>1, <2>1
    <3> QED BY <1>1, <1>2, <2>1, <3>1, <3>2
  <2>2. CASE i = Len(fs) + 1
    BY <1>1, <1>2, <2>2
  <2> QED BY <1>1, <2>1, <2>2
<1>4. \A i, j \in 1..Len(R) : i < j => R[i].n < R[j].n
  <2> SUFFICES ASSUME NEW i \in 1..Len(R), NEW j \in 1..Len(R), i < j PROVE R[i].n < R[j].n
    OBVIOUS
  <2>1. i \in 1..Len(fs) /\ fs[i].n <= low
    BY <1>1 DEF WcMessage
  <2>2. CASE j \in 1..Len(fs)
    BY <1>1, <2>1, <2>2 DEF WcMessage
  <2>3. CASE j = Len(fs) + 1
    BY <1>1, <1>2, <2>1, <2>3
  <2> QED BY <1>1, <2>2, <2>3
<1> QED BY <1>3, <1>4 DEF WcMessage, R

(* The socket that conn names counts as one, no socket as none.            *)
LEMMA WcCard == ASSUME NEW c PROVE Cardinality({c} \ {0}) = IF c = 0 THEN 0 ELSE 1
<1>1. CASE c = 0
  <2>1. {c} \ {0} = {}
    BY <1>1
  <2> QED BY <1>1, <2>1, FS_EmptySet
<1>2. CASE c # 0
  <2>1. {c} \ {0} = {c}
    BY <1>2
  <2> QED BY <1>2, <2>1, FS_Singleton
<1> QED BY <1>1, <1>2

(* Quit leaves no socket open, and has announced the one it closed.        *)
LEMMA WcQuitKeeps == ASSUME WcInv, WcQuit, UNCHANGED <<wcOpened, wcFailed>>
                     PROVE  wcConn' = 0 /\ wcQuits' \in Nat /\ WcNoLeak' /\ WcAttended'
<1>1. wcConn' = 0 /\ wcOpen' = {wcConn'} \ {0} /\ wcOpen = {wcConn} \ {0}
  BY DEF WcInv, WcQuit, WcNoLeak
<1>2. Cardinality(wcOpen') = 0 /\ Cardinality(wcOpen) = IF wcConn = 0 THEN 0 ELSE 1
  BY <1>1, WcCard
<1>3. wcQuits \in Nat /\ wcFailed \in Nat /\ wcOpened \in Nat
  BY DEF WcInv, WcTypes
<1>4. wcQuits' \in Nat /\ wcOpened' = Cardinality(wcOpen') + wcQuits' + wcFailed'
  BY <1>2, <1>3 DEF WcInv, WcQuit, WcNoLeak
<1> QED BY <1>1, <1>4 DEF WcNoLeak, WcAttended

(* What there is to show of the first connection after a step.             *)
LEMMA WcFirstFrom == ASSUME wcOpened' # 0, wcOpened' = 1 => WcMessage(wcGot', TRUE, wcSent'),
                            wcOpened' = 1 /\ WcLive' =>
                              WcReading(WcStream', wcFrames', wcFrame', wcHalf'[1], wcSent')
                     PROVE  WcFirst'
BY DEF WcFirst

(* What a step that moves no piece of the first stream leaves.             *)
LEMMA WcFirstKept == ASSUME WcInv, UNCHANGED <<wcOpened, wcGot, wcFrames, wcFrame, wcIn, wcHalf, wcSent>>,
                            wcOpened = 1 /\ WcLive' => WcLive /\ wcServe'[1].todo = wcServe[1].todo
                     PROVE  WcFirst'
<1>1. wcOpened' = 0 => wcGot' = <<>> /\ wcFrames' = <<>> /\ wcFrame' = WcNone
  BY DEF WcInv, WcFirst
<1>2. ASSUME wcOpened = 1 PROVE WcMessage(wcGot, TRUE, wcSent)
  BY <1>2 DEF WcInv, WcFirst
<1>3. ASSUME wcOpened = 1, WcLive'
      PROVE  WcReading(WcStream', wcFrames, wcFrame, wcHalf[1], wcSent)
  <2>1. WcStream' = WcStream
    BY <1>3 DEF WcStream
  <2> QED BY <1>3, <2>1 DEF WcInv, WcFirst
<1>4. UNCHANGED <<wcOpened, wcGot, wcFrames, wcFrame, wcHalf, wcSent>>
  OBVIOUS
<1> QED BY <1>1, <1>2, <1>3, <1>4 DEF WcFirst

(* Before the first connection everything is empty.                        *)
LEMMA WcInitInv == WcInit => WcInv
<1> SUFFICES ASSUME WcInit PROVE WcInv
  OBVIOUS
<1> USE WcAssumption
<1>1. WcNone \in WcFrameType
  BY DEF WcNone, WcFrameType
<1>2. <<>> \in Seq(WcPieceType) /\ <<>> \in Seq(WcFrameType)
  OBVIOUS
<1>3. WcIdle \in [pc : {"none", "recv", "read", "frames", "quit", "done"}, on : 0..WcMaxConn, todo : Seq(WcPieceType)]
  BY <1>2 DEF WcIdle
<1>4. WcTypes
  BY <1>1, <1>2, <1>3 DEF WcInit, WcTypes
<1>5. WcTurns
  BY DEF WcInit, WcTurns, WcIdle
<1>6. WcNoLeak /\ WcAttended
  BY FS_EmptySet DEF WcInit, WcNoLeak, WcAttended
<1>7. WcFirst
  BY DEF WcInit, WcFirst
<1> QED BY <1>4, <1>5, <1>6, <1>7 DEF WcInv

(* What is appended to the second part is appended to the whole.           *)
LEMMA WcStreamEnd == ASSUME NEW a \in Seq(WcPieceType), NEW b \in Seq(WcPieceType), NEW x \in WcPieceType
                     PROVE  a \o b \in Seq(WcPieceType) /\ a \o Append(b, x) = Append(a \o b, x)
OBVIOUS

(* The steps of the server at the other end, which send, or close.         *)
LEMMA WcServerSendInv == WcInv /\ WcServerSend => WcInv'
<1> SUFFICES ASSUME WcInv, WcServerSend PROVE WcInv'
  OBVIOUS
<1>1. PICK k \in wcOpen : \E op \in WcOps, fin, whole \in BOOLEAN :
        LET f == [op |-> op, fin |-> fin, on |-> k, n |-> wcSent + 1]
        IN /\ wcHalf[k] = WcNone /\ wcSent < WcMaxFrames /\ wcSent' = wcSent + 1
           /\ wcIn' = [wcIn EXCEPT ![k] = Append(@, [f |-> f, part |-> IF whole THEN "whole" ELSE "head"])]
           /\ wcHalf' = [wcHalf EXCEPT ![k] = IF whole THEN WcNone ELSE f]
           /\ UNCHANGED <<wcConn, wcFrame, wcFrames, wcOpened, wcOpen, wcServe, wcUser, wcQuits, wcFailed, wcRefused, wcGot>>
  BY SMTT(60), ZenonT(60) DEF WcServerSend
<1>2. PICK op \in WcOps, fin \in BOOLEAN, whole \in BOOLEAN :
        LET f == [op |-> op, fin |-> fin, on |-> k, n |-> wcSent + 1]
        IN /\ wcHalf[k] = WcNone /\ wcSent < WcMaxFrames /\ wcSent' = wcSent + 1
           /\ wcIn' = [wcIn EXCEPT ![k] = Append(@, [f |-> f, part |-> IF whole THEN "whole" ELSE "head"])]
           /\ wcHalf' = [wcHalf EXCEPT ![k] = IF whole THEN WcNone ELSE f]
           /\ UNCHANGED <<wcConn, wcFrame, wcFrames, wcOpened, wcOpen, wcServe, wcUser, wcQuits, wcFailed, wcRefused, wcGot>>
  BY <1>1
<1> DEFINE f == [op |-> op, fin |-> fin, on |-> k, n |-> wcSent + 1]
           p == IF whole THEN "whole" ELSE "head"
           x == [f |-> f, part |-> p]
<1>3. /\ wcOpened \in 0..WcMaxConn /\ wcSent \in 0..WcMaxFrames /\ wcIn \in [WcIds -> Seq(WcPieceType)]
      /\ wcHalf \in [WcIds -> WcFrameType] /\ WcMaxConn \in Nat /\ WcMaxFrames \in Nat /\ wcFrame \in WcFrameType
      /\ wcServe[1].todo \in Seq(WcPieceType) \/ wcOpened = 0
  BY WcAssumption DEF WcInv, WcTypes, WcIds
<1>4. k = wcConn /\ k = wcOpened /\ k \in 1..wcOpened /\ k \in WcIds
  BY <1>3 DEF WcInv, WcNoLeak, WcTurns, WcIds
<1>5. f \in WcFrameType /\ p \in {"whole", "head"} /\ f.on = k /\ f.n = wcSent + 1
  BY <1>2, <1>3, <1>4 DEF WcFrameType
<1>6. x \in WcPieceType
  BY <1>5 DEF WcPieceType
<1>7. /\ wcHalf[k] = WcNone /\ wcSent < WcMaxFrames /\ wcSent' = wcSent + 1
      /\ wcIn' = [wcIn EXCEPT ![k] = Append(@, x)]
      /\ wcHalf' = [wcHalf EXCEPT ![k] = IF p = "whole" THEN WcNone ELSE f]
      /\ UNCHANGED <<wcConn, wcFrame, wcFrames, wcOpened, wcOpen, wcServe, wcUser, wcQuits, wcFailed, wcRefused, wcGot>>
  BY <1>2
<1> HIDE DEF f, p, x
<1>8. WcNone \in WcFrameType
  BY <1>3 DEF WcNone, WcFrameType
<1>9. wcIn'[k] = Append(wcIn[k], x) /\ wcHalf'[k] = (IF p = "whole" THEN WcNone ELSE f)
      /\ \A j \in WcIds : j # k => wcIn'[j] = wcIn[j] /\ wcHalf'[j] = wcHalf[j]
  BY <1>3, <1>4, <1>7
<1>10. WcTypes'
  <2>1. wcIn' \in [WcIds -> Seq(WcPieceType)] /\ wcHalf' \in [WcIds -> WcFrameType]
    BY <1>3, <1>4, <1>5, <1>6, <1>7, <1>8
  <2>2. wcSent' \in 0..WcMaxFrames
    BY <1>3, <1>7
  <2> QED BY <1>7, <2>1, <2>2 DEF WcInv, WcTypes
<1>11. WcTurns'
  <2>1. \A j \in WcIds : j > wcOpened => wcIn'[j] = wcIn[j] /\ wcHalf'[j] = wcHalf[j]
    BY <1>3, <1>4, <1>9
  <2> QED BY <1>7, <2>1 DEF WcInv, WcTurns
<1>12. WcNoLeak' /\ WcAttended'
  BY <1>7 DEF WcInv, WcNoLeak, WcAttended
<1>13. WcFirst'
  <2>1. CASE wcOpened # 1
    <3>1. wcOpened' # 0 /\ wcOpened' # 1
      BY <1>3, <1>4, <1>7, <2>1
    <3> QED BY <3>1, WcFirstFrom
  <2>2. CASE wcOpened = 1
    <3>1. WcMessage(wcGot, TRUE, wcSent) /\ wcGot \in Seq(WcFrameType)
      BY <2>2 DEF WcInv, WcFirst, WcTypes
    <3>2. WcMessage(wcGot', TRUE, wcSent')
      <4>1. \A i \in 1..Len(wcGot) : wcGot[i].n \in 0..WcMaxFrames
        <5>1. \A i \in 1..Len(wcGot) : wcGot[i] \in WcFrameType
          BY <3>1
        <5> QED BY <5>1 DEF WcFrameType
      <4>2. \A i \in 1..Len(wcGot) : wcGot[i].n <= wcSent => wcGot[i].n <= wcSent'
        BY <1>3, <1>7, <4>1
      <4>3. wcGot' = wcGot
        BY <1>7
      <4> QED BY <3>1, <4>2, <4>3 DEF WcMessage
    <3>3. ASSUME WcLive'
          PROVE  WcReading(WcStream', wcFrames', wcFrame', wcHalf'[1], wcSent')
      <4>1. WcLive
        BY <1>7, <3>3 DEF WcLive
      <4>2. PICK low \in 0..wcSent : WcMessage(wcFrames, FALSE, low) /\ WcChain(WcStream, wcFrame, wcHalf[1], low, wcSent)
        BY <2>2, <4>1 DEF WcInv, WcFirst, WcReading
      <4>3. WcStream \in Seq(WcPieceType) /\ WcStream' = Append(WcStream, x)
        <5>1. /\ wcServe' = wcServe /\ wcIn'[1] = Append(wcIn[1], x)
              /\ wcServe[1].todo \in Seq(WcPieceType) /\ wcIn[1] \in Seq(WcPieceType)
          BY <1>3, <1>4, <1>7, <1>9, <2>2
        <5>2. WcStream' = wcServe[1].todo \o Append(wcIn[1], x)
          BY <5>1 DEF WcStream
        <5>3. WcStream \in Seq(WcPieceType) /\ wcServe[1].todo \o Append(wcIn[1], x) = Append(WcStream, x)
          BY <1>6, <5>1, WcStreamEnd DEF WcStream
        <5> QED BY <5>2, <5>3
      <4>4. WcChain(Append(WcStream, x), wcFrame, IF p = "whole" THEN WcNone ELSE f, low, wcSent + 1)
        <5>1. low \in Nat /\ wcSent \in Nat /\ low <= wcSent /\ wcHalf[1] = WcNone /\ f.on = 1
          BY <1>3, <1>4, <1>5, <1>7, <2>2
        <5> HIDE DEF WcStream
        <5> QED BY <1>3, <1>5, <4>2, <4>3, <5>1, WcPushed DEF x
      <4>5. low \in 0..wcSent' /\ wcHalf'[1] = (IF p = "whole" THEN WcNone ELSE f)
        BY <1>3, <1>4, <1>7, <1>9, <2>2
      <4> QED BY <1>7, <4>2, <4>3, <4>4, <4>5 DEF WcReading
    <3>4. wcOpened' = 1
      BY <1>7, <2>2
    <3> QED BY <3>2, <3>3, <3>4, WcFirstFrom
  <2> QED BY <2>1, <2>2
<1> QED BY <1>10, <1>11, <1>12, <1>13 DEF WcInv

(* The server sends the rest of a frame.                                   *)
LEMMA WcServerRestInv == WcInv /\ WcServerRest => WcInv'
<1> SUFFICES ASSUME WcInv, WcServerRest PROVE WcInv'
  OBVIOUS
<1>1. PICK k \in wcOpen :
        /\ wcHalf[k] # WcNone
        /\ wcIn' = [wcIn EXCEPT ![k] = Append(@, [f |-> wcHalf[k], part |-> "tail"])]
        /\ wcHalf' = [wcHalf EXCEPT ![k] = WcNone]
        /\ UNCHANGED <<wcConn, wcFrame, wcFrames, wcOpened, wcOpen, wcServe, wcUser, wcQuits, wcFailed, wcRefused, wcSent, wcGot>>
  BY DEF WcServerRest
<1> DEFINE x == [f |-> wcHalf[k], part |-> "tail"]
<1>3. /\ wcOpened \in 0..WcMaxConn /\ wcSent \in 0..WcMaxFrames /\ wcIn \in [WcIds -> Seq(WcPieceType)]
      /\ wcHalf \in [WcIds -> WcFrameType] /\ WcMaxConn \in Nat /\ WcMaxFrames \in Nat /\ wcFrame \in WcFrameType
      /\ wcServe[1].todo \in Seq(WcPieceType) \/ wcOpened = 0
  BY WcAssumption DEF WcInv, WcTypes, WcIds
<1>4. k = wcConn /\ k = wcOpened /\ k \in 1..wcOpened /\ k \in WcIds
  BY <1>3 DEF WcInv, WcNoLeak, WcTurns, WcIds
<1>6. x \in WcPieceType
  BY <1>3, <1>4 DEF WcPieceType
<1>7. /\ wcIn' = [wcIn EXCEPT ![k] = Append(@, x)] /\ wcHalf' = [wcHalf EXCEPT ![k] = WcNone]
      /\ UNCHANGED <<wcConn, wcFrame, wcFrames, wcOpened, wcOpen, wcServe, wcUser, wcQuits, wcFailed, wcRefused, wcSent, wcGot>>
  BY <1>1
<1> HIDE DEF x
<1>8. WcNone \in WcFrameType
  BY <1>3 DEF WcNone, WcFrameType
<1>9. wcIn'[k] = Append(wcIn[k], x) /\ wcHalf'[k] = WcNone
      /\ \A j \in WcIds : j # k => wcIn'[j] = wcIn[j] /\ wcHalf'[j] = wcHalf[j]
  BY <1>3, <1>4, <1>7
<1>10. WcTypes'
  <2>1. wcIn' \in [WcIds -> Seq(WcPieceType)] /\ wcHalf' \in [WcIds -> WcFrameType]
    BY <1>3, <1>4, <1>6, <1>7, <1>8
  <2> QED BY <1>7, <2>1 DEF WcInv, WcTypes
<1>11. WcTurns'
  <2>1. \A j \in WcIds : j > wcOpened => wcIn'[j] = wcIn[j] /\ wcHalf'[j] = wcHalf[j]
    BY <1>3, <1>4, <1>9
  <2> QED BY <1>7, <2>1 DEF WcInv, WcTurns
<1>12. WcNoLeak' /\ WcAttended'
  BY <1>7 DEF WcInv, WcNoLeak, WcAttended
<1>13. WcFirst'
  <2>1. CASE wcOpened # 1
    <3>1. wcOpened' # 0 /\ wcOpened' # 1
      BY <1>3, <1>4, <1>7, <2>1
    <3> QED BY <3>1, WcFirstFrom
  <2>2. CASE wcOpened = 1
    <3>1. WcMessage(wcGot, TRUE, wcSent)
      BY <2>2 DEF WcInv, WcFirst
    <3>3. ASSUME WcLive'
          PROVE  WcReading(WcStream', wcFrames', wcFrame', wcHalf'[1], wcSent')
      <4>1. WcLive
        BY <1>7, <3>3 DEF WcLive
      <4>2. PICK low \in 0..wcSent : WcMessage(wcFrames, FALSE, low) /\ WcChain(WcStream, wcFrame, wcHalf[1], low, wcSent)
        BY <2>2, <4>1 DEF WcInv, WcFirst, WcReading
      <4>3. WcStream \in Seq(WcPieceType) /\ WcStream' = Append(WcStream, x)
        <5>1. /\ wcServe' = wcServe /\ wcIn'[1] = Append(wcIn[1], x)
              /\ wcServe[1].todo \in Seq(WcPieceType) /\ wcIn[1] \in Seq(WcPieceType)
          BY <1>3, <1>4, <1>7, <1>9, <2>2
        <5>2. WcStream' = wcServe[1].todo \o Append(wcIn[1], x)
          BY <5>1 DEF WcStream
        <5>3. WcStream \in Seq(WcPieceType) /\ wcServe[1].todo \o Append(wcIn[1], x) = Append(WcStream, x)
          BY <1>6, <5>1, WcStreamEnd DEF WcStream
        <5> QED BY <5>2, <5>3
      <4>4. WcChain(Append(WcStream, x), wcFrame, WcNone, low, wcSent)
        <5>1. low \in Nat /\ wcSent \in Nat /\ wcHalf[1] # WcNone /\ wcHalf[1] \in WcFrameType /\ x = [f |-> wcHalf[1], part |-> "tail"]
          BY <1>1, <1>3, <1>4, <2>2 DEF x
        <5> HIDE DEF WcStream
        <5> QED BY <1>3, <4>2, <4>3, <5>1, WcRested
      <4>5. wcHalf'[1] = WcNone
        BY <1>4, <1>9, <2>2
      <4> QED BY <1>7, <4>2, <4>3, <4>4, <4>5 DEF WcReading
    <3>2. wcOpened' = 1 /\ wcGot' = wcGot /\ wcSent' = wcSent
      BY <1>7, <2>2
    <3> QED BY <3>1, <3>2, <3>3, WcFirstFrom
  <2> QED BY <2>1, <2>2
<1> QED BY <1>10, <1>11, <1>12, <1>13 DEF WcInv

(* Steps that touch neither the streams nor the goroutines: the server     *)
(* closes a connection, or the user tests conn, or writes to it.           *)
LEMMA WcUserStepInv == WcInv /\ (WcServerClose \/ WcSendCheck \/ WcSendWrite) => WcInv'
<1> SUFFICES ASSUME WcInv, WcServerClose \/ WcSendCheck \/ WcSendWrite PROVE WcInv'
  OBVIOUS
<1>1. /\ UNCHANGED <<wcConn, wcFrame, wcFrames, wcOpened, wcOpen, wcIn, wcHalf, wcServe, wcQuits, wcFailed, wcRefused, wcSent, wcGot>>
      /\ (wcUser' \in {"idle", "sending", "panic"} /\ wcUser \in {"idle", "sending"}) \/ wcUser' = wcUser
  BY DEF WcServerClose, WcSendCheck, WcSendWrite, wcNet
<1>2. WcTypes'
  BY <1>1 DEF WcInv, WcTypes
<1>3. WcTurns'
  BY <1>1 DEF WcInv, WcTurns
<1>4. WcNoLeak'
  BY <1>1 DEF WcInv, WcNoLeak
<1>5. WcAttended'
  BY <1>1 DEF WcInv, WcAttended
<1>6. WcLive' => WcLive
  BY <1>1 DEF WcLive
<1>7. WcFirst'
  BY <1>1, <1>6, WcFirstKept
<1> QED BY <1>2, <1>3, <1>4, <1>5, <1>7 DEF WcInv

(* Connect begins with a Quit, and the user may call it alone.             *)
LEMMA WcConnectInv == WcInv /\ (WcConnect \/ WcUserQuit) => WcInv'
<1> SUFFICES ASSUME WcInv, WcConnect \/ WcUserQuit PROVE WcInv'
  OBVIOUS
<1>1. /\ UNCHANGED <<wcFrame, wcFrames, wcOpened, wcIn, wcHalf, wcSent, wcServe, wcFailed, wcRefused, wcGot>>
      /\ wcUser = "idle" /\ WcQuit /\ (wcUser' = "idle" \/ (wcUser' = "open" /\ wcOpened < WcMaxConn))
  BY DEF WcConnect, WcUserQuit, wcNet
<1>2. wcConn' = 0 /\ wcQuits' \in Nat /\ WcNoLeak' /\ WcAttended'
  BY <1>1, WcQuitKeeps
<1>3. WcTypes'
  BY <1>1, <1>2 DEF WcInv, WcTypes
<1>4. WcTurns'
  BY <1>1, <1>2 DEF WcInv, WcTurns
<1>5. WcLive' => WcLive
  BY <1>1 DEF WcLive
<1>6. WcFirst'
  BY <1>1, <1>5, WcFirstKept
<1> QED BY <1>2, <1>3, <1>4, <1>6 DEF WcInv

(* Connect opens the next connection, or fails to.                         *)
LEMMA WcOpenInv == WcInv /\ WcOpen => WcInv'
<1> SUFFICES ASSUME WcInv, WcOpen PROVE WcInv'
  OBVIOUS
<1>1. /\ wcUser = "open" /\ wcConn = 0 /\ wcOpened \in 0..WcMaxConn /\ wcOpened < WcMaxConn /\ WcMaxConn \in Nat
      /\ UNCHANGED <<wcFrame, wcFrames, wcIn, wcHalf, wcSent, wcServe, wcQuits, wcFailed, wcRefused, wcGot>>
  BY WcAssumption DEF WcOpen, wcNet, WcInv, WcTurns, WcTypes
<1>2. CASE wcUser' = "idle" /\ UNCHANGED <<wcOpened, wcConn, wcOpen>>
  <2>1. WcTypes'
    BY <1>1, <1>2 DEF WcInv, WcTypes
  <2>2. WcTurns' /\ WcNoLeak' /\ WcAttended'
    BY <1>1, <1>2 DEF WcInv, WcTurns, WcNoLeak, WcAttended
  <2>3. WcLive' => WcLive
    BY <1>1, <1>2 DEF WcLive
  <2>4. WcFirst'
    BY <1>1, <1>2, <2>3, WcFirstKept
  <2> QED BY <2>1, <2>2, <2>4 DEF WcInv
<1>3. CASE /\ wcOpened' = wcOpened + 1 /\ wcConn' = wcOpened + 1
           /\ wcOpen' = wcOpen \cup {wcOpened + 1} /\ wcUser' = "handshake"
  <2> DEFINE k == wcOpened + 1
  <2>1. k \in WcIds /\ k > wcOpened /\ k # 0
    BY <1>1 DEF WcIds
  <2>2. WcTypes'
    BY <1>1, <1>3 DEF WcInv, WcTypes
  <2>3. wcServe[k] = WcIdle /\ wcIn[k] = <<>> /\ wcHalf[k] = WcNone
    BY <2>1 DEF WcInv, WcTurns
  <2>4. WcTurns'
    <3>1. \A j \in WcIds : /\ j > wcOpened + 1 => wcServe[j] = WcIdle /\ wcIn[j] = <<>> /\ wcHalf[j] = WcNone
                           /\ wcServe[j].pc \in {"read", "frames"} => wcServe[j].on \in 1..wcOpened + 1
                           /\ wcServe[j].pc # "frames" => wcServe[j].todo = <<>>
      BY <1>1 DEF WcInv, WcTurns, WcIds
    <3>2. /\ wcConn' \in {0, wcOpened'} /\ wcUser' = "handshake" /\ wcOpened' > 0 /\ wcServe'[wcOpened'] = WcIdle
      BY <1>1, <1>3, <2>3
    <3>3. wcOpened' = wcOpened + 1 /\ UNCHANGED <<wcServe, wcIn, wcHalf>>
      BY <1>1, <1>3
    <3> HIDE DEF k
    <3> QED BY <3>1, <3>2, <3>3 DEF WcTurns
  <2>5. WcNoLeak'
    <3>1. wcOpen = {} /\ wcOpened = Cardinality(wcOpen) + wcQuits + wcFailed
      BY <1>1 DEF WcInv, WcNoLeak
    <3>2. wcOpen' = {wcConn'} \ {0} /\ wcConn' # 0
      BY <1>1, <1>3, <3>1
    <3>3. Cardinality(wcOpen') = 1 /\ Cardinality(wcOpen) = 0
      BY <3>1, <3>2, FS_EmptySet, WcCard
    <3>4. wcQuits \in Nat /\ wcFailed \in Nat
      BY DEF WcInv, WcTypes
    <3> QED BY <1>1, <1>3, <3>1, <3>2, <3>3, <3>4 DEF WcNoLeak
  <2>6. WcAttended'
    BY <1>3 DEF WcAttended
  <2>7. WcFirst'
    <3>1. CASE wcOpened = 0
      <4>1. wcGot = <<>> /\ wcFrames = <<>> /\ wcFrame = WcNone
        BY <3>1 DEF WcInv, WcFirst
      <4>2. WcStream' = <<>>
        BY <1>1, <2>3, <3>1 DEF WcStream, WcIdle
      <4>3. WcMessage(<<>>, TRUE, wcSent) /\ WcMessage(<<>>, FALSE, 0)
        BY DEF WcMessage
      <4>4. WcChain(<<>>, WcNone, WcNone, 0, wcSent)
        BY DEF WcChain, WcBefore
      <4>5. 0 \in 0..wcSent
        BY WcAssumption DEF WcInv, WcTypes
      <4>6. WcReading(<<>>, <<>>, WcNone, WcNone, wcSent)
        BY <4>3, <4>4, <4>5 DEF WcReading
      <4>7. wcHalf'[1] = WcNone /\ wcGot' = <<>> /\ wcFrames' = <<>> /\ wcFrame' = WcNone /\ wcSent' = wcSent /\ wcOpened' = 1
        BY <1>1, <1>3, <2>3, <3>1, <4>1
      <4> QED BY <4>2, <4>3, <4>6, <4>7, WcFirstFrom
    <3>2. CASE wcOpened # 0
      <4>1. wcOpened' # 0 /\ wcOpened' # 1
        BY <1>1, <1>3, <3>2
      <4> QED BY <4>1, WcFirstFrom
    <3> QED BY <3>1, <3>2
  <2> QED BY <2>2, <2>4, <2>5, <2>6, <2>7 DEF WcInv
<1> QED BY <1>2, <1>3 DEF WcOpen

(* The handshake fails, and the connection is closed, or serve goes on     *)
(* with what came behind the response.                                     *)
LEMMA WcHandshakeInv == WcInv /\ WcHandshake => WcInv'
<1> SUFFICES ASSUME WcInv, WcHandshake PROVE WcInv'
  OBVIOUS
<1>1. /\ wcUser = "handshake" /\ wcOpened \in 1..WcMaxConn /\ WcMaxConn \in Nat /\ wcOpened \in WcIds
      /\ wcServe[wcOpened] = WcIdle /\ wcConn \in {0, wcOpened} /\ WcMaxFrames \in Nat
      /\ UNCHANGED <<wcFrame, wcFrames, wcOpened, wcHalf, wcUp, wcSent, wcQuits, wcRefused, wcGot>>
  BY WcAssumption DEF WcHandshake, WcInv, WcTurns, WcTypes, WcIds
<1>2. CASE /\ wcUser' = IF wcConn = 0 THEN "panic" ELSE "idle"
           /\ wcFailed' = wcFailed + (IF wcConn = 0 THEN 0 ELSE 1)
           /\ wcConn' = 0 /\ wcOpen' = wcOpen \ {wcConn} /\ UNCHANGED <<wcServe, wcIn>>
  <2>1. wcFailed \in Nat /\ wcQuits \in Nat /\ wcFailed' \in Nat
    BY <1>2 DEF WcInv, WcTypes
  <2>2. WcTypes'
    BY <1>1, <1>2, <2>1 DEF WcInv, WcTypes
  <2>3. WcTurns'
    BY <1>1, <1>2 DEF WcInv, WcTurns
  <2>4. WcNoLeak'
    <3>1. wcOpen = {wcConn} \ {0} /\ wcOpened = Cardinality(wcOpen) + wcQuits + wcFailed
      BY DEF WcInv, WcNoLeak
    <3>2. wcOpen' = {wcConn'} \ {0}
      BY <1>2, <3>1
    <3>3. Cardinality(wcOpen') = 0 /\ Cardinality(wcOpen) = IF wcConn = 0 THEN 0 ELSE 1
      BY <1>2, <3>1, <3>2, WcCard
    <3> QED BY <1>1, <1>2, <2>1, <3>1, <3>2, <3>3 DEF WcNoLeak
  <2>5. WcAttended'
    BY <1>2 DEF WcAttended
  <2>6. WcLive' => WcLive
    BY <1>1, <1>2 DEF WcLive
  <2>7. WcFirst'
    BY <1>1, <1>2, <2>6, WcFirstKept
  <2> QED BY <2>2, <2>3, <2>4, <2>5, <2>7 DEF WcInv
<1>3. CASE /\ wcConn # 0
           /\ wcServe' = [wcServe EXCEPT ![wcOpened] = [pc |-> "frames", on |-> wcConn, todo |-> wcIn[wcConn]]]
           /\ wcIn' = [wcIn EXCEPT ![wcConn] = <<>>]
           /\ wcUser' = "idle" /\ UNCHANGED <<wcConn, wcOpen, wcFailed>>
  <2>1. wcConn = wcOpened
    BY <1>1, <1>3
  <2>2. wcIn \in [WcIds -> Seq(WcPieceType)] /\ wcIn[wcOpened] \in Seq(WcPieceType) /\ <<>> \in Seq(WcPieceType)
    BY <1>1 DEF WcInv, WcTypes
  <2>3. /\ wcServe'[wcOpened] = [pc |-> "frames", on |-> wcOpened, todo |-> wcIn[wcOpened]] /\ wcIn'[wcOpened] = <<>>
        /\ \A j \in WcIds : j # wcOpened => wcServe'[j] = wcServe[j] /\ wcIn'[j] = wcIn[j]
    BY <1>1, <1>3, <2>1, <2>2 DEF WcInv, WcTypes
  <2>4. WcTypes'
    <3>1. wcIn' \in [WcIds -> Seq(WcPieceType)]
      BY <1>3, <2>2
    <3>2. [pc |-> "frames", on |-> wcConn, todo |-> wcIn[wcConn]] \in
            [pc : {"none", "recv", "read", "frames", "quit", "done"}, on : 0..WcMaxConn, todo : Seq(WcPieceType)]
      BY <1>1, <2>1, <2>2
    <3>3. wcServe' \in [WcIds -> [pc : {"none", "recv", "read", "frames", "quit", "done"},
                                  on : 0..WcMaxConn, todo : Seq(WcPieceType)]]
      BY <1>3, <3>2 DEF WcInv, WcTypes
    <3> QED BY <1>1, <1>3, <3>1, <3>3 DEF WcInv, WcTypes
  <2>5. WcTurns'
    <3>1. \A j \in WcIds : j > wcOpened => wcServe'[j] = WcIdle /\ wcIn'[j] = <<>> /\ wcHalf[j] = WcNone
      BY <1>1, <2>3 DEF WcInv, WcTurns
    <3>2. \A j \in WcIds : /\ wcServe'[j].pc \in {"read", "frames"} => wcServe'[j].on \in 1..wcOpened
                           /\ wcServe'[j].pc # "frames" => wcServe'[j].todo = <<>>
      BY <1>1, <2>3 DEF WcInv, WcTurns
    <3> QED BY <1>1, <1>3, <3>1, <3>2 DEF WcTurns
  <2>6. WcNoLeak'
    BY <1>1, <1>3 DEF WcInv, WcNoLeak
  <2>7. WcAttended'
    BY <1>1, <2>3 DEF WcAttended
  <2>8. WcFirst'
    <3>1. CASE wcOpened = 1
      <4>1. WcStream' = wcIn[1] \o <<>> /\ WcStream = <<>> \o wcIn[1] /\ wcIn[1] \in Seq(WcPieceType)
        <5>1. wcServe'[1].todo = wcIn[1] /\ wcIn'[1] = <<>> /\ wcIn[1] \in Seq(WcPieceType)
          BY <2>2, <2>3, <3>1
        <5>2. wcServe[1].todo = <<>>
          BY <1>1, <3>1 DEF WcIdle
        <5>3. WcStream' = wcServe'[1].todo \o wcIn'[1]
          BY DEF WcStream
        <5> QED BY <5>1, <5>2, <5>3 DEF WcStream
      <4>2. WcStream' = WcStream
        BY <4>1
      <4>3. WcMessage(wcGot, TRUE, wcSent) /\ WcReading(WcStream, wcFrames, wcFrame, wcHalf[1], wcSent)
        BY <1>1, <3>1 DEF WcInv, WcFirst, WcLive
      <4> QED BY <1>1, <3>1, <4>2, <4>3, WcFirstFrom
    <3>2. CASE wcOpened # 1
      <4>1. wcOpened' # 0 /\ wcOpened' # 1
        BY <1>1, <3>2
      <4> QED BY <4>1, WcFirstFrom
    <3> QED BY <3>1, <3>2
  <2> QED BY <2>4, <2>5, <2>6, <2>7, <2>8 DEF WcInv
<1> QED BY <1>2, <1>3 DEF WcHandshake

(* What serve k's steps have in common: k is a connection that was opened, *)
(* and the record of no other goroutine changes.                           *)
LEMMA WcServeSet == ASSUME WcInv, NEW k \in WcIds, wcServe[k].pc # "none", NEW pc, NEW on, NEW todo, WcSet(k, pc, on, todo),
                           pc \in {"recv", "read", "frames", "quit", "done"}, on \in 0..WcMaxConn,
                           todo \in Seq(WcPieceType), wcOpened' = wcOpened, wcUser' = wcUser
                    PROVE  /\ k \in 1..wcOpened /\ (wcUser = "handshake" => k # wcOpened)
                           /\ wcServe'[k] = [pc |-> pc, on |-> on, todo |-> todo]
                           /\ \A j \in WcIds : j # k => wcServe'[j] = wcServe[j]
                           /\ wcServe' \in [WcIds -> [pc : {"none", "recv", "read", "frames", "quit", "done"},
                                                      on : 0..WcMaxConn, todo : Seq(WcPieceType)]]
<1>1. wcServe \in [WcIds -> [pc : {"none", "recv", "read", "frames", "quit", "done"},
                             on : 0..WcMaxConn, todo : Seq(WcPieceType)]]
  BY DEF WcInv, WcTypes
<1>2. wcServe[k] # WcIdle /\ wcOpened \in 0..WcMaxConn /\ WcMaxConn \in Nat
  BY WcAssumption DEF WcIdle, WcInv, WcTypes
<1>3. k \in 1..wcOpened /\ (wcUser = "handshake" => k # wcOpened)
  BY <1>2 DEF WcInv, WcTurns, WcIds
<1>4. [pc |-> pc, on |-> on, todo |-> todo] \in [pc : {"none", "recv", "read", "frames", "quit", "done"},
                                                 on : 0..WcMaxConn, todo : Seq(WcPieceType)]
  OBVIOUS
<1> QED BY <1>1, <1>3, <1>4 DEF WcSet

(* A step of serve keeps WcTurns, if it leaves a packet only to be worked  *)
(* on and stays with a connection that was opened.                         *)
LEMMA WcServeTurns == ASSUME WcInv, NEW k \in 1..wcOpened, wcUser = "handshake" => k # wcOpened,
                             \A j \in WcIds : j # k => wcServe'[j] = wcServe[j],
                             wcServe'[k].pc \in {"read", "frames"} => wcServe'[k].on \in 1..wcOpened,
                             wcServe'[k].pc # "frames" => wcServe'[k].todo = <<>>,
                             UNCHANGED <<wcOpened, wcUser, wcHalf>>, wcConn' \in {0, wcConn},
                             \A j \in WcIds : j > wcOpened => wcIn'[j] = wcIn[j]
                      PROVE  WcTurns'
<1>1. wcOpened \in 0..WcMaxConn /\ WcMaxConn \in Nat /\ k \in WcIds /\ wcOpened' = wcOpened
  BY WcAssumption DEF WcInv, WcTypes, WcIds
<1>2. wcConn' \in {0, wcOpened'} /\ (wcUser' = "open" => wcConn' = 0 /\ wcOpened' < WcMaxConn)
  BY DEF WcInv, WcTurns
<1>3. wcUser' = "handshake" => wcOpened' > 0 /\ wcServe'[wcOpened'] = WcIdle
  <2> SUFFICES ASSUME wcUser' = "handshake" PROVE wcOpened > 0 /\ wcServe'[wcOpened] = WcIdle
    BY <1>1
  <2>1. wcUser = "handshake" /\ wcServe[wcOpened] = WcIdle /\ wcOpened > 0 /\ k # wcOpened /\ wcOpened \in WcIds
    BY <1>1 DEF WcInv, WcTurns, WcIds
  <2> QED BY <2>1
<1>4. \A j \in WcIds : j > wcOpened' => wcServe'[j] = WcIdle /\ wcIn'[j] = <<>> /\ wcHalf'[j] = WcNone
  <2> SUFFICES ASSUME NEW j \in WcIds, j > wcOpened PROVE wcServe'[j] = WcIdle /\ wcIn'[j] = <<>> /\ wcHalf'[j] = WcNone
    BY <1>1
  <2>1. j # k /\ wcServe[j] = WcIdle /\ wcIn[j] = <<>> /\ wcHalf[j] = WcNone
    BY <1>1 DEF WcInv, WcTurns
  <2> QED BY <2>1
<1>5. \A j \in WcIds : /\ wcServe'[j].pc \in {"read", "frames"} => wcServe'[j].on \in 1..wcOpened'
                       /\ wcServe'[j].pc # "frames" => wcServe'[j].todo = <<>>
  <2> SUFFICES ASSUME NEW j \in WcIds
               PROVE  /\ wcServe'[j].pc \in {"read", "frames"} => wcServe'[j].on \in 1..wcOpened
                      /\ wcServe'[j].pc # "frames" => wcServe'[j].todo = <<>>
    BY <1>1
  <2>1. CASE j = k
    BY <2>1
  <2>2. CASE j # k
    BY <2>2 DEF WcInv, WcTurns
  <2> QED BY <2>1, <2>2
<1> QED BY <1>2, <1>3, <1>4, <1>5 DEF WcTurns

(* A goroutine that goes on attends to the connection.                     *)
LEMMA WcServeAttends == ASSUME NEW k \in WcIds, wcServe'[k].pc \notin {"none", "done"} PROVE WcAttended'
BY DEF WcAttended

(* A goroutine of serve other than the first, or one that has ended, moves *)
(* nothing of the first stream.                                            *)
LEMMA WcServeFirst == ASSUME WcInv, NEW k \in 1..wcOpened, UNCHANGED <<wcOpened, wcUser, wcGot, wcFrames, wcFrame, wcHalf, wcSent, wcIn>>,
                             wcUser = "handshake" => k # wcOpened,
                             \/ wcServe'[k].pc \in {"quit", "done"}
                             \/ wcServe[k].pc \in {"recv", "read", "frames"} /\ wcServe'[k].todo = wcServe[k].todo
                      PROVE  WcFirst'
<1>1. ASSUME wcOpened = 1, WcLive' PROVE WcLive /\ wcServe'[1].todo = wcServe[1].todo
  BY <1>1 DEF WcLive
<1> QED BY <1>1, WcFirstKept

(* recv begins, or serve goes back to it.                                  *)
LEMMA WcRecvStartInv == ASSUME WcInv, NEW k \in WcIds, WcRecvStart(k) \/ WcAgain(k) PROVE WcInv'
<1>0. wcConn \in 0..wcOpened /\ wcOpened \in 0..WcMaxConn /\ WcMaxConn \in Nat /\ <<>> \in Seq(WcPieceType)
  BY WcAssumption DEF WcInv, WcTurns, WcTypes
<1>1. /\ UNCHANGED <<wcConn, wcFrame, wcFrames, wcOpened, wcOpen, wcIn, wcHalf, wcSent, wcUser, wcQuits, wcFailed, wcRefused, wcGot>>
      /\ wcServe[k].pc \in {"recv", "frames"} /\ wcServe[k].todo = <<>>
  BY DEF WcRecvStart, WcAgain, wcNet, WcInv, WcTurns
<1>2. PICK pc, on : /\ WcSet(k, pc, on, <<>>) /\ on \in 0..wcOpened /\ pc \in {"quit", "read", "recv"}
                    /\ pc = "read" => on \in 1..wcOpened
  <2>1. CASE WcRecvStart(k)
    <3> DEFINE pc == IF wcConn = 0 THEN "quit" ELSE "read"
    <3>1. WcSet(k, pc, wcConn, <<>>)
      BY <2>1 DEF WcRecvStart
    <3>2. pc \in {"quit", "read", "recv"} /\ (pc = "read" => wcConn \in 1..wcOpened)
      BY <1>0
    <3> HIDE DEF pc
    <3> QED BY <1>0, <3>1, <3>2
  <2>2. CASE WcAgain(k)
    <3>1. WcSet(k, "recv", 0, <<>>) /\ 0 \in 0..wcOpened
      BY <1>0, <2>2 DEF WcAgain
    <3> QED BY <3>1
  <2> QED BY <2>1, <2>2
<1>3. on \in 0..WcMaxConn /\ wcServe[k].pc # "none" /\ wcOpened' = wcOpened /\ wcUser' = wcUser
  BY <1>0, <1>1, <1>2
<1>4. /\ k \in 1..wcOpened /\ (wcUser = "handshake" => k # wcOpened)
      /\ wcServe'[k] = [pc |-> pc, on |-> on, todo |-> <<>>]
      /\ \A j \in WcIds : j # k => wcServe'[j] = wcServe[j]
      /\ wcServe' \in [WcIds -> [pc : {"none", "recv", "read", "frames", "quit", "done"},
                                 on : 0..WcMaxConn, todo : Seq(WcPieceType)]]
  BY <1>0, <1>2, <1>3, WcServeSet
<1>5. WcTypes'
  BY <1>1, <1>4 DEF WcInv, WcTypes
<1>6. WcTurns'
  BY <1>1, <1>2, <1>4, WcServeTurns
<1>7. WcNoLeak'
  BY <1>1 DEF WcInv, WcNoLeak
<1>8. WcAttended'
  BY <1>2, <1>4, WcServeAttends
<1>9. WcFirst'
  BY <1>1, <1>4, WcServeFirst
<1> QED BY <1>5, <1>6, <1>7, <1>8, <1>9 DEF WcInv

(* serve ends with a Quit.                                                 *)
LEMMA WcServeQuitInv == ASSUME WcInv, NEW k \in WcIds, WcServeQuit(k) PROVE WcInv'
<1>0. wcOpened \in 0..WcMaxConn /\ WcMaxConn \in Nat /\ <<>> \in Seq(WcPieceType) /\ 0 \in 0..WcMaxConn
  BY WcAssumption DEF WcInv, WcTypes
<1>1. /\ UNCHANGED <<wcFrame, wcFrames, wcOpened, wcIn, wcHalf, wcSent, wcUser, wcFailed, wcRefused, wcGot>>
      /\ wcServe[k].pc = "quit" /\ WcQuit /\ WcSet(k, "done", 0, <<>>)
  BY DEF WcServeQuit, wcNet
<1>2. wcConn' = 0 /\ wcQuits' \in Nat /\ WcNoLeak' /\ WcAttended'
  BY <1>1, WcQuitKeeps
<1>4. /\ k \in 1..wcOpened /\ (wcUser = "handshake" => k # wcOpened)
      /\ wcServe'[k] = [pc |-> "done", on |-> 0, todo |-> <<>>]
      /\ \A j \in WcIds : j # k => wcServe'[j] = wcServe[j]
      /\ wcServe' \in [WcIds -> [pc : {"none", "recv", "read", "frames", "quit", "done"},
                                 on : 0..WcMaxConn, todo : Seq(WcPieceType)]]
  BY <1>0, <1>1, WcServeSet
<1>5. WcTypes'
  BY <1>1, <1>2, <1>4 DEF WcInv, WcTypes
<1>6. WcTurns'
  BY <1>1, <1>2, <1>4, WcServeTurns
<1>9. WcFirst'
  BY <1>1, <1>4, WcServeFirst
<1> QED BY <1>2, <1>5, <1>6, <1>9 DEF WcInv

(* Read takes what has arrived, or finds the connection closed.            *)
LEMMA WcReadInv == ASSUME WcInv, NEW k \in WcIds, WcRead(k) PROVE WcInv'
<1> DEFINE c == wcServe[k].on
           pieces == IF c \in wcOpen THEN wcIn[c] ELSE <<>>
           pc == IF pieces = <<>> THEN "quit" ELSE "frames"
<1>0. /\ wcOpened \in 0..WcMaxConn /\ WcMaxConn \in Nat /\ <<>> \in Seq(WcPieceType) /\ 0 \in 0..WcMaxConn
      /\ wcIn \in [WcIds -> Seq(WcPieceType)]
  BY WcAssumption DEF WcInv, WcTypes
<1>1. /\ UNCHANGED <<wcConn, wcFrame, wcFrames, wcOpened, wcOpen, wcHalf, wcSent, wcUser, wcQuits, wcFailed, wcRefused, wcGot>>
      /\ wcServe[k].pc = "read" /\ wcIn' = [wcIn EXCEPT ![c] = <<>>]
      /\ WcSet(k, pc, c, pieces)
  BY DEF WcRead
<1>2. c \in 1..wcOpened /\ c \in WcIds /\ c \in 0..WcMaxConn /\ wcServe[k].todo = <<>>
  BY <1>0, <1>1, SMTT(60) DEF WcInv, WcTurns, WcIds
<1>3. pieces \in Seq(WcPieceType) /\ pc \in {"quit", "frames"} /\ (pc = "quit" => pieces = <<>>) /\ wcIn' \in [WcIds -> Seq(WcPieceType)]
      /\ (pc = "frames" => pieces = wcIn[c])
  BY <1>0, <1>1, <1>2
<1> HIDE DEF c, pieces, pc
<1>4. /\ k \in 1..wcOpened /\ (wcUser = "handshake" => k # wcOpened)
      /\ wcServe'[k] = [pc |-> pc, on |-> c, todo |-> pieces]
      /\ \A j \in WcIds : j # k => wcServe'[j] = wcServe[j]
      /\ wcServe' \in [WcIds -> [pc : {"none", "recv", "read", "frames", "quit", "done"},
                                 on : 0..WcMaxConn, todo : Seq(WcPieceType)]]
  BY <1>1, <1>2, <1>3, WcServeSet
<1>5. WcTypes'
  BY <1>1, <1>3, <1>4 DEF WcInv, WcTypes
<1>6. WcTurns'
  <2>1. \A j \in WcIds : j > wcOpened => wcIn'[j] = wcIn[j]
    BY <1>0, <1>1, <1>2
  <2>2. wcServe'[k].pc \in {"read", "frames"} => wcServe'[k].on \in 1..wcOpened
    BY <1>2, <1>4
  <2>3. wcServe'[k].pc # "frames" => wcServe'[k].todo = <<>>
    BY <1>3, <1>4
  <2> QED BY <1>1, <1>4, <2>1, <2>2, <2>3, WcServeTurns
<1>7. WcNoLeak'
  BY <1>1 DEF WcInv, WcNoLeak
<1>8. WcAttended'
  BY <1>3, <1>4, WcServeAttends
<1>9. WcFirst'
  <2>1. CASE wcOpened = 1
    <3>1. k = 1 /\ c = 1 /\ wcUser # "handshake" /\ wcServe[1].pc = "read"
      BY <1>1, <1>2, <1>4, <2>1
    <3>2. WcMessage(wcGot, TRUE, wcSent) /\ WcReading(WcStream, wcFrames, wcFrame, wcHalf[1], wcSent)
      BY <2>1, <3>1 DEF WcInv, WcFirst, WcLive
    <3>3. ASSUME WcLive' PROVE WcStream' = WcStream
      <4>1. pc = "frames"
        BY <1>1, <1>3, <1>4, <3>1, <3>3 DEF WcLive
      <4>2. wcServe'[1].todo = wcIn[1] /\ wcIn'[1] = <<>> /\ wcServe[1].todo = <<>> /\ wcIn[1] \in Seq(WcPieceType)
        BY <1>0, <1>1, <1>2, <1>3, <1>4, <3>1, <4>1
      <4>3. WcStream' = wcServe'[1].todo \o wcIn'[1] /\ WcStream = wcServe[1].todo \o wcIn[1]
        BY DEF WcStream
      <4> QED BY <4>2, <4>3
    <3>4. wcOpened' = 1 /\ UNCHANGED <<wcGot, wcFrames, wcFrame, wcHalf, wcSent>>
      BY <1>1, <2>1
    <3> QED BY <3>2, <3>3, <3>4, WcFirstFrom
  <2>2. CASE wcOpened # 1
    <3>1. wcOpened' # 0 /\ wcOpened' # 1
      BY <1>0, <1>1, <1>4, <2>2
    <3> QED BY <3>1, WcFirstFrom
  <2> QED BY <2>1, <2>2
<1> QED BY <1>5, <1>6, <1>7, <1>8, <1>9 DEF WcInv

(* Fragments that were sent by low were sent by any later frame.           *)
LEMMA WcMessageLater == ASSUME NEW fs \in Seq(WcFrameType), NEW whole, NEW low \in Nat, NEW later \in Nat,
                               WcMessage(fs, whole, low), low <= later
                        PROVE  WcMessage(fs, whole, later)
<1>1. \A i \in 1..Len(fs) : fs[i] \in WcFrameType
  OBVIOUS
<1>2. \A i \in 1..Len(fs) : fs[i].n \in Nat
  BY <1>1 DEF WcFrameType
<1>3. \A i \in 1..Len(fs) : fs[i].n <= low => fs[i].n <= later
  BY <1>2
<1> QED BY <1>3 DEF WcMessage

(* The first piece of a packet, and what follows it.                       *)
LEMMA WcStreamHead == ASSUME NEW a \in Seq(WcPieceType), NEW b \in Seq(WcPieceType), a # <<>>
                      PROVE  /\ a \o b \in Seq(WcPieceType) /\ a \o b # <<>> /\ (a \o b)[1] = Head(a)
                             /\ Tail(a \o b) = Tail(a) \o b /\ Head(a) \in WcPieceType /\ Tail(a) \in Seq(WcPieceType)
OBVIOUS

(* On the first connection the next piece is what unpack takes it for, and *)
(* the stream behind it is sound.                                          *)
LEMMA WcNextPiece == ASSUME WcInv, wcOpened = 1, wcServe[1].pc = "frames", wcServe[1].todo # <<>>, 1 \in WcIds
                     PROVE  LET p == Head(wcServe[1].todo)
                                R == Tail(wcServe[1].todo) \o wcIn[1]
                            IN /\ wcUser # "handshake" /\ WcMessage(wcGot, TRUE, wcSent)
                               /\ p.part = "head" => WcReading(R, wcFrames, p.f, wcHalf[1], wcSent)
                               /\ p.part # "head" =>
                                    /\ WcUnpacked(p) = {p.f} /\ p.f.on = 1 /\ p.f.n \in 0..wcSent
                                    /\ WcChain(R, WcNone, wcHalf[1], p.f.n, wcSent)
                                    /\ \E low \in 0..wcSent : low < p.f.n /\ WcMessage(wcFrames, FALSE, low)
<1> DEFINE p == Head(wcServe[1].todo)
           R == Tail(wcServe[1].todo) \o wcIn[1]
<1>1. /\ wcServe[1].todo \in Seq(WcPieceType) /\ wcIn[1] \in Seq(WcPieceType) /\ wcFrame \in WcFrameType
      /\ wcHalf[1] \in WcFrameType /\ wcSent \in Nat
  BY WcAssumption DEF WcInv, WcTypes
<1>2. wcUser # "handshake"
  BY DEF WcInv, WcTurns, WcIdle
<1>3. WcMessage(wcGot, TRUE, wcSent) /\ WcReading(WcStream, wcFrames, wcFrame, wcHalf[1], wcSent)
  BY DEF WcInv, WcFirst, WcLive
<1>4. PICK low \in 0..wcSent : WcMessage(wcFrames, FALSE, low) /\ WcChain(WcStream, wcFrame, wcHalf[1], low, wcSent)
  BY <1>3 DEF WcReading
<1>5. /\ WcStream \in Seq(WcPieceType) /\ WcStream # <<>> /\ WcStream[1] = p /\ Tail(WcStream) = R
  BY <1>1, WcStreamHead DEF WcStream
<1> HIDE DEF WcStream, R
<1>6. /\ WcStream[1].f.on = 1 /\ WcStream[1].f.n \in (low + 1)..wcSent
      /\ WcStream[1].part = "head" => WcChain(Tail(WcStream), WcStream[1].f, wcHalf[1], low, wcSent)
      /\ WcStream[1].part # "head" =>
           /\ WcStream[1].part = (IF wcFrame = WcNone THEN "whole" ELSE "tail") /\ wcFrame \in {WcNone, WcStream[1].f}
           /\ WcChain(Tail(WcStream), WcNone, wcHalf[1], WcStream[1].f.n, wcSent)
  <2>1. low \in Nat
    BY <1>1
  <2> QED BY <1>1, <1>4, <1>5, <2>1, WcPopped
<1> HIDE DEF p
<1>7. p.part = "head" => WcReading(R, wcFrames, p.f, wcHalf[1], wcSent)
  BY <1>4, <1>5, <1>6 DEF WcReading
<1>8. ASSUME p.part # "head" PROVE WcUnpacked(p) = {p.f}
  BY <1>5, <1>6, <1>8 DEF WcUnpacked
<1>9. p.f.n \in 0..wcSent /\ low < p.f.n
  BY <1>1, <1>5, <1>6
<1> QED BY <1>2, <1>3, <1>4, <1>5, <1>6, <1>7, <1>8, <1>9 DEF p, R

(* What unpack makes of a piece is a frame.                                *)
LEMMA WcUnpackedType == ASSUME WcInv, NEW p \in WcPieceType, NEW f \in WcUnpacked(p) PROVE f \in WcFrameType
<1>1. p.f \in WcFrameType
  BY DEF WcPieceType
<1>2. [op : WcOps, fin : {TRUE}, on : {0}, n : {0}] \subseteq WcFrameType
  <2> SUFFICES ASSUME NEW r \in [op : WcOps, fin : {TRUE}, on : {0}, n : {0}] PROVE r \in WcFrameType
    OBVIOUS
  <2>1. r = [op |-> r.op, fin |-> TRUE, on |-> 0, n |-> 0] /\ r.op \in WcOps
    OBVIOUS
  <2>2. 0 \in 0..WcMaxConn /\ 0 \in 0..WcMaxFrames
    BY WcAssumption
  <2> QED BY <2>1, <2>2, Zenon DEF WcFrameType
<1>3. f = p.f \/ f \in [op : WcOps, fin : {TRUE}, on : {0}, n : {0}]
  BY DEF WcUnpacked
<1> QED BY <1>1, <1>2, <1>3

(* A head is kept for the next packet.                                     *)
LEMMA WcStoreHeadInv ==
  ASSUME WcInv, NEW k \in WcIds, wcServe[k].pc = "frames", wcServe[k].todo # <<>>, Head(wcServe[k].todo).part = "head",
         wcFrame' = Head(wcServe[k].todo).f, WcSet(k, "frames", wcServe[k].on, Tail(wcServe[k].todo)),
         UNCHANGED <<wcConn, wcOpen, wcQuits, wcFrames, wcRefused, wcGot>>, UNCHANGED <<wcOpened, wcNet, wcUser, wcFailed>>
  PROVE  WcInv'
<1>0. /\ wcOpened \in 0..WcMaxConn /\ WcMaxConn \in Nat /\ wcServe[k].todo \in Seq(WcPieceType)
      /\ wcServe[k].on \in 0..WcMaxConn /\ wcServe[k].on \in 1..wcOpened /\ <<>> \in Seq(WcPieceType)
  BY WcAssumption DEF WcInv, WcTypes, WcTurns
<1>1. UNCHANGED <<wcConn, wcFrames, wcOpened, wcOpen, wcIn, wcHalf, wcSent, wcUser, wcQuits, wcFailed, wcRefused, wcGot>>
  BY DEF wcNet
<1>2. Head(wcServe[k].todo) \in WcPieceType /\ Tail(wcServe[k].todo) \in Seq(WcPieceType)
  BY <1>0
<1>3. Head(wcServe[k].todo).f \in WcFrameType
  BY <1>2 DEF WcPieceType
<1>4. /\ k \in 1..wcOpened /\ (wcUser = "handshake" => k # wcOpened)
      /\ wcServe'[k] = [pc |-> "frames", on |-> wcServe[k].on, todo |-> Tail(wcServe[k].todo)]
      /\ \A j \in WcIds : j # k => wcServe'[j] = wcServe[j]
      /\ wcServe' \in [WcIds -> [pc : {"none", "recv", "read", "frames", "quit", "done"},
                                 on : 0..WcMaxConn, todo : Seq(WcPieceType)]]
  <2> DEFINE todo == Tail(wcServe[k].todo)
             on == wcServe[k].on
  <2>1. todo \in Seq(WcPieceType) /\ on \in 0..WcMaxConn /\ WcSet(k, "frames", on, todo)
    BY <1>0, <1>2
  <2> HIDE DEF todo, on
  <2> QED BY <1>1, <2>1, WcServeSet DEF todo, on
<1>5. WcTypes'
  BY <1>1, <1>3, <1>4 DEF WcInv, WcTypes
<1>6. WcTurns'
  <2>1. /\ wcServe'[k].pc \in {"read", "frames"} => wcServe'[k].on \in 1..wcOpened
        /\ wcServe'[k].pc # "frames" => wcServe'[k].todo = <<>>
    BY <1>0, <1>4
  <2> QED BY <1>1, <1>4, <2>1, WcServeTurns
<1>7. WcNoLeak'
  BY <1>1 DEF WcInv, WcNoLeak
<1>8. WcAttended'
  BY <1>4, WcServeAttends
<1>9. WcFirst'
  <2>1. CASE wcOpened = 1
    <3>1. k = 1
      BY <1>4, <2>1
    <3>2. /\ WcMessage(wcGot, TRUE, wcSent)
          /\ WcReading(Tail(wcServe[1].todo) \o wcIn[1], wcFrames, Head(wcServe[1].todo).f, wcHalf[1], wcSent)
      BY <2>1, <3>1, WcNextPiece
    <3>3. WcStream' = Tail(wcServe[1].todo) \o wcIn[1]
      <4>0. wcServe'[k].todo = Tail(wcServe[k].todo) /\ wcIn' = wcIn
        BY <1>1, <1>4
      <4>1. wcServe'[1].todo = Tail(wcServe[1].todo) /\ wcIn'[1] = wcIn[1]
        BY <3>1, <4>0
      <4> QED BY <4>1 DEF WcStream
    <3>4. wcOpened' = 1 /\ wcFrame' = Head(wcServe[1].todo).f /\ UNCHANGED <<wcGot, wcFrames, wcHalf, wcSent>>
      BY <1>1, <2>1, <3>1
    <3> QED BY <3>2, <3>3, <3>4, WcFirstFrom
  <2>2. CASE wcOpened # 1
    <3>1. wcOpened' # 0 /\ wcOpened' # 1
      BY <1>0, <1>1, <1>4, <2>2
    <3> QED BY <3>1, WcFirstFrom
  <2> QED BY <2>1, <2>2
<1> QED BY <1>5, <1>6, <1>7, <1>8, <1>9 DEF WcInv

(* A fragment is kept, or ends the message that is handed over; a ping     *)
(* changes nothing: in both cases serve goes on with the packet.           *)
LEMMA WcGoOnInv ==
  ASSUME WcInv, NEW k \in WcIds, wcServe[k].pc = "frames", wcServe[k].todo # <<>>, Head(wcServe[k].todo).part # "head",
         wcFrame' = WcNone, WcSet(k, "frames", wcServe[k].on, Tail(wcServe[k].todo)),
         UNCHANGED <<wcConn, wcOpen, wcQuits, wcRefused>>, UNCHANGED <<wcOpened, wcNet, wcUser, wcFailed>>,
         NEW f \in WcUnpacked(Head(wcServe[k].todo)),
         \/ UNCHANGED <<wcFrames, wcGot>>
         \/ /\ (f.op = "cont") = (wcFrames # <<>>)
            /\ wcFrames' = IF f.fin THEN <<>> ELSE Append(wcFrames, f)
            /\ wcGot' = IF f.fin THEN Append(wcFrames, f) ELSE wcGot
  PROVE  WcInv'
<1>0. /\ wcOpened \in 0..WcMaxConn /\ WcMaxConn \in Nat /\ wcServe[k].todo \in Seq(WcPieceType)
      /\ wcServe[k].on \in 0..WcMaxConn /\ wcServe[k].on \in 1..wcOpened /\ <<>> \in Seq(WcPieceType)
      /\ wcFrames \in Seq(WcFrameType) /\ wcGot \in Seq(WcFrameType) /\ wcSent \in Nat /\ <<>> \in Seq(WcFrameType)
  BY WcAssumption DEF WcInv, WcTypes, WcTurns
<1>1. UNCHANGED <<wcConn, wcOpened, wcOpen, wcIn, wcHalf, wcSent, wcUser, wcQuits, wcFailed, wcRefused>>
  BY DEF wcNet
<1>2. Head(wcServe[k].todo) \in WcPieceType /\ Tail(wcServe[k].todo) \in Seq(WcPieceType)
  BY <1>0
<1>3. f \in WcFrameType
  BY <1>2, WcUnpackedType
<1>31. f.fin \in BOOLEAN
  BY <1>3 DEF WcFrameType
<1>4. /\ k \in 1..wcOpened /\ (wcUser = "handshake" => k # wcOpened)
      /\ wcServe'[k] = [pc |-> "frames", on |-> wcServe[k].on, todo |-> Tail(wcServe[k].todo)]
      /\ \A j \in WcIds : j # k => wcServe'[j] = wcServe[j]
      /\ wcServe' \in [WcIds -> [pc : {"none", "recv", "read", "frames", "quit", "done"},
                                 on : 0..WcMaxConn, todo : Seq(WcPieceType)]]
  <2> DEFINE todo == Tail(wcServe[k].todo)
             on == wcServe[k].on
  <2>1. todo \in Seq(WcPieceType) /\ on \in 0..WcMaxConn /\ WcSet(k, "frames", on, todo)
    BY <1>0, <1>2
  <2> HIDE DEF todo, on
  <2> QED BY <1>1, <2>1, WcServeSet DEF todo, on
<1>5. WcTypes'
  <2>1. WcNone \in WcFrameType
    BY WcAssumption DEF WcNone, WcFrameType
  <2>2. wcFrames' \in Seq(WcFrameType) /\ wcGot' \in Seq(WcFrameType)
    <3>1. Append(wcFrames, f) \in Seq(WcFrameType)
      BY <1>0, <1>3
    <3> QED BY <1>0, <1>31, <3>1
  <2> QED BY <1>1, <1>4, <2>1, <2>2 DEF WcInv, WcTypes
<1>6. WcTurns'
  <2>1. /\ wcServe'[k].pc \in {"read", "frames"} => wcServe'[k].on \in 1..wcOpened
        /\ wcServe'[k].pc # "frames" => wcServe'[k].todo = <<>>
    BY <1>0, <1>4
  <2> QED BY <1>1, <1>4, <2>1, WcServeTurns
<1>7. WcNoLeak'
  BY <1>1 DEF WcInv, WcNoLeak
<1>8. WcAttended'
  BY <1>4, WcServeAttends
<1>9. WcFirst'
  <2>1. CASE wcOpened = 1
    <3>1. k = 1
      BY <1>4, <2>1
    <3> DEFINE p == Head(wcServe[1].todo)
               R == Tail(wcServe[1].todo) \o wcIn[1]
    <3>2. /\ WcMessage(wcGot, TRUE, wcSent) /\ WcUnpacked(p) = {p.f} /\ p.f.on = 1 /\ p.f.n \in 0..wcSent
          /\ WcChain(R, WcNone, wcHalf[1], p.f.n, wcSent)
          /\ \E low \in 0..wcSent : low < p.f.n /\ WcMessage(wcFrames, FALSE, low)
      BY <2>1, <3>1, WcNextPiece
    <3>3. f = p.f
      BY <3>1, <3>2
    <3> HIDE DEF p
    <3>4. PICK low \in 0..wcSent : low < f.n /\ WcMessage(wcFrames, FALSE, low)
      BY <3>2, <3>3
    <3>5. low \in Nat /\ f.n \in Nat /\ f.n > low /\ low <= f.n /\ f.n <= wcSent /\ f.on = 1
      BY <1>0, <3>2, <3>3, <3>4
    <3>6. WcStream' = R
      <4>0. wcServe'[k].todo = Tail(wcServe[k].todo) /\ wcIn' = wcIn
        BY <1>1, <1>4
      <4>1. wcServe'[1].todo = Tail(wcServe[1].todo) /\ wcIn'[1] = wcIn[1]
        BY <3>1, <4>0
      <4> QED BY <4>1 DEF WcStream
    <3> HIDE DEF R
    <3>7. WcMessage(wcGot', TRUE, wcSent) /\ WcMessage(wcFrames', FALSE, f.n)
      <4>1. CASE UNCHANGED <<wcFrames, wcGot>>
        <5>1. WcMessage(wcFrames, FALSE, f.n)
          BY <1>0, <3>4, <3>5, WcMessageLater
        <5> QED BY <3>2, <4>1, <5>1
      <4>2. CASE /\ (f.op = "cont") = (wcFrames # <<>>)
                 /\ wcFrames' = IF f.fin THEN <<>> ELSE Append(wcFrames, f)
                 /\ wcGot' = IF f.fin THEN Append(wcFrames, f) ELSE wcGot
        <5>1. WcMessage(Append(wcFrames, f), f.fin, f.n) /\ Append(wcFrames, f) \in Seq(WcFrameType)
          <6>1. WcMessage(Append(wcFrames, f), f.fin, f.n)
            BY <1>0, <1>3, <3>4, <3>5, <4>2, WcFragment
          <6> QED BY <1>0, <1>3, <6>1
        <5>2. CASE f.fin = TRUE
          <6>1. WcMessage(Append(wcFrames, f), TRUE, wcSent)
            BY <1>0, <3>5, <5>1, <5>2, WcMessageLater
          <6>2. WcMessage(<<>>, FALSE, f.n)
            BY DEF WcMessage
          <6> QED BY <4>2, <5>2, <6>1, <6>2
        <5>3. CASE f.fin = FALSE
          <6>1. WcMessage(Append(wcFrames, f), FALSE, f.n)
            BY <5>1, <5>3
          <6> QED BY <3>2, <4>2, <5>3, <6>1
        <5> QED BY <1>31, <5>2, <5>3
      <4> QED BY <4>1, <4>2
    <3>8. WcReading(R, wcFrames', WcNone, wcHalf[1], wcSent)
      BY <3>2, <3>3, <3>7 DEF WcReading
    <3>9. wcOpened' = 1 /\ wcFrame' = WcNone /\ UNCHANGED <<wcHalf, wcSent>>
      BY <1>1, <2>1
    <3> QED BY <3>6, <3>7, <3>8, <3>9, WcFirstFrom
  <2>2. CASE wcOpened # 1
    <3>1. wcOpened' # 0 /\ wcOpened' # 1
      BY <1>0, <1>1, <1>4, <2>2
    <3> QED BY <3>1, WcFirstFrom
  <2> QED BY <2>1, <2>2
<1> QED BY <1>5, <1>6, <1>7, <1>8, <1>9 DEF WcInv

(* serve returns: after a close frame with a Quit, after a bad request     *)
(* without one.                                                            *)
LEMMA WcReturnInv ==
  ASSUME WcInv, NEW k \in WcIds, wcServe[k].pc = "frames", wcFrame' = WcNone, WcOnClose(k) \/ WcBadRequest(k),
         UNCHANGED <<wcOpened, wcNet, wcUser, wcFailed>>
  PROVE  WcInv'
<1>0. wcOpened \in 0..WcMaxConn /\ WcMaxConn \in Nat /\ <<>> \in Seq(WcPieceType) /\ 0 \in 0..WcMaxConn
  BY WcAssumption DEF WcInv, WcTypes
<1>1. /\ UNCHANGED <<wcFrames, wcOpened, wcIn, wcHalf, wcSent, wcUser, wcFailed, wcGot>> /\ WcSet(k, "done", 0, <<>>)
  BY DEF WcOnClose, WcBadRequest, wcNet
<1>2. wcConn' \in {0, wcConn} /\ wcQuits' \in Nat /\ WcNoLeak' /\ WcAttended'
  <2>1. CASE WcOnClose(k)
    <3>1. WcQuit
      BY <2>1 DEF WcOnClose
    <3> QED BY <1>1, <3>1, WcQuitKeeps
  <2>2. CASE WcBadRequest(k)
    <3>1. UNCHANGED <<wcConn, wcOpen, wcQuits>> /\ wcRefused' = wcRefused \cup {wcConn}
      BY <2>2 DEF WcBadRequest
    <3>2. WcNoLeak'
      BY <1>1, <3>1 DEF WcInv, WcNoLeak
    <3>3. WcAttended'
      BY <3>1 DEF WcAttended
    <3> QED BY <3>1, <3>2, <3>3 DEF WcInv, WcTypes
  <2> QED BY <2>1, <2>2
<1>4. /\ k \in 1..wcOpened /\ (wcUser = "handshake" => k # wcOpened)
      /\ wcServe'[k] = [pc |-> "done", on |-> 0, todo |-> <<>>]
      /\ \A j \in WcIds : j # k => wcServe'[j] = wcServe[j]
      /\ wcServe' \in [WcIds -> [pc : {"none", "recv", "read", "frames", "quit", "done"},
                                 on : 0..WcMaxConn, todo : Seq(WcPieceType)]]
  BY <1>0, <1>1, WcServeSet
<1>5. WcTypes'
  <2>1. WcNone \in WcFrameType
    BY WcAssumption DEF WcNone, WcFrameType
  <2> QED BY <1>1, <1>2, <1>4, <2>1 DEF WcInv, WcTypes
<1>6. WcTurns'
  BY <1>1, <1>2, <1>4, WcServeTurns
<1>9. WcFirst'
  <2>1. CASE wcOpened = 1
    <3>1. k = 1 /\ wcUser # "handshake"
      BY <1>4, <2>1
    <3>2. ~WcLive'
      BY <1>1, <1>4, <3>1 DEF WcLive
    <3>3. WcMessage(wcGot, TRUE, wcSent)
      BY <2>1 DEF WcInv, WcFirst
    <3>4. wcOpened' = 1 /\ UNCHANGED <<wcGot, wcSent>>
      BY <1>1, <2>1
    <3> QED BY <3>2, <3>3, <3>4, WcFirstFrom
  <2>2. CASE wcOpened # 1
    <3>1. wcOpened' # 0 /\ wcOpened' # 1
      BY <1>0, <1>1, <1>4, <2>2
    <3> QED BY <3>1, WcFirstFrom
  <2> QED BY <2>1, <2>2
<1> QED BY <1>2, <1>5, <1>6, <1>9 DEF WcInv

(* serve takes the next piece of its packet.                               *)
LEMMA WcFrameStepInv == ASSUME WcInv, NEW k \in WcIds, WcFrameStep(k) PROVE WcInv'
<1>1. /\ wcServe[k].pc = "frames" /\ wcServe[k].todo # <<>> /\ UNCHANGED <<wcOpened, wcNet, wcUser, wcFailed>>
  BY DEF WcFrameStep
<1>2. CASE Head(wcServe[k].todo).part = "head"
  <2>1. /\ wcFrame' = Head(wcServe[k].todo).f /\ WcSet(k, "frames", wcServe[k].on, Tail(wcServe[k].todo))
        /\ UNCHANGED <<wcConn, wcOpen, wcQuits, wcFrames, wcRefused, wcGot>>
    BY <1>2 DEF WcFrameStep
  <2> QED BY <1>1, <1>2, <2>1, WcStoreHeadInv
<1>3. CASE Head(wcServe[k].todo).part # "head"
  <2>1. wcFrame' = WcNone /\ \E f \in WcUnpacked(Head(wcServe[k].todo)) : WcHandleFrame(k, f)
    BY <1>3 DEF WcFrameStep
  <2>2. PICK f \in WcUnpacked(Head(wcServe[k].todo)) : WcHandleFrame(k, f)
    BY <2>1
  <2>3. CASE WcOnClose(k) \/ WcBadRequest(k)
    BY <1>1, <2>1, <2>3, WcReturnInv
  <2>4. CASE /\ WcSet(k, "frames", wcServe[k].on, Tail(wcServe[k].todo))
             /\ UNCHANGED <<wcConn, wcOpen, wcQuits, wcFrames, wcRefused, wcGot>>
    <3>1. UNCHANGED <<wcConn, wcOpen, wcQuits, wcRefused>> /\ UNCHANGED <<wcFrames, wcGot>>
      BY <2>4
    <3> QED BY <1>1, <1>3, <2>1, <2>4, <3>1, WcGoOnInv
  <2>5. CASE f.op \in {"text", "cont"} /\ (wcFrames = <<>>) # (f.op = "cont") /\ WcHandleFragment(k, f)
    <3>1. (f.op = "cont") = (wcFrames # <<>>)
      BY <2>5
    <3>2. /\ WcSet(k, "frames", wcServe[k].on, Tail(wcServe[k].todo)) /\ UNCHANGED <<wcConn, wcOpen, wcQuits, wcRefused>>
          /\ wcFrames' = IF f.fin THEN <<>> ELSE Append(wcFrames, f)
          /\ wcGot' = IF f.fin THEN Append(wcFrames, f) ELSE wcGot
      BY <2>5 DEF WcHandleFragment
    <3> QED BY <1>1, <1>3, <2>1, <3>1, <3>2, WcGoOnInv
  <2> QED BY <2>2, <2>3, <2>4, <2>5 DEF WcHandleFrame
<1> QED BY <1>2, <1>3

(* Every step of the user, the goroutines and the server preserves the     *)
(* invariant.                                                              *)
LEMMA WcNextInv == WcInv /\ [WcNext]_wcVars => WcInv'
<1> SUFFICES ASSUME WcInv, [WcNext]_wcVars PROVE WcInv'
  OBVIOUS
<1>1. CASE UNCHANGED wcVars
  <2>1. UNCHANGED <<wcConn, wcFrame, wcFrames, wcOpened, wcOpen, wcIn, wcHalf, wcServe, wcUser, wcQuits, wcFailed, wcRefused, wcSent, wcGot>>
    BY <1>1 DEF wcVars
  <2>2. WcTypes' /\ WcTurns' /\ WcNoLeak' /\ WcAttended'
    BY <2>1 DEF WcInv, WcTypes, WcTurns, WcNoLeak, WcAttended
  <2>3. WcLive' => WcLive
    BY <2>1 DEF WcLive
  <2>4. WcFirst'
    BY <2>1, <2>3, WcFirstKept
  <2> QED BY <2>2, <2>4 DEF WcInv
<1>2. ASSUME NEW k \in WcIds, WcServeStep(k) PROVE WcInv'
  BY <1>2, WcRecvStartInv, WcReadInv, WcFrameStepInv, WcServeQuitInv DEF WcServeStep
<1> QED BY <1>1, <1>2, WcServerSendInv, WcServerRestInv, WcUserStepInv, WcConnectInv, WcOpenInv, WcHandshakeInv DEF WcNext

(* The invariant says what the client promises.                            *)
LEMMA WcInvSound == WcInv => WsClientSound /\ WcTypeOK
<1> SUFFICES ASSUME WcInv PROVE WsClientSound /\ WcTypeOK
  OBVIOUS
<1>1. WcNoLeak /\ WcAttended
  BY DEF WcInv
<1>2. WcReassembled
  <2> SUFFICES ASSUME wcOpened <= 1
               PROVE  /\ \A i \in DOMAIN wcGot : (wcGot[i].op = "cont") = (i > 1) /\ wcGot[i].fin = (i = Len(wcGot)) /\ wcGot[i].on = 1
                      /\ \A i, j \in DOMAIN wcGot : i < j => wcGot[i].n < wcGot[j].n
    BY DEF WcReassembled
  <2>1. wcOpened \in {0, 1} /\ wcGot \in Seq(WcFrameType) /\ DOMAIN wcGot = 1..Len(wcGot)
    BY WcAssumption DEF WcInv, WcTypes
  <2>2. CASE wcOpened = 0
    <3>1. wcGot = <<>>
      BY <2>2, Zenon DEF WcInv, WcFirst
    <3> QED BY <3>1
  <2>3. CASE wcOpened = 1
    <3>1. WcMessage(wcGot, TRUE, wcSent)
      BY <2>3 DEF WcInv, WcFirst
    <3> QED BY <2>1, <3>1 DEF WcMessage
  <2> QED BY <2>1, <2>2, <2>3
<1>3. WcTypeOK
  <2>1. /\ wcOpened \in 0..WcMaxConn /\ wcSent \in 0..WcMaxFrames /\ WcMaxConn \in Nat
        /\ wcUser \in {"idle", "open", "handshake", "sending", "panic"}
        /\ \A k \in WcIds : wcServe[k].pc \in {"none", "recv", "read", "frames", "quit", "done"}
    BY WcAssumption DEF WcInv, WcTypes
  <2>2. wcConn \in 0..WcMaxConn /\ wcOpen \subseteq 1..wcOpened
    BY <2>1 DEF WcInv, WcTurns, WcNoLeak
  <2> QED BY <2>1, <2>2 DEF WcTypeOK
<1> QED BY <1>1, <1>2, <1>3 DEF WsClientSound

(* Whoever calls Quit, and whenever, the client's only open socket is the  *)
(* one conn names, each that was closed was announced once, a connection   *)
(* is not left without a goroutine, except after a bad request, and the    *)
(* messages of the first connection arrive as they were sent, for any      *)
(* number of connections and frames.                                       *)
THEOREM ClientSound == WcSpec => [](WsClientSound /\ WcTypeOK)
BY WcInitInv, WcNextInv, WcInvSound, PTL DEF WcSpec

-----------------------------------------------------------------------------
(* The handshake of the server.                                            *)
WhHas(h) == whSeen[h] = [times |-> IF h \in whFlags THEN 1 ELSE 0, bad |-> FALSE]

\* While the headers are read the flags, cleared by reset, name those that came, each once and
\* good, and Key and Host are of this request once their flag is set.
WhInv ==
  /\ whReq \in 0..WhRequests /\ whState \in {"idle", "line", "headers", "ok", "refused"}
  /\ whFlags \subseteq WhHeaders /\ whKey \in 0..whReq /\ whHost \in 0..whReq
  /\ DOMAIN whSeen = WhHeaders /\ whSeen = [h \in WhHeaders |-> whSeen[h]]
  /\ whState = "line" => whFlags = {}
  /\ whState \in {"line", "headers", "ok"} => \A h \in WhHeaders : WhHas(h)
  /\ whState \in {"headers", "ok"} => ("key" \in whFlags => whKey = whReq) /\ ("host" \in whFlags => whHost = whReq)
  /\ whState = "ok" => WhRequired \subseteq whFlags

(* Every step of the parser preserves the invariant.                       *)
LEMMA WhNextInv == WhInv /\ [WhNext]_whVars => WhInv'
<1> SUFFICES ASSUME WhInv, [WhNext]_whVars PROVE WhInv'
  OBVIOUS
<1>0. WhRequests \in Nat /\ whReq \in 0..WhRequests
  BY WhAssumption DEF WhInv
<1>1. CASE UNCHANGED whVars
  BY <1>1 DEF whVars, WhInv, WhHas
<1>2. CASE WhBegin
  <2>1. /\ whReq' = whReq + 1 /\ whSeen' = WhNothing /\ whReq < WhRequests /\ UNCHANGED <<whKey, whHost>>
        /\ (whState' = "line" /\ whFlags' = {}) \/ (whState' = "refused" /\ UNCHANGED whFlags)
    BY <1>2 DEF WhBegin
  <2>2. DOMAIN whSeen' = WhHeaders /\ whSeen' = [h \in WhHeaders |-> whSeen'[h]]
    BY <2>1 DEF WhNothing
  <2>3. whState' = "line" => \A h \in WhHeaders : WhHas(h)'
    BY <2>1 DEF WhNothing, WhHas
  <2>4. whReq' \in 0..WhRequests /\ whKey' \in 0..whReq' /\ whHost' \in 0..whReq'
    BY <1>0, <2>1 DEF WhInv
  <2> QED BY <2>1, <2>2, <2>3, <2>4 DEF WhInv
<1>3. CASE WhLine
  <2>1. /\ whState = "line" /\ whState' \in {"headers", "refused"} /\ UNCHANGED <<whReq, whFlags, whKey, whHost, whSeen>>
    BY <1>3 DEF WhLine
  <2> QED BY <2>1 DEF WhInv, WhHas
<1>4. CASE WhHeader
  <2>1. PICK h \in WhHeaders, good \in BOOLEAN :
          /\ whState = "headers"
          /\ whSeen' = [whSeen EXCEPT ![h] = [times |-> IF @.times = 0 THEN 1 ELSE 2, bad |-> @.bad \/ ~good]]
          /\ IF h \in whFlags
             THEN whState' = "refused" /\ UNCHANGED <<whFlags, whKey, whHost>>
             ELSE /\ whState' = IF good THEN "headers" ELSE "refused"
                  /\ whFlags' = IF good THEN whFlags \cup {h} ELSE whFlags
                  /\ whKey' \in IF h # "key" THEN {whKey} ELSE IF good THEN {whReq} ELSE {whKey, whReq}
                  /\ whHost' = IF h = "host" /\ good THEN whReq ELSE whHost
          /\ UNCHANGED whReq
    BY <1>4 DEF WhHeader
  <2>2. DOMAIN whSeen' = WhHeaders /\ whSeen' = [g \in WhHeaders |-> whSeen'[g]]
    BY <2>1 DEF WhInv
  <2>3. whFlags' \subseteq WhHeaders /\ whKey' \in 0..whReq' /\ whHost' \in 0..whReq' /\ whState' \in {"headers", "refused"}
    BY <1>0, <2>1 DEF WhInv
  <2>4. ASSUME whState' = "headers"
        PROVE  /\ \A g \in WhHeaders : WhHas(g)'
               /\ ("key" \in whFlags' => whKey' = whReq') /\ ("host" \in whFlags' => whHost' = whReq')
    <3>1. good = TRUE /\ h \notin whFlags /\ whFlags' = whFlags \cup {h} /\ whSeen[h] = [times |-> 0, bad |-> FALSE]
      BY <2>1, <2>4 DEF WhInv, WhHas
    <3>2. whSeen'[h] = [times |-> 1, bad |-> FALSE] /\ \A g \in WhHeaders : g # h => whSeen'[g] = whSeen[g]
      <4>1. /\ whSeen'[h] = [times |-> IF whSeen[h].times = 0 THEN 1 ELSE 2, bad |-> whSeen[h].bad \/ ~good]
            /\ \A g \in WhHeaders : g # h => whSeen'[g] = whSeen[g]
        BY <2>1 DEF WhInv
      <4>2. whSeen[h].times = 0 /\ whSeen[h].bad = FALSE
        BY <3>1
      <4>3. (whSeen[h].bad \/ ~good) = FALSE
        BY <3>1, <4>2
      <4> QED BY <4>1, <4>2, <4>3
    <3>3. \A g \in WhHeaders : WhHas(g)'
      BY <2>1, <3>1, <3>2 DEF WhInv, WhHas
    <3>4. ("key" \in whFlags' => whKey' = whReq') /\ ("host" \in whFlags' => whHost' = whReq')
      BY <2>1, <3>1 DEF WhInv
    <3> QED BY <3>3, <3>4
  <2> QED BY <2>1, <2>2, <2>3, <2>4 DEF WhInv
<1>5. CASE WhMalformed
  BY <1>5 DEF WhMalformed, WhInv
<1>6. CASE WhEnd
  <2>1. /\ whState = "headers" /\ whState' \in {"ok", "refused"} /\ (whState' = "ok" => WhRequired \subseteq whFlags)
        /\ UNCHANGED <<whReq, whFlags, whKey, whHost, whSeen>>
    BY <1>6 DEF WhEnd
  <2> QED BY <2>1 DEF WhInv, WhHas
<1> QED BY <1>1, <1>2, <1>3, <1>4, <1>5, <1>6 DEF WhNext

(* A handshake that is accepted is this request's own: each required       *)
(* header came once with a good value, and nothing is left of the request  *)
(* that had the pooled Handshake before, for any number of requests.       *)
THEOREM HandshakeOwn == WhSpec => [](WhAccepted /\ WhTypeOK)
<1>1. WhInit => WhInv
  BY WhAssumption DEF WhInit, WhInv, WhNothing, WhHas
<1>2. WhInv => WhAccepted /\ WhTypeOK
  <2> SUFFICES ASSUME WhInv PROVE WhAccepted /\ WhTypeOK
    OBVIOUS
  <2>1. ASSUME whState = "ok" PROVE /\ \A h \in WhRequired : whSeen[h] = [times |-> 1, bad |-> FALSE]
                                    /\ \A h \in WhOptional : whSeen[h].times <= 1
                                    /\ whKey = whReq /\ whHost = whReq
    <3>1. WhRequired \subseteq whFlags /\ \A h \in WhHeaders : WhHas(h)
      BY <2>1 DEF WhInv
    <3>2. \A h \in WhRequired : whSeen[h] = [times |-> 1, bad |-> FALSE]
      BY <3>1 DEF WhHas, WhHeaders
    <3>3. \A h \in WhOptional : whSeen[h].times \in {0, 1}
      <4> SUFFICES ASSUME NEW h \in WhOptional PROVE whSeen[h].times \in {0, 1}
        OBVIOUS
      <4>1. WhHas(h)
        BY <3>1 DEF WhHeaders
      <4>2. whSeen[h].times = IF h \in whFlags THEN 1 ELSE 0
        BY <4>1 DEF WhHas
      <4> QED BY <4>2
    <3>4. whKey = whReq /\ whHost = whReq
      BY <2>1, <3>1 DEF WhInv, WhRequired
    <3> QED BY <3>2, <3>3, <3>4
  <2>2. WhAccepted
    BY <2>1 DEF WhAccepted
  <2> QED BY <2>2 DEF WhInv, WhTypeOK
<1> QED BY <1>1, <1>2, WhNextInv, PTL DEF WhSpec

-----------------------------------------------------------------------------
(* The routes.                                                             *)

(* A set of naturals that is not empty has a least element.                *)
LEMMA WrLeast == ASSUME NEW S, S \subseteq Nat, S # {} PROVE \E m \in S : \A k \in S : m <= k
<1> DEFINE R == {ss \in Nat \X Nat : ss[1] < ss[2]}
<1>1. IsWellFoundedOn(R, Nat)
  BY NatLessThanWellFounded DEF OpToRel
<1>2. \E m \in S : \A k \in S : ~ (<<k, m>> \in R)
  <2> HIDE DEF R
  <2> QED
    BY <1>1, WFMin
<1>3. PICK m \in S : \A k \in S : ~ (<<k, m>> \in R)
  BY <1>2
<1>4. ASSUME NEW k \in S PROVE m <= k
  <2>1. m \in Nat /\ k \in Nat
    OBVIOUS
  <2>2. k < m => <<k, m>> \in R
    BY <2>1
  <2> QED
    BY <1>3, <2>1, <2>2
<1> QED
  BY <1>4

(* Induction over the naturals, for a set instead of a predicate.          *)
LEMMA WrInduction == ASSUME NEW S, 0 \in S, \A n \in Nat : n \in S => n + 1 \in S
                     PROVE  \A n \in Nat : n \in S
<1> SUFFICES ASSUME Nat \ S # {} PROVE FALSE
  OBVIOUS
<1> DEFINE T == Nat \ S
<1>1. PICK m \in T : \A k \in T : m <= k
  <2>1. T \subseteq Nat /\ T # {}
    OBVIOUS
  <2> HIDE DEF T
  <2> QED
    BY <2>1, WrLeast
<1>2. m \in Nat /\ m # 0 /\ m - 1 \in Nat /\ (m - 1) + 1 = m
  OBVIOUS
<1>3. m - 1 \in T
  BY <1>2
<1> QED
  BY <1>1, <1>2, <1>3

(* The first i segments of a sequence.                                     *)
LEMMA WrPrefix == ASSUME NEW S, NEW s \in Seq(S), NEW i \in 0..Len(s)
                  PROVE  /\ SubSeq(s, 1, i) \in Seq(S) /\ Len(SubSeq(s, 1, i)) = i
                         /\ \A j \in 1..i : SubSeq(s, 1, i)[j] = s[j]
  OBVIOUS

(* Two sequences with the same front and the same last segment.            *)
LEMMA WrFrontLast == ASSUME NEW S, NEW s \in Seq(S), NEW t \in Seq(S), s # <<>>, t # <<>>,
                            Front(s) = Front(t), Last(s) = Last(t)
                     PROVE  s = t
<1>1. Len(s) \in Nat \ {0} /\ Len(t) \in Nat \ {0}
  OBVIOUS
<1>2. Len(Front(s)) = Len(s) - 1 /\ Len(Front(t)) = Len(t) - 1
  <2>1. Len(s) - 1 \in 0..Len(s) /\ Len(t) - 1 \in 0..Len(t)
    BY <1>1
  <2>2. Len(SubSeq(s, 1, Len(s) - 1)) = Len(s) - 1
    BY <2>1, WrPrefix
  <2>3. Len(SubSeq(t, 1, Len(t) - 1)) = Len(t) - 1
    BY <2>1, WrPrefix
  <2> QED
    BY <2>2, <2>3 DEF Front
<1>3. Len(s) = Len(t)
  BY <1>1, <1>2
<1>4. \A j \in 1..(Len(s) - 1) : s[j] = Front(s)[j] /\ t[j] = Front(t)[j]
  BY <1>1, <1>3 DEF Front
<1>5. \A j \in 1..Len(s) : s[j] = t[j]
  BY <1>1, <1>3, <1>4 DEF Last
<1> QED
  BY <1>3, <1>5

(* The front and the last segment of a prefix.                             *)
LEMMA WrPrefixFront == ASSUME NEW S, NEW s \in Seq(S), NEW i \in 1..Len(s)
                       PROVE  /\ SubSeq(s, 1, i) # <<>> /\ Last(SubSeq(s, 1, i)) = s[i]
                              /\ Front(SubSeq(s, 1, i)) = SubSeq(s, 1, i - 1)
<1> DEFINE t == SubSeq(s, 1, i)
           u == SubSeq(s, 1, i - 1)
<1>1. t \in Seq(S) /\ Len(t) = i /\ \A j \in 1..i : t[j] = s[j]
  BY WrPrefix
<1>2. u \in Seq(S) /\ Len(u) = i - 1 /\ \A j \in 1..(i - 1) : u[j] = s[j]
  BY WrPrefix
<1> HIDE DEF t, u
<1>3. Front(t) \in Seq(S) /\ Len(Front(t)) = i - 1 /\ \A j \in 1..(i - 1) : Front(t)[j] = t[j]
  BY <1>1 DEF Front
<1>4. Front(t) = u
  BY <1>1, <1>2, <1>3, SMTT(60)
<1>5. t # <<>> /\ Last(t) = s[i]
  BY <1>1 DEF Last
<1> QED
  BY <1>4, <1>5 DEF t, u

(* The front and the last segment of a sequence.                           *)
LEMMA WrFrontIs == ASSUME NEW S, NEW s \in Seq(S), s # <<>>
                   PROVE  /\ Len(s) \in Nat \ {0} /\ Front(s) \in Seq(S) /\ Len(Front(s)) = Len(s) - 1
                          /\ \A j \in 1..(Len(s) - 1) : Front(s)[j] = s[j]
                          /\ Last(s) = s[Len(s)] /\ Last(s) \in S
<1>1. Len(s) \in Nat \ {0}
  OBVIOUS
<1>2. ASSUME NEW k \in 0..Len(s), k = Len(s) - 1
      PROVE  Front(s) \in Seq(S) /\ Len(Front(s)) = k /\ \A j \in 1..k : Front(s)[j] = s[j]
  <2>1. Front(s) = SubSeq(s, 1, k)
    BY <1>2 DEF Front
  <2> QED
    BY <2>1, WrPrefix
<1>3. Len(s) - 1 \in 0..Len(s)
  BY <1>1
<1>4. Front(s) \in Seq(S) /\ Len(Front(s)) = Len(s) - 1 /\ \A j \in 1..(Len(s) - 1) : Front(s)[j] = s[j]
  BY <1>2, <1>3
<1>5. Last(s) = s[Len(s)] /\ Last(s) \in S
  BY <1>1 DEF Last
<1> QED
  BY <1>1, <1>4, <1>5

-----------------------------------------------------------------------------
\* The segments of the tree's nodes.
WrSeg == {s \in WrSegments : s.name # ""}

(* What get returns for none is not a node.                                *)
LEMMA WrNoneIsNone == WrNone \notin Seq(WrSeg)
<1>1. ASSUME NEW S, NEW e, <<e>> \in Seq(S) PROVE e \in S
  BY <1>1
<1>2. [param |-> TRUE, name |-> ""].name = ""
  BY Zenon
<1>3. [param |-> TRUE, name |-> ""] \notin WrSeg
  BY <1>2, Zenon DEF WrSeg
<1> QED
  BY <1>1, <1>3, Zenon DEF WrNone

(* A segment is a name or a parameter.                                     *)
LEMMA WrSegIs == /\ \A s \in WrSeg : s.param \in BOOLEAN
                 /\ \A s, r \in WrSeg : s.param /\ r.param /\ s.name = r.name => s = r
<1>1. \A s \in WrSeg : \/ \E n \in WrNames : s = [param |-> FALSE, name |-> n]
                       \/ \E n \in WrParams : s = [param |-> TRUE, name |-> n]
  BY Zenon DEF WrSeg, WrSegments
<1>2. ASSUME NEW s \in WrSeg PROVE s.param \in BOOLEAN
  <2>1. ASSUME NEW n PROVE [param |-> FALSE, name |-> n].param = FALSE /\ [param |-> TRUE, name |-> n].param = TRUE
    OBVIOUS
  <2>2. s.param = FALSE \/ s.param = TRUE
    BY <1>1, <2>1, Zenon
  <2> QED
    BY <2>2, Zenon
<1>3. \A s \in WrSeg : s.param => s = [param |-> TRUE, name |-> s.name]
  BY <1>1
<1>4. \A s, r \in WrSeg : s.param /\ r.param /\ s.name = r.name => s = r
  BY <1>3, Zenon
<1> QED
  BY <1>2, <1>4

\* One turn of the loop of add over the segments of a target.
WrTurn(t, f, n) == IF n = 0 THEN <<>> ELSE IF t[n].name = "" THEN f[n - 1] ELSE Append(f[n - 1], t[n])

(* The loop runs any number of turns.                                      *)
LEMMA WrLoops == ASSUME NEW t PROVE \A n \in Nat : \E f : f = [i \in 0..n |-> WrTurn(t, f, i)]
<1> DEFINE S == {n \in Nat : \E f : f = [i \in 0..n |-> WrTurn(t, f, i)]}
<1>1. 0 \in S
  <2> DEFINE f == [i \in 0..0 |-> <<>>]
  <2>1. f = [i \in 0..0 |-> WrTurn(t, f, i)]
    BY DEF WrTurn
  <2> QED
    BY <2>1
<1>2. ASSUME NEW n \in Nat, n \in S PROVE n + 1 \in S
  <2>1. PICK f : f = [i \in 0..n |-> WrTurn(t, f, i)]
    BY <1>2
  <2> DEFINE g == [i \in 0..(n + 1) |-> IF i <= n THEN f[i] ELSE WrTurn(t, f, i)]
  <2>2. ASSUME NEW i \in 0..(n + 1) PROVE g[i] = WrTurn(t, g, i)
    <3>1. g[i] = WrTurn(t, f, i)
      BY <2>1
    <3>2. i # 0 => i - 1 \in 0..n /\ g[i - 1] = f[i - 1]
      OBVIOUS
    <3> HIDE DEF g
    <3> QED
      BY <3>1, <3>2, Zenon DEF WrTurn
  <2>3. DOMAIN g = 0..(n + 1) /\ g = [i \in 0..(n + 1) |-> g[i]]
    OBVIOUS
  <2> HIDE DEF g
  <2>4. g = [i \in 0..(n + 1) |-> WrTurn(t, g, i)]
    BY <2>2, <2>3
  <2> QED
    BY <2>4
<1>3. \A n \in Nat : n \in S
  <2> HIDE DEF S
  <2> QED
    BY <1>1, <1>2, WrInduction
<1> QED
  BY <1>3

(* A target of bounded length is a sequence.                               *)
LEMMA WrBounded == ASSUME NEW S, NEW t \in BoundedSeq(S, WrDepth)
                   PROVE  t \in Seq(S) /\ Len(t) \in Nat /\ \A i \in 1..Len(t) : t[i] \in S
<1>1. WrDepth \in Nat
  BY WrAssumption, Zenon
<1>2. PICK k \in 0..WrDepth : t \in [1..k -> S]
  BY Zenon DEF BoundedSeq, SeqOf
<1>3. k \in Nat
  BY <1>1
<1>4. t \in Seq(S)
  BY <1>2, <1>3
<1> QED
  BY <1>4

(* add makes nodes of segments that are not empty.                         *)
LEMMA WrSegsType == ASSUME NEW t \in WrTargets PROVE WrSegs(t) \in Seq(WrSeg)
<1>0. t \in Seq(WrSegments) /\ Len(t) \in Nat /\ \A i \in 1..Len(t) : t[i] \in WrSegments
  BY WrBounded, Zenon DEF WrTargets
<1> DEFINE some[n \in 0..Len(t)] ==
        IF n = 0 THEN <<>> ELSE IF t[n].name = "" THEN some[n - 1] ELSE Append(some[n - 1], t[n])
<1>1. WrSegs(t) = some[Len(t)]
  BY Zenon DEF WrSegs
<1>2. \E f : f = [n \in 0..Len(t) |-> WrTurn(t, f, n)]
  BY <1>0, WrLoops, Zenon
<1>3. some = [n \in 0..Len(t) |-> WrTurn(t, some, n)]
  BY <1>2, Zenon DEF WrTurn
<1> HIDE DEF some
<1> DEFINE S == {n \in Nat : n <= Len(t) => some[n] \in Seq(WrSeg)}
<1>4. 0 \in S
  <2>1. some[0] = WrTurn(t, some, 0)
    BY <1>0, <1>3
  <2>2. some[0] = <<>>
    BY <2>1, Zenon DEF WrTurn
  <2>3. <<>> \in Seq(WrSeg) /\ 0 \in Nat
    OBVIOUS
  <2> QED
    BY <2>2, <2>3, Zenon
<1>5. ASSUME NEW n \in Nat, n \in S PROVE n + 1 \in S
  <2> SUFFICES ASSUME n + 1 <= Len(t) PROVE some[n + 1] \in Seq(WrSeg)
    OBVIOUS
  <2>1. n + 1 \in 1..Len(t) /\ n + 1 \in 0..Len(t) /\ n + 1 # 0 /\ (n + 1) - 1 = n /\ some[n] \in Seq(WrSeg)
    BY <1>0, <1>5
  <2>2. some[n + 1] = WrTurn(t, some, n + 1)
    BY <1>3, <2>1
  <2>3. ASSUME NEW k \in 1..Len(t), k # 0
        PROVE  WrTurn(t, some, k) = some[k - 1] \/ (t[k] \in WrSeg /\ WrTurn(t, some, k) = Append(some[k - 1], t[k]))
    BY <1>0, <2>3, Zenon DEF WrTurn, WrSeg
  <2>4. some[n + 1] = some[n] \/ (t[n + 1] \in WrSeg /\ some[n + 1] = Append(some[n], t[n + 1]))
    BY <2>1, <2>2, <2>3
  <2>5. ASSUME NEW T, NEW s \in Seq(T), NEW e \in T PROVE Append(s, e) \in Seq(T)
    OBVIOUS
  <2>6. some[n] \in Seq(WrSeg)
    BY <2>1, Zenon
  <2> QED
    BY <2>4, <2>5, <2>6, Zenon
<1>6. \A n \in Nat : n \in S
  <2> HIDE DEF S
  <2> QED
    BY <1>4, <1>5, WrInduction
<1> QED
  BY <1>0, <1>1, <1>6

-----------------------------------------------------------------------------
(* What the steps of the routes preserve, beside WrRouted: the nodes are   *)
(* the prefixes of each other down to the root, and only a node has a      *)
(* handler.                                                                *)
WrTree == /\ wrNodes \subseteq Seq(WrSeg) /\ <<>> \in wrNodes
          /\ \A n \in wrNodes : n # <<>> => Front(n) \in wrNodes
          /\ DOMAIN wrHandler \subseteq wrNodes

(* The nodes that add makes are on the way to segs, and none of them is a  *)
(* second parameter of its node.                                           *)
LEMMA WrAddMakes == ASSUME WrAdd, WrTree
                    PROVE  \E segs \in Seq(WrSeg) : \E made \in 0..Len(segs) :
                             /\ \A i \in 1..made : ~WrDupParam(SubSeq(segs, 1, i - 1), segs[i])
                             /\ wrNodes' = wrNodes \cup {SubSeq(segs, 1, i) : i \in 0..made}
                             /\ \/ wrHandler' = wrHandler
                                \/ made = Len(segs) /\ DOMAIN wrHandler' = DOMAIN wrHandler \cup {segs}
                             /\ wrAsked' = <<>>
<1>1. PICK t \in WrTargets :
        LET segs == WrSegs(t)
            stops == {i \in DOMAIN segs : WrDupParam(SubSeq(segs, 1, i - 1), segs[i])}
            made == IF stops = {} THEN Len(segs) ELSE (CHOOSE i \in stops : \A j \in stops : i <= j) - 1
        IN /\ wrNodes' = wrNodes \cup {SubSeq(segs, 1, i) : i \in 0..made}
           /\ wrHandler' = IF stops # {} THEN wrHandler
                           ELSE [n \in DOMAIN wrHandler \cup {segs} |-> IF n = segs THEN wrAdds + 1 ELSE wrHandler[n]]
           /\ wrAsked' = <<>>
  BY Zenon DEF WrAdd
<1> DEFINE segs == WrSegs(t)
           stops == {i \in DOMAIN segs : WrDupParam(SubSeq(segs, 1, i - 1), segs[i])}
           made == IF stops = {} THEN Len(segs) ELSE (CHOOSE i \in stops : \A j \in stops : i <= j) - 1
<1>2. segs \in Seq(WrSeg)
  BY WrSegsType
<1>3. /\ wrNodes' = wrNodes \cup {SubSeq(segs, 1, i) : i \in 0..made}
      /\ wrHandler' = IF stops # {} THEN wrHandler
                      ELSE [n \in DOMAIN wrHandler \cup {segs} |-> IF n = segs THEN wrAdds + 1 ELSE wrHandler[n]]
      /\ wrAsked' = <<>>
  BY <1>1, Zenon
<1> HIDE DEF segs
<1>4. Len(segs) \in Nat /\ DOMAIN segs = 1..Len(segs)
  BY <1>2
<1>5. stops \subseteq 1..Len(segs) /\ \A i \in 1..Len(segs) : i \notin stops => ~WrDupParam(SubSeq(segs, 1, i - 1), segs[i])
  BY <1>4, Zenon
<1> HIDE DEF stops
<1>6. made \in 0..Len(segs) /\ \A i \in 1..made : i \in 1..Len(segs) /\ i \notin stops
  <2>1. CASE stops = {}
    BY <2>1, <1>4
  <2>2. CASE stops # {}
    <3>1. \E m \in stops : \A k \in stops : m <= k
      <4>1. stops \subseteq Nat
        BY <1>4, <1>5
      <4> QED
        BY <4>1, <2>2, WrLeast
    <3> DEFINE m == CHOOSE i \in stops : \A j \in stops : i <= j
    <3>2. m \in stops /\ \A j \in stops : m <= j
      BY <3>1
    <3>3. made = m - 1
      BY <2>2
    <3> HIDE DEF m, made
    <3> QED
      BY <3>2, <3>3, <1>4, <1>5
  <2> QED
    BY <2>1, <2>2
<1>7. stops = {} => made = Len(segs)
  OBVIOUS
<1> HIDE DEF made
<1>8. wrHandler' = wrHandler \/ (made = Len(segs) /\ DOMAIN wrHandler' = DOMAIN wrHandler \cup {segs})
  BY <1>3, <1>7
<1>9. \A i \in 1..made : ~WrDupParam(SubSeq(segs, 1, i - 1), segs[i])
  BY <1>5, <1>6, Zenon
<1> QED
  BY <1>2, <1>3, <1>6, <1>8, <1>9, Zenon

(* add keeps the tree, and one parameter below a node.                     *)
LEMMA WrAddKeeps == ASSUME WrAdd, WrTree, WrRouted PROVE WrTree' /\ WrRouted'
<1>a. PICK segs \in Seq(WrSeg) : \E made \in 0..Len(segs) :
        /\ \A i \in 1..made : ~WrDupParam(SubSeq(segs, 1, i - 1), segs[i])
        /\ wrNodes' = wrNodes \cup {SubSeq(segs, 1, i) : i \in 0..made}
        /\ \/ wrHandler' = wrHandler
           \/ made = Len(segs) /\ DOMAIN wrHandler' = DOMAIN wrHandler \cup {segs}
        /\ wrAsked' = <<>>
  BY WrAddMakes, Zenon
<1>1. PICK made \in 0..Len(segs) :
        /\ \A i \in 1..made : ~WrDupParam(SubSeq(segs, 1, i - 1), segs[i])
        /\ wrNodes' = wrNodes \cup {SubSeq(segs, 1, i) : i \in 0..made}
        /\ \/ wrHandler' = wrHandler
           \/ made = Len(segs) /\ DOMAIN wrHandler' = DOMAIN wrHandler \cup {segs}
        /\ wrAsked' = <<>>
  BY <1>a, Zenon
<1> DEFINE Pre(i) == SubSeq(segs, 1, i)
<1>0. Len(segs) \in Nat /\ made \in Nat /\ made <= Len(segs)
  OBVIOUS
<1>2. \A i \in 0..made : Pre(i) \in Seq(WrSeg) /\ Len(Pre(i)) = i
  BY <1>0, WrPrefix
<1>3. ASSUME NEW i \in 1..made
      PROVE  /\ Pre(i) # <<>> /\ Last(Pre(i)) = segs[i] /\ Front(Pre(i)) = Pre(i - 1)
             /\ i - 1 \in 0..made /\ segs[i] \in WrSeg /\ ~WrDupParam(Pre(i - 1), segs[i])
  <2>1. i \in 1..Len(segs)
    BY <1>0
  <2>2. Pre(i) # <<>> /\ Last(Pre(i)) = segs[i] /\ Front(Pre(i)) = Pre(i - 1)
    BY <2>1, WrPrefixFront
  <2>3. i - 1 \in 0..made /\ segs[i] \in WrSeg
    BY <1>0, <2>1
  <2> QED
    BY <1>1, <2>2, <2>3, Zenon
<1>4. Pre(Len(segs)) = segs
  <2> DEFINE u == Pre(Len(segs))
  <2>1. u \in Seq(WrSeg) /\ Len(u) = Len(segs) /\ \A j \in 1..Len(segs) : u[j] = segs[j]
    BY <1>0, WrPrefix
  <2> HIDE DEF u
  <2>2. u = segs
    BY <2>1
  <2> QED
    BY <2>2 DEF u
<1>n. wrNodes' = wrNodes \cup {Pre(i) : i \in 0..made}
  BY <1>1
<1> HIDE DEF Pre
<1>5. \A n \in wrNodes' : n \in wrNodes \/ \E i \in 0..made : n = Pre(i)
  BY <1>n
<1>6. wrNodes' \subseteq Seq(WrSeg)
  BY <1>2, <1>5 DEF WrTree
<1>7. ASSUME NEW n \in wrNodes', n # <<>>, n \notin wrNodes PROVE \E i \in 1..made : n = Pre(i)
  <2>1. PICK i \in 0..made : n = Pre(i)
    BY <1>5, <1>7
  <2>2. i # 0
    <3> SUFFICES ASSUME i = 0 PROVE FALSE
      OBVIOUS
    <3>1. n \in Seq(WrSeg) /\ Len(n) = 0
      BY <1>2, <2>1
    <3> QED
      BY <3>1, <1>7
  <2>3. i \in 1..made
    BY <2>2
  <2> QED
    BY <2>1, <2>3
<1>8. ASSUME NEW n \in wrNodes', n # <<>> PROVE Front(n) \in wrNodes'
  <2>1. CASE n \in wrNodes
    BY <1>8, <2>1, <1>n DEF WrTree
  <2>2. CASE n \notin wrNodes
    BY <1>7, <1>8, <2>2, <1>3, <1>n
  <2> QED
    BY <2>1, <2>2
<1>9. DOMAIN wrHandler' \subseteq wrNodes'
  <2>1. made = Len(segs) => segs \in wrNodes'
    BY <1>4, <1>n, <1>0
  <2> QED
    BY <2>1, <1>1, <1>n DEF WrTree
<1>10. WrTree'
  BY <1>6, <1>8, <1>9, <1>n DEF WrTree
<1>11. ASSUME NEW m \in wrNodes, NEW i \in 1..made, m # <<>>, Front(m) = Front(Pre(i)),
              Last(m).param, Last(Pre(i)).param
       PROVE  m = Pre(i)
  <2>1. m \in Seq(WrSeg) /\ Pre(i) \in Seq(WrSeg)
    BY <1>2 DEF WrTree
  <2>2. Len(m) = Len(Front(m)) + 1 /\ Last(m) \in WrSeg
    BY <2>1, <1>11, WrFrontIs
  <2>3. Len(m) = Len(Pre(i - 1)) + 1 /\ Front(m) = Pre(i - 1)
    BY <2>2, <1>11, <1>3
  <2>4. segs[i].param /\ segs[i] \in WrSeg /\ Last(Pre(i)) = segs[i] /\ Pre(i) # <<>>
    BY <1>11, <1>3
  <2>5. Last(m).name = segs[i].name
    BY <2>3, <2>4, <1>3, <1>11, Zenon DEF WrDupParam
  <2>6. Last(m) = Last(Pre(i))
    BY <2>2, <2>4, <2>5, <1>11, WrSegIs, Zenon
  <2> QED
    BY <2>1, <2>4, <2>6, <1>11, WrFrontLast
<1>12. ASSUME NEW i \in 1..made, NEW j \in 1..made, Front(Pre(i)) = Front(Pre(j)) PROVE Pre(i) = Pre(j)
  <2>1. Pre(i - 1) = Pre(j - 1) /\ i - 1 \in 0..made /\ j - 1 \in 0..made
    BY <1>3, <1>12
  <2>2. i - 1 = j - 1
    BY <2>1, <1>2
  <2>3. i = j
    BY <2>2
  <2> QED
    BY <2>3
<1>13. ASSUME NEW n \in wrNodes', NEW m \in wrNodes', n # <<>>, m # <<>>, Front(n) = Front(m),
              Last(n).param, Last(m).param
       PROVE  n = m
  <2>1. CASE n \in wrNodes /\ m \in wrNodes
    BY <2>1, <1>13, Zenon DEF WrRouted, WrOneParam
  <2>2. CASE n \in wrNodes /\ m \notin wrNodes
    BY <2>2, <1>13, <1>7, <1>11
  <2>3. CASE n \notin wrNodes /\ m \in wrNodes
    BY <2>3, <1>13, <1>7, <1>11
  <2>4. CASE n \notin wrNodes /\ m \notin wrNodes
    BY <2>4, <1>13, <1>7, <1>12
  <2> QED
    BY <2>1, <2>2, <2>3, <2>4
<1>14. WrOneParam'
  BY <1>13, Zenon DEF WrOneParam
<1>15. WrSound'
  BY <1>1, Zenon DEF WrSound
<1> QED
  BY <1>10, <1>14, <1>15, Zenon DEF WrRouted

-----------------------------------------------------------------------------
\* One turn of the loop of get over the segments of a target.
WrStep(path, f, n) == IF n = 0 THEN <<>> ELSE IF f[n - 1] = WrNone THEN WrNone ELSE WrChild(f[n - 1], path[n])

(* The loop runs any number of turns.                                      *)
LEMMA WrWalks == ASSUME NEW path PROVE \A n \in Nat : \E f : f = [i \in 0..n |-> WrStep(path, f, i)]
<1> DEFINE S == {n \in Nat : \E f : f = [i \in 0..n |-> WrStep(path, f, i)]}
<1>1. 0 \in S
  <2> DEFINE f == [i \in 0..0 |-> <<>>]
  <2>1. f = [i \in 0..0 |-> WrStep(path, f, i)]
    BY DEF WrStep
  <2> QED
    BY <2>1
<1>2. ASSUME NEW n \in Nat, n \in S PROVE n + 1 \in S
  <2>1. PICK f : f = [i \in 0..n |-> WrStep(path, f, i)]
    BY <1>2
  <2> DEFINE g == [i \in 0..(n + 1) |-> IF i <= n THEN f[i] ELSE WrStep(path, f, i)]
  <2>2. ASSUME NEW i \in 0..(n + 1) PROVE g[i] = WrStep(path, g, i)
    <3>1. g[i] = WrStep(path, f, i)
      BY <2>1
    <3>2. i # 0 => i - 1 \in 0..n /\ g[i - 1] = f[i - 1]
      OBVIOUS
    <3> HIDE DEF g
    <3> QED
      BY <3>1, <3>2, Zenon DEF WrStep
  <2>3. DOMAIN g = 0..(n + 1) /\ g = [i \in 0..(n + 1) |-> g[i]]
    OBVIOUS
  <2> HIDE DEF g
  <2>4. g = [i \in 0..(n + 1) |-> WrStep(path, g, i)]
    BY <2>2, <2>3
  <2> QED
    BY <2>4
<1>3. \A n \in Nat : n \in S
  <2> HIDE DEF S
  <2> QED
    BY <1>1, <1>2, WrInduction
<1> QED
  BY <1>3

(* One step of get goes to a child, and to the child of that name if there *)
(* is one.                                                                 *)
LEMMA WrChildIs ==
  ASSUME WrTree, NEW node \in wrNodes, NEW name, NEW c, c = WrChild(node, name)
  PROVE  /\ \/ c = WrNone
            \/ /\ c \in wrNodes /\ Len(c) = Len(node) + 1 /\ Front(c) = node
               /\ Last(c).param \/ Last(c) = [param |-> FALSE, name |-> name]
         /\ \A n \in wrNodes : Len(n) = Len(node) + 1 /\ Front(n) = node /\ Last(n) = [param |-> FALSE, name |-> name] => c = n
<1> DEFINE kids == {n \in wrNodes : Len(n) = Len(node) + 1 /\ Front(n) = node}
           static == {n \in kids : Last(n) = [param |-> FALSE, name |-> name]}
           params == {n \in kids : Last(n).param}
<1>1. c = IF static # {} THEN CHOOSE n \in static : TRUE
          ELSE IF params # {} THEN CHOOSE n \in params : TRUE ELSE WrNone
  BY Zenon DEF WrChild
<1>2. \A n \in kids : n \in wrNodes /\ Len(n) = Len(node) + 1 /\ Front(n) = node
  OBVIOUS
<1>3. \A n \in static : n \in kids /\ Last(n) = [param |-> FALSE, name |-> name]
  OBVIOUS
<1>4. \A n \in params : n \in kids /\ Last(n).param
  OBVIOUS
<1>5. ASSUME NEW n \in wrNodes, Len(n) = Len(node) + 1, Front(n) = node, Last(n) = [param |-> FALSE, name |-> name]
      PROVE  c = n
  <2>1. n \in static
    BY <1>5
  <2> HIDE DEF static, kids, params
  <2>2. c \in static
    BY <2>1, <1>1
  <2>3. c \in wrNodes /\ Len(c) = Len(node) + 1 /\ Front(c) = node /\ Last(c) = Last(n)
    BY <2>2, <1>2, <1>3, <1>5
  <2>4. node \in Seq(WrSeg) /\ c \in Seq(WrSeg) /\ n \in Seq(WrSeg)
    BY <2>3 DEF WrTree
  <2>5. c # <<>> /\ n # <<>>
    BY <2>3, <2>4, <1>5
  <2> QED
    BY <2>3, <2>4, <2>5, <1>5, WrFrontLast
<1> HIDE DEF static, kids, params
<1>6. c = WrNone \/ c \in static \/ c \in params
  BY <1>1
<1>7. c = WrNone \/ (c \in wrNodes /\ Len(c) = Len(node) + 1 /\ Front(c) = node
                     /\ (Last(c).param \/ Last(c) = [param |-> FALSE, name |-> name]))
  BY <1>2, <1>3, <1>4, <1>6, Zenon
<1> QED
  BY <1>5, <1>7, Zenon

(* Every prefix of a node is a node.                                       *)
LEMMA WrPrefixes == ASSUME WrTree, NEW s \in wrNodes PROVE \A k \in 0..Len(s) : SubSeq(s, 1, k) \in wrNodes
<1>1. s \in Seq(WrSeg) /\ Len(s) \in Nat
  BY DEF WrTree
<1> DEFINE S == {n \in Nat : n <= Len(s) => SubSeq(s, 1, Len(s) - n) \in wrNodes}
<1>2. 0 \in S
  <2> DEFINE u == SubSeq(s, 1, Len(s))
  <2>1. u \in Seq(WrSeg) /\ Len(u) = Len(s) /\ \A j \in 1..Len(s) : u[j] = s[j]
    BY <1>1, WrPrefix
  <2> HIDE DEF u
  <2>2. u = s
    BY <1>1, <2>1
  <2>3. SubSeq(s, 1, Len(s)) \in wrNodes
    BY <2>2, Zenon DEF u
  <2>4. Len(s) - 0 = Len(s)
    BY <1>1
  <2>5. SubSeq(s, 1, Len(s) - 0) \in wrNodes
    BY <2>3, <2>4, Zenon
  <2> QED
    BY <2>5
<1>3. ASSUME NEW n \in Nat, n \in S PROVE n + 1 \in S
  <2> SUFFICES ASSUME n + 1 <= Len(s) PROVE SubSeq(s, 1, Len(s) - (n + 1)) \in wrNodes
    OBVIOUS
  <2>1. ASSUME NEW k \in 1..Len(s), SubSeq(s, 1, k) \in wrNodes PROVE SubSeq(s, 1, k - 1) \in wrNodes
    BY <1>1, <2>1, WrPrefixFront DEF WrTree
  <2>2. Len(s) - n \in 1..Len(s) /\ SubSeq(s, 1, Len(s) - n) \in wrNodes /\ (Len(s) - n) - 1 = Len(s) - (n + 1)
    BY <1>1, <1>3
  <2>3. SubSeq(s, 1, (Len(s) - n) - 1) \in wrNodes
    BY <2>1, <2>2
  <2> QED
    BY <2>2, <2>3
<1>4. \A n \in Nat : n \in S
  <2> HIDE DEF S
  <2> QED
    BY <1>2, <1>3, WrInduction
<1>5. ASSUME NEW k \in 0..Len(s) PROVE SubSeq(s, 1, k) \in wrNodes
  <2>1. Len(s) - k \in Nat /\ Len(s) - k <= Len(s) /\ Len(s) - (Len(s) - k) = k
    BY <1>1
  <2>2. SubSeq(s, 1, Len(s) - (Len(s) - k)) \in wrNodes
    BY <1>4, <2>1
  <2> QED
    BY <2>1, <2>2
<1> QED
  BY <1>5

(* The descent of get: no node, or a node that matches the target; and the *)
(* node of the target's own names if there is one.                         *)
LEMMA WrWalkIs ==
  ASSUME WrTree, NEW P, NEW path \in Seq(P)
  PROVE  /\ WrWalk(path) = WrNone \/ (WrWalk(path) \in wrNodes /\ WrMatches(WrWalk(path), path))
         /\ WrStatic(path) \in wrNodes => WrWalk(path) = WrStatic(path)
<1>0. Len(path) \in Nat
  OBVIOUS
<1> DEFINE at[n \in 0..Len(path)] ==
        IF n = 0 THEN <<>> ELSE IF at[n - 1] = WrNone THEN WrNone ELSE WrChild(at[n - 1], path[n])
<1>1. WrWalk(path) = at[Len(path)]
  BY Zenon DEF WrWalk
<1>2. \E f : f = [n \in 0..Len(path) |-> WrStep(path, f, n)]
  BY <1>0, WrWalks, Zenon
<1>3. at = [n \in 0..Len(path) |-> WrStep(path, at, n)]
  BY <1>2, Zenon DEF WrStep
<1> HIDE DEF at
<1>4. at[0] = <<>>
  <2>1. at[0] = WrStep(path, at, 0)
    BY <1>0, <1>3
  <2> QED
    BY <2>1, Zenon DEF WrStep
<1>5. ASSUME NEW n \in Nat, n + 1 <= Len(path)
      PROVE  at[n + 1] = IF at[n] = WrNone THEN WrNone ELSE WrChild(at[n], path[n + 1])
  <2>1. ASSUME NEW k \in 0..Len(path), k # 0
        PROVE  at[k] = IF at[k - 1] = WrNone THEN WrNone ELSE WrChild(at[k - 1], path[k])
    BY <1>3, <2>1, Zenon DEF WrStep
  <2>2. n + 1 \in 0..Len(path) /\ n + 1 # 0 /\ (n + 1) - 1 = n
    BY <1>0, <1>5
  <2>3. at[n + 1] = IF at[(n + 1) - 1] = WrNone THEN WrNone ELSE WrChild(at[(n + 1) - 1], path[n + 1])
    BY <2>1, <2>2, Zenon
  <2> QED
    BY <2>2, <2>3, Zenon
<1> DEFINE Ok(c, n) == c = WrNone \/ (c \in wrNodes /\ Len(c) = n /\ \A i \in 1..n : c[i].param \/ c[i].name = path[i])
<1> DEFINE S == {n \in Nat : n <= Len(path) => Ok(at[n], n)}
<1>6. 0 \in S
  <2>1. <<>> \in wrNodes /\ Len(<<>>) = 0
    BY DEF WrTree
  <2> QED
    BY <2>1, <1>4
<1>7. ASSUME NEW n \in Nat, n \in S PROVE n + 1 \in S
  <2> SUFFICES ASSUME n + 1 <= Len(path), at[n + 1] # WrNone PROVE Ok(at[n + 1], n + 1)
    OBVIOUS
  <2>0. n <= Len(path)
    BY <1>0
  <2>1. at[n] # WrNone /\ at[n + 1] = WrChild(at[n], path[n + 1])
    BY <1>5, Zenon
  <2>2. at[n] \in wrNodes /\ Len(at[n]) = n /\ \A i \in 1..n : at[n][i].param \/ at[n][i].name = path[i]
    BY <1>7, <2>0, <2>1
  <2>c. PICK c : c = at[n + 1]
    OBVIOUS
  <2>d. c = WrChild(at[n], path[n + 1]) /\ c # WrNone
    BY <2>1, <2>c, Zenon
  <2>i. ASSUME NEW nd \in wrNodes, NEW nm, NEW e, e = WrChild(nd, nm), e # WrNone
        PROVE  e \in wrNodes /\ Len(e) = Len(nd) + 1 /\ Front(e) = nd
               /\ (Last(e).param \/ Last(e) = [param |-> FALSE, name |-> nm])
    BY <2>i, WrChildIs, Zenon
  <2>3. c \in wrNodes /\ Len(c) = Len(at[n]) + 1 /\ Front(c) = at[n]
        /\ (Last(c).param \/ Last(c) = [param |-> FALSE, name |-> path[n + 1]])
    BY <2>d, <2>2, <2>i, Zenon
  <2>4. c \in Seq(WrSeg) /\ c # <<>> /\ Len(c) = n + 1
    BY <2>2, <2>3 DEF WrTree
  <2>5. (\A j \in 1..n : at[n][j] = c[j]) /\ Last(c) = c[n + 1]
    BY <2>3, <2>4, WrFrontIs, SMTT(60)
  <2>6. c[n + 1].param \/ c[n + 1].name = path[n + 1]
    BY <2>3, <2>5
  <2>7. ASSUME NEW i \in 1..(n + 1) PROVE c[i].param \/ c[i].name = path[i]
    <3>1. CASE i = n + 1
      BY <3>1, <2>6
    <3>2. CASE i # n + 1
      <4>1. i \in 1..n
        BY <3>2
      <4> QED
        BY <4>1, <2>2, <2>5
    <3> QED
      BY <3>1, <3>2
  <2>8. Ok(c, n + 1)
    BY <2>3, <2>4, <2>7
  <2> QED
    BY <2>8, <2>c, Zenon
<1>8. \A n \in Nat : n \in S
  <2> HIDE DEF S
  <2> QED
    BY <1>6, <1>7, WrInduction
<1>9. WrWalk(path) = WrNone \/ (WrWalk(path) \in wrNodes /\ WrMatches(WrWalk(path), path))
  <2> DEFINE w == WrWalk(path)
  <2>1. Ok(w, Len(path))
    BY <1>8, <1>0, <1>1
  <2> HIDE DEF w
  <2>2. w \in wrNodes => DOMAIN w = 1..Len(w)
    BY DEF WrTree
  <2>3. w = WrNone \/ (w \in wrNodes /\ WrMatches(w, path))
    BY <2>1, <2>2, Zenon DEF WrMatches
  <2> QED
    BY <2>3, Zenon DEF w
<1>10. ASSUME WrStatic(path) \in wrNodes PROVE WrWalk(path) = WrStatic(path)
  <2> DEFINE st == WrStatic(path)
  <2>1. DOMAIN st = 1..Len(path) /\ \A i \in 1..Len(path) : st[i] = [param |-> FALSE, name |-> path[i]]
    <3>1. DOMAIN path = 1..Len(path)
      OBVIOUS
    <3> QED
      BY <3>1, Zenon DEF WrStatic
  <2>2. st \in wrNodes /\ st \in Seq(WrSeg)
    BY <1>10 DEF WrTree
  <2> HIDE DEF st
  <2>3. Len(st) = Len(path)
    BY <2>1, <2>2, <1>0
  <2> DEFINE Pre(n) == SubSeq(st, 1, n)
             T == {n \in Nat : n <= Len(path) => at[n] = Pre(n)}
  <2>4. \A k \in 0..Len(path) : Pre(k) \in wrNodes /\ Pre(k) \in Seq(WrSeg) /\ Len(Pre(k)) = k
    BY <2>2, <2>3, WrPrefix, WrPrefixes
  <2>5. \A k \in 1..Len(path) : Last(Pre(k)) = st[k] /\ Front(Pre(k)) = Pre(k - 1)
    BY <2>2, <2>3, WrPrefixFront
  <2>e. ASSUME NEW s \in Seq(WrSeg), Len(s) = 0 PROVE s = <<>>
    BY <2>e
  <2>w. \A j \in 1..Len(st) : Pre(Len(st))[j] = st[j]
    BY <2>2, <2>3, <1>0, WrPrefix
  <2> HIDE DEF Pre
  <2>6. 0 \in T
    <3>1. Pre(0) = <<>>
      BY <2>4, <1>0, <2>e
    <3> QED
      BY <3>1, <1>4
  <2>7. ASSUME NEW n \in Nat, n \in T PROVE n + 1 \in T
    <3> SUFFICES ASSUME n + 1 <= Len(path) PROVE at[n + 1] = Pre(n + 1)
      OBVIOUS
    <3>1. n \in 0..Len(path) /\ n + 1 \in 0..Len(path) /\ n + 1 \in 1..Len(path) /\ (n + 1) - 1 = n
      BY <1>0
    <3>2. at[n] = Pre(n)
      BY <3>1, <2>7
    <3>3. Pre(n) # WrNone /\ Pre(n) \in wrNodes
      BY <3>1, <2>4, WrNoneIsNone, Zenon
    <3>4. at[n + 1] = WrChild(Pre(n), path[n + 1])
      BY <1>5, <3>2, <3>3, Zenon
    <3>5. Pre(n + 1) \in wrNodes /\ Len(Pre(n + 1)) = Len(Pre(n)) + 1
      BY <3>1, <2>4
    <3>6. Front(Pre(n + 1)) = Pre(n) /\ Last(Pre(n + 1)) = [param |-> FALSE, name |-> path[n + 1]]
      BY <3>1, <2>5, <2>1
    <3> QED
      BY <3>3, <3>4, <3>5, <3>6, WrChildIs
  <2>8. \A n \in Nat : n \in T
    <3> HIDE DEF T
    <3> QED
      BY <2>6, <2>7, WrInduction
  <2>9. WrWalk(path) = Pre(Len(path))
    BY <2>8, <1>0, <1>1
  <2>10. Pre(Len(path)) = st
    <3> DEFINE u == Pre(Len(path))
    <3>1. u \in Seq(WrSeg) /\ Len(u) = Len(st) /\ \A j \in 1..Len(st) : u[j] = st[j]
      BY <2>3, <2>4, <2>w, <1>0
    <3> HIDE DEF u
    <3>2. u = st
      BY <2>2, <3>1
    <3> QED
      BY <3>2, Zenon DEF u
  <2> QED
    BY <2>9, <2>10, Zenon DEF st
<1> QED
  BY <1>9, <1>10, Zenon

(* get answers with the node the target reads as.                          *)
LEMMA WrGetKeeps == ASSUME WrGet, WrTree, WrRouted PROVE WrTree' /\ WrRouted'
<1>1. PICK p \in WrPaths \ {<<>>} :
        LET path == IF p # <<>> /\ Last(p) = "" THEN Front(p) ELSE p
            node == WrWalk(path)
        IN /\ wrAsked' = p
           /\ wrFound' = IF node \in DOMAIN wrHandler THEN node ELSE WrNone
           /\ UNCHANGED <<wrNodes, wrHandler, wrAdds>>
  BY Zenon DEF WrGet
<1> DEFINE path == IF Last(p) = "" THEN Front(p) ELSE p
           node == WrWalk(path)
<1>2. p # <<>> /\ wrAsked' = p /\ wrFound' = IF node \in DOMAIN wrHandler THEN node ELSE WrNone
  BY <1>1, Zenon
<1>3. wrNodes' = wrNodes /\ wrHandler' = wrHandler
  BY <1>1, Zenon
<1>4. path \in Seq(WrNames)
  <2>1. p \in Seq(WrNames)
    BY WrBounded, Zenon DEF WrPaths
  <2>2. Front(p) \in Seq(WrNames)
    BY <2>1, <1>2, WrFrontIs
  <2> QED
    BY <2>1, <2>2, Zenon
<1>5. WrTree' /\ WrOneParam'
  BY <1>3, Zenon DEF WrTree, WrRouted, WrOneParam
<1> HIDE DEF path
<1>6. /\ node = WrNone \/ (node \in wrNodes /\ WrMatches(node, path))
      /\ WrStatic(path) \in wrNodes => node = WrStatic(path)
  BY <1>4, WrWalkIs, Zenon
<1> HIDE DEF node
<1>7. wrFound' # WrNone => WrMatches(wrFound', path)
  BY <1>2, <1>6, Zenon
<1>8. WrStatic(path) \in DOMAIN wrHandler' => wrFound' = WrStatic(path)
  <2> SUFFICES ASSUME WrStatic(path) \in DOMAIN wrHandler PROVE wrFound' = WrStatic(path)
    BY <1>3, Zenon
  <2>1. node = WrStatic(path)
    BY <1>6, Zenon DEF WrTree
  <2> QED
    BY <1>2, <2>1, Zenon
<1>9. WrSound'
  BY <1>2, <1>7, <1>8, Zenon DEF WrSound, path
<1> QED
  BY <1>5, <1>9, Zenon DEF WrRouted

(* The routes of lib/websocket (rootRoute.add, rootRoute.get), for every   *)
(* set of names and any number of routes: whatever was added before, also  *)
(* by an add that failed half way, a node has at most one parameter below  *)
(* it, get answers with a route that matches the target, and a route       *)
(* without parameters is found by its own target.                          *)
THEOREM RoutesRead == WrSpec => [](WrRouted /\ WrTypeOK)
<1>1. WrInit => WrTree /\ WrRouted
  <2> SUFFICES ASSUME WrInit PROVE WrTree /\ WrRouted
    OBVIOUS
  <2>1. wrNodes = {<<>>} /\ DOMAIN wrHandler = {} /\ wrAsked = <<>>
    BY DEF WrInit
  <2>2. WrTree
    BY <2>1 DEF WrTree
  <2>3. WrOneParam
    BY <2>1 DEF WrOneParam
  <2>4. WrSound
    BY <2>1, Zenon DEF WrSound
  <2> QED
    BY <2>2, <2>3, <2>4, Zenon DEF WrRouted
<1>2. WrTree /\ WrRouted /\ [WrNext]_wrVars => (WrTree /\ WrRouted)'
  <2> SUFFICES ASSUME WrTree, WrRouted, [WrNext]_wrVars PROVE (WrTree /\ WrRouted)'
    OBVIOUS
  <2>1. CASE WrAdd
    BY <2>1, WrAddKeeps, Zenon
  <2>2. CASE WrGet
    BY <2>2, WrGetKeeps, Zenon
  <2>3. CASE UNCHANGED wrVars
    BY <2>3, Zenon DEF wrVars, WrTree, WrRouted, WrOneParam, WrSound
  <2> QED
    BY <2>1, <2>2, <2>3, Zenon DEF WrNext
<1>3. WrTree => WrTypeOK
  BY DEF WrTree, WrTypeOK
<1> QED
  BY <1>1, <1>2, <1>3, PTL DEF WrSpec

-----------------------------------------------------------------------------
(* Frames.  What is kept of a frame that a packet cut: how far its bytes   *)
(* are read, and which of its fields are known by then.                    *)

WfFrameType == [chopped : 0..10, len : Nat, masked : BOOLEAN, key : 0..4, payload : Nat]
WfSentType == [len : Nat, masked : BOOLEAN, end : Nat]

\* The bytes of the frame that are read, and the size of its header.
WfPart(f) == f.chopped + f.key + f.payload
WfHeader(r) == IF WfLenField(r.len) = frameLargePayload THEN 10
               ELSE IF WfLenField(r.len) = frameMediumPayload THEN 4 ELSE 2

\* The first byte only; the second byte and part of the extended length; the whole length.
WfOne(f) == f.chopped = 1 /\ f.len = 0 /\ f.masked = FALSE /\ f.key = 0 /\ f.payload = 0
WfInHeader(f, r) == /\ f.chopped \in 2..(WfHeader(r) - 1) /\ f.len = WfLenField(r.len)
                    /\ f.masked = r.masked /\ f.key = 0 /\ f.payload = 0
WfInBody(f, r) == /\ f.chopped = WfHeader(r) /\ f.len = r.len /\ f.masked = r.masked
                  /\ f.masked => (f.key = 4 \/ f.payload = 0)
                  /\ ~f.masked => f.key = 0
                  /\ f.payload <= r.len

\* A frame of 127 octets whose length is read for a second time.
WfLost(f, r) == /\ r.len = frameLargePayload /\ f.chopped \in 5..10 /\ f.masked = r.masked
                /\ f.len = IF f.chopped = 10 THEN WfTooLong ELSE frameLargePayload

WfPhase(f, r) == \/ f = WfNew
                 \/ WfOne(f)
                 \/ WfInHeader(f, r)
                 \/ WfInBody(f, r) /\ WfPart(f) < WfPack(r)
                 \/ WfLost(f, r)

(* The size of a packed frame is its header, its key and its payload.      *)
LEMMA WfSizes == ASSUME NEW r, r.len \in Nat, r.masked \in BOOLEAN
                 PROVE  /\ WfHeader(r) \in {2, 4, 10} /\ WfPack(r) \in Nat /\ WfPack(r) > 1
                        /\ WfPack(r) = WfHeader(r) + (IF r.masked THEN 4 ELSE 0) + r.len
                        /\ WfHeader(r) = 2 => r.len <= 125 /\ WfLenField(r.len) = r.len
                        /\ WfHeader(r) = 4 => r.len >= 126 /\ WfLenField(r.len) = 126
                        /\ WfHeader(r) = 10 => r.len > 65535 /\ WfLenField(r.len) = 127
<1>1. CASE r.len > 65535
  BY <1>1 DEF WfHeader, WfPack, WfLenField, frameLargePayload, frameMediumPayload, frameSmallPayload
<1>2. CASE ~(r.len > 65535) /\ r.len > 125
  BY <1>2 DEF WfHeader, WfPack, WfLenField, frameLargePayload, frameMediumPayload, frameSmallPayload
<1>3. CASE r.len <= 125
  BY <1>3 DEF WfHeader, WfPack, WfLenField, frameLargePayload, frameMediumPayload, frameSmallPayload
<1> QED BY <1>1, <1>2, <1>3

\* What unpack holds between two of its parts: s is [f, n, stop].
WfStep(s, g, m) == /\ s = [f |-> s.f, n |-> s.n, stop |-> s.stop]
                   /\ s.f \in WfFrameType /\ s.n \in Nat /\ s.stop \in BOOLEAN
                   /\ WfPart(s.f) + s.n = WfPart(g) + m

(* A part that returns: the packet is used up.                             *)
LEMMA WfStopped == ASSUME NEW g \in WfFrameType, NEW h, NEW k,
                          NEW s, s = [f |-> g, n |-> 0, stop |-> TRUE], WfPart(g) = WfPart(h) + k
                   PROVE  WfStep(s, h, k) /\ s.f = g /\ s.n = 0 /\ s.stop
<1>1. WfPart(g) + 0 = WfPart(h) + k
  BY DEF WfPart, WfFrameType
<1> QED BY <1>1 DEF WfStep

(* A part that goes on.                                                    *)
LEMMA WfGoesOn == ASSUME NEW g \in WfFrameType, NEW m \in Nat, NEW h, NEW k,
                         NEW s, s = [f |-> g, n |-> m, stop |-> FALSE], WfPart(g) + m = WfPart(h) + k
                  PROVE  WfStep(s, h, k) /\ s.f = g /\ s.n = m /\ ~s.stop
  BY DEF WfStep

(* The first two bytes.                                                    *)
LEMMA WfHeadStep == ASSUME NEW f \in WfFrameType, NEW n \in Nat \ {0}, NEW r,
                           r.len \in Nat, r.masked \in BOOLEAN, WfPhase(f, r)
                    PROVE  LET s == WfHead([f |-> f, n |-> n], r)
                           IN /\ WfStep(s, f, n)
                              /\ s.stop => s.n = 0 /\ WfOne(s.f)
                              /\ ~s.stop => \/ WfInHeader(s.f, r)
                                            \/ WfInBody(s.f, r) /\ (s.n > 0 \/ WfHeader(r) = 2)
                                            \/ WfLost(s.f, r)
<1> DEFINE s == WfHead([f |-> f, n |-> n], r)
           g == [f EXCEPT !.chopped = 1]
           L == WfLenField(r.len)
           h == [chopped |-> 2, len |-> L, masked |-> r.masked, key |-> 0, payload |-> 0]
<1>0. /\ WfHeader(r) \in {2, 4, 10} /\ L \in Nat
      /\ WfHeader(r) = 2 => L = r.len
  BY WfSizes
<1>2. h \in WfFrameType /\ WfPart(h) = 2
  BY <1>0 DEF WfFrameType, WfPart
<1>3. WfInHeader(h, r) \/ (WfHeader(r) = 2 /\ WfInBody(h, r))
  <2> HIDE DEF L
  <2>2. CASE WfHeader(r) = 2
    BY <1>0, <2>2 DEF WfInBody
  <2>3. CASE WfHeader(r) # 2
    BY <1>0, <2>3 DEF WfInHeader, L
  <2> QED BY <2>2, <2>3
<1>4. g \in WfFrameType /\ f.chopped \in 0..10
  BY DEF WfFrameType
<1> DEFINE e == [f |-> f, n |-> n]
           a == IF e.f.chopped = 0 THEN [f |-> [e.f EXCEPT !.chopped = 1], n |-> e.n - 1] ELSE e
           z == [a.f EXCEPT !.chopped = 2, !.masked = r.masked, !.len = L]
           c == a.f.chopped = 1
<1>a. s = IF c /\ a.n > 0 THEN [f |-> z, n |-> a.n - 1, stop |-> FALSE] ELSE [f |-> a.f, n |-> a.n, stop |-> c]
  BY DEF WfHead
<1> HIDE DEF s, L
<1>5. CASE f = WfNew /\ n = 1
  <2>1. a.f = g /\ a.n = 0 /\ a.f.chopped = 1 /\ WfOne(g) /\ WfPart(g) = 1 /\ WfPart(f) = 0
    BY <1>5 DEF WfOne, WfNew, WfPart
  <2> HIDE DEF a, g, z
  <2>2. ~(c /\ a.n > 0) /\ c = TRUE
    BY <2>1
  <2> HIDE DEF c
  <2>3. s = [f |-> a.f, n |-> a.n, stop |-> c]
    BY <1>a, <2>2, Zenon
  <2>4. s = [f |-> g, n |-> 0, stop |-> TRUE]
    BY <2>1, <2>2, <2>3, Zenon
  <2>5. WfPart(g) = WfPart(f) + n /\ g \in WfFrameType
    BY <1>4, <1>5, <2>1 DEF g
  <2>6. WfStep(s, f, n) /\ s.f = g /\ s.n = 0 /\ s.stop
    BY <2>4, <2>5, WfStopped
  <2> QED BY <2>1, <2>6 DEF s
<1>6. CASE (f = WfNew /\ n > 1) \/ WfOne(f)
  <2>1. /\ a.f = [chopped |-> 1, len |-> 0, masked |-> FALSE, key |-> 0, payload |-> 0]
        /\ a.n \in Nat /\ a.n > 0 /\ a.n + 1 = WfPart(f) + n
    <3>1. CASE f = WfNew /\ n > 1
      <4>1. a = [f |-> [f EXCEPT !.chopped = 1], n |-> n - 1]
        BY <3>1 DEF WfNew
      <4> HIDE DEF a
      <4>2. a.n = n - 1 /\ a.f = [f EXCEPT !.chopped = 1] /\ WfPart(f) = 0
        BY <3>1, <4>1 DEF WfNew, WfPart
      <4>3. [f EXCEPT !.chopped = 1] = [chopped |-> 1, len |-> 0, masked |-> FALSE, key |-> 0, payload |-> 0]
        <5>1. PICK b \in BOOLEAN : b = FALSE
          OBVIOUS
        <5>2. f = [chopped |-> 0, len |-> 0, masked |-> b, key |-> 0, payload |-> 0]
          BY <3>1, <5>1 DEF WfNew
        <5>3. [f EXCEPT !.chopped = 1] = [chopped |-> 1, len |-> 0, masked |-> b, key |-> 0, payload |-> 0]
          BY <5>2
        <5> QED BY <5>1, <5>3
      <4>4. a.n \in Nat /\ a.n > 0 /\ a.n + 1 = WfPart(f) + n
        BY <3>1, <4>2
      <4> QED BY <4>2, <4>3, <4>4, Zenon
    <3>2. CASE WfOne(f)
      <4>1. f = [chopped |-> 1, len |-> 0, masked |-> FALSE, key |-> 0, payload |-> 0]
        BY <3>2 DEF WfOne, WfFrameType
      <4> QED BY <4>1 DEF WfPart
    <3> QED BY <1>6, <3>1, <3>2
  <2> HIDE DEF a
  <2>2. z = h /\ c
    <3> DEFINE q == [chopped |-> 1, len |-> 0, masked |-> FALSE, key |-> 0, payload |-> 0]
           q1 == [chopped |-> 2, len |-> 0, masked |-> FALSE, key |-> 0, payload |-> 0]
           q2 == [chopped |-> 2, len |-> 0, masked |-> r.masked, key |-> 0, payload |-> 0]
    <3>a. [q EXCEPT !.chopped = 2] = q1 /\ q.chopped = 1
      <4>1. PICK b \in BOOLEAN : b = FALSE
        OBVIOUS
      <4>2. /\ q = [chopped |-> 1, len |-> 0, masked |-> b, key |-> 0, payload |-> 0]
            /\ q1 = [chopped |-> 2, len |-> 0, masked |-> b, key |-> 0, payload |-> 0]
        BY <4>1
      <4> HIDE DEF q, q1
      <4> QED BY <4>2
    <3>b. [q1 EXCEPT !.masked = r.masked] = q2
      OBVIOUS
    <3>c. [q2 EXCEPT !.len = L] = h
      OBVIOUS
    <3>2. a.f = q
      BY <2>1
    <3> HIDE DEF q, q1, q2, h
    <3>1. [q EXCEPT !.chopped = 2, !.masked = r.masked, !.len = L] = h /\ q.chopped = 1
      BY <3>a, <3>b, <3>c
    <3> QED BY <3>1, <3>2, Zenon
  <2> HIDE DEF z, h, c
  <2>3. s = [f |-> h, n |-> a.n - 1, stop |-> FALSE]
    BY <1>a, <2>1, <2>2, Zenon
  <2> DEFINE m == a.n - 1
  <2>4. m \in Nat /\ WfPart(h) + m = WfPart(f) + n
    BY <1>2, <2>1
  <2> HIDE DEF m
  <2>6. h \in WfFrameType /\ s = [f |-> h, n |-> m, stop |-> FALSE]
    BY <1>2, <2>3 DEF h, m
  <2>5. WfStep(s, f, n) /\ s.f = h /\ ~s.stop
    BY <2>4, <2>6, WfGoesOn
  <2> QED BY <1>3, <2>5 DEF s
<1>8. CASE WfInHeader(f, r) \/ WfInBody(f, r) \/ WfLost(f, r)
  <2>1. f.chopped > 1
    BY <1>0, <1>4, <1>8 DEF WfInHeader, WfInBody, WfLost
  <2>2. a.f = f /\ a.n = n /\ c = FALSE
    BY <1>4, <2>1
  <2> HIDE DEF a, c, z
  <2>3. s = [f |-> a.f, n |-> a.n, stop |-> c]
    BY <1>a, <2>2, Zenon
  <2>4. s = [f |-> f, n |-> n, stop |-> FALSE]
    BY <2>2, <2>3, Zenon
  <2>5. WfStep(s, f, n) /\ s.f = f /\ s.n = n /\ ~s.stop
    <3>1. n \in Nat
      OBVIOUS
    <3> QED BY <2>4, <3>1, WfGoesOn
  <2> QED BY <1>8, <2>5 DEF s
<1> QED
  <2>1. f = WfNew => n = 1 \/ n > 1
    OBVIOUS
  <2> QED BY <1>5, <1>6, <1>8, <2>1 DEF WfPhase

(* The extended length.  Only of a frame of 127 octets is it read twice.   *)
LEMMA WfLengthStep ==
  ASSUME NEW f \in WfFrameType, NEW n \in Nat, NEW r, r.len \in Nat, r.masked \in BOOLEAN,
         \/ WfInHeader(f, r)
         \/ WfInBody(f, r) /\ (n > 0 \/ WfHeader(r) = 2)
         \/ WfLost(f, r),
         WfTooLong \in Nat
  PROVE  LET s == WfLength([f |-> f, n |-> n, stop |-> FALSE], r)
         IN /\ WfStep(s, f, n)
            /\ s.stop => s.n = 0 /\ (WfInHeader(s.f, r) \/ WfLost(s.f, r))
            /\ ~s.stop => WfInBody(s.f, r) \/ (WfLost(s.f, r) /\ s.f.chopped = 10)
<1> DEFINE H == WfHeader(r)
           L == WfLenField(r.len)
           e == [f |-> f, n |-> n, stop |-> FALSE]
           s == WfLength(e, r)
<1>0. /\ H \in {2, 4, 10} /\ L \in Nat
      /\ H = 2 => r.len <= 125 /\ L = r.len
      /\ H = 4 => r.len >= 126 /\ L = 126
      /\ H = 10 => r.len > 65535 /\ L = 127
  BY WfSizes
<1>k. frameLargePayload = 127 /\ frameMediumPayload = 126
  BY DEF frameLargePayload, frameMediumPayload
<1>t. /\ f.chopped \in 0..10 /\ f.len \in Nat /\ f.masked \in BOOLEAN /\ f.key \in 0..4 /\ f.payload \in Nat
  BY DEF WfFrameType
<1>a. ASSUME NEW k \in {4, 10}, f.chopped < k, n < k - f.chopped
      PROVE  /\ WfExtended(e, k, r) = [f |-> [f EXCEPT !.chopped = f.chopped + n], n |-> 0, stop |-> TRUE]
             /\ [f EXCEPT !.chopped = f.chopped + n] \in WfFrameType
             /\ WfPart([f EXCEPT !.chopped = f.chopped + n]) = WfPart(f) + n
  <2>1. f.chopped + n \in 0..10 /\ ~(k - f.chopped <= 0)
    BY <1>t, <1>a
  <2>2. WfExtended(e, k, r) = [f |-> [f EXCEPT !.chopped = f.chopped + n], n |-> 0, stop |-> TRUE]
    BY <1>a, <2>1 DEF WfExtended
  <2> QED BY <1>t, <2>1, <2>2 DEF WfFrameType, WfPart
<1>b. ASSUME NEW k \in {4, 10}, f.chopped < k, ~(n < k - f.chopped), NEW l \in Nat,
             l = IF (k = 10) = (L = frameLargePayload) THEN r.len ELSE WfTooLong
      PROVE  /\ WfExtended(e, k, r) = [f |-> [f EXCEPT !.chopped = k, !.len = l], n |-> n - (k - f.chopped), stop |-> FALSE]
             /\ [f EXCEPT !.chopped = k, !.len = l] \in WfFrameType
             /\ WfPart([f EXCEPT !.chopped = k, !.len = l]) = (WfPart(f) + k) - f.chopped
  <2>1. ~(k - f.chopped <= 0)
    BY <1>t, <1>b
  <2>2. WfExtended(e, k, r) = [f |-> [f EXCEPT !.chopped = k, !.len = l], n |-> n - (k - f.chopped), stop |-> FALSE]
    BY <1>b, <2>1 DEF WfExtended
  <2>3. [f EXCEPT !.chopped = k, !.len = l] = [chopped |-> k, len |-> l, masked |-> f.masked, key |-> f.key, payload |-> f.payload]
    <3>1. f = [chopped |-> f.chopped, len |-> f.len, masked |-> f.masked, key |-> f.key, payload |-> f.payload]
      BY DEF WfFrameType
    <3> DEFINE g == [chopped |-> k, len |-> f.len, masked |-> f.masked, key |-> f.key, payload |-> f.payload]
    <3>2. [f EXCEPT !.chopped = k] = g
      BY <3>1
    <3>3. [g EXCEPT !.len = l] = [chopped |-> k, len |-> l, masked |-> f.masked, key |-> f.key, payload |-> f.payload]
      OBVIOUS
    <3>4. [f EXCEPT !.chopped = k, !.len = l] = [[f EXCEPT !.chopped = k] EXCEPT !.len = l]
      OBVIOUS
    <3> HIDE DEF g
    <3> QED BY <3>2, <3>3, <3>4, Zenon
  <2> QED BY <1>t, <2>2, <2>3 DEF WfFrameType, WfPart
<1>c. ASSUME NEW k \in {4, 10}, f.chopped >= k PROVE WfExtended(e, k, r) = e
  <2>1. k - f.chopped <= 0
    BY <1>t, <1>c
  <2> QED BY <2>1 DEF WfExtended
<1>d. /\ f.len = 127 => s = WfExtended(e, 10, r)
      /\ f.len = 126 => s = WfExtended(e, 4, r)
      /\ f.len # 127 /\ f.len # 126 => s = e
  BY <1>k, <1>t DEF WfLength
<1>1. CASE WfInHeader(f, r)
  <2>0. /\ H \in {4, 10} /\ f.chopped \in 2..(H - 1) /\ f.len = L /\ s = WfExtended(e, H, r)
        /\ f.masked = r.masked /\ f.key = 0 /\ f.payload = 0
    BY <1>0, <1>1, <1>d DEF WfInHeader
  <2>1. CASE n < H - f.chopped
    <3> DEFINE g == [f EXCEPT !.chopped = f.chopped + n]
    <3>1. s = [f |-> g, n |-> 0, stop |-> TRUE] /\ g \in WfFrameType /\ WfPart(g) = WfPart(f) + n
      BY <1>a, <2>0, <2>1
    <3>2. g.chopped \in 2..(H - 1) /\ g.len = L /\ g.masked = r.masked /\ g.key = 0 /\ g.payload = 0
      BY <1>0, <1>t, <2>0, <2>1 DEF WfFrameType
    <3> HIDE DEF g, s
    <3>3. WfInHeader(g, r)
      BY <3>2 DEF WfInHeader
    <3>4. WfStep(s, f, n) /\ s.f = g /\ s.n = 0 /\ s.stop
      BY <3>1, WfStopped
    <3> QED BY <3>3, <3>4 DEF s
  <2>2. CASE ~(n < H - f.chopped)
    <3> DEFINE g == [f EXCEPT !.chopped = H, !.len = r.len]
    <3>1. r.len = IF (H = 10) = (L = frameLargePayload) THEN r.len ELSE WfTooLong
      BY <1>0, <1>k, <2>0
    <3>2. /\ s = [f |-> g, n |-> n - (H - f.chopped), stop |-> FALSE] /\ g \in WfFrameType
          /\ WfPart(g) = (WfPart(f) + H) - f.chopped
      <4> HIDE DEF s, e, L, H
      <4>1. H \in {4, 10} /\ f.chopped < H
        BY <1>t, <2>0
      <4> QED BY <1>b, <2>0, <2>2, <3>1, <4>1
    <3>3. g.chopped = H /\ g.len = r.len /\ g.masked = r.masked /\ g.key = 0 /\ g.payload = 0
      BY <1>t, <2>0 DEF WfFrameType
    <3> HIDE DEF g, s
    <3>4. WfInBody(g, r)
      BY <3>3 DEF WfInBody
    <3> DEFINE m == n - (H - f.chopped)
    <3>5. m \in Nat /\ WfPart(g) + m = WfPart(f) + n
      <4>1. WfPart(f) \in Int
        BY <1>t DEF WfPart
      <4> QED BY <1>0, <1>t, <2>0, <2>2, <3>2, <4>1
    <3>6. WfStep(s, f, n) /\ s.f = g /\ ~s.stop
      <4>1. g \in WfFrameType /\ s = [f |-> g, n |-> m, stop |-> FALSE]
        BY <3>2
      <4> HIDE DEF m
      <4> QED BY <3>5, <4>1, WfGoesOn
    <3> QED BY <3>4, <3>6 DEF s
  <2> QED BY <2>1, <2>2
<1>5. s = e => WfStep(s, f, n) /\ s.f = f /\ ~s.stop
  <2> HIDE DEF s
  <2> QED BY WfGoesOn
<1>2. CASE WfInBody(f, r) /\ r.len # 127
  <2>1. f.chopped = H /\ f.len = r.len
    BY <1>2 DEF WfInBody
  <2>2. f.len = 126 => f.chopped = 4
    BY <1>0, <2>1
  <2>3. s = e
    BY <1>2, <1>c, <1>d, <2>1, <2>2
  <2> QED BY <1>2, <1>5, <2>3
<1>3. CASE (WfInBody(f, r) /\ r.len = 127) \/ (WfLost(f, r) /\ f.chopped < 10)
  <2>0. /\ r.len = 127 /\ f.chopped \in 4..9 /\ f.len = 127 /\ s = WfExtended(e, 10, r) /\ H = 4 /\ L = 126
        /\ f.masked = r.masked /\ (f.chopped = 4 => n > 0)
    <3>1. CASE WfInBody(f, r) /\ r.len = 127
      <4>1. H = 4 /\ L = 126 /\ f.chopped = 4 /\ f.len = 127 /\ f.masked = r.masked
        BY <1>0, <3>1 DEF WfInBody
      <4>2. n > 0
        BY <3>1, <4>1 DEF WfInHeader, WfLost
      <4> QED BY <1>d, <3>1, <4>1, <4>2
    <3>2. CASE WfLost(f, r) /\ f.chopped < 10
      BY <1>0, <1>d, <1>k, <1>t, <3>2 DEF WfLost
    <3> QED BY <1>3, <3>1, <3>2
  <2>1. CASE n < 10 - f.chopped
    <3> DEFINE g == [f EXCEPT !.chopped = f.chopped + n]
    <3>1. s = [f |-> g, n |-> 0, stop |-> TRUE] /\ g \in WfFrameType /\ WfPart(g) = WfPart(f) + n
      BY <1>a, <2>0, <2>1
    <3>2. g.chopped \in 5..9 /\ g.len = 127 /\ g.masked = r.masked
      BY <1>t, <2>0, <2>1 DEF WfFrameType
    <3> HIDE DEF g, s
    <3>3. WfLost(g, r)
      BY <1>k, <2>0, <3>2 DEF WfLost
    <3>4. WfStep(s, f, n) /\ s.f = g /\ s.n = 0 /\ s.stop
      BY <3>1, WfStopped
    <3> QED BY <3>3, <3>4 DEF s
  <2>2. CASE ~(n < 10 - f.chopped)
    <3> DEFINE g == [f EXCEPT !.chopped = 10, !.len = WfTooLong]
    <3>1. WfTooLong = IF (10 = 10) = (L = frameLargePayload) THEN r.len ELSE WfTooLong
      BY <1>k, <2>0
    <3>2. /\ s = [f |-> g, n |-> n - (10 - f.chopped), stop |-> FALSE] /\ g \in WfFrameType
          /\ WfPart(g) = (WfPart(f) + 10) - f.chopped
      <4> HIDE DEF s, e, L, H
      <4>1. 10 \in {4, 10} /\ f.chopped < 10
        BY <1>t, <2>0
      <4> QED BY <1>b, <2>0, <2>2, <3>1, <4>1
    <3>3. g.chopped = 10 /\ g.len = WfTooLong /\ g.masked = r.masked
      BY <1>t, <2>0 DEF WfFrameType
    <3> HIDE DEF g, s
    <3>4. WfLost(g, r)
      BY <1>k, <2>0, <3>3 DEF WfLost
    <3> DEFINE m == n - (10 - f.chopped)
    <3>5. m \in Nat /\ WfPart(g) + m = WfPart(f) + n
      <4>1. WfPart(f) \in Int
        BY <1>t DEF WfPart
      <4> QED BY <1>0, <1>t, <2>0, <2>2, <3>2, <4>1
    <3>6. WfStep(s, f, n) /\ s.f = g /\ ~s.stop
      <4>1. g \in WfFrameType /\ s = [f |-> g, n |-> m, stop |-> FALSE]
        BY <3>2
      <4> HIDE DEF m
      <4> QED BY <3>5, <4>1, WfGoesOn
    <3> QED BY <3>3, <3>4, <3>6 DEF s
  <2> QED BY <2>1, <2>2
<1>4. CASE WfLost(f, r) /\ f.chopped = 10
  <2>1. f.len = WfTooLong
    BY <1>4 DEF WfLost
  <2>2. s = e
    BY <1>4, <1>c, <1>d, <1>k, <2>1
  <2> QED BY <1>4, <1>5, <2>2
<1> QED
  <2>1. WfLost(f, r) => f.chopped < 10 \/ f.chopped = 10
    BY DEF WfLost
  <2> QED BY <1>1, <1>2, <1>3, <1>4, <2>1

(* The masking key.                                                        *)
LEMMA WfMaskStep ==
  ASSUME NEW f \in WfFrameType, NEW n \in Nat, NEW r, r.len \in Nat, r.masked \in BOOLEAN,
         WfInBody(f, r) \/ (WfLost(f, r) /\ f.chopped = 10)
  PROVE  LET s == WfMaskKey([f |-> f, n |-> n, stop |-> FALSE])
         IN /\ WfStep(s, f, n)
            /\ s.stop => s.n = 0 /\ WfPhase(s.f, r)
            /\ ~s.stop => /\ WfInBody(s.f, r) \/ (WfLost(s.f, r) /\ s.f.chopped = 10)
                          /\ s.f.masked => s.f.key = 4
<1> DEFINE e == [f |-> f, n |-> n, stop |-> FALSE]
           s == WfMaskKey(e)
<1>t. /\ f.chopped \in 0..10 /\ f.len \in Nat /\ f.masked \in BOOLEAN /\ f.key \in 0..4 /\ f.payload \in Nat
  BY DEF WfFrameType
<1>1. CASE ~f.masked \/ f.key = 4
  <2>1. s = e
    BY <1>1 DEF WfMaskKey
  <2> HIDE DEF s
  <2>2. WfStep(s, f, n) /\ s.f = f /\ s.n = n /\ ~s.stop
    BY <2>1, WfGoesOn
  <2> QED BY <1>1, <2>2 DEF s
<1>2. CASE f.masked /\ f.key # 4 /\ n < 4 - f.key
  <2> DEFINE g == [f EXCEPT !.key = f.key + n]
  <2>1. s = [f |-> g, n |-> 0, stop |-> TRUE]
    BY <1>2 DEF WfMaskKey
  <2>2. f.key + n \in 0..3
    BY <1>t, <1>2
  <2>3. /\ g \in WfFrameType /\ WfPart(g) = WfPart(f) + n /\ g.key \in 0..3
        /\ g.chopped = f.chopped /\ g.len = f.len /\ g.masked = f.masked /\ g.payload = f.payload
    BY <1>t, <2>2 DEF WfFrameType, WfPart
  <2> HIDE DEF g, s
  <2>4. WfStep(s, f, n) /\ s.f = g /\ s.n = 0 /\ s.stop
    BY <2>1, <2>3, WfStopped
  <2>5. WfPhase(g, r)
    <3>1. CASE WfInBody(f, r)
      <4>0. /\ f.chopped = WfHeader(r) /\ f.len = r.len /\ f.masked = r.masked
            /\ f.masked => (f.key = 4 \/ f.payload = 0)
        BY <3>1 DEF WfInBody
      <4>1. g.chopped = WfHeader(r) /\ g.len = r.len /\ g.payload = 0 /\ g.key < 4 /\ WfHeader(r) \in Nat
        BY <1>2, <2>3, <4>0, WfSizes
      <4>5. g.masked = r.masked
        BY <2>3, <4>0
      <4>6. r.masked /\ g.masked
        BY <1>2, <2>3, <4>0
      <4>2. WfInBody(g, r)
        BY <4>1, <4>5, <4>6 DEF WfInBody
      <4>3. WfPack(r) = WfHeader(r) + 4 + r.len
        <5>1. WfPack(r) = WfHeader(r) + (IF r.masked THEN 4 ELSE 0) + r.len
          BY WfSizes
        <5> QED BY <4>6, <5>1
      <4>4. WfPart(g) < WfPack(r)
        BY <2>3, <4>1, <4>3 DEF WfPart
      <4> QED BY <4>2, <4>4 DEF WfPhase
    <3>2. CASE WfLost(f, r)
      BY <2>3, <3>2 DEF WfLost, WfPhase
    <3> QED BY <3>1, <3>2
  <2> QED BY <2>4, <2>5 DEF s
<1>3. CASE f.masked /\ f.key # 4 /\ ~(n < 4 - f.key)
  <2> DEFINE g == [f EXCEPT !.key = 4]
             m == n - (4 - f.key)
  <2>1. s = [f |-> g, n |-> m, stop |-> FALSE]
    BY <1>3 DEF WfMaskKey
  <2>3. /\ g \in WfFrameType /\ WfPart(g) = (WfPart(f) + 4) - f.key /\ g.key = 4 /\ WfPart(f) \in Int
        /\ g.chopped = f.chopped /\ g.len = f.len /\ g.masked = f.masked /\ g.payload = f.payload
    BY <1>t DEF WfFrameType, WfPart
  <2>4. m \in Nat /\ WfPart(g) + m = WfPart(f) + n
    BY <1>t, <1>3, <2>3
  <2> HIDE DEF g, s, m
  <2>5. WfStep(s, f, n) /\ s.f = g /\ ~s.stop
    BY <2>1, <2>3, <2>4, WfGoesOn
  <2>6. WfInBody(g, r) \/ (WfLost(g, r) /\ g.chopped = 10)
    BY <1>3, <2>3 DEF WfInBody, WfLost
  <2> QED BY <2>3, <2>5, <2>6 DEF s
<1> QED BY <1>1, <1>2, <1>3

(* The payload: with it the frame is complete, or the packet is used up.   *)
LEMMA WfPayloadStep ==
  ASSUME NEW f \in WfFrameType, NEW n \in Nat, NEW r, r.len \in Nat, r.masked \in BOOLEAN,
         WfInBody(f, r) \/ (WfLost(f, r) /\ f.chopped = 10), f.masked => f.key = 4,
         WfTooLong \in Nat, WfPart(f) + n < WfTooLong
  PROVE  LET s == WfPayload([f |-> f, n |-> n, stop |-> FALSE])
         IN /\ WfStep(s, f, n)
            /\ s.stop => s.n = 0 /\ WfPhase(s.f, r)
            /\ ~s.stop => s.f.payload = r.len /\ WfPart(s.f) = WfPack(r)
<1> DEFINE e == [f |-> f, n |-> n, stop |-> FALSE]
           s == WfPayload(e)
<1>t. /\ f.chopped \in 0..10 /\ f.len \in Nat /\ f.masked \in BOOLEAN /\ f.key \in 0..4 /\ f.payload \in Nat
  BY DEF WfFrameType
<1>0. f.payload <= f.len
  BY <1>t DEF WfInBody, WfLost, WfPart
<1>1. CASE n < f.len - f.payload
  <2> DEFINE g == [f EXCEPT !.payload = f.payload + n]
             b == f.payload + n < f.len
  <2>1. s = [f |-> g, n |-> n - n, stop |-> b]
    BY <1>1 DEF WfPayload
  <2>2. b = TRUE /\ n - n = 0
    BY <1>t, <1>1
  <2>3. /\ g \in WfFrameType /\ WfPart(g) = WfPart(f) + n /\ g.payload = f.payload + n
        /\ g.chopped = f.chopped /\ g.len = f.len /\ g.masked = f.masked /\ g.key = f.key
    BY <1>t DEF WfFrameType, WfPart
  <2> HIDE DEF g, s, b
  <2>4. s = [f |-> g, n |-> 0, stop |-> TRUE]
    BY <2>1, <2>2, Zenon
  <2>5. WfStep(s, f, n) /\ s.f = g /\ s.n = 0 /\ s.stop
    BY <2>3, <2>4, WfStopped
  <2>6. WfPhase(g, r)
    <3>1. CASE WfInBody(f, r)
      <4>1. /\ g.chopped = WfHeader(r) /\ g.len = r.len /\ g.masked = r.masked /\ g.payload < r.len
            /\ g.masked => g.key = 4 /\ WfHeader(r) \in Nat
        BY <1>t, <1>1, <2>3, <3>1, WfSizes DEF WfInBody
      <4>5. ~g.masked => g.key = 0
        BY <2>3, <3>1 DEF WfInBody
      <4>2. WfInBody(g, r)
        BY <2>3, <1>t, <4>1, <4>5 DEF WfInBody
      <4>3. WfPack(r) = WfHeader(r) + (IF r.masked THEN 4 ELSE 0) + r.len
        BY WfSizes
      <4>4. WfPart(g) < WfPack(r)
        BY <1>t, <2>3, <4>1, <4>3, <4>5, WfSizes DEF WfPart
      <4> QED BY <4>2, <4>4 DEF WfPhase
    <3>2. CASE WfLost(f, r)
      BY <2>3, <3>2 DEF WfLost, WfPhase
    <3> QED BY <3>1, <3>2
  <2> QED BY <2>5, <2>6 DEF s
<1>2. CASE ~(n < f.len - f.payload)
  <2> DEFINE x == f.len - f.payload
             g == [f EXCEPT !.payload = f.payload + x]
             m == n - x
             b == f.payload + x < f.len
  <2>1. s = [f |-> g, n |-> m, stop |-> b]
    BY <1>2 DEF WfPayload
  <2>2. b = FALSE /\ m \in Nat /\ x \in Nat
    BY <1>t, <1>0, <1>2
  <2>3. /\ g \in WfFrameType /\ WfPart(g) = WfPart(f) + x /\ g.payload = f.len /\ WfPart(f) \in Int
        /\ g.chopped = f.chopped /\ g.key = f.key
    <3>1. f.payload + x = f.len
      BY <1>t, <1>0
    <3>2. WfPart(f) \in Int
      BY <1>t DEF WfPart
    <3> HIDE DEF x
    <3> QED BY <1>t, <2>2, <3>1, <3>2 DEF WfFrameType, WfPart
  <2>4. WfPart(g) + m = WfPart(f) + n
    BY <1>t, <2>2, <2>3
  <2> HIDE DEF g, s, b, m
  <2>5. s = [f |-> g, n |-> m, stop |-> FALSE]
    BY <2>1, <2>2, Zenon
  <2>6. WfStep(s, f, n) /\ s.f = g /\ ~s.stop
    BY <2>2, <2>3, <2>4, <2>5, WfGoesOn
  <2>7. WfInBody(f, r)
    <3>1. ASSUME WfLost(f, r), f.chopped = 10 PROVE FALSE
      BY <1>t, <1>2, <3>1 DEF WfLost, WfPart
    <3> QED BY <3>1
  <2>8. g.payload = r.len /\ WfPart(g) = WfPack(r)
    <3>1. f.chopped = WfHeader(r) /\ f.len = r.len /\ f.masked = r.masked /\ (~f.masked => f.key = 0)
      BY <2>7 DEF WfInBody
    <3>2. WfPack(r) = WfHeader(r) + (IF r.masked THEN 4 ELSE 0) + r.len
      BY WfSizes
    <3> QED BY <1>t, <2>3, <3>1, <3>2 DEF WfPart
  <2> QED BY <2>6, <2>8 DEF s
<1> QED BY <1>1, <1>2

(* unpack as a whole: bytes are neither lost nor read twice, and it goes   *)
(* on to the next frame exactly when this one is complete.                 *)
LEMMA WfUnpackStep ==
  ASSUME NEW f \in WfFrameType, NEW n \in Nat \ {0}, NEW r, r.len \in Nat, r.masked \in BOOLEAN,
         WfPhase(f, r), WfTooLong \in Nat, WfPart(f) + n < WfTooLong
  PROVE  LET s == WfUnpack(f, n, r)
         IN /\ WfStep(s, f, n)
            /\ s.stop => s.n = 0 /\ WfPhase(s.f, r)
            /\ ~s.stop => s.f.payload = r.len /\ WfPart(s.f) = WfPack(r)
<1> DEFINE s1 == WfHead([f |-> f, n |-> n], r)
           s2 == WfLength(s1, r)
           s3 == WfMaskKey(s2)
           s4 == WfPayload(s3)
<1>0. WfUnpack(f, n, r) = s4
  BY DEF WfUnpack
<1>1. /\ WfStep(s1, f, n)
      /\ s1.stop => s1.n = 0 /\ WfOne(s1.f)
      /\ ~s1.stop => \/ WfInHeader(s1.f, r)
                     \/ WfInBody(s1.f, r) /\ (s1.n > 0 \/ WfHeader(r) = 2)
                     \/ WfLost(s1.f, r)
  BY WfHeadStep
<1> HIDE DEF s1
<1>2. /\ WfStep(s2, f, n)
      /\ s2.stop => s2.n = 0 /\ WfPhase(s2.f, r)
      /\ ~s2.stop => WfInBody(s2.f, r) \/ (WfLost(s2.f, r) /\ s2.f.chopped = 10)
  <2>1. CASE s1.stop
    <3>1. s2 = s1
      BY <2>1 DEF WfLength
    <3> HIDE DEF s2
    <3> QED BY <1>1, <2>1, <3>1 DEF WfPhase
  <2>2. CASE ~s1.stop
    <3> DEFINE g == s1.f
               m == s1.n
    <3>1. s1 = [f |-> g, n |-> m, stop |-> FALSE] /\ g \in WfFrameType /\ m \in Nat /\ WfPart(g) + m = WfPart(f) + n
      BY <1>1, <2>2 DEF WfStep
    <3>2. \/ WfInHeader(g, r)
          \/ WfInBody(g, r) /\ (m > 0 \/ WfHeader(r) = 2)
          \/ WfLost(g, r)
      BY <1>1, <2>2
    <3> HIDE DEF g, m
    <3>3. /\ WfStep(s2, g, m)
          /\ s2.stop => s2.n = 0 /\ (WfInHeader(s2.f, r) \/ WfLost(s2.f, r))
          /\ ~s2.stop => WfInBody(s2.f, r) \/ (WfLost(s2.f, r) /\ s2.f.chopped = 10)
      BY <3>1, <3>2, WfLengthStep
    <3> HIDE DEF s2
    <3> QED BY <3>1, <3>3 DEF WfStep, WfPhase
  <2> QED BY <2>1, <2>2
<1> HIDE DEF s2
<1>3. /\ WfStep(s3, f, n)
      /\ s3.stop => s3.n = 0 /\ WfPhase(s3.f, r)
      /\ ~s3.stop => /\ WfInBody(s3.f, r) \/ (WfLost(s3.f, r) /\ s3.f.chopped = 10)
                     /\ s3.f.masked => s3.f.key = 4
  <2>1. CASE s2.stop
    <3>1. s3 = s2
      BY <2>1 DEF WfMaskKey
    <3> HIDE DEF s3
    <3> QED BY <1>2, <2>1, <3>1
  <2>2. CASE ~s2.stop
    <3> DEFINE g == s2.f
               m == s2.n
    <3>1. s2 = [f |-> g, n |-> m, stop |-> FALSE] /\ g \in WfFrameType /\ m \in Nat /\ WfPart(g) + m = WfPart(f) + n
      BY <1>2, <2>2 DEF WfStep
    <3>2. WfInBody(g, r) \/ (WfLost(g, r) /\ g.chopped = 10)
      BY <1>2, <2>2
    <3> HIDE DEF g, m
    <3>3. /\ WfStep(s3, g, m)
          /\ s3.stop => s3.n = 0 /\ WfPhase(s3.f, r)
          /\ ~s3.stop => /\ WfInBody(s3.f, r) \/ (WfLost(s3.f, r) /\ s3.f.chopped = 10)
                         /\ s3.f.masked => s3.f.key = 4
      BY <3>1, <3>2, WfMaskStep
    <3> HIDE DEF s3
    <3> QED BY <3>1, <3>3 DEF WfStep
  <2> QED BY <2>1, <2>2
<1> HIDE DEF s3
<1>4. /\ WfStep(s4, f, n)
      /\ s4.stop => s4.n = 0 /\ WfPhase(s4.f, r)
      /\ ~s4.stop => s4.f.payload = r.len /\ WfPart(s4.f) = WfPack(r)
  <2>1. CASE s3.stop
    <3>1. s4 = s3
      BY <2>1 DEF WfPayload
    <3> HIDE DEF s4
    <3> QED BY <1>3, <2>1, <3>1
  <2>2. CASE ~s3.stop
    <3> DEFINE g == s3.f
               m == s3.n
    <3>1. s3 = [f |-> g, n |-> m, stop |-> FALSE] /\ g \in WfFrameType /\ m \in Nat /\ WfPart(g) + m = WfPart(f) + n
      BY <1>3, <2>2 DEF WfStep
    <3>2. /\ WfInBody(g, r) \/ (WfLost(g, r) /\ g.chopped = 10)
          /\ g.masked => g.key = 4
      BY <1>3, <2>2
    <3> HIDE DEF g, m
    <3>4. WfPart(g) + m < WfTooLong
      BY <3>1
    <3>3. /\ WfStep(s4, g, m)
          /\ s4.stop => s4.n = 0 /\ WfPhase(s4.f, r)
          /\ ~s4.stop => s4.f.payload = r.len /\ WfPart(s4.f) = WfPack(r)
      BY <3>1, <3>2, <3>4, WfPayloadStep
    <3> HIDE DEF s4
    <3> QED BY <3>1, <3>3 DEF WfStep
  <2> QED BY <2>1, <2>2
<1> QED BY <1>0, <1>4

-----------------------------------------------------------------------------
WfTypes == /\ wfSent \in Seq(WfSentType) /\ wfLeft \in Nat /\ wfPackets \in Nat /\ wfPacket \in Nat
           /\ wfFrame \in WfFrameType /\ wfOut \in Seq(Nat)

\* Where the frames end.
WfEnds == /\ \A i \in 1..Len(wfSent) : wfSent[i].end = WfBytes(i - 1) + WfPack(wfSent[i])
          /\ \A i, j \in 1..Len(wfSent) : i < j => wfSent[i].end < wfSent[j].end

\* What was decoded, and how far: every byte is in a frame decoded, in the frame under
\* construction, in the packet or not received.
WfOuts == /\ Len(wfOut) <= Len(wfSent)
          /\ \A i \in 1..Len(wfOut) : wfOut[i] = wfSent[i].len
          /\ wfLeft + wfPacket + WfBytes(Len(wfOut)) + WfPart(wfFrame) = WfBytes(Len(wfSent))
          /\ Len(wfOut) < Len(wfSent) => WfPhase(wfFrame, wfSent[Len(wfOut) + 1])
          /\ Len(wfOut) = Len(wfSent) => wfFrame = WfNew
          /\ wfPackets = 0 => wfPacket = 0 /\ wfOut = <<>> /\ wfFrame = WfNew

WfInv == WfTypes /\ WfEnds /\ WfOuts

(* No packet, no frame.                                                    *)
LEMMA WfInitInv == WfInit => WfInv
<1> SUFFICES ASSUME WfInit PROVE WfInv
  OBVIOUS
<1>1. WfNew \in WfFrameType /\ WfPart(WfNew) = 0
  BY DEF WfNew, WfFrameType, WfPart
<1>2. WfTypes
  BY <1>1 DEF WfInit, WfTypes
<1>3. WfEnds
  BY DEF WfInit, WfEnds
<1>4. WfOuts
  BY <1>1 DEF WfInit, WfOuts, WfBytes
<1> QED BY <1>2, <1>3, <1>4 DEF WfInv

(* The positions are numbers.                                              *)
LEMMA WfBytesType == ASSUME WfTypes, NEW k \in 0..Len(wfSent) PROVE WfBytes(k) \in Nat
<1>1. CASE k = 0
  BY <1>1 DEF WfBytes
<1>2. CASE k # 0
  <2>1. wfSent[k] \in WfSentType
    BY <1>2 DEF WfTypes
  <2> QED BY <1>2, <2>1 DEF WfBytes, WfSentType
<1> QED BY <1>1, <1>2

(* One more frame at the end of the stream.                                *)
LEMMA WfSendInv == WfInv /\ WfSend => WfInv'
<1> SUFFICES ASSUME WfInv, WfSend PROVE WfInv'
  OBVIOUS
<1>0. WfTypes /\ WfEnds /\ WfOuts
  BY DEF WfInv
<1>1. PICK n \in WfLens, masked \in BOOLEAN :
        LET q == [len |-> n, masked |-> masked, end |-> wfLeft + WfPack([len |-> n, masked |-> masked])]
        IN /\ wfPackets = 0 /\ wfSent' = Append(wfSent, q) /\ wfLeft' = q.end
           /\ UNCHANGED <<wfPackets, wfPacket, wfFrame, wfOut>>
  BY DEF WfSend
<1> DEFINE p == [len |-> n, masked |-> masked]
           x == wfLeft + WfPack(p)
           f == [len |-> n, masked |-> masked, end |-> x]
<1>k. PICK k \in Nat : k = Len(wfSent)
  BY <1>0 DEF WfTypes
<1>2. WfPack(p) \in Nat /\ WfPack(p) > 1 /\ n \in Nat
  <2>1. p.len \in Nat /\ p.masked \in BOOLEAN /\ n \in Nat
    BY WfAssumption
  <2> QED BY <2>1, WfSizes
<1>3. WfPack(f) = WfPack(p)
  BY DEF WfPack
<1>4. x \in Nat /\ f \in WfSentType /\ f.end = x /\ f.len = n /\ wfLeft \in Nat
  <2>1. wfLeft \in Nat
    BY <1>0 DEF WfTypes
  <2>2. x \in Nat
    BY <1>2, <2>1
  <2> HIDE DEF x
  <2> QED BY <1>2, <2>1, <2>2 DEF WfSentType
<1>5. /\ wfSent' = Append(wfSent, f) /\ wfLeft' = x /\ wfPackets = 0
      /\ wfPackets' = wfPackets /\ wfPacket' = wfPacket /\ wfFrame' = wfFrame /\ wfOut' = wfOut
  BY <1>1, <1>4
<1> HIDE DEF f, x, p
<1>6. /\ wfSent' \in Seq(WfSentType) /\ Len(wfSent') = k + 1 /\ wfSent'[k + 1] = f /\ k \in Nat
      /\ \A i \in 1..k : wfSent'[i] = wfSent[i] /\ wfSent[i] \in WfSentType
  <2>1. wfSent \in Seq(WfSentType)
    BY <1>0 DEF WfTypes
  <2> QED BY <1>4, <1>5, <1>k, <2>1
<1>7. wfPacket = 0 /\ wfOut = <<>> /\ wfFrame = WfNew /\ wfLeft = WfBytes(k)
  <2>1. wfPacket = 0 /\ wfOut = <<>> /\ wfFrame = WfNew
    BY <1>0, <1>5 DEF WfOuts
  <2>2. WfPart(wfFrame) = 0 /\ WfBytes(Len(wfOut)) = 0
    BY <2>1 DEF WfPart, WfNew, WfBytes
  <2>3. wfLeft + 0 + 0 + 0 = WfBytes(k)
    BY <1>0, <1>k, <2>1, <2>2 DEF WfOuts
  <2> QED BY <1>4, <2>1, <2>3
<1>8. /\ \A i \in 0..k : WfBytes(i)' = WfBytes(i)
      /\ WfBytes(k + 1)' = x
  <2>1. ASSUME NEW i \in 0..k PROVE WfBytes(i)' = WfBytes(i)
    BY <1>6 DEF WfBytes
  <2>2. WfBytes(k + 1)' = wfSent'[k + 1].end
    BY DEF WfBytes
  <2> QED BY <1>4, <1>6, <2>1, <2>2
<1>9. x = WfBytes(k) + WfPack(f)
  BY <1>3, <1>7 DEF x
<1>10. WfTypes'
  BY <1>0, <1>4, <1>5, <1>6 DEF WfTypes
<1>11. WfEnds'
  <2>1. ASSUME NEW i \in 1..(k + 1) PROVE wfSent'[i].end = WfBytes(i - 1)' + WfPack(wfSent'[i])
    <3>1. CASE i \in 1..k
      <4>1. wfSent[i].end = WfBytes(i - 1) + WfPack(wfSent[i]) /\ i - 1 \in 0..k
        BY <1>0, <1>6, <1>k, <3>1 DEF WfEnds
      <4> QED BY <1>6, <1>8, <3>1, <4>1
    <3>2. CASE i = k + 1
      <4>1. i - 1 = k /\ k \in 0..k
        BY <1>6, <3>2
      <4> QED BY <1>4, <1>6, <1>8, <1>9, <3>2, <4>1
    <3> QED BY <1>6, <3>1, <3>2
  <2>2. ASSUME NEW i \in 1..(k + 1), NEW j \in 1..(k + 1), i < j PROVE wfSent'[i].end < wfSent'[j].end
    <3>1. CASE j \in 1..k
      BY <1>0, <1>6, <1>k, <2>2, <3>1 DEF WfEnds
    <3>2. CASE j = k + 1
      <4>1. i \in 1..k /\ k # 0 /\ k \in 1..k
        BY <1>6, <2>2, <3>2
      <4>2. WfBytes(k) = wfSent[k].end
        BY <4>1 DEF WfBytes
      <4>3. wfSent[i].end <= wfSent[k].end
        <5>1. CASE i = k
          BY <1>6, <4>1, <5>1 DEF WfSentType
        <5>2. CASE i # k
          <6>1. i \in 1..Len(wfSent) /\ k \in 1..Len(wfSent) /\ i < k
            BY <1>k, <4>1, <5>2
          <6>2. wfSent[i].end < wfSent[k].end
            BY <1>0, <6>1 DEF WfEnds
          <6> QED BY <1>6, <4>1, <6>2 DEF WfSentType
        <5> QED BY <5>1, <5>2
      <4>4. wfSent[i].end \in Nat /\ wfSent[k].end \in Nat
        BY <1>6, <4>1 DEF WfSentType
      <4>5. wfSent'[i].end = wfSent[i].end /\ wfSent'[j].end = x
        BY <1>4, <1>6, <3>2, <4>1
      <4>6. x = wfSent[k].end + WfPack(p)
        BY <1>3, <1>9, <4>2
      <4> QED BY <1>2, <4>3, <4>4, <4>5, <4>6
    <3> QED BY <1>6, <3>1, <3>2
  <2> QED BY <1>6, <2>1, <2>2 DEF WfEnds
<1>12. WfOuts'
  <2>1. /\ Len(wfOut) = 0 /\ Len(wfOut)' = 0 /\ Len(wfSent)' = k + 1 /\ k + 1 > 0
        /\ WfBytes(0)' = 0 /\ WfPart(wfFrame)' = 0
    BY <1>5, <1>6, <1>7 DEF WfBytes, WfPart, WfNew
  <2>2. wfLeft' + wfPacket' + 0 + 0 = WfBytes(k + 1)'
    BY <1>4, <1>5, <1>7, <1>8
  <2>3. WfPhase(wfFrame, wfSent[Len(wfOut) + 1])'
    BY <1>5, <1>7 DEF WfPhase
  <2>4. wfLeft' + wfPacket' + WfBytes(Len(wfOut))' + WfPart(wfFrame)' = WfBytes(Len(wfSent))'
    <3>1. WfBytes(Len(wfOut))' = 0 /\ WfBytes(Len(wfSent))' = WfBytes(k + 1)'
      BY <1>6, <2>1 DEF WfBytes
    <3> QED BY <2>1, <2>2, <3>1
  <2>5. /\ Len(wfOut)' <= Len(wfSent)' /\ Len(wfOut)' # Len(wfSent)'
        /\ \A i \in 1..Len(wfOut)' : wfOut'[i] = wfSent'[i].len
    BY <2>1
  <2> QED BY <1>5, <1>7, <2>3, <2>4, <2>5 DEF WfOuts
<1> QED BY <1>10, <1>11, <1>12 DEF WfInv

(* A packet arrives.                                                       *)
LEMMA WfRecvInv == WfInv /\ WfRecv => WfInv'
<1> SUFFICES ASSUME WfInv, WfRecv PROVE WfInv'
  OBVIOUS
<1>0. WfTypes /\ WfEnds /\ WfOuts
  BY DEF WfInv
<1>1. PICK n \in WfCuts \cup {wfLeft, wfLeft - 1} :
        /\ wfPacket = 0 /\ n > 0 /\ n <= wfLeft
        /\ wfPacket' = n /\ wfLeft' = wfLeft - n /\ wfPackets' = wfPackets + 1
        /\ UNCHANGED <<wfSent, wfFrame, wfOut>>
  BY DEF WfRecv
<1>2. n \in Nat /\ wfLeft \in Nat /\ wfPackets \in Nat
  <2>1. wfLeft \in Nat /\ wfPackets \in Nat
    BY <1>0 DEF WfTypes
  <2> QED BY <1>1, <2>1, WfAssumption
<1>3. WfTypes'
  BY <1>0, <1>1, <1>2 DEF WfTypes
<1>4. WfEnds'
  BY <1>0, <1>1 DEF WfEnds, WfBytes
<1>5. WfOuts'
  <2>1. /\ WfBytes(Len(wfOut))' = WfBytes(Len(wfOut)) /\ WfBytes(Len(wfSent))' = WfBytes(Len(wfSent))
        /\ WfPart(wfFrame)' = WfPart(wfFrame)
    BY <1>1 DEF WfBytes, WfPart
  <2>2. wfLeft' + wfPacket' = wfLeft + wfPacket /\ wfPackets' # 0
    BY <1>1, <1>2
  <2>3. wfLeft' + wfPacket' + WfBytes(Len(wfOut))' + WfPart(wfFrame)' = WfBytes(Len(wfSent))'
    BY <1>0, <2>1, <2>2 DEF WfOuts
  <2>4. WfPhase(wfFrame, wfSent[Len(wfOut) + 1])' <=> WfPhase(wfFrame, wfSent[Len(wfOut) + 1])
    BY <1>1, Zenon DEF WfPhase, WfLost, WfTooLong, WfBytes, WfOne, WfInHeader, WfInBody, WfHeader, WfPart, WfPack
  <2> QED BY <1>0, <1>1, <2>2, <2>3, <2>4 DEF WfOuts
<1> QED BY <1>3, <1>4, <1>5 DEF WfInv

(* One frame is unpacked, or what the packet has of it.                    *)
LEMMA WfUnpackInv == WfInv /\ WfUnpackOne => WfInv'
<1> SUFFICES ASSUME WfInv, WfUnpackOne PROVE WfInv'
  OBVIOUS
<1>0. WfTypes /\ WfEnds /\ WfOuts
  BY DEF WfInv
<1>t. /\ wfSent \in Seq(WfSentType) /\ wfLeft \in Nat /\ wfPacket \in Nat /\ wfPackets \in Nat
      /\ wfFrame \in WfFrameType /\ wfOut \in Seq(Nat)
  BY <1>0 DEF WfTypes
<1>k. PICK k \in Nat : k = Len(wfOut)
  BY <1>t
<1>m. PICK m \in Nat : m = Len(wfSent)
  BY <1>t
<1>p. PICK p \in Nat : p = WfPart(wfFrame)
  <2>1. wfFrame.chopped \in Nat /\ wfFrame.key \in Nat /\ wfFrame.payload \in Nat
    BY <1>t DEF WfFrameType
  <2>2. WfPart(wfFrame) \in Nat
    BY <2>1 DEF WfPart
  <2> QED BY <2>2
<1>1. wfPacket > 0 /\ wfPacket \in Nat \ {0}
  BY <1>t DEF WfUnpackOne
<1>b. WfBytes(k) \in Nat /\ WfBytes(m) \in Nat /\ k <= m /\ wfLeft + wfPacket + WfBytes(k) + p = WfBytes(m)
  <2>1. k <= m /\ wfLeft + wfPacket + WfBytes(k) + p = WfBytes(m)
    BY <1>0, <1>k, <1>m, <1>p DEF WfOuts
  <2>2. k \in 0..Len(wfSent) /\ m \in 0..Len(wfSent)
    BY <1>m, <2>1
  <2> QED BY <1>0, <2>1, <2>2, WfBytesType
<1>2. k < m
  <2>1. CASE k = m
    BY <1>1, <1>b, <1>t, <2>1
  <2> QED BY <1>b, <2>1
<1>r. PICK r \in WfSentType : r = wfSent[k + 1]
  BY <1>2, <1>m, <1>t
<1>3. r.len \in Nat /\ r.masked \in BOOLEAN /\ WfPhase(wfFrame, r)
  <2>1. WfPhase(wfFrame, wfSent[Len(wfOut) + 1])
    BY <1>0, <1>2, <1>k, <1>m DEF WfOuts
  <2> QED BY <1>k, <1>r, <2>1 DEF WfSentType
<1> DEFINE s == WfUnpack(wfFrame, wfPacket, r)
<1>4. /\ wfPacket' = s.n
      /\ wfFrame' = IF s.stop THEN s.f ELSE WfNew
      /\ wfOut' = IF s.stop THEN wfOut ELSE Append(wfOut, s.f.payload)
      /\ wfSent' = wfSent /\ wfLeft' = wfLeft /\ wfPackets' = wfPackets
  <2>1. r = IF Len(wfOut) < Len(wfSent) THEN wfSent[Len(wfOut) + 1] ELSE [len |-> 0, masked |-> FALSE]
    BY <1>2, <1>k, <1>m, <1>r, Zenon
  <2> HIDE DEF s
  <2> QED BY <2>1, Zenon DEF WfUnpackOne, s
<1>5. WfTooLong \in Nat /\ WfPart(wfFrame) + wfPacket < WfTooLong
  <2>1. WfTooLong = WfBytes(m) + 1
    BY <1>m DEF WfTooLong
  <2>2. p + wfPacket < WfBytes(m) + 1 /\ WfBytes(m) + 1 \in Nat
    BY <1>b, <1>t
  <2> QED BY <1>p, <2>1, <2>2
<1>6. /\ WfStep(s, wfFrame, wfPacket)
      /\ s.stop => s.n = 0 /\ WfPhase(s.f, r)
      /\ ~s.stop => s.f.payload = r.len /\ WfPart(s.f) = WfPack(r)
  <2> HIDE DEF s
  <2> QED BY <1>1, <1>3, <1>5, <1>t, WfUnpackStep DEF s
<1> HIDE DEF s
<1>7. s.f \in WfFrameType /\ s.n \in Nat /\ WfPart(s.f) + s.n = p + wfPacket
  BY <1>6, <1>p DEF WfStep
<1>8. \A i \in Nat : WfBytes(i)' = WfBytes(i)
  BY <1>4 DEF WfBytes
<1>9. WfEnds'
  BY <1>0, <1>4 DEF WfEnds, WfBytes
<1>10. wfPackets' # 0
  <2>1. wfPackets # 0
    BY <1>0, <1>1 DEF WfOuts
  <2> QED BY <1>4, <2>1
<1>11. CASE s.stop
  <2>1. wfFrame' = s.f /\ wfOut' = wfOut /\ wfPacket' = 0
    BY <1>4, <1>6, <1>11
  <2>2. WfTypes'
    BY <1>4, <1>7, <1>t, <2>1 DEF WfTypes
  <2>3. WfPart(wfFrame)' = WfPart(s.f)
    BY <2>1 DEF WfPart
  <2>4. WfPart(s.f) = p + wfPacket
    <3>1. WfPart(s.f) \in Int
      BY <1>7 DEF WfPart, WfFrameType
    <3>2. s.n = 0
      BY <1>6, <1>11
    <3> QED BY <1>7, <3>1, <3>2
  <2>5. wfLeft' + wfPacket' + WfBytes(Len(wfOut))' + WfPart(wfFrame)' = WfBytes(Len(wfSent))'
    <3>1. WfBytes(Len(wfOut))' = WfBytes(k) /\ WfBytes(Len(wfSent))' = WfBytes(m)
      BY <1>4, <1>k, <1>m, <2>1 DEF WfBytes
    <3> QED BY <1>4, <1>b, <1>t, <2>1, <2>3, <2>4, <3>1
  <2>6. WfPhase(wfFrame, wfSent[Len(wfOut) + 1])'
    <3>1. WfPhase(s.f, r)
      BY <1>6, <1>11
    <3>2. wfSent'[Len(wfOut') + 1] = r
      BY <1>4, <1>k, <1>r, <2>1
    <3>3. WfTooLong' = WfTooLong
      BY <1>4 DEF WfTooLong, WfBytes
    <3> QED BY <2>1, <3>1, <3>2, <3>3, Zenon DEF WfPhase, WfLost, WfOne, WfInHeader, WfInBody, WfHeader, WfPart, WfPack
  <2>7. /\ Len(wfOut)' <= Len(wfSent)' /\ Len(wfOut)' # Len(wfSent)'
        /\ \A i \in 1..Len(wfOut)' : wfOut'[i] = wfSent'[i].len
    <3>1. \A i \in 1..Len(wfOut) : wfOut[i] = wfSent[i].len
      BY <1>0 DEF WfOuts
    <3> QED BY <1>2, <1>4, <1>k, <1>m, <2>1, <3>1
  <2>8. WfOuts'
    BY <1>10, <2>5, <2>6, <2>7 DEF WfOuts
  <2> QED BY <1>9, <2>2, <2>8 DEF WfInv
<1>12. CASE ~s.stop
  <2>1. wfFrame' = WfNew /\ wfOut' = Append(wfOut, r.len) /\ wfPacket' = s.n
    BY <1>4, <1>6, <1>12
  <2>2. WfTypes'
    <3>1. WfNew \in WfFrameType
      BY DEF WfNew, WfFrameType
    <3>2. wfOut' \in Seq(Nat)
      BY <1>3, <1>t, <2>1
    <3> QED BY <1>4, <1>7, <1>t, <2>1, <3>1, <3>2 DEF WfTypes
  <2>3. /\ Len(wfOut') = k + 1 /\ wfOut'[k + 1] = r.len
        /\ \A i \in 1..k : wfOut'[i] = wfOut[i]
    BY <1>k, <1>t, <2>1
  <2>4. WfPart(wfFrame)' = 0
    BY <2>1 DEF WfPart, WfNew
  <2>5. WfBytes(k + 1) = WfBytes(k) + WfPack(r)
    <3>1. k + 1 \in 1..Len(wfSent) /\ (k + 1) - 1 = k
      BY <1>2, <1>m
    <3>2. WfBytes(k + 1) = r.end
      BY <1>r DEF WfBytes
    <3>3. r.end = WfBytes((k + 1) - 1) + WfPack(r)
      BY <1>0, <1>r, <3>1 DEF WfEnds
    <3> QED BY <3>1, <3>2, <3>3
  <2>6. WfPack(r) \in Nat /\ WfPack(r) + s.n = p + wfPacket
    BY <1>3, <1>6, <1>7, <1>12, WfSizes
  <2>7. wfLeft' + wfPacket' + WfBytes(Len(wfOut))' + WfPart(wfFrame)' = WfBytes(Len(wfSent))'
    <3>1. WfBytes(Len(wfOut))' = WfBytes(k + 1) /\ WfBytes(Len(wfSent))' = WfBytes(m)
      BY <1>4, <1>m, <2>3 DEF WfBytes
    <3>2. wfLeft + s.n + (WfBytes(k) + WfPack(r)) + 0 = WfBytes(m)
      <4>2. /\ wfLeft \in Int /\ wfPacket \in Int /\ WfBytes(k) \in Int /\ p \in Int /\ s.n \in Int
            /\ WfPack(r) \in Int /\ WfBytes(m) \in Int
        BY <1>7, <1>b, <1>t, <2>6
      <4>3. wfLeft + wfPacket + WfBytes(k) + p = WfBytes(m) /\ WfPack(r) + s.n = p + wfPacket
        BY <1>b, <2>6
      <4>4. PICK B \in Int : B = WfBytes(k)
        BY <4>2
      <4>5. PICK M \in Int : M = WfBytes(m)
        BY <4>2
      <4>6. PICK P \in Int : P = WfPack(r)
        BY <4>2
      <4>7. PICK x \in Int : x = s.n
        BY <4>2
      <4>8. wfLeft + wfPacket + B + p = M /\ P + x = p + wfPacket
        BY <4>3, <4>4, <4>5, <4>6, <4>7
      <4>9. wfLeft + x + (B + P) + 0 = M
        BY <4>2, <4>8
      <4> QED BY <4>4, <4>5, <4>6, <4>7, <4>9
    <3> QED BY <1>4, <2>1, <2>4, <2>5, <3>1, <3>2
  <2>8. WfPhase(wfFrame, wfSent[Len(wfOut) + 1])'
    BY <2>1 DEF WfPhase
  <2>9. /\ Len(wfOut)' <= Len(wfSent)'
        /\ \A i \in 1..Len(wfOut)' : wfOut'[i] = wfSent'[i].len
    <3>1. \A i \in 1..k : wfOut[i] = wfSent[i].len
      BY <1>0, <1>k DEF WfOuts
    <3> QED BY <1>2, <1>4, <1>m, <1>r, <2>3, <3>1
  <2>10. WfOuts'
    BY <1>10, <2>1, <2>7, <2>8, <2>9 DEF WfOuts
  <2> QED BY <1>9, <2>2, <2>10 DEF WfInv
<1> QED BY <1>11, <1>12

(* Between two packets: what is left of a frame is less than the frame.    *)
LEMMA WfInvExact == WfInv => WfExact /\ WfTypeOK
<1> SUFFICES ASSUME WfInv PROVE WfExact /\ WfTypeOK
  OBVIOUS
<1>0. WfTypes /\ WfEnds /\ WfOuts
  BY DEF WfInv
<1>t. /\ wfSent \in Seq(WfSentType) /\ wfLeft \in Nat /\ wfPacket \in Nat
      /\ wfFrame \in WfFrameType /\ wfOut \in Seq(Nat)
  BY <1>0 DEF WfTypes
<1>1. WfTypeOK
  BY <1>0, <1>t DEF WfTypeOK, WfFrameType, WfOuts
<1>k. PICK k \in Nat : k = Len(wfOut)
  BY <1>t
<1>m. PICK m \in Nat : m = Len(wfSent)
  BY <1>t
<1>p. PICK p \in Nat : p = WfPart(wfFrame)
  <2>1. wfFrame.chopped \in Nat /\ wfFrame.key \in Nat /\ wfFrame.payload \in Nat
    BY <1>t DEF WfFrameType
  <2>2. WfPart(wfFrame) \in Nat
    BY <2>1 DEF WfPart
  <2> QED BY <2>2
<1>b. /\ k <= m /\ wfLeft + wfPacket + WfBytes(k) + p = WfBytes(m)
      /\ \A i \in 0..m : WfBytes(i) \in Nat
  BY <1>0, <1>k, <1>m, <1>p, WfBytesType DEF WfOuts
<1>2. \A i \in DOMAIN wfOut : i \in DOMAIN wfSent /\ wfOut[i] = wfSent[i].len
  <2>1. \A i \in 1..Len(wfOut) : wfOut[i] = wfSent[i].len
    BY <1>0 DEF WfOuts
  <2>2. DOMAIN wfOut = 1..k /\ DOMAIN wfSent = 1..m
    BY <1>k, <1>m, <1>t
  <2> QED BY <1>b, <1>k, <2>1, <2>2
<1> DEFINE got == WfBytes(Len(wfSent)) - wfLeft
           full == {i \in 0..Len(wfSent) : WfBytes(i) <= got}
<1>3. ASSUME wfPacket = 0, \A i \in DOMAIN wfSent : wfSent[i].len # frameLargePayload
      PROVE  Len(wfOut) = CHOOSE i \in full : \A j \in full : j <= i
  <2>1. got = WfBytes(k) + p
    BY <1>3, <1>b, <1>m, <1>t
  <2>2. k \in full
    BY <1>b, <1>m, <2>1
  <2>3. ASSUME NEW j \in full PROVE j <= k
    <3> SUFFICES ASSUME j > k PROVE FALSE
      BY <1>m, <1>k
    <3>0. j \in 0..m /\ WfBytes(j) <= WfBytes(k) + p /\ j \in 1..m /\ k + 1 \in 1..m /\ k < m
      BY <1>m, <2>1
    <3>1. PICK r \in WfSentType : r = wfSent[k + 1]
      BY <1>m, <1>t, <3>0
    <3>2. WfPhase(wfFrame, r) /\ r.len # 127 /\ r.len \in Nat /\ r.masked \in BOOLEAN
      <4>1. WfPhase(wfFrame, r)
        BY <1>0, <1>k, <1>m, <3>0, <3>1 DEF WfOuts
      <4>2. wfSent[k + 1].len # frameLargePayload
        BY <1>3, <1>m, <1>t, <3>0
      <4> QED BY <3>1, <4>1, <4>2 DEF WfSentType, frameLargePayload
    <3>3. p < WfPack(r) /\ WfPack(r) \in Nat
      <4>1. /\ WfHeader(r) \in {2, 4, 10} /\ WfPack(r) \in Nat /\ WfPack(r) > 1
            /\ WfPack(r) >= WfHeader(r)
        BY <3>2, WfSizes
      <4>2. CASE wfFrame = WfNew
        BY <1>p, <4>1, <4>2 DEF WfNew, WfPart
      <4>3. CASE WfOne(wfFrame)
        BY <1>p, <4>1, <4>3 DEF WfOne, WfPart
      <4>4. CASE WfInHeader(wfFrame, r)
        BY <1>p, <4>1, <4>4 DEF WfInHeader, WfPart
      <4>5. CASE WfInBody(wfFrame, r) /\ WfPart(wfFrame) < WfPack(r)
        BY <1>p, <4>1, <4>5
      <4>6. ~WfLost(wfFrame, r)
        BY <3>2 DEF WfLost, frameLargePayload
      <4> QED BY <3>2, <4>2, <4>3, <4>4, <4>5, <4>6 DEF WfPhase
    <3>4. WfBytes(k + 1) = WfBytes(k) + WfPack(r)
      <4>1. WfBytes(k + 1) = r.end /\ (k + 1) - 1 = k
        BY <3>1 DEF WfBytes
      <4>2. r.end = WfBytes((k + 1) - 1) + WfPack(r)
        BY <1>0, <1>m, <3>0, <3>1 DEF WfEnds
      <4> QED BY <4>1, <4>2
    <3>5. WfBytes(k + 1) <= WfBytes(j)
      <4>1. CASE j = k + 1
        BY <1>b, <3>0, <4>1
      <4>2. CASE j # k + 1
        <5>1. k + 1 < j
          BY <3>0, <4>2
        <5>2. wfSent[k + 1].end < wfSent[j].end
          BY <1>0, <1>m, <3>0, <5>1 DEF WfEnds
        <5>3. WfBytes(k + 1) = wfSent[k + 1].end /\ WfBytes(j) = wfSent[j].end
          BY <3>0 DEF WfBytes
        <5>4. WfBytes(k + 1) \in Nat /\ WfBytes(j) \in Nat
          BY <1>b, <3>0
        <5> QED BY <5>2, <5>3, <5>4
      <4> QED BY <4>1, <4>2
    <3>6. WfBytes(k) \in Nat /\ WfBytes(j) \in Nat /\ WfBytes(k + 1) \in Nat
      BY <1>b, <3>0
    <3> QED BY <3>0, <3>3, <3>4, <3>5, <3>6
  <2>4. \A i \in full : (\A j \in full : j <= i) => i = k
    <3> SUFFICES ASSUME NEW i \in full, \A j \in full : j <= i PROVE i = k
      OBVIOUS
    <3>1. i <= k /\ k <= i /\ i \in Int
      BY <1>m, <2>2, <2>3
    <3> QED BY <3>1
  <2> HIDE DEF full
  <2> QED BY <1>k, <2>2, <2>3, <2>4
<1>4. WfExact
  BY <1>2, <1>3 DEF WfExact
<1> QED BY <1>1, <1>4

(* Frames are decoded exactly, for every set of lengths, wherever the      *)
(* packets are cut and for every number of frames and packets.             *)
THEOREM FramesExact == WfSpec => [](WfExact /\ WfTypeOK)
<1>1. WfInit => WfInv
  BY WfInitInv
<1>2. WfInv /\ [WfNext]_wfVars => WfInv'
  <2>1. WfInv /\ UNCHANGED wfVars => WfInv'
    <3> SUFFICES ASSUME WfInv, UNCHANGED wfVars PROVE WfInv'
      OBVIOUS
    <3>1. /\ wfSent' = wfSent /\ wfLeft' = wfLeft /\ wfPackets' = wfPackets /\ wfPacket' = wfPacket
          /\ wfFrame' = wfFrame /\ wfOut' = wfOut
      BY DEF wfVars
    <3> QED BY <3>1, Zenon DEF WfInv, WfTypes, WfEnds, WfOuts, WfPhase, WfLost, WfTooLong, WfBytes
  <2> QED BY <2>1, WfSendInv, WfRecvInv, WfUnpackInv DEF WfNext
<1>3. WfInv => WfExact /\ WfTypeOK
  BY WfInvExact
<1> QED BY <1>1, <1>2, <1>3, PTL DEF WfSpec

-----------------------------------------------------------------------------
(* Streams of pieces, for the server: G is the set of the frames that one  *)
(* connection's client sent, no is the frame that is none.                 *)

\* The frame of which the piece before the i-th of a stream is the head; held is the one the
\* stream begins in.
StBefore(Q, no, held, i) == IF i = 1 THEN held ELSE IF Q[i - 1].part = "head" THEN Q[i - 1].f ELSE no

StPieceSound(Q, G, no, held, low, sent, i) ==
  /\ Q[i].f \in G /\ Q[i].f.n \in (low + 1)..sent
  /\ Q[i].part = "tail" => Q[i].f = StBefore(Q, no, held, i)
  /\ Q[i].part # "tail" => StBefore(Q, no, held, i) = no

\* A stream of pieces that the client sent, after frame low and up to frame sent: every tail
\* follows its own head, the frames are in order, half is the one it ends in.
StChain(Q, G, no, held, half, low, sent) ==
  /\ held # no => held \in G /\ held.n \in (low + 1)..sent
  /\ half # no => half \in G /\ half.n \in (low + 1)..sent
  /\ half = StBefore(Q, no, held, Len(Q) + 1)
  /\ \A i \in 1..Len(Q) : StPieceSound(Q, G, no, held, low, sent, i)
  /\ \A i, j \in 1..Len(Q) : i < j => Q[i].f.n < Q[j].f.n \/ (j = i + 1 /\ Q[j].part = "tail")

\* The fragments of one message, none after frame low; whole says that the last one is among them.
StMessage(fs, G, whole, low) ==
  /\ \A i \in 1..Len(fs) : /\ fs[i] \in G /\ fs[i].n <= low /\ (fs[i].op = "cont") = (i > 1)
                           /\ fs[i].fin = (whole /\ i = Len(fs))
  /\ \A i, j \in 1..Len(fs) : i < j => fs[i].n < fs[j].n

-----------------------------------------------------------------------------
(* The server.                                                             *)
WsFrameType == [op : WsOps \cup {"none"}, fin : BOOLEAN, gen : Nat, n : Nat, safe : BOOLEAN]
WsPieceType == [f : WsFrameType, part : {"whole", "head", "tail"}]
WsSockType == [open : BOOLEAN, gen : Nat, up : BOOLEAN, in : Seq(WsPieceType), half : WsFrameType, safe : BOOLEAN]

WsTypes ==
  /\ wsSock \in [WsFds -> WsSockType] /\ wsPoll \in [WsFds -> {"none", "armed", "fired"}]
  /\ wsAll \in Seq(WsFds) /\ wsConns \in [WsUids \ {0} -> Seq(WsFds)] /\ wsCtx \in [WsFds -> WsUids \cup {-1}]
  /\ wsFrame \in [WsFds -> WsFrameType] /\ wsFrames \in [WsFds -> Seq(WsFrameType)]
  /\ wsChan \in Seq(WsFds) /\ wsBatch \in Seq(WsFds) /\ wsPing \in Seq(WsFds) /\ wsHeld \in WsFds \cup {0}
  /\ wsPc \in [WsThreads -> {"idle", "register", "addRemove", "add", "frames", "remove", "close", "ping", "answer"}]
  /\ wsFd \in [WsThreads -> WsFds \cup {0}]
  /\ wsTodo \in Seq(WsPieceType) /\ wsClosing \in BOOLEAN /\ wsGens \in 0..WsMaxGen /\ wsSent \in Nat
  /\ wsGot \in [frags : Seq(WsFrameType), member : BOOLEAN] /\ wsStop \in {"run", "stopped", "panic"}

\* Where a goroutine has a connection, and what the reader has left to do.
WsTurns ==
  /\ wsPc["upgrader"] \in {"idle", "register", "addRemove", "add"}
  /\ wsPc["reader"] \in {"idle", "frames", "remove", "close"}
  /\ wsPc["pinger"] \in {"idle", "ping", "remove", "close"}
  /\ wsPc["text"] \in {"idle", "answer", "remove", "close"}
  /\ \A t \in WsThreads : /\ wsPc[t] = "idle" => wsFd[t] = 0
                          /\ wsPc[t] \notin {"idle", "ping"} => wsFd[t] \in WsFds
  /\ wsPc["reader"] = "idle" \/ wsClosing => wsTodo = <<>>
  /\ wsPc["reader"] \in {"idle", "frames"} => ~wsClosing

\* The upgrader adds a descriptor that the manager does not have.
WsAdding == wsPc["upgrader"] = "add" => wsCtx[wsFd["upgrader"]] = -1
WsManaged == WsManagerConsistent /\ WsAdding

\* Epoll knows an open descriptor that the upgrader has registered, and one that is not armed
\* is in the reader's hands or on its way out.
WsAttended(c) == \/ wsPoll[c] = "armed" \/ WsRemoving(c)
                 \/ Contains(wsBatch, c) \/ (wsFd["reader"] = c /\ wsPc["reader"] = "frames")
WsPolled(c) ==
  /\ ~wsSock[c].open => wsPoll[c] = "none"
  /\ /\ wsStop = "run" /\ wsSock[c].open /\ c # wsHeld /\ ~Contains(wsChan, c)
     /\ ~(wsFd["upgrader"] = c /\ wsPc["upgrader"] = "register")
     => wsPoll[c] # "none" /\ WsAttended(c)

\* The connection is on its way into the manager: in the accept loop, in chUpgrade or with the
\* upgrader, in one place at a time.
WsToken(c) == wsHeld = c \/ Contains(wsChan, c) \/ wsFd["upgrader"] = c
WsOneToken(c) ==
  /\ wsHeld = c => ~Contains(wsChan, c) /\ wsFd["upgrader"] # c
  /\ Contains(wsChan, c) => /\ wsFd["upgrader"] # c
                            /\ \A i, j \in 1..Len(wsChan) : wsChan[i] = c /\ wsChan[j] = c => i = j

\* Nobody but the upgrader has dealt with the connection, and no byte of it has come.
WsUntouched(c) ==
  /\ wsCtx[c] = -1 /\ wsFrame[c] = WsNone /\ wsFrames[c] = <<>> /\ wsSock[c].in = <<>> /\ wsSock[c].half = WsNone
  /\ ~Contains(wsPing, c) /\ wsFd["pinger"] # c /\ wsFd["text"] # c

WsFresh(c) == wsSock[c].gen = 0 =>
  WsUntouched(c) /\ ~wsSock[c].open /\ ~WsToken(c) /\ wsFd["reader"] # c /\ ~Contains(wsBatch, c)

\* A first connection that comes in: the reader may only have seen that it went again.
WsEntering(c) == wsSock[c].safe /\ WsToken(c) =>
  /\ WsUntouched(c) /\ WsOneToken(c)
  /\ wsFd["reader"] = c => wsClosing /\ ~wsSock[c].up
  /\ Contains(wsBatch, c) => ~wsSock[c].up

\* The client was added while it was being closed: it has gone, and left no byte.
WsLeaving(c) == wsSock[c].safe /\ wsCtx[c] # -1 /\ (\E t \in WsThreads : wsFd[t] = c /\ wsPc[t] = "close") =>
  /\ ~wsSock[c].up /\ wsSock[c].in = <<>> /\ wsSock[c].half = WsNone
  /\ wsFd["reader"] = c => wsTodo = <<>>

\* The frames on their way to the reader from the descriptor's connections.
WsPending(c, f) ==
  \/ f = wsSock[c].half \/ \E i \in 1..Len(wsSock[c].in) : wsSock[c].in[i].f = f
  \/ wsFd["reader"] = c /\ \E i \in 1..Len(wsTodo) : wsTodo[i].f = f
WsPendingSound(c) == \A f \in WsFrameType : WsPending(c, f) =>
  /\ f.gen <= wsGens
  /\ f.safe /\ f.gen = wsSock[c].gen => ~WsToken(c) /\ (wsCtx[c] # -1 => wsSock[c].safe)

WsStream(c) == (IF wsFd["reader"] = c THEN wsTodo ELSE <<>>) \o wsSock[c].in
WsOwn(c) == {f \in WsFrameType : f.gen = wsSock[c].gen}

\* A registered first connection whose bytes were all sent after the registration, and which the
\* reader is not about to remove: what the server holds of it, and what is on its way.
WsServed(c) == wsSock[c].safe /\ wsCtx[c] # -1 /\ ~(wsFd["reader"] = c /\ wsClosing)
WsReading(c) == WsServed(c) =>
  \E low \in 0..wsSent : /\ StMessage(wsFrames[c], WsOwn(c), FALSE, low)
                         /\ StChain(WsStream(c), WsOwn(c), WsNone, wsFrame[c], wsSock[c].half, low, wsSent)

WsConn(c) == /\ wsSock[c].gen <= wsGens /\ (wsSock[c].open => wsSock[c].gen > 0)
             /\ WsPolled(c) /\ WsFresh(c) /\ WsEntering(c) /\ WsLeaving(c) /\ WsPendingSound(c) /\ WsReading(c)

WsInv == WsTypes /\ WsTurns /\ WsManaged /\ (\A c \in WsFds : WsConn(c)) /\ WsReassembled

(* A piece at the end of a stream: a frame that the client begins.         *)
LEMMA StPushed == ASSUME NEW F, NEW G, NEW no, G \subseteq F, \A g \in G : g.n \in Nat, no \notin G,
                         NEW Q \in Seq([f : F, part : {"whole", "head", "tail"}]), NEW held, NEW low \in Nat, NEW sent \in Nat,
                         NEW f \in G, NEW p \in {"whole", "head"},
                         StChain(Q, G, no, held, no, low, sent), low <= sent, f.n = sent + 1
                  PROVE  StChain(Append(Q, [f |-> f, part |-> p]), G, no, held, IF p = "whole" THEN no ELSE f, low, sent + 1)
<1> DEFINE P == [f : F, part : {"whole", "head", "tail"}]
           x == [f |-> f, part |-> p]
           R == Append(Q, x)
           half == IF p = "whole" THEN no ELSE f
<1>0. x \in P /\ x.f = f /\ x.part = p
  OBVIOUS
<1>q. Q \in Seq(P)
  OBVIOUS
<1> HIDE DEF x, P
<1>1. /\ R \in Seq(P) /\ Len(R) = Len(Q) + 1 /\ R[Len(Q) + 1] = x /\ Len(Q) \in Nat
      /\ \A i \in 1..Len(Q) : R[i] = Q[i] /\ Q[i] \in P
  BY <1>0, <1>q
<1>2. \A i \in 1..Len(Q) + 1 : StBefore(R, no, held, i) = StBefore(Q, no, held, i)
  BY <1>1 DEF StBefore
<1>3. StBefore(Q, no, held, Len(Q) + 1) = no
  BY DEF StChain
<1> HIDE DEF R
<1>5. \A i \in 1..Len(R) : StPieceSound(R, G, no, held, low, sent + 1, i)
  <2> SUFFICES ASSUME NEW i \in 1..Len(R)
               PROVE  StPieceSound(R, G, no, held, low, sent + 1, i)
    OBVIOUS
  <2>1. CASE i \in 1..Len(Q)
    <3>1. /\ Q[i].f \in G /\ Q[i].f.n \in (low + 1)..sent
          /\ Q[i].part = "tail" => Q[i].f = StBefore(Q, no, held, i)
          /\ Q[i].part # "tail" => StBefore(Q, no, held, i) = no
      BY <2>1 DEF StChain, StPieceSound
    <3>2. R[i] = Q[i] /\ StBefore(R, no, held, i) = StBefore(Q, no, held, i)
      BY <1>1, <1>2, <2>1
    <3> QED BY <3>1, <3>2 DEF StPieceSound
  <2>2. CASE i = Len(Q) + 1
    BY <1>0, <1>1, <1>2, <1>3, <2>2 DEF StPieceSound
  <2> QED BY <1>1, <2>1, <2>2
<1>6. \A i, j \in 1..Len(R) : i < j => R[i].f.n < R[j].f.n \/ (j = i + 1 /\ R[j].part = "tail")
  <2> SUFFICES ASSUME NEW i \in 1..Len(R), NEW j \in 1..Len(R), i < j
               PROVE  R[i].f.n < R[j].f.n \/ (j = i + 1 /\ R[j].part = "tail")
    OBVIOUS
  <2>1. i \in 1..Len(Q) /\ R[i] = Q[i] /\ Q[i].f.n \in (low + 1)..sent
    BY <1>1 DEF StChain, StPieceSound
  <2>2. CASE j \in 1..Len(Q)
    BY <1>1, <2>1, <2>2 DEF StChain
  <2>3. CASE j = Len(Q) + 1
    BY <1>0, <1>1, <2>1, <2>3, SMTT(60)
  <2>4. j \in 1..Len(Q) \/ j = Len(Q) + 1
    BY <1>1, SMTT(60)
  <2> QED BY <2>2, <2>3, <2>4
<1>7. StBefore(R, no, held, Len(R) + 1) = half
  BY <1>0, <1>1 DEF StBefore
<1>8. held # no => held \in G /\ held.n \in (low + 1)..(sent + 1)
  BY DEF StChain
<1>9. half # no => half \in G /\ half.n \in (low + 1)..(sent + 1)
  OBVIOUS
<1> HIDE DEF half
<1>10. StChain(R, G, no, held, half, low, sent + 1)
  BY <1>5, <1>6, <1>7, <1>8, <1>9, Zenon DEF StChain
<1> QED BY <1>10 DEF R, half, x

(* The rest of a frame at the end of a stream.                             *)
LEMMA StRested == ASSUME NEW F, NEW G, NEW no, G \subseteq F, \A g \in G : g.n \in Nat, no \notin G,
                         NEW Q \in Seq([f : F, part : {"whole", "head", "tail"}]), NEW held, NEW low \in Nat, NEW sent \in Nat,
                         NEW half, half # no, StChain(Q, G, no, held, half, low, sent)
                  PROVE  StChain(Append(Q, [f |-> half, part |-> "tail"]), G, no, held, no, low, sent)
<1> DEFINE P == [f : F, part : {"whole", "head", "tail"}]
           x == [f |-> half, part |-> "tail"]
           R == Append(Q, x)
<1>3. StBefore(Q, no, held, Len(Q) + 1) = half /\ half \in G /\ half.n \in (low + 1)..sent
  BY DEF StChain
<1>0. x \in P /\ x.f = half /\ x.part = "tail"
  BY <1>3
<1>q. Q \in Seq(P)
  OBVIOUS
<1> HIDE DEF x, P
<1>1. /\ R \in Seq(P) /\ Len(R) = Len(Q) + 1 /\ R[Len(Q) + 1] = x /\ Len(Q) \in Nat
      /\ \A i \in 1..Len(Q) : R[i] = Q[i] /\ Q[i] \in P
  BY <1>0, <1>q
<1>2. \A i \in 1..Len(Q) + 1 : StBefore(R, no, held, i) = StBefore(Q, no, held, i)
  BY <1>1 DEF StBefore
<1> HIDE DEF R
<1>5. \A i \in 1..Len(R) : StPieceSound(R, G, no, held, low, sent, i)
  <2> SUFFICES ASSUME NEW i \in 1..Len(R)
               PROVE  StPieceSound(R, G, no, held, low, sent, i)
    OBVIOUS
  <2>1. CASE i \in 1..Len(Q)
    <3>1. /\ Q[i].f \in G /\ Q[i].f.n \in (low + 1)..sent
          /\ Q[i].part = "tail" => Q[i].f = StBefore(Q, no, held, i)
          /\ Q[i].part # "tail" => StBefore(Q, no, held, i) = no
      BY <2>1 DEF StChain, StPieceSound
    <3>2. R[i] = Q[i] /\ StBefore(R, no, held, i) = StBefore(Q, no, held, i)
      BY <1>1, <1>2, <2>1
    <3> QED BY <3>1, <3>2 DEF StPieceSound
  <2>2. CASE i = Len(Q) + 1
    BY <1>0, <1>1, <1>2, <1>3, <2>2 DEF StPieceSound
  <2> QED BY <1>1, <2>1, <2>2
<1>6. \A i, j \in 1..Len(R) : i < j => R[i].f.n < R[j].f.n \/ (j = i + 1 /\ R[j].part = "tail")
  <2> SUFFICES ASSUME NEW i \in 1..Len(R), NEW j \in 1..Len(R), i < j
               PROVE  R[i].f.n < R[j].f.n \/ (j = i + 1 /\ R[j].part = "tail")
    OBVIOUS
  <2>1. i \in 1..Len(Q) /\ R[i] = Q[i]
    BY <1>1
  <2>2. CASE j \in 1..Len(Q)
    BY <1>1, <2>1, <2>2 DEF StChain
  <2>3. CASE j = Len(Q) + 1 /\ i = Len(Q)
    BY <1>0, <1>1, <2>3
  <2>4. CASE j = Len(Q) + 1 /\ i # Len(Q)
    <3>1. Len(Q) >= 1 /\ Q[Len(Q)].part = "head" /\ Q[Len(Q)].f = half
      BY <1>1, <1>3, <2>1, <2>4 DEF StBefore
    <3>2. Q[i].f.n < Q[Len(Q)].f.n
      BY <1>1, <2>1, <2>4, <3>1, SMTT(60) DEF StChain
    <3> QED BY <1>0, <1>1, <2>1, <2>4, <3>1, <3>2
  <2> QED BY <1>1, <2>2, <2>3, <2>4, SMTT(60)
<1>7. StBefore(R, no, held, Len(R) + 1) = no
  BY <1>0, <1>1 DEF StBefore
<1>8. held # no => held \in G /\ held.n \in (low + 1)..sent
  BY DEF StChain
<1>10. StChain(R, G, no, held, no, low, sent)
  BY <1>5, <1>6, <1>7, <1>8, Zenon DEF StChain
<1> QED BY <1>10 DEF R, x

(* The first piece of a stream is taken: a head is kept, and the stream    *)
(* goes on in that frame; else it ends a frame that was sent after low.    *)
LEMMA StPopped == ASSUME NEW F, NEW G, NEW no, G \subseteq F, \A g \in G : g.n \in Nat, no \notin G,
                         NEW Q \in Seq([f : F, part : {"whole", "head", "tail"}]), NEW held, NEW low \in Nat, NEW sent \in Nat,
                         NEW half, Q # <<>>, StChain(Q, G, no, held, half, low, sent)
                  PROVE  /\ Q[1].f \in G /\ Q[1].f.n \in (low + 1)..sent
                         /\ Q[1].part = "head" => StChain(Tail(Q), G, no, Q[1].f, half, low, sent)
                         /\ Q[1].part # "head" =>
                              /\ Q[1].part = (IF held = no THEN "whole" ELSE "tail") /\ held \in {no, Q[1].f}
                              /\ StChain(Tail(Q), G, no, no, half, Q[1].f.n, sent)
<1> DEFINE P == [f : F, part : {"whole", "head", "tail"}]
           R == Tail(Q)
<1>0. \A x \in P : x.part \in {"whole", "head", "tail"}
  OBVIOUS
<1>q. Q \in Seq(P)
  OBVIOUS
<1> HIDE DEF P
<1>1. /\ R \in Seq(P) /\ Len(R) = Len(Q) - 1 /\ Len(Q) \in Nat /\ Len(Q) >= 1
      /\ \A i \in 1..Len(R) : R[i] = Q[i + 1] /\ i + 1 \in 1..Len(Q)
      /\ \A i \in 1..Len(Q) : Q[i] \in P
  BY <1>q
<1> HIDE DEF R
<1>2. /\ Q[1].f \in G /\ Q[1].f.n \in (low + 1)..sent
      /\ Q[1].part = "tail" => Q[1].f = held
      /\ Q[1].part # "tail" => held = no
  BY <1>1 DEF StChain, StPieceSound, StBefore
<1>3. Q[1].f # no /\ Q[1].f.n \in Nat /\ Q[1].part \in {"whole", "head", "tail"}
  BY <1>0, <1>1, <1>2
<1> DEFINE new == IF Q[1].part = "head" THEN Q[1].f ELSE no
           from == IF Q[1].part = "head" THEN low ELSE Q[1].f.n
<1>4. \A i \in 1..Len(R) + 1 : StBefore(R, no, new, i) = StBefore(Q, no, held, i + 1)
  BY <1>1, SMTT(60) DEF StBefore
<1>5. from \in Nat /\ from >= low /\ (new # no => new \in G /\ new.n \in (from + 1)..sent)
  BY <1>2, <1>3
<1>6. \A i, j \in 1..Len(R) : i < j => R[i].f.n < R[j].f.n \/ (j = i + 1 /\ R[j].part = "tail")
  <2> SUFFICES ASSUME NEW i \in 1..Len(R), NEW j \in 1..Len(R), i < j
               PROVE  R[i].f.n < R[j].f.n \/ (j = i + 1 /\ R[j].part = "tail")
    OBVIOUS
  <2>1. i + 1 \in 1..Len(Q) /\ j + 1 \in 1..Len(Q) /\ i + 1 < j + 1 /\ R[i] = Q[i + 1] /\ R[j] = Q[j + 1]
    BY <1>1
  <2> QED BY <2>1 DEF StChain
<1>7. \A i \in 1..Len(R) : R[i].f.n \in (from + 1)..sent
  <2> SUFFICES ASSUME NEW i \in 1..Len(R) PROVE R[i].f.n \in (from + 1)..sent
    OBVIOUS
  <2>1. i + 1 \in 1..Len(Q) /\ R[i] = Q[i + 1] /\ Q[i + 1].f.n \in (low + 1)..sent
    BY <1>1 DEF StChain, StPieceSound
  <2>2. CASE Q[1].part = "head"
    BY <2>1, <2>2
  <2>3. CASE Q[1].part # "head"
    <3>1. 1 \in 1..Len(Q) /\ 1 < i + 1
      BY <1>1
    <3>2. Q[1].f.n < Q[i + 1].f.n \/ (i + 1 = 1 + 1 /\ Q[i + 1].part = "tail")
      BY <2>1, <3>1 DEF StChain
    <3>3. CASE i = 1 /\ Q[2].part = "tail"
      <4>1. Q[2].f = StBefore(Q, no, held, 2) /\ Q[2].f \in G
        BY <2>1, <3>3 DEF StChain, StPieceSound
      <4> QED BY <4>1, <2>3 DEF StBefore
    <3> QED BY <1>3, <2>1, <2>3, <3>2, <3>3, SMTT(60)
  <2> QED BY <2>2, <2>3
<1>8. \A i \in 1..Len(R) : StPieceSound(R, G, no, new, from, sent, i)
  <2> SUFFICES ASSUME NEW i \in 1..Len(R)
               PROVE  StPieceSound(R, G, no, new, from, sent, i)
    OBVIOUS
  <2> DEFINE j == i + 1
  <2>1. j \in 1..Len(Q) /\ R[i] = Q[j] /\ StBefore(R, no, new, i) = StBefore(Q, no, held, j)
    BY <1>1, <1>4
  <2> HIDE DEF j, new, from
  <2>2. /\ Q[j].f \in G
        /\ Q[j].part = "tail" => Q[j].f = StBefore(Q, no, held, j)
        /\ Q[j].part # "tail" => StBefore(Q, no, held, j) = no
    BY <2>1 DEF StChain, StPieceSound
  <2> QED BY <1>7, <2>1, <2>2 DEF StPieceSound
<1>9. half = StBefore(R, no, new, Len(R) + 1)
  <2>1. half = StBefore(Q, no, held, Len(Q) + 1)
    BY DEF StChain
  <2> QED BY <1>1, <1>4, <2>1
<1>10. half # no => half \in G /\ half.n \in (from + 1)..sent
  <2>1. CASE Len(R) = 0
    BY <1>5, <1>9, <2>1 DEF StBefore
  <2>2. CASE Len(R) # 0
    <3>1. Len(R) \in 1..Len(R) /\ Len(R) + 1 - 1 = Len(R) /\ Len(R) + 1 # 1
      BY <1>1, <2>2
    <3>2. half # no => half = R[Len(R)].f
      BY <1>9, <3>1 DEF StBefore
    <3> QED BY <1>8, <3>1, <3>2 DEF StPieceSound
  <2> QED BY <2>1, <2>2
<1> HIDE DEF new, from
<1>11. StChain(R, G, no, new, half, from, sent)
  BY <1>5, <1>6, <1>8, <1>9, <1>10, Zenon DEF StChain
<1> QED BY <1>2, <1>3, <1>11 DEF new, from, R

(* A fragment more.                                                        *)
LEMMA StFragment == ASSUME NEW G, \A g \in G : g.n \in Nat /\ g.fin \in BOOLEAN,
                           NEW S, NEW fs \in Seq(S), NEW f \in G, NEW low \in Nat,
                           StMessage(fs, G, FALSE, low), f.n > low, (f.op = "cont") = (fs # <<>>)
                    PROVE  StMessage(Append(fs, f), G, f.fin, f.n)
<1> DEFINE R == Append(fs, f)
<1>1. /\ Len(R) = Len(fs) + 1 /\ R[Len(fs) + 1] = f /\ Len(fs) \in Nat
      /\ \A i \in 1..Len(fs) : R[i] = fs[i]
      /\ (fs = <<>>) = (Len(fs) = 0)
  OBVIOUS
<1>2. f.n \in Nat /\ f.fin \in BOOLEAN /\ \A i \in 1..Len(fs) : fs[i].n \in Nat
  BY DEF StMessage
<1> HIDE DEF R
<1>3. \A i \in 1..Len(R) : /\ R[i] \in G /\ R[i].n <= f.n /\ (R[i].op = "cont") = (i > 1)
                           /\ R[i].fin = (f.fin /\ i = Len(R))
  <2> SUFFICES ASSUME NEW i \in 1..Len(R)
               PROVE  /\ R[i] \in G /\ R[i].n <= f.n /\ (R[i].op = "cont") = (i > 1)
                      /\ R[i].fin = (f.fin /\ i = Len(R))
    OBVIOUS
  <2>1. CASE i \in 1..Len(fs)
    <3>1. fs[i] \in G /\ fs[i].n <= low /\ (fs[i].op = "cont") = (i > 1) /\ fs[i].fin = (FALSE /\ i = Len(fs))
      BY <2>1 DEF StMessage
    <3>2. i # Len(R)
      BY <1>1, <2>1
    <3> QED BY <1>1, <1>2, <2>1, <3>1, <3>2
  <2>2. CASE i = Len(fs) + 1
    BY <1>1, <1>2, <2>2
  <2> QED BY <1>1, <2>1, <2>2
<1>4. \A i, j \in 1..Len(R) : i < j => R[i].n < R[j].n
  <2> SUFFICES ASSUME NEW i \in 1..Len(R), NEW j \in 1..Len(R), i < j PROVE R[i].n < R[j].n
    OBVIOUS
  <2>1. i \in 1..Len(fs) /\ fs[i].n <= low
    BY <1>1 DEF StMessage
  <2>2. CASE j \in 1..Len(fs)
    BY <1>1, <2>1, <2>2 DEF StMessage
  <2>3. CASE j = Len(fs) + 1
    BY <1>1, <1>2, <2>1, <2>3
  <2> QED BY <1>1, <2>2, <2>3
<1> QED BY <1>3, <1>4 DEF StMessage, R

(* What is said of a message up to one frame holds up to a later one.      *)
LEMMA StLater == ASSUME NEW G, \A g \in G : g.n \in Nat, NEW fs, NEW whole, NEW low \in Nat, NEW later \in Nat,
                        low <= later, StMessage(fs, G, whole, low)
                 PROVE  StMessage(fs, G, whole, later)
BY DEF StMessage

(* A stream that is empty, with nothing held and nothing begun.            *)
LEMMA StEmpty == ASSUME NEW G, NEW no, NEW low, NEW sent
                 PROVE  StChain(<<>>, G, no, no, no, low, sent) /\ StMessage(<<>>, G, FALSE, low)
BY DEF StChain, StMessage, StBefore

-----------------------------------------------------------------------------
(* What the server does with its slices of connections.                    *)

(* The elements of a slice, by what holds of its positions.                *)
LEMMA WsElems == ASSUME NEW S, NEW s \in Seq(S)
                 PROVE  /\ \A e : Contains(s, e) <=> e \in ToSet(s)
                        /\ ToSet(s) \subseteq S /\ DOMAIN s = 1..Len(s) /\ Len(s) \in Nat
                        /\ \A i \in 1..Len(s) : s[i] \in ToSet(s)
                        /\ \A e \in ToSet(s) : \E i \in 1..Len(s) : s[i] = e
<1>1. DOMAIN s = 1..Len(s) /\ Len(s) \in Nat /\ \A i \in 1..Len(s) : s[i] \in S
  OBVIOUS
<1>2. \A e : e \in ToSet(s) <=> \E i \in 1..Len(s) : s[i] = e
  BY <1>1, Zenon DEF ToSet
<1>3. \A e : Contains(s, e) <=> \E i \in 1..Len(s) : s[i] = e
  BY Zenon DEF Contains
<1> QED
  BY <1>1, <1>2, <1>3, Zenon

(* A connection more in a slice.                                           *)
LEMMA WsAppended == ASSUME NEW S, NEW s \in Seq(S), NEW e \in S
                    PROVE  /\ Append(s, e) \in Seq(S) /\ ToSet(Append(s, e)) = ToSet(s) \cup {e}
                           /\ IsInjective(s) /\ e \notin ToSet(s) => IsInjective(Append(s, e))
<1> DEFINE r == Append(s, e)
<1>1. /\ r \in Seq(S) /\ Len(r) = Len(s) + 1 /\ r[Len(s) + 1] = e /\ Len(s) \in Nat
      /\ \A i \in 1..Len(s) : r[i] = s[i]
  OBVIOUS
<1> HIDE DEF r
<1>2. \A x : x \in ToSet(r) <=> x \in ToSet(s) \cup {e}
  <2>0. DOMAIN r = 1..Len(s) + 1 /\ DOMAIN s = 1..Len(s)
    BY <1>1
  <2>1. \A x : x \in ToSet(r) => x \in ToSet(s) \cup {e}
    BY <1>1, <2>0 DEF ToSet
  <2>2. \A x \in ToSet(s) : x \in ToSet(r)
    BY <1>1, <2>0 DEF ToSet
  <2>3. e \in ToSet(r)
    BY <1>1, <2>0 DEF ToSet
  <2> QED BY <2>1, <2>2, <2>3
<1>3. ASSUME IsInjective(s), e \notin ToSet(s) PROVE IsInjective(r)
  <2>1. \A i, j \in 1..Len(s) : s[i] = s[j] => i = j
    BY <1>3 DEF IsInjective
  <2>2. \A i \in 1..Len(s) : s[i] # e
    BY <1>3, WsElems
  <2> QED BY <1>1, <2>1, <2>2 DEF IsInjective
<1>4. r \in Seq(S) /\ ToSet(r) = ToSet(s) \cup {e}
  BY <1>1, <1>2
<1> QED
  BY <1>3, <1>4, Zenon DEF r

(* The first of a slice is taken.                                          *)
LEMMA WsTailed == ASSUME NEW S, NEW s \in Seq(S), s # <<>>
                  PROVE  /\ Head(s) \in S /\ Tail(s) \in Seq(S) /\ Contains(s, Head(s))
                         /\ \A e : Contains(Tail(s), e) => Contains(s, e)
                         /\ \A e : Contains(s, e) /\ e # Head(s) => Contains(Tail(s), e)
                         /\ \A e : Contains(Tail(s), e) /\ (\A i, j \in 1..Len(s) : s[i] = e /\ s[j] = e => i = j) =>
                              e # Head(s) /\ \A i, j \in 1..Len(Tail(s)) : Tail(s)[i] = e /\ Tail(s)[j] = e => i = j
<1> DEFINE r == Tail(s)
<1>1. /\ Head(s) \in S /\ r \in Seq(S) /\ Len(r) = Len(s) - 1 /\ Len(s) \in Nat /\ Len(s) >= 1 /\ s[1] = Head(s)
      /\ \A i \in 1..Len(r) : r[i] = s[i + 1] /\ i + 1 \in 1..Len(s)
  OBVIOUS
<1> HIDE DEF r
<1>2. Contains(s, Head(s))
  BY <1>1 DEF Contains
<1>3. \A e : Contains(r, e) => Contains(s, e)
  BY <1>1 DEF Contains
<1>4. ASSUME NEW e, Contains(s, e), e # Head(s) PROVE Contains(r, e)
  <2>1. PICK i \in 1..Len(s) : s[i] = e
    BY <1>4 DEF Contains
  <2>2. i - 1 \in 1..Len(r) /\ r[i - 1] = s[(i - 1) + 1] /\ (i - 1) + 1 = i
    BY <1>1, <1>4, <2>1
  <2> QED BY <2>1, <2>2 DEF Contains
<1>5. ASSUME NEW e, Contains(r, e), \A i, j \in 1..Len(s) : s[i] = e /\ s[j] = e => i = j
      PROVE  e # Head(s) /\ \A i, j \in 1..Len(r) : r[i] = e /\ r[j] = e => i = j
  <2>1. PICK k \in 1..Len(r) : r[k] = e
    BY <1>5 DEF Contains
  <2>2. k + 1 \in 1..Len(s) /\ s[k + 1] = e /\ 1 \in 1..Len(s) /\ k + 1 # 1
    BY <1>1, <2>1
  <2>3. e # Head(s)
    BY <1>1, <1>5, <2>2
  <2>4. \A i, j \in 1..Len(r) : r[i] = e /\ r[j] = e => i = j
    BY <1>1, <1>5
  <2> QED BY <2>3, <2>4
<1> QED
  BY <1>1, <1>2, <1>3, <1>4, <1>5, Zenon DEF r

(* A connection is removed from a slice that has it at most once.          *)
LEMMA WsRemoved == ASSUME NEW S, NEW s \in Seq(S), NEW e, IsInjective(s)
                   PROVE  /\ RemoveFirst(s, e) \in Seq(S) /\ IsInjective(RemoveFirst(s, e))
                          /\ ToSet(RemoveFirst(s, e)) = ToSet(s) \ {e}
<1>0. Len(s) \in Nat /\ DOMAIN s = 1..Len(s) /\ \A i, j \in 1..Len(s) : s[i] = s[j] => i = j
  BY DEF IsInjective
<1>1. CASE ~Contains(s, e)
  <2>1. RemoveFirst(s, e) = s
    BY <1>1 DEF RemoveFirst, Contains
  <2>2. e \notin ToSet(s)
    BY <1>1, WsElems
  <2> QED BY <2>1, <2>2
<1>2. CASE Contains(s, e)
  <2>1. PICK k \in 1..Len(s) : s[k] = e
    BY <1>2 DEF Contains
  <2>2. {i \in 1..Len(s) : s[i] = e} = {k}
    BY <1>0, <2>1
  <2>3. Min({k}) = k
    BY <2>1 DEF Min
  <2>4. RemoveFirst(s, e) = RemoveAt(s, SelectInSeq(s, LAMBDA v: v = e))
    BY <1>2, Zenon DEF RemoveFirst, Contains
  <2>5. SelectInSeq(s, LAMBDA v: v = e) = k
    BY <2>2, <2>3, Zenon DEF SelectInSeq
  <2> DEFINE r == RemoveAt(s, k)
             a == SubSeq(s, 1, k - 1)
             b == SubSeq(s, k + 1, Len(s))
  <2>6. /\ a \in Seq(S) /\ Len(a) = k - 1 /\ \A i \in 1..k - 1 : a[i] = s[i]
    BY <1>0, <2>1
  <2>7. /\ b \in Seq(S) /\ Len(b) = Len(s) - k /\ \A i \in 1..Len(s) - k : b[i] = s[i + k]
    <3>0. Len(s) \in Nat /\ \A i \in 1..Len(s) : s[i] \in S
      OBVIOUS
    <3>1. k + 1 \in Int /\ Len(s) \in Int /\ \A i \in k + 1..Len(s) : s[i] \in S
      BY <3>0
    <3> DEFINE m == k + 1
    <3>m. m \in Int /\ \A i \in m..Len(s) : s[i] \in S
      BY <3>1
    <3> HIDE DEF m
    <3>2. /\ SubSeq(s, m, Len(s)) \in Seq(S) /\ Len(SubSeq(s, m, Len(s))) = IF m <= Len(s) THEN Len(s) - m + 1 ELSE 0
          /\ \A i \in 1..Len(s) - m + 1 : SubSeq(s, m, Len(s))[i] = s[m + i - 1]
      BY <3>1, <3>m, SubSeqProperties
    <3>3. \A i \in 1..Len(s) - k : i \in 1..Len(s) - m + 1 /\ m + i - 1 = i + k
      BY <3>0 DEF m
    <3>4. Len(SubSeq(s, m, Len(s))) = Len(s) - k
      BY <3>0, <3>2 DEF m
    <3> QED BY <3>2, <3>3, <3>4 DEF m
  <2>8. r = a \o b
    BY DEF RemoveAt
  <2> HIDE DEF a, b, r
  <2>9. /\ r \in Seq(S) /\ Len(r) = Len(s) - 1 /\ DOMAIN r = 1..Len(s) - 1
        /\ \A i \in 1..Len(s) - 1 : r[i] = IF i < k THEN s[i] ELSE s[i + 1]
    <3>1. r \in Seq(S) /\ Len(r) = Len(a) + Len(b)
      BY <2>6, <2>7, <2>8, ConcatProperties, Zenon
    <3>3. \A i \in 1..Len(a) + Len(b) : r[i] = IF i <= Len(a) THEN a[i] ELSE b[i - Len(a)]
      BY <2>6, <2>7, <2>8, ConcatProperties, Zenon
    <3>4. Len(r) = Len(s) - 1 /\ DOMAIN r = 1..Len(r)
      BY <1>0, <2>1, <2>6, <2>7, <3>1
    <3>2. ASSUME NEW i \in 1..Len(s) - 1 PROVE r[i] = IF i < k THEN s[i] ELSE s[i + 1]
      <4>1. CASE i < k
        <5>1. i <= Len(a) /\ i \in 1..Len(a) + Len(b) /\ i \in 1..k - 1
          BY <1>0, <2>1, <2>6, <2>7, <4>1
        <5>2. r[i] = a[i]
          BY <3>3, <5>1
        <5> QED BY <2>6, <4>1, <5>1, <5>2
      <4>2. CASE ~(i < k)
        <5>1. i > Len(a) /\ i <= Len(a) + Len(b) /\ i - Len(a) \in 1..Len(s) - k /\ (i - Len(a)) + k = i + 1
          BY <1>0, <2>1, <2>6, <2>7, <4>2
        <5>2. r[i] = b[i - Len(a)]
          <6> DEFINE j == i - Len(a)
          <6>1. i \in 1..Len(a) + Len(b) /\ ~(i <= Len(a))
            BY <1>0, <2>1, <2>6, <2>7, <5>1
          <6>2. r[i] = IF i <= Len(a) THEN a[i] ELSE b[j]
            BY <3>3, <6>1
          <6> HIDE DEF j
          <6>3. r[i] = b[j]
            BY <6>1, <6>2, Zenon
          <6> QED BY <6>3 DEF j
        <5> QED BY <2>7, <4>2, <5>1, <5>2
      <4> QED BY <4>1, <4>2
    <3> QED BY <3>1, <3>2, <3>4
  <2>10. \A i, j \in 1..Len(s) - 1 : r[i] = r[j] => i = j
    <3> SUFFICES ASSUME NEW i \in 1..Len(s) - 1, NEW j \in 1..Len(s) - 1, r[i] = r[j] PROVE i = j
      OBVIOUS
    <3>1. i \in 1..Len(s) /\ i + 1 \in 1..Len(s) /\ j \in 1..Len(s) /\ j + 1 \in 1..Len(s)
      BY <1>0
    <3>2. r[i] = (IF i < k THEN s[i] ELSE s[i + 1]) /\ r[j] = IF j < k THEN s[j] ELSE s[j + 1]
      BY <2>9
    <3>3. \A x, y \in 1..Len(s) : s[x] = s[y] => x = y
      BY <1>0
    <3>4. CASE i < k /\ j < k
      BY <3>1, <3>2, <3>3, <3>4
    <3>5. CASE ~(i < k) /\ ~(j < k)
      <4>1. i + 1 = j + 1
        BY <3>1, <3>2, <3>3, <3>5
      <4> QED BY <4>1
    <3>6. CASE i < k /\ ~(j < k)
      <4>1. i = j + 1
        BY <3>1, <3>2, <3>3, <3>6
      <4> QED BY <3>6, <4>1, <1>0
    <3>7. CASE ~(i < k) /\ j < k
      <4>1. i + 1 = j
        BY <3>1, <3>2, <3>3, <3>7
      <4> QED BY <3>7, <4>1, <1>0
    <3> QED BY <3>4, <3>5, <3>6, <3>7
  <2>11. \A x : x \in ToSet(r) => x \in ToSet(s) \ {e}
    <3> SUFFICES ASSUME NEW x, x \in ToSet(r) PROVE x \in ToSet(s) \ {e}
      OBVIOUS
    <3>1. PICK i \in 1..Len(s) - 1 : r[i] = x
      BY <2>9 DEF ToSet
    <3>2. i \in 1..Len(s) /\ i + 1 \in 1..Len(s)
      BY <1>0
    <3>3. \E j \in 1..Len(s) : j # k /\ s[j] = x
      BY <2>1, <2>9, <3>1, <3>2
    <3> QED BY <1>0, <2>1, <3>3, WsElems
  <2>12. \A x \in ToSet(s) \ {e} : x \in ToSet(r)
    <3> SUFFICES ASSUME NEW x \in ToSet(s), x # e PROVE x \in ToSet(r)
      OBVIOUS
    <3>1. PICK j \in 1..Len(s) : s[j] = x
      BY WsElems
    <3>2. j # k
      BY <2>1, <3>1
    <3>3. CASE j < k
      <4>1. j \in 1..Len(s) - 1 /\ r[j] = x
        BY <1>0, <2>1, <2>9, <3>1, <3>3
      <4> QED BY <2>9, <4>1 DEF ToSet
    <3>4. CASE j > k
      <4>1. j - 1 \in 1..Len(s) - 1 /\ (j - 1) + 1 = j /\ ~(j - 1 < k)
        BY <1>0, <2>1, <3>4
      <4>2. r[j - 1] = x
        BY <2>9, <3>1, <4>1
      <4> QED BY <2>9, <4>1, <4>2 DEF ToSet
    <3> QED BY <2>1, <3>1, <3>2, <3>3, <3>4
  <2>13. ToSet(r) = ToSet(s) \ {e}
    BY <2>11, <2>12
  <2>14. IsInjective(r)
    BY <2>9, <2>10 DEF IsInjective
  <2>15. RemoveFirst(s, e) = r
    BY <2>4, <2>5, Zenon DEF r
  <2> QED BY <2>9, <2>13, <2>14, <2>15
<1> QED BY <1>1, <1>2

(* Every order in which WaitRead may report a set reports all of it.       *)
LEMMA WsOrdered == ASSUME NEW R, IsFiniteSet(R), NEW order \in SetToSeqs(R)
                   PROVE  order \in Seq(R) /\ \A c \in R : Contains(order, c)
<1> DEFINE n == Cardinality(R)
<1>1. n \in Nat
  BY FS_CardinalityType
<1>2. order \in [1..n -> R] /\ \A i, j \in 1..n : i # j => order[i] # order[j]
  BY DEF SetToSeqs
<1>3. order \in Injection(1..n, R)
  BY <1>2 DEF Injection, IsInjective
<1>4. IsFiniteSet(1..n) /\ Cardinality(1..n) = n
  BY <1>1, FS_Interval
<1>5. order \in Surjection(1..n, R)
  BY <1>3, <1>4, FS_Injection
<1>6. \A c \in R : \E i \in 1..n : order[i] = c
  BY <1>5 DEF Surjection
<1> HIDE DEF n
<1>7. order \in Seq(R) /\ Len(order) = n
  BY <1>1, <1>2
<1> QED BY <1>6, <1>7 DEF Contains

-----------------------------------------------------------------------------
(* The types, and where the goroutines are.                                *)

(* A goroutine goes on, the others stay where they are.                    *)
LEMMA WsGoes == ASSUME WsTypes, NEW t \in WsThreads, NEW pc, NEW c, WsGoOn(t, pc, c)
                PROVE  /\ wsPc'[t] = pc /\ wsFd'[t] = IF pc = "idle" THEN 0 ELSE c
                       /\ \A u \in WsThreads : u # t => wsPc'[u] = wsPc[u] /\ wsFd'[u] = wsFd[u]
                       /\ pc \in {"idle", "register", "addRemove", "add", "frames", "remove", "close", "ping", "answer"} =>
                            wsPc' \in [WsThreads -> {"idle", "register", "addRemove", "add", "frames", "remove", "close", "ping", "answer"}]
                       /\ pc = "idle" \/ c \in WsFds \cup {0} => wsFd' \in [WsThreads -> WsFds \cup {0}]
<1>1. wsPc \in [WsThreads -> {"idle", "register", "addRemove", "add", "frames", "remove", "close", "ping", "answer"}]
  BY DEF WsTypes
<1>2. wsFd \in [WsThreads -> WsFds \cup {0}]
  BY DEF WsTypes
<1>3. wsPc' = [wsPc EXCEPT ![t] = pc] /\ wsFd' = [wsFd EXCEPT ![t] = IF pc = "idle" THEN 0 ELSE c]
  BY DEF WsGoOn
<1> QED BY <1>1, <1>2, <1>3

(* The goroutines that do not move are where they were.                    *)
LEMMA WsStays == ASSUME WsTypes, WsTurns, UNCHANGED <<wsPc, wsFd, wsTodo, wsClosing>> PROVE WsTurns'
BY DEF WsTurns

(* A goroutine other than the reader that goes on.                         *)
LEMMA WsTurned ==
  ASSUME WsTypes, WsTurns, NEW t \in WsThreads, NEW pc, NEW c, WsGoOn(t, pc, c), UNCHANGED <<wsTodo, wsClosing>>,
         \/ t = "upgrader" /\ pc \in {"idle", "register", "addRemove", "add"}
         \/ t = "pinger" /\ pc \in {"idle", "ping", "remove", "close"}
         \/ t = "text" /\ pc \in {"idle", "answer", "remove", "close"},
         c \in WsFds \/ pc \in {"idle", "ping"}
  PROVE  WsTurns'
<1>1. /\ wsPc'[t] = pc /\ wsFd'[t] = (IF pc = "idle" THEN 0 ELSE c)
      /\ \A u \in WsThreads : u # t => wsPc'[u] = wsPc[u] /\ wsFd'[u] = wsFd[u]
  BY WsGoes
<1>2. t # "reader" /\ "reader" \in WsThreads /\ "upgrader" \in WsThreads /\ "pinger" \in WsThreads /\ "text" \in WsThreads
  BY DEF WsThreads
<1>3. wsPc'["reader"] = wsPc["reader"] /\ wsFd'["reader"] = wsFd["reader"]
  BY <1>1, <1>2
<1>4. /\ wsPc'["upgrader"] \in {"idle", "register", "addRemove", "add"}
      /\ wsPc'["pinger"] \in {"idle", "ping", "remove", "close"}
      /\ wsPc'["text"] \in {"idle", "answer", "remove", "close"}
  BY <1>1, <1>2 DEF WsTurns
<1>5. \A u \in WsThreads : /\ wsPc'[u] = "idle" => wsFd'[u] = 0
                           /\ wsPc'[u] \notin {"idle", "ping"} => wsFd'[u] \in WsFds
  BY <1>1 DEF WsTurns
<1> QED BY <1>3, <1>4, <1>5 DEF WsTurns

(* The reader goes on.                                                     *)
LEMMA WsReaderTurned ==
  ASSUME WsTypes, WsTurns, NEW pc \in {"idle", "frames", "remove", "close"}, NEW c, WsGoOn("reader", pc, c), c \in WsFds \/ pc = "idle",
         pc = "idle" \/ wsClosing' => wsTodo' = <<>>, pc \in {"idle", "frames"} => ~wsClosing'
  PROVE  WsTurns'
<1>2. "reader" \in WsThreads /\ "upgrader" \in WsThreads /\ "pinger" \in WsThreads /\ "text" \in WsThreads
  BY DEF WsThreads
<1>1. /\ wsPc'["reader"] = pc /\ wsFd'["reader"] = (IF pc = "idle" THEN 0 ELSE c)
      /\ \A u \in WsThreads : u # "reader" => wsPc'[u] = wsPc[u] /\ wsFd'[u] = wsFd[u]
  BY <1>2, WsGoes
<1>3. wsPc'["upgrader"] = wsPc["upgrader"] /\ wsPc'["pinger"] = wsPc["pinger"] /\ wsPc'["text"] = wsPc["text"]
  BY <1>1, <1>2
<1>5. \A u \in WsThreads : /\ wsPc'[u] = "idle" => wsFd'[u] = 0
                           /\ wsPc'[u] \notin {"idle", "ping"} => wsFd'[u] \in WsFds
  BY <1>1 DEF WsTurns
<1> QED BY <1>1, <1>3, <1>5 DEF WsTurns

(* A closed descriptor, and the values that stand for nothing.             *)
LEMMA WsNoneType == /\ WsNone \in WsFrameType /\ WsNone.gen = 0 /\ WsNone.safe = FALSE
                    /\ WsClosed \in WsSockType /\ WsClosed.gen = 0
                    /\ <<>> \in Seq(WsPieceType) /\ <<>> \in Seq(WsFrameType)
<1>1. WsNone \in WsFrameType /\ WsNone.gen = 0 /\ WsNone.safe = FALSE
  BY DEF WsNone, WsFrameType
<1>2. <<>> \in Seq(WsPieceType) /\ <<>> \in Seq(WsFrameType)
  OBVIOUS
<1>3. WsClosed \in WsSockType /\ WsClosed.gen = 0
  BY <1>1, <1>2 DEF WsClosed, WsSockType
<1> QED BY <1>1, <1>2, <1>3

(* CloseFd: the descriptor is closed and out of epoll.                     *)
LEMMA WsCloses == ASSUME WsTypes, NEW c \in WsFds, WsCloseFd(c)
                  PROVE  /\ wsSock' \in [WsFds -> WsSockType] /\ wsPoll' \in [WsFds -> {"none", "armed", "fired"}]
                         /\ ~wsSock'[c].open /\ wsSock'[c].gen = wsSock[c].gen /\ ~wsSock'[c].up /\ wsSock'[c].in = <<>>
                         /\ wsSock'[c].half = WsNone /\ ~wsSock'[c].safe /\ wsPoll'[c] = "none"
                         /\ \A d \in WsFds : d # c => wsSock'[d] = wsSock[d] /\ wsPoll'[d] = wsPoll[d]
<1> DEFINE x == [WsClosed EXCEPT !.gen = wsSock[c].gen]
<1>1. wsSock \in [WsFds -> WsSockType] /\ wsPoll \in [WsFds -> {"none", "armed", "fired"}]
  BY DEF WsTypes
<1>2. wsSock[c].gen \in Nat
  BY <1>1 DEF WsSockType
<1>3. WsClosed \in WsSockType
  BY WsNoneType
<1>4. /\ x \in WsSockType /\ x.open = WsClosed.open /\ x.gen = wsSock[c].gen /\ x.up = WsClosed.up
      /\ x.in = WsClosed.in /\ x.half = WsClosed.half /\ x.safe = WsClosed.safe
  BY <1>2, <1>3 DEF WsSockType
<1>5. wsSock' = [wsSock EXCEPT ![c] = x] /\ wsPoll' = [wsPoll EXCEPT ![c] = "none"]
  BY DEF WsCloseFd
<1> HIDE DEF x
<1>6. wsSock' \in [WsFds -> WsSockType] /\ wsPoll' \in [WsFds -> {"none", "armed", "fired"}] /\ wsSock'[c] = x
  BY <1>1, <1>4, <1>5
<1>8. ~WsClosed.open /\ ~WsClosed.up /\ WsClosed.in = <<>> /\ WsClosed.half = WsNone /\ ~WsClosed.safe
  BY DEF WsClosed
<1>7. wsPoll'[c] = "none" /\ \A d \in WsFds : d # c => wsSock'[d] = wsSock[d] /\ wsPoll'[d] = wsPoll[d]
  BY <1>1, <1>5
<1> QED BY <1>4, <1>6, <1>7, <1>8

-----------------------------------------------------------------------------
(* ClientManager.                                                          *)

(* remove: the three views agree again, and the client is in none of them. *)
LEMMA WsRemoveAllKeeps ==
  ASSUME WsTypes, WsManagerConsistent, NEW c \in WsFds, WsRemoveAll(c)
  PROVE  /\ wsFrame' \in [WsFds -> WsFrameType] /\ wsFrames' \in [WsFds -> Seq(WsFrameType)]
         /\ wsAll' \in Seq(WsFds) /\ wsConns' \in [WsUids \ {0} -> Seq(WsFds)] /\ wsCtx' \in [WsFds -> WsUids \cup {-1}]
         /\ wsCtx'[c] = -1 /\ wsFrame'[c] = WsNone /\ wsFrames'[c] = <<>>
         /\ \A d \in WsFds : d # c => wsCtx'[d] = wsCtx[d] /\ wsFrame'[d] = wsFrame[d] /\ wsFrames'[d] = wsFrames[d]
         /\ WsManagerConsistent'
<1>0. /\ wsFrame \in [WsFds -> WsFrameType] /\ wsFrames \in [WsFds -> Seq(WsFrameType)]
      /\ wsAll \in Seq(WsFds) /\ wsConns \in [WsUids \ {0} -> Seq(WsFds)] /\ wsCtx \in [WsFds -> WsUids \cup {-1}]
  BY DEF WsTypes
<1>1. /\ wsFrame' = [wsFrame EXCEPT ![c] = WsNone] /\ wsFrames' = [wsFrames EXCEPT ![c] = <<>>]
      /\ wsAll' = RemoveFirst(wsAll, c) /\ wsCtx' = [wsCtx EXCEPT ![c] = -1]
      /\ wsConns' = [u \in WsUids \ {0} |-> IF u = wsCtx[c] THEN RemoveFirst(wsConns[u], c) ELSE wsConns[u]]
  BY <1>0 DEF WsRemoveAll
<1>2. wsFrame' \in [WsFds -> WsFrameType] /\ wsFrames' \in [WsFds -> Seq(WsFrameType)]
  BY <1>0, <1>1, WsNoneType
<1>3. wsCtx' \in [WsFds -> WsUids \cup {-1}] /\ wsCtx'[c] = -1 /\ wsFrame'[c] = WsNone /\ wsFrames'[c] = <<>>
      /\ \A d \in WsFds : d # c => wsCtx'[d] = wsCtx[d] /\ wsFrame'[d] = wsFrame[d] /\ wsFrames'[d] = wsFrames[d]
  BY <1>0, <1>1
<1>4. IsInjective(wsAll) /\ ToSet(wsAll) = {d \in WsFds : wsCtx[d] # -1}
  BY DEF WsManagerConsistent
<1>5. \A u \in WsUids \ {0} : IsInjective(wsConns[u]) /\ ToSet(wsConns[u]) = {d \in WsFds : wsCtx[d] = u}
  BY <1>0 DEF WsManagerConsistent
<1>6. wsAll' \in Seq(WsFds) /\ IsInjective(wsAll') /\ ToSet(wsAll') = ToSet(wsAll) \ {c}
  BY <1>0, <1>1, <1>4, WsRemoved
<1>7. ToSet(wsAll') = {d \in WsFds : wsCtx'[d] # -1}
  BY <1>3, <1>4, <1>6
<1>8. ASSUME NEW u \in WsUids \ {0}
      PROVE  wsConns'[u] \in Seq(WsFds) /\ IsInjective(wsConns'[u]) /\ ToSet(wsConns'[u]) = {d \in WsFds : wsCtx'[d] = u}
  <2>0. u # -1 /\ wsConns[u] \in Seq(WsFds)
    BY <1>0, WsAssumption
  <2>1. CASE u = wsCtx[c]
    <3>1. wsConns'[u] = RemoveFirst(wsConns[u], c)
      BY <1>1, <2>1
    <3>2. wsConns'[u] \in Seq(WsFds) /\ IsInjective(wsConns'[u]) /\ ToSet(wsConns'[u]) = ToSet(wsConns[u]) \ {c}
      BY <1>5, <2>0, <3>1, WsRemoved
    <3> QED BY <1>3, <1>5, <2>0, <3>2
  <2>2. CASE u # wsCtx[c]
    <3>1. wsConns'[u] = wsConns[u]
      BY <1>1, <2>2
    <3> QED BY <1>3, <1>5, <2>0, <2>2, <3>1
  <2> QED BY <2>1, <2>2
<1>9. wsConns' \in [WsUids \ {0} -> Seq(WsFds)]
  BY <1>1, <1>8
<1>10. WsManagerConsistent'
  BY <1>6, <1>7, <1>8, <1>9 DEF WsManagerConsistent
<1> QED BY <1>2, <1>3, <1>6, <1>9, <1>10

(* add: a client that no view has is in the views it belongs to.           *)
LEMMA WsAddKeeps ==
  ASSUME WsTypes, WsManagerConsistent, NEW c \in WsFds, NEW uid \in WsUids, wsCtx[c] = -1, WsAddLocked(c, uid)
  PROVE  /\ wsAll' \in Seq(WsFds) /\ wsConns' \in [WsUids \ {0} -> Seq(WsFds)] /\ wsCtx' \in [WsFds -> WsUids \cup {-1}]
         /\ wsFrame' = wsFrame /\ wsFrames' = wsFrames
         /\ \A d \in WsFds : d # c => wsCtx'[d] = wsCtx[d]
         /\ WsManagerConsistent'
<1>0. wsAll \in Seq(WsFds) /\ wsConns \in [WsUids \ {0} -> Seq(WsFds)] /\ wsCtx \in [WsFds -> WsUids \cup {-1}] /\ uid \in Nat
  BY WsAssumption DEF WsTypes
<1>4. IsInjective(wsAll) /\ ToSet(wsAll) = {d \in WsFds : wsCtx[d] # -1}
  BY DEF WsManagerConsistent
<1>5. \A u \in WsUids \ {0} : IsInjective(wsConns[u]) /\ ToSet(wsConns[u]) = {d \in WsFds : wsCtx[d] = u}
  BY <1>0 DEF WsManagerConsistent
<1>6. c \notin ToSet(wsAll) /\ ~Contains(wsAll, c)
  BY <1>0, <1>4, WsElems
<1>7. /\ wsAll' = Append(wsAll, c) /\ wsCtx' = [wsCtx EXCEPT ![c] = uid] /\ wsFrame' = wsFrame /\ wsFrames' = wsFrames
      /\ wsConns' = IF uid > 0 THEN [wsConns EXCEPT ![uid] = Append(@, c)] ELSE wsConns
  BY <1>6 DEF WsAddLocked
<1>8. wsAll' \in Seq(WsFds) /\ IsInjective(wsAll') /\ ToSet(wsAll') = ToSet(wsAll) \cup {c}
  BY <1>0, <1>4, <1>6, <1>7, WsAppended
<1>9. wsCtx' \in [WsFds -> WsUids \cup {-1}] /\ wsCtx'[c] = uid /\ \A d \in WsFds : d # c => wsCtx'[d] = wsCtx[d]
  BY <1>0, <1>7
<1>10. ToSet(wsAll') = {d \in WsFds : wsCtx'[d] # -1}
  BY <1>0, <1>4, <1>8, <1>9
<1>11. ASSUME NEW u \in WsUids \ {0}
      PROVE  wsConns'[u] \in Seq(WsFds) /\ IsInjective(wsConns'[u]) /\ ToSet(wsConns'[u]) = {d \in WsFds : wsCtx'[d] = u}
  <2>0. u # -1 /\ u \in Nat /\ u > 0 /\ wsConns[u] \in Seq(WsFds)
    BY <1>0, WsAssumption
  <2>1. CASE u = uid
    <3>1. wsConns'[u] = Append(wsConns[u], c)
      BY <1>0, <1>7, <2>0, <2>1
    <3>2. c \notin ToSet(wsConns[u])
      BY <1>5, <2>0
    <3>3. wsConns'[u] \in Seq(WsFds) /\ IsInjective(wsConns'[u]) /\ ToSet(wsConns'[u]) = ToSet(wsConns[u]) \cup {c}
      BY <1>5, <2>0, <3>1, <3>2, WsAppended
    <3> QED BY <1>5, <1>9, <2>0, <2>1, <3>3
  <2>2. CASE u # uid
    <3>1. wsConns'[u] = wsConns[u]
      BY <1>0, <1>7, <2>2
    <3> QED BY <1>5, <1>9, <2>0, <2>2, <3>1
  <2> QED BY <2>1, <2>2
<1>12. DOMAIN wsConns' = WsUids \ {0} /\ wsConns' = [u \in WsUids \ {0} |-> wsConns'[u]]
  BY <1>0, <1>7
<1>13. wsConns' \in [WsUids \ {0} -> Seq(WsFds)]
  BY <1>11, <1>12
<1>14. WsManagerConsistent'
  BY <1>8, <1>10, <1>11, <1>12 DEF WsManagerConsistent
<1> QED BY <1>7, <1>8, <1>9, <1>13, <1>14

-----------------------------------------------------------------------------
(* A step that does not concern a connection.                              *)
WsSameData(c) ==
  /\ wsSock'[c] = wsSock[c] /\ wsPoll'[c] = wsPoll[c] /\ wsCtx'[c] = wsCtx[c]
  /\ wsFrame'[c] = wsFrame[c] /\ wsFrames'[c] = wsFrames[c]
  /\ wsHeld' = c <=> wsHeld = c
  /\ Contains(wsChan', c) <=> Contains(wsChan, c)
  /\ (\A i, j \in 1..Len(wsChan) : wsChan[i] = c /\ wsChan[j] = c => i = j) =>
       (\A i, j \in 1..Len(wsChan') : wsChan'[i] = c /\ wsChan'[j] = c => i = j)
  /\ wsFd["reader"] = c => wsTodo' = wsTodo /\ wsClosing' = wsClosing
  /\ Contains(wsBatch', c) <=> Contains(wsBatch, c)
  /\ Contains(wsPing', c) => Contains(wsPing, c) \/ wsCtx[c] # -1
  /\ wsGens' >= wsGens /\ wsSent' >= wsSent /\ (wsStop' = "run" => wsStop = "run")
WsSameMoves(c) ==
  /\ wsFd'["upgrader"] = c <=> wsFd["upgrader"] = c
  /\ wsFd["upgrader"] = c /\ wsPc["upgrader"] = "register" => wsPc'["upgrader"] = "register"
  /\ wsFd'["reader"] = c <=> wsFd["reader"] = c
  /\ \A t \in {"pinger", "text"} : wsFd'[t] = c => wsFd[t] = c \/ Contains(wsPing, c)
  /\ WsRemoving(c) \/ (wsFd["reader"] = c /\ wsPc["reader"] = "frames") =>
       WsRemoving(c)' \/ (wsFd'["reader"] = c /\ wsPc'["reader"] = "frames")
  /\ \A t \in WsThreads : wsFd'[t] = c /\ wsPc'[t] = "close" => wsFd[t] = c /\ wsPc[t] = "close"
WsSame(c) == WsSameData(c) /\ WsSameMoves(c)

(* A longer stream is sound up to a later frame too.                       *)
LEMMA StWider == ASSUME NEW G, NEW no, NEW Q, NEW held, NEW half, NEW low \in Nat, NEW sent \in Nat, NEW more \in Nat,
                        \A g \in G : g.n \in Nat, sent <= more, StChain(Q, G, no, held, half, low, sent)
                 PROVE  StChain(Q, G, no, held, half, low, more)
<1>1. \A i \in 1..Len(Q) : StPieceSound(Q, G, no, held, low, more, i)
  <2> SUFFICES ASSUME NEW i \in 1..Len(Q) PROVE StPieceSound(Q, G, no, held, low, more, i)
    OBVIOUS
  <2>1. StPieceSound(Q, G, no, held, low, sent, i)
    BY DEF StChain
  <2> QED BY <2>1 DEF StPieceSound
<1>2. held # no => held \in G /\ held.n \in (low + 1)..more
  BY DEF StChain
<1>3. half # no => half \in G /\ half.n \in (low + 1)..more
  BY DEF StChain
<1> QED BY <1>1, <1>2, <1>3, Zenon DEF StChain

(* Such a step keeps what is known of the connection.                      *)
LEMMA WsSameKeeps == ASSUME WsTypes, WsTypes', NEW c \in WsFds, WsConn(c), WsSame(c) PROVE WsConn(c)'
<1>0. /\ wsSock'[c] = wsSock[c] /\ wsCtx'[c] = wsCtx[c] /\ wsFrame'[c] = wsFrame[c] /\ wsFrames'[c] = wsFrames[c]
      /\ wsGens' >= wsGens /\ wsSent' >= wsSent /\ wsGens \in Nat /\ wsGens' \in Nat /\ wsSent \in Nat /\ wsSent' \in Nat
      /\ wsSock[c] \in WsSockType
  BY WsAssumption DEF WsSame, WsSameData, WsTypes
<1>1. wsSock[c].gen \in Nat
  BY <1>0 DEF WsSockType
<1>2. wsSock'[c].gen <= wsGens' /\ (wsSock'[c].open => wsSock'[c].gen > 0)
  <2>1. wsSock[c].gen <= wsGens /\ (wsSock[c].open => wsSock[c].gen > 0)
    BY DEF WsConn
  <2> QED BY <1>0, <1>1, <2>1
<1>3. WsToken(c)' <=> WsToken(c)
  BY Zenon DEF WsSame, WsSameData, WsSameMoves, WsToken
<1>4. WsPolled(c)'
  <2>1. WsPolled(c)
    BY Zenon DEF WsConn
  <2>2. WsAttended(c) => WsAttended(c)'
    BY Zenon DEF WsAttended, WsSame, WsSameData, WsSameMoves
  <2> QED BY <2>1, <2>2, Zenon DEF WsPolled, WsSame, WsSameData, WsSameMoves
<1>5. WsUntouched(c) => WsUntouched(c)'
  BY DEF WsUntouched, WsSame, WsSameData, WsSameMoves
<1>6. WsFresh(c)'
  <2>1. WsFresh(c)
    BY Zenon DEF WsConn
  <2> QED BY <1>3, <1>5, <2>1, Zenon DEF WsFresh, WsSame, WsSameData, WsSameMoves
<1>7. WsEntering(c)'
  <2>1. WsEntering(c)
    BY Zenon DEF WsConn
  <2>2. WsOneToken(c) => WsOneToken(c)'
    BY Zenon DEF WsOneToken, WsSame, WsSameData, WsSameMoves
  <2>3. wsFd'["reader"] = c => wsClosing' = wsClosing
    BY DEF WsSame, WsSameData, WsSameMoves
  <2>4. Contains(wsBatch', c) => Contains(wsBatch, c)
    BY DEF WsSame, WsSameData, WsSameMoves
  <2>5. wsFd'["reader"] = c => wsFd["reader"] = c
    BY DEF WsSame, WsSameData, WsSameMoves
  <2> QED BY <1>0, <1>3, <1>5, <2>1, <2>2, <2>3, <2>4, <2>5, Zenon DEF WsEntering
<1>8. WsLeaving(c)'
  <2>1. WsLeaving(c)
    BY Zenon DEF WsConn
  <2>2. (\E t \in WsThreads : wsFd'[t] = c /\ wsPc'[t] = "close") => \E t \in WsThreads : wsFd[t] = c /\ wsPc[t] = "close"
    BY Zenon DEF WsSame, WsSameData, WsSameMoves
  <2>3. wsFd'["reader"] = c => wsFd["reader"] = c /\ wsTodo' = wsTodo
    BY DEF WsSame, WsSameData, WsSameMoves
  <2> QED BY <1>0, <2>1, <2>2, <2>3, Zenon DEF WsLeaving
<1>9. WsPendingSound(c)'
  <2>1. WsPendingSound(c)
    BY Zenon DEF WsConn
  <2> SUFFICES ASSUME NEW f \in WsFrameType, WsPending(c, f)'
               PROVE  /\ f.gen <= wsGens'
                      /\ f.safe /\ f.gen = wsSock'[c].gen => ~WsToken(c)' /\ (wsCtx'[c] # -1 => wsSock'[c].safe)
    BY Zenon DEF WsPendingSound
  <2>2. wsFd'["reader"] = c => wsFd["reader"] = c /\ wsTodo' = wsTodo
    BY DEF WsSame, WsSameData, WsSameMoves
  <2>3. WsPending(c, f)
    BY <1>0, <2>2 DEF WsPending
  <2>4. /\ f.gen <= wsGens
        /\ f.safe /\ f.gen = wsSock[c].gen => ~WsToken(c) /\ (wsCtx[c] # -1 => wsSock[c].safe)
    BY <2>1, <2>3, Zenon DEF WsPendingSound
  <2>5. f.gen \in Nat
    BY DEF WsFrameType
  <2>6. f.gen <= wsGens'
    BY <1>0, <2>4, <2>5
  <2> QED BY <1>0, <1>3, <2>4, <2>6, Zenon
<1>10. WsReading(c)'
  <2> SUFFICES ASSUME WsServed(c)'
               PROVE  \E low \in 0..wsSent' :
                         /\ StMessage(wsFrames'[c], WsOwn(c)', FALSE, low)
                         /\ StChain(WsStream(c)', WsOwn(c)', WsNone, wsFrame'[c], wsSock'[c].half, low, wsSent')
    BY Zenon DEF WsReading
  <2>1. wsFd'["reader"] = c <=> wsFd["reader"] = c
    BY DEF WsSame, WsSameData, WsSameMoves
  <2>2. wsFd["reader"] = c => wsTodo' = wsTodo /\ wsClosing' = wsClosing
    BY DEF WsSame, WsSameData, WsSameMoves
  <2>3. WsServed(c)
    BY <1>0, <2>1, <2>2 DEF WsServed
  <2>4. WsStream(c)' = WsStream(c) /\ WsOwn(c)' = WsOwn(c)
    BY <1>0, <2>1, <2>2, Zenon DEF WsStream, WsOwn
  <2>5. PICK low \in 0..wsSent : /\ StMessage(wsFrames[c], WsOwn(c), FALSE, low)
                                 /\ StChain(WsStream(c), WsOwn(c), WsNone, wsFrame[c], wsSock[c].half, low, wsSent)
    BY <2>3, Zenon DEF WsConn, WsReading
  <2>6. \A g \in WsOwn(c) : g.n \in Nat
    BY DEF WsOwn, WsFrameType
  <2>7. low \in Nat /\ low \in 0..wsSent'
    BY <1>0
  <2>8. StChain(WsStream(c), WsOwn(c), WsNone, wsFrame[c], wsSock[c].half, low, wsSent')
    <3> HIDE DEF WsStream, WsOwn
    <3> QED BY <1>0, <2>5, <2>6, <2>7, StWider
  <2> QED BY <1>0, <2>4, <2>5, <2>7, <2>8, Zenon
<1> QED BY <1>2, <1>4, <1>6, <1>7, <1>8, <1>9, <1>10, Zenon DEF WsConn

(* No goroutine moves.                                                     *)
LEMMA WsStaysSame == ASSUME NEW c, UNCHANGED <<wsPc, wsFd>> PROVE WsSameMoves(c)
BY DEF WsSameMoves, WsRemoving

(* One goroutine moves, and if it has the connection goes on with it.      *)
LEMMA WsMoveSame ==
  ASSUME WsTypes, NEW t \in WsThreads, NEW pc, NEW d, WsGoOn(t, pc, d), NEW c \in WsFds,
         t \in {"upgrader", "reader"} => (pc # "idle" /\ d = c <=> wsFd[t] = c),
         t \in {"pinger", "text"} /\ pc # "idle" /\ d = c => wsFd[t] = c \/ Contains(wsPing, c),
         wsFd[t] = c /\ t = "upgrader" /\ wsPc[t] = "register" => pc = "register",
         wsFd[t] = c /\ (wsPc[t] \in {"remove", "close"} \/ (t = "reader" /\ wsPc[t] = "frames")) =>
           d = c /\ (pc \in {"remove", "close"} \/ (t = "reader" /\ pc = "frames")),
         d = c /\ pc = "close" => wsFd[t] = c /\ wsPc[t] = "close"
  PROVE  WsSameMoves(c)
<1>1. /\ wsPc'[t] = pc /\ wsFd'[t] = (IF pc = "idle" THEN 0 ELSE d)
      /\ \A u \in WsThreads : u # t => wsPc'[u] = wsPc[u] /\ wsFd'[u] = wsFd[u]
  BY WsGoes
<1>2. c # 0 /\ "reader" \in WsThreads /\ "upgrader" \in WsThreads /\ "pinger" \in WsThreads /\ "text" \in WsThreads
  BY WsAssumption DEF WsThreads
<1>3. wsFd'[t] = c <=> pc # "idle" /\ d = c
  BY <1>1, <1>2
<1>4. wsFd'["upgrader"] = c <=> wsFd["upgrader"] = c
  BY <1>1, <1>2, <1>3
<1>5. wsFd["upgrader"] = c /\ wsPc["upgrader"] = "register" => wsPc'["upgrader"] = "register"
  BY <1>1, <1>2
<1>6. wsFd'["reader"] = c <=> wsFd["reader"] = c
  BY <1>1, <1>2, <1>3
<1>7. \A u \in {"pinger", "text"} : wsFd'[u] = c => wsFd[u] = c \/ Contains(wsPing, c)
  BY <1>1, <1>2, <1>3
<1>8. ASSUME WsRemoving(c) \/ (wsFd["reader"] = c /\ wsPc["reader"] = "frames")
      PROVE  WsRemoving(c)' \/ (wsFd'["reader"] = c /\ wsPc'["reader"] = "frames")
  <2>1. PICK u \in WsThreads : wsFd[u] = c /\ (wsPc[u] \in {"remove", "close"} \/ (u = "reader" /\ wsPc[u] = "frames"))
    BY <1>2, <1>8, Zenon DEF WsRemoving
  <2>2. wsFd'[u] = c /\ (wsPc'[u] \in {"remove", "close"} \/ (u = "reader" /\ wsPc'[u] = "frames"))
    <3>1. CASE u = t
      BY <1>1, <1>3, <2>1, <3>1
    <3>2. CASE u # t
      BY <1>1, <2>1, <3>2
    <3> QED BY <3>1, <3>2
  <2> QED BY <2>2, Zenon DEF WsRemoving
<1>9. \A u \in WsThreads : wsFd'[u] = c /\ wsPc'[u] = "close" => wsFd[u] = c /\ wsPc[u] = "close"
  BY <1>1, <1>3
<1> QED BY <1>4, <1>5, <1>6, <1>7, <1>8, <1>9, Zenon DEF WsSameMoves

(* What a step leaves that is not ClientManager's.                         *)
LEMMA WsManagedKept == ASSUME WsManaged, UNCHANGED <<wsAll, wsConns, wsCtx>>,
                              wsPc'["upgrader"] = "add" => wsPc["upgrader"] = "add" /\ wsFd'["upgrader"] = wsFd["upgrader"]
                       PROVE  WsManaged'
BY DEF WsManaged, WsManagerConsistent, WsAdding

(* And one that gives no message to a handler.                             *)
LEMMA WsGotKept == ASSUME WsReassembled, UNCHANGED wsGot PROVE WsReassembled'
BY Zenon DEF WsReassembled

(* Before the first connection.                                            *)
LEMMA WsInitInv == WsInit => WsInv
<1> SUFFICES ASSUME WsInit PROVE WsInv
  OBVIOUS
<1> USE WsAssumption
<1>1. WsTypes
  <2>1. /\ wsSock \in [WsFds -> WsSockType] /\ wsFrame \in [WsFds -> WsFrameType] /\ wsFrames \in [WsFds -> Seq(WsFrameType)]
        /\ wsTodo \in Seq(WsPieceType)
    BY WsNoneType DEF WsInit
  <2>2. wsGot \in [frags : Seq(WsFrameType), member : BOOLEAN]
    BY DEF WsInit
  <2>3. /\ wsPc \in [WsThreads -> {"idle", "register", "addRemove", "add", "frames", "remove", "close", "ping", "answer"}]
        /\ wsFd \in [WsThreads -> WsFds \cup {0}] /\ wsHeld \in WsFds \cup {0}
    <3>1. wsPc = [t \in WsThreads |-> "idle"] /\ wsFd = [t \in WsThreads |-> 0] /\ wsHeld = 0
      BY Zenon DEF WsInit
    <3> QED BY <3>1
  <2>4. /\ wsAll \in Seq(WsFds) /\ wsConns \in [WsUids \ {0} -> Seq(WsFds)] /\ wsCtx \in [WsFds -> WsUids \cup {-1}]
        /\ wsChan \in Seq(WsFds) /\ wsBatch \in Seq(WsFds) /\ wsPing \in Seq(WsFds)
    BY DEF WsInit
  <2>5. /\ wsPoll \in [WsFds -> {"none", "armed", "fired"}] /\ wsClosing \in BOOLEAN
        /\ wsGens \in 0..WsMaxGen /\ wsSent \in Nat /\ wsStop \in {"run", "stopped", "panic"}
    <3>1. wsPoll = [c \in WsFds |-> "none"] /\ wsGens = 0 /\ wsSent = 0 /\ wsStop = "run"
      BY DEF WsInit
    <3>2. wsClosing \in BOOLEAN
      BY Zenon DEF WsInit
    <3> QED BY <3>1, <3>2
  <2> QED BY <2>1, <2>2, <2>3, <2>4, <2>5, Zenon DEF WsTypes
<1>2. WsTurns
  BY DEF WsInit, WsTurns, WsThreads
<1>3. WsManaged
  <2>1. wsAll = <<>> /\ wsConns = [u \in WsUids \ {0} |-> <<>>] /\ wsPc["upgrader"] = "idle" /\ \A c \in WsFds : wsCtx[c] = -1
    BY DEF WsInit, WsThreads
  <2>2. ToSet(<<>>) = {} /\ IsInjective(<<>>)
    BY DEF ToSet, IsInjective
  <2>3. {c \in WsFds : wsCtx[c] # -1} = {}
    BY <2>1
  <2>4. ASSUME NEW u \in WsUids \ {0} PROVE {c \in WsFds : wsCtx[c] = u} = {}
    <3>1. u # -1
      OBVIOUS
    <3> QED BY <2>1, <3>1
  <2> QED BY <2>1, <2>2, <2>3, <2>4 DEF WsManaged, WsManagerConsistent, WsAdding
<1>4. ASSUME NEW c \in WsFds PROVE WsConn(c)
  <2>1. /\ wsSock[c] = WsClosed /\ wsPoll[c] = "none" /\ wsCtx[c] = -1 /\ wsFrame[c] = WsNone /\ wsFrames[c] = <<>>
        /\ wsChan = <<>> /\ wsBatch = <<>> /\ wsPing = <<>> /\ wsTodo = <<>> /\ wsHeld = 0 /\ wsGens = 0 /\ c # 0
        /\ \A t \in WsThreads : wsFd[t] = 0
    BY DEF WsInit
  <2>2. ~wsSock[c].open /\ wsSock[c].gen = 0 /\ wsSock[c].in = <<>> /\ wsSock[c].half = WsNone /\ ~wsSock[c].safe
    BY <2>1 DEF WsClosed
  <2>3. ~Contains(<<>>, c)
    BY DEF Contains
  <2>4. wsFd["upgrader"] # c /\ wsFd["reader"] # c /\ wsFd["pinger"] # c /\ wsFd["text"] # c
    BY <2>1 DEF WsThreads
  <2>5. WsUntouched(c) /\ ~WsToken(c)
    BY <2>1, <2>2, <2>3, <2>4 DEF WsUntouched, WsToken
  <2>6. \A f \in WsFrameType : WsPending(c, f) => f = WsNone
    BY <2>2, <2>4 DEF WsPending
  <2>7. WsPendingSound(c)
    BY <2>1, <2>6, WsNoneType DEF WsPendingSound
  <2>8. wsSock[c].gen <= wsGens /\ (wsSock[c].open => wsSock[c].gen > 0)
    BY <2>1, <2>2
  <2>9. WsPolled(c) /\ WsFresh(c) /\ WsEntering(c) /\ WsLeaving(c) /\ WsReading(c)
    BY <2>1, <2>2, <2>3, <2>4, <2>5, Zenon DEF WsPolled, WsFresh, WsEntering, WsLeaving, WsReading, WsServed
  <2> QED BY <2>7, <2>8, <2>9, Zenon DEF WsConn
<1>5. WsReassembled
  BY DEF WsInit, WsReassembled
<1> QED BY <1>1, <1>2, <1>3, <1>4, <1>5 DEF WsInv

-----------------------------------------------------------------------------
(* The steps, one by one.                                                  *)

(* Steps that concern no connection: those of the pinger and of the        *)
(* goroutine of a text message that remove nobody yet, and Stop.           *)
LEMMA WsAsideInv == ASSUME WsInv, WsPingTick \/ WsPingOne \/ WsTextAnswer \/ WsStopServer PROVE WsInv'
<1>0. WsTypes /\ WsTurns /\ WsManaged /\ WsReassembled /\ \A c \in WsFds : WsConn(c)
  BY Zenon DEF WsInv
<1>1. UNCHANGED <<wsSock, wsPoll, wsMgr, wsChan, wsBatch, wsTodo, wsClosing, wsHeld, wsGens, wsSent, wsGot>>
  BY Zenon DEF WsPingTick, WsPingOne, WsTextAnswer, WsStopServer
<1>2. /\ "pinger" \in WsThreads /\ "text" \in WsThreads /\ "upgrader" \in WsThreads /\ wsGens \in Nat /\ wsSent \in Nat
      /\ wsFd \in [WsThreads -> WsFds \cup {0}] /\ wsPing \in Seq(WsFds) /\ wsAll \in Seq(WsFds)
      /\ wsPc["pinger"] = "idle" => wsFd["pinger"] = 0
      /\ wsPc["text"] = "answer" => wsFd["text"] \in WsFds
  BY <1>0, WsAssumption DEF WsTypes, WsThreads, WsTurns
<1>3. ASSUME NEW c \in WsFds, Contains(wsPing', c) => Contains(wsPing, c) \/ wsCtx[c] # -1, wsStop' = "run" => wsStop = "run"
      PROVE  WsSameData(c)
  <2>1. /\ wsSock' = wsSock /\ wsPoll' = wsPoll /\ wsCtx' = wsCtx /\ wsFrame' = wsFrame /\ wsFrames' = wsFrames
        /\ wsChan' = wsChan /\ wsBatch' = wsBatch /\ wsTodo' = wsTodo /\ wsClosing' = wsClosing /\ wsHeld' = wsHeld
    BY <1>1, Zenon DEF wsMgr
  <2>2. wsGens' >= wsGens /\ wsSent' >= wsSent
    BY <1>1, <1>2
  <2> QED BY <1>3, <2>1, <2>2, Zenon DEF WsSameData
<1>4. ASSUME WsTypes', WsTurns', \A c \in WsFds : WsSame(c), wsPc'["upgrader"] = wsPc["upgrader"] /\ wsFd'["upgrader"] = wsFd["upgrader"]
      PROVE  WsInv'
  <2>1. \A c \in WsFds : WsConn(c)'
    BY <1>0, <1>4, WsSameKeeps
  <2>2. WsManaged'
    BY <1>0, <1>1, <1>4, WsManagedKept DEF wsMgr
  <2>3. WsReassembled'
    BY <1>0, <1>1, WsGotKept
  <2> QED BY <1>4, <2>1, <2>2, <2>3, Zenon DEF WsInv
<1>5. ASSUME wsPing' \in Seq(WsFds), wsFd' \in [WsThreads -> WsFds \cup {0}],
             wsPc' \in [WsThreads -> {"idle", "register", "addRemove", "add", "frames", "remove", "close", "ping", "answer"}],
             wsStop' \in {"run", "stopped", "panic"}
      PROVE  WsTypes'
  BY <1>0, <1>1, <1>5 DEF WsTypes, wsMgr
<1>6. CASE WsPingTick
  <2>1. WsGoOn("pinger", "ping", 0) /\ wsPing' = wsAll /\ wsPc["pinger"] = "idle" /\ wsFd["pinger"] = 0 /\ wsStop' = wsStop
    BY <1>2, <1>6 DEF WsPingTick, WsGo
  <2>2. WsTypes'
    BY <1>0, <1>2, <1>5, <2>1, WsGoes DEF WsTypes
  <2>3. WsTurns'
    BY <1>0, <1>1, <1>2, <2>1, WsTurned
  <2>4. ASSUME NEW c \in WsFds PROVE WsSame(c)
    <3>1. Contains(wsAll, c) => wsCtx[c] # -1
      BY <1>0, <1>2, WsElems DEF WsManaged, WsManagerConsistent
    <3>2. WsSameMoves(c)
      <4>1. c # 0
        BY WsAssumption
      <4> QED BY <1>0, <1>2, <2>1, <4>1, WsMoveSame
    <3>3. WsSameData(c)
      BY <1>3, <2>1, <3>1
    <3> QED BY <3>2, <3>3 DEF WsSame
  <2>5. wsPc'["upgrader"] = wsPc["upgrader"] /\ wsFd'["upgrader"] = wsFd["upgrader"]
    BY <1>0, <1>2, <2>1, WsGoes
  <2> QED BY <1>4, <2>2, <2>3, <2>4, <2>5
<1>7. CASE WsPingOne
  <2>1. wsPc["pinger"] = "ping" /\ wsStop' = wsStop
    BY <1>7 DEF WsPingOne
  <2>2. PICK pc \in {"idle", "ping", "remove"}, c0 \in WsFds \cup {0} :
          /\ WsGoOn("pinger", pc, c0) /\ wsPing' \in Seq(WsFds) /\ \A c : Contains(wsPing', c) => Contains(wsPing, c)
          /\ pc = "idle" \/ (c0 \in WsFds /\ Contains(wsPing, c0))
    <3>1. CASE wsPing = <<>>
      <4>1. WsGoOn("pinger", "idle", wsFd["pinger"]) /\ wsPing' = wsPing /\ wsFd["pinger"] \in WsFds \cup {0}
        BY <1>2, <1>7, <3>1 DEF WsPingOne, WsGo
      <4> QED BY <1>2, <4>1
    <3>2. CASE wsPing # <<>>
      <4>1. wsPing' = Tail(wsPing) /\ \E sent \in WsSendOutcomes(Head(wsPing)) :
               WsGoOn("pinger", IF sent = "ok" THEN "ping" ELSE "remove", Head(wsPing))
        BY <1>7, <3>2 DEF WsPingOne
      <4>2. Head(wsPing) \in WsFds /\ wsPing' \in Seq(WsFds) /\ Contains(wsPing, Head(wsPing))
            /\ \A c : Contains(wsPing', c) => Contains(wsPing, c)
        BY <1>2, <3>2, <4>1, WsTailed
      <4>3. \E pc \in {"idle", "ping", "remove"} : WsGoOn("pinger", pc, Head(wsPing))
        BY <4>1
      <4> QED BY <4>2, <4>3
    <3> QED BY <3>1, <3>2
  <2>3. WsTypes'
    BY <1>0, <1>2, <1>5, <2>1, <2>2, WsGoes, ZenonT(60) DEF WsTypes
  <2>4. WsTurns'
    BY <1>0, <1>1, <1>2, <2>2, WsTurned
  <2>5. ASSUME NEW c \in WsFds PROVE WsSame(c)
    <3>1. WsSameMoves(c)
      BY <1>0, <1>2, <2>1, <2>2, WsMoveSame
    <3>2. WsSameData(c)
      BY <1>3, <2>1, <2>2
    <3> QED BY <3>1, <3>2 DEF WsSame
  <2>6. wsPc'["upgrader"] = wsPc["upgrader"] /\ wsFd'["upgrader"] = wsFd["upgrader"]
    BY <1>0, <1>2, <2>2, WsGoes
  <2> QED BY <1>4, <2>3, <2>4, <2>5, <2>6
<1>8. CASE WsTextAnswer
  <2>1. wsPc["text"] = "answer" /\ wsPing' = wsPing /\ wsStop' = wsStop /\ wsFd["text"] \in WsFds
    BY <1>2, <1>8 DEF WsTextAnswer
  <2>2. PICK pc \in {"idle", "remove"} : WsGoOn("text", pc, wsFd["text"])
    BY <1>8 DEF WsTextAnswer, WsGo
  <2>3. WsTypes'
    BY <1>0, <1>2, <1>5, <2>1, <2>2, WsGoes, ZenonT(60) DEF WsTypes
  <2>4. WsTurns'
    BY <1>0, <1>1, <1>2, <2>1, <2>2, WsTurned
  <2>5. ASSUME NEW c \in WsFds PROVE WsSame(c)
    <3>1. WsSameMoves(c)
      BY <1>0, <1>2, <2>1, <2>2, WsMoveSame
    <3>2. WsSameData(c)
      BY <1>3, <2>1
    <3> QED BY <3>1, <3>2 DEF WsSame
  <2>6. wsPc'["upgrader"] = wsPc["upgrader"] /\ wsFd'["upgrader"] = wsFd["upgrader"]
    BY <1>0, <1>2, <2>2, WsGoes
  <2> QED BY <1>4, <2>3, <2>4, <2>5, <2>6
<1>9. CASE WsStopServer
  <2>1. wsPc' = wsPc /\ wsFd' = wsFd /\ wsPing' = wsPing /\ wsStop = "run" /\ wsStop' = "stopped"
    BY <1>9 DEF WsStopServer
  <2>3. WsTypes'
    BY <1>0, <1>5, <2>1 DEF WsTypes
  <2>4. WsTurns'
    BY <1>0, <1>1, <2>1, WsStays
  <2>5. ASSUME NEW c \in WsFds PROVE WsSame(c)
    BY <1>3, <2>1, WsStaysSame DEF WsSame
  <2> QED BY <1>4, <2>1, <2>3, <2>4, <2>5
<1> QED BY <1>6, <1>7, <1>8, <1>9

(* Accept: the connection is new on its descriptor, and in the hands of    *)
(* the accept loop.                                                        *)
LEMMA WsAcceptInv == ASSUME WsInv, WsAccept PROVE WsInv'
<1>0. WsTypes /\ WsTurns /\ WsManaged /\ WsReassembled /\ \A c \in WsFds : WsConn(c)
  BY Zenon DEF WsInv
<1>1. PICK c \in WsFds :
        /\ wsGens < WsMaxGen /\ wsHeld = 0 /\ ~wsSock[c].open
        /\ wsGens' = wsGens + 1 /\ wsHeld' = c
        /\ wsSock' = [wsSock EXCEPT ![c] = [WsClosed EXCEPT !.open = TRUE, !.gen = wsGens + 1, !.up = TRUE,
                                                            !.safe = (wsSock[c].gen = 0)]]
        /\ UNCHANGED <<wsPoll, wsMgr, wsChan, wsPc, wsFd, wsBatch, wsTodo, wsClosing, wsPing, wsSent, wsGot, wsStop>>
  BY Zenon DEF WsAccept
<1> DEFINE x == [WsClosed EXCEPT !.open = TRUE, !.gen = wsGens + 1, !.up = TRUE, !.safe = (wsSock[c].gen = 0)]
<1>2. /\ wsSock \in [WsFds -> WsSockType] /\ wsGens \in Nat /\ wsSent \in Nat /\ WsMaxGen \in Nat /\ c # 0
      /\ wsFd \in [WsThreads -> WsFds \cup {0}]
  BY <1>0, WsAssumption DEF WsTypes
<1>3. x \in WsSockType /\ x.gen = wsGens + 1 /\ x.in = <<>> /\ x.half = WsNone /\ (x.safe <=> wsSock[c].gen = 0) /\ x.open
  <2>1. WsClosed \in WsSockType /\ (wsSock[c].gen = 0) \in BOOLEAN
    BY WsNoneType
  <2>2. WsClosed.in = <<>> /\ WsClosed.half = WsNone
    BY DEF WsClosed
  <2>3. PICK b \in BOOLEAN : b = (wsSock[c].gen = 0)
    BY <2>1
  <2>4. x = [WsClosed EXCEPT !.open = TRUE, !.gen = wsGens + 1, !.up = TRUE, !.safe = b]
    BY <2>3
  <2> HIDE DEF x
  <2>5. x \in WsSockType /\ x.gen = wsGens + 1 /\ x.in = WsClosed.in /\ x.half = WsClosed.half /\ x.safe = b /\ x.open = TRUE
    <3>g. PICK g \in Nat : g = wsGens + 1
      BY <1>2
    <3> DEFINE y == [WsClosed EXCEPT !.open = TRUE]
               z == [y EXCEPT !.gen = g]
               w == [z EXCEPT !.up = TRUE]
    <3>1. y \in WsSockType /\ y.open = TRUE /\ y.in = WsClosed.in /\ y.half = WsClosed.half
      BY <2>1 DEF WsSockType
    <3> HIDE DEF y
    <3>2. z \in WsSockType /\ z.open = TRUE /\ z.in = WsClosed.in /\ z.half = WsClosed.half /\ z.gen = wsGens + 1
      BY <3>g, <3>1 DEF WsSockType
    <3> HIDE DEF z
    <3>3. w \in WsSockType /\ w.open = TRUE /\ w.in = WsClosed.in /\ w.half = WsClosed.half /\ w.gen = wsGens + 1
      BY <3>2 DEF WsSockType
    <3>4. x = [w EXCEPT !.safe = b]
      BY <2>4, <3>g, Zenon DEF y, z, w
    <3> HIDE DEF w
    <3> QED BY <3>3, <3>4 DEF WsSockType
  <2> QED BY <2>2, <2>3, <2>5
<1> HIDE DEF x
<1>4. wsSock' = [wsSock EXCEPT ![c] = x]
  BY <1>1 DEF x
<1>5. wsSock' \in [WsFds -> WsSockType] /\ wsSock'[c] = x /\ \A d \in WsFds : d # c => wsSock'[d] = wsSock[d]
  BY <1>2, <1>3, <1>4
<1>6. WsTypes'
  <2>1. wsGens' \in 0..WsMaxGen /\ wsHeld' \in WsFds \cup {0}
    BY <1>1, <1>2
  <2> QED BY <1>0, <1>1, <1>5, <2>1 DEF WsTypes, wsMgr
<1>7. WsTurns'
  BY <1>0, <1>1, WsStays
<1>8. WsManaged'
  BY <1>0, <1>1, WsManagedKept DEF wsMgr
<1>9. WsReassembled'
  BY <1>0, <1>1, WsGotKept
<1>10. ASSUME NEW d \in WsFds, d # c PROVE WsConn(d)'
  <2>1. d # 0
    BY WsAssumption
  <2>2. wsGens' >= wsGens /\ wsSent' >= wsSent
    BY <1>1, <1>2
  <2>3. WsSameData(d)
    BY <1>1, <1>5, <1>10, <2>1, <2>2 DEF WsSameData, wsMgr
  <2>4. WsSame(d)
    BY <1>1, <2>3, WsStaysSame DEF WsSame
  <2> QED BY <1>0, <1>6, <2>4, WsSameKeeps
<1>11. WsConn(c)'
  <2>1. /\ wsSock[c].gen \in Nat /\ wsSock'[c].gen = wsGens + 1 /\ wsSock'[c].in = <<>> /\ wsSock'[c].half = WsNone
        /\ (wsSock'[c].safe <=> wsSock[c].gen = 0) /\ wsSock'[c].open
    BY <1>2, <1>3, <1>5 DEF WsSockType
  <2>2. /\ wsPoll' = wsPoll /\ wsCtx' = wsCtx /\ wsFrame' = wsFrame /\ wsFrames' = wsFrames /\ wsChan' = wsChan
        /\ wsPc' = wsPc /\ wsFd' = wsFd /\ wsBatch' = wsBatch /\ wsTodo' = wsTodo /\ wsPing' = wsPing
    BY <1>1 DEF wsMgr
  <2>3. WsFresh(c) /\ WsPendingSound(c) /\ WsPolled(c)
    BY <1>0, Zenon DEF WsConn
  <2>4. wsSock'[c].gen <= wsGens' /\ wsSock'[c].gen > 0
    BY <1>1, <1>2, <2>1
  <2>5. WsPolled(c)'
    BY <1>1, <2>1, Zenon DEF WsPolled
  <2>6. WsFresh(c)'
    <3>1. wsSock'[c].gen # 0
      BY <1>2, <2>1
    <3> QED BY <3>1, Zenon DEF WsFresh
  <2>7. ASSUME wsSock'[c].safe PROVE WsUntouched(c)' /\ WsOneToken(c)' /\ wsFd["reader"] # c /\ ~Contains(wsBatch, c)
    <3>1. WsUntouched(c) /\ ~WsToken(c) /\ wsFd["reader"] # c /\ ~Contains(wsBatch, c)
      BY <2>1, <2>3, <2>7, Zenon DEF WsFresh
    <3>2. WsUntouched(c)'
      BY <2>1, <2>2, <3>1, Zenon DEF WsUntouched
    <3>3. WsOneToken(c)'
      BY <2>2, <3>1, Zenon DEF WsOneToken, WsToken
    <3> QED BY <3>1, <3>2, <3>3
  <2>8. WsEntering(c)'
    BY <2>2, <2>7, Zenon DEF WsEntering
  <2>9. wsSock'[c].safe => wsCtx'[c] = -1
    BY <2>7, Zenon DEF WsUntouched
  <2>10. WsLeaving(c)' /\ WsReading(c)'
    BY <2>9, Zenon DEF WsLeaving, WsReading, WsServed
  <2>11. WsPendingSound(c)'
    <3> SUFFICES ASSUME NEW f \in WsFrameType, WsPending(c, f)'
                 PROVE  f.gen <= wsGens' /\ f.gen # wsSock'[c].gen
      BY Zenon DEF WsPendingSound
    <3>1. f = WsNone \/ WsPending(c, f)
      BY <2>1, <2>2 DEF WsPending
    <3>2. f.gen <= wsGens /\ f.gen \in Nat
      <4>1. f.gen \in Nat
        BY DEF WsFrameType
      <4>2. CASE f = WsNone
        BY <1>2, <4>1, <4>2, WsNoneType
      <4>3. CASE WsPending(c, f)
        BY <2>3, <4>1, <4>3, Zenon DEF WsPendingSound
      <4> QED BY <3>1, <4>2, <4>3
    <3> QED BY <1>1, <1>2, <2>1, <3>2
  <2> QED BY <2>1, <2>4, <2>5, <2>6, <2>8, <2>10, <2>11, Zenon DEF WsConn
<1>12. \A d \in WsFds : WsConn(d)'
  BY <1>10, <1>11
<1> QED BY <1>6, <1>7, <1>8, <1>9, <1>12, Zenon DEF WsInv

(* A step that hands a connection on, from the accept loop to chUpgrade    *)
(* or from there to the upgrader: nothing else of it changes.              *)
LEMMA WsHandedOn ==
  ASSUME WsTypes, WsTypes', NEW c \in WsFds, WsConn(c), WsToken(c),
         UNCHANGED <<wsSock, wsMgr, wsBatch, wsTodo, wsClosing, wsPing, wsGens, wsSent>>,
         \A t \in WsThreads : t # "upgrader" => wsPc'[t] = wsPc[t] /\ wsFd'[t] = wsFd[t],
         wsFd'["upgrader"] = c => wsPc'["upgrader"] # "close",
         WsPolled(c)', WsOneToken(c) => WsOneToken(c)'
  PROVE  WsConn(c)'
<1>0. /\ wsSock' = wsSock /\ wsCtx' = wsCtx /\ wsFrame' = wsFrame /\ wsFrames' = wsFrames
      /\ wsBatch' = wsBatch /\ wsTodo' = wsTodo /\ wsClosing' = wsClosing /\ wsPing' = wsPing /\ wsGens' = wsGens /\ wsSent' = wsSent
  BY DEF wsMgr
<1>1. /\ wsFd'["reader"] = wsFd["reader"] /\ wsFd'["pinger"] = wsFd["pinger"] /\ wsFd'["text"] = wsFd["text"]
      /\ wsPc'["reader"] = wsPc["reader"]
  BY DEF WsThreads
<1>2. /\ wsSock[c].gen <= wsGens /\ (wsSock[c].open => wsSock[c].gen > 0)
      /\ WsPolled(c) /\ WsFresh(c) /\ WsEntering(c) /\ WsLeaving(c) /\ WsPendingSound(c) /\ WsReading(c)
  BY Zenon DEF WsConn
<1>3. wsSock[c].gen # 0
  BY <1>2, Zenon DEF WsFresh
<1>4. WsFresh(c)'
  BY <1>0, <1>3, Zenon DEF WsFresh
<1>6. WsUntouched(c) => WsUntouched(c)'
  BY <1>0, <1>1, Zenon DEF WsUntouched
<1>7. WsEntering(c)'
  <2>1. wsClosing => wsClosing'
    BY <1>0
  <2> QED BY <1>0, <1>1, <1>2, <1>6, <2>1, Zenon DEF WsEntering
<1>8. (\E t \in WsThreads : wsFd'[t] = c /\ wsPc'[t] = "close") => \E t \in WsThreads : wsFd[t] = c /\ wsPc[t] = "close"
  OBVIOUS
<1>9. WsLeaving(c)'
  BY <1>0, <1>1, <1>2, <1>8, Zenon DEF WsLeaving
<1>10. WsPendingSound(c)'
  <2>1. \A f \in WsFrameType : WsPending(c, f)' => WsPending(c, f)
    BY <1>0, <1>1, Zenon DEF WsPending
  <2>2. \A f \in WsFrameType : WsPending(c, f) => f.gen <= wsGens /\ ~(f.safe /\ f.gen = wsSock[c].gen)
    BY <1>2, Zenon DEF WsPendingSound
  <2> QED BY <1>0, <2>1, <2>2, Zenon DEF WsPendingSound
<1>11. WsReading(c)'
  <2>1. WsServed(c)' => WsServed(c)
    BY <1>0, <1>1 DEF WsServed
  <2>2. WsStream(c)' = WsStream(c) /\ WsOwn(c)' = WsOwn(c)
    BY <1>0, <1>1, Zenon DEF WsStream, WsOwn
  <2> QED BY <1>0, <1>2, <2>1, <2>2, Zenon DEF WsReading
<1> QED BY <1>0, <1>2, <1>4, <1>7, <1>9, <1>10, <1>11, Zenon DEF WsConn

(* A descriptor in someone's hands has had a connection.                   *)
LEMMA WsUsed == ASSUME NEW c, WsConn(c), WsToken(c) \/ Contains(wsBatch, c) \/ \E t \in WsThreads : wsFd[t] = c
                PROVE  wsSock[c].gen # 0
<1>1. WsFresh(c)
  BY Zenon DEF WsConn
<1>2. \A t \in WsThreads : t \in {"upgrader", "reader", "pinger", "text"}
  BY DEF WsThreads
<1> QED BY <1>1, <1>2, Zenon DEF WsFresh, WsUntouched, WsToken

(* A connection that is closed.                                            *)
LEMMA WsClosedConn ==
  ASSUME WsTypes, NEW c \in WsFds, WsConn(c), WsCloseFd(c), WsToken(c) \/ \E t \in WsThreads : wsFd[t] = c /\ wsPc[t] = "close",
         wsCtx' = wsCtx, wsGens' = wsGens, wsTodo' = wsTodo, wsFd'["reader"] = c => wsFd["reader"] = c, WsToken(c)' => WsToken(c)
  PROVE  WsConn(c)'
<1>0. /\ ~wsSock'[c].open /\ wsSock'[c].gen = wsSock[c].gen /\ wsSock'[c].in = <<>> /\ wsSock'[c].half = WsNone
      /\ ~wsSock'[c].safe /\ wsPoll'[c] = "none"
  BY WsCloses
<1>1. wsSock[c].gen # 0
  BY WsUsed
<1>2. wsSock[c].gen <= wsGens /\ WsLeaving(c) /\ WsPendingSound(c)
  BY Zenon DEF WsConn
<1>3. WsPolled(c)' /\ WsFresh(c)' /\ WsEntering(c)' /\ WsLeaving(c)' /\ WsReading(c)'
  BY <1>0, <1>1, Zenon DEF WsPolled, WsFresh, WsEntering, WsLeaving, WsReading, WsServed
<1>4. WsPendingSound(c)'
  <2> SUFFICES ASSUME NEW f \in WsFrameType, WsPending(c, f)'
               PROVE  f.gen <= wsGens /\ (f.safe /\ f.gen = wsSock[c].gen => ~WsToken(c)' /\ wsCtx[c] = -1)
    BY <1>0, Zenon DEF WsPendingSound
  <2>1. CASE f = WsNone
    <3>1. wsGens \in Nat
      BY WsAssumption DEF WsTypes
    <3> QED BY <2>1, <3>1, WsNoneType
  <2>2. CASE f # WsNone
    <3>1. wsFd'["reader"] = c /\ \E i \in 1..Len(wsTodo) : wsTodo[i].f = f
      BY <1>0, <2>2 DEF WsPending
    <3>2. wsFd["reader"] = c /\ WsPending(c, f) /\ wsTodo # <<>>
      <4>1. wsFd["reader"] = c /\ WsPending(c, f)
        BY <3>1, Zenon DEF WsPending
      <4>2. wsTodo # <<>>
        BY <3>1
      <4> QED BY <4>1, <4>2
    <3>3. f.gen <= wsGens /\ (f.safe /\ f.gen = wsSock[c].gen => ~WsToken(c) /\ (wsCtx[c] # -1 => wsSock[c].safe))
      BY <1>2, <3>2, Zenon DEF WsPendingSound
    <3> QED BY <1>2, <3>2, <3>3, Zenon DEF WsLeaving
  <2> QED BY <2>1, <2>2
<1> QED BY <1>0, <1>2, <1>3, <1>4, Zenon DEF WsConn

(* A connection that leaves ClientManager.                                 *)
LEMMA WsUnlisted ==
  ASSUME WsTypes, NEW c \in WsFds, WsConn(c), \E t \in WsThreads : wsFd[t] = c,
         wsCtx'[c] = -1, wsFrame'[c] = WsNone, wsFrames'[c] = <<>>, WsPolled(c)',
         UNCHANGED <<wsSock, wsChan, wsFd, wsBatch, wsTodo, wsClosing, wsHeld, wsPing, wsGens, wsSent>>
  PROVE  WsConn(c)'
<1>0. wsSock[c].gen # 0
  BY WsUsed
<1>1. wsSock[c].gen <= wsGens /\ (wsSock[c].open => wsSock[c].gen > 0) /\ WsEntering(c) /\ WsPendingSound(c)
  BY Zenon DEF WsConn
<1>2. WsFresh(c)' /\ WsLeaving(c)' /\ WsReading(c)'
  BY <1>0, Zenon DEF WsFresh, WsLeaving, WsReading, WsServed
<1>3. WsToken(c)' <=> WsToken(c)
  BY Zenon DEF WsToken
<1>4. WsEntering(c)'
  <2>1. WsUntouched(c) => WsUntouched(c)'
    BY Zenon DEF WsUntouched
  <2>2. WsOneToken(c) => WsOneToken(c)'
    BY Zenon DEF WsOneToken
  <2>3. wsClosing => wsClosing'
    OBVIOUS
  <2> QED BY <1>1, <1>3, <2>1, <2>2, <2>3, Zenon DEF WsEntering
<1>5. WsPendingSound(c)'
  <2>1. \A f \in WsFrameType : WsPending(c, f)' => WsPending(c, f)
    BY Zenon DEF WsPending
  <2> QED BY <1>1, <1>3, <2>1, Zenon DEF WsPendingSound
<1> QED BY <1>1, <1>2, <1>4, <1>5, Zenon DEF WsConn

(* SendUpgrade: the accept loop gives the connection to the upgrader.      *)
LEMMA WsSendUpgradeInv == ASSUME WsInv, WsSendUpgrade PROVE WsInv'
<1>0. WsTypes /\ WsTurns /\ WsManaged /\ WsReassembled /\ \A c \in WsFds : WsConn(c)
  BY Zenon DEF WsInv
<1>1. /\ wsHeld # 0 /\ wsHeld' = 0
      /\ IF wsStop = "run" THEN wsChan' = Append(wsChan, wsHeld) /\ UNCHANGED wsStop
         ELSE wsStop' = "panic" /\ UNCHANGED wsChan
      /\ UNCHANGED <<wsSock, wsPoll, wsMgr, wsPc, wsFd, wsBatch, wsTodo, wsClosing, wsPing, wsGens, wsSent, wsGot>>
  BY DEF WsSendUpgrade
<1>2. wsChan \in Seq(WsFds) /\ wsGens \in Nat /\ wsSent \in Nat
  BY <1>0, WsAssumption DEF WsTypes
<1>c. PICK c \in WsFds : c = wsHeld
  BY <1>0, <1>1 DEF WsTypes
<1>3. /\ wsChan' \in Seq(WsFds) /\ wsStop' \in {"run", "stopped", "panic"} /\ (wsStop' = "run" => wsStop = "run" /\ Contains(wsChan', c))
      /\ \A d : d # c => (Contains(wsChan', d) <=> Contains(wsChan, d))
      /\ \A d : d # c /\ (\A i, j \in 1..Len(wsChan) : wsChan[i] = d /\ wsChan[j] = d => i = j) =>
                         (\A i, j \in 1..Len(wsChan') : wsChan'[i] = d /\ wsChan'[j] = d => i = j)
      /\ ~Contains(wsChan, c) => \A i, j \in 1..Len(wsChan') : wsChan'[i] = c /\ wsChan'[j] = c => i = j
  <2>1. CASE wsStop = "run"
    <3>1. wsChan' = Append(wsChan, c) /\ wsStop' = wsStop
      BY <1>1, <1>c, <2>1
    <3>2. /\ wsChan' \in Seq(WsFds) /\ Len(wsChan') = Len(wsChan) + 1 /\ wsChan'[Len(wsChan) + 1] = c /\ Len(wsChan) \in Nat
          /\ \A i \in 1..Len(wsChan) : wsChan'[i] = wsChan[i]
      BY <1>2, <3>1
    <3> QED BY <2>1, <3>1, <3>2 DEF Contains
  <2>2. CASE wsStop # "run"
    <3>1. wsChan' = wsChan /\ wsStop' = "panic"
      BY <1>1, <2>2
    <3> QED BY <1>2, <3>1 DEF Contains
  <2> QED BY <2>1, <2>2
<1>4. WsTypes'
  <2>1. wsHeld' \in WsFds \cup {0}
    BY <1>1
  <2> QED BY <1>0, <1>1, <1>3, <2>1 DEF WsTypes, wsMgr
<1>5. WsTurns'
  BY <1>0, <1>1, WsStays
<1>6. WsManaged'
  BY <1>0, <1>1, WsManagedKept DEF wsMgr
<1>7. WsReassembled'
  BY <1>0, <1>1, WsGotKept
<1>8. ASSUME NEW d \in WsFds, d # c PROVE WsConn(d)'
  <2>1. d # 0 /\ (wsHeld' = d <=> wsHeld = d)
    BY <1>1, <1>c, <1>8, WsAssumption
  <2>2. wsGens' >= wsGens /\ wsSent' >= wsSent
    BY <1>1, <1>2
  <2>3. WsSameData(d)
    BY <1>1, <1>3, <1>8, <2>1, <2>2 DEF WsSameData, wsMgr
  <2>4. WsSame(d)
    BY <1>1, <2>3, WsStaysSame DEF WsSame
  <2> QED BY <1>0, <1>4, <2>4, WsSameKeeps
<1>9. WsConn(c)'
  <2>1. WsToken(c) /\ c # 0
    BY <1>1, <1>c DEF WsToken
  <2>2. WsConn(c) /\ WsPolled(c) /\ wsHeld = c
    BY <1>0, <1>c, Zenon DEF WsConn
  <2>3. UNCHANGED <<wsSock, wsPoll, wsMgr, wsPc, wsFd, wsBatch, wsTodo, wsClosing, wsPing, wsGens, wsSent>>
    BY <1>1
  <2>4. WsPolled(c)'
    BY <1>3, <2>2, <2>3, Zenon DEF WsPolled
  <2>5. WsOneToken(c) => WsOneToken(c)'
    BY <1>1, <1>3, <2>1, <2>2, <2>3, Zenon DEF WsOneToken
  <2>6. wsFd'["upgrader"] = c => wsPc'["upgrader"] # "close"
    BY <1>0, <2>3 DEF WsTurns
  <2> QED BY <1>0, <1>2, <1>4, <2>1, <2>2, <2>3, <2>4, <2>5, <2>6, WsHandedOn
<1>10. \A d \in WsFds : WsConn(d)'
  BY <1>8, <1>9
<1> QED BY <1>4, <1>5, <1>6, <1>7, <1>10, Zenon DEF WsInv

(* Upgrade: the upgrader takes a connection, and closes it when the        *)
(* handshake fails.                                                        *)
LEMMA WsUpgradeInv == ASSUME WsInv, WsUpgrade PROVE WsInv'
<1>0. WsTypes /\ WsTurns /\ WsManaged /\ WsReassembled /\ \A c \in WsFds : WsConn(c)
  BY Zenon DEF WsInv
<1>1. PICK ok \in BOOLEAN :
        /\ wsPc["upgrader"] = "idle" /\ wsChan # <<>> /\ wsChan' = Tail(wsChan)
        /\ ~ok => WsCloseFd(Head(wsChan))
        /\ ok => UNCHANGED <<wsSock, wsPoll>>
        /\ WsGoOn("upgrader", IF ok THEN "register" ELSE "idle", Head(wsChan))
        /\ UNCHANGED <<wsMgr, wsBatch, wsTodo, wsClosing, wsHeld, wsPing, wsGens, wsSent, wsGot, wsStop>>
  BY DEF WsUpgrade
<1>2. /\ wsChan \in Seq(WsFds) /\ wsGens \in Nat /\ wsSent \in Nat /\ "upgrader" \in WsThreads /\ "reader" \in WsThreads
      /\ wsFd["upgrader"] = 0
  BY <1>0, <1>1, WsAssumption DEF WsTypes, WsThreads, WsTurns
<1>c. PICK c \in WsFds : c = Head(wsChan)
  BY <1>1, <1>2, WsTailed
<1>3. /\ wsChan' \in Seq(WsFds) /\ Contains(wsChan, c)
      /\ \A d : d # c => (Contains(wsChan', d) <=> Contains(wsChan, d))
      /\ \A d : Contains(wsChan', d) /\ (\A i, j \in 1..Len(wsChan) : wsChan[i] = d /\ wsChan[j] = d => i = j) =>
           d # c /\ (\A i, j \in 1..Len(wsChan') : wsChan'[i] = d /\ wsChan'[j] = d => i = j)
      /\ Contains(wsChan', c) => Contains(wsChan, c)
  BY <1>1, <1>2, <1>c, WsTailed
<1>d. ASSUME NEW d, d # c, \A i, j \in 1..Len(wsChan) : wsChan[i] = d /\ wsChan[j] = d => i = j
      PROVE  \A i, j \in 1..Len(wsChan') : wsChan'[i] = d /\ wsChan'[j] = d => i = j
  <2>1. CASE Contains(wsChan', d)
    BY <1>3, <1>d, <2>1, Zenon
  <2>2. CASE ~Contains(wsChan', d)
    BY <2>2 DEF Contains
  <2> QED BY <2>1, <2>2
<1>4. PICK pc \in {"register", "idle"} : /\ WsGoOn("upgrader", pc, c) /\ (pc = "register" => UNCHANGED <<wsSock, wsPoll>>)
                                         /\ pc = "idle" => WsCloseFd(c)
  BY <1>1, <1>c
<1>5. /\ wsSock' \in [WsFds -> WsSockType] /\ wsPoll' \in [WsFds -> {"none", "armed", "fired"}]
      /\ \A d \in WsFds : d # c => wsSock'[d] = wsSock[d] /\ wsPoll'[d] = wsPoll[d]
  <2>1. CASE pc = "register"
    BY <1>0, <1>4, <2>1 DEF WsTypes
  <2>2. CASE pc = "idle"
    BY <1>0, <1>4, <2>2, WsCloses
  <2> QED BY <2>1, <2>2
<1>6. /\ wsPc'["upgrader"] = pc /\ wsFd'["upgrader"] = (IF pc = "idle" THEN 0 ELSE c)
      /\ \A u \in WsThreads : u # "upgrader" => wsPc'[u] = wsPc[u] /\ wsFd'[u] = wsFd[u]
  BY <1>0, <1>2, <1>4, WsGoes
<1>7. WsTypes'
  <2>1. /\ wsPc' \in [WsThreads -> {"idle", "register", "addRemove", "add", "frames", "remove", "close", "ping", "answer"}]
        /\ wsFd' \in [WsThreads -> WsFds \cup {0}]
    BY <1>0, <1>2, <1>4, WsGoes
  <2> QED BY <1>0, <1>1, <1>3, <1>5, <2>1 DEF WsTypes, wsMgr
<1>8. WsTurns'
  BY <1>0, <1>1, <1>2, <1>4, WsTurned
<1>9. WsManaged'
  BY <1>0, <1>1, <1>6, WsManagedKept DEF wsMgr
<1>10. WsReassembled'
  BY <1>0, <1>1, WsGotKept
<1>11. ASSUME NEW d \in WsFds, d # c PROVE WsConn(d)'
  <2>1. d # 0
    BY WsAssumption
  <2>2. wsGens' >= wsGens /\ wsSent' >= wsSent
    BY <1>1, <1>2
  <2>3. WsSameData(d)
    BY <1>1, <1>3, <1>d, <1>5, <1>11, <2>2 DEF WsSameData, wsMgr
  <2>4. WsSameMoves(d)
    BY <1>0, <1>2, <1>4, <1>11, <2>1, WsMoveSame
  <2> QED BY <1>0, <1>7, <2>3, <2>4, WsSameKeeps DEF WsSame
<1>12. WsConn(c)'
  <2>0. c # 0 /\ WsConn(c) /\ WsToken(c)
    BY <1>0, <1>3, WsAssumption DEF WsToken
  <2>1. CASE pc = "register"
    <3>1. UNCHANGED <<wsSock, wsMgr, wsBatch, wsTodo, wsClosing, wsPing, wsGens, wsSent>> /\ wsPoll' = wsPoll /\ wsHeld' = wsHeld
      BY <1>1, <1>4, <2>1
    <3>2. wsFd'["upgrader"] = c /\ wsPc'["upgrader"] = "register"
      BY <1>6, <2>1
    <3>3. WsPolled(c)'
      <4>1. WsPolled(c)
        BY <2>0, Zenon DEF WsConn
      <4> QED BY <3>1, <3>2, <4>1, Zenon DEF WsPolled
    <3>4. WsOneToken(c) => WsOneToken(c)'
      BY <1>3, <3>1, Zenon DEF WsOneToken
    <3> QED BY <1>0, <1>6, <1>7, <2>0, <3>1, <3>2, <3>3, <3>4, WsHandedOn
  <2>2. CASE pc = "idle"
    <3>1. WsCloseFd(c) /\ wsCtx' = wsCtx /\ wsGens' = wsGens /\ wsTodo' = wsTodo /\ wsFd'["reader"] = wsFd["reader"]
      BY <1>1, <1>2, <1>4, <1>6, <2>2 DEF wsMgr
    <3> QED BY <1>0, <2>0, <3>1, WsClosedConn
  <2> QED BY <2>1, <2>2
<1>13. \A d \in WsFds : WsConn(d)'
  BY <1>11, <1>12
<1> QED BY <1>7, <1>8, <1>9, <1>10, <1>13, Zenon DEF WsInv

(* Register: the connection is armed in epoll, or closed.                  *)
LEMMA WsRegisterInv == ASSUME WsInv, WsRegister PROVE WsInv'
<1>0. WsTypes /\ WsTurns /\ WsManaged /\ WsReassembled /\ \A c \in WsFds : WsConn(c)
  BY Zenon DEF WsInv
<1>1. /\ wsPc["upgrader"] = "register"
      /\ UNCHANGED <<wsMgr, wsChan, wsBatch, wsTodo, wsClosing, wsHeld, wsPing, wsGens, wsSent, wsGot, wsStop>>
  BY DEF WsRegister
<1>2. /\ wsGens \in Nat /\ wsSent \in Nat /\ "upgrader" \in WsThreads /\ "reader" \in WsThreads
      /\ wsPoll \in [WsFds -> {"none", "armed", "fired"}]
  BY <1>0, WsAssumption DEF WsTypes, WsThreads
<1>c. PICK c \in WsFds : c = wsFd["upgrader"]
  BY <1>0, <1>1, <1>2 DEF WsTurns
<1>4. PICK pc \in {"addRemove", "idle"} :
        /\ WsGoOn("upgrader", pc, c) /\ (pc = "addRemove" => UNCHANGED wsSock /\ wsPoll' = [wsPoll EXCEPT ![c] = "armed"])
        /\ pc = "addRemove" => wsSock[c].open
        /\ pc = "idle" => WsCloseFd(c)
  <2>1. CASE wsSock[c].open /\ wsPoll[c] = "none"
    BY <1>c, <2>1 DEF WsRegister, WsGo
  <2>2. CASE ~(wsSock[c].open /\ wsPoll[c] = "none")
    BY <1>c, <2>2 DEF WsRegister, WsGo
  <2> QED BY <2>1, <2>2
<1>5. /\ wsSock' \in [WsFds -> WsSockType] /\ wsPoll' \in [WsFds -> {"none", "armed", "fired"}]
      /\ \A d \in WsFds : d # c => wsSock'[d] = wsSock[d] /\ wsPoll'[d] = wsPoll[d]
  <2>1. CASE pc = "addRemove"
    <3>1. wsSock' = wsSock /\ wsPoll' = [wsPoll EXCEPT ![c] = "armed"]
      BY <1>4, <2>1
    <3> QED BY <1>0, <1>2, <3>1 DEF WsTypes
  <2>2. CASE pc = "idle"
    BY <1>0, <1>4, <2>2, WsCloses
  <2> QED BY <2>1, <2>2
<1>6. /\ wsPc'["upgrader"] = pc /\ wsFd'["upgrader"] = (IF pc = "idle" THEN 0 ELSE c)
      /\ \A u \in WsThreads : u # "upgrader" => wsPc'[u] = wsPc[u] /\ wsFd'[u] = wsFd[u]
  BY <1>0, <1>2, <1>4, WsGoes
<1>7. WsTypes'
  <2>1. /\ wsPc' \in [WsThreads -> {"idle", "register", "addRemove", "add", "frames", "remove", "close", "ping", "answer"}]
        /\ wsFd' \in [WsThreads -> WsFds \cup {0}]
    BY <1>0, <1>2, <1>4, WsGoes
  <2> QED BY <1>0, <1>1, <1>5, <2>1 DEF WsTypes, wsMgr
<1>8. WsTurns'
  BY <1>0, <1>1, <1>2, <1>4, WsTurned
<1>9. WsManaged'
  BY <1>0, <1>1, <1>6, WsManagedKept DEF wsMgr
<1>10. WsReassembled'
  BY <1>0, <1>1, WsGotKept
<1>11. ASSUME NEW d \in WsFds, d # c PROVE WsConn(d)'
  <2>1. d # 0
    BY WsAssumption
  <2>2. wsGens' >= wsGens /\ wsSent' >= wsSent
    BY <1>1, <1>2
  <2>3. WsSameData(d)
    BY <1>1, <1>5, <1>11, <2>2 DEF WsSameData, wsMgr
  <2>4. WsSameMoves(d)
    BY <1>0, <1>2, <1>c, <1>4, <1>11, <2>1, WsMoveSame
  <2> QED BY <1>0, <1>7, <2>3, <2>4, WsSameKeeps DEF WsSame
<1>12. WsConn(c)'
  <2>0. c # 0 /\ WsConn(c) /\ WsToken(c)
    BY <1>0, <1>c, WsAssumption DEF WsToken
  <2>1. CASE pc = "addRemove"
    <3>1. UNCHANGED <<wsSock, wsMgr, wsBatch, wsTodo, wsClosing, wsPing, wsGens, wsSent>> /\ wsPoll'[c] = "armed"
      BY <1>1, <1>2, <1>4, <2>1
    <3>2. wsFd'["upgrader"] = c /\ wsPc'["upgrader"] = "addRemove" /\ wsFd["upgrader"] = c
      BY <1>6, <1>c, <2>1
    <3>3. WsPolled(c)'
      BY <1>4, <2>1, <3>1 DEF WsPolled, WsAttended
    <3>4. WsOneToken(c) => WsOneToken(c)'
      BY <1>1, <3>2, Zenon DEF WsOneToken
    <3> QED BY <1>0, <1>6, <1>7, <2>0, <3>1, <3>2, <3>3, <3>4, WsHandedOn
  <2>2. CASE pc = "idle"
    <3>1. /\ WsCloseFd(c) /\ wsCtx' = wsCtx /\ wsGens' = wsGens /\ wsTodo' = wsTodo /\ wsFd'["reader"] = wsFd["reader"]
      BY <1>1, <1>2, <1>4, <1>6, <2>2 DEF wsMgr
    <3> QED BY <1>0, <2>0, <3>1, WsClosedConn
  <2> QED BY <2>1, <2>2
<1>13. \A d \in WsFds : WsConn(d)'
  BY <1>11, <1>12
<1> QED BY <1>7, <1>8, <1>9, <1>10, <1>13, Zenon DEF WsInv

(* ClientManager.remove, by the upgrader before it adds a client and by    *)
(* the goroutines that remove one.                                         *)
LEMMA WsRemoveMgrInv == ASSUME WsInv, WsAddRemove \/ \E t \in {"reader", "pinger", "text"} : WsRemoveMgr(t) PROVE WsInv'
<1>0. WsTypes /\ WsTurns /\ WsManaged /\ WsReassembled /\ \A c \in WsFds : WsConn(c)
  BY Zenon DEF WsInv
<1>1. PICK t \in WsThreads, pc \in {"add", "close"} :
        /\ (t = "upgrader" /\ wsPc[t] = "addRemove" /\ pc = "add") \/ (t # "upgrader" /\ wsPc[t] = "remove" /\ pc = "close")
        /\ WsRemoveAll(wsFd[t]) /\ WsGoOn(t, pc, wsFd[t])
        /\ UNCHANGED <<wsSock, wsPoll, wsChan, wsBatch, wsTodo, wsClosing, wsHeld, wsPing, wsGens, wsSent, wsGot, wsStop>>
  <2>1. CASE WsAddRemove
    BY <2>1 DEF WsAddRemove, WsGo, WsThreads
  <2>2. CASE \E t \in {"reader", "pinger", "text"} : WsRemoveMgr(t)
    BY <2>2 DEF WsRemoveMgr, WsGo, WsThreads
  <2> QED BY <2>1, <2>2
<1>2. wsGens \in Nat /\ wsSent \in Nat /\ "upgrader" \in WsThreads /\ "reader" \in WsThreads /\ wsFd \in [WsThreads -> WsFds \cup {0}]
  BY <1>0, WsAssumption DEF WsTypes, WsThreads
<1>c. PICK c \in WsFds : c = wsFd[t]
  BY <1>0, <1>1 DEF WsTurns
<1>3. /\ wsFrame' \in [WsFds -> WsFrameType] /\ wsFrames' \in [WsFds -> Seq(WsFrameType)]
      /\ wsAll' \in Seq(WsFds) /\ wsConns' \in [WsUids \ {0} -> Seq(WsFds)] /\ wsCtx' \in [WsFds -> WsUids \cup {-1}]
      /\ wsCtx'[c] = -1 /\ wsFrame'[c] = WsNone /\ wsFrames'[c] = <<>>
      /\ \A d \in WsFds : d # c => wsCtx'[d] = wsCtx[d] /\ wsFrame'[d] = wsFrame[d] /\ wsFrames'[d] = wsFrames[d]
      /\ WsManagerConsistent'
  BY <1>0, <1>1, <1>c, WsRemoveAllKeeps DEF WsManaged
<1>4. c # 0 /\ WsGoOn(t, pc, c)
  BY <1>1, <1>c, WsAssumption
<1>6. /\ wsPc'[t] = pc /\ wsFd'[t] = c /\ wsFd[t] = c
      /\ \A u \in WsThreads : u # t => wsPc'[u] = wsPc[u] /\ wsFd'[u] = wsFd[u]
  BY <1>0, <1>1, <1>c, <1>4, WsGoes
<1>7. WsTypes'
  <2>1. /\ wsPc' \in [WsThreads -> {"idle", "register", "addRemove", "add", "frames", "remove", "close", "ping", "answer"}]
        /\ wsFd' \in [WsThreads -> WsFds \cup {0}]
    BY <1>0, <1>2, <1>4, WsGoes
  <2> QED BY <1>0, <1>1, <1>3, <2>1 DEF WsTypes
<1>8. WsTurns'
  <2>1. CASE t = "reader"
    <3>1. wsClosing' => wsTodo' = <<>>
      BY <1>0, <1>1 DEF WsTurns
    <3>2. pc = "close" /\ WsGoOn("reader", "close", c)
      BY <1>1, <1>4, <2>1
    <3> QED BY <1>0, <3>1, <3>2, WsReaderTurned
  <2>2. CASE t # "reader"
    <3>1. t \in {"upgrader", "pinger", "text"}
      BY <2>2 DEF WsThreads
    <3> QED BY <1>0, <1>1, <1>4, <3>1, WsTurned
  <2> QED BY <2>1, <2>2
<1>9. WsManaged'
  <2>1. WsAdding'
    <3>1. CASE t = "upgrader"
      BY <1>3, <1>6, <3>1 DEF WsAdding
    <3>2. CASE t # "upgrader"
      <4>1. wsPc'["upgrader"] = wsPc["upgrader"] /\ wsFd'["upgrader"] = wsFd["upgrader"]
        BY <1>2, <1>6, <3>2
      <4>2. wsPc["upgrader"] = "add" => wsFd["upgrader"] \in WsFds /\ wsCtx[wsFd["upgrader"]] = -1
        BY <1>0, <1>2 DEF WsManaged, WsAdding, WsTurns
      <4> QED BY <1>3, <4>1, <4>2 DEF WsAdding
    <3> QED BY <3>1, <3>2
  <2> QED BY <1>3, <2>1 DEF WsManaged
<1>10. WsReassembled'
  BY <1>0, <1>1, WsGotKept
<1>m. ASSUME NEW d \in WsFds, d # c PROVE WsSameMoves(d)
  BY <1>0, <1>1, <1>m, <1>4, <1>6, WsMoveSame
<1>11. ASSUME NEW d \in WsFds, d # c PROVE WsConn(d)'
  <2>2. wsGens' >= wsGens /\ wsSent' >= wsSent
    BY <1>1, <1>2
  <2>3. WsSameData(d)
    BY <1>1, <1>3, <1>11, <2>2 DEF WsSameData
  <2>4. WsSameMoves(d)
    BY <1>m, <1>11
  <2> QED BY <1>0, <1>7, <2>3, <2>4, WsSameKeeps DEF WsSame
<1>12. WsConn(c)'
  <2>1. WsConn(c) /\ WsPolled(c)
    BY <1>0, Zenon DEF WsConn
  <2>2. wsFd' = wsFd
    BY <1>2, <1>4, <1>6, <1>7 DEF WsTypes
  <2>3. WsAttended(c) => WsAttended(c)'
    <3>1. WsRemoving(c) => WsRemoving(c)'
      <4> SUFFICES ASSUME NEW u \in WsThreads, wsFd[u] = c, wsPc[u] \in {"remove", "close"} PROVE WsRemoving(c)'
        BY DEF WsRemoving
      <4>1. CASE u = t
        <5>1. wsPc'[t] = "close"
          BY <1>1, <1>6, <4>1
        <5> QED BY <1>6, <5>1, Zenon DEF WsRemoving
      <4>2. CASE u # t
        BY <1>6, <4>2 DEF WsRemoving
      <4> QED BY <4>1, <4>2
    <3>2. wsFd["reader"] = c /\ wsPc["reader"] = "frames" => wsFd'["reader"] = c /\ wsPc'["reader"] = "frames"
      BY <1>1, <1>2, <1>6
    <3>3. wsPoll' = wsPoll /\ wsBatch' = wsBatch
      BY <1>1
    <3> QED BY <3>1, <3>2, <3>3, Zenon DEF WsAttended
  <2>4. wsFd["upgrader"] = c /\ wsPc["upgrader"] = "register" => wsFd'["upgrader"] = c /\ wsPc'["upgrader"] = "register"
    BY <1>1, <1>2, <1>6
  <2>5. WsPolled(c)'
    BY <1>1, <2>1, <2>3, <2>4, Zenon DEF WsPolled
  <2> QED BY <1>0, <1>1, <1>3, <1>6, <2>1, <2>2, <2>5, WsUnlisted
<1>13. \A d \in WsFds : WsConn(d)'
  BY <1>11, <1>12
<1> QED BY <1>7, <1>8, <1>9, <1>10, <1>13, Zenon DEF WsInv

(* ClientManager.add: the connection is registered, and nobody else has it *)
(* but a reader that saw it go.                                            *)
LEMMA WsAddInv == ASSUME WsInv, WsAdd PROVE WsInv'
<1>0. WsTypes /\ WsTurns /\ WsManaged /\ WsReassembled /\ \A c \in WsFds : WsConn(c)
  BY Zenon DEF WsInv
<1>1. PICK uid \in WsUids :
        /\ wsPc["upgrader"] = "add" /\ WsAddLocked(wsFd["upgrader"], uid) /\ WsGoOn("upgrader", "idle", wsFd["upgrader"])
        /\ UNCHANGED <<wsSock, wsPoll, wsChan, wsBatch, wsTodo, wsClosing, wsHeld, wsPing, wsGens, wsSent, wsGot, wsStop>>
  BY DEF WsAdd, WsGo
<1>2. wsGens \in Nat /\ wsSent \in Nat /\ "upgrader" \in WsThreads /\ "reader" \in WsThreads /\ "pinger" \in WsThreads /\ "text" \in WsThreads
  BY <1>0, WsAssumption DEF WsTypes, WsThreads
<1>c. PICK c \in WsFds : c = wsFd["upgrader"]
  BY <1>0, <1>1, <1>2 DEF WsTurns
<1>4. c # 0 /\ wsCtx[c] = -1 /\ WsAddLocked(c, uid) /\ WsGoOn("upgrader", "idle", c)
  BY <1>0, <1>1, <1>c, WsAssumption DEF WsManaged, WsAdding
<1>3. /\ wsAll' \in Seq(WsFds) /\ wsConns' \in [WsUids \ {0} -> Seq(WsFds)] /\ wsCtx' \in [WsFds -> WsUids \cup {-1}]
      /\ wsFrame' = wsFrame /\ wsFrames' = wsFrames
      /\ \A d \in WsFds : d # c => wsCtx'[d] = wsCtx[d]
      /\ WsManagerConsistent'
  BY <1>0, <1>1, <1>4, WsAddKeeps DEF WsManaged
<1>6. /\ wsPc'["upgrader"] = "idle" /\ wsFd'["upgrader"] = 0
      /\ \A u \in WsThreads : u # "upgrader" => wsPc'[u] = wsPc[u] /\ wsFd'[u] = wsFd[u]
  BY <1>0, <1>2, <1>4, WsGoes
<1>7. WsTypes'
  <2>1. /\ wsPc' \in [WsThreads -> {"idle", "register", "addRemove", "add", "frames", "remove", "close", "ping", "answer"}]
        /\ wsFd' \in [WsThreads -> WsFds \cup {0}]
    BY <1>0, <1>2, <1>4, WsGoes
  <2> QED BY <1>0, <1>1, <1>3, <2>1 DEF WsTypes
<1>8. WsTurns'
  BY <1>0, <1>1, <1>2, <1>4, WsTurned
<1>9. WsManaged'
  BY <1>3, <1>6 DEF WsManaged, WsAdding
<1>10. WsReassembled'
  BY <1>0, <1>1, WsGotKept
<1>11. ASSUME NEW d \in WsFds, d # c PROVE WsConn(d)'
  <2>1. d # 0
    BY WsAssumption
  <2>2. wsGens' >= wsGens /\ wsSent' >= wsSent
    BY <1>1, <1>2
  <2>3. WsSameData(d)
    BY <1>1, <1>3, <1>11, <2>2 DEF WsSameData
  <2>4. WsSameMoves(d)
    BY <1>0, <1>2, <1>c, <1>4, <1>11, <2>1, WsMoveSame
  <2> QED BY <1>0, <1>7, <2>3, <2>4, WsSameKeeps DEF WsSame
<1>12. WsConn(c)'
  <2>0. /\ WsConn(c) /\ WsToken(c) /\ wsSock[c].gen <= wsGens /\ (wsSock[c].open => wsSock[c].gen > 0)
        /\ WsPolled(c) /\ WsEntering(c) /\ WsPendingSound(c)
    BY <1>0, <1>c, Zenon DEF WsConn, WsToken
  <2>1. wsSock[c].gen # 0
    BY <2>0, WsUsed
  <2>2. UNCHANGED <<wsSock, wsPoll, wsChan, wsBatch, wsTodo, wsClosing, wsHeld, wsPing, wsGens, wsSent, wsStop, wsFrame, wsFrames>>
    BY <1>1, <1>3
  <2>3. /\ wsFd'["reader"] = wsFd["reader"] /\ wsPc'["reader"] = wsPc["reader"]
        /\ wsFd'["pinger"] = wsFd["pinger"] /\ wsFd'["text"] = wsFd["text"]
    BY <1>2, <1>6
  <2>4. WsPolled(c)'
    <3>1. WsRemoving(c) => WsRemoving(c)'
      <4> SUFFICES ASSUME NEW u \in WsThreads, wsFd[u] = c, wsPc[u] \in {"remove", "close"} PROVE WsRemoving(c)'
        BY DEF WsRemoving
      <4>1. u # "upgrader"
        BY <1>1
      <4>2. wsFd'[u] = c /\ wsPc'[u] \in {"remove", "close"}
        BY <1>6, <4>1
      <4> QED BY <4>2, Zenon DEF WsRemoving
    <3>2. WsAttended(c) => WsAttended(c)'
      BY <2>2, <2>3, <3>1, Zenon DEF WsAttended
    <3>3. ~(wsFd["upgrader"] = c /\ wsPc["upgrader"] = "register")
      BY <1>1
    <3> QED BY <2>0, <2>2, <3>2, <3>3, Zenon DEF WsPolled
  <2>5. WsFresh(c)'
    BY <2>1, <2>2, Zenon DEF WsFresh
  <2>6. WsEntering(c)'
    <3>1. WsToken(c)' => wsHeld = c \/ Contains(wsChan, c)
      BY <1>4, <1>6, <2>2, Zenon DEF WsToken
    <3>2. wsSock[c].safe => ~(wsHeld = c \/ Contains(wsChan, c))
      BY <1>c, <2>0, Zenon DEF WsEntering, WsOneToken
    <3> QED BY <2>2, <3>1, <3>2, Zenon DEF WsEntering
  <2>7. WsLeaving(c)'
    <3> SUFFICES ASSUME wsSock[c].safe, NEW t \in WsThreads, wsFd'[t] = c, wsPc'[t] = "close"
                 PROVE  /\ ~wsSock[c].up /\ wsSock[c].in = <<>> /\ wsSock[c].half = WsNone
                        /\ wsFd'["reader"] = c => wsTodo = <<>>
      BY <2>2, Zenon DEF WsLeaving
    <3>1. WsUntouched(c) /\ (wsFd["reader"] = c => wsClosing /\ ~wsSock[c].up)
      BY <2>0, Zenon DEF WsEntering
    <3>2. t = "reader"
      BY <1>6, <2>3, <3>1 DEF WsUntouched, WsThreads
    <3>3. wsClosing /\ ~wsSock[c].up
      BY <2>3, <3>1, <3>2
    <3>4. wsTodo = <<>>
      BY <1>0, <3>3 DEF WsTurns
    <3> QED BY <3>1, <3>3, <3>4 DEF WsUntouched
  <2>8. WsPendingSound(c)'
    <3>1. \A f \in WsFrameType : WsPending(c, f)' => WsPending(c, f)
      BY <2>2, <2>3, Zenon DEF WsPending
    <3> QED BY <2>0, <2>2, <3>1, Zenon DEF WsPendingSound
  <2>9. WsReading(c)'
    <3> SUFFICES ASSUME WsServed(c)'
                 PROVE  \E low \in 0..wsSent :
                         /\ StMessage(wsFrames[c], WsOwn(c)', FALSE, low)
                         /\ StChain(WsStream(c)', WsOwn(c)', WsNone, wsFrame[c], wsSock[c].half, low, wsSent)
      BY <2>2, Zenon DEF WsReading
    <3>1. wsSock[c].safe /\ ~(wsFd["reader"] = c /\ wsClosing)
      BY <2>2, <2>3, Zenon DEF WsServed
    <3>2. WsUntouched(c) /\ wsFd["reader"] # c
      BY <2>0, <3>1, Zenon DEF WsEntering
    <3>3. wsFrame[c] = WsNone /\ wsFrames[c] = <<>> /\ wsSock[c].in = <<>> /\ wsSock[c].half = WsNone
      BY <3>2, Zenon DEF WsUntouched
    <3>4. WsStream(c)' = <<>>
      BY <2>2, <2>3, <3>2, <3>3 DEF WsStream
    <3>5. 0 \in 0..wsSent
      BY <1>2
    <3> QED BY <3>3, <3>4, <3>5, StEmpty
  <2>10. wsSock'[c].gen <= wsGens' /\ (wsSock'[c].open => wsSock'[c].gen > 0)
    BY <2>0, <2>2
  <2> QED BY <2>4, <2>5, <2>6, <2>7, <2>8, <2>9, <2>10, Zenon DEF WsConn
<1>13. \A d \in WsFds : WsConn(d)'
  BY <1>11, <1>12
<1> QED BY <1>7, <1>8, <1>9, <1>10, <1>13, Zenon DEF WsInv

(* A goroutine closes the descriptor of the client that it has removed.    *)
LEMMA WsRemoveCloseInv == ASSUME WsInv, NEW t \in {"reader", "pinger", "text"}, WsRemoveClose(t) PROVE WsInv'
<1>0. WsTypes /\ WsTurns /\ WsManaged /\ WsReassembled /\ \A c \in WsFds : WsConn(c)
  BY Zenon DEF WsInv
<1>1. /\ wsPc[t] = "close" /\ WsCloseFd(wsFd[t]) /\ wsClosing' = (wsClosing /\ t # "reader")
      /\ UNCHANGED <<wsMgr, wsChan, wsBatch, wsTodo, wsHeld, wsPing, wsGens, wsSent, wsGot, wsStop>>
  BY Zenon DEF WsRemoveClose
<1>2. /\ wsGens \in Nat /\ wsSent \in Nat /\ "upgrader" \in WsThreads /\ "reader" \in WsThreads /\ t \in WsThreads /\ t # "upgrader"
      /\ wsClosing \in BOOLEAN
  BY <1>0, WsAssumption DEF WsTypes, WsThreads
<1>c. PICK c \in WsFds : c = wsFd[t]
  BY <1>0, <1>1, <1>2 DEF WsTurns
<1>3. PICK pc \in {"idle", "frames", "ping"} :
        /\ WsGoOn(t, pc, c) /\ (t = "reader" => pc = (IF wsClosing THEN "idle" ELSE "frames"))
        /\ (t = "pinger" => pc = "ping") /\ (t = "text" => pc = "idle")
  BY <1>c DEF WsRemoveClose, WsGo
<1>4. c # 0 /\ WsCloseFd(c) /\ (t # "reader" => wsClosing' = wsClosing) /\ (t = "reader" => ~wsClosing') /\ wsClosing' \in BOOLEAN
  BY <1>1, <1>2, <1>c, WsAssumption
<1>5. /\ wsSock' \in [WsFds -> WsSockType] /\ wsPoll' \in [WsFds -> {"none", "armed", "fired"}]
      /\ \A d \in WsFds : d # c => wsSock'[d] = wsSock[d] /\ wsPoll'[d] = wsPoll[d]
  BY <1>0, <1>4, WsCloses
<1>6. /\ wsPc'[t] = pc /\ wsFd'[t] = (IF pc = "idle" THEN 0 ELSE c)
      /\ \A u \in WsThreads : u # t => wsPc'[u] = wsPc[u] /\ wsFd'[u] = wsFd[u]
  BY <1>0, <1>2, <1>3, WsGoes
<1>7. WsTypes'
  <2>1. /\ wsPc' \in [WsThreads -> {"idle", "register", "addRemove", "add", "frames", "remove", "close", "ping", "answer"}]
        /\ wsFd' \in [WsThreads -> WsFds \cup {0}]
    BY <1>0, <1>2, <1>3, WsGoes
  <2> QED BY <1>0, <1>1, <1>4, <1>5, <2>1 DEF WsTypes, wsMgr
<1>8. WsTurns'
  <2>1. CASE t = "reader"
    <3>1. pc \in {"idle", "frames", "remove", "close"} /\ WsGoOn("reader", pc, c) /\ ~wsClosing'
      BY <1>3, <1>4, <2>1
    <3>2. pc = "idle" => wsTodo' = <<>>
      BY <1>0, <1>1, <1>3, <2>1 DEF WsTurns
    <3> QED BY <1>0, <3>1, <3>2, WsReaderTurned
  <2>2. CASE t # "reader"
    <3>1. wsTodo' = wsTodo /\ wsClosing' = wsClosing
      BY <1>1, <1>4, <2>2
    <3>2. (t = "pinger" /\ pc = "ping") \/ (t = "text" /\ pc = "idle")
      BY <1>3, <2>2
    <3> QED BY <1>0, <1>2, <1>3, <3>1, <3>2, WsTurned
  <2> QED BY <2>1, <2>2
<1>9. WsManaged'
  <2>1. wsPc'["upgrader"] = wsPc["upgrader"] /\ wsFd'["upgrader"] = wsFd["upgrader"]
    BY <1>2, <1>6
  <2> QED BY <1>0, <1>1, <2>1, WsManagedKept DEF wsMgr
<1>10. WsReassembled'
  BY <1>0, <1>1, WsGotKept
<1>11. ASSUME NEW d \in WsFds, d # c PROVE WsConn(d)'
  <2>1. wsFd[t] # d
    BY <1>c, <1>11
  <2>2. wsGens' >= wsGens /\ wsSent' >= wsSent
    BY <1>1, <1>2
  <2>3. WsSameData(d)
    <3>1. wsFd["reader"] = d => wsTodo' = wsTodo /\ wsClosing' = wsClosing
      BY <1>1, <1>4, <2>1
    <3> QED BY <1>1, <1>5, <1>11, <2>2, <3>1, Zenon DEF WsSameData, wsMgr
  <2>4. WsSameMoves(d)
    BY <1>0, <1>2, <1>3, <1>11, <2>1, WsMoveSame
  <2> QED BY <1>0, <1>7, <2>3, <2>4, WsSameKeeps DEF WsSame
<1>12. WsConn(c)'
  <2>1. wsCtx' = wsCtx /\ wsGens' = wsGens /\ wsTodo' = wsTodo /\ wsHeld' = wsHeld /\ wsChan' = wsChan
    BY <1>1 DEF wsMgr
  <2>2. wsFd'["upgrader"] = wsFd["upgrader"] /\ (wsFd'["reader"] = c => wsFd["reader"] = c)
    BY <1>2, <1>c, <1>6
  <2>3. WsToken(c)' => WsToken(c)
    BY <2>1, <2>2, Zenon DEF WsToken
  <2>4. \E u \in WsThreads : wsFd[u] = c /\ wsPc[u] = "close"
    BY <1>1, <1>2, <1>c
  <2> QED BY <1>0, <1>4, <2>1, <2>2, <2>3, <2>4, WsClosedConn
<1>13. \A d \in WsFds : WsConn(d)'
  BY <1>11, <1>12
<1> QED BY <1>7, <1>8, <1>9, <1>10, <1>13, Zenon DEF WsInv

(* The client goes.                                                        *)
LEMMA WsPeerCloseInv == ASSUME WsInv, WsPeerClose PROVE WsInv'
<1>0. WsTypes /\ WsTurns /\ WsManaged /\ WsReassembled /\ \A c \in WsFds : WsConn(c)
  BY Zenon DEF WsInv
<1>1. PICK c \in WsFds :
        /\ wsSock' = [wsSock EXCEPT ![c].up = FALSE]
        /\ UNCHANGED <<wsPoll, wsMgr, wsChan, wsPc, wsFd, wsBatch, wsTodo, wsClosing, wsHeld, wsPing, wsGens, wsSent, wsGot, wsStop>>
  BY Zenon DEF WsPeerClose
<1>2. wsGens \in Nat /\ wsSent \in Nat /\ wsSock \in [WsFds -> WsSockType]
  BY <1>0, WsAssumption DEF WsTypes
<1>3. /\ wsSock' \in [WsFds -> WsSockType] /\ \A d \in WsFds : d # c => wsSock'[d] = wsSock[d]
      /\ wsSock'[c].open = wsSock[c].open /\ wsSock'[c].gen = wsSock[c].gen /\ wsSock'[c].in = wsSock[c].in
      /\ wsSock'[c].half = wsSock[c].half /\ wsSock'[c].safe = wsSock[c].safe /\ ~wsSock'[c].up
  <2> DEFINE x == [wsSock[c] EXCEPT !.up = FALSE]
  <2>1. /\ x \in WsSockType /\ x.open = wsSock[c].open /\ x.gen = wsSock[c].gen /\ x.in = wsSock[c].in
        /\ x.half = wsSock[c].half /\ x.safe = wsSock[c].safe /\ ~x.up
    BY <1>2 DEF WsSockType
  <2>2. wsSock' = [wsSock EXCEPT ![c] = x]
    BY <1>1
  <2> HIDE DEF x
  <2> QED BY <1>2, <2>1, <2>2
<1>4. WsTypes'
  BY <1>0, <1>1, <1>3 DEF WsTypes, wsMgr
<1>5. WsTurns'
  BY <1>0, <1>1, WsStays
<1>6. WsManaged'
  BY <1>0, <1>1, WsManagedKept DEF wsMgr
<1>7. WsReassembled'
  BY <1>0, <1>1, WsGotKept
<1>8. ASSUME NEW d \in WsFds, d # c PROVE WsConn(d)'
  <2>1. wsGens' >= wsGens /\ wsSent' >= wsSent
    BY <1>1, <1>2
  <2>2. WsSameData(d)
    BY <1>1, <1>3, <1>8, <2>1 DEF WsSameData, wsMgr
  <2>3. WsSame(d)
    BY <1>1, <2>2, WsStaysSame DEF WsSame
  <2> QED BY <1>0, <1>4, <2>3, WsSameKeeps
<1>9. WsConn(c)'
  <2>0. /\ wsSock[c].gen <= wsGens /\ (wsSock[c].open => wsSock[c].gen > 0)
        /\ WsPolled(c) /\ WsFresh(c) /\ WsEntering(c) /\ WsLeaving(c) /\ WsPendingSound(c) /\ WsReading(c)
    BY <1>0, Zenon DEF WsConn
  <2>1. UNCHANGED <<wsPoll, wsCtx, wsFrame, wsFrames, wsChan, wsPc, wsFd, wsBatch, wsTodo, wsClosing, wsHeld, wsPing, wsGens, wsSent, wsStop>>
    BY <1>1 DEF wsMgr
  <2>2. WsToken(c)' <=> WsToken(c)
    BY <2>1, Zenon DEF WsToken
  <2>3. WsPolled(c)'
    <3>1. WsAttended(c) => WsAttended(c)'
      BY <2>1, Zenon DEF WsAttended, WsRemoving
    <3> QED BY <1>3, <2>0, <2>1, <3>1, Zenon DEF WsPolled
  <2>4. WsUntouched(c) => WsUntouched(c)'
    BY <1>3, <2>1, Zenon DEF WsUntouched
  <2>5. WsFresh(c)'
    BY <1>3, <2>0, <2>1, <2>2, <2>4, Zenon DEF WsFresh
  <2>6. WsEntering(c)'
    <3>1. WsOneToken(c) => WsOneToken(c)'
      BY <2>1, Zenon DEF WsOneToken
    <3>2. wsClosing => wsClosing'
      BY <2>1
    <3> QED BY <1>3, <2>0, <2>1, <2>2, <2>4, <3>1, <3>2, Zenon DEF WsEntering
  <2>7. WsLeaving(c)'
    BY <1>3, <2>0, <2>1, Zenon DEF WsLeaving
  <2>8. WsPendingSound(c)'
    <3>1. \A f \in WsFrameType : WsPending(c, f)' => WsPending(c, f)
      BY <1>3, <2>1, Zenon DEF WsPending
    <3>2. WsOwn(c)' = WsOwn(c)
      BY <1>3 DEF WsOwn
    <3> QED BY <1>3, <2>0, <2>1, <2>2, <3>1, Zenon DEF WsPendingSound
  <2>9. WsReading(c)'
    <3>1. WsServed(c)' => WsServed(c)
      BY <1>3, <2>1 DEF WsServed
    <3>2. WsStream(c)' = WsStream(c) /\ WsOwn(c)' = WsOwn(c)
      BY <1>3, <2>1, Zenon DEF WsStream, WsOwn
    <3> QED BY <1>3, <2>0, <2>1, <3>1, <3>2, Zenon DEF WsReading
  <2>10. wsSock'[c].gen <= wsGens' /\ (wsSock'[c].open => wsSock'[c].gen > 0)
    BY <1>3, <2>0, <2>1
  <2> QED BY <2>3, <2>5, <2>6, <2>7, <2>8, <2>9, <2>10, Zenon DEF WsConn
<1>10. \A d \in WsFds : WsConn(d)'
  BY <1>8, <1>9
<1> QED BY <1>4, <1>5, <1>6, <1>7, <1>10, Zenon DEF WsInv

(* Bytes of a client arrive.                                               *)
LEMMA WsArrives ==
  ASSUME WsInv, NEW c \in WsFds, wsSock[c].open, wsSock[c].up, NEW s \in WsSockType, wsSock' = [wsSock EXCEPT ![c] = s],
         UNCHANGED <<wsPoll, wsMgr, wsChan, wsPc, wsFd, wsBatch, wsTodo, wsClosing, wsHeld, wsPing, wsGens, wsGot, wsStop>>,
         wsSent' \in Nat, wsSent' >= wsSent, s.open, s.gen = wsSock[c].gen, s.safe => wsSock[c].safe /\ ~WsToken(c),
         WsPendingSound(c)', WsReading(c)'
  PROVE  WsInv'
<1>0. WsTypes /\ WsTurns /\ WsManaged /\ WsReassembled /\ \A d \in WsFds : WsConn(d)
  BY Zenon DEF WsInv
<1>2. wsGens \in Nat /\ wsSent \in Nat /\ wsSock \in [WsFds -> WsSockType]
  BY <1>0, WsAssumption DEF WsTypes
<1>3. wsSock' \in [WsFds -> WsSockType] /\ wsSock'[c] = s /\ \A d \in WsFds : d # c => wsSock'[d] = wsSock[d]
  BY <1>2
<1>4. WsTypes'
  BY <1>0, <1>3 DEF WsTypes, wsMgr
<1>5. WsTurns'
  BY <1>0, WsStays
<1>6. WsManaged'
  BY <1>0, WsManagedKept DEF wsMgr
<1>7. WsReassembled'
  BY <1>0, WsGotKept
<1>8. ASSUME NEW d \in WsFds, d # c PROVE WsConn(d)'
  <2>1. wsGens' >= wsGens
    BY <1>2
  <2>2. WsSameData(d)
    BY <1>3, <1>8, <2>1 DEF WsSameData, wsMgr
  <2>3. WsSame(d)
    BY <2>2, WsStaysSame DEF WsSame
  <2> QED BY <1>0, <1>4, <2>3, WsSameKeeps
<1>9. WsConn(c)'
  <2>0. wsSock[c].gen <= wsGens /\ wsSock[c].gen > 0 /\ WsPolled(c) /\ WsLeaving(c)
    BY <1>0, Zenon DEF WsConn
  <2>1. UNCHANGED <<wsPoll, wsCtx, wsFrame, wsFrames, wsChan, wsPc, wsFd, wsBatch, wsTodo, wsClosing, wsHeld, wsPing, wsGens, wsStop>>
    BY DEF wsMgr
  <2>2. WsToken(c)' <=> WsToken(c)
    BY <2>1, Zenon DEF WsToken
  <2>3. WsPolled(c)'
    <3>1. WsAttended(c) => WsAttended(c)'
      BY <2>1, Zenon DEF WsAttended, WsRemoving
    <3> QED BY <1>3, <2>0, <2>1, <3>1, Zenon DEF WsPolled
  <2>4. wsSock'[c].gen <= wsGens' /\ wsSock'[c].gen > 0 /\ wsSock'[c].gen # 0
    BY <1>3, <2>0, <2>1
  <2>5. WsFresh(c)'
    BY <2>4, Zenon DEF WsFresh
  <2>6. WsEntering(c)'
    BY <1>3, <2>2, Zenon DEF WsEntering
  <2>7. WsLeaving(c)'
    BY <1>3, <2>0, <2>1, Zenon DEF WsLeaving
  <2> QED BY <2>3, <2>4, <2>5, <2>6, <2>7, Zenon DEF WsConn
<1>10. \A d \in WsFds : WsConn(d)'
  BY <1>8, <1>9
<1> QED BY <1>4, <1>5, <1>6, <1>7, <1>10, Zenon DEF WsInv

(* The stream of a connection, and the frames of its client.               *)
LEMMA WsStreamType == ASSUME WsTypes, NEW c \in WsFds
                      PROVE  /\ WsStream(c) \in Seq(WsPieceType) /\ WsStream(c) \in Seq([f : WsFrameType, part : {"whole", "head", "tail"}])
                             /\ wsSock[c].in \in Seq(WsPieceType) /\ wsSock[c].half \in WsFrameType
                             /\ wsSock[c].gen \in Nat /\ wsSock[c].safe \in BOOLEAN
                             /\ WsOwn(c) \subseteq WsFrameType /\ \A g \in WsOwn(c) : g.n \in Nat /\ g.fin \in BOOLEAN
                             /\ wsSock[c].gen > 0 => WsNone \notin WsOwn(c)
<1>1. wsSock[c] \in WsSockType /\ wsTodo \in Seq(WsPieceType)
  BY DEF WsTypes
<1>2. wsSock[c].in \in Seq(WsPieceType) /\ wsSock[c].half \in WsFrameType /\ wsSock[c].gen \in Nat /\ wsSock[c].safe \in BOOLEAN
  BY <1>1 DEF WsSockType
<1>3. WsStream(c) \in Seq(WsPieceType)
  <2>1. CASE wsFd["reader"] = c
    BY <1>1, <1>2, <2>1 DEF WsStream
  <2>2. CASE wsFd["reader"] # c
    BY <1>2, <2>2 DEF WsStream
  <2> QED BY <2>1, <2>2
<1>4. WsPieceType = [f : WsFrameType, part : {"whole", "head", "tail"}]
  BY Zenon DEF WsPieceType
<1>5. WsOwn(c) \subseteq WsFrameType /\ \A g \in WsOwn(c) : g.n \in Nat /\ g.fin \in BOOLEAN
  BY DEF WsOwn, WsFrameType
<1>6. wsSock[c].gen > 0 => WsNone \notin WsOwn(c)
  BY <1>2, WsNoneType DEF WsOwn
<1> QED BY <1>2, <1>3, <1>4, <1>5, <1>6

(* A stream to which a piece is appended.                                  *)
LEMMA WsStreamMore == ASSUME WsTypes, NEW c \in WsFds, NEW x \in WsPieceType, wsSock'[c].in = Append(wsSock[c].in, x),
                             UNCHANGED <<wsFd, wsTodo>>
                      PROVE  WsStream(c)' = Append(WsStream(c), x)
<1>1. wsSock[c].in \in Seq(WsPieceType) /\ wsTodo \in Seq(WsPieceType)
  BY WsStreamType DEF WsTypes
<1>2. ASSUME NEW A \in Seq(WsPieceType), NEW B \in Seq(WsPieceType)
      PROVE  A \o Append(B, x) = Append(A \o B, x)
  OBVIOUS
<1>3. CASE wsFd["reader"] = c
  BY <1>1, <1>2, <1>3 DEF WsStream
<1>4. CASE wsFd["reader"] # c
  <2>1. <<>> \in Seq(WsPieceType)
    OBVIOUS
  <2> QED BY <1>1, <1>2, <1>4, <2>1 DEF WsStream
<1> QED BY <1>3, <1>4

(* The rest of a frame arrives.                                            *)
LEMMA WsPeerRestInv == ASSUME WsInv, WsPeerRest PROVE WsInv'
<1>0. WsTypes /\ WsTurns /\ WsManaged /\ WsReassembled /\ \A c \in WsFds : WsConn(c)
  BY Zenon DEF WsInv
<1>1. PICK c \in WsFds :
        /\ wsSock[c].open /\ wsSock[c].up /\ wsSock[c].half # WsNone
        /\ wsSock' = [wsSock EXCEPT ![c] =
             [wsSock[c] EXCEPT !.in = Append(wsSock[c].in, [f |-> wsSock[c].half, part |-> "tail"]), !.half = WsNone]]
        /\ UNCHANGED <<wsPoll, wsMgr, wsChan, wsPc, wsFd, wsBatch, wsTodo, wsClosing, wsHeld, wsPing, wsGens, wsSent, wsGot, wsStop>>
  BY DEF WsPeerRest
<1> DEFINE x == [f |-> wsSock[c].half, part |-> "tail"]
           q == Append(wsSock[c].in, x)
           s == [[wsSock[c] EXCEPT !.in = q] EXCEPT !.half = WsNone]
<1>2. /\ wsSock[c] \in WsSockType /\ wsSock[c].in \in Seq(WsPieceType) /\ wsSock[c].half \in WsFrameType /\ wsSent \in Nat /\ wsGens \in Nat
      /\ wsSock \in [WsFds -> WsSockType]
  <2>1. wsSent \in Nat /\ wsGens \in Nat /\ wsSock \in [WsFds -> WsSockType]
    BY <1>0, WsAssumption DEF WsTypes
  <2>2. wsSock[c].in \in Seq(WsPieceType) /\ wsSock[c].half \in WsFrameType
    BY <1>0, WsStreamType, Zenon
  <2> QED BY <2>1, <2>2
<1>3. x \in WsPieceType /\ x.f = wsSock[c].half
  BY <1>2 DEF WsPieceType
<1>4. q \in Seq(WsPieceType)
  BY <1>2, <1>3
<1>5. wsSock' = [wsSock EXCEPT ![c] = s]
  BY <1>1
<1>6. /\ s \in WsSockType /\ s.open = wsSock[c].open /\ s.gen = wsSock[c].gen /\ s.in = q
      /\ s.half = WsNone /\ s.safe = wsSock[c].safe
  <2> HIDE DEF q
  <2> DEFINE y == [wsSock[c] EXCEPT !.in = q]
  <2>1. /\ y \in WsSockType /\ y.open = wsSock[c].open /\ y.gen = wsSock[c].gen /\ y.in = q
        /\ y.half = wsSock[c].half /\ y.safe = wsSock[c].safe
    BY <1>2, <1>4 DEF WsSockType
  <2>2. s = [y EXCEPT !.half = WsNone]
    OBVIOUS
  <2> HIDE DEF y, s
  <2> QED BY <2>1, <2>2, WsNoneType DEF WsSockType
<1> HIDE DEF x, s
<1>7. wsSock'[c] = s
  BY <1>2, <1>5
<1>8. wsSock[c].gen <= wsGens /\ wsSock[c].gen > 0 /\ WsEntering(c) /\ WsPendingSound(c) /\ WsReading(c)
  BY <1>0, <1>1, Zenon DEF WsConn
<1>9. s.safe => wsSock[c].safe /\ ~WsToken(c)
  BY <1>1, <1>6, <1>8, Zenon DEF WsEntering, WsUntouched
<1>u. wsCtx' = wsCtx /\ wsFrame' = wsFrame /\ wsFrames' = wsFrames /\ wsFd' = wsFd /\ wsTodo' = wsTodo /\ wsClosing' = wsClosing /\ wsSent' = wsSent
  BY <1>1 DEF wsMgr
<1>10. WsPendingSound(c)'
  <2> SUFFICES ASSUME NEW f \in WsFrameType, WsPending(c, f)'
               PROVE  /\ f.gen <= wsGens
                      /\ f.safe /\ f.gen = wsSock[c].gen => ~WsToken(c) /\ (wsCtx[c] # -1 => wsSock[c].safe)
    BY <1>1, <1>6, <1>7, <1>u, Zenon DEF WsPendingSound, WsToken
  <2>1. CASE f = WsNone
    BY <1>2, <2>1, WsNoneType
  <2>2. CASE f # WsNone
    <3>1. \A i \in 1..Len(q) : q[i] = x \/ \E j \in 1..Len(wsSock[c].in) : q[i] = wsSock[c].in[j]
      BY <1>2, <1>3
    <3>2. WsPending(c, f)
      <4> HIDE DEF q
      <4>1. CASE \E i \in 1..Len(q) : q[i].f = f
        BY <1>3, <3>1, <4>1 DEF WsPending
      <4>2. CASE ~\E i \in 1..Len(q) : q[i].f = f
        BY <1>6, <1>7, <1>u, <2>2, <4>2 DEF WsPending
      <4> QED BY <4>1, <4>2
    <3> QED BY <1>8, <3>2, Zenon DEF WsPendingSound
  <2> QED BY <2>1, <2>2
<1>11. WsReading(c)'
  <2> SUFFICES ASSUME WsServed(c)'
               PROVE  \E low \in 0..wsSent :
                         /\ StMessage(wsFrames[c], WsOwn(c), FALSE, low)
                         /\ StChain(WsStream(c)', WsOwn(c), WsNone, wsFrame[c], WsNone, low, wsSent)
    BY <1>6, <1>7, <1>u, Zenon DEF WsReading, WsOwn
  <2>1. WsServed(c)
    BY <1>6, <1>7, <1>u, Zenon DEF WsServed
  <2>2. PICK low \in 0..wsSent : /\ StMessage(wsFrames[c], WsOwn(c), FALSE, low)
                                 /\ StChain(WsStream(c), WsOwn(c), WsNone, wsFrame[c], wsSock[c].half, low, wsSent)
    BY <1>8, <2>1, Zenon DEF WsReading
  <2>3. WsStream(c)' = Append(WsStream(c), [f |-> wsSock[c].half, part |-> "tail"])
    <3>1. WsStream(c)' = Append(WsStream(c), x)
      BY <1>0, <1>3, <1>6, <1>7, <1>u, WsStreamMore
    <3> QED BY <3>1 DEF x
  <2>4. low \in Nat
    BY <1>2
  <2>5. StChain(Append(WsStream(c), [f |-> wsSock[c].half, part |-> "tail"]), WsOwn(c), WsNone, wsFrame[c], WsNone, low, wsSent)
    BY <1>0, <1>1, <1>2, <1>8, <2>2, <2>4, WsStreamType, StRested
  <2> QED BY <2>2, <2>3, <2>5, Zenon
<1> HIDE DEF q
<1>12. wsSent' \in Nat /\ wsSent' >= wsSent /\ s.open
  BY <1>1, <1>2, <1>6
<1> QED BY <1>1, <1>5, <1>6, <1>9, <1>10, <1>11, <1>12, WsArrives

(* A frame, or the head of one, arrives.                                   *)
LEMMA WsPeerSendInv == ASSUME WsInv, WsPeerSend PROVE WsInv'
<1>0. WsTypes /\ WsTurns /\ WsManaged /\ WsReassembled /\ \A c \in WsFds : WsConn(c)
  BY Zenon DEF WsInv
<1>1. PICK c \in WsFds, op \in WsOps, fin \in BOOLEAN, whole \in BOOLEAN :
        LET s == wsSock[c]
            safe == s.safe /\ wsCtx[c] # -1
            f == [op |-> op, fin |-> fin, gen |-> s.gen, n |-> wsSent + 1, safe |-> safe]
        IN /\ s.open /\ s.up /\ s.half = WsNone /\ wsSent < WsMaxFrames /\ wsSent' = wsSent + 1
           /\ op \notin {"text", "cont"} => fin
           /\ wsPoll[c] # "none"
           /\ wsSock' = [wsSock EXCEPT ![c] =
                [s EXCEPT !.in = Append(s.in, [f |-> f, part |-> IF whole THEN "whole" ELSE "head"]),
                          !.half = IF whole THEN WsNone ELSE f, !.safe = safe]]
           /\ UNCHANGED <<wsPoll, wsMgr, wsChan, wsPc, wsFd, wsBatch, wsTodo, wsClosing, wsHeld, wsPing, wsGens, wsGot, wsStop>>
  BY Zenon DEF WsPeerSend
<1>2. /\ wsSock[c] \in WsSockType /\ wsSock[c].in \in Seq(WsPieceType) /\ wsSock[c].half \in WsFrameType /\ wsSent \in Nat /\ wsGens \in Nat
      /\ wsSock \in [WsFds -> WsSockType] /\ wsSock[c].gen \in Nat
  <2>1. wsSent \in Nat /\ wsGens \in Nat /\ wsSock \in [WsFds -> WsSockType]
    BY <1>0, WsAssumption DEF WsTypes
  <2>2. wsSock[c].in \in Seq(WsPieceType) /\ wsSock[c].half \in WsFrameType /\ wsSock[c].gen \in Nat
    BY <1>0, WsStreamType, Zenon
  <2> QED BY <2>1, <2>2
<1>a. PICK b \in BOOLEAN : b = (wsSock[c].safe /\ wsCtx[c] # -1)
  OBVIOUS
<1>b. PICK n \in Nat : n = wsSent + 1
  BY <1>2
<1>d. PICK p \in {"whole", "head"} : p = IF whole THEN "whole" ELSE "head"
  OBVIOUS
<1> DEFINE f == [op |-> op, fin |-> fin, gen |-> wsSock[c].gen, n |-> n, safe |-> b]
           h == IF p = "whole" THEN WsNone ELSE f
           x == [f |-> f, part |-> p]
           q == Append(wsSock[c].in, x)
           s == [[[wsSock[c] EXCEPT !.in = q] EXCEPT !.half = h] EXCEPT !.safe = b]
<1>3. /\ wsSock[c].open /\ wsSock[c].up /\ wsSock[c].half = WsNone /\ wsSent' = n
      /\ wsSock' = [wsSock EXCEPT ![c] = s]
      /\ UNCHANGED <<wsPoll, wsMgr, wsChan, wsPc, wsFd, wsBatch, wsTodo, wsClosing, wsHeld, wsPing, wsGens, wsGot, wsStop>>
  BY <1>1, <1>a, <1>b, <1>d
<1>f. f \in WsFrameType /\ f.gen = wsSock[c].gen /\ f.n = n /\ f.safe = b
  BY <1>2 DEF WsFrameType
<1> HIDE DEF f
<1>h. h \in WsFrameType
  BY <1>f, WsNoneType
<1>4. x \in WsPieceType /\ x.f = f
  BY <1>f, <1>d DEF WsPieceType
<1>5. q \in Seq(WsPieceType)
  BY <1>2, <1>4
<1>6. /\ s \in WsSockType /\ s.open = wsSock[c].open /\ s.gen = wsSock[c].gen /\ s.in = q
      /\ s.half = h /\ s.safe = b
  <2> HIDE DEF q, h
  <2> DEFINE y == [wsSock[c] EXCEPT !.in = q]
             z == [y EXCEPT !.half = h]
  <2>1. /\ y \in WsSockType /\ y.open = wsSock[c].open /\ y.gen = wsSock[c].gen /\ y.in = q
    BY <1>2, <1>5 DEF WsSockType
  <2>2. s = [z EXCEPT !.safe = b]
    OBVIOUS
  <2> HIDE DEF y, s
  <2>3. z \in WsSockType /\ z.open = wsSock[c].open /\ z.gen = wsSock[c].gen /\ z.in = q /\ z.half = h
    BY <1>h, <2>1 DEF WsSockType
  <2> HIDE DEF z
  <2> QED BY <2>2, <2>3 DEF WsSockType
<1> HIDE DEF x, s
<1>7. wsSock'[c] = s
  BY <1>2, <1>3
<1>8. wsSock[c].gen <= wsGens /\ wsSock[c].gen > 0 /\ WsEntering(c) /\ WsPendingSound(c) /\ WsReading(c)
  BY <1>0, <1>3, Zenon DEF WsConn
<1>9. b => wsSock[c].safe /\ ~WsToken(c) /\ wsCtx[c] # -1
  BY <1>a, <1>8 DEF WsEntering, WsUntouched
<1>u. wsCtx' = wsCtx /\ wsFrame' = wsFrame /\ wsFrames' = wsFrames /\ wsFd' = wsFd /\ wsTodo' = wsTodo /\ wsClosing' = wsClosing /\ wsGens' = wsGens
  BY <1>3 DEF wsMgr
<1>t. WsToken(c)' <=> WsToken(c)
  BY <1>3, Zenon DEF WsToken
<1>10. WsPendingSound(c)'
  <2> SUFFICES ASSUME NEW g \in WsFrameType, WsPending(c, g)'
               PROVE  /\ g.gen <= wsGens
                      /\ g.safe /\ g.gen = wsSock[c].gen => ~WsToken(c) /\ (wsCtx[c] # -1 => b)
    <3>1. wsSock'[c].gen = wsSock[c].gen /\ (b => wsSock'[c].safe)
      BY <1>6, <1>7
    <3> QED BY <1>t, <1>u, <3>1, Zenon DEF WsPendingSound
  <2>1. CASE g = WsNone
    BY <1>2, <2>1, WsNoneType
  <2>2. CASE g = f
    BY <1>8, <1>9, <1>f, <2>2
  <2>3. CASE g # WsNone /\ g # f
    <3>1. \A i \in 1..Len(q) : q[i] = x \/ \E j \in 1..Len(wsSock[c].in) : q[i] = wsSock[c].in[j]
      BY <1>2, <1>4
    <3>2. WsPending(c, g)
      <4> HIDE DEF q
      <4>1. CASE \E i \in 1..Len(q) : q[i].f = g
        BY <1>4, <2>3, <3>1, <4>1 DEF WsPending
      <4>2. CASE ~\E i \in 1..Len(q) : q[i].f = g
        <5>1. g # wsSock'[c].half /\ wsSock'[c].in = q
          BY <1>6, <1>7, <2>3
        <5> QED BY <1>u, <4>2, <5>1 DEF WsPending
      <4> QED BY <4>1, <4>2
    <3>3. /\ g.gen <= wsGens
          /\ g.safe /\ g.gen = wsSock[c].gen => ~WsToken(c) /\ (wsCtx[c] # -1 => wsSock[c].safe)
      BY <1>8, <3>2, Zenon DEF WsPendingSound
    <3> QED BY <1>a, <3>3
  <2> QED BY <2>1, <2>2, <2>3
<1>11. WsReading(c)'
  <2>o. WsOwn(c)' = WsOwn(c)
    BY <1>6, <1>7 DEF WsOwn
  <2> SUFFICES ASSUME WsServed(c)'
               PROVE  \E low \in 0..n :
                         /\ StMessage(wsFrames[c], WsOwn(c), FALSE, low)
                         /\ StChain(WsStream(c)', WsOwn(c), WsNone, wsFrame[c], h, low, n)
    BY <1>3, <1>6, <1>7, <1>u, <2>o, Zenon DEF WsReading
  <2>1. WsServed(c)
    BY <1>6, <1>7, <1>9, <1>u DEF WsServed
  <2>2. PICK low \in 0..wsSent : /\ StMessage(wsFrames[c], WsOwn(c), FALSE, low)
                                 /\ StChain(WsStream(c), WsOwn(c), WsNone, wsFrame[c], wsSock[c].half, low, wsSent)
    BY <1>8, <2>1, Zenon DEF WsReading
  <2>3. WsStream(c)' = Append(WsStream(c), [f |-> f, part |-> p])
    <3>1. WsStream(c)' = Append(WsStream(c), x)
      BY <1>0, <1>4, <1>6, <1>7, <1>u, WsStreamMore
    <3> QED BY <3>1 DEF x
  <2>4. low \in Nat /\ low <= wsSent /\ low \in 0..n
    BY <1>2, <1>b, <2>2
  <2>5. f \in WsOwn(c) /\ f.n = wsSent + 1
    BY <1>b, <1>f DEF WsOwn
  <2>6. StChain(Append(WsStream(c), [f |-> f, part |-> p]), WsOwn(c), WsNone, wsFrame[c], h, low, wsSent + 1)
    BY <1>0, <1>2, <1>3, <1>8, <2>2, <2>4, <2>5, WsStreamType, StPushed
  <2> QED BY <1>b, <2>2, <2>3, <2>4, <2>6
<1> HIDE DEF q, h
<1>12. wsSent' \in Nat /\ wsSent' >= wsSent /\ s.open /\ (s.safe => b)
  BY <1>2, <1>3, <1>6, <1>b
<1> QED BY <1>3, <1>6, <1>9, <1>10, <1>11, <1>12, WsArrives

(* WaitRead: the ready descriptors are reported; one of them that comes in *)
(* has nothing to read, so its client has gone.                            *)
LEMMA WsWaitReadInv == ASSUME WsInv, WsWaitRead PROVE WsInv'
<1>0. WsTypes /\ WsTurns /\ WsManaged /\ WsReassembled /\ \A c \in WsFds : WsConn(c)
  BY Zenon DEF WsInv
<1> DEFINE ready == {c \in WsFds : WsReady(c)}
<1>1. /\ wsPc["reader"] = "idle" /\ wsBatch = <<>>
      /\ wsPoll' = [c \in WsFds |-> IF c \in ready THEN "fired" ELSE wsPoll[c]]
      /\ UNCHANGED <<wsSock, wsMgr, wsChan, wsPc, wsFd, wsTodo, wsClosing, wsHeld, wsPing, wsGens, wsSent, wsGot, wsStop>>
  BY Zenon DEF WsWaitRead
<1>2. PICK order \in SetToSeqs(ready) : wsBatch' = order
  BY Zenon DEF WsWaitRead
<1>3. IsFiniteSet(ready)
  BY WsAssumption, FS_Subset
<1>4. wsBatch' \in Seq(ready) /\ \A c \in ready : Contains(wsBatch', c)
  BY <1>2, <1>3, WsOrdered
<1>5. \A c : Contains(wsBatch', c) <=> c \in ready
  <2> HIDE DEF ready
  <2> QED BY <1>4, WsElems
<1>6. wsBatch' \in Seq(WsFds) /\ wsPoll \in [WsFds -> {"none", "armed", "fired"}] /\ wsGens \in Nat /\ wsSent \in Nat
  <2>1. \A R : R \subseteq WsFds => \A s \in Seq(R) : s \in Seq(WsFds)
    OBVIOUS
  <2>2. ready \subseteq WsFds
    OBVIOUS
  <2> QED BY <1>0, <1>4, <2>1, <2>2, WsAssumption DEF WsTypes
<1>7. /\ wsPoll' \in [WsFds -> {"none", "armed", "fired"}] /\ \A d \in ready : wsPoll'[d] = "fired"
      /\ \A d \in WsFds : d \notin ready => wsPoll'[d] = wsPoll[d]
  <2>1. ready \subseteq WsFds
    OBVIOUS
  <2> HIDE DEF ready
  <2> QED BY <1>1, <1>6, <2>1
<1>8. WsTypes'
  BY <1>0, <1>1, <1>6, <1>7 DEF WsTypes, wsMgr
<1>9. WsTurns'
  BY <1>0, <1>1, WsStays
<1>10. WsManaged'
  BY <1>0, <1>1, WsManagedKept DEF wsMgr
<1>11. WsReassembled'
  BY <1>0, <1>1, WsGotKept
<1>12. ASSUME NEW d \in WsFds, d \notin ready PROVE WsConn(d)'
  <2>1. wsGens' >= wsGens /\ wsSent' >= wsSent
    BY <1>1, <1>6
  <2>2. ~Contains(wsBatch', d) /\ ~Contains(wsBatch, d)
    BY <1>1, <1>5, <1>12 DEF Contains
  <2>3. WsSameData(d)
    BY <1>1, <1>7, <1>12, <2>1, <2>2 DEF WsSameData, wsMgr
  <2>4. WsSame(d)
    BY <1>1, <2>3, WsStaysSame DEF WsSame
  <2> QED BY <1>0, <1>8, <2>4, WsSameKeeps
<1>13. ASSUME NEW c \in WsFds, c \in ready PROVE WsConn(c)'
  <2>0. /\ wsSock[c].gen <= wsGens /\ (wsSock[c].open => wsSock[c].gen > 0)
        /\ WsPolled(c) /\ WsFresh(c) /\ WsEntering(c) /\ WsLeaving(c) /\ WsPendingSound(c) /\ WsReading(c)
    BY <1>0, Zenon DEF WsConn
  <2>1. UNCHANGED <<wsSock, wsCtx, wsFrame, wsFrames, wsChan, wsPc, wsFd, wsTodo, wsClosing, wsHeld, wsPing, wsGens, wsSent, wsStop>>
    BY <1>1 DEF wsMgr
  <2>2. WsReady(c) /\ Contains(wsBatch', c) /\ wsPoll'[c] = "fired"
    BY <1>5, <1>7, <1>13
  <2>3. wsSock[c].open /\ wsSock[c].gen # 0
    BY <2>0, <2>2 DEF WsPolled, WsReady
  <2>4. WsPolled(c)'
    BY <2>1, <2>2, <2>3 DEF WsPolled, WsAttended
  <2>5. WsFresh(c)'
    BY <2>1, <2>3, Zenon DEF WsFresh
  <2>6. WsToken(c)' <=> WsToken(c)
    BY <2>1, Zenon DEF WsToken
  <2>7. WsEntering(c)'
    <3>1. WsUntouched(c) => WsUntouched(c)' /\ wsSock[c].in = <<>>
      BY <2>1, Zenon DEF WsUntouched
    <3>2. WsOneToken(c) => WsOneToken(c)'
      BY <2>1, Zenon DEF WsOneToken
    <3>3. wsSock[c].in = <<>> => ~wsSock[c].up
      BY <2>2 DEF WsReady
    <3>4. wsClosing => wsClosing'
      BY <2>1
    <3> QED BY <2>0, <2>1, <2>6, <3>1, <3>2, <3>3, <3>4, Zenon DEF WsEntering
  <2>8. WsLeaving(c)'
    BY <2>0, <2>1, Zenon DEF WsLeaving
  <2>9. WsPendingSound(c)'
    <3>1. \A f \in WsFrameType : WsPending(c, f)' => WsPending(c, f)
      BY <2>1, Zenon DEF WsPending
    <3> QED BY <2>0, <2>1, <2>6, <3>1, Zenon DEF WsPendingSound
  <2>10. WsReading(c)'
    <3>1. WsServed(c)' => WsServed(c)
      BY <2>1 DEF WsServed
    <3>2. WsStream(c)' = WsStream(c) /\ WsOwn(c)' = WsOwn(c)
      BY <2>1, Zenon DEF WsStream, WsOwn
    <3> QED BY <2>0, <2>1, <3>1, <3>2, Zenon DEF WsReading
  <2>11. wsSock'[c].gen <= wsGens' /\ (wsSock'[c].open => wsSock'[c].gen > 0)
    BY <2>0, <2>1
  <2> QED BY <2>4, <2>5, <2>7, <2>8, <2>9, <2>10, <2>11, Zenon DEF WsConn
<1>14. \A d \in WsFds : WsConn(d)'
  BY <1>12, <1>13, Zenon
<1> QED BY <1>8, <1>9, <1>10, <1>11, <1>14, Zenon DEF WsInv

(* Recv: the reader takes what has arrived, or begins to remove a client   *)
(* of which nothing has.                                                   *)
LEMMA WsRecvInv == ASSUME WsInv, WsRecv PROVE WsInv'
<1>0. WsTypes /\ WsTurns /\ WsManaged /\ WsReassembled /\ \A c \in WsFds : WsConn(c)
  BY Zenon DEF WsInv
<1>1. /\ wsPc["reader"] = "idle" /\ wsBatch # <<>> /\ wsBatch' = Tail(wsBatch)
      /\ UNCHANGED <<wsPoll, wsMgr, wsChan, wsHeld, wsPing, wsGens, wsSent, wsGot, wsStop>>
  BY Zenon DEF WsRecv
<1>2. /\ wsBatch \in Seq(WsFds) /\ wsGens \in Nat /\ wsSent \in Nat /\ "reader" \in WsThreads /\ "upgrader" \in WsThreads
      /\ "pinger" \in WsThreads /\ "text" \in WsThreads
      /\ wsFd["reader"] = 0 /\ wsSock \in [WsFds -> WsSockType]
  BY <1>0, <1>1, WsAssumption DEF WsTypes, WsThreads, WsTurns
<1>c. PICK c \in WsFds : c = Head(wsBatch)
  BY <1>1, <1>2, WsTailed
<1>3. /\ wsBatch' \in Seq(WsFds) /\ Contains(wsBatch, c)
      /\ \A d : d # c => (Contains(wsBatch', d) <=> Contains(wsBatch, d))
      /\ Contains(wsBatch', c) => Contains(wsBatch, c)
  BY <1>1, <1>2, <1>c, WsTailed
<1>4. PICK pc \in {"remove", "frames"} :
        /\ WsGoOn("reader", pc, c) /\ (pc = "remove" <=> wsSock[c].in = <<>>) /\ (wsClosing' <=> wsSock[c].in = <<>>) /\ wsClosing' \in BOOLEAN
        /\ wsTodo' = wsSock[c].in /\ wsSock' = [wsSock EXCEPT ![c].in = <<>>]
  BY <1>c DEF WsRecv
<1>5. /\ wsSock' \in [WsFds -> WsSockType] /\ \A d \in WsFds : d # c => wsSock'[d] = wsSock[d]
      /\ wsSock'[c].open = wsSock[c].open /\ wsSock'[c].gen = wsSock[c].gen /\ wsSock'[c].in = <<>>
      /\ wsSock'[c].half = wsSock[c].half /\ wsSock'[c].safe = wsSock[c].safe /\ wsSock'[c].up = wsSock[c].up
  <2>0. PICK q \in Seq(WsPieceType) : q = <<>>
    BY WsNoneType
  <2> DEFINE x == [wsSock[c] EXCEPT !.in = q]
  <2>1. /\ x \in WsSockType /\ x.open = wsSock[c].open /\ x.gen = wsSock[c].gen /\ x.in = q
        /\ x.half = wsSock[c].half /\ x.safe = wsSock[c].safe /\ x.up = wsSock[c].up
    BY <1>2, <2>0 DEF WsSockType
  <2>2. wsSock' = [wsSock EXCEPT ![c] = x]
    BY <1>4, <2>0
  <2> HIDE DEF x
  <2> QED BY <1>2, <2>0, <2>1, <2>2
<1>6. /\ wsPc'["reader"] = pc /\ wsFd'["reader"] = c /\ pc # "idle" /\ c # 0
      /\ \A u \in WsThreads : u # "reader" => wsPc'[u] = wsPc[u] /\ wsFd'[u] = wsFd[u]
  BY <1>0, <1>2, <1>4, WsGoes, WsAssumption
<1>7. WsTypes'
  <2>1. /\ wsPc' \in [WsThreads -> {"idle", "register", "addRemove", "add", "frames", "remove", "close", "ping", "answer"}]
        /\ wsFd' \in [WsThreads -> WsFds \cup {0}]
    BY <1>0, <1>2, <1>4, WsGoes
  <2>2. wsTodo' \in Seq(WsPieceType)
    BY <1>0, <1>4, WsStreamType
  <2>3. wsClosing' \in BOOLEAN
    BY <1>4
  <2> QED BY <1>0, <1>1, <1>3, <1>5, <2>1, <2>2, <2>3, Zenon DEF WsTypes, wsMgr
<1>8. WsTurns'
  <2>1. pc \in {"idle", "frames", "remove", "close"} /\ (wsClosing' => wsTodo' = <<>>) /\ (pc = "frames" => ~wsClosing')
    BY <1>4
  <2> QED BY <1>0, <1>4, <1>6, <2>1, WsReaderTurned
<1>9. WsManaged'
  <2>1. wsPc'["upgrader"] = wsPc["upgrader"] /\ wsFd'["upgrader"] = wsFd["upgrader"]
    BY <1>2, <1>6
  <2> QED BY <1>0, <1>1, <2>1, WsManagedKept DEF wsMgr
<1>10. WsReassembled'
  BY <1>0, <1>1, WsGotKept
<1>11. ASSUME NEW d \in WsFds, d # c PROVE WsConn(d)'
  <2>1. d # 0 /\ wsFd["reader"] # d
    BY <1>2, WsAssumption
  <2>2. wsGens' >= wsGens /\ wsSent' >= wsSent
    BY <1>1, <1>2
  <2>3. WsSameData(d)
    BY <1>1, <1>3, <1>5, <1>11, <2>1, <2>2 DEF WsSameData, wsMgr
  <2>4. WsSameMoves(d)
    BY <1>0, <1>2, <1>4, <1>11, <2>1, WsMoveSame
  <2> QED BY <1>0, <1>7, <2>3, <2>4, WsSameKeeps DEF WsSame
<1>12. WsConn(c)'
  <2>0. /\ wsSock[c].gen <= wsGens /\ (wsSock[c].open => wsSock[c].gen > 0)
        /\ WsPolled(c) /\ WsEntering(c) /\ WsLeaving(c) /\ WsPendingSound(c) /\ WsReading(c)
    BY <1>0, Zenon DEF WsConn
  <2>1. UNCHANGED <<wsPoll, wsCtx, wsFrame, wsFrames, wsChan, wsHeld, wsPing, wsGens, wsSent, wsStop>>
    BY <1>1 DEF wsMgr
  <2>2. /\ wsFd'["upgrader"] = wsFd["upgrader"] /\ wsPc'["upgrader"] = wsPc["upgrader"]
        /\ wsFd'["pinger"] = wsFd["pinger"] /\ wsFd'["text"] = wsFd["text"]
    BY <1>2, <1>6
  <2>3. WsToken(c)' <=> WsToken(c)
    BY <2>1, <2>2, Zenon DEF WsToken
  <2>4. WsPolled(c)'
    <3>1. WsAttended(c)'
      <4>1. CASE pc = "frames"
        BY <1>6, <4>1 DEF WsAttended
      <4>2. CASE pc = "remove"
        BY <1>2, <1>6, <4>2 DEF WsAttended, WsRemoving
      <4> QED BY <4>1, <4>2
    <3> QED BY <1>5, <2>0, <2>1, <2>2, <3>1, Zenon DEF WsPolled
  <2>5. WsFresh(c)'
    <3>1. wsSock[c].gen # 0
      BY <1>0, <1>3, WsUsed
    <3> QED BY <1>5, <3>1, Zenon DEF WsFresh
  <2>6. WsEntering(c)'
    <3> SUFFICES ASSUME wsSock[c].safe, WsToken(c)
                 PROVE  /\ WsUntouched(c)' /\ WsOneToken(c)' /\ wsClosing' /\ ~wsSock'[c].up
      BY <1>5, <2>3, Zenon DEF WsEntering
    <3>1. WsUntouched(c) /\ WsOneToken(c) /\ ~wsSock[c].up
      BY <1>3, <2>0, Zenon DEF WsEntering
    <3>2. wsSock[c].in = <<>>
      BY <3>1 DEF WsUntouched
    <3>3. WsUntouched(c)'
      BY <1>5, <2>1, <2>2, <3>1, Zenon DEF WsUntouched
    <3>4. WsOneToken(c)'
      BY <2>1, <2>2, <3>1, Zenon DEF WsOneToken
    <3> QED BY <1>4, <1>5, <3>1, <3>2, <3>3, <3>4
  <2>7. WsLeaving(c)'
    <3> SUFFICES ASSUME wsSock[c].safe, wsCtx[c] # -1, NEW t \in WsThreads, wsFd'[t] = c, wsPc'[t] = "close"
                 PROVE  ~wsSock[c].up /\ wsSock[c].half = WsNone /\ wsTodo' = <<>>
      BY <1>5, <2>1, Zenon DEF WsLeaving
    <3>1. t # "reader"
      BY <1>6
    <3>2. wsFd[t] = c /\ wsPc[t] = "close"
      BY <1>6, <3>1
    <3>3. ~wsSock[c].up /\ wsSock[c].in = <<>> /\ wsSock[c].half = WsNone
      BY <2>0, <3>2, Zenon DEF WsLeaving
    <3> QED BY <1>4, <3>3
  <2>8. WsPendingSound(c)'
    <3>1. \A f \in WsFrameType : WsPending(c, f)' => WsPending(c, f)
      BY <1>4, <1>5 DEF WsPending
    <3> QED BY <1>5, <2>0, <2>1, <2>3, <3>1, Zenon DEF WsPendingSound
  <2>9. WsReading(c)'
    <3>1. WsServed(c)' => WsServed(c)
      BY <1>2, <1>5, <1>6, <2>1 DEF WsServed
    <3>2. wsSock[c].in \in Seq(WsPieceType)
      BY <1>0, WsStreamType
    <3>3. WsStream(c)' = wsSock[c].in \o <<>> /\ WsStream(c) = <<>> \o wsSock[c].in
      BY <1>2, <1>4, <1>5, <1>6 DEF WsStream
    <3>4. WsStream(c)' = WsStream(c)
      BY <3>2, <3>3
    <3>5. WsOwn(c)' = WsOwn(c)
      BY <1>5, Zenon DEF WsOwn
    <3> QED BY <1>5, <2>0, <2>1, <3>1, <3>4, <3>5, Zenon DEF WsReading
  <2>10. wsSock'[c].gen <= wsGens' /\ (wsSock'[c].open => wsSock'[c].gen > 0)
    BY <1>5, <2>0, <2>1
  <2> QED BY <2>4, <2>5, <2>6, <2>7, <2>8, <2>9, <2>10, Zenon DEF WsConn
<1>13. \A d \in WsFds : WsConn(d)'
  BY <1>11, <1>12
<1> QED BY <1>7, <1>8, <1>9, <1>10, <1>13, Zenon DEF WsInv

(* ReregisterRead: the packet is used up, and the descriptor armed again.  *)
LEMMA WsReregisterInv == ASSUME WsInv, WsReregister PROVE WsInv'
<1>0. WsTypes /\ WsTurns /\ WsManaged /\ WsReassembled /\ \A c \in WsFds : WsConn(c)
  BY Zenon DEF WsInv
<1>1. /\ wsPc["reader"] = "frames" /\ wsTodo = <<>>
      /\ UNCHANGED <<wsSock, wsMgr, wsChan, wsBatch, wsTodo, wsClosing, wsHeld, wsPing, wsGens, wsSent, wsGot, wsStop>>
  BY Zenon DEF WsReregister
<1>2. /\ wsGens \in Nat /\ wsSent \in Nat /\ "reader" \in WsThreads /\ "upgrader" \in WsThreads /\ "pinger" \in WsThreads /\ "text" \in WsThreads
      /\ wsPoll \in [WsFds -> {"none", "armed", "fired"}] /\ ~wsClosing
  BY <1>0, <1>1, WsAssumption DEF WsTypes, WsThreads, WsTurns
<1>c. PICK c \in WsFds : c = wsFd["reader"]
  BY <1>0, <1>1, <1>2 DEF WsTurns
<1>3. c # 0 /\ WsGoOn("reader", "idle", c) /\ wsPoll' = [wsPoll EXCEPT ![c] = IF wsPoll[c] = "none" THEN wsPoll[c] ELSE "armed"]
  BY <1>c, WsAssumption DEF WsReregister, WsGo
<1>4. /\ wsPoll' \in [WsFds -> {"none", "armed", "fired"}] /\ \A d \in WsFds : d # c => wsPoll'[d] = wsPoll[d]
      /\ (wsPoll[c] = "none" => wsPoll'[c] = "none") /\ (wsPoll[c] # "none" => wsPoll'[c] = "armed")
  BY <1>2, <1>3
<1>6. /\ wsPc'["reader"] = "idle" /\ wsFd'["reader"] = 0
      /\ \A u \in WsThreads : u # "reader" => wsPc'[u] = wsPc[u] /\ wsFd'[u] = wsFd[u]
  BY <1>0, <1>2, <1>3, WsGoes
<1>7. WsTypes'
  <2>1. /\ wsPc' \in [WsThreads -> {"idle", "register", "addRemove", "add", "frames", "remove", "close", "ping", "answer"}]
        /\ wsFd' \in [WsThreads -> WsFds \cup {0}]
    BY <1>0, <1>2, <1>3, WsGoes
  <2> QED BY <1>0, <1>1, <1>4, <2>1 DEF WsTypes, wsMgr
<1>8. WsTurns'
  BY <1>0, <1>1, <1>2, <1>3, WsReaderTurned
<1>9. WsManaged'
  <2>1. wsPc'["upgrader"] = wsPc["upgrader"] /\ wsFd'["upgrader"] = wsFd["upgrader"]
    BY <1>2, <1>6
  <2> QED BY <1>0, <1>1, <2>1, WsManagedKept DEF wsMgr
<1>10. WsReassembled'
  BY <1>0, <1>1, WsGotKept
<1>11. ASSUME NEW d \in WsFds, d # c PROVE WsConn(d)'
  <2>1. d # 0 /\ wsFd["reader"] # d
    BY <1>c, <1>11, WsAssumption
  <2>2. wsGens' >= wsGens /\ wsSent' >= wsSent
    BY <1>1, <1>2
  <2>3. WsSameData(d)
    BY <1>1, <1>4, <1>11, <2>2 DEF WsSameData, wsMgr
  <2>4. WsSameMoves(d)
    BY <1>0, <1>2, <1>3, <1>11, <2>1, WsMoveSame
  <2> QED BY <1>0, <1>7, <2>3, <2>4, WsSameKeeps DEF WsSame
<1>12. WsConn(c)'
  <2>0. /\ wsSock[c].gen <= wsGens /\ (wsSock[c].open => wsSock[c].gen > 0)
        /\ WsPolled(c) /\ WsEntering(c) /\ WsLeaving(c) /\ WsPendingSound(c) /\ WsReading(c)
    BY <1>0, Zenon DEF WsConn
  <2>1. UNCHANGED <<wsSock, wsCtx, wsFrame, wsFrames, wsChan, wsBatch, wsTodo, wsClosing, wsHeld, wsPing, wsGens, wsSent, wsStop>>
    BY <1>1 DEF wsMgr
  <2>2. wsFd'["upgrader"] = wsFd["upgrader"] /\ wsPc'["upgrader"] = wsPc["upgrader"] /\ wsFd'["reader"] # c /\ wsFd["reader"] = c
    BY <1>2, <1>3, <1>6, <1>c
  <2>3. WsToken(c)' <=> WsToken(c)
    BY <2>1, <2>2, Zenon DEF WsToken
  <2>4. WsPolled(c)'
    <3>1. wsPoll[c] # "none" => WsAttended(c)' /\ wsPoll'[c] # "none"
      BY <1>4 DEF WsAttended
    <3> QED BY <1>4, <2>0, <2>1, <2>2, <3>1, Zenon DEF WsPolled
  <2>5. WsFresh(c)'
    <3>1. wsSock[c].gen # 0
      BY <1>0, <1>2, <2>2, WsUsed
    <3> QED BY <2>1, <3>1, Zenon DEF WsFresh
  <2>6. WsEntering(c)'
    <3>1. ~(wsSock[c].safe /\ WsToken(c))
      BY <1>2, <2>0, <2>2, Zenon DEF WsEntering
    <3> QED BY <2>1, <2>3, <3>1, Zenon DEF WsEntering
  <2>7. WsLeaving(c)'
    <3>1. (\E t \in WsThreads : wsFd'[t] = c /\ wsPc'[t] = "close") => \E t \in WsThreads : wsFd[t] = c /\ wsPc[t] = "close"
      BY <1>6, <2>2
    <3> QED BY <2>0, <2>1, <2>2, <3>1, Zenon DEF WsLeaving
  <2>8. WsPendingSound(c)'
    <3>1. \A f \in WsFrameType : WsPending(c, f)' => WsPending(c, f)
      BY <2>1, <2>2, Zenon DEF WsPending
    <3> QED BY <2>0, <2>1, <2>3, <3>1, Zenon DEF WsPendingSound
  <2>9. WsReading(c)'
    <3>1. WsServed(c)' => WsServed(c)
      BY <1>2, <2>1 DEF WsServed
    <3>2. WsStream(c)' = WsStream(c)
      BY <1>1, <2>1, <2>2 DEF WsStream
    <3>3. WsOwn(c)' = WsOwn(c)
      BY <2>1, Zenon DEF WsOwn
    <3> QED BY <2>0, <2>1, <3>1, <3>2, <3>3, Zenon DEF WsReading
  <2>10. wsSock'[c].gen <= wsGens' /\ (wsSock'[c].open => wsSock'[c].gen > 0)
    BY <2>0, <2>1
  <2> QED BY <2>4, <2>5, <2>6, <2>7, <2>8, <2>9, <2>10, Zenon DEF WsConn
<1>13. \A d \in WsFds : WsConn(d)'
  BY <1>11, <1>12
<1> QED BY <1>7, <1>8, <1>9, <1>10, <1>13, Zenon DEF WsInv

(* What unpack makes of a piece is a frame, as safe as its bytes.          *)
LEMMA WsUnpackedType == ASSUME WsTypes, NEW c, wsTodo # <<>>, NEW f \in WsUnpacked(c)
                        PROVE  f \in WsFrameType /\ f.safe = Head(wsTodo).f.safe
<1>1. Head(wsTodo) \in WsPieceType
  BY DEF WsTypes
<1>2. PICK p \in WsPieceType : p = Head(wsTodo)
  BY <1>1
<1>3. p.f \in WsFrameType
  BY <1>2 DEF WsPieceType
<1>4. p.f.safe \in BOOLEAN
  BY <1>3 DEF WsFrameType
<1>5. f = p.f \/ f \in [op : WsOps, fin : {TRUE}, gen : {0}, n : {0}, safe : {p.f.safe}]
  BY <1>2 DEF WsUnpacked
<1>6. CASE f = p.f
  BY <1>2, <1>3, <1>6
<1>7. CASE f \in [op : WsOps, fin : {TRUE}, gen : {0}, n : {0}, safe : {p.f.safe}]
  <2>1. PICK b \in BOOLEAN : b = p.f.safe
    BY <1>4
  <2>2. PICK y \in BOOLEAN : y = TRUE
    OBVIOUS
  <2>3. f \in [op : WsOps, fin : {y}, gen : {0}, n : {0}, safe : {b}]
    BY <1>7, <2>1, <2>2
  <2>4. PICK o \in WsOps : f = [op |-> o, fin |-> y, gen |-> 0, n |-> 0, safe |-> b]
    BY <2>3, Zenon
  <2>5. f \in WsFrameType /\ f.safe = b
    BY <2>1, <2>2, <2>4 DEF WsFrameType
  <2> QED BY <1>2, <2>1, <2>5
<1> QED BY <1>5, <1>6, <1>7

(* The next piece of a served connection is the one that its client sent   *)
(* next, and unpack makes the client's frame of it.                        *)
LEMMA WsNextPiece ==
  ASSUME WsTypes, NEW c \in WsFds, wsFd["reader"] = c, wsTodo # <<>>, WsServed(c), WsReading(c), wsSock[c].gen > 0
  PROVE  \E low \in 0..wsSent : LET p == Head(wsTodo)
                                    rest == Tail(wsTodo) \o wsSock[c].in
         IN /\ StMessage(wsFrames[c], WsOwn(c), FALSE, low) /\ p.f \in WsOwn(c) /\ p.f.n \in (low + 1)..wsSent
            /\ p.part = "head" => StChain(rest, WsOwn(c), WsNone, p.f, wsSock[c].half, low, wsSent)
            /\ p.part # "head" => /\ WsUnpacked(c) = {p.f}
                                  /\ StChain(rest, WsOwn(c), WsNone, WsNone, wsSock[c].half, p.f.n, wsSent)
<1>1. PICK low \in 0..wsSent : /\ StMessage(wsFrames[c], WsOwn(c), FALSE, low)
                               /\ StChain(WsStream(c), WsOwn(c), WsNone, wsFrame[c], wsSock[c].half, low, wsSent)
  BY Zenon DEF WsReading
<1>2. wsTodo \in Seq(WsPieceType) /\ wsSock[c].in \in Seq(WsPieceType) /\ wsSent \in Nat /\ low \in Nat
  BY WsStreamType DEF WsTypes
<1>3. WsStream(c) = wsTodo \o wsSock[c].in
  BY DEF WsStream
<1>4. WsStream(c) # <<>> /\ WsStream(c)[1] = Head(wsTodo) /\ Tail(WsStream(c)) = Tail(wsTodo) \o wsSock[c].in
  <2>1. ASSUME NEW A \in Seq(WsPieceType), NEW B \in Seq(WsPieceType), A # <<>>
        PROVE  A \o B # <<>> /\ (A \o B)[1] = Head(A) /\ Tail(A \o B) = Tail(A) \o B
    <3>1. /\ Len(A) \in Nat /\ Len(A) >= 1 /\ Len(A \o B) = Len(A) + Len(B) /\ Len(B) \in Nat
          /\ \A i \in 1..Len(A) + Len(B) : (A \o B)[i] = IF i <= Len(A) THEN A[i] ELSE B[i - Len(A)]
      BY <2>1
    <3>2. A \o B # <<>> /\ (A \o B)[1] = Head(A)
      BY <2>1, <3>1
    <3>3. /\ Len(Tail(A)) = Len(A) - 1 /\ Tail(A) \in Seq(WsPieceType) /\ A \o B \in Seq(WsPieceType)
          /\ \A i \in 1..Len(A) - 1 : Tail(A)[i] = A[i + 1]
      BY <2>1
    <3>4. Len(Tail(A) \o B) = Len(A) - 1 + Len(B) /\ Len(Tail(A \o B)) = Len(A) + Len(B) - 1
      BY <2>1, <3>1, <3>2, <3>3
    <3>5. \A i \in 1..Len(A) - 1 + Len(B) : (Tail(A) \o B)[i] = Tail(A \o B)[i]
      BY <2>1, <3>1, <3>2, <3>3
    <3>6. Tail(A) \o B \in Seq(WsPieceType) /\ Tail(A \o B) \in Seq(WsPieceType)
      BY <2>1, <3>2, <3>3
    <3> QED BY <3>1, <3>2, <3>4, <3>5, <3>6
  <2>2. /\ wsTodo \o wsSock[c].in # <<>> /\ (wsTodo \o wsSock[c].in)[1] = Head(wsTodo)
        /\ Tail(wsTodo \o wsSock[c].in) = Tail(wsTodo) \o wsSock[c].in
    BY <1>2, <2>1, Zenon
  <2> QED BY <1>3, <2>2, Zenon
<1>5. /\ WsStream(c)[1].f \in WsOwn(c) /\ WsStream(c)[1].f.n \in (low + 1)..wsSent
      /\ WsStream(c)[1].part = "head" =>
           StChain(Tail(WsStream(c)), WsOwn(c), WsNone, WsStream(c)[1].f, wsSock[c].half, low, wsSent)
      /\ WsStream(c)[1].part # "head" =>
           /\ WsStream(c)[1].part = (IF wsFrame[c] = WsNone THEN "whole" ELSE "tail") /\ wsFrame[c] \in {WsNone, WsStream(c)[1].f}
           /\ StChain(Tail(WsStream(c)), WsOwn(c), WsNone, WsNone, wsSock[c].half, WsStream(c)[1].f.n, wsSent)
  <2>1. /\ WsOwn(c) \subseteq WsFrameType /\ (\A g \in WsOwn(c) : g.n \in Nat) /\ WsNone \notin WsOwn(c)
        /\ WsStream(c) \in Seq([f : WsFrameType, part : {"whole", "head", "tail"}])
    BY WsStreamType, Zenon
  <2> QED BY <1>1, <1>2, <1>4, <2>1, StPopped, ZenonT(60)
<1>6. WsStream(c)[1].part # "head" => WsUnpacked(c) = {Head(wsTodo).f}
  BY <1>4, <1>5 DEF WsUnpacked
<1> QED BY <1>1, <1>4, <1>5, <1>6

(* A frame is handled: the reader stays with the connection, and no frame  *)
(* is added to those on their way.                                         *)
LEMMA WsFrameKeeps ==
  ASSUME WsInv, NEW c \in WsFds, wsFd["reader"] = c, wsPc["reader"] = "frames", wsTodo # <<>>,
         WsTypes', WsTurns', WsReassembled', WsReading(c)',
         UNCHANGED <<wsPoll, wsAll, wsConns, wsCtx, wsChan, wsBatch, wsHeld, wsPing, wsGens, wsSent, wsStop>>,
         \A d \in WsFds : d # c => wsSock'[d] = wsSock[d] /\ wsFrame'[d] = wsFrame[d] /\ wsFrames'[d] = wsFrames[d],
         wsSock'[c].open = wsSock[c].open, wsSock'[c].gen = wsSock[c].gen, wsSock'[c].half = wsSock[c].half,
         wsSock'[c].safe = wsSock[c].safe, wsSock'[c].in \in {wsSock[c].in, <<>>},
         wsTodo' \in {Tail(wsTodo), <<>>},
         \/ UNCHANGED <<wsPc, wsFd>>
         \/ \E pc \in {"frames", "remove"} : WsGoOn("reader", pc, c)
         \/ wsPc["text"] = "idle" /\ WsGoOn("text", "answer", c)
  PROVE  WsInv'
<1>0. WsTypes /\ WsTurns /\ WsManaged /\ WsReassembled /\ \A d \in WsFds : WsConn(d)
  BY Zenon DEF WsInv
<1>1. /\ wsGens \in Nat /\ wsSent \in Nat /\ "reader" \in WsThreads /\ "upgrader" \in WsThreads /\ "pinger" \in WsThreads /\ "text" \in WsThreads
      /\ ~wsClosing /\ c # 0 /\ wsTodo \in Seq(WsPieceType)
  BY <1>0, WsAssumption DEF WsTypes, WsThreads, WsTurns
<1>2. /\ wsFd'["reader"] = c /\ wsPc'["reader"] \in {"frames", "remove"}
      /\ wsFd'["upgrader"] = wsFd["upgrader"] /\ wsPc'["upgrader"] = wsPc["upgrader"]
      /\ wsFd'["pinger"] = wsFd["pinger"] /\ wsPc'["pinger"] = wsPc["pinger"]
      /\ (wsFd'["text"] = wsFd["text"] /\ wsPc'["text"] = wsPc["text"]) \/ wsPc'["text"] = "answer"
  <2>1. CASE UNCHANGED <<wsPc, wsFd>>
    BY <2>1
  <2>2. ASSUME NEW pc \in {"frames", "remove"}, WsGoOn("reader", pc, c)
        PROVE  /\ wsFd'["reader"] = c /\ wsPc'["reader"] = pc
               /\ \A u \in WsThreads : u # "reader" => wsPc'[u] = wsPc[u] /\ wsFd'[u] = wsFd[u]
    BY <1>0, <1>1, <2>2, WsGoes
  <2>3. CASE wsPc["text"] = "idle" /\ WsGoOn("text", "answer", c)
    <3>1. /\ wsPc'["text"] = "answer"
          /\ \A u \in WsThreads : u # "text" => wsPc'[u] = wsPc[u] /\ wsFd'[u] = wsFd[u]
      BY <1>0, <1>1, <2>3, WsGoes
    <3> QED BY <1>1, <3>1
  <2> QED BY <1>1, <2>1, <2>2, <2>3
<1>3. WsManaged'
  BY <1>0, <1>2, WsManagedKept
<1>4. ASSUME NEW d \in WsFds, d # c PROVE WsConn(d)'
  <2>1. wsFd["reader"] # d /\ wsGens' >= wsGens /\ wsSent' >= wsSent
    BY <1>1, <1>4
  <2>2. WsSameData(d)
    BY <1>4, <2>1 DEF WsSameData
  <2>3. WsSameMoves(d)
    <3>1. CASE UNCHANGED <<wsPc, wsFd>>
      BY <3>1, WsStaysSame
    <3>2. ASSUME NEW pc \in {"frames", "remove"}, WsGoOn("reader", pc, c) PROVE WsSameMoves(d)
      BY <1>0, <1>1, <1>4, <2>1, <3>2, WsMoveSame
    <3>3. CASE wsPc["text"] = "idle" /\ WsGoOn("text", "answer", c)
      BY <1>0, <1>1, <1>4, <3>3, WsMoveSame
    <3> QED BY <3>1, <3>2, <3>3
  <2> QED BY <1>0, <2>2, <2>3, WsSameKeeps DEF WsSame
<1>5. WsConn(c)'
  <2>0. /\ wsSock[c].gen <= wsGens /\ (wsSock[c].open => wsSock[c].gen > 0)
        /\ WsPolled(c) /\ WsEntering(c) /\ WsLeaving(c) /\ WsPendingSound(c)
    BY <1>0, Zenon DEF WsConn
  <2>1. WsToken(c)' <=> WsToken(c)
    BY <1>2, Zenon DEF WsToken
  <2>2. WsPolled(c)'
    <3>1. WsAttended(c)'
      <4>1. CASE wsPc'["reader"] = "frames"
        BY <1>2, <4>1 DEF WsAttended
      <4>2. CASE wsPc'["reader"] = "remove"
        BY <1>1, <1>2, <4>2 DEF WsAttended, WsRemoving
      <4> QED BY <1>2, <4>1, <4>2
    <3> QED BY <1>2, <2>0, <3>1, Zenon DEF WsPolled
  <2>3. WsFresh(c)'
    <3>1. wsSock[c].gen # 0
      BY <1>0, <1>1, WsUsed
    <3> QED BY <3>1, Zenon DEF WsFresh
  <2>4. WsEntering(c)'
    BY <1>1, <2>0, <2>1, Zenon DEF WsEntering
  <2>5. WsLeaving(c)'
    <3>1. (\E t \in WsThreads : wsFd'[t] = c /\ wsPc'[t] = "close") => \E t \in WsThreads : wsFd[t] = c /\ wsPc[t] = "close"
      BY <1>1, <1>2 DEF WsThreads
    <3> QED BY <2>0, <3>1, Zenon DEF WsLeaving
  <2>6. WsPendingSound(c)'
    <3>1. ASSUME NEW f, \E i \in 1..Len(wsTodo') : wsTodo'[i].f = f PROVE \E i \in 1..Len(wsTodo) : wsTodo[i].f = f
      <4>1. wsTodo' = Tail(wsTodo)
        BY <3>1
      <4>2. \A i \in 1..Len(Tail(wsTodo)) : Tail(wsTodo)[i] = wsTodo[i + 1] /\ i + 1 \in 1..Len(wsTodo)
        BY <1>1
      <4> QED BY <3>1, <4>1, <4>2
    <3>2. ASSUME NEW f, \E i \in 1..Len(wsSock'[c].in) : wsSock'[c].in[i].f = f
          PROVE  \E i \in 1..Len(wsSock[c].in) : wsSock[c].in[i].f = f
      BY <3>2
    <3>3. \A f \in WsFrameType : WsPending(c, f)' => WsPending(c, f)
      BY <1>2, <3>1, <3>2, Zenon DEF WsPending
    <3> QED BY <2>0, <2>1, <3>3, Zenon DEF WsPendingSound
  <2>7. wsSock'[c].gen <= wsGens' /\ (wsSock'[c].open => wsSock'[c].gen > 0)
    BY <2>0
  <2> QED BY <2>2, <2>3, <2>4, <2>5, <2>6, <2>7, Zenon DEF WsConn
<1>6. \A d \in WsFds : WsConn(d)'
  BY <1>4, <1>5
<1> QED BY <1>3, <1>6, Zenon DEF WsInv

(* What the branches of FrameStep have in common.                          *)
WsStepping(c) ==
  /\ wsPc["reader"] = "frames" /\ wsTodo # <<>> /\ wsFd["reader"] = c
  /\ UNCHANGED <<wsPoll, wsAll, wsConns, wsCtx, wsChan, wsBatch, wsHeld, wsPing, wsGens, wsSent, wsStop>>

(* The types of such a step.                                               *)
LEMMA WsSteppingTypes ==
  ASSUME WsInv, NEW c \in WsFds, WsStepping(c)
  PROVE  /\ WsTypes /\ WsTurns /\ WsReassembled /\ WsConn(c) /\ WsReading(c) /\ wsSock[c].gen \in Nat /\ wsSock[c].gen > 0
         /\ ~wsClosing /\ wsSent \in Nat /\ "reader" \in WsThreads /\ "text" \in WsThreads
         /\ Head(wsTodo) \in WsPieceType /\ Head(wsTodo).f \in WsFrameType /\ Head(wsTodo).f.n \in Nat /\ Tail(wsTodo) \in Seq(WsPieceType)
         /\ wsFrame \in [WsFds -> WsFrameType] /\ wsFrames \in [WsFds -> Seq(WsFrameType)]
         /\ wsGot \in [frags : Seq(WsFrameType), member : BOOLEAN]
<1>1. WsTypes /\ WsTurns /\ WsReassembled /\ WsConn(c)
  BY Zenon DEF WsInv
<1>2. WsReading(c)
  BY <1>1, Zenon DEF WsConn
<1>3. /\ ~wsClosing /\ wsSent \in Nat /\ "reader" \in WsThreads /\ "text" \in WsThreads /\ wsTodo # <<>> /\ wsTodo \in Seq(WsPieceType)
      /\ wsFrame \in [WsFds -> WsFrameType] /\ wsFrames \in [WsFds -> Seq(WsFrameType)]
      /\ wsGot \in [frags : Seq(WsFrameType), member : BOOLEAN] /\ wsFd["reader"] = c
  BY <1>1 DEF WsTypes, WsTurns, WsStepping, WsThreads
<1>4. Head(wsTodo) \in WsPieceType /\ Tail(wsTodo) \in Seq(WsPieceType)
  BY <1>3
<1>5. Head(wsTodo).f \in WsFrameType
  BY <1>4 DEF WsPieceType
<1>6. Head(wsTodo).f.n \in Nat
  BY <1>5 DEF WsFrameType
<1>7. wsSock[c].gen \in Nat /\ wsSock[c].gen > 0
  BY <1>1, <1>3, WsUsed, WsStreamType
<1> QED BY <1>1, <1>2, <1>3, <1>4, <1>5, <1>6, <1>7

(* A served connection has been served before the step too.                *)
LEMMA WsServedBefore ==
  ASSUME NEW c \in WsFds, WsStepping(c), ~wsClosing, wsSock'[c].safe = wsSock[c].safe, WsServed(c)' PROVE WsServed(c)
BY DEF WsServed, WsStepping

(* An incomplete frame is stored.                                          *)
LEMMA WsStoreHeadInv ==
  ASSUME WsInv, NEW c \in WsFds, WsStepping(c), Head(wsTodo).part = "head", WsStoreHead(c) PROVE WsInv'
<1>0. /\ WsTypes /\ WsTurns /\ WsReassembled /\ WsConn(c) /\ WsReading(c) /\ wsSock[c].gen > 0
      /\ ~wsClosing /\ wsSent \in Nat /\ Head(wsTodo).f \in WsFrameType /\ Tail(wsTodo) \in Seq(WsPieceType)
      /\ wsFrame \in [WsFds -> WsFrameType]
  BY WsSteppingTypes
<1>1. /\ wsFrame' = [wsFrame EXCEPT ![c] = Head(wsTodo).f] /\ wsTodo' = Tail(wsTodo)
      /\ UNCHANGED <<wsSock, wsFrames, wsPc, wsFd, wsClosing, wsGot>>
  BY Zenon DEF WsStoreHead
<1>2. wsFrame' \in [WsFds -> WsFrameType] /\ wsFrame'[c] = Head(wsTodo).f /\ \A d \in WsFds : d # c => wsFrame'[d] = wsFrame[d]
  BY <1>0, <1>1
<1>3. /\ wsPc["reader"] = "frames" /\ wsTodo # <<>> /\ wsFd["reader"] = c
      /\ UNCHANGED <<wsPoll, wsAll, wsConns, wsCtx, wsChan, wsBatch, wsHeld, wsPing, wsGens, wsSent, wsStop>>
  BY DEF WsStepping
<1>4. WsTypes'
  BY <1>0, <1>1, <1>2, <1>3 DEF WsTypes
<1>5. WsTurns'
  BY <1>0, <1>1, <1>3 DEF WsTurns
<1>6. WsReassembled'
  BY <1>0, <1>1, WsGotKept
<1>7. WsReading(c)'
  <2> SUFFICES ASSUME WsServed(c)'
               PROVE  \E low \in 0..wsSent :
                         /\ StMessage(wsFrames[c], WsOwn(c), FALSE, low)
                         /\ StChain(WsStream(c)', WsOwn(c), WsNone, Head(wsTodo).f, wsSock[c].half, low, wsSent)
    <3>1. WsOwn(c)' = WsOwn(c)
      BY <1>1, Zenon DEF WsOwn
    <3> QED BY <1>1, <1>2, <1>3, <3>1, Zenon DEF WsReading
  <2>1. WsServed(c)
    BY <1>0, <1>1, WsServedBefore
  <2>2. WsStream(c)' = Tail(wsTodo) \o wsSock[c].in
    BY <1>1, <1>3 DEF WsStream
  <2> QED BY <1>0, <1>3, <2>1, <2>2, WsNextPiece
<1> QED BY <1>1, <1>2, <1>3, <1>4, <1>5, <1>6, <1>7, WsFrameKeeps

(* A ping is answered; when that fails the reader removes the client.      *)
LEMMA WsHandlePingInv ==
  ASSUME WsInv, NEW c \in WsFds, WsStepping(c), Head(wsTodo).part # "head", wsFrame' = [wsFrame EXCEPT ![c] = WsNone],
         WsHandlePing(c)
  PROVE  WsInv'
<1>0. /\ WsTypes /\ WsTurns /\ WsReassembled /\ WsConn(c) /\ WsReading(c) /\ wsSock[c].gen > 0
      /\ ~wsClosing /\ wsSent \in Nat /\ Head(wsTodo).f.n \in Nat /\ Tail(wsTodo) \in Seq(WsPieceType) /\ "reader" \in WsThreads
      /\ wsFrame \in [WsFds -> WsFrameType]
  BY WsSteppingTypes
<1>3. /\ wsPc["reader"] = "frames" /\ wsTodo # <<>> /\ wsFd["reader"] = c
      /\ UNCHANGED <<wsPoll, wsAll, wsConns, wsCtx, wsChan, wsBatch, wsHeld, wsPing, wsGens, wsSent, wsStop>>
  BY DEF WsStepping
<1>1. PICK pc \in {"frames", "remove"} : WsGoOn("reader", pc, c) /\ wsTodo' = Tail(wsTodo) /\ UNCHANGED <<wsSock, wsFrames, wsClosing, wsGot>>
  BY <1>3 DEF WsHandlePing, WsGo
<1>2. wsFrame' \in [WsFds -> WsFrameType] /\ wsFrame'[c] = WsNone /\ \A d \in WsFds : d # c => wsFrame'[d] = wsFrame[d]
  BY <1>0, WsNoneType
<1>4. WsTypes'
  <2>1. /\ wsPc' \in [WsThreads -> {"idle", "register", "addRemove", "add", "frames", "remove", "close", "ping", "answer"}]
        /\ wsFd' \in [WsThreads -> WsFds \cup {0}]
    BY <1>0, <1>1, WsGoes
  <2> QED BY <1>0, <1>1, <1>2, <1>3, <2>1 DEF WsTypes
<1>5. WsTurns'
  BY <1>0, <1>1, WsReaderTurned
<1>6. WsReassembled'
  BY <1>0, <1>1, WsGotKept
<1>r. wsFd'["reader"] = c
  BY <1>0, <1>1, WsGoes
<1>7. WsReading(c)'
  <2> SUFFICES ASSUME WsServed(c)'
               PROVE  \E low \in 0..wsSent :
                         /\ StMessage(wsFrames[c], WsOwn(c), FALSE, low)
                         /\ StChain(WsStream(c)', WsOwn(c), WsNone, WsNone, wsSock[c].half, low, wsSent)
    <3>1. WsOwn(c)' = WsOwn(c)
      BY <1>1, Zenon DEF WsOwn
    <3> QED BY <1>1, <1>2, <1>3, <3>1, Zenon DEF WsReading
  <2>1. WsServed(c)
    BY <1>0, <1>1, WsServedBefore
  <2>2. WsStream(c)' = Tail(wsTodo) \o wsSock[c].in
    BY <1>1, <1>r DEF WsStream
  <2>3. PICK low \in 0..wsSent :
           /\ StMessage(wsFrames[c], WsOwn(c), FALSE, low) /\ Head(wsTodo).f.n \in (low + 1)..wsSent
           /\ StChain(WsStream(c)', WsOwn(c), WsNone, WsNone, wsSock[c].half, Head(wsTodo).f.n, wsSent)
    BY <1>0, <1>3, <2>1, <2>2, WsNextPiece
  <2>4. PICK n \in Nat : n = Head(wsTodo).f.n /\ n \in 0..wsSent /\ low <= n /\ low \in Nat
    BY <1>0, <2>3
  <2>5. StMessage(wsFrames[c], WsOwn(c), FALSE, n)
    BY <1>0, <2>3, <2>4, StLater, WsStreamType, ZenonT(60)
  <2> QED BY <2>3, <2>4, <2>5
<1> QED BY <1>1, <1>2, <1>3, <1>4, <1>5, <1>6, <1>7, WsFrameKeeps

(* A frame that ends the connection.                                       *)
LEMMA WsCloseClientInv ==
  ASSUME WsInv, NEW c \in WsFds, WsStepping(c), wsFrame' = [wsFrame EXCEPT ![c] = WsNone], NEW drop, WsCloseClient(c, drop)
  PROVE  WsInv'
<1>0. /\ WsTypes /\ WsTurns /\ WsReassembled /\ "reader" \in WsThreads /\ wsFrame \in [WsFds -> WsFrameType]
      /\ wsSock \in [WsFds -> WsSockType]
  BY WsSteppingTypes DEF WsTypes
<1>3. /\ wsPc["reader"] = "frames" /\ wsTodo # <<>> /\ wsFd["reader"] = c
      /\ UNCHANGED <<wsPoll, wsAll, wsConns, wsCtx, wsChan, wsBatch, wsHeld, wsPing, wsGens, wsSent, wsStop>>
  BY DEF WsStepping
<1>1. /\ WsGoOn("reader", "remove", c) /\ wsTodo' = <<>> /\ wsClosing' = TRUE /\ UNCHANGED <<wsFrames, wsGot>>
      /\ wsSock' = wsSock \/ wsSock' = [wsSock EXCEPT ![c].in = <<>>]
  BY <1>3 DEF WsCloseClient, WsGo
<1>2. wsFrame' \in [WsFds -> WsFrameType] /\ wsFrame'[c] = WsNone /\ \A d \in WsFds : d # c => wsFrame'[d] = wsFrame[d]
  BY <1>0, WsNoneType
<1>8. /\ wsSock' \in [WsFds -> WsSockType] /\ \A d \in WsFds : d # c => wsSock'[d] = wsSock[d]
      /\ wsSock'[c].open = wsSock[c].open /\ wsSock'[c].gen = wsSock[c].gen /\ wsSock'[c].in \in {wsSock[c].in, <<>>}
      /\ wsSock'[c].half = wsSock[c].half /\ wsSock'[c].safe = wsSock[c].safe
  <2>1. CASE wsSock' = wsSock
    BY <1>0, <2>1
  <2>2. CASE wsSock' = [wsSock EXCEPT ![c].in = <<>>]
    <3>0. PICK q \in Seq(WsPieceType) : q = <<>>
      BY WsNoneType
    <3> DEFINE x == [wsSock[c] EXCEPT !.in = q]
    <3>1. /\ x \in WsSockType /\ x.open = wsSock[c].open /\ x.gen = wsSock[c].gen /\ x.in = q
          /\ x.half = wsSock[c].half /\ x.safe = wsSock[c].safe
      BY <1>0, <3>0 DEF WsSockType
    <3>2. wsSock' = [wsSock EXCEPT ![c] = x]
      BY <2>2, <3>0
    <3> HIDE DEF x
    <3> QED BY <1>0, <3>0, <3>1, <3>2
  <2> QED BY <1>1, <2>1, <2>2
<1>4. WsTypes'
  <2>1. /\ wsPc' \in [WsThreads -> {"idle", "register", "addRemove", "add", "frames", "remove", "close", "ping", "answer"}]
        /\ wsFd' \in [WsThreads -> WsFds \cup {0}]
    BY <1>0, <1>1, WsGoes
  <2>2. wsTodo' \in Seq(WsPieceType)
    BY <1>1, WsNoneType
  <2>3. wsClosing' \in BOOLEAN
    BY <1>1, Zenon
  <2> QED BY <1>0, <1>1, <1>2, <1>3, <1>8, <2>1, <2>2, <2>3, Zenon DEF WsTypes
<1>5. WsTurns'
  BY <1>0, <1>1, WsReaderTurned
<1>6. WsReassembled'
  BY <1>0, <1>1, WsGotKept
<1>7. WsReading(c)'
  <2>1. wsFd'["reader"] = c /\ wsClosing'
    BY <1>0, <1>1, WsGoes
  <2> QED BY <2>1, Zenon DEF WsReading, WsServed
<1> QED BY <1>1, <1>2, <1>3, <1>4, <1>5, <1>6, <1>7, <1>8, WsFrameKeeps

(* A fragment is kept, or completes the message that a handler gets.       *)
LEMMA WsHandleFragmentInv ==
  ASSUME WsInv, NEW c \in WsFds, WsStepping(c), Head(wsTodo).part # "head", wsFrame' = [wsFrame EXCEPT ![c] = WsNone],
         NEW f \in WsUnpacked(c), (wsFrames[c] = <<>>) # (f.op = "cont"), WsHandleFragment(c, f)
  PROVE  WsInv'
<1>0. /\ WsTypes /\ WsTurns /\ WsReassembled /\ WsConn(c) /\ WsReading(c) /\ wsSock[c].gen > 0 /\ wsSock[c].gen \in Nat
      /\ ~wsClosing /\ wsSent \in Nat /\ Head(wsTodo).f.n \in Nat /\ Tail(wsTodo) \in Seq(WsPieceType) /\ "text" \in WsThreads
      /\ wsFrame \in [WsFds -> WsFrameType] /\ wsFrames \in [WsFds -> Seq(WsFrameType)] /\ Head(wsTodo).f \in WsFrameType
      /\ wsGot \in [frags : Seq(WsFrameType), member : BOOLEAN] /\ "reader" \in WsThreads
  BY WsSteppingTypes
<1>3. /\ wsPc["reader"] = "frames" /\ wsTodo # <<>> /\ wsFd["reader"] = c
      /\ UNCHANGED <<wsPoll, wsAll, wsConns, wsCtx, wsChan, wsBatch, wsHeld, wsPing, wsGens, wsSent, wsStop>>
  BY DEF WsStepping
<1>f. f \in WsFrameType /\ f.safe = Head(wsTodo).f.safe /\ f.fin \in BOOLEAN
  <2>1. f \in WsFrameType /\ f.safe = Head(wsTodo).f.safe
    BY <1>0, <1>3, WsUnpackedType
  <2> QED BY <2>1 DEF WsFrameType
<1>1. wsTodo' = Tail(wsTodo) /\ wsSock' = wsSock /\ wsClosing' = wsClosing
  BY DEF WsHandleFragment
<1>2. wsFrame' \in [WsFds -> WsFrameType] /\ wsFrame'[c] = WsNone /\ \A d \in WsFds : d # c => wsFrame'[d] = wsFrame[d]
  BY <1>0, WsNoneType
<1>a. PICK more \in Seq(WsFrameType) : more = Append(wsFrames[c], f)
  <2>1. wsFrames[c] \in Seq(WsFrameType)
    BY <1>0
  <2>2. Append(wsFrames[c], f) \in Seq(WsFrameType)
    BY <1>f, <2>1
  <2> QED BY <2>2
<1>4. ASSUME WsServed(c)
      PROVE  \E n \in 0..wsSent : /\ StMessage(more, WsOwn(c), f.fin, n)
                                  /\ StChain(Tail(wsTodo) \o wsSock[c].in, WsOwn(c), WsNone, WsNone, wsSock[c].half, n, wsSent)
  <2>1. PICK low \in 0..wsSent :
           /\ StMessage(wsFrames[c], WsOwn(c), FALSE, low) /\ Head(wsTodo).f \in WsOwn(c) /\ Head(wsTodo).f.n \in (low + 1)..wsSent
           /\ WsUnpacked(c) = {Head(wsTodo).f}
           /\ StChain(Tail(wsTodo) \o wsSock[c].in, WsOwn(c), WsNone, WsNone, wsSock[c].half, Head(wsTodo).f.n, wsSent)
    BY <1>0, <1>3, <1>4, WsNextPiece
  <2>2. f = Head(wsTodo).f
    BY <2>1
  <2>3. f \in WsOwn(c) /\ f.n \in 0..wsSent /\ f.n > low /\ low \in Nat /\ (f.op = "cont") = (wsFrames[c] # <<>>)
    BY <1>0, <2>1, <2>2
  <2>4. StMessage(more, WsOwn(c), f.fin, f.n)
    BY <1>0, <1>a, <2>1, <2>3, StFragment, WsStreamType
  <2> QED BY <2>1, <2>2, <2>3, <2>4
<1>5. CASE ~f.fin
  <2>1. wsFrames' = [wsFrames EXCEPT ![c] = more] /\ UNCHANGED <<wsGot, wsPc, wsFd>>
    BY <1>5, <1>a DEF WsHandleFragment
  <2>2. wsFrames' \in [WsFds -> Seq(WsFrameType)] /\ wsFrames'[c] = more /\ \A d \in WsFds : d # c => wsFrames'[d] = wsFrames[d]
    BY <1>0, <1>a, <2>1
  <2>3. WsTypes'
    BY <1>0, <1>1, <1>2, <1>3, <2>1, <2>2 DEF WsTypes
  <2>4. WsTurns'
    BY <1>0, <1>1, <1>3, <2>1 DEF WsTurns
  <2>5. WsReassembled'
    BY <1>0, <2>1, WsGotKept
  <2>6. WsReading(c)'
    <3> SUFFICES ASSUME WsServed(c)'
                 PROVE  \E low \in 0..wsSent :
                           /\ StMessage(more, WsOwn(c), FALSE, low)
                           /\ StChain(WsStream(c)', WsOwn(c), WsNone, WsNone, wsSock[c].half, low, wsSent)
      <4>1. WsOwn(c)' = WsOwn(c)
        BY <1>1, Zenon DEF WsOwn
      <4>2. wsSent' = wsSent
        BY <1>3
      <4> QED BY <1>1, <1>2, <2>2, <4>1, <4>2, Zenon DEF WsReading
    <3>1. WsServed(c)
      BY <1>0, <1>1, WsServedBefore
    <3>2. WsStream(c)' = Tail(wsTodo) \o wsSock[c].in
      BY <1>1, <1>3, <2>1 DEF WsStream
    <3>3. f.fin = FALSE
      BY <1>5, <1>f
    <3> QED BY <1>4, <3>1, <3>2, <3>3
  <2> QED BY <1>1, <1>2, <1>3, <2>1, <2>2, <2>3, <2>4, <2>5, <2>6, WsFrameKeeps
<1>6. CASE f.fin
  <2>0. PICK m \in BOOLEAN : m = (wsCtx[c] # -1 /\ wsSock[c].gen = Head(wsTodo).f.gen)
    OBVIOUS
  <2>1. /\ wsPc["text"] = "idle" /\ wsFrames' = [wsFrames EXCEPT ![c] = <<>>] /\ wsGot' = [frags |-> more, member |-> m]
        /\ WsGoOn("text", "answer", c)
    BY <1>6, <1>a, <2>0 DEF WsHandleFragment
  <2>2. wsFrames' \in [WsFds -> Seq(WsFrameType)] /\ wsFrames'[c] = <<>> /\ \A d \in WsFds : d # c => wsFrames'[d] = wsFrames[d]
    BY <1>0, <2>1
  <2>3. WsTypes'
    <3>1. /\ wsPc' \in [WsThreads -> {"idle", "register", "addRemove", "add", "frames", "remove", "close", "ping", "answer"}]
          /\ wsFd' \in [WsThreads -> WsFds \cup {0}]
      BY <1>0, <2>1, WsGoes
    <3>2. wsGot' \in [frags : Seq(WsFrameType), member : BOOLEAN]
      BY <1>a, <2>0, <2>1
    <3> QED BY <1>0, <1>1, <1>2, <1>3, <2>2, <3>1, <3>2 DEF WsTypes
  <2>m. wsFd'["reader"] = c /\ wsPc'["reader"] = "frames"
    <3>1. \A u \in WsThreads : u # "text" => wsPc'[u] = wsPc[u] /\ wsFd'[u] = wsFd[u]
      BY <1>0, <2>1, WsGoes
    <3> QED BY <1>0, <1>3, <3>1
  <2>4. WsTurns'
    <3>1. /\ wsPc'["text"] = "answer" /\ wsFd'["text"] = c
          /\ \A u \in WsThreads : u # "text" => wsPc'[u] = wsPc[u] /\ wsFd'[u] = wsFd[u]
      BY <1>0, <2>1, WsGoes
    <3>2. \A u \in WsThreads : /\ wsPc'[u] = "idle" => wsFd'[u] = 0
                               /\ wsPc'[u] \notin {"idle", "ping"} => wsFd'[u] \in WsFds
      BY <1>0, <3>1 DEF WsTurns
    <3>3. wsPc'["upgrader"] = wsPc["upgrader"] /\ wsPc'["pinger"] = wsPc["pinger"]
      BY <3>1 DEF WsThreads
    <3> QED BY <1>0, <1>1, <2>m, <3>1, <3>2, <3>3 DEF WsTurns
  <2>5. WsReassembled'
    <3>0. wsGot'.frags = more /\ wsGot'.member = m
      BY <2>1
    <3> SUFFICES ASSUME m, \A i \in DOMAIN more : more[i].safe
                 PROVE  /\ \A i \in DOMAIN more : /\ more[i].gen = more[1].gen /\ more[i].gen > 0
                                                  /\ (more[i].op = "cont") = (i > 1) /\ more[i].fin = (i = Len(more))
                        /\ \A i, j \in DOMAIN more : i < j => more[i].n < more[j].n
      BY <3>0, Zenon DEF WsReassembled
    <3>1. Len(more) \in Nat /\ Len(more) >= 1 /\ DOMAIN more = 1..Len(more) /\ more[Len(more)] = f
      BY <1>0, <1>a, <1>f
    <3>2. f.safe
      BY <3>1
    <3>3. WsServed(c)
      <4>1. WsPending(c, Head(wsTodo).f)
        <5>1. wsTodo \in Seq(WsPieceType)
          BY <1>0 DEF WsTypes
        <5>2. 1 \in 1..Len(wsTodo) /\ wsTodo[1] = Head(wsTodo)
          BY <1>3, <5>1
        <5> QED BY <1>3, <5>2, Zenon DEF WsPending
      <4>2. wsCtx[c] # -1 /\ wsSock[c].gen = Head(wsTodo).f.gen
        BY <2>0
      <4>3. Head(wsTodo).f.safe
        BY <1>f, <3>2
      <4>4. WsPendingSound(c)
        BY <1>0, Zenon DEF WsConn
      <4>5. wsSock[c].safe
        BY <1>0, <4>1, <4>2, <4>3, <4>4, Zenon DEF WsPendingSound
      <4> QED BY <1>0, <4>2, <4>5 DEF WsServed
    <3>4. PICK n \in 0..wsSent : StMessage(more, WsOwn(c), f.fin, n)
      BY <1>4, <3>3
    <3>5. \A i \in 1..Len(more) : /\ more[i] \in WsOwn(c) /\ (more[i].op = "cont") = (i > 1)
                                  /\ more[i].fin = (f.fin /\ i = Len(more))
      BY <3>4, Zenon DEF StMessage
    <3>6. \A i \in 1..Len(more) : more[i].gen = wsSock[c].gen
      BY <3>5 DEF WsOwn
    <3>7. \A i \in 1..Len(more) : more[i].gen = more[1].gen /\ more[i].gen > 0
      BY <1>0, <3>1, <3>6
    <3>8. \A i, j \in 1..Len(more) : i < j => more[i].n < more[j].n
      BY <3>4, Zenon DEF StMessage
    <3>9. \A i \in 1..Len(more) : (more[i].op = "cont") = (i > 1) /\ more[i].fin = (i = Len(more))
      BY <1>6, <3>5
    <3> QED BY <3>1, <3>7, <3>8, <3>9, Zenon
  <2>6. WsReading(c)'
    <3> SUFFICES ASSUME WsServed(c)'
                 PROVE  \E low \in 0..wsSent :
                           /\ StMessage(<<>>, WsOwn(c), FALSE, low)
                           /\ StChain(WsStream(c)', WsOwn(c), WsNone, WsNone, wsSock[c].half, low, wsSent)
      <4>1. WsOwn(c)' = WsOwn(c)
        BY <1>1, Zenon DEF WsOwn
      <4>2. wsSent' = wsSent
        BY <1>3
      <4> QED BY <1>1, <1>2, <2>2, <4>1, <4>2, Zenon DEF WsReading
    <3>1. WsServed(c)
      BY <1>0, <1>1, WsServedBefore
    <3>2. WsStream(c)' = Tail(wsTodo) \o wsSock[c].in
      BY <1>1, <2>m DEF WsStream
    <3> QED BY <1>4, <3>1, <3>2, StEmpty
  <2> QED BY <1>1, <1>2, <1>3, <2>1, <2>2, <2>3, <2>4, <2>5, <2>6, WsFrameKeeps
<1> QED BY <1>5, <1>6

(* FrameStep: one frame of the packet.                                     *)
LEMMA WsFrameStepInv == ASSUME WsInv, WsFrameStep PROVE WsInv'
<1>1. PICK c \in WsFds : c = wsFd["reader"]
  <2>1. WsTurns /\ wsPc["reader"] = "frames" /\ "reader" \in WsThreads
    BY Zenon DEF WsInv, WsFrameStep, WsThreads
  <2> QED BY <2>1 DEF WsTurns
<1>2. WsStepping(c)
  BY <1>1 DEF WsFrameStep, WsStepping
<1>3. CASE Head(wsTodo).part = "head"
  <2>1. WsStoreHead(c)
    BY <1>1, <1>3, Zenon DEF WsFrameStep
  <2> QED BY <1>2, <1>3, <2>1, WsStoreHeadInv
<1>4. CASE Head(wsTodo).part # "head"
  <2>1. wsFrame' = [wsFrame EXCEPT ![c] = WsNone] /\ \E f \in WsUnpacked(c) : WsHandleFrame(c, f)
    BY <1>1, <1>4, Zenon DEF WsFrameStep
  <2>2. PICK f \in WsUnpacked(c) : WsHandleFrame(c, f)
    BY <2>1
  <2>3. CASE f.op = "ping"
    <3>1. WsHandlePing(c)
      BY <2>2, <2>3, Zenon DEF WsHandleFrame
    <3> QED BY <1>2, <1>4, <2>1, <3>1, WsHandlePingInv
  <2>4. CASE f.op # "ping" /\ f.op \in {"text", "cont"} /\ (wsFrames[c] = <<>>) # (f.op = "cont")
    <3>1. WsHandleFragment(c, f)
      BY <2>2, <2>4, Zenon DEF WsHandleFrame
    <3> QED BY <1>2, <1>4, <2>1, <2>2, <2>4, <3>1, WsHandleFragmentInv
  <2>5. CASE f.op # "ping" /\ ~(f.op \in {"text", "cont"} /\ (wsFrames[c] = <<>>) # (f.op = "cont"))
    <3>1. WsCloseClient(c, f.op # "close")
      BY <2>2, <2>5, Zenon DEF WsHandleFrame
    <3> QED BY <1>2, <2>1, <3>1, WsCloseClientInv
  <2> QED BY <2>3, <2>4, <2>5, Zenon
<1> QED BY <1>3, <1>4

(* Every step keeps the invariant.                                         *)
LEMMA WsNextInv == ASSUME WsInv, [WsNext]_wsVars PROVE WsInv'
<1>1. CASE WsServe
  <2>1. CASE \E t \in {"reader", "pinger", "text"} : WsClientRemove(t)
    <3>1. PICK t \in {"reader", "pinger", "text"} : WsRemoveMgr(t) \/ WsRemoveClose(t)
      BY <2>1, Zenon DEF WsClientRemove
    <3>2. CASE WsRemoveMgr(t)
      BY <3>2, WsRemoveMgrInv
    <3>3. CASE WsRemoveClose(t)
      BY <3>3, WsRemoveCloseInv
    <3> QED BY <3>1, <3>2, <3>3
  <2>2. CASE WsAccept \/ WsSendUpgrade \/ WsUpgrade \/ WsRegister \/ WsAddRemove \/ WsAdd
    BY <2>2, WsAcceptInv, WsSendUpgradeInv, WsUpgradeInv, WsRegisterInv, WsRemoveMgrInv, WsAddInv, Zenon
  <2>3. CASE WsWaitRead \/ WsRecv \/ WsFrameStep \/ WsReregister
    BY <2>3, WsWaitReadInv, WsRecvInv, WsFrameStepInv, WsReregisterInv, Zenon
  <2>4. CASE WsPingTick \/ WsPingOne \/ WsTextAnswer \/ WsStopServer
    BY <2>4, WsAsideInv, Zenon
  <2> QED BY <1>1, <2>1, <2>2, <2>3, <2>4, Zenon DEF WsServe
<1>2. CASE WsPeerSend \/ WsPeerRest \/ WsPeerClose
  BY <1>2, WsPeerSendInv, WsPeerRestInv, WsPeerCloseInv, Zenon
<1>3. CASE UNCHANGED wsVars
  <2>0. WsTypes /\ WsTurns /\ WsManaged /\ WsReassembled /\ \A c \in WsFds : WsConn(c)
    BY Zenon DEF WsInv
  <2>1. UNCHANGED <<wsSock, wsPoll, wsAll, wsConns, wsCtx, wsFrame, wsFrames, wsChan, wsPc, wsFd,
                    wsBatch, wsTodo, wsClosing, wsHeld, wsPing, wsGens, wsSent, wsGot, wsStop>>
    BY <1>3, Zenon DEF wsVars
  <2>2. WsTypes'
    BY <2>0, <2>1 DEF WsTypes
  <2>3. WsTurns' /\ WsManaged' /\ WsReassembled'
    BY <2>0, <2>1, WsStays, WsManagedKept, WsGotKept
  <2>4. wsGens' >= wsGens /\ wsSent' >= wsSent
    BY <2>0, <2>1, WsAssumption DEF WsTypes
  <2>5. ASSUME NEW c \in WsFds PROVE WsConn(c)'
    <3>1. WsSameData(c)
      BY <2>1, <2>4 DEF WsSameData
    <3>2. WsSame(c)
      BY <2>1, <3>1, WsStaysSame DEF WsSame
    <3> QED BY <2>0, <2>2, <3>2, WsSameKeeps
  <2> QED BY <2>2, <2>3, <2>5, Zenon DEF WsInv
<1> QED BY <1>1, <1>2, <1>3, Zenon DEF WsNext

(* What the invariant says of the server.                                  *)
LEMMA WsInvSound == ASSUME WsInv PROVE WsServerSound /\ WsTypeOK
<1>0. WsTypes /\ WsTurns /\ WsManaged /\ WsReassembled /\ \A c \in WsFds : WsConn(c)
  BY Zenon DEF WsInv
<1>1. WsNotDeaf
  <2> SUFFICES ASSUME wsStop = "run", NEW c \in WsFds, wsSock[c].open, c # wsHeld, ~Contains(wsChan, c),
                      wsFd["upgrader"] = c => wsPc["upgrader"] = "idle"
               PROVE  WsAttended(c)
    BY Zenon DEF WsNotDeaf, WsAttended
  <2>1. WsPolled(c)
    BY <1>0, Zenon DEF WsConn
  <2> QED BY <2>1 DEF WsPolled
<1>2. WsTypeOK
  <2>1. /\ wsAll \in Seq(WsFds) /\ wsPing \in Seq(WsFds) /\ wsBatch \in Seq(WsFds)
    BY <1>0 DEF WsTypes
  <2>2. ToSet(wsAll) \subseteq WsFds /\ ToSet(wsPing) \subseteq WsFds /\ ToSet(wsBatch) \subseteq WsFds
    BY <2>1, WsElems
  <2> QED BY <1>0, <2>2 DEF WsTypes, WsTypeOK
<1> QED BY <1>0, <1>1, <1>2 DEF WsServerSound, WsManaged

(* The server, for every number of descriptors, users and connections: the *)
(* views of ClientManager agree, no open connection is lost to epoll, and  *)
(* what a handler gets is what its client sent, while the goroutines       *)
(* interleave and descriptors are used again.                              *)
THEOREM ServerSound == WsSpec => [](WsServerSound /\ WsTypeOK)
<1>1. WsInit => WsInv
  BY WsInitInv
<1>2. WsInv /\ [WsNext]_wsVars => WsInv'
  BY WsNextInv
<1>3. WsInv => WsServerSound /\ WsTypeOK
  BY WsInvSound
<1> QED BY <1>1, <1>2, <1>3, PTL DEF WsSpec

-----------------------------------------------------------------------------
(* The same in the run that has every component of the network side: each  *)
(* of its steps is a step of the component, or leaves it as it is.         *)
THEOREM WebsocketClientInNet == MCSpec => []WsClientSound
<1>1. MCInit => WcInit
  BY DEF MCInit
<1>2. [MCNext]_<<part, wsVars, wcVars, wfVars, whVars, wrVars, dcVars, dlVars, scVars>> => [WcNext]_wcVars
  BY DEF MCNext, WcPart
<1>3. WcSpec => []WsClientSound
  BY ClientSound, PTL
<1> QED BY <1>1, <1>2, <1>3, PTL DEF MCSpec, WcSpec

(* The server in that run, whose scenarios bound it further.               *)
THEOREM WebsocketServerInNet == MCSpec => []WsServerSound
<1>1. MCInit => WsInit
  BY DEF MCInit
<1>2. [MCNext]_<<part, wsVars, wcVars, wfVars, whVars, wrVars, dcVars, dlVars, scVars>> => [WsNext]_wsVars
  BY DEF MCNext, WsPart
<1>3. WsSpec => []WsServerSound
  BY ServerSound, PTL
<1> QED BY <1>1, <1>2, <1>3, PTL DEF MCSpec, WsSpec

(* And the routes in that run.                                             *)
THEOREM RoutesInNet == MCSpec => []WrRouted
<1>1. MCInit => WrInit
  BY DEF MCInit
<1>2. [MCNext]_<<part, wsVars, wcVars, wfVars, whVars, wrVars, dcVars, dlVars, scVars>> => [WrNext]_wrVars
  BY DEF MCNext
<1>3. WrSpec => []WrRouted
  BY RoutesRead, PTL
<1> QED BY <1>1, <1>2, <1>3, PTL DEF MCSpec, WrSpec

(* And what goes over the wire: the frames and the handshake.              *)
THEOREM WireExactInNet == MCSpec => []WsWireExact
<1>1. MCInit => WfInit /\ WhInit
  BY DEF MCInit
<1>2. [MCNext]_<<part, wsVars, wcVars, wfVars, whVars, wrVars, dcVars, dlVars, scVars>>
        => [WfNext]_wfVars /\ [WhNext]_whVars
  BY DEF MCNext
<1>3. WfSpec => []WfExact
  BY FramesExact, PTL
<1>4. WhSpec => []WhAccepted
  BY HandshakeOwn, PTL
<1>5. WfExact /\ WhAccepted => WsWireExact
  BY DEF WsWireExact
<1> QED BY <1>1, <1>2, <1>3, <1>4, <1>5, PTL DEF MCSpec, WfSpec, WhSpec

(* The types of every component of that run.                               *)
THEOREM NetTypes == MCSpec => []NetTypeOK
<1>1. MCInit => WsInit /\ WcInit /\ WfInit /\ WhInit /\ WrInit /\ DcInit /\ DlInit /\ ScInit
  BY DEF MCInit
<1>2. ASSUME [MCNext]_<<part, wsVars, wcVars, wfVars, whVars, wrVars, dcVars, dlVars, scVars>>
      PROVE  /\ [WsNext]_wsVars /\ [WcNext]_wcVars /\ [WfNext]_wfVars /\ [WhNext]_whVars
             /\ [WrNext]_wrVars /\ [DcNext]_dcVars /\ [DlNext]_dlVars /\ [ScNext]_scVars
  <2>1. [WsNext]_wsVars /\ [WcNext]_wcVars
    BY <1>2 DEF MCNext, WsPart, WcPart
  <2>2. [WfNext]_wfVars /\ [WhNext]_whVars /\ [WrNext]_wrVars
    BY <1>2 DEF MCNext
  <2>3. [DcNext]_dcVars /\ [DlNext]_dlVars /\ [ScNext]_scVars
    BY <1>2 DEF MCNext
  <2> QED BY <2>1, <2>2, <2>3
<1>3. WsSpec => []WsTypeOK
  BY ServerSound, PTL
<1>4. WcSpec => []WcTypeOK
  BY ClientSound, PTL
<1>5. WfSpec => []WfTypeOK
  BY FramesExact, PTL
<1>6. WhSpec => []WhTypeOK
  BY HandshakeOwn, PTL
<1>7. WrSpec => []WrTypeOK
  BY RoutesRead, PTL
<1>8. DcSpec => []DcTypeOK
  BY OwnAnswer, PTL
<1>9. DlSpec => []DlTypeOK
  BY ListenersSound, PTL
<1>10. ScSpec => []ScTypeOK
  BY SentIsOwn, PTL
<1>11. WsTypeOK /\ WcTypeOK /\ WfTypeOK /\ WhTypeOK /\ WrTypeOK /\ DcTypeOK /\ DlTypeOK /\ ScTypeOK => NetTypeOK
  BY DEF NetTypeOK
<1> QED
  BY <1>1, <1>2, <1>3, <1>4, <1>5, <1>6, <1>7, <1>8, <1>9, <1>10, <1>11, PTL
  DEF MCSpec, WsSpec, WcSpec, WfSpec, WhSpec, WrSpec, DcSpec, DlSpec, ScSpec
=============================================================================
