------------------------------ MODULE WsFrame ------------------------------
(***************************************************************************)
(* Frame.pack, Frame.unpack and Unpack of lib/websocket.  A packet may end *)
(* anywhere in a frame; the frame under construction is kept and given the *)
(* bytes of the next packet.  Bytes are counted, not written out: of a     *)
(* frame only the length matters, and where in the stream it starts.  The  *)
(* counts keep their real values: 7 bits of length, or 126 and two bytes,  *)
(* or 127 and eight bytes.                                                 *)
(***************************************************************************)
EXTENDS Integers, Sequences

CONSTANTS WfLens,      \* payload lengths a peer sends
          WfCuts,      \* packet sizes, besides all that is left and all but one byte
          WfMaxFrames, \* bound: frames sent
          WfMaxPackets \* bound: packets they arrive in

ASSUME WfAssumption == WfLens \subseteq Nat /\ WfCuts \subseteq Nat \ {0}

VARIABLES wfSent,   \* the frames of the stream: [len, masked, end], end being where in the stream it ends
          wfLeft,   \* bytes not received yet
          wfPackets, \* packets received
          wfPacket, \* bytes of the current packet not unpacked yet
          wfFrame,  \* the Frame under construction: [chopped, len, masked, key, payload]
          wfOut     \* lengths of the frames completed

wfVars == <<wfSent, wfLeft, wfPackets, wfPacket, wfFrame, wfOut>>

frameSmallPayload == 125
frameMediumPayload == 126
frameLargePayload == 127

WfNew == [chopped |-> 0, len |-> 0, masked |-> FALSE, key |-> 0, payload |-> 0]

\* pack: the length field, and the size of the packet it makes.
WfLenField(n) == IF n > 65535 THEN frameLargePayload
                 ELSE IF n > frameSmallPayload THEN frameMediumPayload ELSE n
WfPack(f) == 2 + f.len + (IF f.masked THEN 4 ELSE 0)
             + (IF WfLenField(f.len) = frameLargePayload THEN 8
                ELSE IF WfLenField(f.len) = frameMediumPayload THEN 2 ELSE 0)

\* The bytes of the first k frames, and a length the stream is too short for: it stands for
\* the 64-bit lengths of 2^54 and more.
WfBytes(k) == IF k = 0 THEN 0 ELSE wfSent[k].end
WfTooLong == WfBytes(Len(wfSent)) + 1

WfInit == wfSent = <<>> /\ wfLeft = 0 /\ wfPackets = 0 /\ wfPacket = 0 /\ wfFrame = WfNew /\ wfOut = <<>>

\* The peer packs one more frame.
WfSend == \E n \in WfLens, masked \in BOOLEAN :
  LET f == [len |-> n, masked |-> masked, end |-> wfLeft + WfPack([len |-> n, masked |-> masked])]
  IN /\ Len(wfSent) < WfMaxFrames /\ wfPackets = 0
     /\ wfSent' = Append(wfSent, f) /\ wfLeft' = f.end
     /\ UNCHANGED <<wfPackets, wfPacket, wfFrame, wfOut>>

WfRecv == \E n \in WfCuts \cup {wfLeft, wfLeft - 1} :
  /\ wfPacket = 0 /\ n > 0 /\ n <= wfLeft /\ wfPackets < WfMaxPackets
  /\ wfPacket' = n /\ wfLeft' = wfLeft - n /\ wfPackets' = wfPackets + 1
  /\ UNCHANGED <<wfSent, wfFrame, wfOut>>

\* unpack, one part after the other; each takes [f, n], the frame and the bytes left of the
\* packet, and stop says that unpack returned.  real is the frame those bytes are.
WfHead(s, real) ==
  LET a == IF s.f.chopped = 0 THEN [f |-> [s.f EXCEPT !.chopped = 1], n |-> s.n - 1] ELSE s
  IN IF a.f.chopped = 1 /\ a.n > 0
     THEN [f |-> [a.f EXCEPT !.chopped = 2, !.masked = real.masked, !.len = WfLenField(real.len)], n |-> a.n - 1, stop |-> FALSE]
     ELSE [f |-> a.f, n |-> a.n, stop |-> a.f.chopped = 1]

\* The extended length: size is 10 or 4 bytes of header in all.
WfExtended(s, size, real) ==
  LET exp == size - s.f.chopped
  IN IF exp <= 0 THEN s
     ELSE IF s.n < exp THEN [f |-> [s.f EXCEPT !.chopped = @ + s.n], n |-> 0, stop |-> TRUE]
     ELSE [f |-> [s.f EXCEPT !.chopped = size,
                             !.len = IF (size = 10) = (WfLenField(real.len) = frameLargePayload) THEN real.len ELSE WfTooLong],
           n |-> s.n - exp, stop |-> FALSE]

WfLength(s, real) == IF s.stop THEN s
                     ELSE IF s.f.len = frameLargePayload THEN WfExtended(s, 10, real)
                     ELSE IF s.f.len = frameMediumPayload THEN WfExtended(s, 4, real) ELSE s

\* Mutant of WfMaskKey: four more bytes are taken although some of the key came before.
WfMaskKeyWhole(s) ==
  IF s.stop \/ ~s.f.masked \/ s.f.key = 4 THEN s
  ELSE IF s.n < 4 THEN [f |-> [s.f EXCEPT !.key = 1], n |-> 0, stop |-> TRUE]
  ELSE [f |-> [s.f EXCEPT !.key = 4], n |-> s.n - 4, stop |-> FALSE]

WfMaskKey(s) ==
  IF s.stop \/ ~s.f.masked \/ s.f.key = 4 THEN s
  ELSE LET exp == 4 - s.f.key
       IN IF s.n < exp THEN [f |-> [s.f EXCEPT !.key = @ + s.n], n |-> 0, stop |-> TRUE]
          ELSE [f |-> [s.f EXCEPT !.key = 4], n |-> s.n - exp, stop |-> FALSE]

WfPayload(s) ==
  LET exp == IF s.n < s.f.len - s.f.payload THEN s.n ELSE s.f.len - s.f.payload
  IN IF s.stop THEN s
     ELSE [f |-> [s.f EXCEPT !.payload = @ + exp], n |-> s.n - exp, stop |-> s.f.payload + exp < s.f.len]

WfUnpack(f, n, real) == WfPayload(WfMaskKey(WfLength(WfHead([f |-> f, n |-> n], real), real)))

\* One frame of Unpack's loop, or the stored frame of the reader.
WfUnpackOne ==
  LET real == IF Len(wfOut) < Len(wfSent) THEN wfSent[Len(wfOut) + 1] ELSE [len |-> 0, masked |-> FALSE]
      s == WfUnpack(wfFrame, wfPacket, real)
  IN /\ wfPacket > 0
     /\ wfPacket' = s.n
     /\ wfFrame' = IF s.stop THEN s.f ELSE WfNew
     /\ wfOut' = IF s.stop THEN wfOut ELSE Append(wfOut, s.f.payload)
     /\ UNCHANGED <<wfSent, wfLeft, wfPackets>>

WfNext == WfSend \/ WfRecv \/ WfUnpackOne
WfSpec == WfInit /\ [][WfNext]_wfVars

-----------------------------------------------------------------------------

WfTypeOK == /\ wfLeft \in Nat /\ wfPacket \in Nat /\ wfFrame.chopped \in 0..10 /\ wfFrame.key \in 0..4
            /\ Len(wfOut) <= Len(wfSent)

(* The frames decoded are the first frames sent, each with its own length, *)
(* and between two packets they are all whose bytes have arrived, wherever *)
(* the packets were cut.  Of a stream with a frame of 127 octets only the  *)
(* first part holds: once such a frame's length has been read, f.len is    *)
(* 127 again, and when the packet ends there the next one is taken for the *)
(* rest of an eight byte length.                                           *)
WfExact ==
  LET got == WfBytes(Len(wfSent)) - wfLeft
      full == {k \in 0..Len(wfSent) : WfBytes(k) <= got}
  IN /\ \A i \in DOMAIN wfOut : i \in DOMAIN wfSent /\ wfOut[i] = wfSent[i].len
     /\ wfPacket = 0 /\ (\A i \in DOMAIN wfSent : wfSent[i].len # frameLargePayload)
          => Len(wfOut) = CHOOSE k \in full : \A j \in full : j <= k
=============================================================================
