----------------------------- MODULE DnsMessage -----------------------------
(***************************************************************************)
(* Messages of lib/dns on the wire: Pack, octet by octet, with its running *)
(* offset and its table of names for compression; Unpack; SubTTL and the   *)
(* setters, which change a packet in place.  A label is one octet (97 and  *)
(* up); a name is a sequence of labels, <<>> the root; a name written with *)
(* a final dot has it as its last element.                                 *)
(***************************************************************************)
EXTENDS Integers, Sequences, SequencesExt, FiniteSetsExt

CONSTANTS DmQuestions,   \* names that may be asked
          DmRecords,     \* records that may be packed: [kind, name, names, ttl]
          DmMaxRecords, DmMaxEdits \* bounds: records of a message, changes in place
ASSUME DmAssumption == DmMaxRecords \in Nat /\ DmMaxEdits \in Nat

VARIABLES dmQuestion, dmRecords, \* the message: its name, and its records with their offTTL
          dmSt,      \* Pack: [packet, off, dict, panic]
          dmHeader,  \* Header, as [query, aa, rd, rcode]
          dmBits,    \* the same fields in the packet
          dmDrift,   \* a question or record after which off is not the length of the packet was packed
          dmMixed,   \* the response code was changed from one error to another
          dmEdits
dmVars == <<dmQuestion, dmRecords, dmSt, dmHeader, dmBits, dmDrift, dmMixed, dmEdits>>

DmHeaderSize == 12
DmPointer == 192
DmMaxLabel == 63
DmDot == 46
DmTypes == [A |-> 1, NS |-> 2, SOA |-> 6, MINFO |-> 14, MX |-> 15, TXT |-> 16, AAAA |-> 28, SRV |-> 33, OPT |-> 41]
Dm16(v) == <<v \div 256, v % 256>>
DmZeros(n) == [i \in 1..n |-> 0]
DmWrite(packet, at, octets) == [i \in DOMAIN packet |-> IF i - 1 \in at..at + Len(octets) - 1 THEN octets[i - at] ELSE packet[i]]
DmRead16(packet, at) == packet[at + 1] * 256 + packet[at + 2]
\* TTLs are small: the first two of their four octets are 0.
DmTTL(ttl) == <<0, 0>> \o Dm16(ttl)

DmInit == /\ dmQuestion = <<>> /\ dmRecords = <<>>
          /\ dmSt = [packet |-> <<>>, off |-> 0, dict |-> <<>>, panic |-> FALSE]
          /\ dmHeader = [query |-> TRUE, aa |-> FALSE, rd |-> TRUE, rcode |-> 0] /\ dmBits = dmHeader
          /\ dmDrift = FALSE /\ dmMixed = FALSE /\ dmEdits = 0

-----------------------------------------------------------------------------
(* Pack.  dict is a sequence of [name, off]; the last entry of a name      *)
(* counts.  A write outside the packet panics.                             *)
DmOffs(st, name) == {i \in DOMAIN st.dict : st.dict[i].name = name}
DmPut(st, octets) == [st EXCEPT !.packet = @ \o octets, !.off = @ + Len(octets)]
DmPutAt(st, at, octets) ==
  IF at + Len(octets) > Len(st.packet) THEN [st EXCEPT !.panic = TRUE] ELSE [st EXCEPT !.packet = DmWrite(@, at, octets)]

\* compress: a pointer to the suffix packed before.
DmCompress(st, name) == LET off == st.dict[Max(DmOffs(st, name))].off IN DmPut(st, <<DmPointer + off \div 256, off % 256>>)

\* The table gets the name before its labels are written.
DmRemember(st, name) == [st EXCEPT !.packet = Append(@, 0), !.dict = Append(@, [name |-> name, off |-> st.off])]

\* Mutant of DmLabel: the offset forgets the octet of the length.
DmLabelShort(st, label) ==
  [DmPutAt([st EXCEPT !.packet = Append(@, label)], st.off, <<1>>) EXCEPT !.off = @ + 1]
DmLabel(st, label) ==
  [DmPutAt([st EXCEPT !.packet = Append(@, label)], st.off, <<1>>) EXCEPT !.off = @ + 2]

\* packDomainName; the root, and what is left of a name after its final dot, is one octet that the offset does not count.
DmRooted(name) == IF name = <<>> THEN TRUE ELSE Last(name) = DmDot
DmRest(name) == IF Tail(name) = <<DmDot>> THEN <<>> ELSE Tail(name)
RECURSIVE DmPackName(_, _, _)
DmPackName(st, name, compress) ==
  IF compress /\ DmOffs(st, name) # {} THEN DmCompress(st, name)
  ELSE IF name = <<>> THEN DmRemember(st, name)
  ELSE LET labelled == DmLabel(DmRemember(st, name), Head(name))
       IN IF Len(name) = 1 THEN DmPut(labelled, <<0>>) ELSE DmPackName(labelled, DmRest(name), compress)

\* The length of the data is written after it, from what packDomainName counted.
DmData(st, before, names, compress, after) ==
  LET at == st.off
      open == DmPut(DmPut(st, <<0, 0>>), DmZeros(before))
      named == FoldLeft(LAMBDA s, name : DmPackName(s, name, compress), open, names)
      n == before + (named.off - open.off) + after
  IN [DmPutAt([named EXCEPT !.packet = @ \o DmZeros(after)], at, Dm16(n)) EXCEPT !.off = @ + after]

\* packSOA advances the offset by the names once more, packAAAA by its 16 octets once more, packTXT not by its length octet.
DmPackData(st, rr) ==
  CASE rr.kind = "A"     -> DmData(st, 4, <<>>, TRUE, 0)
    [] rr.kind \in {"NS", "MINFO"} -> DmData(st, 0, rr.names, TRUE, 0)
    [] rr.kind = "MX"    -> DmData(st, 2, rr.names, TRUE, 0)
    [] rr.kind = "SRV"   -> DmData(st, 6, rr.names, FALSE, 0)
    [] rr.kind = "SOA"   -> LET end == DmData(st, 0, rr.names, TRUE, 20) IN [end EXCEPT !.off = @ + (end.off - st.off - 22)]
    [] rr.kind = "AAAA"  -> [DmData(st, 16, <<>>, TRUE, 0) EXCEPT !.off = @ + 16]
    [] rr.kind = "TXT"   -> [DmData(st, 2, <<>>, TRUE, 0) EXCEPT !.off = @ - 1]
    [] rr.kind = "OPT"   -> DmData(st, 0, <<>>, TRUE, 0)

\* packRR up to the TTL; the name of an OPT record is the root, not counted by the offset.
DmPackOwner(st, rr) ==
  DmPut(IF rr.kind = "OPT" THEN [st EXCEPT !.packet = Append(@, 0)] ELSE DmPackName(st, rr.name, TRUE),
        Dm16(DmTypes[rr.kind]) \o Dm16(1))

DmDrifts(rr) == rr.kind \in {"SOA", "AAAA", "TXT", "OPT"} \/ DmRooted(rr.name) \/ \E i \in DOMAIN rr.names : DmRooted(rr.names[i])

\* Pack: header, then packQuestion.
DmPackQuestion == \E name \in DmQuestions :
  /\ dmSt.packet = <<>> /\ dmQuestion' = name
  /\ dmSt' = DmPut(DmPackName([dmSt EXCEPT !.packet = DmZeros(DmHeaderSize), !.off = DmHeaderSize], name, FALSE), Dm16(1) \o Dm16(1))
  /\ dmHeader' = [dmHeader EXCEPT !.query = FALSE] /\ dmBits' = dmHeader'
  /\ dmDrift' = DmRooted(name)
  /\ UNCHANGED <<dmRecords, dmMixed, dmEdits>>

DmPackRR == \E rr \in DmRecords :
  /\ dmSt.packet # <<>> /\ ~dmSt.panic /\ dmEdits = 0 /\ Len(dmRecords) < DmMaxRecords
  /\ LET owner == DmPackOwner(dmSt, rr)
     IN /\ dmSt' = DmPackData(DmPut(owner, DmTTL(rr.ttl)), rr)
        /\ dmRecords' = Append(dmRecords, [rr |-> rr, offTTL |-> owner.off, ttl |-> rr.ttl])
  /\ dmDrift' = (dmDrift \/ DmDrifts(rr))
  /\ UNCHANGED <<dmQuestion, dmHeader, dmBits, dmMixed, dmEdits>>

-----------------------------------------------------------------------------
(* Unpack.  A read outside the packet is an error; fuel bounds the jumps.  *)
RECURSIVE DmUnpackName(_, _, _, _)
DmUnpackName(packet, at, out, fuel) ==
  IF fuel = 0 \/ at >= Len(packet) THEN [ok |-> FALSE, name |-> out, end |-> at]
  ELSE LET count == packet[at + 1]
       IN IF count = 0 THEN [ok |-> TRUE, name |-> out, end |-> at + 1]
          ELSE IF count >= DmPointer
          THEN IF at + 1 >= Len(packet) THEN [ok |-> FALSE, name |-> out, end |-> at]
               ELSE [DmUnpackName(packet, (count - DmPointer) * 256 + packet[at + 2], out, fuel - 1) EXCEPT !.end = at + 2]
          ELSE IF count > DmMaxLabel \/ at + count >= Len(packet) THEN [ok |-> FALSE, name |-> out, end |-> at]
          ELSE DmUnpackName(packet, at + 1 + count, out \o SubSeq(packet, at + 2, at + 1 + count), fuel - 1)
DmFuel == 20
DmNameAt(packet, at) == DmUnpackName(packet, at, <<>>, DmFuel)

RECURSIVE DmNamesAt(_, _, _)
DmNamesAt(packet, at, n) ==
  IF n = 0 THEN <<>> ELSE LET first == DmNameAt(packet, at) IN <<first.name>> \o DmNamesAt(packet, first.end, n - 1)

DmUnpackData(packet, at, type) ==
  CASE type = DmTypes.NS -> DmNamesAt(packet, at, 1)
    [] type \in {DmTypes.SOA, DmTypes.MINFO} -> DmNamesAt(packet, at, 2)
    [] type = DmTypes.MX -> DmNamesAt(packet, at + 2, 1)
    [] type = DmTypes.SRV -> DmNamesAt(packet, at + 6, 1)
    [] OTHER -> <<>>

\* rr.unpack of the n records from at on; an error ends the list.
RECURSIVE DmUnpackRRs(_, _, _)
DmUnpackRRs(packet, at, n) ==
  IF n = 0 THEN <<>>
  ELSE LET owner == DmNameAt(packet, at)
           x == owner.end
       IN IF ~owner.ok \/ x + 10 > Len(packet) THEN <<>>
          ELSE LET rdlen == DmRead16(packet, x + 8)
               IN IF x + 10 + rdlen > Len(packet) THEN <<>>
                  ELSE <<[name |-> owner.name, type |-> DmRead16(packet, x), ttl |-> DmRead16(packet, x + 6), offTTL |-> x + 4,
                          names |-> DmUnpackData(packet, x + 10, DmRead16(packet, x))]>>
                       \o DmUnpackRRs(packet, x + 10 + rdlen, n - 1)

\* Question.unpack, and the size Unpack skips: length of the name, two octets around it, type and class.
DmQuestionSize(name) == (2 * Len(name) - 1) + 6
DmUnpack(packet, n) == DmUnpackRRs(packet, DmHeaderSize + DmQuestionSize(DmNameAt(packet, DmHeaderSize).name), n)

-----------------------------------------------------------------------------
(* SubTTL and the setters, on the message and on its packet.               *)
DmEdit == dmSt.packet # <<>> /\ ~dmSt.panic /\ dmEdits < DmMaxEdits /\ dmEdits' = dmEdits + 1

DmAged(ttl, n) == IF ttl < n THEN 0 ELSE ttl - n

DmSubTTL == \E n \in {30, 100} :
  LET recs == [i \in DOMAIN dmRecords |->
                 IF dmRecords[i].rr.kind = "OPT" THEN dmRecords[i] ELSE [dmRecords[i] EXCEPT !.ttl = DmAged(@, n)]]
  IN /\ DmEdit /\ dmRecords # <<>> /\ dmRecords' = recs
     /\ dmSt' = FoldLeft(LAMBDA st, rec : IF rec.rr.kind = "OPT" THEN st ELSE DmPutAt(st, rec.offTTL, DmTTL(rec.ttl)), dmSt, recs)
     /\ UNCHANGED <<dmQuestion, dmHeader, dmBits, dmDrift, dmMixed>>

\* SetQuery clears AA in the packet only.
DmSetQuery == \E query \in BOOLEAN :
  /\ DmEdit /\ dmHeader' = [dmHeader EXCEPT !.query = query]
  /\ dmBits' = [dmBits EXCEPT !.query = query, !.aa = @ /\ ~query]
  /\ UNCHANGED <<dmQuestion, dmRecords, dmSt, dmDrift, dmMixed>>

DmSetAuthorativeAnswer == \E aa \in BOOLEAN :
  /\ DmEdit /\ dmHeader' = [dmHeader EXCEPT !.aa = aa] /\ dmBits' = [dmBits EXCEPT !.aa = aa]
  /\ UNCHANGED <<dmQuestion, dmRecords, dmSt, dmDrift, dmMixed>>

DmSetRecursionDesired == \E rd \in BOOLEAN :
  /\ DmEdit /\ dmHeader' = [dmHeader EXCEPT !.rd = rd] /\ dmBits' = [dmBits EXCEPT !.rd = rd]
  /\ UNCHANGED <<dmQuestion, dmRecords, dmSt, dmDrift, dmMixed>>

\* SetResponseCode: a code other than 0 is or-ed into the packet (of the codes 0 to 3).
\* Mutant of DmOrCode: clearing an error leaves the packet alone.
DmOrCodeKeep(old, new) == IF new = 0 \/ old = new THEN old ELSE IF old = 0 THEN new ELSE 3
DmOrCode(old, new) == IF new = 0 \/ old = new THEN new ELSE IF old = 0 THEN new ELSE 3
DmSetResponseCode == \E code \in 0..3 :
  /\ DmEdit /\ dmHeader' = [dmHeader EXCEPT !.rcode = code] /\ dmBits' = [dmBits EXCEPT !.rcode = DmOrCode(@, code)]
  /\ dmMixed' = (code # 0 /\ (dmMixed \/ dmBits.rcode \notin {0, code}))
  /\ UNCHANGED <<dmQuestion, dmRecords, dmSt, dmDrift>>

DmNext == \/ DmPackQuestion \/ DmPackRR \/ DmSubTTL \/ DmSetQuery \/ DmSetAuthorativeAnswer \/ DmSetRecursionDesired \/ DmSetResponseCode
DmSpec == DmInit /\ [][DmNext]_dmVars

-----------------------------------------------------------------------------
DmTypeOK == /\ Len(dmRecords) <= DmMaxRecords /\ dmEdits \in 0..DmMaxEdits
            /\ \A i \in DOMAIN dmSt.packet : dmSt.packet[i] \in 0..255

(* Unpack reads from the packet the records Pack was given: the owner, the *)
(* TTL as SubTTL left it and at the place rr.offTTL names, and the names   *)
(* in the data, whichever were compressed to a pointer; and no write was   *)
(* outside the packet.  A name with a final dot, and the records after     *)
(* which the offset is wrong, are the exception.                           *)
DmDecodes == dmSt.packet # <<>> /\ ~dmDrift =>
  /\ ~dmSt.panic
  /\ LET read == DmUnpack(dmSt.packet, Len(dmRecords))
     IN read = [i \in DOMAIN dmRecords |->
                 [name |-> dmRecords[i].rr.name, type |-> DmTypes[dmRecords[i].rr.kind], ttl |-> dmRecords[i].ttl,
                  offTTL |-> dmRecords[i].offTTL, names |-> dmRecords[i].rr.names]]

(* After any sequence of setters the packet says what Header says: not AA  *)
(* of a query, and not a code that replaced another error.                 *)
DmHeaderAgrees == /\ dmBits.query = dmHeader.query /\ dmBits.rd = dmHeader.rd
                  /\ dmBits.aa => dmHeader.aa
                  /\ ~dmMixed => dmBits.rcode = dmHeader.rcode

\* off: "offset of curret packet when packing, equal to len(Packet)".
DmOffIsLen == dmSt.off = Len(dmSt.packet)
=============================================================================
