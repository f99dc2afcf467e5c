------------------------------- MODULE Hosts -------------------------------
(***************************************************************************)
(* The parser of hosts files of lib/dns.  A file is read word by word; a   *)
(* word comes with what follows it: a blank, the end of the line, a        *)
(* comment, or blanks and then the end of the line.  The content of a word *)
(* is its kind and the number of its line.                                 *)
(***************************************************************************)
EXTENDS Integers, Sequences

CONSTANTS HsMaxWords \* bound: words of a file
ASSUME HsAssumption == HsMaxWords \in Nat

VARIABLES hsWords,  \* words read so far
          hsLine,   \* number of the line the next word is on
          hsTrailing, \* a line ended in blanks
          hsWant,   \* what parse takes the next word for: "addr" or "name"
          hsAddr,   \* the address of the inner loop
          hsMsgs    \* the messages: [addr, name], the words

hsVars == <<hsWords, hsLine, hsTrailing, hsWant, hsAddr, hsMsgs>>

HsKinds == {"ip", "host", "bad"}
HsEnds == {"blank", "eol", "comment", "blanks eol"}
HsNone == [kind |-> "", line |-> 0, first |-> FALSE]

HsInit == hsWords = 0 /\ hsLine = 1 /\ hsTrailing = FALSE /\ hsWant = "addr" /\ hsAddr = HsNone /\ hsMsgs = <<>>

\* newMessage: IsHostnameValid accepts an IPv4 address too; the address must be one.
HsMessage(addr, name) == IF name.kind # "bad" /\ addr.kind = "ip" THEN <<[addr |-> addr, name |-> name]>> ELSE <<>>

\* ReadUntil stops at the end of line and at a comment, and then the entry ends; SkipSpaces goes
\* over blanks and line ends alike.
\* Mutant of HsEntryEnds: a comment does not end the entry.
HsEntryEndsEol(end) == end = "eol"
HsEntryEnds(end) == end \in {"eol", "comment"}

HsWord == \E kind \in HsKinds, end \in HsEnds :
  LET word == [kind |-> kind, line |-> hsLine, first |-> hsWant = "addr"]
  IN /\ hsWords < HsMaxWords /\ hsWords' = hsWords + 1
     /\ hsLine' = IF end = "blank" THEN hsLine ELSE hsLine + 1
     /\ hsTrailing' = (hsTrailing \/ end = "blanks eol")
     /\ IF hsWant = "addr"
        THEN hsAddr' = word /\ UNCHANGED hsMsgs
        ELSE hsMsgs' = hsMsgs \o HsMessage(hsAddr, word) /\ UNCHANGED hsAddr
     /\ hsWant' = IF HsEntryEnds(end) THEN "addr" ELSE "name"

HsNext == HsWord
HsSpec == HsInit /\ [][HsNext]_hsVars

-----------------------------------------------------------------------------
HsTypeOK == hsWords \in 0..HsMaxWords /\ hsWant \in {"addr", "name"} /\ Len(hsMsgs) <= hsWords

(* A name gets the address of its own line, unless a line ended in blanks: *)
(* then the words of the next line are taken for more names.               *)
HsOwnLine == ~hsTrailing => \A i \in DOMAIN hsMsgs : hsMsgs[i].addr.line = hsMsgs[i].name.line
=============================================================================
