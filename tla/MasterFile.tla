----------------------------- MODULE MasterFile -----------------------------
(***************************************************************************)
(* The parser of zone files, master.parse of lib/dns, over files of any    *)
(* few lines.  A line is a directive or a resource record; what precedes   *)
(* the RDATA is a sequence of tokens, the RDATA a sequence of the kinds of *)
(* its words.  A domain name is a sequence of labels.  A line ends with a  *)
(* newline or with a comment after a blank: what a parser has consumed of  *)
(* the end decides what becomes of the next line.  Blank lines, lines that *)
(* are a comment and records that go on on the next line are left out.     *)
(***************************************************************************)
EXTENDS Integers, Sequences, FiniteSets, SequencesExt

CONSTANTS MzLines,   \* the lines a file may have
          MzMaxLines \* bound: lines of a file
ASSUME MzAssumption == MzMaxLines \in Nat

VARIABLES mzFile,   \* the lines that were read
          mzOrigin, mzTTL, \* m.origin, m.ttl
          mzLast,   \* m.lastRR, with no name if there is none
          mzRR,     \* the local variable rr of parse
          mzMsgs,   \* m.msgs: [name, type, class, answer], answer a sequence of records
          mzCarry,  \* what the last line does to the next one, "none" mostly
          mzLost,   \* history: the lines that were never parsed
          mzBent,   \* history: was a line read as something else than it says?
          mzState   \* "read", "error", "done"

mzVars == <<mzFile, mzOrigin, mzTTL, mzLast, mzRR, mzMsgs, mzCarry, mzLost, mzBent, mzState>>

MzNoRR == [line |-> 0, name |-> <<>>, ttl |-> 0, class |-> "", type |-> ""]
MzDefTTL == 3600
MzZone == <<"zone">>
MzClasses == {"IN", "CH"}
MzTypes == {"A", "NS", "SOA", "MX", "HINFO", "MINFO", "TXT", "SRV", "NULL"}
\* A TTL token is a number; the others are strings, so tokens are [kind, value].
MzIsTTL(tok) == tok.kind = "ttl"

MzInit == /\ mzFile = <<>> /\ mzOrigin = MzZone /\ mzTTL = 0 /\ mzLast = MzNoRR /\ mzRR = MzNoRR
          /\ mzMsgs = <<>> /\ mzCarry = "none" /\ mzLost = {} /\ mzBent = FALSE /\ mzState = "read"

\* MasterLoad and Init with a default TTL.
MzStart == \E ttl \in {0, 100} :
  /\ mzFile = <<>> /\ mzState = "read" /\ mzTTL = 0 /\ mzTTL' = ttl
  /\ UNCHANGED <<mzFile, mzOrigin, mzLast, mzRR, mzMsgs, mzCarry, mzLost, mzBent, mzState>>

\* generateDomainName.
MzName(owner, origin) ==
  IF owner = "@" THEN origin ELSE IF owner = "abs." THEN <<"abs">> ELSE <<owner>> \o origin

\* parseRRData and the parsers of each type: what words the RDATA must have.  parseSOA keeps the flag of
\* parseRR when there is no parenthesis: it knows the numbers only if the line states a class, and then takes
\* the first three of the five for the serial, the expiry and the minimum.  parseTXT takes the rest of the line.
MzSoaWords == <<"name", "name", "(", "num", "num", "num", "num", "num", ")">>
MzSoaPlain == <<"name", "name", "num", "num", "num", "num", "num">>
MzSrvWords == <<"name", "name", "name", "num", "num", "num", "name">>
MzTxtWord == <<"quoted">>
MzTxtWords == <<"quoted", "quoted">>
\* parseHInfo, parseMInfo and parseMX.
MzPairOK(type, line) == Len(line.words) = 2 /\ (type = "MX" => line.words[1] = "num")
MzDataOK(type, flag, line) ==
  CASE type \in {"A", "NS"} -> Len(line.words) = 1
    [] type = "SOA" -> line.words = MzSoaWords \/ (line.words = MzSoaPlain /\ "class" \in flag /\ line.ends = "newline")
    [] type \in {"HINFO", "MINFO", "MX"} -> MzPairOK(type, line)
    [] type = "TXT" -> line.words \in {MzTxtWord, MzTxtWords} /\ line.ends = "newline"
    [] type = "SRV" -> line.words = MzSrvWords
    [] type = "NULL" -> FALSE

\* What the parser of the RDATA does to the next line: the last two numbers of an SOA without parentheses are
\* put in front of it, a TXT of one word, whose newline is consumed, is joined with it, and an SRV, whose
\* newline is consumed, takes its leading blanks.
MzLeaves(type, line) ==
  CASE type = "SOA" /\ line.words = MzSoaPlain -> "numbers"
    [] type = "TXT" /\ line.words = MzTxtWord -> "text"
    [] type = "SRV" /\ line.ends = "newline" -> "blank"
    [] OTHER -> "none"

\* One token of parseRR before the RDATA; flag holds what was seen: subsets of {"ttl", "class", "type"}.
MzToken(st, tok) ==
  IF st.err THEN st
  ELSE IF MzIsTTL(tok) /\ "ttl" \notin st.flag /\ "type" \notin st.flag
  THEN [st EXCEPT !.ttl = tok.value, !.flag = @ \cup {"ttl"}]
  ELSE IF tok.kind = "word" /\ tok.value \in MzClasses /\ st.flag \subseteq {"ttl"}
  THEN [st EXCEPT !.class = tok.value, !.flag = @ \cup {"class"}]
  ELSE IF tok.kind = "word" /\ tok.value \in MzTypes /\ "type" \notin st.flag
  THEN [st EXCEPT !.type = tok.value, !.flag = @ \cup {"type"}]
  ELSE [st EXCEPT !.err = TRUE]

\* Mutant of MzClassDefault: always IN.
MzClassDefaultIN(last) == "IN"
MzClassDefault(last) == IF last = MzNoRR THEN "IN" ELSE last.class
\* parseRR: the record starts from the owner of the line, or from the last record if the line has none;
\* without a last record, or without its blank, the first token is taken for the owner.  The numbers that an
\* SOA has left are an owner and a TTL.
MzNumber == 5
MzParseRR(line) ==
  LET numbers == mzCarry = "numbers"
      taken == line.owner = "" /\ ~numbers /\ (mzLast = MzNoRR \/ mzCarry = "blank")
      owner == IF line.owner # "" THEN line.owner ELSE IF numbers THEN "num" ELSE "token"
      fresh == line.owner # "" \/ numbers \/ taken
      st == FoldLeft(MzToken,
              [flag |-> IF numbers THEN {"ttl"} ELSE {}, err |-> FALSE, type |-> "",
               ttl |-> IF numbers THEN MzNumber ELSE IF fresh THEN mzTTL ELSE mzLast.ttl,
               class |-> MzClassDefault(mzLast)],
              IF taken THEN Tail(line.toks) ELSE line.toks)
  IN [ok |-> ~st.err /\ "type" \in st.flag /\ MzDataOK(st.type, st.flag, line),
      leaves |-> MzLeaves(st.type, line),
      rr |-> [line |-> Len(mzFile) + 1, name |-> IF fresh THEN MzName(owner, mzOrigin) ELSE mzLast.name,
              ttl |-> st.ttl, class |-> st.class, type |-> st.type]]

\* push: the first message with the question of the record gets it, or a new one.
MzQuestion(m, rr) == m.name = rr.name /\ m.type = rr.type /\ m.class = rr.class
\* Mutant of MzSame: only the last message is looked at.
MzSameLast(msgs, rr) == {i \in DOMAIN msgs : MzQuestion(msgs[i], rr) /\ i = Len(msgs)}
MzSame(msgs, rr) == {i \in DOMAIN msgs : MzQuestion(msgs[i], rr)}
MzPush(msgs, rr) ==
  LET same == MzSame(msgs, rr)
  IN IF same = {} THEN Append(msgs, [name |-> rr.name, type |-> rr.type, class |-> rr.class, answer |-> <<rr>>])
     ELSE LET i == CHOOSE k \in same : \A j \in same : k <= j IN [msgs EXCEPT ![i].answer = Append(@, rr)]

\* The end of an iteration of parse: rr is what the last record left in it, also after a directive.
MzEndOfLine(line, rr, msgs) ==
  /\ mzFile' = Append(mzFile, line) /\ mzRR' = rr
  /\ IF rr = MzNoRR THEN mzMsgs' = msgs /\ UNCHANGED mzLast
     ELSE mzMsgs' = MzPush(msgs, rr) /\ mzLast' = rr

MzReady(line) == mzState = "read" /\ Len(mzFile) < MzMaxLines /\ line \in MzLines
MzRead(line) == MzReady(line) /\ mzCarry \in {"none", "blank"}

MzRecord == \E line \in MzLines :
  /\ MzReady(line) /\ line.kind = "rr"
  /\ mzCarry \in {"none", "blank"} \/ (mzCarry = "numbers" /\ line.owner = "")
  /\ LET r == MzParseRR(line)
     IN IF r.ok
        THEN /\ MzEndOfLine(line, r.rr, mzMsgs) /\ UNCHANGED <<mzOrigin, mzLost, mzState>>
             /\ mzCarry' = r.leaves /\ mzBent' = (mzBent \/ (mzCarry # "none" /\ line.owner = ""))
             \* the last of parseSOA, whose Minimum is 200 here
             /\ mzTTL' = IF r.rr.type = "SOA" /\ mzTTL = 0 THEN 200 ELSE mzTTL
        ELSE /\ mzState' = "error" /\ mzFile' = Append(mzFile, line)
             /\ UNCHANGED <<mzOrigin, mzTTL, mzLast, mzRR, mzMsgs, mzCarry, mzLost, mzBent>>
MzOriginLine == \E line \in MzLines :
  /\ MzRead(line) /\ line.kind = "origin" /\ mzOrigin' = line.name /\ mzCarry' = "none"
  /\ MzEndOfLine(line, mzRR, mzMsgs) /\ UNCHANGED <<mzTTL, mzLost, mzBent, mzState>>
\* ReadUntil has consumed the newline when SkipLine is called: the next line is skipped.
MzTTLLine == \E line \in MzLines :
  /\ MzRead(line) /\ line.kind = "ttl" /\ mzTTL' = line.value
  /\ mzCarry' = IF line.ends = "newline" THEN "lost" ELSE "none"
  /\ MzEndOfLine(line, mzRR, mzMsgs) /\ UNCHANGED <<mzOrigin, mzLost, mzBent, mzState>>
\* $INCLUDE of a file with one record, under the domain of the line, or under the name of the file if it has
\* none: its messages come after the others, whatever their question.  Without a comment the word that the
\* next line begins with is taken for the domain, or what follows the domain is: an error.
MzFileName == <<"file">>
MzIncludeLine == \E line \in MzLines :
  /\ MzRead(line) /\ line.kind = "include" /\ line.ends = "comment"
  /\ LET rr == [line |-> Len(mzFile) + 1, name |-> <<"inc">> \o (IF line.name = <<>> THEN MzFileName ELSE line.name),
                class |-> "IN", type |-> "A", ttl |-> IF mzTTL = 0 THEN MzDefTTL ELSE mzTTL]
     IN MzEndOfLine(line, mzRR, Append(mzMsgs, [name |-> rr.name, type |-> "A", class |-> "IN", answer |-> <<rr>>]))
  /\ mzCarry' = "none" /\ UNCHANGED <<mzOrigin, mzTTL, mzLost, mzBent, mzState>>

\* A line that is never parsed: after "$TTL n", or as the end of a text that it closes with a quote.
MzQuoted(line) == line.kind = "rr" /\ line.words \in {MzTxtWord, MzTxtWords} /\ line.ends = "newline"
MzLose == \E line \in MzLines :
  /\ MzReady(line) /\ (mzCarry = "lost" \/ (mzCarry = "text" /\ MzQuoted(line)))
  /\ mzFile' = Append(mzFile, line) /\ mzLost' = mzLost \cup {Len(mzFile) + 1} /\ mzCarry' = "none"
  /\ UNCHANGED <<mzOrigin, mzTTL, mzLast, mzRR, mzMsgs, mzBent, mzState>>
\* A line that cannot follow the last one, or an $INCLUDE without a comment.
MzSpoil == \E line \in MzLines :
  /\ MzReady(line)
  /\ \/ mzCarry = "text" /\ ~MzQuoted(line)
     \/ mzCarry = "numbers" /\ ~(line.kind = "rr" /\ line.owner = "")
     \/ mzCarry \in {"none", "blank"} /\ line.kind = "include" /\ line.ends = "newline"
  /\ mzFile' = Append(mzFile, line) /\ mzState' = "error"
  /\ UNCHANGED <<mzOrigin, mzTTL, mzLast, mzRR, mzMsgs, mzCarry, mzLost, mzBent>>

\* The end of parse: setMinimumTTL, with the TTL that holds at the end, and pack.  The numbers that an SOA has
\* left are no record.
MzEnd ==
  LET ttl == IF mzTTL = 0 THEN MzDefTTL ELSE mzTTL
      raise(rr) == [rr EXCEPT !.ttl = IF @ < ttl THEN ttl ELSE @]
  IN /\ mzState = "read"
     /\ \/ /\ mzCarry # "numbers" /\ mzState' = "done" /\ mzTTL' = ttl
           /\ mzMsgs' = [i \in DOMAIN mzMsgs |-> [mzMsgs[i] EXCEPT !.answer = [j \in DOMAIN @ |-> raise(@[j])]]]
        \/ mzCarry = "numbers" /\ mzState' = "error" /\ UNCHANGED <<mzTTL, mzMsgs>>
     /\ UNCHANGED <<mzFile, mzOrigin, mzLast, mzRR, mzCarry, mzLost, mzBent>>

MzNext == MzStart \/ MzRecord \/ MzOriginLine \/ MzTTLLine \/ MzIncludeLine \/ MzLose \/ MzSpoil \/ MzEnd
MzSpec == MzInit /\ [][MzNext]_mzVars

-----------------------------------------------------------------------------
MzTypeOK == /\ Len(mzFile) <= MzMaxLines /\ mzLost \subseteq DOMAIN mzFile /\ mzBent \in BOOLEAN
            /\ mzCarry \in {"none", "lost", "blank", "numbers", "text"} /\ mzState \in {"read", "error", "done"}
            /\ \A i \in DOMAIN mzMsgs : mzMsgs[i].answer # <<>> /\ mzMsgs[i].class \in MzClasses

\* What a zone file means, line by line; the lines that were lost are not there.
MzLastBefore(i, P(_)) == LET js == {j \in (1..i) \ mzLost : P(j)} IN IF js = {} THEN 0 ELSE CHOOSE j \in js : \A k \in js : k <= j
MzIsRR(j) == mzFile[j].kind = "rr"
MzOriginAt(i) == LET o == MzLastBefore(i, LAMBDA j : mzFile[j].kind = "origin") IN IF o = 0 THEN MzZone ELSE mzFile[o].name
MzOwnerOf(i) == LET o == MzLastBefore(i, LAMBDA j : MzIsRR(j) /\ mzFile[j].owner # "") IN MzName(mzFile[o].owner, MzOriginAt(o))
MzStated(i, S) == {mzFile[i].toks[k].value : k \in {n \in DOMAIN mzFile[i].toks : mzFile[i].toks[n].kind = "word"}} \cap S
MzClassOf(i) == LET o == MzLastBefore(i, LAMBDA j : MzIsRR(j) /\ MzStated(j, MzClasses) # {})
                IN IF o = 0 THEN "IN" ELSE CHOOSE c \in MzStated(o, MzClasses) : TRUE

\* The first record states its owner.
MzOwned == \A i \in DOMAIN mzFile \ mzLost :
  MzIsRR(i) => MzLastBefore(i, LAMBDA j : MzIsRR(j) /\ mzFile[j].owner # "") # 0

\* A line may be lost only after "$TTL n" without a comment, and after a text of one word.
MzLoses(j) == \/ mzFile[j].kind = "ttl" /\ mzFile[j].ends = "newline"
              \/ MzIsRR(j) /\ mzFile[j].words = MzTxtWord

(* The records are what the file means, whatever the order of TTL, class   *)
(* and directives: a record belongs to the last stated owner, under the    *)
(* origin that held where it was stated, and has the last stated class and *)
(* its own type, and it is under that question; the first record must have *)
(* an owner.  No line is lost but the one after "$TTL n" without a comment *)
(* (parseDirectiveTTL skips a line when ReadUntil has consumed the newline *)
(* already) and after a text of one word, and the file means what it means *)
(* without it; nothing is said of a file in which a line without owner     *)
(* follows an SRV record or an SOA without parentheses.                    *)
MzMeaning == mzState # "error" /\ ~mzBent /\ MzOwned =>
  /\ \A i \in mzLost : i - 1 \in DOMAIN mzFile \ mzLost /\ MzLoses(i - 1)
  /\ \A i \in DOMAIN mzFile \ mzLost : MzIsRR(i) => \E m \in DOMAIN mzMsgs : \E k \in DOMAIN mzMsgs[m].answer :
       LET rr == mzMsgs[m].answer[k]
       IN rr.line = i /\ rr.name = MzOwnerOf(i) /\ rr.class = MzClassOf(i) /\ rr.type \in MzStated(i, MzTypes)
          /\ MzQuestion(mzMsgs[m], rr)

\* The same of every line, which the code does not do: "$TTL n" loses the line after it.
MzMeansAll == mzState # "error" /\ ~mzBent => mzLost = {}

(* A question has one message, which the caches rely on, unless a file was *)
(* included, whose messages are not merged.                                *)
MzOneMessage == \A i, j \in DOMAIN mzMsgs : i # j =>
  ~MzQuestion(mzMsgs[i], mzMsgs[j]) \/ \E n \in DOMAIN mzFile : mzFile[n].kind = "include"

(* Every record of the file is there once.                                 *)
MzOnce == \A i \in DOMAIN mzFile :
  Cardinality({p \in (DOMAIN mzMsgs) \X (1..(MzMaxLines + 1)) :
                 p[2] \in DOMAIN mzMsgs[p[1]].answer /\ mzMsgs[p[1]].answer[p[2]].line = i}) <= 1
=============================================================================
