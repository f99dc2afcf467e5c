----------------------------- MODULE IniReader -----------------------------
(***************************************************************************)
(* The reader of lib/ini, character by character for the value of a        *)
(* variable and for the name of a subsection, and line by line for a file. *)
(* A value that was read is written by String and read again.  "n" stands  *)
(* for the letters that a backslash turns into another character.          *)
(***************************************************************************)
EXTENDS Integers, Sequences, SequencesExt

CONSTANTS IrMaxChars, IrMaxLines \* bounds: characters of a value, lines of a file
ASSUME IrAssumption == IrMaxChars \in Nat /\ IrMaxLines \in Nat

VARIABLES irWhat,   \* what is read: "none", "value", "sub" or "file"
          irSt,     \* parseVarValue, parseSubsection: the reader's buffers and flags
          irPass,   \* 1: the text comes from the file; 2: from what String wrote
          irText,   \* what is left of that text
          irFirst,  \* the value of the first pass and whether it was quoted
          irTokens, \* of pass 1: the characters of the value in order, and whether a blank among them is kept
          irMoved,  \* pass 1 met an escape after an unquoted blank
          irCount,
          irSecs, irCur, irFile \* Parse: the sections, the one being read; its result
irVars == <<irWhat, irSt, irPass, irText, irFirst, irTokens, irMoved, irCount, irSecs, irCur, irFile>>

IrChars == {"a", "n", "sp", "bs", "q", "nl", "hash"}
IrFresh == [buf |-> <<>>, spaces |-> <<>>, value |-> <<>>, lead |-> TRUE, esc |-> FALSE, quoted |-> FALSE,
            isQuoted |-> FALSE, res |-> "", tail |-> <<>>]
IrNoSection == [name |-> 0, vars |-> <<>>]

IrInit == /\ irWhat = "none" /\ irSt = IrFresh /\ irPass = 1 /\ irText = <<>> /\ irTokens = <<>> /\ irMoved = FALSE
          /\ irFirst = [value |-> <<>>, isQuoted |-> FALSE] /\ irCount = 0
          /\ irSecs = <<>> /\ irCur = IrNoSection /\ irFile = "open"

-----------------------------------------------------------------------------
(* The value.                                                              *)
\* Mutant of IrWriteByte: the blanks held back are not written first.
IrWriteByteOnly(st, c) == [st EXCEPT !.buf = Append(@, c)]
IrWriteByte(st, c) == [st EXCEPT !.buf = @ \o st.spaces \o <<c>>, !.spaces = <<>>]
IrCommit(st, withSpaces) ==
  [st EXCEPT !.value = @ \o st.buf \o (IF withSpaces THEN st.spaces ELSE <<>>), !.buf = <<>>, !.spaces = <<>>]

IrEscaped(st, c) ==
  LET on == [st EXCEPT !.esc = FALSE]
  IN CASE c = "nl"          -> IrCommit(on, TRUE)
       [] c \in {"bs", "q"} -> IrWriteByte(on, c)
       [] c = "n"           -> [on EXCEPT !.buf = Append(@, "nl")]
       [] OTHER             -> [st EXCEPT !.res = "error"]

IrEndOfLine(st) == IF st.quoted THEN [st EXCEPT !.res = "error"] ELSE [IrCommit(st, FALSE) EXCEPT !.res = "done"]

IrPlain(st, c) ==
  CASE c = "sp"   -> IF st.quoted THEN IrWriteByte(st, c) ELSE [st EXCEPT !.spaces = Append(@, c)]
    [] c = "bs"   -> [st EXCEPT !.esc = TRUE]
    [] c = "q"    -> [st EXCEPT !.quoted = ~@, !.isQuoted = TRUE]
    [] c = "nl"   -> IrEndOfLine(st)
    [] c = "hash" -> IF st.quoted THEN IrWriteByte(st, c)
                     ELSE [IrCommit([st EXCEPT !.tail = st.spaces \o <<"hash">>], FALSE) EXCEPT !.res = "done"]
    [] OTHER      -> IrWriteByte(st, c)

\* parseVarValue, one character; blanks before the value are skipped.
IrValueStep(st, c) ==
  IF ~st.lead THEN IF st.esc THEN IrEscaped(st, c) ELSE IrPlain(st, c)
  ELSE IF c = "sp" THEN st
  ELSE IF c \in {"hash", "nl"} THEN [st EXCEPT !.res = "empty"]
  ELSE IrPlain([st EXCEPT !.lead = FALSE], c)

(* The name of a subsection: any escaped character stands for itself.  The *)
(* closing bracket is left out: the name ends at the quote.                *)
IrSubStep(st, c) ==
  IF st.esc THEN [st EXCEPT !.buf = Append(@, c), !.esc = FALSE]
  ELSE IF c = "bs" THEN [st EXCEPT !.esc = TRUE]
  ELSE IF c = "q" THEN [st EXCEPT !.value = st.buf, !.res = "done"]
  ELSE [st EXCEPT !.buf = Append(@, c)]

IrStep(st, c) == IF irWhat = "value" THEN IrValueStep(st, c) ELSE IrSubStep(st, c)

(* String: a value that was quoted is escaped and quoted; any other, and   *)
(* the name of a subsection, is written as it is.                          *)
\* Mutant of IrEscape: the backslash is not escaped.
IrEscapeQuoteOnly(value) ==
  <<"q">> \o FlattenSeq([i \in DOMAIN value |-> IF value[i] = "nl" THEN <<"bs", "n">> ELSE IF value[i] = "q" THEN <<"bs", "q">> ELSE <<value[i]>>]) \o <<"q">>
IrEscape(value) ==
  <<"q">> \o FlattenSeq([i \in DOMAIN value |->
     IF value[i] = "nl" THEN <<"bs", "n">> ELSE IF value[i] \in {"bs", "q"} THEN <<"bs", value[i]>> ELSE <<value[i]>>]) \o <<"q">>
IrString(st) == IF irWhat = "sub" THEN st.value \o <<"q">>
                ELSE (IF st.isQuoted THEN IrEscape(st.value) ELSE st.value) \o st.tail \o <<"nl">>

\* The characters of the value as the text has them; a blank outside quotes is kept if more follows.
IrToken(c) ==
  LET kept == [i \in DOMAIN irTokens |-> [irTokens[i] EXCEPT !.keep = TRUE]]
  IN CASE irSt.esc /\ c = "nl"  -> kept
       [] irSt.esc /\ c = "n"   -> Append(kept, [c |-> "nl", keep |-> TRUE])
       [] irSt.esc /\ c \in {"bs", "q"} -> Append(kept, [c |-> c, keep |-> TRUE])
       [] c = "sp" /\ ~irSt.quoted -> IF irSt.lead THEN irTokens ELSE Append(irTokens, [c |-> c, keep |-> FALSE])
       [] c \in {"bs", "q", "nl"} \/ (c = "hash" /\ ~irSt.quoted) -> irTokens
       [] OTHER -> Append(kept, [c |-> c, keep |-> TRUE])

IrBegin == \E what \in {"value", "sub", "file"} :
  irWhat = "none" /\ irWhat' = what /\ UNCHANGED <<irSt, irPass, irText, irFirst, irTokens, irMoved, irCount, irSecs, irCur, irFile>>

IrRead == \E c \in IrChars :
  /\ irWhat \in {"value", "sub"} /\ irPass = 1 /\ irSt.res = "" /\ irCount < IrMaxChars /\ irCount' = irCount + 1
  /\ irSt' = IrStep(irSt, c)
  /\ irTokens' = IrToken(c)
  /\ irMoved' = (irMoved \/ (irSt.esc /\ c = "n" /\ irSt.spaces # <<>>))
  /\ UNCHANGED <<irWhat, irPass, irText, irFirst, irSecs, irCur, irFile>>

IrWrite ==
  /\ irPass = 1 /\ irSt.res = "done"
  /\ irPass' = 2 /\ irText' = IrString(irSt) /\ irSt' = IrFresh
  /\ irFirst' = [value |-> irSt.value, isQuoted |-> irSt.isQuoted]
  /\ UNCHANGED <<irWhat, irTokens, irMoved, irCount, irSecs, irCur, irFile>>

IrReread ==
  /\ irPass = 2 /\ irSt.res = "" /\ irText # <<>>
  /\ irSt' = IrStep(irSt, Head(irText)) /\ irText' = Tail(irText)
  /\ UNCHANGED <<irWhat, irPass, irFirst, irTokens, irMoved, irCount, irSecs, irCur, irFile>>

-----------------------------------------------------------------------------
(* Parse.  A line is a header, a variable, a variable that ends in "=", a  *)
(* comment or bad; the last line may lack its line end, and then every     *)
(* kind but a whole variable comes with io.EOF and leaves the loop before  *)
(* it is looked at.  Names are the numbers of the lines.                   *)
IrLineKinds == {"header", "var", "novalue", "comment", "bad"}
IrAddVariable(sec, kind) == [sec EXCEPT !.vars = Append(@, [kind |-> kind, line |-> irCount + 1])]
\* Mutant of IrAddSection: a section without name, the lines before the first header, is dropped.
IrAddSectionNamed(secs, sec) == IF sec.name = 0 THEN secs ELSE Append(secs, sec)
IrAddSection(secs, sec) == Append(secs, sec)

IrLine == \E kind \in IrLineKinds, end \in {"nl", "eof"} :
  LET eof == end = "eof" /\ kind \in {"header", "novalue", "comment"}
      isVar == kind \in {"var", "novalue"}
  IN /\ irWhat = "file" /\ irFile = "open" /\ irCount < IrMaxLines /\ irCount' = irCount + 1
     /\ IF kind = "bad" \/ (~eof /\ isVar /\ irCur.name = 0)
        THEN irFile' = "error" /\ irSecs' = <<>> /\ irCur' = IrNoSection
        ELSE IF ~eof /\ kind = "header"
        THEN /\ irSecs' = IrAddSection(irSecs, irCur) /\ irCur' = [name |-> irCount + 1, vars |-> <<>>]
             /\ irFile' = irFile
        ELSE LET cur == IrAddVariable(irCur, kind)
             IN IF end = "eof" THEN irFile' = "done" /\ irSecs' = IrAddSection(irSecs, cur) /\ irCur' = IrNoSection
                ELSE irCur' = cur /\ UNCHANGED <<irSecs, irFile>>
     /\ UNCHANGED <<irWhat, irSt, irPass, irText, irFirst, irTokens, irMoved>>

IrEOF == /\ irWhat = "file" /\ irFile = "open"
         /\ irFile' = "done" /\ irSecs' = IrAddSection(irSecs, irCur) /\ irCur' = IrNoSection
         /\ UNCHANGED <<irWhat, irSt, irPass, irText, irFirst, irTokens, irMoved, irCount>>

IrNext == IrBegin \/ IrRead \/ IrWrite \/ IrReread \/ IrLine \/ IrEOF
IrSpec == IrInit /\ [][IrNext]_irVars

-----------------------------------------------------------------------------
IrTypeOK == /\ irWhat \in {"none", "value", "sub", "file"} /\ irPass \in 1..2 /\ irCount \in 0..IrMaxChars
            /\ irSt.res \in {"", "done", "empty", "error"} /\ irFile \in {"open", "done", "error"}

(* The value read is the text of the line: escapes and quotes resolved,    *)
(* the blanks outside quotes at its end dropped, all else in its order.    *)
(* An escape after an unquoted blank is the exception: it is written to    *)
(* the buffer ahead of the blanks held back.                               *)
IrMeaning == irWhat = "value" /\ irPass = 1 /\ irSt.res = "done" /\ ~irMoved =>
  LET kept == SelectSeq(irTokens, LAMBDA t : t.keep) IN irSt.value = [i \in DOMAIN kept |-> kept[i].c]

(* A value that was quoted, and one without a backslash, a quote, a line   *)
(* end or a blank at its end, is read again as it was; so is the name of a *)
(* subsection without backslash and quote.  String writes any other as it  *)
(* is, and what is read is another value or an error.                      *)
IrRoundTrip == irPass = 2 /\ irSt.res # "" /\ irFirst.value # <<>> =>
  \/ irSt.res = "done" /\ irSt.value = irFirst.value
  \/ irWhat = "value" /\ ~irFirst.isQuoted
     /\ (Range(irFirst.value) \cap {"bs", "q", "nl"} # {} \/ Head(irFirst.value) = "sp" \/ Last(irFirst.value) = "sp")
  \/ irWhat = "sub" /\ Range(irFirst.value) \cap {"bs", "q"} # {}

(* Every line of a file is kept, in the section whose header is the last   *)
(* before it.  A last line without line end is the exception: a header is  *)
(* stored as a variable, a "key =" is accepted before any header.          *)
IrOwnSection == irFile = "done" =>
  /\ \A line \in 1..irCount : \E i \in DOMAIN irSecs : irSecs[i].name = line \/ \E j \in DOMAIN irSecs[i].vars : irSecs[i].vars[j].line = line
  /\ \A i \in DOMAIN irSecs : \A j \in DOMAIN irSecs[i].vars :
       LET v == irSecs[i].vars[j]
       IN /\ v.line > irSecs[i].name /\ \A k \in i + 1..Len(irSecs) : v.line < irSecs[k].name
          /\ v.kind \in {"var", "novalue"} /\ v.line < irCount => irSecs[i].name # 0
          /\ v.kind = "header" => v.line = irCount
=============================================================================
