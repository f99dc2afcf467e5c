----------------------------- MODULE EmailCanon -----------------------------
(***************************************************************************)
(* lib/email: ParseField with the two canonical forms of a field, and the  *)
(* two canonical forms of a body.  A text is a sequence of characters:     *)
(* "a" and "A" letters, "_" a blank, ":" the colon, "r" CR and "n" LF.     *)
(***************************************************************************)
EXTENDS Integers, Sequences, SequencesExt, FiniteSetsExt

CONSTANTS EcBodyChars, EcFieldChars, \* characters of the bodies and of the fields
          EcMaxChars  \* bound: characters of a text
ASSUME EcAssumption == EcMaxChars \in Nat

VARIABLES ecKind,  \* "body" or "field"
          ecRaw,   \* the text
          ecDone, ecSimple, ecRelaxed, ecField \* the results: the forms of the body, or the field
ecVars == <<ecKind, ecRaw, ecDone, ecSimple, ecRelaxed, ecField>>

\* A result, or a panic on an index out of range.
EcOut(s) == [panic |-> FALSE, out |-> s]
EcPanic == [panic |-> TRUE, out |-> <<>>]
EcNoField == [ok |-> FALSE, name |-> <<>>, value |-> <<>>, oriName |-> <<>>, oriValue |-> <<>>, rest |-> <<>>]
EcInit == ecKind = "body" /\ ecRaw = <<>> /\ ecDone = FALSE /\ ecSimple = EcPanic /\ ecRelaxed = EcPanic /\ ecField = EcNoField

EcIsSpace(c) == c \in {"_", "r", "n"}
EcCRLF == <<"r", "n">>
EcEndsCRLF(s, x) == s[x - 1] = "r" /\ s[x] = "n"

-----------------------------------------------------------------------------
(* Bodies.  Positions count from 1, so the code's x > 2 is x > 3 here.     *)
\* Mutant of EcStrip: only one line end is removed.
EcStripOne(s, x) == IF x > 3 /\ EcEndsCRLF(s, x) THEN x - 2 ELSE x
\* The end of the body without the empty lines behind it, as far as the loop goes down.
EcStrip(s, x) ==
  LET downTo == {y \in 0..x : (x - y) % 2 = 0 /\ \A z \in y + 1..x : (x - z) % 2 = 0 => z > 3 /\ EcEndsCRLF(s, z)} IN Min(downTo)

\* Simple; a body of one character is indexed before its start.
EcSimple(raw) ==
  LET x == EcStrip(raw, Len(raw))
      out == SubSeq(raw, 1, x)
  IN IF raw = <<>> THEN EcOut(EcCRLF)
     ELSE IF x = 2 THEN EcOut(out)
     ELSE IF x = 1 THEN EcPanic
     ELSE EcOut(IF out[x - 1] # "r" /\ out[x] # "n" THEN out \o EcCRLF ELSE out)

\* Relaxed, character by character; blanks become one, and one blank before a line end is dropped, but not several.
EcStep(raw, end) ==
  LET step(st, x) ==
        IF st.panic THEN st
        ELSE IF st.skip THEN [st EXCEPT !.skip = FALSE]
        ELSE IF raw[x] \in {"_", "n"} THEN [st EXCEPT !.space = @ + 1]
        ELSE IF raw[x] # "r" THEN [st EXCEPT !.out = @ \o (IF st.space > 0 THEN <<"_", raw[x]>> ELSE <<raw[x]>>), !.space = 0]
        ELSE IF x = Len(raw) THEN [st EXCEPT !.panic = TRUE]
        ELSE IF raw[x + 1] = "n" THEN [st EXCEPT !.out = @ \o (IF st.space > 1 THEN <<"_">> ELSE <<>>) \o EcCRLF, !.space = 0, !.skip = TRUE]
        ELSE [st EXCEPT !.space = @ + 1, !.skip = TRUE]
  IN FoldLeft(step, [out |-> <<>>, space |-> 0, skip |-> FALSE, panic |-> FALSE], [x \in 1..end |-> x])
EcRelaxed(raw) ==
  LET solid == Max({0} \cup {x \in DOMAIN raw : raw[x] # "_"})
      end == EcStrip(raw, solid)
      st == EcStep(raw, end)
      n == Len(st.out)
  IN IF st.panic THEN EcPanic
     ELSE EcOut(IF n >= 2 /\ EcEndsCRLF(st.out, n) THEN st.out ELSE IF end < solid THEN st.out \o EcCRLF ELSE st.out)

-----------------------------------------------------------------------------
(* Fields.                                                                 *)
EcLower(c) == IF c = "A" THEN "a" ELSE c
\* setName: the name in lower case up to its first blank.
EcSetName(raw) ==
  LET end == Min({Len(raw) + 1} \cup {x \in DOMAIN raw : EcIsSpace(raw[x])}) IN [x \in 1..end - 1 |-> EcLower(raw[x])]
\* Mutant of EcSetValue: blanks at the start of the value are kept as one.
EcSetValueLead(raw) ==
  LET st == FoldLeft(LAMBDA s, c : IF EcIsSpace(c) THEN [s EXCEPT !.space = TRUE]
                                   ELSE [out |-> s.out \o (IF s.space THEN <<"_", c>> ELSE <<c>>), space |-> FALSE], [out |-> <<>>, space |-> FALSE], raw)
  IN IF st.out = <<>> THEN <<>> ELSE <<"_">> \o st.out \o EcCRLF
\* setValue: no blanks at the ends, one for each run of blanks and line ends, and a line end.
EcSetValue(raw) ==
  LET st == FoldLeft(LAMBDA s, c : IF EcIsSpace(c) THEN [s EXCEPT !.space = s.out # <<>>]
                                   ELSE [out |-> s.out \o (IF s.space THEN <<"_", c>> ELSE <<c>>), space |-> FALSE], [out |-> <<>>, space |-> FALSE], raw)
  IN IF st.out = <<>> THEN <<>> ELSE st.out \o EcCRLF

\* The first position from x on whose character is not one of chars, or the end.
EcSkip(raw, x, chars) == Min({Len(raw) + 1} \cup {y \in x..Len(raw) : raw[y] \notin chars})
EcBlank(c) == c = "_"
\* The end of the value: a line that is not followed by a blank; 0 when a line has no line end.
RECURSIVE EcValueEnd(_, _)
EcValueEnd(raw, x) ==
  LET cr == Min({Len(raw) + 1} \cup {y \in x..Len(raw) : raw[y] \in {"r", "n"}})
  IN IF x > Len(raw) THEN x
     ELSE IF cr >= Len(raw) THEN 0
     ELSE IF raw[cr] # "r" \/ raw[cr + 1] # "n" THEN 0
     ELSE IF cr + 2 > Len(raw) THEN cr + 2
     ELSE IF EcBlank(raw[cr + 2]) THEN EcValueEnd(raw, cr + 3)
     ELSE cr + 2
EcParseField(raw) ==
  LET nameEnd == EcSkip(raw, 1, {"a", "A"})
      colon == EcSkip(raw, nameEnd, {"_"})
      value == EcSkip(raw, colon + 1, {"_"})
      end == EcValueEnd(raw, value)
      relaxed == EcSetValue(SubSeq(raw, colon + 1, end - 1))
  IN IF raw = <<>> \/ nameEnd > Len(raw) \/ colon > Len(raw) THEN EcNoField
     ELSE IF raw[nameEnd] \in {"r", "n"} \/ raw[colon] # ":" \/ value > Len(raw) \/ end = 0 \/ relaxed = <<>> THEN EcNoField
     ELSE [ok |-> TRUE, name |-> EcSetName(SubSeq(raw, 1, colon - 1)), value |-> relaxed, oriName |-> SubSeq(raw, 1, colon - 1),
           oriValue |-> SubSeq(raw, colon + 1, end - 1), rest |-> SubSeq(raw, end, Len(raw))]
\* Field.Relaxed and Field.Simple.
EcFieldRelaxed(f) == f.name \o <<":">> \o f.value
EcFieldSimple(f) == f.oriName \o <<":">> \o f.oriValue

-----------------------------------------------------------------------------
EcWrite == \E c \in EcBodyChars \cup EcFieldChars :
  /\ ~ecDone /\ Len(ecRaw) < EcMaxChars /\ ecRaw' = Append(ecRaw, c) /\ c \in (IF ecKind = "body" THEN EcBodyChars ELSE EcFieldChars)
  /\ UNCHANGED <<ecKind, ecDone, ecSimple, ecRelaxed, ecField>>
EcIsField == ecKind = "body" /\ ecRaw = <<>> /\ ecKind' = "field" /\ UNCHANGED <<ecRaw, ecDone, ecSimple, ecRelaxed, ecField>>
EcCanonBody == /\ ~ecDone /\ ecKind = "body" /\ ecDone' = TRUE /\ ecSimple' = EcSimple(ecRaw) /\ ecRelaxed' = EcRelaxed(ecRaw)
               /\ UNCHANGED <<ecKind, ecRaw, ecField>>
EcParse == /\ ~ecDone /\ ecKind = "field" /\ ecDone' = TRUE /\ ecField' = EcParseField(ecRaw) /\ UNCHANGED <<ecKind, ecRaw, ecSimple, ecRelaxed>>
EcNext == EcWrite \/ EcIsField \/ EcCanonBody \/ EcParse
EcSpec == EcInit /\ [][EcNext]_ecVars

-----------------------------------------------------------------------------
EcTypeOK == ecKind \in {"body", "field"} /\ Len(ecRaw) <= EcMaxChars /\ ecDone \in BOOLEAN

\* CR and LF come in pairs, and the text ends in one.
EcLines(s) == /\ Len(s) >= 2 /\ Last(s) = "n"
              /\ \A i \in DOMAIN s : /\ s[i] = "r" => IF i < Len(s) THEN s[i + 1] = "n" ELSE FALSE
                                     /\ s[i] = "n" => IF i > 1 THEN s[i - 1] = "r" ELSE FALSE

(* Empty lines that are added behind a body of lines change                *)
(* neither of its canonical forms, so a relay that adds one does not make  *)
(* its signature fail; and the forms keep the letters of the body.         *)
EcTailIgnored == ecDone /\ ecKind = "body" /\ EcLines(ecRaw) =>
  /\ EcSimple(ecRaw \o EcCRLF) = ecSimple /\ EcRelaxed(ecRaw \o EcCRLF) = ecRelaxed /\ ~ecSimple.panic /\ ~ecRelaxed.panic
  /\ \A form \in {ecSimple, ecRelaxed} : Len(SelectSeq(form.out, LAMBDA c : c = "a")) = Len(SelectSeq(ecRaw, LAMBDA c : c = "a"))

(* A field in relaxed form parses into itself, and one in simple form into *)
(* the same field; nothing of the text is lost between the field and the   *)
(* rest.                                                                   *)
EcFieldStable == ecField.ok =>
  LET again == EcParseField(EcFieldRelaxed(ecField))
  IN /\ again.ok /\ again.name = ecField.name /\ again.value = ecField.value /\ again.rest = <<>>
     /\ EcFieldSimple(ecField) \o ecField.rest = ecRaw

\* Body.Relaxed: "It remove all trailing whitespaces, reduce sequence of whitespaces inside line into single space".
EcNoTrailing == ecDone /\ ecKind = "body" => \A i \in 1..Len(ecRelaxed.out) - 1 : ecRelaxed.out[i + 1] = "r" => ecRelaxed.out[i] # "_"
\* Body.Simple: "If no message body or no trailing CRLF, a CRLF is added."
EcSimpleEnds == ecDone /\ ecKind = "body" /\ ~ecSimple.panic => EcEndsCRLF(ecSimple.out, Len(ecSimple.out))
=============================================================================
