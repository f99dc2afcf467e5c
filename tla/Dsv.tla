-------------------------------- MODULE Dsv --------------------------------
(***************************************************************************)
(* lib/dsv: Read, which turns the lines of a file into rows by the         *)
(* metadata of the columns (quotes, separators, columns to skip, types)    *)
(* and puts the lines that do not fit into a file of their own, and        *)
(* WriteRow.  A file is a sequence of characters: "x" (a digit), "q" the   *)
(* quote, "s" the separator, "b" the backslash, "n" the line end and "_" a *)
(* blank.                                                                  *)
(***************************************************************************)
EXTENDS Integers, Sequences, SequencesExt, FiniteSetsExt

CONSTANTS DvMetas,    \* metadata a reader may have: sequences of [quoted, sep, skip, number]
          DvFiles,    \* files that were not written by WriteRow
          DvValues,   \* values of the rows that are written
          DvMaxWritten, DvMaxRows \* bounds: rows written; MaxRows, the rows of one Read
ASSUME DvAssumption == DvMaxWritten \in Nat /\ DvMaxRows \in Nat \ {0}

VARIABLES dvPc,       \* "closed", "write", "idle", "read", "eof"
          dvMd,       \* InputMetadata
          dvFile, dvIn,  \* the input, and what is left of it
          dvWritten,  \* the rows WriteRow wrote to it, or none
          dvRows, dvAll, \* the dataset, and the rows of all Reads so far
          dvReject,   \* the lines of the file Rejected
          dvTail,     \* a row was wider than the dataset: a column to skip was empty
          dvDisk      \* the file Rejected is there after Close
dvVars == <<dvPc, dvMd, dvFile, dvIn, dvWritten, dvRows, dvAll, dvReject, dvTail, dvDisk>>

DvInit == /\ dvPc = "closed" /\ dvMd = <<>> /\ dvFile = <<>> /\ dvIn = <<>> /\ dvWritten = <<>> /\ dvRows = <<>> /\ dvAll = <<>>
          /\ dvReject = <<>> /\ dvTail = FALSE /\ dvDisk = FALSE

-----------------------------------------------------------------------------
(* lib/bytes, with tokens of one character.                                *)
\* CutUntilToken: what comes before the token, with its escapes undone, and what is left after it.
DvCut(s, token, checkEsc) ==
  LET step(st, c) ==
        IF st.found THEN [st EXCEPT !.left = Append(@, c)]
        ELSE IF checkEsc /\ c = "b" THEN IF st.esc THEN [st EXCEPT !.v = Append(@, "b"), !.esc = FALSE] ELSE [st EXCEPT !.esc = TRUE]
        ELSE IF c # token THEN [st EXCEPT !.v = @ \o (IF st.esc THEN <<"b", c>> ELSE <<c>>), !.esc = FALSE]
        ELSE IF st.esc THEN [st EXCEPT !.v = Append(@, c), !.esc = FALSE]
        ELSE [st EXCEPT !.found = TRUE]
  IN FoldLeft(step, [v |-> <<>>, esc |-> FALSE, found |-> FALSE, left |-> <<>>], s)
\* SkipAfterToken: whatever comes before the token is skipped.
DvSkipAfter(s, token) ==
  LET at == {i \in DOMAIN s : s[i] = token}
  IN IF at = {} THEN [found |-> FALSE, left |-> <<>>] ELSE [found |-> TRUE, left |-> SubSeq(s, Min(at) + 1, Len(s))]
\* Mutant of DvEnclose: quotes and separators in a value are written as they are.
DvEncloseNot(s, token) == s
\* EncloseToken with the backslash.
DvEnclose(s, token) == FoldLeft(LAMBDA out, c : out \o (IF c = token THEN <<"b", c>> ELSE <<c>>), <<>>, s)
DvTrim(s) ==
  LET solid == {i \in DOMAIN s : s[i] # "_"} IN IF solid = {} THEN <<>> ELSE SubSeq(s, Min(solid), Max(solid))

\* ReadLine: the bytes up to a line end; without one, the rest of the file and io.EOF.
DvReadLine(in) ==
  LET ends == {i \in DOMAIN in : in[i] = "n"}
  IN IF ends = {} THEN [line |-> in, eof |-> TRUE, in |-> <<>>]
     ELSE [line |-> SubSeq(in, 1, Min(ends) - 1), eof |-> FALSE, in |-> SubSeq(in, Min(ends) + 1, Len(in))]

-----------------------------------------------------------------------------
(* ParseLine, column by column: what is left of the line and of the file.  *)
\* parsingRightQuote, which fetches lines until it finds the quote.
RECURSIVE DvRightQuote(_, _, _)
DvRightQuote(v, left, in) ==
  LET cut == DvCut(left, "q", TRUE)
      next == DvReadLine(in)
  IN IF cut.found THEN [v |-> v \o cut.v, left |-> cut.left, in |-> in, ok |-> TRUE]
     ELSE IF next.eof THEN [v |-> <<>>, left |-> <<>>, in |-> next.in, ok |-> FALSE]
     ELSE DvRightQuote(v \o cut.v, <<"n">> \o next.line, next.in)

\* Mutant of DvError: a line that does not fit takes the next one with it.
DvErrorNext(st, in) == [st EXCEPT !.ok = FALSE, !.in = DvReadLine(in).in]

DvError(st, in) == [st EXCEPT !.ok = FALSE, !.in = in]
\* NewRecordBy: a number has digits only.
DvRecord(st, md, v, left, in) ==
  IF md.number /\ (v = <<>> \/ \E i \in DOMAIN v : v[i] # "x") THEN DvError(st, in)
  ELSE [st EXCEPT !.row = Append(@, v), !.left = left, !.in = in]
\* The end of a column: a column to skip gives no record.
DvValue(st, md, v, left, in) == IF md.skip THEN [st EXCEPT !.left = left, !.in = in] ELSE DvRecord(st, md, v, left, in)
\* An empty value makes a record before the column is found to be one to skip.
DvColumn(st, md) ==
  LET open == DvSkipAfter(st.left, "q")
      quoted == DvRightQuote(<<>>, open.left, st.in)
      after == DvSkipAfter(quoted.left, "s")
      cut == DvCut(st.left, "s", FALSE)
  IN IF ~st.ok THEN st
     ELSE IF md.sep /\ st.left # <<>> /\ Head(st.left) = "s" THEN DvRecord(st, md, <<>>, Tail(st.left), st.in)
     ELSE IF md.quoted
     THEN IF ~open.found THEN DvError(st, st.in)
          ELSE IF ~quoted.ok \/ (md.sep /\ ~after.found) THEN DvError(st, quoted.in)
          ELSE DvValue(st, md, quoted.v, IF md.sep THEN after.left ELSE quoted.left, quoted.in)
     ELSE IF ~md.sep THEN DvValue(st, md, st.left, <<>>, st.in)
     ELSE IF cut.found THEN DvValue(st, md, cut.v, cut.left, st.in)
     ELSE DvError(st, st.in)
DvParseLine(line, in) == FoldLeft(DvColumn, [left |-> line, in |-> in, row |-> <<>>, ok |-> TRUE], dvMd)

-----------------------------------------------------------------------------
(* The writer, and the reader's calls.                                     *)
\* WriteRow: backslashes and right quotes are escaped; without quotes the separator is.
DvWriteRow(row) ==
  LET field(i) == LET v == DvEnclose(row[i], "b")
                      md == dvMd[i]
                  IN (IF md.quoted THEN <<"q">> \o DvEnclose(v, "q") \o <<"q">> ELSE IF md.sep THEN DvEnclose(v, "s") ELSE v)
                     \o (IF md.sep THEN <<"s">> ELSE <<>>)
  IN FlattenSeq([i \in DOMAIN row |-> field(i)]) \o <<"n">>

DvNewWriter == \E md \in DvMetas :
  /\ dvPc = "closed" /\ dvMd = <<>> /\ dvPc' = "write" /\ dvMd' = md /\ \A i \in DOMAIN md : ~md[i].skip /\ ~md[i].number
  /\ UNCHANGED <<dvFile, dvIn, dvWritten, dvRows, dvAll, dvReject, dvTail, dvDisk>>
DvWrite == \E row \in [DOMAIN dvMd -> DvValues] :
  /\ dvPc = "write" /\ Len(dvWritten) < DvMaxWritten /\ dvWritten' = Append(dvWritten, row) /\ dvFile' = dvFile \o DvWriteRow(row)
  /\ UNCHANGED <<dvPc, dvMd, dvIn, dvRows, dvAll, dvReject, dvTail, dvDisk>>
\* Open, of the file that was written or of another.
DvOpen ==
  /\ \/ dvPc = "write" /\ dvWritten # <<>> /\ UNCHANGED <<dvMd, dvFile>>
     \/ dvPc = "closed" /\ dvMd = <<>> /\ dvMd' \in DvMetas /\ dvFile' \in DvFiles
  /\ dvPc' = "idle" /\ dvIn' = dvFile' /\ dvReject' = <<>> /\ dvDisk' = TRUE
  /\ UNCHANGED <<dvWritten, dvRows, dvAll, dvTail>>
\* Read begins with Reset.
DvReadBegin == /\ dvPc = "idle" /\ dvPc' = "read" /\ dvRows' = <<>>
               /\ UNCHANGED <<dvMd, dvFile, dvIn, dvWritten, dvAll, dvReject, dvTail, dvDisk>>
\* One pass of its loop: ReadRow skips blank lines; a line without line end is the end of the file.
\* Mutant of DvFull: Read stops when it has read one more row than MaxRows.
DvFullLate(rows) == Len(rows) > DvMaxRows
DvFull(rows) == Len(rows) >= DvMaxRows
DvReadRow ==
  LET next == DvReadLine(dvIn)
      st == DvParseLine(DvTrim(next.line), next.in)
      rows == Append(dvRows, st.row)
  IN /\ dvPc = "read"
     /\ IF next.eof THEN dvPc' = "eof" /\ dvIn' = next.in /\ UNCHANGED <<dvRows, dvAll, dvReject, dvTail>>
        ELSE IF DvTrim(next.line) = <<>> THEN dvIn' = next.in /\ UNCHANGED <<dvPc, dvRows, dvAll, dvReject, dvTail>>
        ELSE IF st.ok
        THEN /\ dvRows' = rows /\ dvAll' = Append(dvAll, st.row) /\ dvIn' = st.in
             /\ dvTail' = (dvTail \/ Len(st.row) > Cardinality({i \in DOMAIN dvMd : ~dvMd[i].skip}))
             /\ dvPc' = (IF DvFull(rows) THEN "idle" ELSE "read") /\ UNCHANGED dvReject
        ELSE dvReject' = Append(dvReject, DvTrim(next.line)) /\ dvIn' = st.in /\ UNCHANGED <<dvPc, dvRows, dvAll, dvTail>>
     /\ UNCHANGED <<dvMd, dvFile, dvWritten, dvDisk>>
\* Close: deleteEmptyRejected removes the file whatever its size.
DvClose == /\ dvPc \in {"idle", "eof"} /\ dvPc' = "closed" /\ dvDisk' = FALSE
           /\ UNCHANGED <<dvMd, dvFile, dvIn, dvWritten, dvRows, dvAll, dvReject, dvTail>>

DvNext == DvNewWriter \/ DvWrite \/ DvOpen \/ DvReadBegin \/ DvReadRow \/ DvClose
DvSpec == DvInit /\ [][DvNext]_dvVars

-----------------------------------------------------------------------------
DvTypeOK == /\ dvPc \in {"closed", "write", "idle", "read", "eof"} /\ Len(dvRows) <= DvMaxRows /\ dvTail \in BOOLEAN /\ dvDisk \in BOOLEAN
            /\ Len(dvWritten) <= DvMaxWritten

(* Rows written with quotes come back as they were, whatever quotes,       *)
(* separators, backslashes and line ends their values hold, and however    *)
(* many Reads of MaxRows rows it takes.                                    *)
DvRoundTrip == dvPc = "eof" /\ dvWritten # <<>> /\ (\A i \in DOMAIN dvMd : dvMd[i].quoted) =>
  dvAll = dvWritten /\ dvReject = <<>>

(* A reader without quotes loses no line: each line of the file that is    *)
(* not blank and has a line end is a row or is among the rejected ones.    *)
DvAccounted == dvPc = "eof" /\ (\A i \in DOMAIN dvMd : ~dvMd[i].quoted) =>
  LET ends == {0} \cup {i \in DOMAIN dvFile : dvFile[i] = "n"}
      lines == {e \in ends \ {0} : DvTrim(SubSeq(dvFile, Max({d \in ends : d < e}) + 1, e - 1)) # <<>>}
  IN Len(dvAll) + Len(dvReject) = Cardinality(lines)

\* Metadata.Skip: "if its true this column will be ignored, not saved in reader object."
DvSkipped == ~dvTail
\* deleteEmptyRejected: "if rejected file is empty, delete it".
DvRejectedKept == dvPc = "closed" /\ dvReject # <<>> => dvDisk
=============================================================================
