------------------------------ MODULE TextDiff ------------------------------
(***************************************************************************)
(* lib/text/diff: Files, the comparison of two files line by line, one     *)
(* pass of its loop per step; Lines, the comparison of two lines byte by   *)
(* byte; and TokenFind of lib/bytes, on which Lines rests.                 *)
(***************************************************************************)
EXTENDS Integers, Sequences, SequencesExt, FiniteSetsExt

CONSTANTS DfTexts,    \* lines of a file
          DfSimilar,  \* the pairs of lines BytesRatio finds alike
          DfMaxLines, \* bound: lines of a file
          DfBytes, DfMaxBytes, \* bytes of a line, and the bound on their number
          DfMatchLen  \* DefMatchLen (5 in the code)
ASSUME DfAssumption == DfMaxLines \in Nat /\ DfMaxBytes \in Nat /\ DfMatchLen \in Nat \ {0}

VARIABLES dfPc,           \* "start", "files", "done"
          dfOld, dfNew,   \* the lines of the two files (or the bytes of the two lines)
          dfX, dfY,       \* Files: the next lines to compare, from 1 on
          dfAdds, dfDels, dfChanges, dfSame, \* Files: line numbers, pairs of changed lines, pairs found equal
          dfChunks        \* Lines: [adds, dels], sequences of bytes
dfVars == <<dfPc, dfOld, dfNew, dfX, dfY, dfAdds, dfDels, dfChanges, dfSame, dfChunks>>

DfInit == /\ dfPc = "start" /\ dfOld = <<>> /\ dfNew = <<>> /\ dfX = 1 /\ dfY = 1
          /\ dfAdds = <<>> /\ dfDels = <<>> /\ dfChanges = <<>> /\ dfSame = <<>> /\ dfChunks = [adds |-> <<>>, dels |-> <<>>]

-----------------------------------------------------------------------------
(* Files.                                                                  *)
\* ReadLines: what follows the last line end is dropped.
DfReadLines(lines, ended) == IF ended \/ lines = <<>> THEN lines ELSE Front(lines)

DfOpen ==
  /\ dfPc = "start" /\ dfPc' = "files"
  /\ \E old, new \in BoundedSeq(DfTexts, DfMaxLines), ended \in BOOLEAN :
       dfOld' = DfReadLines(old, TRUE) /\ dfNew' = DfReadLines(new, ended)
  /\ UNCHANGED <<dfX, dfY, dfAdds, dfDels, dfChanges, dfSame, dfChunks>>

\* findLine: the first index from startat on, or 0.
\* Mutant of DfFindLine: the search starts at the beginning of the text.
DfFindLineAll(line, text, startat) ==
  LET at == {n \in DOMAIN text : text[n] = line} IN IF at = {} THEN 0 ELSE Min(at)
DfFindLine(line, text, startat) ==
  LET at == {n \in DOMAIN text : n >= startat /\ text[n] = line} IN IF at = {} THEN 0 ELSE Min(at)

DfRange(from, to) == [i \in 1..to - from |-> from + i - 1]
DfDelTo(x) == dfDels' = dfDels \o DfRange(dfX, x) /\ dfX' = x /\ UNCHANGED <<dfY, dfAdds, dfChanges, dfSame>>
DfAddTo(y) == dfAdds' = dfAdds \o DfRange(dfY, y) /\ dfY' = y /\ UNCHANGED <<dfX, dfDels, dfChanges, dfSame>>
DfChangeTo(x, y) == /\ dfChanges' = dfChanges \o [i \in 1..x - dfX |-> <<dfX + i - 1, dfY + i - 1>>]
                    /\ dfX' = x /\ dfY' = y /\ UNCHANGED <<dfAdds, dfDels, dfSame>>

\* The two lines differ: which of them comes back later decides.
DfSearch(old, new) ==
  LET xaty == DfFindLine(old, dfNew, dfY + 1)
      yatx == DfFindLine(new, dfOld, dfX + 1)
  IN IF xaty = 0 /\ yatx = 0 THEN DfChangeTo(dfX + 1, dfY + 1)
     ELSE IF xaty = 0 \/ (yatx # 0 /\ xaty - dfY > yatx - dfX) THEN DfDelTo(yatx)
     ELSE IF yatx = 0 \/ xaty - dfY < yatx - dfX THEN DfAddTo(xaty)
     ELSE DfChangeTo(yatx, xaty)

DfBlank == {"", " "} \* the lines TrimSpace leaves nothing of
DfCompare(old, new) ==
  IF old = new THEN /\ dfSame' = Append(dfSame, <<dfX, dfY>>) /\ dfX' = dfX + 1 /\ dfY' = dfY + 1
                    /\ UNCHANGED <<dfAdds, dfDels, dfChanges>>
  ELSE IF old \in DfBlank /\ new \in DfBlank THEN DfChangeTo(dfX + 1, dfY + 1)
  ELSE IF old \in DfBlank THEN DfDelTo(dfX + 1)
  ELSE IF new \in DfBlank THEN DfAddTo(dfY + 1)
  ELSE IF <<old, new>> \in DfSimilar THEN DfChangeTo(dfX + 1, dfY + 1)
  ELSE DfSearch(old, new)

DfFiles ==
  /\ dfPc = "files"
  /\ IF dfX > Len(dfOld) THEN dfPc' = "done" /\ DfAddTo(Len(dfNew) + 1)
     ELSE /\ dfPc' = dfPc
          /\ IF dfY > Len(dfNew) THEN DfDelTo(dfX + 1) ELSE DfCompare(dfOld[dfX], dfNew[dfY])
  /\ UNCHANGED <<dfOld, dfNew, dfChunks>>

-----------------------------------------------------------------------------
(* TokenFind, with a scan that never goes back: the byte after a failed    *)
(* match is not tried as the first one.  -1 when nothing is found.         *)
DfTokenFind(line, token) ==
  LET scan[x \in 1..Len(line) + 1, y \in 0..Len(token) - 1, at \in -1..Len(line)] ==
        IF x > Len(line) THEN -1
        ELSE IF line[x] = token[y + 1]
        THEN LET start == IF y = 0 THEN x - 1 ELSE at
             IN IF y + 1 = Len(token) THEN start ELSE scan[x + 1, y + 1, start]
        ELSE scan[x + 1, 0, -1]
  IN IF token = <<>> THEN -1 ELSE scan[1, 0, -1]

DfCut(s, from, to) == SubSeq(s, from + 1, to) \* s[from:to]
DfMin(a, b) == IF a < b THEN a ELSE b
DfPrefix(old, new) == Max({n \in 0..DfMin(Len(old), Len(new)) : \A i \in 1..n : old[i] = new[i]})
\* Mutant of DfSuffix: the last byte counts as common whatever it is.
DfSuffixOne(old, new) == DfMin(1, DfMin(Len(old), Len(new)))

DfSuffix(old, new) == Max({n \in 0..DfMin(Len(old), Len(new)) : \A i \in 0..n - 1 : old[Len(old) - i] = new[Len(new) - i]})

\* The first index from 1 on whose token occurs in other, not at its start, else where the loop ends.
DfForward(left, other) ==
  LET minlen == DfMin(DfMatchLen, Len(left))
      hits == {i \in 1..Len(left) - minlen - 1 : DfTokenFind(other, DfCut(left, i, i + minlen)) > 0}
  IN IF hits # {} THEN Min(hits) ELSE Max({1, Len(left) - minlen})
\* What the loop's last search returned.
DfForwardFound(left, other) ==
  LET minlen == DfMin(DfMatchLen, Len(left))
      last == DfMin(DfForward(left, other), Len(left) - minlen - 1)
  IN IF Len(left) - minlen - 1 < 1 THEN FALSE ELSE DfTokenFind(other, DfCut(left, last, last + minlen)) >= 0

\* Lines: the chunks added and deleted, joined.  The recursion works on what is left of both lines.
RECURSIVE DfLines(_, _)
DfLines(old, new) ==
  LET x == DfPrefix(old, new)
      o == DfCut(old, x, Len(old))
      n == DfCut(new, x, Len(new))
      e == DfSuffix(o, n)
      oldleft == DfCut(o, 0, Len(o) - e)
      newleft == DfCut(n, 0, Len(n) - e)
      xaty == DfTokenFind(newleft, DfCut(oldleft, 0, DfMin(DfMatchLen, Len(oldleft))))
      yatx == DfTokenFind(oldleft, DfCut(newleft, 0, DfMin(DfMatchLen, Len(newleft))))
      with(adds, dels, rest) == [adds |-> adds \o rest.adds, dels |-> dels \o rest.dels]
  IN IF o = <<>> \/ n = <<>> THEN [adds |-> n, dels |-> o]
     ELSE IF oldleft = <<>> \/ newleft = <<>> THEN [adds |-> newleft, dels |-> oldleft]
     ELSE IF xaty >= 0 THEN with(DfCut(newleft, 0, xaty), <<>>, DfLines(oldleft, DfCut(newleft, xaty, Len(newleft))))
     ELSE IF yatx >= 0 THEN with(<<>>, DfCut(oldleft, 0, yatx), DfLines(DfCut(oldleft, yatx, Len(oldleft)), newleft))
     ELSE IF ~DfForwardFound(oldleft, newleft) /\ ~DfForwardFound(newleft, oldleft) THEN [adds |-> newleft, dels |-> oldleft]
     ELSE LET xx == DfForward(oldleft, newleft)
              yy == DfForward(newleft, oldleft)
              o2 == DfCut(oldleft, xx, Len(oldleft))
              n2 == DfCut(newleft, yy, Len(newleft))
          IN with(DfCut(newleft, 0, yy), DfCut(oldleft, 0, xx),
                  IF o2 = <<>> \/ n2 = <<>> THEN [adds |-> n2, dels |-> o2] ELSE DfLines(o2, n2))

DfCompareLines ==
  /\ dfPc = "start" /\ dfPc' = "lines"
  /\ \E old, new \in BoundedSeq(DfBytes, DfMaxBytes) : dfOld' = old /\ dfNew' = new /\ dfChunks' = DfLines(old, new)
  /\ UNCHANGED <<dfX, dfY, dfAdds, dfDels, dfChanges, dfSame>>

DfNext == DfOpen \/ DfFiles \/ DfCompareLines
DfSpec == DfInit /\ [][DfNext]_dfVars

-----------------------------------------------------------------------------
DfTypeOK == /\ dfPc \in {"start", "files", "done", "lines"}
            /\ dfX \in 1..DfMaxLines + 1 /\ dfY \in 1..DfMaxLines + 1

(* The result of Files is an edit script: every line of the old file is    *)
(* deleted, changed or equal, every line of the new one added, changed or  *)
(* equal, each exactly once, and the pairs keep the order of both files.   *)
DfScript == dfPc = "done" =>
  LET pairs == Range(dfChanges) \cup Range(dfSame)
      side(k) == {p[k] : p \in pairs}
  IN /\ Range(dfDels) \cup side(1) = 1..Len(dfOld) /\ Len(dfDels) + Len(dfChanges) + Len(dfSame) = Len(dfOld)
     /\ Range(dfAdds) \cup side(2) = 1..Len(dfNew) /\ Len(dfAdds) + Len(dfChanges) + Len(dfSame) = Len(dfNew)
     /\ \A p, q \in pairs : p[1] < q[1] <=> p[2] < q[2]
     /\ \A i \in DOMAIN dfSame : dfOld[dfSame[i][1]] = dfNew[dfSame[i][2]]

\* What is left of line when the bytes of chunk are taken out of it, in their order.
DfRests(line, chunk) ==
  LET keep(at) == [i \in 1..Len(line) - Len(chunk) |-> line[CHOOSE k \in DOMAIN line \ at : Cardinality((1..k) \ at) = i]]
      taken(at) == [i \in 1..Len(chunk) |-> line[CHOOSE k \in at : Cardinality(at \cap (1..k)) = i]]
  IN {keep(at) : at \in {t \in SUBSET DOMAIN line : Cardinality(t) = Len(chunk) /\ taken(t) = chunk}}

(* The chunks of Lines lead from one line to the other: the deleted bytes  *)
(* taken out of the old line, and the added ones out of the new line,      *)
(* leave the same bytes.                                                   *)
DfBalanced == dfPc = "lines" => DfRests(dfOld, dfChunks.dels) \cap DfRests(dfNew, dfChunks.adds) # {}

(* Files comes to an end for all files, whichever lines it finds again:    *)
(* each pass of its loop goes forward in one file and back in none.        *)
DfProgress == [][dfPc = "files" /\ dfPc' = "files" => dfX' + dfY' > dfX + dfY /\ dfX' >= dfX /\ dfY' >= dfY]_dfVars

\* TokenFind: "return the first index of matched token in line".
DfTokenFirst == dfPc = "lines" /\ dfOld # <<>> =>
  LET at == {i \in 0..Len(dfNew) - Len(dfOld) : DfCut(dfNew, i, i + Len(dfOld)) = dfOld}
  IN DfTokenFind(dfNew, dfOld) = IF at = {} THEN -1 ELSE Min(at)

(* A difference leads from the old text to the new one, by lines (Files)   *)
(* and by bytes within a line (Lines).                                     *)
DfSound == DfScript /\ DfBalanced
=============================================================================
