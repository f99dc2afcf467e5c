------------------------------- MODULE Table -------------------------------
(***************************************************************************)
(* What a dataset of lib/tabula promises, whatever the mode it keeps its   *)
(* records in: a sequence of rows that each kind of call changes in one    *)
(* way only.  A record 0 is one that was never set.                        *)
(***************************************************************************)
EXTENDS Integers, Sequences, SequencesExt

VARIABLES table, call \* the rows; the kind of the last call
tbVars == <<table, call>>

TbInit == table = <<>> /\ call = "clear"

\* PushRow, MergeRows.
TbAppend == call' = "append" /\ IsPrefix(table, table')
\* DeleteRow takes one row away, or refuses.
TbDelete == call' = "delete" /\ (table' = table \/ \E i \in DOMAIN table : table' = RemoveAt(table, i))
\* PushColumn of a new column: every row gets one more record.
TbWiden == /\ call' = "column" /\ Len(table') = Len(table)
           /\ \A i \in DOMAIN table : Len(table'[i]) = Len(table[i]) + 1 /\ IsPrefix(table[i], table'[i])
\* PushColumn of one the rows have: records that were never set are set, the others make new rows.
TbFill == /\ call' = "column" /\ Len(table') >= Len(table)
          /\ \A i \in DOMAIN table : Len(table'[i]) = Len(table[i]) /\ \A j \in DOMAIN table[i] : table[i][j] \in {0, table'[i][j]}
\* A new dataset, and Reset.
TbClear == call' = "clear" /\ table' = <<>>
\* SortColumnsByIndex.
TbPermute == /\ call' = "permute" /\ Len(table') = Len(table)
             /\ \E p \in [DOMAIN table -> DOMAIN table] : IsInjective(p) /\ \A i \in DOMAIN table : table'[i] = table[p[i]]
\* Transpositions, splits, selections, picks and counts change nothing.
TbLook == call' = "look" /\ UNCHANGED table

TbNext == TbAppend \/ TbDelete \/ TbWiden \/ TbFill \/ TbClear \/ TbPermute \/ TbLook
TbSpec == TbInit /\ [][TbNext]_tbVars
=============================================================================
