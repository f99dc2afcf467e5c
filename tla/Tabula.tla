------------------------------- MODULE Tabula -------------------------------
(***************************************************************************)
(* lib/tabula: a dataset that keeps its records by rows, by columns or     *)
(* both ways (the matrix mode), and the operations that move them from one *)
(* form to the other.  Record 0 is one that was never set.                 *)
(***************************************************************************)
EXTENDS Integers, Sequences, SequencesExt, FiniteSetsExt

CONSTANTS TaRows,     \* rows the program pushes, of one width
          TaTypes,    \* types of the columns: "number" or "string"
          TaNames,    \* names of the columns
          TaMaxRows, TaMaxOps \* bounds: rows of the dataset, operations of a behaviour
ASSUME TaAssumption ==
  /\ TaMaxRows \in Nat /\ TaMaxOps \in Nat /\ TaTypes \in Seq(STRING) /\ TaTypes # <<>>
  /\ TaRows \subseteq Seq(Int) /\ \A r \in TaRows : Len(r) = Len(TaTypes)

VARIABLES taDs,       \* the dataset: [mode, cols, rows], a column [name, type, recs]
          taParts,    \* the datasets the last split, pick or selection returned
          taWas,      \* the dataset before that call: its rows, its mode, and whether it is whole and its columns have names of their own
          taTorn,     \* a call has left the forms or the columns of the dataset disagreeing
          taClass,    \* the claset: [counted, counts, major, minor], or not yet counted
          taMinority, \* the last GetMinorityRows: the rows of the class it looked for, and the rows it returned
          taCall, taOps \* what the last call was, for the table; calls so far
taVars == <<taDs, taParts, taWas, taTorn, taClass, taMinority, taCall, taOps>>

TaMin(a, b) == IF a < b THEN a ELSE b
TaColumn(name, type, recs) == [name |-> name, type |-> type, recs |-> recs]
TaUnnamed == TaColumn("", "string", <<>>) \* the columns a dataset makes for the rows it has
TaDataset(mode, cols, rows) == [mode |-> mode, cols |-> cols, rows |-> rows]
TaResetCols(cols) == [y \in DOMAIN cols |-> [cols[y] EXCEPT !.recs = <<>>]]
TaSetMode(ds, mode) == TaDataset(mode, IF mode = "rows" THEN ds.cols ELSE TaResetCols(ds.cols), IF mode = "columns" THEN ds.rows ELSE <<>>)
TaNew(mode, typed) ==
  TaSetMode(TaDataset(mode, IF typed THEN [y \in DOMAIN TaTypes |-> TaColumn(TaNames[y], TaTypes[y], <<>>)] ELSE <<>>, <<>>), mode)

TaNotCounted == [counted |-> FALSE, counts |-> <<>>, major |-> 0, minor |-> 0]
TaInit == /\ taDs = TaNew("rows", TRUE) /\ taParts = <<>> /\ taWas = [rows |-> <<>>, mode |-> "rows", named |-> TRUE] /\ taTorn = FALSE
          /\ taClass = TaNotCounted /\ taMinority = [due |-> <<>>, got |-> <<>>] /\ taCall = "clear" /\ taOps = 0

-----------------------------------------------------------------------------
(* The two forms.                                                          *)
TaNRow(ds) == IF ds.mode # "columns" THEN Len(ds.rows) ELSE IF ds.cols = <<>> THEN 0 ELSE Len(ds.cols[1].recs)
TaNCol(ds) == IF ds.cols # <<>> THEN Len(ds.cols) ELSE IF ds.mode = "rows" /\ ds.rows # <<>> THEN Len(ds.rows[1]) ELSE 0

TaColsToRows(cols) ==
  [r \in 1..Max({0} \cup {Len(cols[f].recs) : f \in DOMAIN cols}) |->
     [f \in DOMAIN cols |-> IF Len(cols[f].recs) >= r THEN cols[f].recs[r] ELSE 0]]
\* The records of rows come after the ones the columns have; a row gives no more than the first row and the columns allow.
TaRowsToCols(cols, rows) ==
  LET minlen == TaMin(Len(rows[1]), Len(cols))
  IN [y \in DOMAIN cols |-> IF y > minlen THEN cols[y] ELSE [cols[y] EXCEPT !.recs = @ \o [x \in DOMAIN rows |-> rows[x][y]]]]

\* Mutant of TaTransposeToColumns: the first row, which gave the width, is not pushed.
TaTransposeToColumnsTail(ds) ==
  LET cols == IF ds.cols # <<>> THEN ds.cols ELSE [y \in DOMAIN ds.rows[1] |-> TaUnnamed]
  IN IF TaNRow(ds) = 0 THEN ds
     ELSE IF ds.mode # "rows" /\ cols[1].recs # <<>> THEN ds
     ELSE IF ds.mode = "rows" THEN TaDataset("columns", IF Len(ds.rows) = 1 THEN TaResetCols(cols) ELSE TaRowsToCols(TaResetCols(cols), Tail(ds.rows)), <<>>)
     ELSE TaDataset(ds.mode, TaRowsToCols(cols, ds.rows), ds.rows)
\* A rows dataset becomes a columns one; in the other modes only empty columns are filled.
TaTransposeToColumns(ds) ==
  LET cols == IF ds.cols # <<>> THEN ds.cols ELSE [y \in DOMAIN ds.rows[1] |-> TaUnnamed]
  IN IF TaNRow(ds) = 0 THEN ds
     ELSE IF ds.mode # "rows" /\ cols[1].recs # <<>> THEN ds
     ELSE IF ds.mode = "rows" THEN TaDataset("columns", TaRowsToCols(TaResetCols(cols), ds.rows), <<>>)
     ELSE TaDataset(ds.mode, TaRowsToCols(cols, ds.rows), ds.rows)

TaTransposeToRows(ds) ==
  IF ds.mode = "rows" THEN ds
  ELSE IF ds.mode = "columns" THEN TaDataset("rows", TaResetCols(ds.cols), TaColsToRows(ds.cols))
  ELSE TaDataset(ds.mode, ds.cols, TaColsToRows(ds.cols))

\* The rows a dataset stands for.
TaTable(ds) == IF ds.mode = "columns" THEN TaColsToRows(ds.cols) ELSE ds.rows

-----------------------------------------------------------------------------
(* Rows and columns pushed.                                                *)
TaPushRowToColumns(cols, row) ==
  LET made == IF cols # <<>> THEN cols ELSE [y \in DOMAIN row |-> TaUnnamed]
  IN [y \in DOMAIN made |-> IF y <= Len(row) THEN [made[y] EXCEPT !.recs = Append(@, row[y])] ELSE made[y]]
\* Mutant of TaPushRow: the matrix keeps the row in its rows only.
TaPushRowOnly(ds, row) ==
  IF ds.mode = "columns" THEN [ds EXCEPT !.cols = TaPushRowToColumns(@, row)] ELSE [ds EXCEPT !.rows = Append(@, row)]
TaPushRow(ds, row) ==
  CASE ds.mode = "rows" -> [ds EXCEPT !.rows = Append(@, row)]
    [] ds.mode = "columns" -> [ds EXCEPT !.cols = TaPushRowToColumns(@, row)]
    [] ds.mode = "matrix" -> [ds EXCEPT !.rows = Append(@, row), !.cols = TaPushRowToColumns(@, row)]
TaPushRows(ds, rows) ==
  LET pushed[n \in 0..Len(rows)] == IF n = 0 THEN ds ELSE TaPushRow(pushed[n - 1], rows[n])
  IN pushed[Len(rows)]

\* PushColumnToRows: a dataset without rows gets rows of one record.
TaPushColumnToRows(rows, recs) ==
  LET made == IF rows = <<>> THEN [x \in DOMAIN recs |-> <<>>] ELSE rows
  IN [x \in DOMAIN made |-> IF x <= Len(recs) THEN Append(made[x], recs[x]) ELSE made[x]]
\* FillRowsWithColumn: from the first row without the record on, every row is set; the rest of the records make new rows.
TaFillRows(ds, c, recs) ==
  LET unset == {x \in DOMAIN ds.rows : Len(ds.rows[x]) < c \/ ds.rows[x][c] = 0}
      from == Min(unset \cup {Len(ds.rows) + 1})
      used == Len(ds.rows) - from + 1
  IN [x \in 1..Len(ds.rows) + Len(recs) - used |->
        IF x < from THEN ds.rows[x]
        ELSE IF x <= Len(ds.rows) THEN [ds.rows[x] EXCEPT ![c] = recs[x - from + 1]]
        ELSE [z \in 1..TaNCol(ds) |-> IF z = c THEN recs[x - from + 1] ELSE 0]]
TaPushColumn(ds, col) ==
  LET same == {y \in DOMAIN ds.cols : ds.cols[y].name = col.name}
      c == Min(same)
  IN IF same # {} THEN IF ds.mode = "rows" THEN [ds EXCEPT !.rows = TaFillRows(ds, c, col.recs)]
                       ELSE [ds EXCEPT !.cols[c].recs = @ \o col.recs]
     ELSE [ds EXCEPT !.cols = Append(@, IF ds.mode = "rows" THEN [col EXCEPT !.recs = <<>>] ELSE col),
                     !.rows = IF ds.mode = "columns" THEN @ ELSE TaPushColumnToRows(@, col.recs)]

\* Clone: the columns without their records; then in rows mode columns of one name are one.
TaClone(ds) == FoldLeft(TaPushColumn, TaNew(ds.mode, FALSE), TaResetCols(ds.cols))

\* Columns.DeleteRecordAt and DeleteRow; a columns dataset has no row to delete.
TaDeleteRow(ds, i) ==
  IF i > Len(ds.rows) \/ ds.mode = "columns" THEN ds
  ELSE TaDataset(ds.mode,
                 IF ds.mode = "rows" THEN ds.cols
                 ELSE [y \in DOMAIN ds.cols |-> IF i <= Len(ds.cols[y].recs) THEN [ds.cols[y] EXCEPT !.recs = RemoveAt(@, i)]
                                                ELSE ds.cols[y]],
                 RemoveAt(ds.rows, i))

-----------------------------------------------------------------------------
(* The operations of the program.                                          *)
TaKeep == UNCHANGED <<taParts, taWas, taClass, taMinority>>
TaOp(call) == taOps < TaMaxOps /\ taOps' = taOps + 1 /\ taCall' = call
TaSmall(ds) == Len(TaTable(ds)) <= TaMaxRows /\ Len(ds.rows) <= TaMaxRows

\* Rows are pushed to a dataset of their width.
TaFits(row) == /\ TaTable(taDs) # <<>> => Len(TaTable(taDs)[1]) = Len(row)
               /\ taDs.cols # <<>> => Len(taDs.cols) = Len(row)

TaCreate == \E mode \in {"rows", "columns", "matrix"}, typed \in BOOLEAN :
  TaOp("clear") /\ taOps = 0 /\ taDs' = TaNew(mode, typed) /\ taTorn' = FALSE /\ TaKeep
TaReset == TaOp("clear") /\ taDs' = [taDs EXCEPT !.rows = <<>>, !.cols = TaResetCols(@)] /\ taTorn' = FALSE /\ TaKeep
TaPushRowOp == \E row \in TaRows :
  TaOp("append") /\ TaFits(row) /\ taDs' = TaPushRow(taDs, row) /\ TaSmall(taDs') /\ UNCHANGED taTorn /\ TaKeep
\* A column as long as the dataset.  Under a name it has, rows are set from the first one
\* without the record on, also the ones that have it, and then get new rows, while columns grow unevenly and the
\* rows of a matrix do not change; rows pushed to a dataset without columns are wider than its columns from then on.
TaPushColumnOp == \E name \in {"new"} \cup Range(TaNames), v \in {r[1] : r \in TaRows} :
  LET col == TaColumn(name, "number", [x \in DOMAIN TaTable(taDs) |-> v])
  IN /\ TaOp("column") /\ TaTable(taDs) # <<>> /\ taDs' = TaPushColumn(taDs, col) /\ TaSmall(taDs')
     /\ taTorn' = \/ taTorn
                  \/ taDs.mode # "rows" /\ \E y \in DOMAIN taDs.cols : taDs.cols[y].name = name
                  \/ Len(taDs.cols) # Len(TaTable(taDs)[1])
                  \/ taDs.mode = "rows" /\ \E x \in DOMAIN taDs.rows : \E y \in DOMAIN taDs.rows[x] : taDs.rows[x][y] \notin {0, taDs'.rows[x][y]}
     /\ TaKeep
TaDeleteRowOp == \E i \in 1..TaMaxRows : TaOp("delete") /\ taDs' = TaDeleteRow(taDs, i) /\ UNCHANGED taTorn /\ TaKeep
\* MergeRows of a dataset in any mode, and MergeColumns of one with a new column.
TaMergeRows == \E mode \in {"rows", "columns", "matrix"}, row \in TaRows :
  LET other == TaPushRow(TaNew(mode, TRUE), row)
      rows == (IF mode = "columns" THEN TaTransposeToRows(other) ELSE other).rows
  IN TaOp("append") /\ TaFits(row) /\ taDs' = TaPushRows(taDs, rows) /\ TaSmall(taDs') /\ UNCHANGED taTorn /\ TaKeep
\* GetColumn, GetColumnByName, GetDataAsColumns, and the transposition itself; GetDataAsRows.
TaAsColumns == TaOp("look") /\ taDs.mode = "rows" /\ taDs' = TaTransposeToColumns(taDs) /\ UNCHANGED taTorn /\ TaKeep
TaAsRows == TaOp("look") /\ taDs.mode = "columns" /\ taDs' = TaTransposeToRows(taDs) /\ UNCHANGED taTorn /\ TaKeep
TaTranspose == TaOp("look") /\ taDs.mode = "matrix" /\ taDs' = TaTransposeToRows(TaTransposeToColumns(taDs)) /\ UNCHANGED taTorn /\ TaKeep
\* SortColumnsByIndex: a rows dataset is left in columns, a matrix keeps its rows unsorted.
TaSortColumns == \E perm \in {p \in [1..TaNRow(taDs) -> 1..TaNRow(taDs)] : IsInjective(p)} :
  LET ds == TaTransposeToColumns(taDs)
      sorted(recs) == [i \in DOMAIN recs |-> recs[perm[i]]]
  IN /\ TaOp("permute") /\ TaNRow(taDs) > 1 /\ ds.cols # <<>> /\ \A y \in DOMAIN ds.cols : Len(ds.cols[y].recs) = TaNRow(taDs)
     /\ taDs' = TaDataset(ds.mode, [y \in DOMAIN ds.cols |-> [ds.cols[y] EXCEPT !.recs = sorted(@)]], ds.rows)
     /\ taTorn' = (taTorn \/ ds.mode = "matrix") /\ TaKeep

\* Splits work on rows, and go back to columns with their parts when the dataset came in columns.
TaBack(orgmode, ds) == IF orgmode = "rows" THEN ds ELSE TaTransposeToColumns(ds)
TaNamed(ds) == \A x, y \in DOMAIN ds.cols : x # y => ds.cols[x].name # ds.cols[y].name
TaReturn(ds, parts) == /\ taParts' = parts /\ taWas' = [rows |-> TaTable(taDs), mode |-> taDs.mode, named |-> TaNamed(taDs) /\ ~taTorn]
                       /\ taDs' = ds /\ UNCHANGED <<taTorn, taClass, taMinority>>
\* The rows a split, a selection or a pick goes over.
TaByRows == IF taDs.mode = "columns" THEN TaTransposeToRows(taDs) ELSE taDs

\* SplitRowsByNumeric, SplitRowsByCategorical, SplitRowsByValue.
\* Mutant of TaSplitParts: a row that equals the value goes to neither part.
TaSplitPartsStrict(ds, c, v) ==
  IF taDs.cols[c].type = "number" THEN <<SelectSeq(ds.rows, LAMBDA r : r[c] < v), SelectSeq(ds.rows, LAMBDA r : r[c] > v)>>
  ELSE <<SelectSeq(ds.rows, LAMBDA r : r[c] = v), SelectSeq(ds.rows, LAMBDA r : r[c] # v)>>
TaSplitParts(ds, c, v) ==
  IF taDs.cols[c].type = "number" THEN <<SelectSeq(ds.rows, LAMBDA r : r[c] < v), SelectSeq(ds.rows, LAMBDA r : r[c] >= v)>>
  ELSE <<SelectSeq(ds.rows, LAMBDA r : r[c] = v), SelectSeq(ds.rows, LAMBDA r : r[c] # v)>>
TaSplitRows == \E c \in DOMAIN taDs.cols, v \in UNION {Range(r) : r \in TaRows} :
  LET ds == TaByRows
      parts == TaSplitParts(ds, c, v)
      made == [k \in 1..2 |-> TaPushRows(TaClone(ds), parts[k])]
  IN /\ TaOp("look") /\ TaNRow(taDs) > 0
     /\ TaReturn(TaBack(taDs.mode, ds), [k \in 1..2 |-> TaBack(taDs.mode, made[k])])
\* A column pushed twice makes rows narrower than the others; the calls that would index past their end panic and are not made.
TaWide(ds) == \A x \in DOMAIN ds.rows : Len(ds.rows[x]) >= Max({Len(TaTypes), Len(ds.cols)} \cup {Len(ds.rows[1])})
\* SelectRowsWhere: a new dataset, which knows no columns.
TaSelectRows == \E c \in DOMAIN TaTypes, v \in UNION {Range(r) : r \in TaRows} :
  LET ds == TaByRows
      selected == [TaNew(ds.mode, FALSE) EXCEPT !.rows = SelectSeq(ds.rows, LAMBDA r : r[c] = v)]
  IN /\ TaOp("look") /\ TaNRow(taDs) > 0 /\ TaWide(ds)
     /\ TaReturn(TaBack(taDs.mode, ds), <<TaBack(taDs.mode, selected)>>)
\* RandomPickRows: n rows, which are picked again when duplicate; SetRows on clones.
TaPicks(n, duplicate) == {idx \in [1..n -> 1..TaNRow(taDs)] : duplicate \/ IsInjective(idx)}
TaPickRows == \E n \in 1..TaMaxRows, duplicate \in BOOLEAN : \E idx \in TaPicks(n, duplicate) :
  LET ds == TaByRows
      rest == SelectSeq([i \in DOMAIN ds.rows |-> i], LAMBDA i : i \notin Range(idx))
      picked == TaBack(taDs.mode, [TaClone(ds) EXCEPT !.rows = [i \in 1..n |-> ds.rows[idx[i]]]])
      unpicked == TaBack(taDs.mode, [TaClone(ds) EXCEPT !.rows = [i \in DOMAIN rest |-> ds.rows[rest[i]]]])
  IN /\ TaOp("look") /\ n <= TaNRow(taDs) /\ TaWide(ds)
     /\ TaReturn(TaBack(taDs.mode, ds), <<picked, unpicked>>)

-----------------------------------------------------------------------------
(* The claset: a dataset whose last column is the class.                   *)
TaClassSpace == {r[Len(TaTypes)] : r \in TaRows}
\* CountValueSpaces goes through the class column, so a rows dataset is left in columns.
TaRecounted(ds) ==
  LET class == IF ds.cols = <<>> THEN <<>> ELSE ds.cols[Len(TaTypes)].recs
      count(v) == Len(SelectSeq(class, LAMBDA r : r = v))
      space == SetToSortSeq(TaClassSpace, <)
      counts == [i \in DOMAIN space |-> count(space[i])]
      first(Best(_)) == Min({i \in DOMAIN space : Best(counts[i])})
  IN [counted |-> TRUE, counts |-> counts,
      major |-> space[first(LAMBDA n : \A j \in DOMAIN counts : counts[j] <= n)],
      minor |-> space[first(LAMBDA n : \A j \in DOMAIN counts : counts[j] >= n)]]
TaRecount ==
  LET ds == IF taDs.mode = "rows" THEN TaTransposeToColumns(taDs) ELSE taDs
  IN /\ TaOp("look") /\ Len(taDs.cols) >= Len(TaTypes) /\ taDs' = ds /\ taClass' = TaRecounted(ds) /\ UNCHANGED <<taParts, taWas, taTorn, taMinority>>
TaOfClass(rows, class) == SelectSeq(rows, LAMBDA r : r[Len(TaTypes)] = class)
\* GetMinorityRows: the classes are counted once; the rows are the ones left after that.
TaMinorityRows ==
  LET ds == IF taClass.counted \/ taDs.mode # "rows" THEN taDs ELSE TaTransposeToColumns(taDs)
      class == IF taClass.counted THEN taClass ELSE TaRecounted(ds)
  IN /\ TaOp("look") /\ Len(taDs.cols) >= Len(TaTypes) /\ TaNRow(taDs) > 0 /\ TaWide(TaByRows) /\ taDs' = ds /\ taClass' = class
     /\ taMinority' = [due |-> TaOfClass(TaTable(taDs), class.minor), got |-> TaOfClass(ds.rows, class.minor)]
     /\ UNCHANGED <<taParts, taWas, taTorn>>

TaNext == \/ TaCreate \/ TaReset \/ TaPushRowOp \/ TaPushColumnOp \/ TaDeleteRowOp \/ TaMergeRows
          \/ TaAsColumns \/ TaAsRows \/ TaTranspose \/ TaSortColumns \/ TaSplitRows \/ TaSelectRows \/ TaPickRows \/ TaRecount \/ TaMinorityRows
TaSpec == TaInit /\ [][TaNext]_taVars

-----------------------------------------------------------------------------
TaTypeOK == /\ taDs.mode \in {"rows", "columns", "matrix"} /\ taOps \in 0..TaMaxOps /\ taTorn \in BOOLEAN
            /\ \A i \in DOMAIN taParts : taParts[i].mode \in {"rows", "columns", "matrix"}

(* The two forms of a matrix hold the same records, through any sequence   *)
(* of pushes, deletions and transpositions; only sorting the columns, or   *)
(* pushing a column under a name it has, changes one form alone.           *)
TaMatrixAgrees == taDs.mode = "matrix" /\ ~taTorn => taDs.rows = TaColsToRows(taDs.cols)

(* A split or a pick of a dataset whose columns have names of their own    *)
(* takes every row into one of its parts, makes none up, and returns the   *)
(* parts in the mode of the dataset when they have rows.                   *)
TaPartition == taParts # <<>> /\ taWas.rows # <<>> /\ taWas.named =>
  /\ UNION {Range(TaTable(taParts[k])) : k \in DOMAIN taParts} \subseteq Range(taWas.rows)
  /\ Len(taParts) = 2 => Range(taWas.rows) \subseteq Range(TaTable(taParts[1])) \cup Range(TaTable(taParts[2]))
  /\ \A k \in DOMAIN taParts : TaNRow(taParts[k]) > 0 => taParts[k].mode = taWas.mode

(* Whatever the mode, and whatever transpositions happen on the way, a     *)
(* dataset is a table of rows, until a call leaves its forms disagreeing.  *)
TaTb == INSTANCE Table WITH table <- IF taTorn THEN <<>> ELSE TaTable(taDs), call <- IF taTorn THEN "clear" ELSE taCall
TaIsTable == TaTb!TbSpec

\* GetMinorityRows: "return rows where their class is minority in dataset, or nil if dataset is empty".
TaMinorityFound == taMinority.got = taMinority.due
=============================================================================
