----------------------- MODULE IncrementalWriteProofs -----------------------
(***************************************************************************)
(* Proofs about IncrementalWrite for any keys, columns, configurations and  *)
(* number of runs.  The inductive invariant says which write a strategy can *)
(* be at, which columns its data has by then, and that the rows an insert   *)
(* would double are gone when it comes.                                     *)
(***************************************************************************)
EXTENDS IncrementalWrite, TLAPS

(***************************************************************************)
(* sync_all_columns with a removed column adds all rows of the increment to *)
(* the existing ones, whatever the strategy: MCIncrementalSync shows that.  *)
(***************************************************************************)
KeysKept ==
  \A c \in Configs : c.strategy # "append" => c.on_schema_change # "sync_all_columns"

\* A merge into a plain file keeps the old value where the new one is NULL.
FilesWithoutNulls ==
  \A c \in Configs : c.format = "file" /\ c.strategy = "merge" => ~c.null_cells

StageInv ==
  /\ stage \in {"evolve", "merge"} => config.strategy = "merge"
  /\ stage = "delete" => config.strategy = "delete+insert"
  /\ stage = "append" => config.strategy # "merge"
  /\ stage = "evolve" =>
       config.on_schema_change \in {"append_new_columns", "sync_all_columns"}
  /\ stage # "idle" => runs > 0

\* The columns of the data a run still has to write.
ColumnsInv ==
  stage # "idle" =>
    /\ config.on_schema_change = "ignore" => batch.columns \subseteq table.columns
    /\ config.on_schema_change = "fail" => batch.columns = table.columns
    /\ config.on_schema_change = "sync_all_columns" => table.columns \subseteq batch.columns
    /\ stage = "merge" /\ config.format = "iceberg" => batch.columns \subseteq table.columns

\* What the first write of delete+insert leaves for the second.
DeletedInv ==
  stage = "append" /\ config.strategy = "delete+insert" =>
    \A r \in table.rows : ~Matched(r, batch)

IInv ==
  /\ TypeOK /\ StageInv /\ ColumnsInv /\ DeletedInv
  /\ KeysKept => OneRowPerKey

-----------------------------------------------------------------------------
(***************************************************************************)
(* The data of a run: its columns, and for each key the cells in them.      *)
(***************************************************************************)
CellsIn(columns, n) ==
  {f \in [Columns -> {NULL, n}] :
     \A c \in Columns : \/ c \notin columns /\ f[c] = NULL
                        \/ c \in columns /\ (config.null_cells \/ f[c] = n)}

IsData(d, n) ==
  /\ d.columns \subseteq Columns /\ DOMAIN d.cells \subseteq Keys \cup {NullKey}
  /\ \A k \in DOMAIN d.cells : d.cells[k] \in CellsIn(d.columns, n)

LEMMA DataFacts ==
  ASSUME NEW n, NEW d
  PROVE  d \in Data(n) <=>
           \E columns \in (SUBSET Columns) \ {{}}, keys \in SUBSET (Keys \cup {NullKey}) :
             \E cells \in [keys -> CellsIn(columns, n)] :
               d = [columns |-> columns, cells |-> cells]
<1>1. Data(n) =
        UNION {[columns : {columns},
                cells : UNION {[keys -> CellsIn(columns, n)] :
                               keys \in SUBSET (Keys \cup {NullKey})}] :
               columns \in (SUBSET Columns) \ {{}}}
  BY DEF Data, CellsIn
<1>2. ASSUME NEW columns
      PROVE  d \in [columns : {columns},
                    cells : UNION {[keys -> CellsIn(columns, n)] :
                                   keys \in SUBSET (Keys \cup {NullKey})}]
             <=> \E keys \in SUBSET (Keys \cup {NullKey}) :
                   \E cells \in [keys -> CellsIn(columns, n)] :
                     d = [columns |-> columns, cells |-> cells]
  <2> DEFINE All == UNION {[keys -> CellsIn(columns, n)] :
                           keys \in SUBSET (Keys \cup {NullKey})}
  <2>1. d \in [columns : {columns}, cells : All]
        <=> \E cells \in All : d = [columns |-> columns, cells |-> cells]
    <3> HIDE DEF All
    <3> QED OBVIOUS
  <2>2. \A cells : cells \in All <=>
          \E keys \in SUBSET (Keys \cup {NullKey}) : cells \in [keys -> CellsIn(columns, n)]
    OBVIOUS
  <2> QED
    BY <2>1, <2>2
<1> QED
  BY <1>1, <1>2

LEMMA DataIsData ==
  ASSUME NEW n, NEW d \in Data(n)
  PROVE  IsData(d, n) /\ d.columns # {}
<1>1. PICK columns \in (SUBSET Columns) \ {{}}, keys \in SUBSET (Keys \cup {NullKey}) :
        \E cells \in [keys -> CellsIn(columns, n)] :
          d = [columns |-> columns, cells |-> cells]
  BY DataFacts
<1>2. PICK cells \in [keys -> CellsIn(columns, n)] :
        d = [columns |-> columns, cells |-> cells]
  BY <1>1
<1> QED
  BY <1>2 DEF IsData

\* Selecting columns of data leaves data, without columns if none was selected.
LEMMA SelectedCells ==
  ASSUME NEW n, NEW columns, NEW f \in CellsIn(columns, n), NEW selected \in SUBSET columns
  PROVE  Select(f, selected) \in CellsIn(selected, n)
  BY DEF Select, CellsIn

LEMMA SelectedIsData ==
  ASSUME NEW n, NEW d, IsData(d, n), NEW selected \in SUBSET d.columns
  PROVE  /\ IsData(SelectData(d, selected), n)
         /\ SelectData(d, selected).columns = selected
         /\ DOMAIN SelectData(d, selected).cells = DOMAIN d.cells
         /\ \A k \in DOMAIN d.cells :
              SelectData(d, selected).cells[k] = Select(d.cells[k], selected)
<1>1. \A k \in DOMAIN d.cells : Select(d.cells[k], selected) \in CellsIn(selected, n)
  BY SelectedCells DEF IsData
<1> QED
  BY <1>1 DEF SelectData, IsData

LEMMA SelectedData ==
  ASSUME NEW n, NEW d \in Data(n), NEW selected \in SUBSET d.columns
  PROVE  SelectData(d, selected) \in Data(n) \cup {SelectData(e, {}) : e \in Data(n)}
<1>1. IsData(d, n)
  BY DataIsData
<1>2. CASE selected = {}
  BY <1>2
<1>3. CASE selected # {}
  <2>1. selected \in (SUBSET Columns) \ {{}} /\ DOMAIN d.cells \in SUBSET (Keys \cup {NullKey})
    BY <1>1, <1>3 DEF IsData
  <2>2. [k \in DOMAIN d.cells |-> Select(d.cells[k], selected)]
          \in [DOMAIN d.cells -> CellsIn(selected, n)]
    BY <1>1, SelectedCells DEF IsData
  <2>3. SelectData(d, selected) \in Data(n)
    BY <2>1, <2>2, DataFacts DEF SelectData
  <2> QED
    BY <2>3
<1> QED
  BY <1>2, <1>3

\* The data a run has under way.
LEMMA BatchFacts ==
  ASSUME TypeOK, stage # "idle"
  PROVE  IsData(batch, runs)
<1>1. CASE batch \in Data(runs)
  BY <1>1, DataIsData
<1>2. ASSUME NEW d \in Data(runs), batch = SelectData(d, {})
      PROVE  IsData(batch, runs)
  BY <1>2, DataIsData, SelectedIsData
<1> QED
  BY <1>1, <1>2 DEF TypeOK

\* The cells of data, by key and column.
LEMMA CellFacts ==
  ASSUME NEW n \in Nat, NEW d, IsData(d, n), NEW k \in DOMAIN d.cells
  PROVE  /\ k \in Keys \cup {NullKey} /\ d.cells[k] \in [Columns -> {NULL, n}]
         /\ d.cells[k] = Select(d.cells[k], d.columns)
         /\ ~config.null_cells => \A c \in d.columns : d.cells[k][c] = n
<1>1. d.cells[k] \in CellsIn(d.columns, n)
  BY DEF IsData
<1>2. d.cells[k] = Select(d.cells[k], d.columns)
  BY <1>1 DEF CellsIn, Select
<1> QED
  BY <1>1, <1>2 DEF IsData, CellsIn

-----------------------------------------------------------------------------
(***************************************************************************)
(* Rows: a row of a table has no cells in columns the table has not.        *)
(***************************************************************************)
Fit(r, columns) == r \in Row /\ \A c \in Columns \ columns : r.cells[c] = NULL

LEMMA RowFields ==
  ASSUME NEW r \in Row
  PROVE  /\ r.key \in Keys \cup {NullKey} /\ r.cells \in Cells /\ r.born \in 1 .. MaxRuns
         /\ \A f \in Cells : LET s == [r EXCEPT !.cells = f] IN
              s \in Row /\ s.key = r.key /\ s.born = r.born /\ s.cells = f
  BY DEF Row

LEMMA SelectFacts ==
  ASSUME NEW f \in Cells, NEW columns
  PROVE  /\ Select(f, columns) \in Cells
         /\ \A c \in Columns : Select(f, columns)[c] = IF c \in columns THEN f[c] ELSE NULL
         /\ f = Select(f, columns) <=> \A c \in Columns \ columns : f[c] = NULL
<1>1. NULL \in 0 .. MaxRuns
  BY MaxRunsIsPositive DEF NULL
<1>2. Select(f, columns) \in Cells
  BY <1>1 DEF Select, Cells
<1>3. \A c \in Columns : Select(f, columns)[c] = IF c \in columns THEN f[c] ELSE NULL
  BY DEF Select
<1>4. (\A c \in Columns \ columns : f[c] = NULL) => f = Select(f, columns)
  BY DEF Select, Cells
<1> QED
  BY <1>2, <1>3, <1>4

\* The row that a run inserts for a key of its data.
RowFor(d, k, n) == [key |-> k, cells |-> d.cells[k], born |-> n]

LEMMA RowForFacts ==
  ASSUME NEW n \in 1 .. MaxRuns, NEW d, IsData(d, n), NEW k \in DOMAIN d.cells
  PROVE  /\ Fit(RowFor(d, k, n), d.columns) /\ RowFor(d, k, n).key = k
         /\ RowFor(d, k, n).cells = d.cells[k] /\ RowFor(d, k, n).born = n
<1>1. n \in Nat /\ NULL \in 0 .. MaxRuns /\ n \in 0 .. MaxRuns
  BY MaxRunsIsPositive DEF NULL
<1>2. k \in Keys \cup {NullKey} /\ d.cells[k] \in Cells /\ d.cells[k] = Select(d.cells[k], d.columns)
  BY <1>1, CellFacts DEF Cells
<1>3. RowFor(d, k, n) \in Row
  BY <1>2 DEF RowFor, Row
<1>4. RowFor(d, k, n).key = k /\ RowFor(d, k, n).cells = d.cells[k] /\ RowFor(d, k, n).born = n
  BY DEF RowFor
<1> QED
  BY <1>2, <1>3, <1>4, SelectFacts DEF Fit

LEMMA TableFacts ==
  ASSUME TypeOK
  PROVE  /\ \A r \in table.rows : Fit(r, table.columns)
         /\ table = Table(table.columns, table.rows)
         /\ runs \in Nat /\ table.columns \subseteq Columns
         /\ config.format \in {"delta", "file", "iceberg"}
         /\ config.strategy \in {"append", "merge", "delete+insert"}
         /\ config.on_schema_change \in
              {"ignore", "fail", "append_new_columns", "sync_all_columns"}
         /\ config.null_cells \in BOOLEAN
<1>1. \A r \in table.rows : Fit(r, table.columns)
  BY RowFields, SelectFacts DEF TypeOK, Fit
<1>2. config \in AllConfigs /\ runs \in Nat
  BY ConfigsAreKnown, MaxRunsIsPositive DEF TypeOK
<1>3. table = Table(table.columns, table.rows)
  BY DEF TypeOK, Table
<1> QED
  BY <1>1, <1>2, <1>3 DEF AllConfigs, TypeOK

LEMMA NewRowsFacts ==
  ASSUME TypeOK, stage # "idle", runs > 0
  PROVE  /\ NewRows(batch) = {RowFor(batch, k, runs) : k \in DOMAIN batch.cells}
         /\ \A r \in NewRows(batch) :
              /\ Fit(r, batch.columns) /\ r.born = runs
              /\ r.key \in DOMAIN batch.cells /\ r.cells = batch.cells[r.key]
         /\ \A r, s \in NewRows(batch) : r.key = s.key => r = s
         /\ runs \in 1 .. MaxRuns
<1>1. runs \in 1 .. MaxRuns
  BY MaxRunsIsPositive DEF TypeOK
<1>2. NewRows(batch) = {RowFor(batch, k, runs) : k \in DOMAIN batch.cells}
  BY DEF NewRows, RowFor
<1> QED
  BY <1>1, <1>2, BatchFacts, RowForFacts

(***************************************************************************)
(* A merge of any format keeps what is not matched, inserts what matches    *)
(* nothing and updates the matched rows; an Iceberg merge of all columns    *)
(* puts the new rows in their place.                                        *)
(***************************************************************************)
MergedCells(r) ==
  IF config.format = "file" THEN FileUpdated(r, batch, table.columns)
  ELSE [c \in Columns |-> IF c \in batch.columns \ ExceptCols(batch)
                          THEN batch.cells[r.key][c] ELSE r.cells[c]]

UpdatedRow(r) == [r EXCEPT !.cells = MergedCells(r)]

LEMMA MergedShape ==
  ASSUME IInv, stage = "merge", ~MergeRaises(table, batch)
  PROVE  /\ Merged(table, batch).columns = table.columns \cup batch.columns
         /\ \/ Merged(table, batch).rows =
                 Unmatched(table, batch) \cup Inserted(table, batch)
                   \cup {UpdatedRow(r) : r \in MatchedRows(table, batch)}
            \/ Merged(table, batch).rows = Unmatched(table, batch) \cup NewRows(batch)
<1>1. /\ config.format = "iceberg" => batch.columns \subseteq table.columns
      /\ config.format \in {"delta", "file", "iceberg"}
  BY TableFacts DEF IInv, ColumnsInv
<1>2. CASE config.format = "delta"
  BY <1>2 DEF Merged, DeltaMerge, Table, UpdatedRow, MergedCells
<1>3. CASE config.format = "file"
  BY <1>3 DEF Merged, FileMerge, Table, UpdatedRow, MergedCells
<1>4. CASE config.format = "iceberg" /\ Empty(batch)
  <2>1. NewRows(batch) = {} /\ Unmatched(table, batch) = table.rows
    BY <1>4 DEF Empty, NewRows, Unmatched, Matched
  <2> QED
    BY <1>1, <1>4, <2>1 DEF Merged
<1>5. CASE config.format = "iceberg" /\ ~Empty(batch) /\ ~MergesPartially
  BY <1>1, <1>5 DEF Merged, IcebergMerge, Table
<1>6. CASE config.format = "iceberg" /\ ~Empty(batch) /\ MergesPartially
  BY <1>1, <1>6 DEF Merged, IcebergMerge, Table, UpdatedRow, MergedCells
<1> QED
  BY <1>1, <1>2, <1>3, <1>4, <1>5, <1>6

LEMMA UpdatedRowFacts ==
  ASSUME IInv, stage = "merge", NEW r \in MatchedRows(table, batch)
  PROVE  /\ Fit(UpdatedRow(r), table.columns \cup batch.columns)
         /\ UpdatedRow(r).key = r.key /\ UpdatedRow(r).born = r.born
         /\ UpdatedRow(r).cells = MergedCells(r)
         /\ r.key # NullKey /\ r.key \in DOMAIN batch.cells /\ r \in table.rows
<1>1. /\ Fit(r, table.columns) /\ r \in table.rows /\ IsData(batch, runs) /\ runs \in Nat
      /\ r.key # NullKey /\ r.key \in DOMAIN batch.cells
  BY TableFacts, BatchFacts DEF IInv, MatchedRows, Matched
<1>2. batch.cells[r.key] \in Cells
  <2>1. runs \in 0 .. MaxRuns /\ NULL \in 0 .. MaxRuns
    BY MaxRunsIsPositive DEF IInv, TypeOK, NULL
  <2> QED
    BY <1>1, <2>1, CellFacts DEF Cells
<1>3. r \in Row /\ r.cells \in Cells
  BY <1>1, RowFields DEF Fit
<1>4. MergedCells(r) \in Cells
  BY <1>2, <1>3 DEF MergedCells, FileUpdated, Cells
<1>5. \A c \in Columns \ (table.columns \cup batch.columns) : MergedCells(r)[c] = r.cells[c]
  BY DEF MergedCells, FileUpdated
<1>6. /\ UpdatedRow(r) \in Row /\ UpdatedRow(r).key = r.key /\ UpdatedRow(r).born = r.born
      /\ UpdatedRow(r).cells = MergedCells(r)
  BY <1>3, <1>4, RowFields DEF UpdatedRow
<1> QED
  BY <1>1, <1>5, <1>6 DEF Fit

-----------------------------------------------------------------------------
(***************************************************************************)
(* One lemma per step of a run.                                             *)
(***************************************************************************)
\* The table a step leaves, and the run it ends.
TableFits(t) ==
  /\ t = Table(t.columns, t.rows) /\ t.columns \subseteq Columns
  /\ \A r \in t.rows : Fit(r, t.columns)

LEMMA FitsTypes ==
  ASSUME NEW t, TableFits(t)
  PROVE  /\ t \in [columns : SUBSET Columns, rows : SUBSET Row]
         /\ \A r \in t.rows : r.cells = Select(r.cells, t.columns)
<1>1. t.rows \subseteq Row /\ \A r \in t.rows : r.cells = Select(r.cells, t.columns)
  BY RowFields, SelectFacts DEF TableFits, Fit
<1> QED
  BY <1>1 DEF TableFits, Table

LEMMA RunEnded ==
  ASSUME IInv, NEW how \in {"none", "ok", "replaced", "failed"}, Finish(how),
         UNCHANGED config, runs' \in 0 .. MaxRuns, TableFits(table'),
         KeysKept => OneRowPerKey'
  PROVE  IInv'
<1>1. TypeOK'
  BY FitsTypes DEF IInv, TypeOK, Finish
<1> QED
  BY <1>1 DEF IInv, Finish, StageInv, ColumnsInv, DeletedInv

LEMMA TableStays ==
  ASSUME IInv, UNCHANGED <<config, table>>
  PROVE  TableFits(table') /\ (KeysKept => OneRowPerKey') /\ (OneRowPerKey => OneRowPerKey')
  BY TableFacts DEF IInv, TableFits, OneRowPerKey, Table

\* What data there may be depends on the configuration, which stays.
LEMMA DataStays ==
  ASSUME UNCHANGED config, NEW n
  PROVE  Data(n)' = Data(n)
  BY DEF Data

\* The next run computes its data.
LEMMA NextRun ==
  ASSUME IInv, runs < MaxRuns, NEW d \in Data(runs + 1)
  PROVE  /\ runs + 1 \in 1 .. MaxRuns /\ runs + 1 \in 0 .. MaxRuns
         /\ IsData(d, runs + 1) /\ d.columns \subseteq Columns
         /\ \A k \in DOMAIN d.cells : /\ Fit(RowFor(d, k, runs + 1), d.columns)
                                      /\ RowFor(d, k, runs + 1).key = k
<1>1. runs + 1 \in 1 .. MaxRuns /\ runs + 1 \in 0 .. MaxRuns
  BY MaxRunsIsPositive DEF IInv, TypeOK
<1> QED
  BY <1>1, DataIsData, RowForFacts DEF IsData

LEMMA FullRunStep ==
  ASSUME IInv, NEW d \in Data(runs + 1), FullRun(d)
  PROVE  IInv'
<1> USE DEF FullRun
<1>1. table' = Table(d.columns, {RowFor(d, k, runs + 1) : k \in DOMAIN d.cells})
  BY DEF RowFor
<1>2. table'.columns = d.columns /\ table'.rows = {RowFor(d, k, runs + 1) : k \in DOMAIN d.cells}
  BY <1>1 DEF Table
<1>3. TableFits(table')
  BY <1>1, <1>2, NextRun DEF TableFits
<1>4. \A r, s \in table'.rows : r.key = s.key => r = s
  BY <1>2, NextRun
<1> QED
  BY <1>3, <1>4, NextRun, RunEnded DEF OneRowPerKey

LEMMA RejectRunStep ==
  ASSUME IInv, NEW d \in Data(runs + 1), RejectRun(d)
  PROVE  IInv'
  BY NextRun, TableStays, RunEnded DEF RejectRun

\* A rewrite for sync_all_columns doubles keys, but only where KeysKept rules it out.
LEMMA SyncRunStep ==
  ASSUME IInv, NEW d \in Data(runs + 1), SyncRun(d)
  PROVE  IInv'
<1> USE DEF SyncRun
<1>1. table' = Table(d.columns,
                     SyncedRows(d) \cup {RowFor(d, k, runs + 1) : k \in DOMAIN d.cells})
  BY DEF RowFor
<1>2. /\ table'.columns = d.columns
      /\ table'.rows = SyncedRows(d) \cup {RowFor(d, k, runs + 1) : k \in DOMAIN d.cells}
  BY <1>1 DEF Table
<1>3. ASSUME NEW r \in table.rows
      PROVE  Fit([r EXCEPT !.cells = Select(@, d.columns)], d.columns)
  <2>1. r \in Row /\ r.cells \in Cells
    BY TableFacts, RowFields DEF IInv, Fit
  <2>2. [r EXCEPT !.cells = Select(@, d.columns)] = [r EXCEPT !.cells = Select(r.cells, d.columns)]
    BY <2>1 DEF Row
  <2> QED
    BY <2>1, <2>2, RowFields, SelectFacts DEF Fit
<1>4. TableFits(table')
  BY <1>1, <1>2, <1>3, NextRun DEF TableFits, SyncedRows
<1>5. KeysKept => OneRowPerKey'
  BY DEF KeysKept, OneRowPerKey, Syncs, IInv, TypeOK
<1> QED
  BY <1>4, <1>5, NextRun, RunEnded

LEMMA IncrementalRunStep ==
  ASSUME IInv, NEW d \in Data(runs + 1), IncrementalRun(d)
  PROVE  IInv'
<1> USE DEF IncrementalRun
<1>1. /\ runs + 1 \in 1 .. MaxRuns /\ runs' = runs + 1 /\ UNCHANGED <<config, table>>
      /\ batch' = ToWrite(d) /\ stage' = FirstStage(d) /\ TypeOK /\ IsData(d, runs + 1)
  BY NextRun DEF IInv
<1>2. /\ batch' \in Data(runs') \cup {SelectData(e, {}) : e \in Data(runs')}
      /\ batch'.columns = IF config.on_schema_change = "ignore"
                          THEN d.columns \cap table.columns ELSE d.columns
  <2>1. d.columns \cap table.columns \in SUBSET d.columns
    OBVIOUS
  <2>2. CASE config.on_schema_change = "ignore"
    <3>1. batch' = SelectData(d, d.columns \cap table.columns)
      BY <1>1, <2>2 DEF ToWrite
    <3>2. batch' \in Data(runs + 1) \cup {SelectData(e, {}) : e \in Data(runs + 1)}
      BY <2>1, <3>1, SelectedData
    <3>3. batch'.columns = d.columns \cap table.columns
      BY <3>1 DEF SelectData
    <3>4. batch' \in Data(runs') \cup {SelectData(e, {}) : e \in Data(runs')}
      <4>1. runs' = runs + 1
        BY <1>1
      <4> QED
        BY <3>2, <4>1
    <3> QED
      BY <2>2, <3>3, <3>4
  <2>3. CASE config.on_schema_change # "ignore"
    BY <1>1, <2>3 DEF ToWrite
  <2> QED
    BY <2>2, <2>3
<1>3. /\ stage' \in {"evolve", "merge", "delete", "append"}
      /\ stage' \in {"evolve", "merge"} <=> config.strategy = "merge"
      /\ stage' = "delete" <=> config.strategy = "delete+insert"
      /\ stage' = "evolve" => AllowsEvolution(d)
      /\ stage' = "merge" /\ config.format = "iceberg" => ~AllowsEvolution(d)
  BY <1>1, TableFacts DEF FirstStage
<1>4. TypeOK'
  <2>1. /\ table' \in [columns : SUBSET Columns, rows : SUBSET Row]
        /\ \A r \in table'.rows : r.cells = Select(r.cells, table'.columns)
    BY <1>1 DEF TypeOK
  <2>2. config' \in Configs /\ evolve' \in BOOLEAN /\ runs' \in 0 .. MaxRuns
    BY <1>1, NextRun DEF TypeOK, AllowsEvolution
  <2>3. (batch \in Data(runs) \cup {SelectData(e, {}) : e \in Data(runs)})'
    BY <1>1, <1>2, DataStays
  <2>4. outcome' = "none"
    OBVIOUS
  <2> QED
    BY <1>3, <2>1, <2>2, <2>3, <2>4 DEF TypeOK
<1>5. StageInv'
  BY <1>1, <1>3, TableFacts DEF StageInv, AllowsEvolution
<1>6. ColumnsInv'
  <2>1. config.on_schema_change = "fail" => d.columns = table.columns
    BY DEF FailsOnChange, Added, Removed
  <2>2. config.on_schema_change = "sync_all_columns" => table.columns \subseteq d.columns
    BY DEF Syncs, Removed
  <2>3. stage' = "merge" /\ config.format = "iceberg" => batch'.columns \subseteq table.columns
    BY <1>1, <1>2, <1>3, <2>1, TableFacts DEF AllowsEvolution, Added
  <2> QED
    BY <1>1, <1>2, <2>1, <2>2, <2>3 DEF ColumnsInv
<1>7. DeletedInv' /\ (KeysKept => OneRowPerKey')
  BY <1>1, <1>3, TableStays DEF DeletedInv, IInv
<1> QED
  BY <1>4, <1>5, <1>6, <1>7 DEF IInv

LEMMA EvolveSchemaStep ==
  ASSUME IInv, EvolveSchema
  PROVE  IInv'
<1> USE DEF EvolveSchema
<1>1. /\ TypeOK /\ StageInv /\ ColumnsInv /\ IsData(batch, runs)
      /\ UNCHANGED <<config, batch, evolve, runs, outcome>> /\ stage' = "merge"
  BY BatchFacts DEF IInv
<1>2. table'.columns = table.columns \cup batch.columns /\ table'.rows = table.rows
  BY <1>1, TableFacts DEF Table
<1>3. TypeOK'
  <2>1. TableFits(table')
    <3>1. table' = Table(table.columns \cup batch.columns, table.rows)
      BY <1>1, TableFacts DEF Table
    <3> QED
      BY <1>1, <1>2, <3>1, TableFacts DEF TableFits, Fit, IsData
  <2>2. (batch \in Data(runs) \cup {SelectData(e, {}) : e \in Data(runs)})'
    BY <1>1, DataStays DEF TypeOK
  <2> QED
    BY <1>1, <2>1, <2>2, FitsTypes DEF TypeOK
<1>4. StageInv' /\ ColumnsInv'
  BY <1>1, <1>2 DEF StageInv, ColumnsInv
<1>5. DeletedInv' /\ (KeysKept => OneRowPerKey')
  BY <1>1, <1>2 DEF DeletedInv, IInv, OneRowPerKey
<1> QED
  BY <1>3, <1>4, <1>5 DEF IInv

\* A merge leaves one row for each key that the table or the data has.
LEMMA MergeStep ==
  ASSUME IInv, Merge
  PROVE  IInv'
<1> USE DEF Merge
<1> DEFINE t == Merged(table, batch)
           Updated == {UpdatedRow(r) : r \in MatchedRows(table, batch)}
<1>1. /\ TypeOK /\ IsData(batch, runs) /\ runs > 0 /\ config.strategy = "merge"
      /\ table.columns \subseteq Columns /\ batch.columns \subseteq Columns
  BY BatchFacts, TableFacts DEF IInv, StageInv, IsData
<1>2. /\ t.columns = table.columns \cup batch.columns
      /\ \/ t.rows = Unmatched(table, batch) \cup Inserted(table, batch) \cup Updated
         \/ t.rows = Unmatched(table, batch) \cup NewRows(batch)
  BY MergedShape
<1>3. t = Table(t.columns, t.rows)
  BY <1>1, TableFacts DEF Merged, DeltaMerge, FileMerge, IcebergMerge, Table
<1>4. /\ Unmatched(table, batch) \subseteq table.rows
      /\ Inserted(table, batch) \subseteq NewRows(batch)
      /\ \A r \in Inserted(table, batch) :
           r.key = NullKey \/ \A q \in table.rows : q.key # r.key
      /\ \A r \in Unmatched(table, batch) : r.key # NullKey => r.key \notin DOMAIN batch.cells
  BY DEF Unmatched, Inserted, Matched
<1>5. \A r \in t.rows : Fit(r, t.columns)
  <2>1. \A r \in table.rows \cup NewRows(batch) : Fit(r, t.columns)
    BY <1>1, <1>2, TableFacts, NewRowsFacts DEF Fit
  <2>2. \A r \in Updated : Fit(r, t.columns)
    BY <1>2, UpdatedRowFacts
  <2> QED
    BY <1>2, <1>4, <2>1, <2>2
<1>6. TableFits(t)
  BY <1>1, <1>2, <1>3, <1>5 DEF TableFits
<1>7. ASSUME KeysKept
      PROVE  \A r, s \in t.rows : r.key = s.key /\ r.key # NullKey => r = s
  <2>1. \A r, s \in table.rows : r.key = s.key /\ r.key # NullKey => r = s
    BY <1>1, <1>7 DEF IInv, OneRowPerKey
  <2>2. \A r, s \in NewRows(batch) : r.key = s.key => r = s
    BY <1>1, NewRowsFacts
  <2>3. \A r \in NewRows(batch) : r.key \in DOMAIN batch.cells
    BY <1>1, NewRowsFacts
  <2>4. \A u \in Updated : \E r \in table.rows :
          u = UpdatedRow(r) /\ u.key = r.key /\ r.key \in DOMAIN batch.cells
    BY UpdatedRowFacts
  <2>5. \A u, w \in Updated : u.key = w.key /\ u.key # NullKey => u = w
    BY <2>1, <2>4
  <2>6. CASE t.rows = Unmatched(table, batch) \cup NewRows(batch)
    BY <1>4, <2>1, <2>2, <2>3, <2>6
  <2>7. CASE t.rows = Unmatched(table, batch) \cup Inserted(table, batch) \cup Updated
    <3>1. \A r \in Unmatched(table, batch), u \in Updated : r.key # NullKey => r.key # u.key
      BY <1>4, <2>4
    <3>2. \A r \in Inserted(table, batch), u \in Updated : r.key # NullKey => r.key # u.key
      BY <1>4, <2>4
    <3>3. \A r \in Unmatched(table, batch), q \in Inserted(table, batch) :
            r.key # NullKey => r.key # q.key
      BY <1>4, <2>3
    <3>4. /\ \A r, s \in Unmatched(table, batch) : r.key = s.key /\ r.key # NullKey => r = s
          /\ \A r, s \in Inserted(table, batch) : r.key = s.key => r = s
      BY <1>4, <2>1, <2>2
    <3> HIDE DEF Updated, t
    <3> QED
      BY <2>5, <2>7, <3>1, <3>2, <3>3, <3>4
  <2> QED
    BY <1>2, <2>6, <2>7
<1>8. KeysKept => OneRowPerKey'
  BY <1>7 DEF OneRowPerKey
<1>9. runs' \in 0 .. MaxRuns
  BY <1>1 DEF TypeOK
<1> QED
  BY <1>6, <1>8, <1>9, RunEnded

\* The first write of delete+insert makes room for the second.
LEMMA DeleteMatchedStep ==
  ASSUME IInv, DeleteMatched
  PROVE  IInv'
<1> USE DEF DeleteMatched
<1>1. /\ TypeOK /\ StageInv /\ ColumnsInv
      /\ UNCHANGED <<config, batch, evolve, runs, outcome>> /\ stage' = "append"
      /\ config.strategy = "delete+insert"
  BY DEF IInv, StageInv
<1>2. /\ table' = Table(table.columns, Unmatched(table, batch))
      /\ table'.columns = table.columns /\ table'.rows = Unmatched(table, batch)
  BY DEF Remaining, Table
<1>3. TypeOK'
  <2>1. TableFits(table')
    BY <1>1, <1>2, TableFacts DEF TableFits, Unmatched
  <2>2. (batch \in Data(runs) \cup {SelectData(e, {}) : e \in Data(runs)})'
    BY <1>1, DataStays DEF TypeOK
  <2> QED
    BY <1>1, <2>1, <2>2, FitsTypes DEF TypeOK
<1>4. StageInv' /\ ColumnsInv'
  BY <1>1, <1>2 DEF StageInv, ColumnsInv
<1>5. DeletedInv'
  BY <1>1, <1>2 DEF DeletedInv, Unmatched, Matched
<1>6. KeysKept => OneRowPerKey'
  BY <1>1, <1>2 DEF IInv, OneRowPerKey, Unmatched
<1> QED
  BY <1>3, <1>4, <1>5, <1>6 DEF IInv

\* An append after the matched rows were deleted doubles no key.
LEMMA AppendStep ==
  ASSUME IInv, Append
  PROVE  IInv'
<1> USE DEF Append
<1>1. /\ TypeOK /\ IsData(batch, runs) /\ runs > 0 /\ DeletedInv
      /\ config.strategy \in {"append", "delete+insert"}
      /\ table.columns \subseteq Columns /\ batch.columns \subseteq Columns
  BY BatchFacts, TableFacts DEF IInv, StageInv, IsData
<1>2. /\ table' = Table(table.columns \cup batch.columns, table.rows \cup NewRows(batch))
      /\ table'.columns = table.columns \cup batch.columns
      /\ table'.rows = table.rows \cup NewRows(batch)
  BY DEF Appended, Table
<1>3. TableFits(table')
  BY <1>1, <1>2, TableFacts, NewRowsFacts DEF TableFits, Fit
<1>4. ASSUME KeysKept
      PROVE  OneRowPerKey'
  <2>1. CASE config.strategy = "append"
    BY <2>1 DEF OneRowPerKey
  <2>2. CASE config.strategy = "delete+insert"
    <3>1. \A r, s \in table.rows : r.key = s.key /\ r.key # NullKey => r = s
      BY <1>4, <2>2 DEF IInv, OneRowPerKey
    <3>2. \A r \in table.rows : r.key # NullKey => r.key \notin DOMAIN batch.cells
      BY <1>1, <2>2 DEF DeletedInv, Matched
    <3>3. /\ \A r, s \in NewRows(batch) : r.key = s.key => r = s
          /\ \A r \in NewRows(batch) : r.key \in DOMAIN batch.cells
      BY <1>1, NewRowsFacts
    <3>4. \A r, s \in table'.rows : r.key = s.key /\ r.key # NullKey => r = s
      BY <1>2, <3>1, <3>2, <3>3
    <3> QED
      BY <3>4 DEF OneRowPerKey
  <2> QED
    BY <1>1, <2>1, <2>2
<1>5. runs' \in 0 .. MaxRuns
  BY <1>1 DEF TypeOK
<1> QED
  BY <1>3, <1>4, <1>5, RunEnded

LEMMA FailedStep ==
  ASSUME IInv, WriteRaises \/ Crash
  PROVE  IInv'
<1>1. Finish("failed") /\ UNCHANGED <<config, table, runs>>
  BY DEF WriteRaises, Crash
<1> QED
  BY <1>1, TableStays, RunEnded DEF IInv, TypeOK

-----------------------------------------------------------------------------
LEMMA InitInv ==
  Init => IInv
<1> SUFFICES ASSUME Init PROVE IInv
  OBVIOUS
<1> USE DEF Init
<1>1. table.columns = {} /\ table.rows = {} /\ table = [columns |-> {}, rows |-> {}]
  BY DEF Table
<1>2. table \in [columns : SUBSET Columns, rows : SUBSET Row]
  BY <1>1
<1>3. runs \in 0 .. MaxRuns
  BY MaxRunsIsPositive
<1>4. TypeOK
  BY <1>1, <1>2, <1>3 DEF TypeOK
<1> QED
  BY <1>1, <1>4 DEF IInv, StageInv, ColumnsInv, DeletedInv, OneRowPerKey

LEMMA NextInv ==
  IInv /\ [Next]_vars => IInv'
<1> SUFFICES ASSUME IInv, [Next]_vars PROVE IInv'
  OBVIOUS
<1>1. ASSUME NEW d \in Data(runs + 1), FullRun(d)
      PROVE  IInv'
  BY <1>1, FullRunStep
<1>2. ASSUME NEW d \in Data(runs + 1), RejectRun(d)
      PROVE  IInv'
  BY <1>2, RejectRunStep
<1>3. ASSUME NEW d \in Data(runs + 1), SyncRun(d)
      PROVE  IInv'
  BY <1>3, SyncRunStep
<1>4. ASSUME NEW d \in Data(runs + 1), IncrementalRun(d)
      PROVE  IInv'
  BY <1>4, IncrementalRunStep
<1>5. CASE EvolveSchema
  BY <1>5, EvolveSchemaStep
<1>6. CASE Merge
  BY <1>6, MergeStep
<1>7. CASE DeleteMatched
  BY <1>7, DeleteMatchedStep
<1>8. CASE Append
  BY <1>8, AppendStep
<1>9. CASE WriteRaises \/ Crash
  BY <1>9, FailedStep
<1>10. CASE UNCHANGED vars
  <2>1. UNCHANGED <<config, table, stage, batch, evolve, runs, outcome>>
    BY <1>10 DEF vars
  <2>2. Data(runs)' = Data(runs)
    BY <2>1, DataStays
  <2>3. TypeOK'
    BY <2>1, <2>2 DEF IInv, TypeOK
  <2> QED
    BY <2>1, <2>3 DEF IInv, StageInv, ColumnsInv, DeletedInv, Matched, OneRowPerKey
<1> QED
  BY <1>1, <1>2, <1>3, <1>4, <1>5, <1>6, <1>7, <1>8, <1>9, <1>10 DEF Next

LEMMA Invariance ==
  Spec => []IInv
  BY InitInv, NextInv, PTL DEF Spec

(***************************************************************************)
(* Every run reads and writes well-formed data: the table's rows have cells *)
(* in its columns only, and what a write is given is data of its run.       *)
(***************************************************************************)
THEOREM TypeCorrect ==
  Spec => []TypeOK
<1>1. IInv => TypeOK
  BY DEF IInv
<1> QED
  BY <1>1, Invariance, PTL

(***************************************************************************)
(* _incremental_write with merge or delete+insert never leaves a key twice, *)
(* in any of the three formats, however often it is fetched again and       *)
(* wherever a run is killed, unless sync_all_columns appends.               *)
(***************************************************************************)
THEOREM OneRow ==
  ASSUME KeysKept
  PROVE  Spec => []OneRowPerKey
<1>1. IInv => OneRowPerKey
  BY DEF IInv
<1> QED
  BY <1>1, Invariance, PTL

-----------------------------------------------------------------------------
(***************************************************************************)
(* What a step does to the columns and to the rows.                         *)
(***************************************************************************)
\* A run ends well with its merge or its append.
LEMMA EndsWell ==
  ASSUME IInv, Next, RunEnds
  PROVE  Merge \/ Append
  BY DEF Next, RunEnds, Finish, FullRun, RejectRun, SyncRun, IncrementalRun, EvolveSchema,
         DeleteMatched, WriteRaises, Crash

LEMMA AppendedTable ==
  ASSUME Append
  PROVE  /\ table'.columns = table.columns \cup batch.columns
         /\ table'.rows = table.rows \cup NewRows(batch)
  BY DEF Append, Appended, Table

LEMMA MergedTable ==
  ASSUME IInv, Merge
  PROVE  /\ table'.columns = table.columns \cup batch.columns
         /\ \/ table'.rows = Unmatched(table, batch) \cup Inserted(table, batch)
                               \cup {UpdatedRow(r) : r \in MatchedRows(table, batch)}
            \/ table'.rows = Unmatched(table, batch) \cup NewRows(batch)
  BY MergedShape DEF Merge

ColumnsStep ==
  /\ config.on_schema_change \in {"ignore", "fail"} => table'.columns = table.columns
  /\ config.on_schema_change = "append_new_columns" =>
       /\ table.columns \subseteq table'.columns
       /\ RunEnds => batch.columns \subseteq table'.columns
  /\ config.on_schema_change = "sync_all_columns" /\ RunEnds => table'.columns = batch.columns

LEMMA ColumnsStepHolds ==
  ASSUME IInv, Next, outcome' # "replaced"
  PROVE  ColumnsStep
<1>1. CASE Merge \/ Append
  <2>1. table'.columns = table.columns \cup batch.columns /\ stage # "idle"
    BY <1>1, AppendedTable, MergedTable DEF Merge, Append
  <2> QED
    BY <2>1 DEF ColumnsStep, IInv, ColumnsInv
<1>2. CASE ~(Merge \/ Append)
  <2>1. ~RunEnds
    BY <1>2, EndsWell
  <2>2. CASE EvolveSchema
    <3>1. table'.columns = table.columns \cup batch.columns /\ stage = "evolve"
      BY <2>2, TableFacts DEF EvolveSchema, IInv, Table
    <3> QED
      BY <2>1, <3>1 DEF ColumnsStep, IInv, StageInv
  <2>3. CASE \E d \in Data(runs + 1) : SyncRun(d)
    <3>1. config.on_schema_change = "sync_all_columns"
      BY <2>3 DEF SyncRun, Syncs
    <3> QED
      BY <2>1, <3>1 DEF ColumnsStep
  <2>4. CASE DeleteMatched
    BY <2>1, <2>4 DEF ColumnsStep, DeleteMatched, Remaining, Table
  <2>5. CASE UNCHANGED table
    BY <2>1, <2>5 DEF ColumnsStep
  <2> QED
    BY <1>2, <2>2, <2>3, <2>4, <2>5
    DEF Next, FullRun, Finish, RejectRun, IncrementalRun, WriteRaises, Crash
<1> QED
  BY <1>1, <1>2

(***************************************************************************)
(* _apply_schema_change and the three writers change a table's columns as   *)
(* on_schema_change says: the data a merge or an append is given has only   *)
(* columns that may be added by then.                                       *)
(***************************************************************************)
THEOREM ColumnsFollow ==
  Spec => ColumnsFollowPolicy
<1>1. IInv /\ [Next]_vars => [outcome' # "replaced" => ColumnsStep]_vars
  BY ColumnsStepHolds
<1> QED
  BY <1>1, Invariance, PTL DEF Spec, ColumnsFollowPolicy, ColumnsStep

Touches(r) == config.strategy # "append" /\ r.key # NullKey /\ r.key \in DOMAIN batch.cells

KeptAs(r, s) ==
  /\ s.key = r.key /\ s.born = r.born
  /\ \A c \in table.columns \cap table'.columns : s.cells[c] = r.cells[c]

LEMMA RowsStepHolds ==
  ASSUME IInv, Next, outcome' # "replaced", NEW r \in table.rows
  PROVE  Touches(r) \/ \E s \in table'.rows : KeptAs(r, s)
<1>1. r \in table'.rows => \E s \in table'.rows : KeptAs(r, s)
  BY DEF KeptAs
<1>2. ASSUME NEW d \in Data(runs + 1), SyncRun(d)
      PROVE  \E s \in table'.rows : KeptAs(r, s)
  <2> DEFINE s == [r EXCEPT !.cells = Select(@, d.columns)]
  <2>1. s \in table'.rows /\ table'.columns = d.columns
    BY <1>2 DEF SyncRun, SyncedRows, Table
  <2>2. r \in Row /\ r.cells \in Cells /\ table.columns \subseteq Columns
    BY TableFacts, RowFields DEF IInv, Fit
  <2>3. s = [r EXCEPT !.cells = Select(r.cells, d.columns)]
    BY <2>2 DEF Row
  <2>4. s.key = r.key /\ s.born = r.born /\ s.cells = Select(r.cells, d.columns)
    BY <2>2, <2>3, RowFields, SelectFacts
  <2>5. \A c \in table.columns \cap table'.columns : s.cells[c] = r.cells[c]
    BY <2>1, <2>2, <2>4, SelectFacts
  <2> QED
    BY <2>1, <2>4, <2>5 DEF KeptAs
<1>3. CASE EvolveSchema
  BY <1>1, <1>3, TableFacts DEF EvolveSchema, IInv, Table
<1>4. CASE Merge
  <2>1. config.strategy = "merge" /\ Unmatched(table, batch) \subseteq table'.rows
    BY <1>4, MergedTable DEF Merge, IInv, StageInv
  <2> QED
    BY <1>1, <2>1 DEF Unmatched, Matched, Touches
<1>5. CASE DeleteMatched
  <2>1. config.strategy = "delete+insert" /\ table'.rows = Unmatched(table, batch)
    BY <1>5 DEF DeleteMatched, IInv, StageInv, Remaining, Table
  <2> QED
    BY <1>1, <2>1 DEF Unmatched, Matched, Touches
<1>6. CASE Append
  BY <1>1, <1>6, AppendedTable
<1>7. CASE UNCHANGED table
  BY <1>1, <1>7
<1> QED
  BY <1>2, <1>3, <1>4, <1>5, <1>6, <1>7
  DEF Next, FullRun, Finish, RejectRun, IncrementalRun, WriteRaises, Crash

(***************************************************************************)
(* No step of a run, in any format, touches a row that the run's data does  *)
(* not match: rows of other keys and of NULL keys outlive merges, deletes,  *)
(* rewrites, failed writes and killed runs.                                 *)
(***************************************************************************)
THEOREM OthersStay ==
  Spec => OthersUntouched
<1>1. IInv /\ [Next]_vars =>
        [outcome' # "replaced" =>
           \A r \in table.rows :
             \/ config.strategy # "append" /\ r.key # NullKey /\ r.key \in DOMAIN batch.cells
             \/ \E s \in table'.rows :
                  /\ s.key = r.key /\ s.born = r.born
                  /\ \A c \in table.columns \cap table'.columns : s.cells[c] = r.cells[c]]_vars
  BY RowsStepHolds DEF Touches, KeptAs
<1> QED
  BY <1>1, Invariance, PTL DEF Spec, OthersUntouched

-----------------------------------------------------------------------------
\* A merge leaves alone just the protected columns of its data.
LEMMA ExceptColsAreProtected ==
  ASSUME NEW d, d.columns \subseteq Columns, NEW c \in d.columns
  PROVE  c \in ExceptCols(d) <=> c \in Protected
  BY DEF ExceptCols, Protected

LEMMA UpdatesMatched ==
  ASSUME IInv, Merge, FilesWithoutNulls, NEW old \in MatchedRows(table, batch)
  PROVE  UpdatedFrom(UpdatedRow(old), old, old.key)
<1>1. /\ old.key # NullKey /\ old.key \in DOMAIN batch.cells
      /\ UpdatedRow(old).born = old.born /\ UpdatedRow(old).cells = MergedCells(old)
  BY UpdatedRowFacts DEF Merge
<1>2. /\ IsData(batch, runs) /\ runs \in Nat /\ runs > 0 /\ config.strategy = "merge"
      /\ table.columns \subseteq Columns /\ batch.columns \subseteq Columns
  BY BatchFacts, TableFacts DEF IInv, Merge, StageInv, IsData
<1>3. config.format = "file" =>
        \A c \in batch.columns : batch.cells[old.key][c] # NULL
  <2>1. config.format = "file" => ~config.null_cells
    BY <1>2 DEF FilesWithoutNulls, IInv, TypeOK
  <2>2. ~config.null_cells => \A c \in batch.columns : batch.cells[old.key][c] = runs
    BY <1>1, <1>2, CellFacts
  <2> QED
    BY <1>2, <2>1, <2>2 DEF NULL
<1>4. \A c \in batch.columns \ Protected : MergedCells(old)[c] = batch.cells[old.key][c]
  BY <1>2, <1>3, ExceptColsAreProtected DEF MergedCells, FileUpdated
<1>5. \A c \in Protected \cap table.columns : MergedCells(old)[c] = old.cells[c]
  BY <1>2, ExceptColsAreProtected DEF MergedCells, FileUpdated
<1> QED
  BY <1>1, <1>2, <1>4, <1>5 DEF UpdatedFrom

Applied(k) ==
  \E r \in table'.rows :
    /\ r.key = k
    /\ InsertedAs(r, k) \/ \E old \in table.rows : UpdatedFrom(r, old, k)

LEMMA NewRowIsThere ==
  ASSUME IInv, stage # "idle", NEW k \in DOMAIN batch.cells, RowFor(batch, k, runs) \in table'.rows
  PROVE  Applied(k)
<1>1. RowFor(batch, k, runs).key = k /\ InsertedAs(RowFor(batch, k, runs), k)
  BY DEF RowFor, InsertedAs
<1> QED
  BY <1>1 DEF Applied

LEMMA IncrementStepHolds ==
  ASSUME IInv, Next, FilesWithoutNulls, RunEnds, NEW k \in DOMAIN batch.cells
  PROVE  Applied(k)
<1>1. stage # "idle" /\ RowFor(batch, k, runs) \in NewRows(batch)
  BY NewRowsFacts DEF RunEnds, IInv, StageInv
<1>2. CASE Append
  BY <1>1, <1>2, AppendedTable, NewRowIsThere
<1>3. CASE Merge
  <2>1. CASE table'.rows = Unmatched(table, batch) \cup NewRows(batch)
    BY <1>1, <2>1, NewRowIsThere
  <2>2. CASE table'.rows = Unmatched(table, batch) \cup Inserted(table, batch)
                             \cup {UpdatedRow(r) : r \in MatchedRows(table, batch)}
    <3>1. CASE k = NullKey \/ \A q \in table.rows : q.key # k
      <4>1. RowFor(batch, k, runs) \in Inserted(table, batch)
        BY <1>1, <3>1 DEF Inserted, RowFor
      <4> QED
        BY <1>1, <2>2, <4>1, NewRowIsThere
    <3>2. ASSUME k # NullKey, NEW q \in table.rows, q.key = k
          PROVE  Applied(k)
      <4>1. q \in MatchedRows(table, batch)
        BY <3>2 DEF MatchedRows, Matched
      <4>2. UpdatedFrom(UpdatedRow(q), q, k) /\ UpdatedRow(q).key = k
        BY <1>3, <3>2, <4>1, UpdatesMatched, UpdatedRowFacts DEF Merge
      <4> QED
        BY <2>2, <4>1, <4>2 DEF Applied
    <3> QED
      BY <3>1, <3>2
  <2> QED
    BY <1>3, <2>1, <2>2, MergedTable
<1> QED
  BY <1>2, <1>3, EndsWell

(***************************************************************************)
(* A run that ends well has written its increment, whichever of the writers *)
(* of the three formats did it, and where a merge matched it has updated    *)
(* all columns but the protected ones: for files if there are no NULLs.     *)
(***************************************************************************)
THEOREM Applies ==
  ASSUME FilesWithoutNulls
  PROVE  Spec => IncrementApplied
<1>1. IInv /\ [Next]_vars =>
        [RunEnds => \A k \in DOMAIN batch.cells : Applied(k)]_vars
  BY IncrementStepHolds
<1> QED
  BY <1>1, Invariance, PTL DEF Spec, IncrementApplied, Applied
=============================================================================
