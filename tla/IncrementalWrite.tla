-------------------------- MODULE IncrementalWrite --------------------------
(***************************************************************************)
(* What an incremental run does to the rows and the columns of its table:   *)
(* _incremental_write and _apply_schema_change (impl.py) and the writes of  *)
(* the three kinds of tables, Delta, plain files and Iceberg, which reach   *)
(* the same result by different algorithms.                                 *)
(*                                                                         *)
(* One model is run again and again, one run at a time.  Every run computes *)
(* an increment: rows with a key that is unique in the increment or NULL.   *)
(* A cell that is not NULL holds the number of the run that computed it, so *)
(* a value tells where it comes from.  Each write to the table is one step: *)
(* Delta and Iceberg commit it, a plain file is replaced.  Types of columns *)
(* and incremental_predicates are left out; overlapping runs of Iceberg     *)
(* tables are in IcebergTable.                                              *)
(***************************************************************************)
EXTENDS Naturals, FiniteSets

CONSTANTS
  Keys,       \* values of the unique key
  NullKey,    \* a key with a NULL in one of its columns
  Columns,    \* the columns a model may have besides its key
  Configs,    \* the configurations a model may have: a subset of AllConfigs
  MaxRuns     \* bound: number of runs

AllConfigs == [format : {"delta", "file", "iceberg"},
               strategy : {"append", "merge", "delete+insert"},
               on_schema_change : {"ignore", "fail", "append_new_columns",
                                   "sync_all_columns"},
               unique_key : BOOLEAN,         \* the model has a unique_key
               null_cells : BOOLEAN,         \* it computes NULLs outside the key
               same_partitions : BOOLEAN,    \* its partition_by is the table's
               update : SUBSET Columns,      \* merge_update_columns, {}: not set
               exclude : SUBSET Columns]     \* merge_exclude_columns

ASSUME NullKeyIsNoKey == NullKey \notin Keys
ASSUME ConfigsAreKnown == Configs \subseteq AllConfigs
ASSUME MaxRunsIsPositive == MaxRuns \in Nat \ {0}

VARIABLES
  config,   \* the model's configuration, the same in every run
  table,    \* the table's columns and rows
  stage,    \* the write the current run has to do, or "idle"
  batch,    \* the data the run writes
  evolve,   \* allow_evolution
  runs,     \* runs started so far
  outcome   \* how the last run ended

vars == <<config, table, stage, batch, evolve, runs, outcome>>

NULL == 0
Cells == [Columns -> 0 .. MaxRuns]

\* Rows have an identity, the run that inserted them: a table may hold equal rows.
Row == [key : Keys \cup {NullKey}, cells : Cells, born : 1 .. MaxRuns]

\* Data: its columns, and its rows by key.
Data(n) ==
  UNION {[columns : {columns},
          cells : UNION {[keys -> {f \in [Columns -> {NULL, n}] :
                                     \A c \in Columns :
                                       \/ c \notin columns /\ f[c] = NULL
                                       \/ c \in columns /\ (config.null_cells \/ f[c] = n)}] :
                         keys \in SUBSET (Keys \cup {NullKey})}] :
         columns \in (SUBSET Columns) \ {{}}}

NoData == [columns |-> {}, cells |-> [k \in {} |-> <<>>]]

Empty(d) == DOMAIN d.cells = {}
Table(columns, rows) == [columns |-> columns, rows |-> rows]

\* The rows that the current run inserts for its data.
NewRows(d) == {[key |-> k, cells |-> d.cells[k], born |-> runs] : k \in DOMAIN d.cells}

\* select(columns): the cells of other columns are not there.
Select(cells, columns) ==
  [c \in Columns |-> IF c \in columns THEN cells[c] ELSE NULL]

SelectData(d, columns) ==
  [columns |-> columns,
   cells |-> [k \in DOMAIN d.cells |-> Select(d.cells[k], columns)]]

Init ==
  /\ config \in Configs
  /\ table = Table({}, {})
  /\ stage = "idle"
  /\ batch = NoData
  /\ evolve = FALSE
  /\ runs = 0
  /\ outcome = "none"

-----------------------------------------------------------------------------
\* Mutant: a NULL key matches a NULL key.
MatchedNulls(r, d) == r.key \in DOMAIN d.cells

\* Rows are matched by an equality of their keys, which is not true of NULLs.
Matched(r, d) == r.key # NullKey /\ r.key \in DOMAIN d.cells

Unmatched(t, d) == {r \in t.rows : ~Matched(r, d)}
MatchedRows(t, d) == {r \in t.rows : Matched(r, d)}

\* Mutant: the new rows are not anti-joined with the table.
InsertedAll(t, d) == NewRows(d)

\* Mutant: new rows with a NULL key are taken for matched ones.
InsertedKeyed(t, d) ==
  {r \in NewRows(d) : r.key # NullKey /\ \A q \in t.rows : q.key # r.key}

\* The new rows that no row of the table matches.
Inserted(t, d) == {r \in NewRows(d) : r.key = NullKey \/ \A q \in t.rows : q.key # r.key}

\* Mutant: merge_update_columns is taken for the columns to leave alone.
ExceptColsSwapped(d) ==
  IF config.exclude # {} THEN config.exclude \cap d.columns ELSE config.update

\* _resolve_merge_except_cols: the columns of the data that a match leaves alone.
ExceptCols(d) ==
  IF config.exclude # {} THEN d.columns \cap config.exclude
  ELSE IF config.update # {} THEN d.columns \ config.update
  ELSE {}

MergesPartially == config.exclude # {} \/ config.update # {}
MergeConfigRaises == config.exclude # {} /\ config.update # {}

(***************************************************************************)
(* Delta: when_matched_update_all(except_cols) sets the source's columns,   *)
(* when_not_matched_insert_all inserts.                                     *)
(***************************************************************************)
DeltaMerge(t, d) ==
  Table(t.columns \cup d.columns,
        Unmatched(t, d) \cup Inserted(t, d) \cup
        {[r EXCEPT !.cells =
            [c \in Columns |-> IF c \in d.columns \ ExceptCols(d)
                               THEN d.cells[r.key][c] ELSE r.cells[c]]] :
         r \in MatchedRows(t, d)})

\* Mutant: columns that the table has not are not added.
FileUpdatedOldColumns(r, d, columns) ==
  [c \in Columns |->
    IF c \in (columns \cap d.columns) \ ExceptCols(d) /\ d.cells[r.key][c] # NULL
    THEN d.cells[r.key][c] ELSE r.cells[c]]

\* existing.update ignores the NULLs of the new data; columns the table has not
\* are joined whether or not they are excluded.
FileUpdated(r, d, columns) ==
  [c \in Columns |->
    IF \/ c \in (columns \cap d.columns) \ ExceptCols(d) /\ d.cells[r.key][c] # NULL
       \/ c \in d.columns \ columns
    THEN d.cells[r.key][c] ELSE r.cells[c]]

\* Files: update the existing rows, add the anti-joined new ones, write all.
FileMerge(t, d) ==
  Table(t.columns \cup d.columns,
        Unmatched(t, d) \cup Inserted(t, d) \cup
        {[r EXCEPT !.cells = FileUpdated(r, d, t.columns)] : r \in MatchedRows(t, d)})

\* Iceberg: overwrite_keys_and_append deletes the matched rows and writes all the
\* new ones; merge_partially writes the deleted rows back with their updates.
IcebergMerge(t, d) ==
  IF ~MergesPartially
  THEN Table(t.columns, Unmatched(t, d) \cup NewRows(d))
  ELSE Table(t.columns,
             Unmatched(t, d) \cup Inserted(t, d) \cup
             {[r EXCEPT !.cells =
                 [c \in Columns |-> IF c \in d.columns \ ExceptCols(d)
                                    THEN d.cells[r.key][c] ELSE r.cells[c]]] :
              r \in MatchedRows(t, d)})

\* merge_partially concatenates frames, which must have the same columns.
MergeRaises(t, d) ==
  config.format = "iceberg" /\ ~Empty(d) /\ MergesPartially /\ t.columns # d.columns

Merged(t, d) ==
  CASE config.format = "delta" -> DeltaMerge(t, d)
    [] config.format = "file" -> FileMerge(t, d)
    [] config.format = "iceberg" -> IF Empty(d) THEN t ELSE IcebergMerge(t, d)

\* delete_matched: anti-join, merge with when_matched_delete, copy on write.
Remaining(t, d) == Table(t.columns, Unmatched(t, d))

\* append: columns that the data has not are NULL in its rows.
Appended(t, d) == Table(t.columns \cup d.columns, t.rows \cup NewRows(d))

\* Without schema_mode="merge" deltalake may refuse data that lacks columns.
AppendMayRaise(t, d) == config.format = "delta" /\ ~evolve /\ t.columns # d.columns

-----------------------------------------------------------------------------
Finish(how) == stage' = "idle" /\ batch' = NoData /\ evolve' = FALSE /\ outcome' = how

Removed(d) == table.columns \ d.columns
Added(d) == d.columns \ table.columns

\* write_relation for the first run and --full-refresh: the table is replaced.
FullRun(d) ==
  /\ stage = "idle" /\ runs < MaxRuns
  /\ runs' = runs + 1
  /\ table' = Table(d.columns, {[key |-> k, cells |-> d.cells[k], born |-> runs + 1] :
                                k \in DOMAIN d.cells})
  /\ Finish("replaced")
  /\ UNCHANGED config

\* The configuration is checked after the schema change: sync may have rewritten.
ConfigRaises ==
  \/ config.strategy # "append" /\ ~config.unique_key
  \/ config.strategy = "merge" /\ MergeConfigRaises

FailsOnChange(d) ==
  config.on_schema_change = "fail" /\ (Added(d) # {} \/ Removed(d) # {})

Syncs(d) == config.on_schema_change = "sync_all_columns" /\ Removed(d) # {}

\* Mutant: ignore keeps the columns that the table has not.
ToWriteAll(d) == d

\* What _apply_schema_change returns: ignore drops the columns the table has not.
ToWrite(d) ==
  IF config.on_schema_change = "ignore"
  THEN SelectData(d, d.columns \cap table.columns) ELSE d

AllowsEvolution(d) ==
  config.on_schema_change \in {"append_new_columns", "sync_all_columns"} /\ Added(d) # {}

\* The write the run begins with: Iceberg's merge evolves the schema first.
FirstStage(d) ==
  CASE config.strategy = "append" -> "append"
    [] config.strategy = "delete+insert" -> "delete"
    [] config.strategy = "merge" ->
         IF config.format = "iceberg" /\ AllowsEvolution(d) THEN "evolve" ELSE "merge"

\* A run that raises before it writes.
RejectRun(d) ==
  /\ stage = "idle" /\ 0 < runs /\ runs < MaxRuns
  /\ \/ ~config.same_partitions
     \/ FailsOnChange(d)
     \/ ConfigRaises /\ ~Syncs(d)
  /\ runs' = runs + 1
  /\ Finish("failed")
  /\ UNCHANGED <<config, table>>

\* Mutant: the removed columns stay in the existing rows.
SyncedRowsWhole(d) == table.rows

\* The rows that sync_all_columns keeps when it rewrites the table.
SyncedRows(d) == {[r EXCEPT !.cells = Select(@, d.columns)] : r \in table.rows}

\* sync_all_columns with a removed column: existing rows without the column and
\* all new rows, whatever the strategy.
SyncRun(d) ==
  /\ stage = "idle" /\ 0 < runs /\ runs < MaxRuns
  /\ config.same_partitions /\ Syncs(d)
  /\ runs' = runs + 1
  /\ table' = Table(d.columns,
                    SyncedRows(d) \cup
                    {[key |-> k, cells |-> d.cells[k], born |-> runs + 1] :
                     k \in DOMAIN d.cells})
  /\ Finish("ok")
  /\ UNCHANGED config

IncrementalRun(d) ==
  /\ stage = "idle" /\ 0 < runs /\ runs < MaxRuns
  /\ config.same_partitions /\ ~FailsOnChange(d) /\ ~Syncs(d) /\ ~ConfigRaises
  /\ runs' = runs + 1
  /\ batch' = ToWrite(d)
  /\ evolve' = AllowsEvolution(d)
  /\ stage' = FirstStage(d)
  /\ outcome' = "none"
  /\ UNCHANGED <<config, table>>

EvolveSchema ==
  /\ stage = "evolve"
  /\ table' = [table EXCEPT !.columns = @ \cup batch.columns]
  /\ stage' = "merge"
  /\ UNCHANGED <<config, batch, evolve, runs, outcome>>

Merge ==
  /\ stage = "merge"
  /\ ~MergeRaises(table, batch)
  /\ table' = Merged(table, batch)
  /\ Finish("ok")
  /\ UNCHANGED <<config, runs>>

DeleteMatched ==
  /\ stage = "delete"
  /\ table' = Remaining(table, batch)
  /\ stage' = "append"
  /\ UNCHANGED <<config, batch, evolve, runs, outcome>>

Append ==
  /\ stage = "append"
  /\ table' = Appended(table, batch)
  /\ Finish("ok")
  /\ UNCHANGED <<config, runs>>

WriteRaises ==
  /\ \/ stage = "merge" /\ MergeRaises(table, batch)
     \/ stage = "append" /\ AppendMayRaise(table, batch)
  /\ Finish("failed")
  /\ UNCHANGED <<config, table, runs>>

\* The run is killed, or storage fails, before its next write.
Crash ==
  /\ stage # "idle"
  /\ Finish("failed")
  /\ UNCHANGED <<config, table, runs>>

Next ==
  \/ \E d \in Data(runs + 1) : FullRun(d)
  \/ \E d \in Data(runs + 1) : RejectRun(d)
  \/ \E d \in Data(runs + 1) : SyncRun(d)
  \/ \E d \in Data(runs + 1) : IncrementalRun(d)
  \/ EvolveSchema \/ Merge \/ DeleteMatched \/ Append \/ WriteRaises \/ Crash

Spec == Init /\ [][Next]_vars

-----------------------------------------------------------------------------
TypeOK ==
  /\ config \in Configs
  /\ table \in [columns : SUBSET Columns, rows : SUBSET Row]
  /\ \A r \in table.rows : r.cells = Select(r.cells, table.columns)
  /\ stage \in {"idle", "evolve", "merge", "delete", "append"}
  /\ stage # "idle" => batch \in Data(runs) \cup {SelectData(d, {}) : d \in Data(runs)}
  /\ evolve \in BOOLEAN
  /\ runs \in 0 .. MaxRuns
  /\ outcome \in {"none", "ok", "replaced", "failed"}

(***************************************************************************)
(* A model with a unique_key has one row for each key, however often the    *)
(* key is fetched again: "rows for a date that is fetched again replace the *)
(* existing rows instead of being added twice" (incremental-ingestion.md).  *)
(***************************************************************************)
OneRowPerKey ==
  config.strategy # "append" =>
    \A r, s \in table.rows : r.key = s.key /\ r.key # NullKey => r = s

RunEnds == stage # "idle" /\ stage' = "idle" /\ outcome' = "ok"

\* The columns that the model's configuration protects from a merge.
Protected ==
  IF config.exclude # {} THEN config.exclude
  ELSE IF config.update # {} THEN Columns \ config.update ELSE {}

InsertedAs(r, k) == r.born = runs /\ \A c \in batch.columns : r.cells[c] = batch.cells[k][c]

UpdatedFrom(r, old, k) ==
  /\ config.strategy = "merge" /\ k # NullKey
  /\ old.key = k /\ old.born = r.born
  /\ \A c \in batch.columns \ Protected : r.cells[c] = batch.cells[k][c]
  /\ \A c \in Protected \cap table.columns : r.cells[c] = old.cells[c]

(***************************************************************************)
(* A run that ends well has written its increment: "By default, all columns *)
(* are updated" (model-configuration.md) where a merge matches, but for the *)
(* protected ones that the table had, and what it does not match is there.  *)
(* A column that the increment lacks is left open: Iceberg writes new rows, *)
(* where it is NULL, and the others keep its value.                         *)
(***************************************************************************)
IncrementApplied ==
  [][RunEnds =>
       \A k \in DOMAIN batch.cells :
         \E r \in table'.rows :
           /\ r.key = k
           /\ InsertedAs(r, k) \/ \E old \in table.rows : UpdatedFrom(r, old, k)]_vars

(***************************************************************************)
(* No incremental run touches a row that its increment does not match: rows *)
(* of other keys and of NULL keys stay, with their values in the columns    *)
(* that stay, whether the run ends, raises or is killed between its writes. *)
(* With the append strategy and with sync_all_columns every row stays.      *)
(***************************************************************************)
OthersUntouched ==
  [][outcome' # "replaced" =>
       \A r \in table.rows :
         \/ config.strategy # "append" /\ r.key # NullKey /\ r.key \in DOMAIN batch.cells
         \/ \E s \in table'.rows :
              /\ s.key = r.key /\ s.born = r.born
              /\ \A c \in table.columns \cap table'.columns : s.cells[c] = r.cells[c]]_vars

(***************************************************************************)
(* The table's columns change as on_schema_change says, whichever of the    *)
(* three formats and the strategies makes the change.                       *)
(***************************************************************************)
ColumnsFollowPolicy ==
  [][outcome' # "replaced" =>
       /\ config.on_schema_change \in {"ignore", "fail"} =>
            table'.columns = table.columns
       /\ config.on_schema_change = "append_new_columns" =>
            /\ table.columns \subseteq table'.columns
            /\ RunEnds => batch.columns \subseteq table'.columns
       /\ config.on_schema_change = "sync_all_columns" /\ RunEnds =>
            table'.columns = batch.columns]_vars
=============================================================================
