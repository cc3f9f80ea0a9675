---------------------------- MODULE SnapshotScd2 ----------------------------
(***************************************************************************)
(* A dbt snapshot over several runs of a changing source: the SCD type 2    *)
(* history that polars_execute_snapshot keeps (impl.py), written the way    *)
(* each storage format does it (icebergCatalog.py, formats/delta.py,        *)
(* formats/file.py).                                                        *)
(*                                                                          *)
(* A run reads the source, looks at the clock, reads the snapshot table and *)
(* writes what changed; the source may change between the first two.  Runs  *)
(* do not overlap and unique_key is unique and not null in the source.      *)
(***************************************************************************)
EXTENDS Naturals, FiniteSets

CONSTANTS
  Keys,              \* values of unique_key
  Values,            \* what the other columns of a row may hold
  Configs,           \* the configurations of the snapshot
  RestoringConfigs,  \* those under which deleted rows may come back as they were
  MaxTime,           \* bound on the clock
  None,              \* no source row; no source read
  Open               \* dbt_valid_to of an open row: null or dbt_valid_to_current

AllConfigs == [format : {"iceberg", "delta", "file"},
               strategy : {"timestamp", "check"},
               hardDeletes : {"ignore", "invalidate", "new_record"}]

ASSUME ConfigsAssumption ==
  /\ Configs \subseteq AllConfigs
  /\ RestoringConfigs \subseteq Configs
ASSUME TimeAssumption == MaxTime \in Nat /\ Open \notin Nat
ASSUME NoneAssumption == None \notin [val : Values, stamp : Nat]

VARIABLES
  config,   \* the configuration, fixed for all runs
  clock,    \* the time; no two events share one
  source,   \* the source row of each key, with its `updated_at`
  removed,  \* the row each key had when it was deleted from the source
  read,     \* the source as the current run read it, None between runs
  last,     \* the source as the last finished run had read it
  exists,   \* whether the snapshot table exists
  target    \* the rows of the snapshot table

vars == <<config, clock, source, removed, read, last, exists, target>>

Times == 0..MaxTime
Entries == [val : Values, stamp : Times]
SourceTables == [Keys -> Entries \cup {None}]
NoRows == [k \in Keys |-> None]

Init ==
  /\ config \in Configs
  /\ clock = 0
  /\ source \in {s \in SourceTables : \A k \in Keys : s[k] # None => s[k].stamp = 0}
  /\ removed = NoRows
  /\ read = None
  /\ last = NoRows
  /\ exists = FALSE
  /\ target = {}

-----------------------------------------------------------------------------
(***************************************************************************)
(* The source.  A change gets the time as its `updated_at`; a row restored  *)
(* after its deletion keeps the old one.                                    *)
(***************************************************************************)
Tick == clock < MaxTime /\ clock' = clock + 1

UNCHANGED_SNAPSHOT == UNCHANGED <<config, read, last, exists, target>>

Upsert(k, v) ==
  /\ source[k] # None => source[k].val # v
  /\ Tick
  /\ source' = [source EXCEPT ![k] = [val |-> v, stamp |-> clock + 1]]
  /\ UNCHANGED <<removed>> /\ UNCHANGED_SNAPSHOT

Delete(k) ==
  /\ source[k] # None
  /\ Tick
  /\ source' = [source EXCEPT ![k] = None]
  /\ removed' = [removed EXCEPT ![k] = source[k]]
  /\ UNCHANGED_SNAPSHOT

Restore(k) ==
  /\ config \in RestoringConfigs
  /\ source[k] = None /\ removed[k] # None
  /\ Tick
  /\ source' = [source EXCEPT ![k] = removed[k]]
  /\ UNCHANGED <<removed>> /\ UNCHANGED_SNAPSHOT

-----------------------------------------------------------------------------
(***************************************************************************)
(* Rows of the snapshot table.  `stamp` is the updated_at that dbt_scd_id   *)
(* hashes together with the key; dbt_updated_at moves on when a row is      *)
(* closed.  `born`, the run that inserted the physical row, is not stored:  *)
(* it keeps two rows with equal columns apart.                              *)
(***************************************************************************)
Rows == [key : Keys, val : Values, stamp : Times, from : Times,
         to : Times \cup {Open}, updated : Times, deleted : BOOLEAN,
         born : Times]

ScdId(r) == <<r.key, r.stamp>>
ScdIds(rows) == {ScdId(r) : r \in rows}
RowsOf(k) == {r \in target : r.key = k}
OpenRows == {r \in target : r.to = Open}
OpenKeys == {r.key : r \in OpenRows}
Present == {k \in Keys : read[k] # None}

\* dbt_updated_at of the source rows: the updated_at column, or the time of
\* the run for the check strategy.
Stamp(k, now) == IF config.strategy = "timestamp" THEN read[k].stamp ELSE now

\* Mutant: the open end is not written.
NewRowWithoutEnd(k, now) ==
  [key |-> k, val |-> read[k].val, stamp |-> Stamp(k, now),
   from |-> Stamp(k, now), to |-> None, updated |-> Stamp(k, now),
   deleted |-> FALSE, born |-> now]

NewRow(k, now) ==
  [key |-> k, val |-> read[k].val, stamp |-> Stamp(k, now),
   from |-> Stamp(k, now), to |-> Open, updated |-> Stamp(k, now),
   deleted |-> FALSE, born |-> now]

\* The record hard_deletes = new_record leaves for a deleted row.
DeletedMarker(r, now) ==
  [r EXCEPT !.stamp = now, !.from = now, !.updated = now, !.deleted = TRUE,
            !.born = now]

CloseAt(r, time) == [r EXCEPT !.to = time, !.updated = time]

\* Mutant: >= instead of >.
ChangedOrSame(r) ==
  /\ r.key \in Present
  /\ IF config.strategy = "timestamp" THEN read[r.key].stamp >= r.updated
                                      ELSE read[r.key].val # r.val

Changed(r) ==
  /\ r.key \in Present
  /\ IF config.strategy = "timestamp" THEN read[r.key].stamp > r.updated
                                      ELSE read[r.key].val # r.val

\* Mutant: timestamps are not compared.
ChangedRowsOnlyChecked ==
  {r \in OpenRows : config.strategy = "check" /\ Changed(r)}

ChangedRows == {r \in OpenRows : Changed(r)}

\* Mutant: deleted keys are looked up among all rows of the table.
DeletedOfAnyRow ==
  {r \in target : config.hardDeletes # "ignore" /\ r.key \notin Present}

DeletedOpen ==
  {r \in OpenRows : config.hardDeletes # "ignore" /\ r.key \notin Present}

KeysToInsert == (Present \ OpenKeys) \cup {r.key : r \in ChangedRows}

\* Mutant: a changed row is closed at the time of the run.
CloseAllNow(now) == {CloseAt(r, now) : r \in ChangedRows \cup DeletedOpen}

RowsToClose(now) ==
  {CloseAt(r, Stamp(r.key, now)) : r \in ChangedRows}
    \cup {CloseAt(r, now) : r \in DeletedOpen}

RowsToInsert(now) ==
  {NewRow(k, now) : k \in KeysToInsert}
    \cup {DeletedMarker(r, now) :
            r \in {d \in DeletedOpen : config.hardDeletes = "new_record"}}

-----------------------------------------------------------------------------
(***************************************************************************)
(* apply_snapshot_delta: one atomic write that finds rows by dbt_scd_id.    *)
(***************************************************************************)

\* The rows with the staged ids take over the staged columns.
Updated(rows, staged) ==
  {r \in rows : ScdId(r) \notin ScdIds(staged)}
    \cup UNION {{[s EXCEPT !.born = r.born] : s \in {t \in staged : ScdId(t) = ScdId(r)}} :
                 r \in rows}

\* overwrite_keys_and_append: every row with an id to close is deleted.
\* Mutant: nothing is deleted.
IcebergWriteAppends(rows, close, insert) == rows \cup close \cup insert

IcebergWrite(rows, close, insert) ==
  {r \in rows : ScdId(r) \notin ScdIds(close)} \cup close \cup insert

\* One MERGE of all staged rows: matched rows are updated, others inserted.
DeltaWrite(rows, close, insert) ==
  Updated(rows, close \cup insert)
    \cup {s \in close \cup insert : ScdId(s) \notin ScdIds(rows)}

\* The closed rows are updated in place, the new ones always added.
FileWrite(rows, close, insert) == Updated(rows, close) \cup insert

Written(rows, close, insert) ==
  IF close = {} THEN rows \cup insert
  ELSE IF config.format = "iceberg" THEN IcebergWrite(rows, close, insert)
  ELSE IF config.format = "delta" THEN DeltaWrite(rows, close, insert)
  ELSE FileWrite(rows, close, insert)

-----------------------------------------------------------------------------
(***************************************************************************)
(* A run of the snapshot.                                                   *)
(***************************************************************************)
ReadSource ==
  /\ read = None
  /\ read' = source
  /\ UNCHANGED <<config, clock, source, removed, last, exists, target>>

Finished ==
  /\ read # None
  /\ last' = read
  /\ read' = None
  /\ exists' = TRUE
  /\ UNCHANGED <<config, source, removed>>

FirstSnapshot ==
  /\ ~exists
  /\ Tick
  /\ Finished
  /\ target' = {NewRow(k, clock + 1) : k \in Present}

ApplyScd2 ==
  /\ exists
  /\ Tick
  /\ Finished
  /\ target' = Written(target, RowsToClose(clock + 1), RowsToInsert(clock + 1))

\* The run raises before its write: a column is missing, hard_deletes is not
\* valid, the write fails.  The next run starts over.
SnapshotFails ==
  /\ read # None
  /\ read' = None
  /\ UNCHANGED <<config, clock, source, removed, last, exists, target>>

Done == clock = MaxTime /\ UNCHANGED vars

Next ==
  \/ \E k \in Keys, v \in Values : Upsert(k, v)
  \/ \E k \in Keys : Delete(k) \/ Restore(k)
  \/ ReadSource
  \/ FirstSnapshot
  \/ ApplyScd2
  \/ SnapshotFails
  \/ Done

Spec == Init /\ [][Next]_vars

-----------------------------------------------------------------------------
\* Every row of the snapshot is well formed, and its id is its own.
TypeOK ==
  /\ config \in Configs
  /\ clock \in Times
  /\ source \in SourceTables
  /\ removed \in SourceTables
  /\ read \in SourceTables \cup {None}
  /\ last \in SourceTables
  /\ exists \in BOOLEAN
  /\ target \subseteq Rows

(***************************************************************************)
(* A key has at most one open row, whatever it went through: `select ...    *)
(* where dbt_valid_to is null` lists each key once.  The closing and the    *)
(* inserting of a change are computed by two separate joins.                *)
(***************************************************************************)
OneOpenRow == \A r, s \in OpenRows : r.key = s.key => r = s

(***************************************************************************)
(* A snapshot run never changes or drops a closed row: history is only      *)
(* added to.  Rows are found by dbt_scd_id alone, so this rests on an open  *)
(* row never sharing the id of a closed one.                                *)
(***************************************************************************)
HistoryKept == [][\A r \in target \ OpenRows : r \in target']_vars

\* An open row shows a source row, or marks its deletion although the row was
\* back, stamped before that marker, when the marker was written.
Shows(r, entry) ==
  r.val = entry.val \/ (r.deleted /\ entry.stamp < r.from)

(***************************************************************************)
(* The open rows are the source as the last run read it: each source row    *)
(* has one that shows it, and an absent key has none (invalidate), a        *)
(* deletion marker (new_record), or its last row (ignore).                  *)
(***************************************************************************)
OpenRowsTrackSource ==
  exists =>
    \A k \in Keys :
      /\ last[k] # None => \E r \in OpenRows \cap RowsOf(k) : Shows(r, last[k])
      /\ last[k] = None /\ config.hardDeletes # "ignore" =>
           \A r \in OpenRows \cap RowsOf(k) :
             config.hardDeletes = "new_record" /\ r.deleted

(***************************************************************************)
(* The validity intervals of a key do not overlap: at any time at most one  *)
(* version is valid.  Not so for timestamp with invalidate: a row that      *)
(* comes back between a run's read of the source and its look at the clock  *)
(* is closed after the updated_at it comes back with.                       *)
(***************************************************************************)
IntervalsDisjoint ==
  config.strategy = "check" \/ config.hardDeletes # "invalidate" =>
    \A r, s \in target :
      r.key = s.key /\ r # s =>
        \/ r.to # Open /\ r.to <= s.from
        \/ s.to # Open /\ s.to <= r.from

(***************************************************************************)
(* A run that reads the source its predecessor read leaves the table as it  *)
(* is, so a snapshot may be run again at any time.  Only new_record writes  *)
(* a new marker per run for every key that is still deleted.                *)
(***************************************************************************)
RerunChangesNothing ==
  [][ApplyScd2 /\ read = last
       /\ (config.hardDeletes = "new_record" => OpenKeys \subseteq Present)
     => target' = target]_vars

(***************************************************************************)
(* The snapshot tests say of a row that was hard deleted and revived that   *)
(* its id has two records, one of which has a value in dbt_valid_to: a key  *)
(* that has a closed row keeps one when the row comes back.                 *)
(***************************************************************************)
RevivedHasClosedRow ==
  [][\A k \in Keys : RowsOf(k) \ OpenRows # {} =>
       (RowsOf(k) \ OpenRows)' # {}]_vars
=============================================================================
