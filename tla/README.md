# TLA+ specifications of dbt-polars

dbt-polars is a dbt adapter that runs models with Polars and stores tables in
files, Delta or Iceberg catalogs. These modules model the parts of it whose
correctness depends on interleavings, failures and order, check them with TLC
and prove the most important properties with TLAPS.

    tlc -config MCComputeSlots.cfg MCComputeSlots
    tlapm ComputeSlotsProofs.tla

`PROJECT.json` maps every definition to the source lines it models, lists the
hazards the properties are for, and names the runs and mutants (small, plausible
bugs that each property must detect; the operators are marked `Mutant:`).

Contents: [the system](#the-system), [modules](#modules), [runs](#runs),
[findings](#findings), [what the models show besides](#what-the-models-show-besides),
[proofs](#proofs), [not modelled](#not-modelled).

## The system

| Component | State | Operations | Talks to |
|---|---|---|---|
| Compute slots (`compute_slots.py`) | a semaphore; per thread `running_model`, `holding`, `releasable` | `configure`, `hold`, `releasable`, `release`, `ensure_held` | decorates adapter methods and the Iceberg client's `commit_table` |
| Nodes in worker threads (`impl.py`, macros) | what a node has computed | run a table, incremental, snapshot, seed or test node; set comments | compute slots, catalogs |
| Configuration (`impl.py`, `catalogs/__init__.py`) | node and source configs, catalogs by name | fill from the relations cache, the graph or the manifest, create a catalog once | every node |
| Incremental writes (`impl.py`) | none | schema change, then append, merge or delete+insert | any catalog |
| Snapshots (`impl.py`) | rows with validity intervals in the target table | compare with the source, close, insert | any catalog |
| Iceberg catalog (`icebergCatalog.py`, `iceberg_write_utils.py`) | table cache, known namespaces, last commit times | create/replace, append, merge, delete, snapshot delta, comments | an Iceberg catalog server, which checks what a commit was based on |
| Storage catalogs and formats (`storageCatalog.py`, `formats/`; local, S3, Azure) | files | write, append, merge, truncate, drop | file systems, object stores, delta-rs |
| Format routing (`tableFormatCatalog.py`) | loaded Iceberg catalog | choose Delta or Iceberg, drop to switch | Delta and Iceberg catalogs |
| Databricks | table registry, names known to be missing, known schemas, credentials | register, forget, create and drop schemas | Unity Catalog REST API |
| Fabric | formats of tables, token | list, remove directories, retried reads of metadata | OneLake |
| Snowflake | configuration, credentials | an Iceberg catalog with paced commits | |
| SQL rewriting, types, columns, utility macros | none | parse, format | |

What is hard here:

- *Concurrency.* dbt runs nodes in threads that share the adapter, its catalogs
  and the compute slots. A slot is given away in the middle of a node, through a
  decorator on the Iceberg client, and taken again by the next write.
- *Failure.* A commit is rejected, raises, or its result stays unknown and it
  lands later or never. Metadata commits are retried, data commits are not. A
  process may stop between creating, filling and registering a table, and a
  storage catalog has nothing but the files it left to tell what happened.
- *Order.* An increment is computed from a cached table and committed later; runs
  of the same project may overlap. Clients remember what catalogs told them.
- *Sequences of runs.* Snapshots, incremental tables and format changes carry the
  mistakes of one run into the next.

## Modules

| Module | Models | Checked by |
|---|---|---|
| `BoundedCompute` | the promise of `compute_threads`: at most `limit` threads compute | |
| `ComputeSlots` | `compute_slots.py`, under the most general client | `MCComputeSlots`, `ComputeSlotsProofs` |
| `ModelRun` | worker threads running nodes; composes `ComputeSlots` | `MCModelRun`, `ModelRunProofs` |
| `ConfigSharing` | configs and catalogs that worker threads fill, create and share | `MCConfigSharing`, `ConfigSharingProofs` |
| `AtomicTable` | the promise of the writers of one Iceberg table: each write is atomic | |
| `IcebergTable` | one Iceberg table and the dbt runs that write it | `MCIcebergTable`, `IcebergTableProofs` |
| `IncrementalWrite` | rows and columns of an incremental model in any format | `MCIncrementalWrite`, `IncrementalWriteProofs` |
| `SnapshotScd2` | rows of a snapshot and its source | `MCSnapshotScd2`, `SnapshotScd2Proofs` |
| `StorageTable` | one table of the local, S3 or Azure catalog, and stops at every step | `MCStorageTable`, `StorageTableProofs` |
| `FormatSwitch` | one table of Unity Catalog or Fabric that is Delta or Iceberg | `MCFormatSwitch`, `FormatSwitchProofs` |

### ComputeSlots

`running`, `holding` and `releasable` are the thread-local flags, `permits` the
semaphore's counter, `limit` what it was created with (0: no semaphore).
`blocks` is what Python's `with` remembers: the open blocks of each thread,
innermost last, each with the value its `finally` clause restores. Blocking in
`semaphore.acquire()` is two steps, `HoldWait`/`HoldAcquire` in `hold()` and
`EnsureWait`/`EnsureAcquire` in `ensure_held()`. A block closes (`HoldExit`,
`NestedExit`, `ReleasableExit`) at its end or when its body raises; for the
slots the two are the same. `Configure` happens only while no thread is inside a
block, because dbt builds its adapter before it runs nodes.

The client may call anything in any nesting, so the properties do not depend on
how the adapter uses the slots: `SlotsConserved` (no slot lost or given back
twice), `NoHoldAndWait` and its consequence `SomeHolderRuns` (no deadlock on the
semaphore; the second is only proved), `CleanWhenIdle` (the thread-local flags do
not leak into the thread's next node), `InnermostBlockDecides` (a model gives its slot
up mid-run only where the innermost open `releasable()` was called with TRUE: the
thread has one flag for all its blocks, each of which must put back what it found),
and the refinement of `BoundedCompute` with `computing <- Holders`.

### ModelRun

Each thread runs nodes one after the other. `Program` lists, per kind of node,
the steps that matter for the slot: entering and leaving the method decorated
with `@holds_compute_slot`, computing into memory, and the commits with what
they pass to `IcebergCatalog._commit`: a lazy frame, a collected frame, or
neither. A step that the code skips when there is nothing to do may be skipped.

A commit goes through the phases of `_commit`: `entered` (inside
`releasable(...)`), `sleep` (for `min_commit_interval`, having given the slot
away if it may), `ensure` (`ensure_held()`), `write` (computing and writing data
files), `commit` (after `release()` in the wrapped `commit_table`), and then
`committed` or `refused`. `_commit_metadata` repeats it up to four times. A
failing query, write or request leaves through `raise` and `Unwind`, which closes
the blocks one by one. `recent` says that the node's table was committed to less
than `min_commit_interval` ago; `Paced` is TRUE for Snowflake.

`collected` is a fact about memory, not a variable of the code: the node holds a
collected frame, until its method returns or raises. `ComputesWithSlot`,
`CollectedWithinLimit` and `SlotKeptOnlyForData` relate it to the slots;
`RunFinishes` says that a run ends.

### ConfigSharing

`nodeConfigs` and `sourceConfigs` are the keys of the adapter's two dictionaries,
`loaded` is `configs_loaded_from_manifest`. A thread that begins a node may first
run the loop of `store_source_configs` (`StoreSource`, one round each), then asks
for a relation: `Resolve` looks it up, `TestFlag` and `SetFlag` are the first two
lines of `load_configs_from_manifest`, `Fill` a round of its loops, `Lookup` and
`NotFound` the second look and its error. Reading or writing one key is atomic
(the interpreter's lock), everything longer interleaves.

The second half is double-checked locking, used three times in a row: the catalog
of a profile (`get_storage_catalog`), the Iceberg catalog inside it and the REST
client inside that. `FastRead` is the unlocked look, `TakeLock`, `Check`, `Make`,
`Unlock` the locked part, `Return` what the caller gets. `MakeFails` is a
constructor that raises and leaves the lock.

`OneInstance`: no two threads ever work with different objects, which the caches
and the commit pacing in them rely on. `UnknownOnlyWhileLoading`: a thread reports
"Could not find config for relation" for a relation of the manifest only while
another thread is in the filling loop and has that relation still before it. That
exception is real, see [below](#what-the-models-show-besides).

### IcebergTable

`table` is the table in the catalog: the id of its current snapshot, what it
contains, its partitioning and its schema. Of the schema two things count: whether
it is the model's ("new") or lacks a column or has another type ("old"), and which
of the columns that the model describes are there, with or without their comment
(`columns`). A schema changes from "old" to "new" only; a replace may drop a column
or add it again without its comment (`SyncedColumns`), an evolution only adds
(`UnitedColumns`). The data is reduced to the batch of rows with a key that every
run of the model computes (`copies`: how many rows the table has for a key of it)
and rows of other keys (`others`). An append model selects the rows that are not in
`{{ this }}` yet, as incremental models do; a merge or delete+insert model may also
select rows that are.

A run is a process with a cache of its own (`cached`) that goes through the
materialization: `publish` and `create` (`write_relation`), or `increment`
(`_incremental_write`), then `evolve` (schema evolution of a merge), `write` (the
data commit `operation`) and `comment` (`persist_docs`). `Write`, `EvolveSchema` and
`SetComments` load the table from the cache or the catalog, compute a commit and
send it. `set_comments` decides once, before its first attempt, which comments have
changed: `compared` is the table it compared with, kept through the retries. Each
attempt applies those comments to the table it loads, sends nothing if they are
there (`CommentsThere`) and raises if one of the columns is gone (`CommentsFail`,
pyiceberg's ValueError). The server is external. It takes a commit if the snapshot,
and the schema where that changes, are those the commit was computed from (`Valid`),
which are the requirements pyiceberg sends. Its answers are `Accept`, `Reject`,
`RejectAnyway` (a catalog that refuses a commit right after another) and
`LoseAnswer`: the client gets `CommitStateUnknownException` while the commit lands
later (`LandLate`) or never (`NeverLand`). `Crash` kills a run, or makes its query
raise, with or without a commit under way. `Begin` starts a run again.

The main property is the refinement of `AtomicTable`: whatever runs overlap,
crash or repeat, the contents of the table change as if each write read the
table, computed and wrote in one step. It holds because `{{ this }}` is read from
the same cached table that the commit is based on, so the server's check covers
the query as well, and because data commits are never retried. `BatchNotDoubled` is
its consequence for users. `SuccessMeansWritten`, `PartitionedAsConfigured` and
`DocsPersisted` say what a run that goes on or ends well has achieved. `DocsPersisted`
has an exception that the code needs: when another run changes the schema after
`set_comments` compared, and adds a column again, no retry looks at that column, and the
run ends well without its comment.

### IncrementalWrite

`table` is a set of columns and of rows, each with a key (perhaps NULL), its cells
and the run it was `born` in, which only tells rows apart. `config` is what the
model says: format, strategy, `unique_key`, `on_schema_change`,
`merge_update_columns`, `merge_exclude_columns`. A run gets any data: `FullRun`
creates or replaces the table, `RejectRun` is the errors of `_apply_schema_change`
and `_incremental_write`, `SyncRun` the rewrite of the table for a removed column,
and `IncrementalRun` begins the calls into the catalog: `EvolveSchema` (Iceberg's
separate commit), `Merge`, or `DeleteMatched` and `Append`. `Crash` stops a run
between two of them, `WriteRaises` is a format that refuses what it is given.

The three formats merge differently: delta-rs by MERGE, plain files by
`existing.update` and a concatenation, Iceberg by pyiceberg's upsert or, with a
schema change, an anti-join. `Merged`, `Remaining` and `Appended` say what each
does to rows and columns. The properties are the same for all: `OneRowPerKey`,
`IncrementApplied` (after a run that ends well every fetched row is in the table,
new or as an update that spares the protected columns), `OthersUntouched` (no
other row is lost or changed, also by a run that is killed) and
`ColumnsFollowPolicy`.

### SnapshotScd2

A snapshot keeps the history of a source: `target` is its rows, `source` the
table it reads, which changes, loses rows and gets them back at any time. A run
is two steps, because the code reads the source before it looks at the clock:
`ReadSource`, then `FirstSnapshot` (no table yet) or `ApplyScd2`
(`_snapshot_apply_scd2`: the joins of open rows and source rows that give
`RowsToClose` and `RowsToInsert`, and `apply_snapshot_delta` of the storage
format). `IcebergWrite`, `DeltaWrite` and `FileWrite` all find rows by
`dbt_scd_id`, the hash of key and `updated_at` (`ScdId`), but differ in what they
do with a row that has a staged id. `config` is the strategy, `hard_deletes` and
the format, fixed for all runs of a snapshot. `stamp` is the `updated_at` in the
id, `born` keeps physical rows apart and is not stored.

`HistoryKept`, `OneOpenRow` and `IntervalsDisjoint` are what makes the table a
history, `OpenRowsTrackSource` what makes it that of this source, and
`RerunChangesNothing` lets a failed run be repeated. Three limits, which the code
has and the properties state:

- timestamp with invalidate reuses an id when a deleted row comes back with its
  old `updated_at` (see the finding). `RestoringConfigs` leaves this case out of
  the passing run;
- with the same settings, a row that comes back between a run's read and its look
  at the clock gets an interval that starts before the previous one ends;
- `new_record` writes another marker for each deleted key in every run, and a key
  that comes back keeps its marker until it changes (for check: its value; for
  timestamp: to an `updated_at` after the marker).

### StorageTable

The storage catalogs have no server: whether a table exists, and what a stopped
node left, is read from the object store. `object` is what is at the path of each
format: `none`, data `files` without a Delta log, a `whole` table, a Delta table
of which parts are gone (`hollow`), or a plain file that was cut (`torn`). Rows
are the numbers of the nodes that produced them. `todo` is the calls that the
macros and Python code make for the node under way, in their order: `load`
(`write_relation`), `append` and `extend` (the read and the write of
`append_relation` and its kin), `truncate` and `empty`, `drop`. `busy` says that
the first of them has begun to change storage: `StartWrite` and `Commit`,
`DropPart` and `DropDone`.

`BeginIncrement`, `BeginLoad` and `BeginClear` are what the materializations do
first: a SQL model goes by dbt's listing (`Listed`, any format), Python models and
snapshots ask the catalog (`TableExists`: the path on a local disk, a Delta log or
a file elsewhere), stored tests drop what is listed and seeds truncate or drop it.
`Stop` kills the process or fails the call at any step; `DropIgnored` is
`rmtree(ignore_errors=True)`. Between nodes a person may drop the schema or change
`file_format`.

`LeftoversDontBlock` says when what others left behind makes a later node raise,
`SuccessKeepsHistory` that after a node that ends well the table has exactly the
rows it owes: the last complete load and each increment since. Their exceptions
are the weak spots of storage without a catalog, and each of them occurs: without
any one of them TLC finds a counterexample.

### FormatSwitch

One table that may be Delta or Iceberg, in Unity Catalog (`kind` "unity") or
Fabric, which both go through `TableFormatCatalog`. `table` is what the catalog
has registered, `log` the Delta log in the table's own location, `schema` that
the schema exists, `converted` that Fabric has generated the Delta log of an
Iceberg table; `Shown` is what a client is told. `cache` is what each process
remembers: the table, or that there is none, its location, the loaded Iceberg
table, credentials, the schema.

Each request is a step of a node: `Look` and what `write_relation` decides,
`Vend`/`Unregister`/`Clean` or `RemoveDirectory` for a table of another format,
`CreateSchema`, `Credentials` (of the table at the location, or of a path that has
none), `Write`, `Register` and `After` for Delta,
`Find`, `Create` and `Commit` for Iceberg, `Validate` and `Reject` for an
increment. `Fail` ends an invocation at any of them (the process is killed, a
request fails or its answer is lost), `LeaveStorage` is a cleanup whose error is
only logged, `Raise` a request that the catalog refuses.

`SuccessMeansPublished`: a node that ends well has published its rows in its
format, or a run that overlaps has replaced them. `LeftoversAndRacesDontBlock`: no
remains of failed runs make a later run fail, nor does losing a race for a Delta
table or a schema. One refusal is left: a process that believes the location free asks
for the credentials of the path to create a table there, and the catalog, which is
external, may refuse them once another process has registered its table
(`RefusesPath`). `CachesStayTrue`: what a node remembers for the next node of
its process is still so, as long as no other process interferes.

## Runs

| Run | Configuration | Shows |
|---|---|---|
| `slots` | 3 threads, limits none/1/2, nesting 3 | all properties of `ComputeSlots` |
| `nodes` | 2 threads, limits none/1/2, 2 nodes of 6 kinds, paced, fairness | all properties of `ModelRun` |
| `python_frames` | 2 threads, 1 slot, with Python models that return a frame | `CollectedWithinLimit` is **violated** |
| `config_sharing` | 3 threads, 1 node, 2 sources, 2 levels of objects, 4 nodes run | all properties of `ConfigSharing` |
| `iceberg_overlap` | 2 runs, 2 starts, 1 fault, 1 other append, partitioned, 2 described columns | atomic writes under overlap, `DocsPersisted` |
| `iceberg_rerun` | 1 run, 3 starts, 2 faults, 1 crash, all strategies, fairness | the same for runs that follow each other, `SuccessMeansWritten` and `MetadataGetsThrough` |
| `incremental_rows` | 1 key and NULL, 2 columns, 3 runs, every format, strategy and policy | all properties of `IncrementalWrite` |
| `incremental_sync` | Delta, delete+insert, sync_all_columns | `OneRowPerKey` is **violated** |
| `snapshot_history` | 2 keys, 2 values, 6 ticks, all 18 configurations | all properties of `SnapshotScd2` |
| `snapshot_revived` | Delta, timestamp, invalidate | `RevivedHasClosedRow` is **violated** |
| `storage_tables` | 3 storages, 3 formats, 6 kinds, 4 nodes, 2 stops | all properties of `StorageTable` |
| `format_switch` | 2 processes, both catalogs, 4 nodes, 2 faults | all properties of `FormatSwitch` |

*Bounds.* Three threads with two slots give a holder, a thread that takes the other
slot and one that waits; nesting three deep is a model (`hold`) with a nested `hold`
and a `releasable`, deeper than the adapter goes. Two nodes on two threads may run
at the same time or one after the other on one thread, which is what could leak from
the first. Three threads in `ConfigSharing` are one that fills, one that has read
the flag and one that comes later; two sources make a half filled dictionary; a
third level of objects would repeat the second. Two starts of an Iceberg table
overlap, three follow each other; one fault in an overlap, two in sequence, put a
late commit before, between and after the commits of the other run. Two described
columns are one whose comment a commit sets and one that it leaves; a schema change
by the other run refuses the first attempt or lands between two of them. Snapshot
ids need no bound: the starts bound the commits. Three runs of an incremental model
are a full run, a change and a run on the changed table; one key is enough because
rows of different keys only meet through NULL and the columns. A tick is a change of
the source or the write of a snapshot run: six, on a source that may start with
rows, are three or more runs with a change, a deletion and a return of the row
between them, and a second key makes runs that both close and revive. Four nodes
with two stops or faults are a table, two damaged attempts and a node that has to
cope, and in `StorageTable` every exception of the properties occurs within them.
`MaxDepth`, `NodeCount`, `MaxNodes`, `Depth`, `MaxStarts`, `MaxFaults`,
`MaxCrashes`, `MaxAppends`, `MaxMishaps`, `MaxRuns` and `MaxTime` are all the bounds
there are. Where the last of them ends the behaviour (the Iceberg, incremental,
storage, format and configuration runs) deadlock is not checked; in the others it
is.

*Symmetry* permutes threads, processes, runs, columns, keys, values or sources, in safety
checks only.

*Fairness.* `ModelRun!FairSpec`: weak fairness of each thread (a thread that can
go on does; requests have timeouts) and of time passing. The semaphore is not
assumed to be fair; nodes are finite, so a waiting thread gets its turn when
the others run out. `IcebergTable!FairSpec`: weak fairness of each run's work.
The other modules promise nothing about progress: their nodes run straight
through, and no step waits for another node but the locks of `ConfigSharing`,
whose holder always goes on to `Unlock`.

`MetadataGetsThrough` excepts runs that are killed and comments whose column another
commit, a late one, has dropped. It holds for two faults, not for three: with four
attempts, three faults and the first, lost commit landing between the load and the
commit of the last attempt, that attempt is rejected too and the node fails,
although the change is in the table.

## Findings

`python_frames`: `_run_python_model` turns a DataFrame that a Python model
returned into a LazyFrame (`impl.py:726`). `_commit` looks at the type only, so it
gives the slot away during the commit while the data is still in memory, and
another model collects its data. `docs/guides/performance.md:237` promises that
with `compute_threads: 1` only one model is in memory. Models that return a
LazyFrame, and SQL models, keep the promise: run `nodes`.

`incremental_sync`: with `on_schema_change: sync_all_columns` and a column that is
no longer selected, `_apply_schema_change` (`impl.py:847-857`) adds all new rows to
all existing ones and the run ends there, whatever the strategy and `unique_key`.
`docs/tutorial/incremental-ingestion.md:32` says that rows fetched again replace
the existing ones.

`snapshot_revived`: with timestamp and invalidate, a row that was deleted and
comes back with its old `updated_at` is inserted under the id of its own closed
record. When the same run closes a row of another key, `DeltaFormat.apply_snapshot`
(`formats/delta.py:150-169`) merges on the id alone and updates the closed record
instead of inserting: the deletion is gone from the history. The tests
(`testing/data_operations/simple_snapshot/snapshot.py:107-110`) say that such an
id has two records; theirs closes no other row in that run, so it appends. On
Iceberg and plain files the record is lost later, when the revived row is closed,
which takes both rows with the id along.

## What the models show besides

Behaviour that the properties leave out or state as an exception, because the
code has it and its documentation is silent, vague or about another case:

- *Configuration.* `load_configs_from_manifest` sets its flag before it fills the
  dictionaries. With `--no-populate-cache` two threads, or with a filled cache and
  half filled sources three, are enough for one to report a relation of the
  manifest as unknown while another is still filling.
- *Merging NULL.* In plain files `existing.update` keeps the old value where the
  new one is NULL (`formats/file.py:116`), while Delta and Iceberg store the NULL.
  `NullWrites` therefore has no merge into a plain file.
- *A killed first write on a local disk.* The directory of a Delta table exists
  before its log. Python increments and snapshots, which ask `table_exists`, then
  append to a table that is not there and raise in every later run; SQL models,
  which go by the listing, recover.
- *Torn files.* On a local disk a plain file is written in place. After a kill a
  parquet file cannot be read, and a csv file may read as fewer rows, which the
  next increment then stores as the table.
- *A changed `file_format`.* The table in the old format stays and is still listed
  under its name. A SQL increment then looks for a table in the new format and
  raises, or goes on with a stale table when the format changes back.
- *Half done drops.* `rmtree` and S3 delete a Delta table in pieces and may leave a
  log without its beginning or data files. Reading or writing it again raises,
  except for stored tests, which drop the relation first.
- *Format changes under overlap.* A table is dropped by name and before the new
  one is written. Of two overlapping runs with different formats one may drop what
  the other has just published; two that create the same Iceberg table collide.
  Long-lived processes keep what they remember of a table another process changed.
- *Overlapping delete+insert.* Two commits: a run that deletes and reloads between
  the other's delete and insert adds its rows a second time.

## Proofs

Each proof module extends its component and proves an inductive invariant `IInv`,
one lemma per action, and the theorems as its consequences. Every invariant, action
property and refinement that a passing run checks is a theorem. TLC has checked each
`IInv` on the instances of the runs before it was proved, which for `ModelRun`,
`IcebergTable`, `SnapshotScd2` and `FormatSwitch` means between 0.6 and 5.4 million
states; the theorems hold for all values of the constants.

`ComputeSlotsProofs`, for every finite set of threads, every limit and every nesting
depth: `TypeCorrect`, `SlotConservation` (`SlotsConserved`), `WaitersHoldNothing`
(`NoHoldAndWait`), `NoSlotDeadlock` (`SomeHolderRuns`), `NothingCarriedOver`
(`CleanWhenIdle`), `InnermostDecides` (`InnermostBlockDecides`), and `Refinement`:
`ComputeSlots` implements `BoundedCompute`. None of these is inductive. That the
counter is right depends on the flags, and the flags are right because of the
blocks: `holding` implies `running`, `releasable` is what the innermost `releasable`
block was called with, and the value each block restores that of the block around
it, a thread is `running` exactly while one `slot` block is open in it, the
outermost `releasable` block restores FALSE, and a thread waits in `hold()` only
outside a model, in `ensure_held()` only without a slot. `IInv` says so. Each action
has a lemma (`HoldAcquireStep`, ...) which shows that it keeps the acting thread's
part and the counter; `OtherThread` covers the threads that do not act. The effects
of opening and closing a block on the sequence of blocks are the lemmas `PushEffect`
and `PopEffect`.

`ConfigSharingProofs`, for any threads, relations, levels and number of nodes:
`TypeCorrect`, `NobodyLeavesARelationOut` (`UnknownOnlyWhileLoading`) and
`AllShareOne` (`OneInstance`). The invariant of the first is a promise: once the
flag is set, each relation is stored or some thread still has it in its loop; the
thread that has set the flag keeps the promise through its stages. That of the
second says that a level's object is only made by the holder of its lock, between
its check and its publication, so that what a thread was given is the published
object or, in that stage, nobody has one.

`StorageTableProofs`, for any storages, kinds, formats and numbers of nodes and
stops: `TypeCorrect`, `OnlyNamedLeftoversBlock` (`LeftoversDontBlock`) and
`HistoryIsKept` (`SuccessKeepsHistory`). `Shape` says which calls a node can have
left, `ObjectInv` where every damaged object comes from: a stop of that sort, or the
call under way. `HistoryInv` and `ExtendInv` carry the rows of the table and of the
increment that was read from it. `DoneFacts` and `DoneInv` handle the end of a call
once for the four actions that end one.

`ModelRunProofs`, for every finite set of threads, any limit and any mix of nodes.
`NodesUseSlots`: a run of nodes is a behaviour of `ComputeSlots`, step by step, so all
that `ComputeSlotsProofs` says of the slots holds of the nodes. On top of it
`TypeCorrect`, `PolarsRunsWithSlot` (`ComputesWithSlot`), `LazyCommitsBlockNobody`
(`SlotKeptOnlyForData`), `FramesWithinLimit` (`CollectedWithinLimit`) and `Refinement`
(`ImplementsBoundedCompute`). The invariant ties the step of the program to the blocks
that are open there (`PlaceInv`, `BlocksInv`), and says where a model may be without
its slot: in the commit of a lazy frame, or on its way out after one (`SlotInv`). A
collected frame was collected since the model began, and its program never gives the
slot away after that (`DataInv`). `FramesWithinLimit` assumes that "pythonFrame" is not
among the `Kinds`; the run `python_frames` shows that the code does not keep the
limit otherwise.

`IcebergTableProofs`, for any runs, strategies and bounds: `TypeCorrect`, `NotDoubled`
(`BatchNotDoubled`), `Written` (`SuccessMeansWritten`), `LandsPartitioned`
(`PartitionedAsConfigured`), `CommentsSet` (`DocsPersisted`) and `Refinement`
(`ImplementsAtomicTable`). What is not inductive is that a commit which is accepted
carries the right rows: it was computed earlier, from a cached table. The invariant
therefore speaks of every table that is cached or under way, late commits included
(`Consistent`): as long as the table still has that snapshot, it holds what the
cached one says. The server's check turns this into atomicity. `NotDoubled` and
`Refinement` assume `OneCommitOrOneRun`, no overlapping runs with delete+insert, whose
two commits are not one. `CommentsSet` rests on what the retries share: every request of a
run describes all columns that had no comment in the table it compared.

`IncrementalWriteProofs`, for any keys, columns, configurations and number of runs:
`TypeCorrect`, `OneRow` (`OneRowPerKey`), `ColumnsFollow` (`ColumnsFollowPolicy`),
`OthersStay` (`OthersUntouched`) and `Applies` (`IncrementApplied`). A run writes in up
to two calls; the invariant says which columns the data has by the second
(`ColumnsInv`) and that the delete has left no row which the insert would double
(`DeletedInv`). `OneRow` assumes `KeysKept`, no sync_all_columns with a key, which is the
finding of `incremental_sync`. `Applies` assumes `FilesWithoutNulls`, no merge of NULLs
into plain files, [where the old value stays](#what-the-models-show-besides).

`SnapshotScd2Proofs`, for any keys, values, clock and configurations: `TypeCorrect`,
and, assuming `NoIdReused`, `OneOpen` (`OneOpenRow`), `Disjoint` (`IntervalsDisjoint`),
`Tracks` (`OpenRowsTrackSource`), `KeepsHistory` (`HistoryKept`) and `Rerun`
(`RerunChangesNothing`). All of them rest on one fact: an id is that of one row, and the
id of a new row is new, so three formats that look for rows in three ways find the
same ones. That needs the stamps: `SourceInv` orders what a run has read before what
the source holds now, `StampsInv` both after what the table holds, and a marker of a
deletion has a stamp that no row ever gets. `NoIdReused` says that rows do not come
back with their old `updated_at` when timestamps and invalidate are configured, where
`snapshot_revived` shows the opposite.

`FormatSwitchProofs`, for both catalogs and any processes, nodes and faults:
`TypeCorrect`, `NothingBlocks` (`LeftoversAndRacesDontBlock`), `CachesTrue`
(`CachesStayTrue`) and `PublishedThen` (`SuccessMeansPublished`). The invariant has three
layers. `StageInv` and `CacheInv` say what a node can be doing and remember at a stage,
whatever others do. `KnownInv` and `BatchInv` say what is true of the catalog while no
other process has dropped the table: a remembered table is the registered one, the
table to drop is still there, a location without a table is not that of an Iceberg
table. `AloneInv` adds what is complete when no other process has run: a table known
to be missing is missing. `Keeps` lists what a step of another process leaves of the
second layer; `Step`, `QuietStep` and `ClosingStep` use it once for all actions.
`OverlapInv` is the model's restriction on overlapping runs: configured alike, and none
of them a stored test or a dropped schema. `NothingBlocks` leaves out what its property
does: a dropped table, two creators of one Iceberg table, and the credentials of a path
where another process has just registered a table.

The assumptions on constants are those named in the modules: finite threads, natural
numbers for limits and bounds, disjoint kinds of relations, and known names of storages,
catalogs, kinds and formats. A theorem that needs more says so in its `ASSUME`: they are
the five named above.

Only model-checked: the liveness properties `RunFinishes` and `MetadataGetsThrough`,
which the prover cannot reach, and the three counterexamples of the findings.

## Not modelled

- *SQL rewriting, types and columns*: pure parsing and formatting; their
  correctness is a matter of SQL dialects, not of states.
- *Schemas and credentials*: building relations, validating their configuration,
  sessions and tokens. A token that expires in a long write makes it fail like any
  other write.
- *Reading the catalog for docs* (`get_catalog`, listings, comments of Delta tables,
  external locations): they change nothing. In `get_catalog` one table that cannot
  be read ends the loop over its schema, so the tables after it are missing.
- *Iceberg*: drops, `truncate_relation`, namespaces, and threads of one process that
  read a table while another writes it: `_load_table` looks into the cache twice,
  and an invalidation in between raises `KeyError`. dbt's graph keeps writers and
  readers of a table apart unless a model names a table instead of `ref`ing it.
  `min_commit_interval` is kept by one node, not between two that commit at once.
- *Overlapping runs of storage tables, snapshots and incremental models outside
  Iceberg*: delta-rs resolves conflicts by its own rules and plain files have none;
  nothing in the repository promises more than the last writer wins.
- *What delta-rs does with a table whose log or data are partly gone* is external:
  `StorageTable` lets reads of it fail or succeed and keeps it hollow until a truncate
  or a drop.
- *Tests, fixtures and the catalog template* have no behaviour of their own.
