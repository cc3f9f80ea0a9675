---------------------------- MODULE IcebergTable ----------------------------
(***************************************************************************)
(* One model's table in an Iceberg catalog and the dbt runs that write it:  *)
(* IcebergCatalog (icebergCatalog.py) with its table cache, driven by       *)
(* polars_execute_model and _incremental_write (impl.py) and persist_docs.  *)
(* A run is a process of its own with a cache of its own; runs may overlap, *)
(* crash, and be started again.                                             *)
(*                                                                         *)
(* The catalog server is external.  A commit carries what it was computed   *)
(* from, and the server accepts it when the table's current snapshot, and   *)
(* schema where it changes, are still those (pyiceberg's requirements).     *)
(* Its answer can get lost while the commit lands, later or never.          *)
(*                                                                         *)
(* The data is one batch of rows with a key: the increment that every run   *)
(* of the model computes, and `others`, rows of other keys.  The comments   *)
(* are those of columns; the comment of the table itself is left out.       *)
(***************************************************************************)
EXTENDS Naturals, FiniteSets

CONSTANTS
  Runs,         \* dbt invocations that write the table
  Columns,      \* the columns that the model's YAML describes
  Strategies,   \* what the model may be: a subset of AllStrategies
  Partitioned,  \* whether the model has a partition_by
  Overlap,      \* TRUE: runs may overlap
  MaxStarts,    \* bound: how many times runs are started in all
  MaxFaults,    \* bound: lost answers and rejections for no reason
  MaxCrashes,   \* bound: runs killed
  MaxAppends    \* bound: appends by others

AllStrategies == {"table", "append", "merge", "delete+insert"}

ASSUME StrategiesAreKnown == Strategies \subseteq AllStrategies
ASSUME OptionsAreBooleans == Partitioned \in BOOLEAN /\ Overlap \in BOOLEAN
ASSUME BoundsAreNaturals ==
  /\ MaxStarts \in Nat /\ MaxFaults \in Nat
  /\ MaxCrashes \in Nat /\ MaxAppends \in Nat

COMMIT_ATTEMPTS == 4

VARIABLES
  strategy,   \* the model's strategy, the same in every run
  table,      \* the table in the catalog
  snapshots,  \* snapshots made so far: the next one's id is one more
  late,       \* commits whose answer got lost, still under way to the server
  stage,      \* what each run does next
  cached,     \* each run's _table_cache entry for the table, or NoTable
  operation,  \* the data commit each run has to make
  batch,      \* the run's increment has rows
  compared,   \* what a set_comments under way compared its comments with, or NoTable
  request,    \* the commit each run waits for
  attempt,    \* attempts of _commit_metadata at the current step
  written,    \* the run's data commit landed
  starts, faults, crashes, appends

runVars == <<stage, cached, operation, batch, compared, request, attempt>>
bounds == <<starts, faults, crashes, appends>>
vars == <<strategy, table, snapshots, late, runVars, written, bounds>>

(***************************************************************************)
(* A table: its current snapshot (0: none), what that snapshot holds, its   *)
(* partition spec, and its schema: "old" lacks a column or has another type *)
(* than the model, and `columns` says which of the described columns are    *)
(* there, with or without their comment.                                    *)
(***************************************************************************)
ColumnFunctions == [Columns -> {"absent", "plain", "described"}]

Table == [snapshot : Nat, copies : Nat, others : Nat, partitioned : BOOLEAN,
          schema : {"old", "new"}, columns : ColumnFunctions]

NoTable == [snapshot |-> 0, copies |-> 0, others |-> 0, partitioned |-> FALSE,
            schema |-> "none", columns |-> [c \in Columns |-> "absent"]]

\* Mutant: the table is created with its partitions but without its columns.
EmptyTableBare == [NoTable EXCEPT !.partitioned = TRUE]

\* create_table with the model's schema: no data, no partitions, no comments.
EmptyTable == [NoTable EXCEPT !.schema = "new", !.columns = [c \in Columns |-> "plain"]]

DataOperations == {"replace", "fill", "append", "merge", "delete", "insert"}

Stages == {"off", "publish", "create", "increment", "evolve", "write",
           "comment", "done", "failed"}

Request == [stage : {"none", "evolve", "write", "comment"},
            base : Table \cup {NoTable}, after : Table \cup {NoTable}]

NoRequest == [stage |-> "none", base |-> NoTable, after |-> NoTable]

Exists == table # NoTable
Sent(r) == request[r].stage # "none"
Resting(r) == stage[r] \in {"off", "done", "failed"}
At(r, s) == stage[r] = s /\ ~Sent(r)

Init ==
  /\ strategy \in Strategies
  /\ \/ table = NoTable
     \/ \E c \in {0, 1}, p \in BOOLEAN, s \in {"old", "new"}, f \in ColumnFunctions :
          table = [snapshot |-> 1, copies |-> c, others |-> 0,
                   partitioned |-> p, schema |-> s, columns |-> f]
  /\ snapshots = 1
  /\ late = {}
  /\ stage = [r \in Runs |-> "off"]
  /\ cached = [r \in Runs |-> NoTable]
  /\ operation = [r \in Runs |-> "replace"]
  /\ batch = [r \in Runs |-> FALSE]
  /\ compared = [r \in Runs |-> NoTable]
  /\ request = [r \in Runs |-> NoRequest]
  /\ attempt = [r \in Runs |-> 1]
  /\ written = [r \in Runs |-> FALSE]
  /\ starts = 0 /\ faults = 0 /\ crashes = 0 /\ appends = 0

-----------------------------------------------------------------------------
\* Mutant: every operation asks the server for the table.
LoadedFresh(r) == table

\* _load_table: the cached table, or else the catalog's.
Loaded(r) == IF cached[r] # NoTable THEN cached[r] ELSE table

GoTo(r, s) == stage' = [stage EXCEPT ![r] = s]
Cache(r, t) == cached' = [cached EXCEPT ![r] = t]
Server == <<strategy, table, snapshots, late>>

(***************************************************************************)
(* A run starts in a process of its own.  load_relation(this) says whether  *)
(* the table was there when dbt listed the schema.                          *)
(***************************************************************************)
Begin(r, fullRefresh) ==
  /\ Resting(r) /\ starts < MaxStarts
  /\ Overlap \/ \A s \in Runs : Resting(s)
  /\ starts' = starts + 1
  /\ IF strategy = "table" \/ ~Exists \/ fullRefresh
     THEN GoTo(r, "publish") ELSE GoTo(r, "increment")
  /\ Cache(r, NoTable)
  /\ batch' = [batch EXCEPT ![r] = TRUE]
  /\ attempt' = [attempt EXCEPT ![r] = 1]
  /\ written' = [written EXCEPT ![r] = FALSE]
  /\ UNCHANGED <<Server, operation, compared, request, faults, crashes, appends>>

\* write_relation asks the catalog, not its cache, whether to replace or create.
Publish(r) ==
  /\ At(r, "publish")
  /\ operation' = [operation EXCEPT ![r] = IF Exists THEN "replace" ELSE "fill"]
  /\ GoTo(r, IF Exists THEN "write" ELSE "create")
  /\ UNCHANGED <<Server, cached, batch, compared, request, attempt, written, bounds>>

\* create_table raises when another run has created the table by now.
CreateTable(r) ==
  /\ At(r, "create")
  /\ IF Exists
     THEN GoTo(r, "failed") /\ UNCHANGED <<table, cached>>
     ELSE GoTo(r, "write") /\ table' = EmptyTable /\ Cache(r, EmptyTable)
  /\ UNCHANGED <<strategy, snapshots, late, operation, batch, compared, request,
                 attempt, written, bounds>>

\* Mutant: the partitioning of the existing table is not compared.
SamePartitioningIgnored(t) == TRUE

SamePartitioning(t) == t.partitioned = Partitioned

FirstOperation ==
  CASE strategy = "merge" -> "merge"
    [] strategy = "delete+insert" -> "delete"
    [] OTHER -> "append"

(***************************************************************************)
(* Before an incremental write: the query reads {{ this }} and the checks   *)
(* look at its partitions and columns, all on the cached table.  An append  *)
(* model selects what is not in the table yet; the other strategies may     *)
(* select rows that are there.  New columns evolve the schema of a merge in *)
(* a commit of its own, that of an append in the commit with the data.      *)
(***************************************************************************)
Prepare(r) ==
  /\ At(r, "increment")
  /\ Cache(r, Loaded(r))
  /\ IF ~SamePartitioning(Loaded(r))
     THEN GoTo(r, "failed") /\ UNCHANGED <<operation, batch>>
     ELSE /\ operation' = [operation EXCEPT ![r] = FirstOperation]
          /\ \E b \in BOOLEAN :
               /\ strategy = "append" => b = (Loaded(r).copies = 0)
               /\ batch' = [batch EXCEPT ![r] = b]
          /\ \/ strategy = "merge" /\ GoTo(r, "evolve")
             \/ GoTo(r, "write")
  /\ UNCHANGED <<Server, compared, request, attempt, written, bounds>>

-----------------------------------------------------------------------------
Send(r, base, after) ==
  request' = [request EXCEPT ![r] =
    [stage |-> stage[r], base |-> base, after |-> after]]

\* What follows a step that is done, in the materialization.
StageAfter(r) ==
  CASE stage[r] = "write" /\ operation[r] # "delete" -> "comment"
    [] stage[r] = "comment" -> "done"
    [] OTHER -> "write"

OperationAfter(r) ==
  IF stage[r] = "write" /\ operation[r] = "delete" THEN "insert" ELSE operation[r]

Forget(r) == compared' = [compared EXCEPT ![r] = NoTable]

StepDone(r) ==
  /\ GoTo(r, StageAfter(r))
  /\ Forget(r)
  /\ operation' = [operation EXCEPT ![r] = OperationAfter(r)]
  /\ attempt' = [attempt EXCEPT ![r] = 1]

\* merge_relation and delete_matched_relation return early for an empty frame.
NothingToWrite(r) == operation[r] \in {"merge", "delete"} /\ ~batch[r]

SkipWrite(r) ==
  /\ At(r, "write") /\ NothingToWrite(r)
  /\ StepDone(r)
  /\ UNCHANGED <<Server, cached, batch, request, written, bounds>>

(***************************************************************************)
(* The contents a data commit gives the table, computed from `base`.        *)
(***************************************************************************)
CopiesAfter(r, base) ==
  CASE operation[r] = "delete" -> 0
    [] operation[r] \in {"replace", "merge"} -> 1
    [] OTHER -> base.copies + (IF batch[r] THEN 1 ELSE 0)

OthersAfter(r, base) == IF operation[r] = "replace" THEN 0 ELSE base.others

\* _sync_partition_spec is part of a write_relation only.
PartitionedAfter(r, base) ==
  IF operation[r] \in {"replace", "fill"} THEN Partitioned ELSE base.partitioned

(***************************************************************************)
(* The columns after a schema change.  _sync_schema of a replace drops what *)
(* the result lacks, adds what the table lacks, and re-adds a column with   *)
(* another type, without its comment.  union_by_name only adds.             *)
(***************************************************************************)
SyncedColumns(columns) ==
  {f \in ColumnFunctions :
     \A c \in Columns : f[c] = "described" => columns[c] = "described"}

UnitedColumns(columns) ==
  {f \in ColumnFunctions :
     \A c \in Columns : f[c] = columns[c] \/ (columns[c] = "absent" /\ f[c] = "plain")}

\* The schemas a data commit may leave; an append may evolve.
SchemasAfter(r, base) ==
  CASE base.schema = "old" /\ operation[r] = "replace" ->
         {"new"} \X SyncedColumns(base.columns)
    [] base.schema = "old" /\ operation[r] \in {"append", "insert"} ->
         {<<"old", base.columns>>} \cup {"new"} \X UnitedColumns(base.columns)
    [] OTHER -> {<<base.schema, base.columns>>}

\* _commit(identifier, write, data): load the table, compute, send the commit.
Write(r) ==
  /\ At(r, "write") /\ ~NothingToWrite(r)
  /\ Cache(r, Loaded(r))
  /\ \E s \in SchemasAfter(r, Loaded(r)) :
       Send(r, Loaded(r),
         [snapshot |-> 0,  \* the id is given when it lands
          copies |-> CopiesAfter(r, Loaded(r)),
          others |-> OthersAfter(r, Loaded(r)),
          partitioned |-> PartitionedAfter(r, Loaded(r)),
          schema |-> s[1], columns |-> s[2]])
  /\ UNCHANGED <<Server, stage, operation, batch, compared, attempt, written, bounds>>

(***************************************************************************)
(* evolve_schema of a merge, through _commit_metadata.  Each attempt starts *)
(* from the table it loads; when that has the columns already, pyiceberg    *)
(* has no update and sends nothing.                                         *)
(***************************************************************************)
EvolveSchema(r) ==
  /\ At(r, "evolve")
  /\ Cache(r, Loaded(r))
  /\ \/ /\ Loaded(r).schema = "new"
        /\ StepDone(r)
        /\ UNCHANGED request
     \/ /\ Loaded(r).schema = "old"
        /\ \E f \in UnitedColumns(Loaded(r).columns) :
             Send(r, Loaded(r), [Loaded(r) EXCEPT !.schema = "new", !.columns = f])
        /\ UNCHANGED <<stage, operation, compared, attempt>>
  /\ UNCHANGED <<Server, batch, written, bounds>>

(***************************************************************************)
(* set_comments compares once, before its first attempt, which comments     *)
(* have changed, and returns when none has; every attempt of set_all sets   *)
(* those and no others, on the table it loads.                              *)
(***************************************************************************)
Compared(r) == IF compared[r] # NoTable THEN compared[r] ELSE Loaded(r)

Changed(r) == {c \in Columns : Compared(r).columns[c] = "plain"}

\* update_column raises a ValueError for a column that is gone by now.
ChangedColumnGone(r) == \E c \in Changed(r) : Loaded(r).columns[c] = "absent"

CommentsAfter(r, base) ==
  [base EXCEPT !.columns =
    [c \in Columns |-> IF c \in Changed(r) THEN "described" ELSE base.columns[c]]]

\* Mutant: a retry takes the lost answer for a success.
NoUpdateOnRetry(r, base) == attempt[r] > 1 \/ CommentsAfter(r, base) = base

\* Nothing changed, or the loaded table has the comments: nothing is sent.
NoUpdate(r, base) == CommentsAfter(r, base) = base

\* Mutant: the node goes on after its commit failed.
StageAfterFailureIgnored(r) == StageAfter(r)

StageAfterFailure(r) == "failed"

CommentsFail(r) ==
  /\ ChangedColumnGone(r)
  /\ GoTo(r, StageAfterFailure(r))
  /\ Forget(r)
  /\ Cache(r, NoTable)
  /\ UNCHANGED <<operation, request, attempt>>

CommentsThere(r) ==
  /\ ~ChangedColumnGone(r) /\ NoUpdate(r, Loaded(r))
  /\ StepDone(r)
  /\ Cache(r, Loaded(r))
  /\ UNCHANGED request

CommentsSent(r) ==
  /\ ~ChangedColumnGone(r) /\ ~NoUpdate(r, Loaded(r))
  /\ compared' = [compared EXCEPT ![r] = Compared(r)]
  /\ Send(r, Loaded(r), CommentsAfter(r, Loaded(r)))
  /\ Cache(r, Loaded(r))
  /\ UNCHANGED <<stage, operation, attempt>>

SetComments(r) ==
  /\ At(r, "comment")
  /\ CommentsFail(r) \/ CommentsThere(r) \/ CommentsSent(r)
  /\ UNCHANGED <<Server, batch, written, bounds>>

-----------------------------------------------------------------------------
(***************************************************************************)
(* The server (external): requirements and updates of a commit.             *)
(***************************************************************************)
SchemaOf(t) == <<t.schema, t.columns>>

Valid(q) ==
  /\ q.stage = "write" => table.snapshot = q.base.snapshot
  /\ SchemaOf(q.after) # SchemaOf(q.base) => SchemaOf(table) = SchemaOf(q.base)

Updated(q) ==
  LET t == IF SchemaOf(q.after) = SchemaOf(q.base) THEN table
           ELSE [table EXCEPT !.schema = q.after.schema, !.columns = q.after.columns]
  IN IF q.stage # "write" THEN t
     ELSE [t EXCEPT !.snapshot = snapshots + 1, !.copies = q.after.copies,
                    !.others = q.after.others, !.partitioned = q.after.partitioned]

Land(q) ==
  /\ table' = Updated(q)
  /\ snapshots' = IF q.stage = "write" THEN snapshots + 1 ELSE snapshots

Answered(r) == request' = [request EXCEPT ![r] = NoRequest]

\* merge_relation and delete_matched_relation drop the table from the cache;
\* otherwise pyiceberg keeps the answer's metadata in the cached table.
CachedAfterCommit(r) ==
  IF request[r].stage = "write" /\ operation[r] \in {"merge", "delete"}
  THEN NoTable ELSE Updated(request[r])

Accept(r) ==
  /\ Sent(r) /\ Valid(request[r])
  /\ Land(request[r])
  /\ written' = [written EXCEPT ![r] = @ \/ request[r].stage = "write"]
  /\ Answered(r)
  /\ Cache(r, CachedAfterCommit(r))
  /\ StepDone(r)
  /\ UNCHANGED <<strategy, late, batch, bounds>>

\* Mutant: a data commit is tried again as a metadata commit is.
MayRetryData(r) == attempt[r] < COMMIT_ATTEMPTS

\* Only _commit_metadata tries again.
MayRetry(r) == stage[r] # "write" /\ attempt[r] < COMMIT_ATTEMPTS

\* Mutant: the table stays cached after a commit failed.
CachedAfterFailureKept(r) == cached[r]

CachedAfterFailure(r) == NoTable

\* CommitFailedException or CommitStateUnknownException reaches _commit.
CommitRaises(r) ==
  /\ Answered(r)
  /\ Cache(r, CachedAfterFailure(r))
  /\ IF MayRetry(r)
     THEN attempt' = [attempt EXCEPT ![r] = @ + 1] /\ UNCHANGED <<stage, compared>>
     ELSE GoTo(r, StageAfterFailure(r)) /\ Forget(r) /\ UNCHANGED attempt
  /\ UNCHANGED <<strategy, table, snapshots, operation, batch, written,
                 starts, crashes, appends>>

Reject(r) ==
  /\ Sent(r) /\ ~Valid(request[r])
  /\ CommitRaises(r)
  /\ UNCHANGED <<late, faults>>

\* A catalog may reject a commit right after another one.
RejectAnyway(r) ==
  /\ Sent(r) /\ faults < MaxFaults
  /\ faults' = faults + 1
  /\ CommitRaises(r)
  /\ UNCHANGED late

LoseAnswer(r) ==
  /\ Sent(r) /\ faults < MaxFaults
  /\ faults' = faults + 1
  /\ late' = late \cup {request[r]}
  /\ CommitRaises(r)

LandLate(q) ==
  /\ q \in late
  /\ late' = late \ {q}
  /\ IF Valid(q) THEN Land(q) ELSE UNCHANGED <<table, snapshots>>
  /\ UNCHANGED <<strategy, runVars, written, bounds>>

NeverLand(q) ==
  /\ q \in late
  /\ late' = late \ {q}
  /\ UNCHANGED <<strategy, table, snapshots, runVars, written, bounds>>

\* The process is killed, or the query raises; a commit that was sent may still land.
Crash(r) ==
  /\ ~Resting(r) /\ crashes < MaxCrashes
  /\ crashes' = crashes + 1
  /\ late' = IF Sent(r) THEN late \cup {request[r]} ELSE late
  /\ Answered(r)
  /\ GoTo(r, "failed")
  /\ Forget(r)
  /\ Cache(r, NoTable)
  /\ UNCHANGED <<strategy, table, snapshots, operation, batch, attempt,
                 written, starts, faults, appends>>

\* Another engine appends to the table.
OthersAppend ==
  /\ Exists /\ appends < MaxAppends
  /\ appends' = appends + 1
  /\ snapshots' = snapshots + 1
  /\ table' = [table EXCEPT !.snapshot = snapshots + 1, !.others = @ + 1]
  /\ UNCHANGED <<strategy, late, runVars, written, starts, faults, crashes>>

Work(r) ==
  \/ Publish(r) \/ CreateTable(r) \/ Prepare(r)
  \/ SkipWrite(r) \/ Write(r) \/ EvolveSchema(r) \/ SetComments(r)
  \/ Accept(r) \/ Reject(r) \/ RejectAnyway(r) \/ LoseAnswer(r)

Next ==
  \/ \E r \in Runs : (\E f \in BOOLEAN : Begin(r, f)) \/ Work(r) \/ Crash(r)
  \/ \E q \in late : LandLate(q) \/ NeverLand(q)
  \/ OthersAppend

Spec == Init /\ [][Next]_vars

\* A process that is not killed goes on, and every request is answered or times out.
FairSpec == Spec /\ \A r \in Runs : WF_vars(Work(r))

-----------------------------------------------------------------------------
TypeOK ==
  /\ strategy \in Strategies
  /\ table \in Table \cup {NoTable}
  /\ snapshots \in Nat
  /\ late \subseteq Request
  /\ stage \in [Runs -> Stages]
  /\ cached \in [Runs -> Table \cup {NoTable}]
  /\ operation \in [Runs -> DataOperations]
  /\ batch \in [Runs -> BOOLEAN]
  /\ compared \in [Runs -> Table \cup {NoTable}]
  /\ request \in [Runs -> Request]
  /\ attempt \in [Runs -> 1..COMMIT_ATTEMPTS]
  /\ written \in [Runs -> BOOLEAN]

(***************************************************************************)
(* An increment is in the table at most once, whatever runs overlap, crash, *)
(* are started again after an unknown result, or land late: the query reads *)
(* the same cached table that the commit is based on.                       *)
(***************************************************************************)
BatchNotDoubled == table.copies <= 1

(***************************************************************************)
(* A run that goes on to its comments, or ends well, has its data in the    *)
(* table, unless there was nothing to write.                                *)
(***************************************************************************)
SuccessMeansWritten ==
  \A r \in Runs :
    stage[r] \in {"comment", "done"} => written[r] \/ NothingToWrite(r)

(***************************************************************************)
(* Data lands only in a table that is partitioned as the model says: the    *)
(* check of _incremental_write still holds when its commit lands.           *)
(***************************************************************************)
PartitionedAsConfigured ==
  [][snapshots' # snapshots /\ appends' = appends => table'.partitioned = Partitioned]_vars

(***************************************************************************)
(* A run that ends well leaves no described column without its comment,     *)
(* also when set_comments found them in a cached table, or a retry found    *)
(* them set by an earlier attempt whose answer was lost.  Unless another    *)
(* run changed the schema after set_comments compared: a retry does not     *)
(* compare again.                                                           *)
(***************************************************************************)
DocsPersisted ==
  [][\A r \in Runs :
       /\ stage[r] # "done" /\ stage'[r] = "done"
       /\ Compared(r).schema = table'.schema
       => \A c \in Columns : table'.columns[c] # "plain"]_vars

(***************************************************************************)
(* The commits of all runs look like atomic reads-and-writes of the table:  *)
(* no lost update, no increment computed from one table and added to another. *)
(***************************************************************************)
Atomic == INSTANCE AtomicTable
  WITH exists <- Exists, copies <- table.copies, others <- table.others
ImplementsAtomicTable == Atomic!Spec

(***************************************************************************)
(* A metadata commit gets through a catalog that rejects it, or loses its   *)
(* answer, twice: each attempt starts from the table as it is.  Unless a    *)
(* run is killed, or a column that gets a comment was dropped meanwhile.    *)
(***************************************************************************)
MetadataGetsThrough ==
  \A r \in Runs :
    /\ stage[r] = "evolve" ~> stage[r] = "write" \/ crashes > 0
    /\ stage[r] = "comment" ~>
         \/ stage[r] = "done" \/ crashes > 0
         \/ stage[r] = "failed" /\ \E c \in Columns : table.columns[c] = "absent"
=============================================================================
