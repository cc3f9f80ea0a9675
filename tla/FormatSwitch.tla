---------------------------- MODULE FormatSwitch ----------------------------
(***************************************************************************)
(* One table of a catalog that holds Delta and Iceberg tables side by side: *)
(* TableFormatCatalog with its two subclasses, DatabricksCatalog ("unity")  *)
(* and FabricCatalog ("fabric").  Unity Catalog registers a Delta table     *)
(* that was written to storage before; OneLake finds tables in directories, *)
(* and generates the Delta log of an Iceberg table some time after it is    *)
(* written.  The client remembers what it learns about schemas, tables,     *)
(* storage locations, credentials and loaded Iceberg tables.                *)
(*                                                                         *)
(* A process is one invocation of dbt with nodes that write this table, one *)
(* after the other; it begins with empty caches and the list of the tables. *)
(* Each request to the catalog or to storage is one step.  A node that is   *)
(* killed, whose request fails, or whose answer is lost ends there (Fail):  *)
(* an answer is lost when the node fails after the step that asked for it.  *)
(***************************************************************************)
EXTENDS Naturals, FiniteSets

CONSTANTS
  Processes,  \* processes that write the table
  Kinds,      \* the catalogs, {"unity", "fabric"} or one of them
  MaxNodes,   \* bound: nodes run
  MaxFaults   \* bound: nodes that fail, storage that is not cleaned up

ASSUME KindsAreKnown == Kinds \subseteq {"unity", "fabric"}
ASSUME BoundsAreNaturals == MaxNodes \in Nat /\ MaxFaults \in Nat

VARIABLES
  kind,      \* the catalog
  schema,    \* the schema exists
  table,     \* unity: the registered table; fabric: the Iceberg table; or None
  log,       \* the batches in the Delta log of the table's own location, or NoLog
  converted, \* fabric: the Iceberg table has got its Delta log
  cache,     \* what each process remembers
  node,      \* what each process runs
  nodes,     \* nodes begun, ids of tables used
  faults,    \* faults used
  superseded \* batches that a later full write has replaced

server == <<schema, table, log, converted>>
vars == <<kind, server, cache, node, nodes, faults, superseded>>

None == [id |-> 0, format |-> "none", data |-> {}]
NoLog == {0}   \* no batch has number 0
Absent == [id |-> 0, format |-> "absent", data |-> {}]

Formats == {"delta", "iceberg"}
Does == {"table", "incremental", "stored", "drop_schema"}
Batches == 1 .. MaxNodes
IsTable(t) == t.format \in Formats

\* A table of the catalog, or of a cache: its batches are the catalog's to know.
Found(id, format) == [id |-> id, format |-> format, data |-> {}]

EmptyCache == [schema |-> FALSE, table |-> None, uri |-> 0, iceberg |-> 0, creds |-> {}]
NoNode == [stage |-> "idle", do |-> "table", format |-> "delta", batch |-> 0,
           victim |-> None, creating |-> FALSE]

\* open: the invocation runs; alone: no other did since it began; dropped: another
\* one dropped the table since; exists: dbt knows of the table.
Closed == [open |-> FALSE, alone |-> TRUE, dropped |-> FALSE, exists |-> FALSE,
           now |-> NoNode]

Init ==
  /\ kind \in Kinds
  /\ schema = FALSE /\ table = None /\ log = NoLog /\ converted = FALSE
  /\ cache = [p \in Processes |-> EmptyCache]
  /\ node = [p \in Processes |-> Closed]
  /\ nodes = 0 /\ faults = 0 /\ superseded = {}

-----------------------------------------------------------------------------
\* The table as the catalog shows it: Fabric looks for a Delta log.
Shown ==
  IF kind = "unity" THEN table
  ELSE IF log # NoLog THEN Found(0, "delta")
  ELSE IF converted THEN Found(0, "iceberg") ELSE None

\* registered_table, table_format: the remembered table, or else the catalog's.
Answer(p) ==
  CASE cache[p].table = Absent -> None
    [] IsTable(cache[p].table) -> cache[p].table
    [] OTHER -> Shown

\* remember_table, confirmed_not_registered; OneLake's client keeps no misses.
Remembered(c, t) ==
  CASE IsTable(t) ->
         [c EXCEPT !.table = Found(t.id, t.format),
                   !.uri = IF t.format = "delta" THEN t.id ELSE @]
    [] ~IsTable(t) /\ kind = "unity" -> [c EXCEPT !.table = Absent]
    [] OTHER -> c

\* forget_table: the table and its storage location.
Forgotten(c) ==
  [c EXCEPT !.table = None, !.uri = IF c.table.format = "delta" THEN 0 ELSE @]

Stage(p) == node[p].now.stage
Doing(p) == node[p].now.do
Format(p) == node[p].now.format
Batch(p) == node[p].now.batch

GoTo(p, stage) == node' = [node EXCEPT ![p].now.stage = stage]
Cache(p, c) == cache' = [cache EXCEPT ![p] = c]

\* The node ends well, and dbt knows of its table.
Done(p) == node' = [node EXCEPT ![p].now.stage = "done", ![p].exists = TRUE]

\* A failed node ends its invocation: nothing is run on the table again.
Close(p) == node' = [node EXCEPT ![p] = Closed] /\ Cache(p, EmptyCache)

-----------------------------------------------------------------------------
\* An invocation begins: dbt lists the tables, Unity's client remembers them.
Open(p) ==
  /\ ~node[p].open /\ nodes < MaxNodes
  /\ node' = [q \in Processes |->
               IF q = p
               THEN [Closed EXCEPT !.open = TRUE, !.exists = IsTable(Shown),
                                   !.alone = \A r \in Processes \ {p} : ~node[r].open]
               ELSE [node[q] EXCEPT !.alone = @ /\ ~node[q].open]]
  /\ Cache(p, IF kind = "unity" /\ IsTable(table) THEN Remembered(EmptyCache, table)
              ELSE EmptyCache)
  /\ UNCHANGED <<kind, server, nodes, faults, superseded>>

\* Runs that overlap are configured alike, and none of them drops the table.
MayOverlap(p, do, format) ==
  \A q \in Processes \ {p} :
    node[q].open => /\ do \in {"table", "incremental"}
                    /\ Doing(q) \in {"table", "incremental"}
                    /\ node[q].now.batch # 0 => Format(q) = format

Begin(p, do, format) ==
  /\ node[p].open /\ Stage(p) \in {"idle", "done"} /\ nodes < MaxNodes
  /\ MayOverlap(p, do, format)
  /\ nodes' = nodes + 1
  /\ node' = [node EXCEPT ![p].now =
               [NoNode EXCEPT !.do = do, !.format = format, !.batch = nodes + 1,
                              !.stage = IF do = "incremental" /\ node[p].exists
                                        THEN "validate" ELSE "look"]]
  /\ UNCHANGED <<kind, server, cache, faults, superseded>>

End(p) ==
  /\ node[p].open /\ Stage(p) \in {"idle", "done"}
  /\ Close(p)
  /\ UNCHANGED <<kind, server, nodes, faults, superseded>>

FirstStage(p) == IF Format(p) = "delta" THEN "credentials" ELSE "commit"

\* validate_incremental_relation
Validate(p) ==
  /\ Stage(p) = "validate"
  /\ Answer(p).format = Format(p)
  /\ Cache(p, Remembered(cache[p], Answer(p)))
  /\ GoTo(p, FirstStage(p))
  /\ UNCHANGED <<kind, server, nodes, faults, superseded>>

\* "Rebuild it with --full-refresh."
Reject(p) ==
  /\ Stage(p) = "validate"
  /\ IsTable(Answer(p)) /\ Answer(p).format # Format(p)
  /\ Close(p)
  /\ UNCHANGED <<kind, server, nodes, faults, superseded>>

\* drop_schema lists the tables again; Fabric removes their directory without.
Looked(p) == IF Doing(p) = "drop_schema" THEN table ELSE Answer(p)

\* A list tells the client of tables that exist, and of no table that does not.
Noted(p) ==
  IF Doing(p) = "drop_schema" /\ (kind = "fabric" \/ ~IsTable(table))
  THEN cache[p] ELSE Remembered(cache[p], Looked(p))

\* Mutant: a table of another format is written over.
MustDropNever(p) == IsTable(Looked(p)) /\ Doing(p) \in {"stored", "drop_schema"}

\* write_relation drops a table of another format, other nodes any table.
MustDrop(p) ==
  /\ IsTable(Looked(p))
  /\ Doing(p) = "table" \/ Doing(p) = "incremental" => Looked(p).format # Format(p)
  /\ ~(kind = "fabric" /\ Doing(p) = "drop_schema")

Look(p) ==
  /\ Stage(p) = "look"
  /\ Cache(p, Noted(p))
  /\ node' = [node EXCEPT
       ![p].now.victim = Looked(p),
       ![p].now.creating = MustDrop(p) \/ ~IsTable(Looked(p)),
       ![p].now.stage =
         CASE MustDrop(p) /\ kind = "unity" /\ Looked(p).format = "delta" -> "vend"
           [] MustDrop(p) /\ ~(kind = "unity" /\ Looked(p).format = "delta") -> "unregister"
           [] ~MustDrop(p) /\ Doing(p) = "drop_schema" -> "drop_schema"
           [] OTHER -> "schema"]
  /\ UNCHANGED <<kind, server, nodes, faults, superseded>>

\* Unity Catalog vends credentials for a table that it knows; the client keeps them.
Vends(p, id) == id \in cache[p].creds \/ (IsTable(table) /\ table.id = id)

\* delete_table, and what DatabricksCatalog and DatabricksDeltaCatalog forget.
Dropped(c) == [Forgotten(c) EXCEPT !.table = Absent]

Vend(p) ==
  /\ Stage(p) = "vend" /\ Vends(p, node[p].now.victim.id)
  /\ GoTo(p, "unregister")
  /\ UNCHANGED <<kind, server, cache, nodes, faults, superseded>>

AfterDrop(p) ==
  CASE Doing(p) = "drop_schema" -> "drop_schema"
    [] Doing(p) = "stored" -> "look"
    [] OTHER -> "schema"

\* A stored test failure is a new table after the old one was dropped.
Go(p, stage) ==
  node' = [node EXCEPT ![p].now.stage = stage,
                       ![p].now.do = IF stage = "look" THEN "table" ELSE @]

\* The table is gone, also for the other processes.
DropAndGo(p, stage) ==
  node' = [q \in Processes |->
    IF q = p
    THEN [node[p] EXCEPT !.now.stage = stage,
                         !.now.do = IF stage = "look" THEN "table" ELSE @,
                         !.exists = FALSE]
    ELSE [node[q] EXCEPT !.dropped = node[q].open]]

\* By name, whatever table has it now.  A managed table's data goes with it.
Unregister(p) ==
  /\ Stage(p) = "unregister" /\ kind = "unity"
  /\ table' = None
  /\ Cache(p, [Dropped(cache[p]) EXCEPT
                 !.iceberg = IF node[p].now.victim.format = "iceberg" THEN 0 ELSE @,
                 !.creds = @ \ {node[p].now.victim.id}])
  /\ DropAndGo(p, IF node[p].now.victim.format = "delta" THEN "clean" ELSE AfterDrop(p))
  /\ UNCHANGED <<kind, schema, log, converted, nodes, faults, superseded>>

\* OneLake: the directory, with every table in it.
RemoveDirectory(p) ==
  /\ Stage(p) = "unregister" /\ kind = "fabric"
  /\ table' = None /\ log' = NoLog /\ converted' = FALSE
  /\ Cache(p, [cache[p] EXCEPT !.table = None, !.iceberg = 0])
  /\ DropAndGo(p, AfterDrop(p))
  /\ UNCHANGED <<kind, schema, nodes, faults, superseded>>

\* delete_storage: ADLS deletes the directory, vacuum leaves an empty table.
Clean(p) ==
  /\ Stage(p) = "clean"
  /\ log' \in (IF log = NoLog THEN {NoLog} ELSE {NoLog, {}})
  /\ Go(p, AfterDrop(p))
  /\ UNCHANGED <<kind, schema, table, converted, cache, nodes, faults, superseded>>

\* Its errors are only logged.
LeaveStorage(p) ==
  /\ Stage(p) = "clean" /\ faults < MaxFaults
  /\ faults' = faults + 1
  /\ Go(p, AfterDrop(p))
  /\ UNCHANGED <<kind, server, cache, nodes, superseded>>

\* A schema that the client knows is not created again.
CreateSchema(p) ==
  /\ Stage(p) = "schema"
  /\ schema' = (schema \/ ~cache[p].schema)
  /\ Cache(p, [cache[p] EXCEPT !.schema = TRUE])
  /\ GoTo(p, IF Format(p) = "delta" THEN "credentials" ELSE "find")
  /\ UNCHANGED <<kind, table, log, converted, nodes, faults, superseded>>

\* A location that belongs to a table needs the table's credentials, another one the
\* credentials of a path, kept as those of number 0.
GetsCredentials(p) ==
  \/ kind = "fabric"
  \/ cache[p].uri = 0
  \/ Vends(p, cache[p].uri)

\* Unity Catalog may refuse those to create a table where there is one by now.
RefusesPath(p) ==
  /\ kind = "unity" /\ node[p].now.creating /\ cache[p].uri = 0
  /\ table.format = "delta" /\ 0 \notin cache[p].creds

Credentials(p) ==
  /\ Stage(p) = "credentials" /\ GetsCredentials(p)
  /\ Cache(p, [cache[p] EXCEPT !.creds = IF kind = "unity" THEN @ \cup {cache[p].uri} ELSE @])
  /\ GoTo(p, "write")
  /\ UNCHANGED <<kind, server, nodes, faults, superseded>>

Appends(p) == Doing(p) = "incremental" /\ ~node[p].now.creating /\ node[p].now.victim = None

\* Mutant: Fabric's tables are registered like Unity Catalog's.
AfterWriteRegisters(p) == IF ~IsTable(cache[p].table) THEN "register" ELSE "after"

\* Only a table that is not registered is registered after it is written.
AfterWrite(p) ==
  IF kind = "unity" /\ ~IsTable(cache[p].table) THEN "register" ELSE "after"

\* The Delta table at the location is overwritten, or appended to.
Write(p) ==
  /\ Stage(p) = "write"
  /\ IF Appends(p)
     THEN /\ log' = (log \ NoLog) \cup {Batch(p)}
          /\ superseded' = superseded
          /\ Done(p)
     ELSE /\ log' = {Batch(p)}
          /\ superseded' = superseded \cup (log \ NoLog)
          /\ GoTo(p, AfterWrite(p))
  /\ UNCHANGED <<kind, schema, table, converted, cache, nodes, faults>>

\* Mutant: TABLE_ALREADY_EXISTS is an error.
AcceptsRegistrationFirst(p) == schema /\ ~IsTable(table)

\* The catalog registers a table, or has one that the client then fetches.
AcceptsRegistration(p) == schema

Register(p) ==
  /\ Stage(p) = "register" /\ AcceptsRegistration(p)
  /\ table' = IF IsTable(table) THEN table ELSE Found(nodes * 10 + Batch(p), "delta")
  /\ Cache(p, Remembered(cache[p], table'))
  /\ GoTo(p, "after")
  /\ UNCHANGED <<kind, schema, log, converted, nodes, faults, superseded>>

IcebergExists == table.format = "iceberg"

\* IcebergCatalog.write_relation replaces the data of a table, or creates one.
Find(p) ==
  /\ Stage(p) = "find"
  /\ GoTo(p, IF IcebergExists THEN "commit" ELSE "create")
  /\ UNCHANGED <<kind, server, cache, nodes, faults, superseded>>

MayCreate == schema /\ ~IsTable(table)

Create(p) ==
  /\ Stage(p) = "create" /\ MayCreate
  /\ table' = Found(nodes * 10 + Batch(p), "iceberg")
  /\ converted' = FALSE
  /\ Cache(p, [cache[p] EXCEPT !.iceberg = table'.id])
  /\ GoTo(p, "commit")
  /\ UNCHANGED <<kind, schema, log, nodes, faults, superseded>>

\* The commit is for the table that the client has loaded, or loads now.
Commits(p) == IcebergExists /\ cache[p].iceberg \in {0, table.id}

Commit(p) ==
  /\ Stage(p) = "commit" /\ Commits(p)
  /\ Cache(p, [cache[p] EXCEPT !.iceberg = table.id])
  /\ IF Appends(p)
     THEN /\ table' = [table EXCEPT !.data = @ \cup {Batch(p)}]
          /\ superseded' = superseded
          /\ Done(p)
     ELSE /\ table' = [table EXCEPT !.data = {Batch(p)}]
          /\ superseded' = superseded \cup table.data
          /\ GoTo(p, "after")
  /\ UNCHANGED <<kind, schema, log, converted, nodes, faults>>

\* Mutant: an Iceberg table that was just created is not looked for again.
AfterCreateNothing(c, format) == c

\* after_create: Unity's registry has not seen an Iceberg table, Fabric's cache has
\* seen neither.
AfterCreate(c, format) ==
  CASE kind = "unity" /\ format = "iceberg" -> Forgotten(c)
    [] kind = "unity" /\ format = "delta" -> c
    [] kind = "fabric" -> [c EXCEPT !.table = Found(0, format)]

After(p) ==
  /\ Stage(p) = "after"
  /\ Cache(p, IF node[p].now.creating THEN AfterCreate(cache[p], Format(p)) ELSE cache[p])
  /\ Done(p)
  /\ UNCHANGED <<kind, server, nodes, faults, superseded>>

\* What the clients forget of a schema that is gone.
SchemaDropped(c) ==
  [c EXCEPT !.schema = FALSE,
            !.table = IF kind = "fabric" THEN None ELSE @,
            !.iceberg = IF kind = "fabric" THEN 0 ELSE @]

\* Both catalogs remove what is left in the schema with it.
DropSchema(p) ==
  /\ Stage(p) = "drop_schema"
  /\ schema' = FALSE /\ table' = None /\ converted' = FALSE
  /\ log' = IF kind = "fabric" THEN NoLog ELSE log
  /\ Cache(p, SchemaDropped(cache[p]))
  /\ DropAndGo(p, "done")
  /\ UNCHANGED <<kind, nodes, faults, superseded>>

\* Fabric writes the Delta log of an Iceberg table.
Convert ==
  /\ kind = "fabric" /\ IcebergExists /\ ~converted
  /\ converted' = TRUE
  /\ UNCHANGED <<kind, schema, table, log, cache, node, nodes, faults, superseded>>

\* A request is refused, or may be, without anything having failed.
Raises(p) ==
  \/ Stage(p) = "validate" /\ ~IsTable(Answer(p))
  \/ Stage(p) = "vend" /\ ~Vends(p, node[p].now.victim.id)
  \/ Stage(p) = "credentials" /\ (~GetsCredentials(p) \/ RefusesPath(p))
  \/ Stage(p) = "register" /\ ~AcceptsRegistration(p)
  \/ Stage(p) = "create" /\ ~MayCreate
  \/ Stage(p) = "commit" /\ ~Commits(p)

Raise(p) ==
  /\ Raises(p)
  /\ Close(p)
  /\ UNCHANGED <<kind, server, nodes, faults, superseded>>

\* The process is killed, a request fails, or its answer is lost.
Fail(p) ==
  /\ Stage(p) \notin {"idle", "done"} /\ faults < MaxFaults
  /\ faults' = faults + 1
  /\ Close(p)
  /\ UNCHANGED <<kind, server, nodes, superseded>>

Next ==
  \/ \E p \in Processes : Open(p)
  \/ \E p \in Processes, do \in Does, format \in Formats : Begin(p, do, format)
  \/ \E p \in Processes : End(p)
  \/ \E p \in Processes : Validate(p)
  \/ \E p \in Processes : Reject(p)
  \/ \E p \in Processes : Look(p)
  \/ \E p \in Processes : Vend(p)
  \/ \E p \in Processes : Unregister(p)
  \/ \E p \in Processes : RemoveDirectory(p)
  \/ \E p \in Processes : Clean(p)
  \/ \E p \in Processes : LeaveStorage(p)
  \/ \E p \in Processes : CreateSchema(p)
  \/ \E p \in Processes : Credentials(p)
  \/ \E p \in Processes : Write(p)
  \/ \E p \in Processes : Register(p)
  \/ \E p \in Processes : Find(p)
  \/ \E p \in Processes : Create(p)
  \/ \E p \in Processes : Commit(p)
  \/ \E p \in Processes : After(p)
  \/ \E p \in Processes : DropSchema(p)
  \/ \E p \in Processes : Raise(p)
  \/ \E p \in Processes : Fail(p)
  \/ Convert

Spec == Init /\ [][Next]_vars

-----------------------------------------------------------------------------
TypeOK ==
  /\ kind \in Kinds
  /\ schema \in BOOLEAN /\ converted \in BOOLEAN
  /\ table.format \in Formats \cup {"none"} /\ table.data \subseteq Batches
  /\ kind = "fabric" => table.format # "delta"
  /\ table.format = "delta" => log # NoLog
  /\ log = NoLog \/ log \subseteq Batches
  /\ IsTable(table) => schema
  /\ nodes \in 0 .. MaxNodes /\ faults \in 0 .. MaxFaults
  /\ superseded \subseteq Batches
  /\ \A p \in Processes : ~node[p].open => node[p] = Closed /\ cache[p] = EmptyCache

\* The batch is what readers of the table find, in the format of the model.
Published(p) ==
  IF Format(p) = "iceberg"
  THEN IcebergExists /\ Batch(p) \in table.data /\ (kind = "fabric" => log = NoLog)
  ELSE Shown.format = "delta" /\ Batch(p) \in log

(***************************************************************************)
(* A node that ends well has published its batch: the catalog has a table   *)
(* of the model's format, and the batch is in it, unless an overlapping run *)
(* has overwritten it since.  Whatever was dropped before, left behind by   *)
(* failed runs or created by another process in the meantime.  A table that *)
(* another run drops during the invocation is lost: tables are dropped by   *)
(* name, and before the new one is written.                                 *)
(***************************************************************************)
SuccessMeansPublished ==
  [][\A p \in Processes :
       /\ Stage(p) # "done" /\ Stage(p)' = "done"
       /\ Doing(p) # "drop_schema" /\ ~node[p].dropped
       => Published(p)' \/ Batch(p) \in superseded']_vars

(***************************************************************************)
(* Runs that failed at any point, in any format, never make a later run     *)
(* fail: their remains are overwritten, registered or dropped.  Nor do      *)
(* overlapping runs that create the same Delta table or schema: "A          *)
(* concurrent creator [...] may have won the race" (unity_catalog.py), but  *)
(* for the credentials of the path, which the catalog may refuse to the one *)
(* that asks after the other has registered its table.                      *)
(***************************************************************************)
LeftoversAndRacesDontBlock ==
  \A p \in Processes :
    Raises(p) =>
      /\ ~node[p].alone
      /\ \/ node[p].dropped
         \/ Format(p) = "iceberg"
         \/ Stage(p) = "credentials" /\ RefusesPath(p)

\* The table as it is, also when Fabric does not show it yet.
Actual ==
  IF kind = "fabric" /\ log = NoLog /\ IsTable(table) THEN Found(0, "iceberg") ELSE Shown

(***************************************************************************)
(* What a node leaves in the caches is true for the nodes after it: the     *)
(* table's existence and format, its location's table, the Iceberg table    *)
(* that is loaded and the schema.                                           *)
(***************************************************************************)
CachesStayTrue ==
  \A p \in Processes :
    node[p].alone /\ Stage(p) = "done" =>
      /\ IsTable(cache[p].table) \/ cache[p].table = Absent
           => Answer(p).format = Actual.format
      /\ cache[p].uri \in {0, Actual.id}
      /\ cache[p].iceberg \in {0, table.id}
      /\ cache[p].schema => schema
=============================================================================
