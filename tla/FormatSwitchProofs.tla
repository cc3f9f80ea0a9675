------------------------- MODULE FormatSwitchProofs -------------------------
(***************************************************************************)
(* Proofs about FormatSwitch for any processes, nodes and faults.  The      *)
(* inductive invariant says, for every process, what it does at which       *)
(* stage, which of the things it remembers are true although others write   *)
(* the same table, and which are all there is when it is alone.             *)
(***************************************************************************)
EXTENDS FormatSwitch, TLAPS

-----------------------------------------------------------------------------
Writing == {"schema", "credentials", "write", "register", "find", "create", "commit", "after"}
Dropping == {"vend", "unregister", "clean"}
Stages == {"idle", "validate", "look", "drop_schema", "done"} \cup Writing \cup Dropping

TableType == [id : Nat, format : Formats \cup {"none", "absent"}, data : SUBSET Batches]
CacheType == [schema : BOOLEAN, table : TableType, uri : Nat, iceberg : Nat, creds : SUBSET Nat]
NowType == [stage : Stages, do : Does, format : Formats, batch : 0 .. MaxNodes,
            victim : TableType, creating : BOOLEAN]
NodeType == [open : BOOLEAN, alone : BOOLEAN, dropped : BOOLEAN, exists : BOOLEAN,
             now : NowType]

Victim(p) == node[p].now.victim
Creating(p) == node[p].now.creating
Cached(p) == cache[p].table

\* The catalog and the storage.
ServerInv ==
  /\ kind \in Kinds /\ schema \in BOOLEAN /\ converted \in BOOLEAN
  /\ table \in TableType /\ table.format # "absent"
  /\ table.format = "none" => table.data = {}
  /\ kind = "fabric" => table.format # "delta"
  /\ table.format = "delta" => log # NoLog
  /\ log = NoLog \/ log \subseteq Batches
  /\ IsTable(table) => schema
  /\ converted => kind = "fabric" /\ IcebergExists
  /\ nodes \in 0 .. MaxNodes /\ faults \in 0 .. MaxFaults
  /\ superseded \subseteq Batches

ProcessesInv ==
  /\ cache \in [Processes -> CacheType] /\ node \in [Processes -> NodeType]
  /\ \A p \in Processes : ~node[p].open => node[p] = Closed /\ cache[p] = EmptyCache

\* Processes that are open at the same time.
OverlapInv ==
  \A p, q \in Processes : p # q /\ node[p].open /\ node[q].open =>
    /\ ~node[p].alone
    /\ Doing(p) \in {"stored", "drop_schema"} => node[q].now = NoNode
    /\ Batch(p) # 0 /\ Batch(q) # 0 => Format(p) = Format(q)

\* A Delta table is cleaned up after it, and registered before it is one.
CleanInv ==
  \A p \in Processes : /\ Stage(p) = "clean" => table.format # "delta"
                       /\ Stage(p) = "register" => log # NoLog

\* What a node does at its stages.
StageInv(p) ==
  /\ node[p].alone => ~node[p].dropped
  /\ Stage(p) = "idle" <=> Batch(p) = 0
  /\ Stage(p) = "idle" =>
       /\ node[p].now = NoNode /\ Cached(p) # Absent
       /\ kind = "fabric" => cache[p] = EmptyCache
  /\ Stage(p) \in {"credentials", "write", "register"} => Format(p) = "delta"
  /\ Stage(p) \in {"find", "create", "commit"} => Format(p) = "iceberg"
  /\ Stage(p) \in {"vend", "clean", "register"} => kind = "unity"
  /\ Stage(p) \in {"vend", "clean"} => Victim(p).format = "delta"
  /\ Stage(p) \in Writing => Doing(p) # "drop_schema"
  /\ Stage(p) = "drop_schema" => Doing(p) = "drop_schema"
  /\ Stage(p) = "validate" => node[p].exists /\ Doing(p) = "incremental" /\ ~Creating(p)
  /\ Stage(p) \in Dropping =>
       /\ IsTable(Victim(p)) /\ Creating(p)
       /\ Doing(p) \in {"table", "incremental"} => Victim(p).format # Format(p)
  /\ Stage(p) = "register" => Creating(p) /\ ~IsTable(Cached(p))

\* What it remembers at its stages.
CacheInv(p) ==
  /\ Cached(p).format = "absent" => Cached(p) = Absent
  /\ kind = "fabric" =>
       /\ cache[p].uri = 0 /\ Cached(p) # Absent
       /\ Cached(p).format = "delta" => Cached(p).id = 0
  /\ Stage(p) \in Writing /\ ~Creating(p) => IsTable(Cached(p))
  /\ Stage(p) = "after" /\ kind = "unity" /\ Format(p) = "delta" => IsTable(Cached(p))
  /\ Stage(p) \in Writing /\ (Stage(p) = "after" => kind = "fabric" \/ Format(p) = "iceberg")
       /\ IsTable(Cached(p)) => Cached(p).format = Format(p)
  /\ Stage(p) \in Writing /\ Creating(p) /\ kind = "unity" =>
       Cached(p) = Absent \/ (Stage(p) = "after" /\ Format(p) = "delta")
  /\ Stage(p) = "clean" /\ kind = "unity" => Cached(p) = Absent
  /\ Stage(p) = "done" =>
       /\ Cached(p) = Absent => Doing(p) = "drop_schema"
       /\ kind = "fabric" /\ IsTable(Cached(p)) => Cached(p).format = Format(p)
  /\ Stage(p) \in {"find", "create"} => cache[p].schema
  /\ Stage(p) \in {"credentials", "write", "register"} /\ Creating(p) => cache[p].schema

\* What it remembers is true as long as no other process has dropped the table.
TrueInv(p) ==
  /\ cache[p].uri = IF Cached(p).format = "delta" THEN Cached(p).id ELSE 0
  /\ kind = "unity" /\ IsTable(Cached(p)) =>
       IsTable(table) /\ table.id = Cached(p).id /\ table.format = Cached(p).format
  /\ cache[p].schema => schema

ExistsInv(p) == node[p].exists => Cached(p) # Absent /\ (IsTable(Cached(p)) \/ IsTable(Shown))

\* It drops the table it has found, and no schema that has one it knows of.
VictimInv(p) ==
  kind = "unity" =>
    /\ Stage(p) \in {"vend", "unregister"} =>
         IsTable(table) /\ table.id = Victim(p).id /\ table.format = Victim(p).format
    /\ Stage(p) = "drop_schema" => ~IsTable(Cached(p))

\* A table it has not found is no Iceberg table if it writes Delta.
AbsentInv(p) ==
  kind = "unity" /\ Cached(p) = Absent /\ (Format(p) = "delta" \/ Doing(p) = "drop_schema") =>
    table.format # "iceberg"

\* Fabric shows an Iceberg table only where no Delta log is.
LogInv(p) ==
  kind = "fabric" /\ Format(p) = "iceberg" /\ Stage(p) # "drop_schema"
    /\ (Cached(p).format = "iceberg" \/ Stage(p) \in Writing) => log = NoLog

KnownInv(p) ==
  node[p].open /\ ~node[p].dropped =>
    TrueInv(p) /\ ExistsInv(p) /\ VictimInv(p) /\ AbsentInv(p) /\ LogInv(p)

\* The batch it has written.
BatchInv(p) ==
  node[p].open /\ ~node[p].dropped =>
    /\ Format(p) = "delta" /\ Stage(p) \in {"register", "after"} =>
         Batch(p) \in log \cup superseded
    /\ Format(p) = "delta" /\ Stage(p) = "after" => Shown.format = "delta"
    /\ Format(p) = "iceberg" /\ Stage(p) = "after" =>
         IcebergExists /\ Batch(p) \in table.data \cup superseded

\* What it knows is all there is when it is alone.
AloneInv(p) ==
  node[p].open /\ node[p].alone =>
    /\ kind = "unity" /\ Cached(p) = Absent /\ Stage(p) \notin {"commit", "after"} =>
         ~IsTable(table)
    /\ kind = "unity" /\ Stage(p) = "drop_schema" => ~IsTable(table)
    /\ cache[p].iceberg # 0 => IcebergExists /\ table.id = cache[p].iceberg
    /\ Stage(p) = "create" => ~IsTable(table)
    /\ Stage(p) = "commit" => IcebergExists
    /\ kind = "fabric" /\ IsTable(Cached(p)) /\ Stage(p) # "drop_schema" =>
         Cached(p).format = Actual.format

ProcessInv(p) ==
  StageInv(p) /\ CacheInv(p) /\ KnownInv(p) /\ BatchInv(p) /\ AloneInv(p)

IInv ==
  /\ ServerInv /\ ProcessesInv /\ OverlapInv /\ CleanInv
  /\ \A p \in Processes : ProcessInv(p)

-----------------------------------------------------------------------------
(***************************************************************************)
(* Records.                                                                 *)
(***************************************************************************)
LEMMA Constants ==
  /\ None \in TableType /\ Absent \in TableType /\ NoNode \in NowType
  /\ Closed \in NodeType /\ EmptyCache \in CacheType
<1>1. None \in TableType /\ Absent \in TableType
  BY DEF None, Absent, TableType
<1>2. NoNode \in NowType
  BY <1>1, BoundsAreNaturals DEF NoNode, NowType, Stages, Does, Formats
<1>3. Closed \in NodeType
  BY <1>2 DEF Closed, NodeType
<1>4. EmptyCache \in CacheType
  BY <1>1 DEF EmptyCache, CacheType
<1> QED
  BY <1>1, <1>2, <1>3, <1>4

\* A step that only changes what the process is running.
LEMMA NowFields ==
  ASSUME ProcessesInv, NEW p \in Processes, NEW now \in NowType,
         node' = [node EXCEPT ![p].now = now]
  PROVE  /\ node' \in [Processes -> NodeType]
         /\ node'[p] = [node[p] EXCEPT !.now = now]
         /\ node'[p].now = now /\ node'[p].open = node[p].open
         /\ node'[p].alone = node[p].alone /\ node'[p].dropped = node[p].dropped
         /\ node'[p].exists = node[p].exists
         /\ \A q \in Processes \ {p} : node'[q] = node[q]
  BY DEF ProcessesInv, NodeType

LEMMA GoToFields ==
  ASSUME ProcessesInv, NEW p \in Processes, NEW s \in Stages, GoTo(p, s)
  PROVE  /\ node' \in [Processes -> NodeType]
         /\ node'[p].now.stage = s /\ node'[p].now.do = Doing(p)
         /\ node'[p].now.format = Format(p) /\ node'[p].now.batch = Batch(p)
         /\ node'[p].now.victim = Victim(p) /\ node'[p].now.creating = Creating(p)
         /\ node'[p].open = node[p].open
         /\ node'[p].alone = node[p].alone /\ node'[p].dropped = node[p].dropped
         /\ node'[p].exists = node[p].exists
         /\ \A q \in Processes \ {p} : node'[q] = node[q]
  BY DEF GoTo, ProcessesInv, NodeType, NowType, Doing, Format, Batch, Victim, Creating

Looks(p, v, c, s) ==
  node' = [node EXCEPT ![p].now.victim = v, ![p].now.creating = c, ![p].now.stage = s]

LEMMA LookFields ==
  ASSUME ProcessesInv, NEW p \in Processes, NEW v, v \in TableType, NEW c, c \in BOOLEAN,
         NEW s, s \in Stages, Looks(p, v, c, s)
  PROVE  /\ node' \in [Processes -> NodeType]
         /\ node'[p].now.stage = s /\ node'[p].now.do = Doing(p)
         /\ node'[p].now.format = Format(p) /\ node'[p].now.batch = Batch(p)
         /\ node'[p].now.victim = v /\ node'[p].now.creating = c
         /\ node'[p].open = node[p].open
         /\ node'[p].alone = node[p].alone /\ node'[p].dropped = node[p].dropped
         /\ node'[p].exists = node[p].exists
         /\ \A q \in Processes \ {p} : node'[q] = node[q]
<1>1. node \in [Processes -> NodeType]
  BY DEF ProcessesInv
<1>2. \A q \in Processes \ {p} : node'[q] = node[q]
  BY <1>1 DEF Looks
<1>3. node'[p] = [node[p] EXCEPT !.now = [[[node[p].now EXCEPT !.victim = v]
                                            EXCEPT !.creating = c] EXCEPT !.stage = s]]
  BY <1>1 DEF NodeType, Looks
<1>4. node[p] \in NodeType /\ DOMAIN node' = Processes
  BY <1>1 DEF Looks
<1>5. node'[p] \in NodeType
  BY <1>3, <1>4 DEF NodeType, NowType
<1> QED
  BY <1>1, <1>2, <1>3, <1>4, <1>5 DEF NodeType, NowType, Doing, Format, Batch, Looks

LEMMA CacheFields ==
  ASSUME ProcessesInv, NEW p \in Processes, NEW c \in CacheType, Cache(p, c)
  PROVE  /\ cache' \in [Processes -> CacheType]
         /\ cache'[p] = c
         /\ \A q \in Processes \ {p} : cache'[q] = cache[q]
  BY DEF Cache, ProcessesInv

LEMMA CloseFields ==
  ASSUME ProcessesInv, NEW p \in Processes, Close(p)
  PROVE  /\ cache' \in [Processes -> CacheType] /\ node' \in [Processes -> NodeType]
         /\ node'[p] = Closed /\ cache'[p] = EmptyCache
         /\ \A q \in Processes \ {p} : node'[q] = node[q] /\ cache'[q] = cache[q]
  BY Constants DEF Close, Cache, ProcessesInv

LEMMA DoneFields ==
  ASSUME ProcessesInv, NEW p \in Processes, Done(p)
  PROVE  /\ node' \in [Processes -> NodeType]
         /\ node'[p].now.stage = "done" /\ node'[p].now.do = Doing(p)
         /\ node'[p].now.format = Format(p) /\ node'[p].now.batch = Batch(p)
         /\ node'[p].now.victim = Victim(p) /\ node'[p].now.creating = Creating(p)
         /\ node'[p].open = node[p].open
         /\ node'[p].alone = node[p].alone /\ node'[p].dropped = node[p].dropped
         /\ node'[p].exists = TRUE
         /\ \A q \in Processes \ {p} : node'[q] = node[q]
<1>1. "done" \in Stages
  BY DEF Stages
<1> QED
  BY <1>1 DEF Done, ProcessesInv, NodeType, NowType, Doing, Format, Batch, Victim, Creating

\* A process at a stage is open.
LEMMA AtStage ==
  ASSUME ProcessesInv, NEW p \in Processes, Stage(p) # "idle"
  PROVE  node[p].open
  BY DEF ProcessesInv, Stage, Closed, NoNode

\* What the types say of a process.
LEMMA ProcessTypes ==
  ASSUME ProcessesInv, NEW p \in Processes
  PROVE  /\ cache[p] \in CacheType /\ node[p] \in NodeType /\ node[p].now \in NowType
         /\ Stage(p) \in Stages /\ Doing(p) \in Does /\ Format(p) \in Formats
         /\ Batch(p) \in 0 .. MaxNodes /\ Victim(p) \in TableType /\ Creating(p) \in BOOLEAN
         /\ Cached(p) \in TableType /\ cache[p].schema \in BOOLEAN /\ cache[p].uri \in Nat
         /\ cache[p].iceberg \in Nat /\ cache[p].creds \in SUBSET Nat
         /\ node[p].open \in BOOLEAN /\ node[p].alone \in BOOLEAN
         /\ node[p].dropped \in BOOLEAN /\ node[p].exists \in BOOLEAN
  BY DEF ProcessesInv, CacheType, NodeType, NowType, Stage, Doing, Format, Batch, Victim,
         Creating, Cached

-----------------------------------------------------------------------------
(***************************************************************************)
(* What a step of one process leaves of what another one knows.             *)
(***************************************************************************)
Keeps(q) ==
  /\ schema => schema'
  /\ IsTable(table) => table'.id = table.id /\ table'.format = table.format
  /\ IsTable(Shown) => IsTable(Shown)'
  /\ Shown.format = "delta" => Shown'.format = "delta"
  /\ Batch(q) # 0 /\ (Format(q) = "delta" \/ Doing(q) = "drop_schema") =>
       (table'.format = "iceberg" => table.format = "iceberg")
  /\ Format(q) = "iceberg" /\ log = NoLog => log' = NoLog
  /\ Format(q) = "delta" /\ Batch(q) # 0 => log \subseteq log' \cup superseded' \cup NoLog
  /\ table.data \subseteq table'.data \cup superseded'
  /\ superseded \subseteq superseded'

\* Another process is dropped, or can go by what it knows.
Unaware(q) ==
  /\ cache'[q] = cache[q]
  /\ node'[q].open = node[q].open /\ node'[q].exists = node[q].exists
  /\ node'[q].now = node[q].now
  /\ ~node[q].open => node'[q] = node[q]
  /\ node[q].open => ~node'[q].alone
  /\ node[q].open /\ ~node'[q].dropped => ~node[q].dropped /\ Keeps(q)

LEMMA UnawareKept ==
  ASSUME IInv, NEW q \in Processes, kind' = kind, Unaware(q)
  PROVE  ProcessInv(q)'
<1>1. /\ Stage(q)' = Stage(q) /\ Doing(q)' = Doing(q) /\ Format(q)' = Format(q)
      /\ Batch(q)' = Batch(q) /\ Victim(q)' = Victim(q) /\ Creating(q)' = Creating(q)
      /\ Cached(q)' = Cached(q) /\ cache'[q] = cache[q]
      /\ node'[q].open = node[q].open /\ node'[q].exists = node[q].exists
  BY DEF Unaware, Stage, Doing, Format, Batch, Victim, Creating, Cached
<1>2. StageInv(q) /\ CacheInv(q) /\ KnownInv(q) /\ BatchInv(q)
  BY DEF IInv, ProcessInv
<1>3. node[q].open /\ ~node'[q].dropped => ~node[q].dropped /\ Keeps(q)
  BY DEF Unaware
<1>4. StageInv(q)'
  BY <1>1, <1>2, ProcessTypes DEF Unaware, StageInv, IInv
<1>5. CacheInv(q)'
  BY <1>1, <1>2 DEF CacheInv
<1>6. KnownInv(q)'
  <2> SUFFICES ASSUME node[q].open, ~node'[q].dropped, ~node[q].dropped, Keeps(q)
               PROVE  KnownInv(q)'
    BY <1>1, <1>3 DEF KnownInv
  <2>1. Cached(q) = Absent => Batch(q) # 0
    BY <1>2 DEF StageInv
  <2>2. IsTable(table) => IsTable(table)'
    BY DEF Keeps, IsTable
  <2> QED
    BY <1>1, <1>2, <2>1, <2>2
    DEF KnownInv, TrueInv, ExistsInv, VictimInv, AbsentInv, LogInv, Keeps
<1>7. BatchInv(q)'
  <2> SUFFICES ASSUME node[q].open, ~node'[q].dropped, ~node[q].dropped, Keeps(q)
               PROVE  BatchInv(q)'
    BY <1>1, <1>3 DEF BatchInv
  <2>1. Stage(q) \in {"register", "after"} => Batch(q) # 0 /\ Batch(q) \notin NoLog
    BY <1>2 DEF StageInv, NoLog
  <2>2. IcebergExists => IcebergExists'
    BY DEF Keeps, IsTable, IcebergExists, Formats
  <2> QED
    BY <1>1, <1>2, <2>1, <2>2 DEF BatchInv, Keeps
<1>8. AloneInv(q)'
  BY <1>1 DEF Unaware, AloneInv
<1> QED
  BY <1>4, <1>5, <1>6, <1>7, <1>8 DEF ProcessInv

\* What others see of a step that leaves their cache and their node alone.
Aside(q) ==
  /\ cache'[q] = cache[q]
  /\ node'[q].open = node[q].open /\ node'[q].exists = node[q].exists
  /\ node'[q].now = node[q].now /\ node'[q].alone = node[q].alone
  /\ ~node[q].open => node'[q] = node[q]
  /\ node[q].open /\ ~node'[q].dropped => ~node[q].dropped /\ Keeps(q)

\* A node goes on.
GoesOn(p) ==
  /\ Stage(p) # "idle"
  /\ node'[p].open = node[p].open /\ node'[p].alone = node[p].alone
  /\ Format(p)' = Format(p) /\ Batch(p)' = Batch(p) /\ Doing(p)' \in {Doing(p), "table"}

LEMMA Alongside ==
  ASSUME IInv, NEW p \in Processes, NEW q \in Processes, p # q, node[p].open, node[q].open
  PROVE  /\ ~node[q].alone /\ ~node[p].alone
         /\ Doing(p) \in {"stored", "drop_schema"} => Batch(q) = 0 /\ Stage(q) = "idle"
         /\ Batch(p) # 0 /\ Batch(q) # 0 => Format(p) = Format(q)
  BY DEF IInv, OverlapInv, NoNode, Batch, Stage

LEMMA Step ==
  ASSUME IInv, NEW p \in Processes, GoesOn(p), ServerInv', kind' = kind,
         cache' \in [Processes -> CacheType], node' \in [Processes -> NodeType],
         \A q \in Processes \ {p} : Aside(q),
         table'.format = "delta" =>
           /\ Stage(p)' # "clean"
           /\ table.format = "delta" \/ \A q \in Processes \ {p} : Stage(q) # "clean",
         log' = NoLog =>
           /\ Stage(p)' # "register"
           /\ log = NoLog \/ \A q \in Processes \ {p} : Stage(q) # "register",
         ProcessInv(p)'
  PROVE  IInv'
<1>1. ProcessesInv /\ OverlapInv /\ CleanInv /\ node[p].open
  BY AtStage DEF IInv, GoesOn
<1>2. ASSUME NEW q \in Processes \ {p}
      PROVE  /\ Stage(q)' = Stage(q) /\ Doing(q)' = Doing(q) /\ Format(q)' = Format(q)
             /\ Batch(q)' = Batch(q) /\ node'[q].now = node[q].now
             /\ node'[q].open = node[q].open /\ node'[q].alone = node[q].alone
             /\ Unaware(q)
  <2>1. Aside(q)
    OBVIOUS
  <2>2. node[q].open => ~node[q].alone
    BY <1>1, Alongside
  <2> QED
    BY <2>1, <2>2 DEF Aside, Unaware, Stage, Doing, Format, Batch
<1>3. ProcessesInv'
  <2>1. ASSUME NEW q \in Processes \ {p}, ~node'[q].open
        PROVE  node'[q] = Closed /\ cache'[q] = EmptyCache
    <3>1. Aside(q)
      OBVIOUS
    <3> QED
      BY <1>1, <2>1, <3>1 DEF Aside, ProcessesInv
  <2>2. node'[p].open
    BY <1>1 DEF GoesOn
  <2> QED
    BY <2>1, <2>2 DEF ProcessesInv
<1>4. OverlapInv'
  <2>1. ASSUME NEW q \in Processes \ {p}, node[q].open
        PROVE  /\ ~node'[p].alone /\ ~node'[q].alone
               /\ Doing(p)' \in {"stored", "drop_schema"} => node'[q].now = NoNode
               /\ Doing(q)' \notin {"stored", "drop_schema"}
               /\ Batch(p)' # 0 /\ Batch(q)' # 0 => Format(p)' = Format(q)'
    <3>1. /\ ~node[p].alone /\ ~node[q].alone
          /\ Doing(p) \in {"stored", "drop_schema"} => node[q].now = NoNode
          /\ Doing(q) \in {"stored", "drop_schema"} => Stage(p) = "idle"
          /\ Batch(p) # 0 /\ Batch(q) # 0 => Format(p) = Format(q)
      BY <1>1, <2>1, Alongside DEF OverlapInv
    <3> QED
      BY <1>2, <3>1 DEF GoesOn
  <2>2. ASSUME NEW q \in Processes \ {p}, NEW r \in Processes \ {p}, q # r,
               node[q].open, node[r].open
        PROVE  /\ ~node'[q].alone
               /\ Doing(q)' \in {"stored", "drop_schema"} => node'[r].now = NoNode
               /\ Batch(q)' # 0 /\ Batch(r)' # 0 => Format(q)' = Format(r)'
    BY <1>1, <1>2, <2>2 DEF OverlapInv
  <2>3. \A q \in Processes : node'[q].open => node[q].open
    BY <1>1, <1>2
  <2> QED
    BY <2>1, <2>2, <2>3 DEF OverlapInv
<1>5. CleanInv'
  BY <1>1, <1>2 DEF CleanInv
<1>6. \A q \in Processes : ProcessInv(q)'
  BY <1>2, UnawareKept
<1> QED
  BY <1>3, <1>4, <1>5, <1>6 DEF IInv

\* A step that asks, and changes nothing on the server.
LEMMA Asks ==
  ASSUME UNCHANGED <<kind, server, superseded>>
  PROVE  /\ \A q \in Processes :
              cache'[q] = cache[q] /\ node'[q] = node[q] => Aside(q)
         /\ UNCHANGED <<schema, table, log, converted>> /\ kind' = kind
         /\ nodes' \in 0 .. MaxNodes /\ faults' \in 0 .. MaxFaults /\ ServerInv => ServerInv'
<1>1. UNCHANGED <<schema, table, log, converted>> /\ kind' = kind /\ superseded' = superseded
  BY DEF server
<1>2. \A q \in Processes : Keeps(q)
  BY <1>1 DEF Keeps, Shown
<1> QED
  BY <1>1, <1>2 DEF Aside, ServerInv, IcebergExists

LEMMA QuietStep ==
  ASSUME IInv, NEW p \in Processes, GoesOn(p), UNCHANGED <<kind, server, superseded>>,
         nodes' \in 0 .. MaxNodes, faults' \in 0 .. MaxFaults,
         cache' \in [Processes -> CacheType], node' \in [Processes -> NodeType],
         \A q \in Processes \ {p} : cache'[q] = cache[q] /\ node'[q] = node[q],
         Stage(p)' = "clean" => table.format # "delta", Stage(p)' # "register",
         ProcessInv(p)'
  PROVE  IInv'
<1>1. ServerInv' /\ (\A q \in Processes \ {p} : Aside(q)) /\ kind' = kind
      /\ table' = table /\ log' = log
  BY Asks DEF IInv
<1> QED
  BY <1>1, Step

\* A process ends, well or not.
LEMMA ClosingStep ==
  ASSUME IInv, NEW p \in Processes, node[p].open, Close(p), UNCHANGED <<kind, server, superseded>>,
         nodes' \in 0 .. MaxNodes, faults' \in 0 .. MaxFaults
  PROVE  IInv'
<1>1. /\ cache' \in [Processes -> CacheType] /\ node' \in [Processes -> NodeType]
      /\ node'[p] = Closed /\ cache'[p] = EmptyCache
      /\ \A q \in Processes \ {p} : node'[q] = node[q] /\ cache'[q] = cache[q]
  BY CloseFields DEF IInv
<1>2. ServerInv' /\ UNCHANGED <<schema, table, log, converted>> /\ kind' = kind
  BY Asks DEF IInv
<1>3. ASSUME NEW q \in Processes \ {p}
      PROVE  Unaware(q)
  <2>1. Aside(q)
    BY <1>1, Asks
  <2>2. node[q].open => ~node[q].alone
    BY Alongside
  <2> QED
    BY <2>1, <2>2 DEF Aside, Unaware
<1>4. ProcessesInv'
  BY <1>1 DEF IInv, ProcessesInv
<1>5. ~node'[p].open /\ node'[p].alone /\ ~node'[p].dropped /\ ~node'[p].exists
      /\ Stage(p)' = "idle" /\ Batch(p)' = 0 /\ node'[p].now = NoNode
      /\ Cached(p)' = None
  BY <1>1 DEF Closed, NoNode, EmptyCache, Stage, Batch, Cached
<1>6. OverlapInv'
  BY <1>1, <1>5 DEF IInv, OverlapInv, Doing, Batch, Format
<1>7. CleanInv'
  BY <1>1, <1>2, <1>5 DEF IInv, CleanInv, Stage
<1>8. ProcessInv(p)'
  <2>1. None # Absent /\ None.format = "none"
    BY DEF None, Absent
  <2>2. cache'[p].uri = 0
    BY <1>1 DEF EmptyCache
  <2>3. StageInv(p)'
    BY <1>1, <1>5, <2>1 DEF StageInv, Writing, Dropping
  <2>4. CacheInv(p)'
    BY <1>5, <2>1, <2>2 DEF CacheInv, Writing
  <2>5. KnownInv(p)' /\ BatchInv(p)' /\ AloneInv(p)'
    BY <1>5 DEF KnownInv, BatchInv, AloneInv
  <2> QED
    BY <2>3, <2>4, <2>5 DEF ProcessInv
<1> QED
  BY <1>2, <1>3, <1>4, <1>6, <1>7, <1>8, UnawareKept DEF IInv

-----------------------------------------------------------------------------
(***************************************************************************)
(* One lemma per step of a node.                                            *)
(***************************************************************************)
\* The node goes to a stage, and nothing else changes in it.
MovesTo(p, s) ==
  /\ node' \in [Processes -> NodeType]
  /\ Stage(p)' = s /\ Doing(p)' = Doing(p) /\ Format(p)' = Format(p) /\ Batch(p)' = Batch(p)
  /\ Victim(p)' = Victim(p) /\ Creating(p)' = Creating(p)
  /\ node'[p].open = node[p].open /\ node'[p].alone = node[p].alone
  /\ node'[p].dropped = node[p].dropped
  /\ \A q \in Processes \ {p} : node'[q] = node[q]

LEMMA GoToMoves ==
  ASSUME ProcessesInv, NEW p \in Processes, NEW s \in Stages, GoTo(p, s)
  PROVE  MovesTo(p, s) /\ node'[p].exists = node[p].exists
  BY GoToFields DEF MovesTo, Stage, Doing, Format, Batch, Victim, Creating

LEMMA DoneMoves ==
  ASSUME ProcessesInv, NEW p \in Processes, Done(p)
  PROVE  MovesTo(p, "done") /\ node'[p].exists
  BY DoneFields DEF MovesTo, Stage, Doing, Format, Batch, Victim, Creating

LEMMA Known ==
  ASSUME IInv, NEW p \in Processes
  PROVE  /\ ServerInv /\ ProcessesInv /\ StageInv(p) /\ CacheInv(p)
         /\ KnownInv(p) /\ BatchInv(p) /\ AloneInv(p)
         /\ nodes \in 0 .. MaxNodes /\ faults \in 0 .. MaxFaults
  BY DEF IInv, ProcessInv, ServerInv

\* What a process answers, and what it then remembers.
LEMMA AnswerFacts ==
  ASSUME IInv, NEW p \in Processes
  PROVE  /\ Answer(p) \in TableType /\ Shown \in TableType
         /\ Shown.format \in Formats \cup {"none"}
         /\ kind = "unity" => Shown = table
         /\ IsTable(Cached(p)) => Answer(p) = Cached(p)
         /\ Cached(p) = Absent => Answer(p) = None
         /\ ~IsTable(Cached(p)) /\ Cached(p) # Absent => Answer(p) = Shown
<1>1. Shown \in TableType /\ Shown.format \in Formats \cup {"none"}
  BY Known DEF Shown, ServerInv, TableType, Found, None, Formats
<1>2. ~IsTable(Absent)
  BY DEF IsTable, Absent, Formats
<1>3. None \in TableType
  BY Constants
<1> QED
  BY <1>1, <1>2, <1>3, Known, ProcessTypes DEF Answer, Cached, Shown

LEMMA RememberedFacts ==
  ASSUME IInv, NEW c \in CacheType, NEW t \in TableType
  PROVE  LET r == Remembered(c, t) IN
         /\ r \in CacheType /\ r.schema = c.schema /\ r.iceberg = c.iceberg /\ r.creds = c.creds
         /\ IsTable(t) => /\ r.table = Found(t.id, t.format)
                          /\ r.uri = IF t.format = "delta" THEN t.id ELSE c.uri
         /\ ~IsTable(t) => /\ r.uri = c.uri
                           /\ r.table = IF kind = "unity" THEN Absent ELSE c.table
<1>1. \A i \in Nat, f \in Formats : Found(i, f) \in TableType
  BY DEF Found, TableType
<1>2. CASE IsTable(t)
  <2>1. Found(t.id, t.format) \in TableType /\ t.id \in Nat
    BY <1>1, <1>2 DEF TableType, IsTable
  <2>2. Remembered(c, t) = [c EXCEPT !.table = Found(t.id, t.format),
                                     !.uri = IF t.format = "delta" THEN t.id ELSE @]
    BY <1>2 DEF Remembered
  <2> QED
    BY <1>2, <2>1, <2>2 DEF CacheType
<1>3. CASE ~IsTable(t) /\ kind = "unity"
  <2>1. Remembered(c, t) = [c EXCEPT !.table = Absent]
    BY <1>3 DEF Remembered
  <2> QED
    BY <1>3, <2>1, Constants DEF CacheType
<1>4. CASE ~IsTable(t) /\ kind # "unity"
  <2>1. Remembered(c, t) = c
    BY <1>4 DEF Remembered
  <2> QED
    BY <1>4, <2>1 DEF CacheType
<1> QED
  BY <1>2, <1>3, <1>4

LEMMA FoundFields ==
  ASSUME NEW i, NEW f
  PROVE  /\ Found(i, f).id = i /\ Found(i, f).format = f /\ Found(i, f).data = {}
         /\ IsTable(Found(i, f)) <=> f \in Formats
  BY DEF Found, IsTable

LEMMA Formatted ==
  /\ ~IsTable(None) /\ ~IsTable(Absent) /\ None # Absent
  /\ None.format = "none" /\ Absent.format = "absent"
  /\ \A t : IsTable(t) <=> t.format = "delta" \/ t.format = "iceberg"
  BY DEF IsTable, None, Absent, Formats

LEMMA NoTable ==
  ASSUME ServerInv, ~IsTable(table)
  PROVE  table.format = "none" /\ table.data = {}
<1>1. table.format \in Formats \cup {"none", "absent"}
  BY DEF ServerInv, TableType
<1> QED
  BY <1>1 DEF ServerInv, IsTable

LEMMA VendStep ==
  ASSUME IInv, NEW p \in Processes, Vend(p)
  PROVE  IInv'
<1> USE DEF Vend
<1>1. MovesTo(p, "unregister") /\ node'[p].exists = node[p].exists
  BY Known, GoToMoves DEF Stages, Dropping
<1>2. /\ UNCHANGED <<kind, schema, table, log, converted, superseded>>
      /\ cache'[p] = cache[p] /\ Cached(p)' = Cached(p)
  BY DEF server, Cached
<1>3. StageInv(p)' /\ CacheInv(p)'
  BY <1>1, <1>2, Known DEF MovesTo, StageInv, CacheInv, Writing, Dropping
<1>4. KnownInv(p)'
  <2> SUFFICES ASSUME node[p].open, ~node[p].dropped PROVE KnownInv(p)'
    BY <1>1 DEF MovesTo, KnownInv
  <2>1. TrueInv(p)' /\ ExistsInv(p)'
    BY <1>1, <1>2, Known DEF MovesTo, KnownInv, TrueInv, ExistsInv, Shown
  <2>2. VictimInv(p)' /\ AbsentInv(p)' /\ LogInv(p)'
    BY <1>1, <1>2, Known DEF MovesTo, KnownInv, VictimInv, AbsentInv, LogInv, Writing
  <2> QED
    BY <2>1, <2>2 DEF KnownInv
<1>5. BatchInv(p)' /\ AloneInv(p)'
  BY <1>1, <1>2, Known DEF MovesTo, BatchInv, AloneInv, IcebergExists, Actual, Shown
<1>6. ProcessInv(p)'
  BY <1>3, <1>4, <1>5 DEF ProcessInv
<1> QED
  BY <1>1, <1>6, Known, QuietStep DEF GoesOn, MovesTo, ProcessesInv

\* The drop of a table is done with: its storage was cleaned up, or left.
LEMMA Cleaned ==
  ASSUME IInv, NEW p \in Processes, Stage(p) = "clean", Go(p, AfterDrop(p)),
         UNCHANGED <<kind, schema, table, converted, cache, superseded>>
  PROVE  /\ GoesOn(p) /\ node' \in [Processes -> NodeType]
         /\ Stage(p)' \notin {"clean", "register"}
         /\ \A q \in Processes \ {p} : node'[q] = node[q]
         /\ ProcessInv(p)'
<1>1. /\ kind = "unity" /\ Victim(p).format = "delta" /\ Cached(p) = Absent
      /\ Doing(p) \in {"table", "incremental"} => Format(p) = "iceberg"
      /\ Creating(p) /\ Doing(p) \in {"table", "incremental", "stored", "drop_schema"}
      /\ Format(p) \in {"delta", "iceberg"}
  BY Known, ProcessTypes DEF StageInv, CacheInv, Dropping, Does, Formats
<1>2. DEFINE s == AfterDrop(p)
<1>3. /\ s = CASE Doing(p) = "drop_schema" -> "drop_schema"
               [] Doing(p) = "stored" -> "look"
               [] OTHER -> "schema"
      /\ s \in {"drop_schema", "look", "schema"}
      /\ s \in Stages
  BY <1>1 DEF AfterDrop, Stages, Writing
<1>4. /\ node' \in [Processes -> NodeType]
      /\ Stage(p)' = s /\ Doing(p)' = (IF s = "look" THEN "table" ELSE Doing(p))
      /\ Format(p)' = Format(p) /\ Batch(p)' = Batch(p)
      /\ Victim(p)' = Victim(p) /\ Creating(p)' = Creating(p)
      /\ node'[p].open = node[p].open /\ node'[p].alone = node[p].alone
      /\ node'[p].dropped = node[p].dropped /\ node'[p].exists = node[p].exists
      /\ \A q \in Processes \ {p} : node'[q] = node[q]
  <2> HIDE DEF s
  <2> DEFINE d == IF s = "look" THEN "table" ELSE Doing(p)
             now == [node[p].now EXCEPT !.stage = s, !.do = d]
  <2>1. d \in Does /\ now \in NowType
    BY <1>1, <1>3, Known, ProcessTypes DEF Does, NowType
  <2>2. node' = [node EXCEPT ![p].now.stage = s,
                             ![p].now.do = IF s = "look" THEN "table" ELSE @]
    BY DEF Go, s
  <2>3. node' = [node EXCEPT ![p].now = now]
    BY <2>2, Known, ProcessTypes DEF ProcessesInv, NodeType, NowType, Doing
  <2>4. /\ now.stage = s /\ now.do = d /\ now.format = Format(p) /\ now.batch = Batch(p)
        /\ now.victim = Victim(p) /\ now.creating = Creating(p)
    BY Known, ProcessTypes DEF NowType, Format, Batch, Victim, Creating
  <2> HIDE DEF now
  <2> QED
    BY <2>1, <2>3, <2>4, Known, NowFields
    DEF Stage, Doing, Format, Batch, Victim, Creating
<1>5. /\ UNCHANGED <<kind, schema, table, converted, superseded>>
      /\ cache'[p] = cache[p] /\ Cached(p)' = Cached(p)
  BY DEF Cached
<1>6. StageInv(p)' /\ CacheInv(p)'
  <2> HIDE DEF s
  <2>1. StageInv(p)'
    BY <1>1, <1>3, <1>4, <1>5, Known DEF StageInv, Writing, Dropping
  <2>2. CacheInv(p)'
    BY <1>1, <1>3, <1>4, <1>5, Known, Formatted DEF CacheInv, Writing, Dropping
  <2> QED
    BY <2>1, <2>2
<1>7. KnownInv(p)' /\ BatchInv(p)' /\ AloneInv(p)'
  <2> HIDE DEF s
  <2>1. KnownInv(p)'
    <3>1. Shown' = Shown
      BY <1>1, <1>5 DEF Shown
    <3> SUFFICES ASSUME node[p].open, ~node[p].dropped PROVE KnownInv(p)'
      BY <1>4 DEF KnownInv
    <3>2. TrueInv(p)' /\ ExistsInv(p)'
      BY <1>4, <1>5, <3>1, Known DEF KnownInv, TrueInv, ExistsInv
    <3>3. VictimInv(p)' /\ AbsentInv(p)'
      BY <1>1, <1>3, <1>4, <1>5, Known, Formatted DEF KnownInv, VictimInv, AbsentInv
    <3>4. LogInv(p)'
      BY <1>1, <1>5 DEF LogInv
    <3> QED
      BY <3>2, <3>3, <3>4 DEF KnownInv
  <2>2. BatchInv(p)' /\ AloneInv(p)'
    BY <1>1, <1>3, <1>4, <1>5, Known DEF BatchInv, AloneInv, IcebergExists
  <2> QED
    BY <2>1, <2>2
<1> QED
  BY <1>3, <1>4, <1>6, <1>7 DEF ProcessInv, GoesOn

LEMMA LeaveStorageStep ==
  ASSUME IInv, NEW p \in Processes, LeaveStorage(p)
  PROVE  IInv'
<1>1. /\ UNCHANGED <<kind, schema, table, converted, cache, superseded>>
      /\ Stage(p) = "clean" /\ Go(p, AfterDrop(p)) /\ nodes' = nodes /\ faults' = faults + 1
      /\ faults < MaxFaults /\ UNCHANGED <<kind, server, superseded>>
  BY DEF LeaveStorage, server
<1>2. faults' \in 0 .. MaxFaults
  BY <1>1, Known, BoundsAreNaturals
<1>3. cache' \in [Processes -> CacheType] /\ \A q \in Processes : cache'[q] = cache[q]
  BY <1>1, Known DEF ProcessesInv
<1> QED
  BY <1>1, <1>2, <1>3, Cleaned, Known, QuietStep

LEMMA CleanStep ==
  ASSUME IInv, NEW p \in Processes, Clean(p)
  PROVE  IInv'
<1>1. /\ UNCHANGED <<kind, schema, table, converted, cache, superseded, nodes, faults>>
      /\ Stage(p) = "clean" /\ Go(p, AfterDrop(p))
      /\ log' = log \/ (log # NoLog /\ log' \in {NoLog, {}})
  BY DEF Clean
<1>2. /\ kind = "unity" /\ node[p].open /\ Batch(p) # 0 /\ table.format # "delta"
      /\ Doing(p) \in {"table", "incremental"} => Format(p) = "iceberg"
      /\ Doing(p) \in {"table", "incremental", "stored", "drop_schema"}
  BY <1>1, Known, ProcessTypes, AtStage
  DEF StageInv, Dropping, Does, Formats, IInv, CleanInv
<1>3. ServerInv'
  BY <1>1, <1>2, Known DEF ServerInv, IcebergExists
<1>4. ASSUME NEW q \in Processes \ {p}
      PROVE  Aside(q)
  <2>1. node[q].open /\ Batch(q) # 0 => Format(q) = "iceberg"
    BY <1>2, Alongside
  <2>2. node[q].open => Keeps(q)
    <3>1. Shown' = Shown
      BY <1>1, <1>2 DEF Shown
    <3> QED
      BY <1>1, <2>1, <3>1 DEF Keeps
  <2> QED
    BY <1>1, <2>2, Cleaned DEF Aside
<1>5. cache' \in [Processes -> CacheType]
  BY <1>1, Known DEF ProcessesInv
<1>6. table'.format # "delta" /\ kind' = kind
  BY <1>1, <1>2
<1>7. \A q \in Processes \ {p} : Stage(q) # "register"
  <2>1. ASSUME NEW q \in Processes \ {p}, Stage(q) = "register"
        PROVE  FALSE
    <3>1. node[q].open /\ Format(q) = "delta" /\ Batch(q) # 0
      BY <2>1, Known, AtStage DEF StageInv
    <3>2. Format(p) = "iceberg"
      BY <1>1, <1>2, <3>1, Alongside
    <3> QED
      BY <1>2, <3>1, <3>2, Alongside
  <2> QED
    BY <2>1
<1> QED
  BY <1>1, <1>3, <1>4, <1>5, <1>6, <1>7, Cleaned, Step

LEMMA CredentialsStep ==
  ASSUME IInv, NEW p \in Processes, Credentials(p)
  PROVE  IInv'
<1> USE DEF Credentials
<1> DEFINE c == [cache[p] EXCEPT !.creds = IF kind = "unity" THEN @ \cup {cache[p].uri} ELSE @]
<1>1. MovesTo(p, "write") /\ node'[p].exists = node[p].exists
  BY Known, GoToMoves DEF Stages, Writing
<1>2. c \in CacheType /\ c.schema = cache[p].schema /\ c.table = cache[p].table
      /\ c.uri = cache[p].uri /\ c.iceberg = cache[p].iceberg
  BY Known, ProcessTypes DEF CacheType
<1>3. /\ UNCHANGED <<kind, schema, table, log, converted, superseded>>
      /\ Cache(p, c) /\ Stage(p) = "credentials"
  BY DEF server
<1> HIDE DEF c
<1>4. /\ cache' \in [Processes -> CacheType] /\ Cached(p)' = Cached(p)
      /\ cache'[p].schema = cache[p].schema /\ cache'[p].uri = cache[p].uri
      /\ cache'[p].iceberg = cache[p].iceberg
      /\ \A q \in Processes \ {p} : cache'[q] = cache[q]
  BY <1>2, <1>3, Known, CacheFields DEF Cached
<1>5. StageInv(p)' /\ CacheInv(p)'
  BY <1>1, <1>3, <1>4, Known DEF MovesTo, StageInv, CacheInv, Writing, Dropping
<1>6. KnownInv(p)'
  <2> SUFFICES ASSUME node[p].open, ~node[p].dropped PROVE KnownInv(p)'
    BY <1>1 DEF MovesTo, KnownInv
  <2>1. TrueInv(p)' /\ ExistsInv(p)'
    BY <1>1, <1>3, <1>4, Known DEF MovesTo, KnownInv, TrueInv, ExistsInv, Shown
  <2>2. VictimInv(p)' /\ AbsentInv(p)'
    BY <1>1, <1>3, <1>4, Known DEF MovesTo, KnownInv, VictimInv, AbsentInv
  <2>3. LogInv(p)'
    BY <1>1, <1>3, Known DEF MovesTo, StageInv, LogInv
  <2> QED
    BY <2>1, <2>2, <2>3 DEF KnownInv
<1>7. BatchInv(p)' /\ AloneInv(p)'
  BY <1>1, <1>3, <1>4, Known DEF MovesTo, BatchInv, AloneInv, IcebergExists, Actual, Shown
<1>8. ProcessInv(p)'
  BY <1>5, <1>6, <1>7 DEF ProcessInv
<1> QED
  BY <1>1, <1>3, <1>4, <1>8, Known, QuietStep DEF GoesOn, MovesTo

LEMMA FindStep ==
  ASSUME IInv, NEW p \in Processes, Find(p)
  PROVE  IInv'
<1> USE DEF Find
<1> DEFINE s == IF IcebergExists THEN "commit" ELSE "create"
<1>1. MovesTo(p, s) /\ node'[p].exists = node[p].exists /\ s \in {"commit", "create"}
  BY Known, GoToMoves DEF Stages, Writing
<1>2. /\ UNCHANGED <<kind, schema, table, log, converted, superseded>> /\ Stage(p) = "find"
      /\ cache'[p] = cache[p] /\ Cached(p)' = Cached(p)
      /\ s = "commit" <=> IcebergExists
  BY DEF server, Cached
<1> HIDE DEF s
<1>3. StageInv(p)' /\ CacheInv(p)'
  BY <1>1, <1>2, Known DEF MovesTo, StageInv, CacheInv, Writing, Dropping
<1>4. KnownInv(p)'
  <2> SUFFICES ASSUME node[p].open, ~node[p].dropped PROVE KnownInv(p)'
    BY <1>1 DEF MovesTo, KnownInv
  <2>1. TrueInv(p)' /\ ExistsInv(p)'
    BY <1>1, <1>2, Known DEF MovesTo, KnownInv, TrueInv, ExistsInv, Shown
  <2>2. VictimInv(p)' /\ AbsentInv(p)' /\ LogInv(p)'
    BY <1>1, <1>2, Known DEF MovesTo, KnownInv, VictimInv, AbsentInv, LogInv, Writing
  <2> QED
    BY <2>1, <2>2 DEF KnownInv
<1>5. BatchInv(p)'
  BY <1>1, <1>2, Known DEF MovesTo, BatchInv
<1>6. AloneInv(p)'
  <2>1. ASSUME node[p].open, node[p].alone, ~IcebergExists
        PROVE  ~IsTable(table)
    <3>1. /\ ~node[p].dropped /\ Format(p) = "iceberg"
          /\ kind = "unity" \/ (kind = "fabric" /\ table.format # "delta")
      BY <1>2, <2>1, Known, KindsAreKnown DEF StageInv, ServerInv
    <3>2. kind = "unity" /\ ~Creating(p) => FALSE
      BY <1>2, <2>1, <3>1, Known DEF CacheInv, KnownInv, TrueInv, Writing, IcebergExists
    <3>3. kind = "unity" /\ Creating(p) => ~IsTable(table)
      BY <1>2, <2>1, <3>1, Known DEF CacheInv, AloneInv, Writing
    <3> QED
      BY <2>1, <3>1, <3>2, <3>3, Formatted, ProcessTypes, Known DEF IcebergExists, StageInv
  <2>2. Actual' = Actual /\ IcebergExists' = IcebergExists
    BY <1>2 DEF Actual, IcebergExists, Shown
  <2>3. IsTable(table)' = IsTable(table)
    BY <1>2
  <2> QED
    BY <1>1, <1>2, <2>1, <2>2, <2>3, Known DEF MovesTo, AloneInv
<1>7. ProcessInv(p)'
  BY <1>3, <1>4, <1>5, <1>6 DEF ProcessInv
<1> QED
  BY <1>1, <1>2, <1>7, Known, QuietStep DEF GoesOn, MovesTo, ProcessesInv

\* The client remembers a table that it has asked for, or that was listed.
LEMMA Learns ==
  ASSUME IInv, NEW p \in Processes, NEW t \in TableType, t = Answer(p) \/ t = table,
         NEW r, r = Remembered(cache[p], t)
  PROVE  /\ r \in CacheType /\ r.schema = cache[p].schema /\ r.iceberg = cache[p].iceberg
         /\ IsTable(t) => IsTable(r.table) /\ r.table.format = t.format /\ r.table.id = t.id
         /\ ~IsTable(t) => r.table = IF kind = "unity" THEN Absent ELSE Cached(p)
         /\ r.table.format = "absent" => r.table = Absent
         /\ kind = "fabric" => /\ r.uri = 0 /\ r.table # Absent
                               /\ r.table.format = "delta" => r.table.id = 0
         /\ node[p].open /\ ~node[p].dropped =>
              /\ r.uri = IF r.table.format = "delta" THEN r.table.id ELSE 0
              /\ kind = "unity" /\ IsTable(t) =>
                   IsTable(table) /\ table.id = t.id /\ table.format = t.format
              /\ node[p].exists => r.table # Absent /\ (IsTable(r.table) \/ IsTable(Shown))
              /\ kind = "unity" /\ ~IsTable(t) => Cached(p) = Absent \/ ~IsTable(table)
<1>1. /\ cache[p] \in CacheType /\ CacheInv(p) /\ ServerInv /\ kind \in {"unity", "fabric"}
      /\ cache[p].table = Cached(p)
  BY Known, ProcessTypes, KindsAreKnown DEF ServerInv, Cached
<1>2. /\ r \in CacheType /\ r.schema = cache[p].schema /\ r.iceberg = cache[p].iceberg
      /\ IsTable(t) => /\ r.table = Found(t.id, t.format)
                       /\ r.uri = IF t.format = "delta" THEN t.id ELSE cache[p].uri
      /\ ~IsTable(t) => /\ r.uri = cache[p].uri
                        /\ r.table = IF kind = "unity" THEN Absent ELSE Cached(p)
  BY <1>1, RememberedFacts
<1>3. IsTable(t) => IsTable(r.table) /\ r.table.format = t.format /\ r.table.id = t.id
  BY <1>2, FoundFields, Formatted DEF IsTable
<1>4. r.table.format = "absent" => r.table = Absent
  BY <1>1, <1>2, <1>3, Formatted DEF CacheInv
<1>5. kind = "fabric" /\ t.format = "delta" => t.id = 0
  <2>1. Shown.format = "delta" /\ kind = "fabric" => Shown.id = 0
    BY DEF Shown, Found, None
  <2> QED
    BY <1>1, <2>1, AnswerFacts, Formatted DEF CacheInv, ServerInv
<1>6. kind = "fabric" => /\ r.uri = 0 /\ r.table # Absent
                         /\ r.table.format = "delta" => r.table.id = 0
  BY <1>1, <1>2, <1>3, <1>5, Formatted DEF CacheInv
<1>7. ASSUME node[p].open, ~node[p].dropped
      PROVE  /\ r.uri = IF r.table.format = "delta" THEN r.table.id ELSE 0
             /\ kind = "unity" /\ IsTable(t) =>
                  IsTable(table) /\ table.id = t.id /\ table.format = t.format
             /\ node[p].exists => r.table # Absent /\ (IsTable(r.table) \/ IsTable(Shown))
             /\ kind = "unity" /\ ~IsTable(t) => Cached(p) = Absent \/ ~IsTable(table)
  <2>1. TrueInv(p) /\ ExistsInv(p)
    BY <1>7, Known DEF KnownInv
  <2>2. kind = "unity" /\ IsTable(t) =>
          IsTable(table) /\ table.id = t.id /\ table.format = t.format
    BY <2>1, AnswerFacts, Formatted DEF TrueInv
  <2>3. kind = "unity" /\ ~IsTable(t) => ~IsTable(Cached(p))
    BY <2>1, AnswerFacts DEF TrueInv
  <2>4. kind = "unity" /\ ~IsTable(t) => Cached(p) = Absent \/ ~IsTable(table)
    BY <2>3, AnswerFacts
  <2>5. r.uri = IF r.table.format = "delta" THEN r.table.id ELSE 0
    <3>1. CASE IsTable(t)
      <4>1. t.format # "delta" /\ kind = "unity" => cache[p].uri = 0
        BY <3>1, <2>1, <2>2, Formatted DEF TrueInv
      <4> QED
        BY <3>1, <4>1, <1>1, <1>2, <1>3, <1>6
    <3>2. CASE ~IsTable(t)
      BY <3>2, <1>1, <1>2, <2>1, <2>3, Formatted DEF TrueInv
    <3> QED
      BY <3>1, <3>2
  <2>6. node[p].exists => r.table # Absent /\ (IsTable(r.table) \/ IsTable(Shown))
    <3>1. CASE IsTable(t)
      BY <3>1, <1>3, Formatted
    <3>2. CASE ~IsTable(t) /\ kind = "unity"
      BY <3>2, <2>1, <2>3, <2>4, AnswerFacts DEF ExistsInv
    <3>3. CASE ~IsTable(t) /\ kind = "fabric"
      BY <3>3, <1>2, <2>1 DEF ExistsInv
    <3> QED
      BY <1>1, <3>1, <3>2, <3>3
  <2> QED
    BY <2>2, <2>4, <2>5, <2>6
<1> QED
  BY <1>2, <1>3, <1>4, <1>6, <1>7

\* What Fabric shows.
LEMMA FabricShows ==
  ASSUME IInv, kind = "fabric"
  PROVE  /\ Shown.format = "delta" <=> log # NoLog
         /\ Shown.format = "iceberg" => log = NoLog /\ IcebergExists
         /\ log # NoLog => Actual = Shown
         /\ log = NoLog /\ IcebergExists => Actual.format = "iceberg"
         /\ log = NoLog /\ ~IcebergExists => ~IsTable(Actual)
<1>1. ServerInv
  BY DEF IInv
<1>2. IsTable(table) <=> IcebergExists
  BY <1>1, Formatted DEF ServerInv, IcebergExists
<1> QED
  BY <1>1, <1>2, Formatted, FoundFields DEF ServerInv, Shown, Actual

LEMMA ValidateStep ==
  ASSUME IInv, NEW p \in Processes, Validate(p)
  PROVE  IInv'
<1> USE DEF Validate
<1> DEFINE t == Answer(p)
           r == Remembered(cache[p], t)
           s == FirstStage(p)
<1>1. /\ UNCHANGED <<kind, schema, table, log, converted, superseded>> /\ Stage(p) = "validate"
      /\ t.format = Format(p) /\ IsTable(t) /\ t \in TableType /\ node[p].open
      /\ Format(p) \in {"delta", "iceberg"} /\ kind \in {"unity", "fabric"}
  BY Known, ProcessTypes, AnswerFacts, AtStage, KindsAreKnown
  DEF server, Formats, IsTable, ServerInv
<1>2. /\ s \in {"credentials", "commit"} /\ s \in Stages
      /\ s = "credentials" <=> Format(p) = "delta"
      /\ s = "commit" <=> Format(p) = "iceberg"
  BY <1>1 DEF FirstStage, Stages, Writing
<1>3. MovesTo(p, s) /\ node'[p].exists = node[p].exists
  BY <1>2, Known, GoToMoves
<1>4. Cache(p, r)
  OBVIOUS
<1> HIDE DEF s
<1>5. /\ cache' \in [Processes -> CacheType] /\ Cached(p)' = r.table /\ cache'[p] = r
      /\ \A q \in Processes \ {p} : cache'[q] = cache[q]
      /\ r.schema = cache[p].schema /\ r.iceberg = cache[p].iceberg
      /\ IsTable(r.table) /\ r.table.format = t.format /\ r.table.id = t.id
      /\ r.table # Absent /\ r.table.format # "absent"
      /\ kind = "fabric" => r.uri = 0 /\ (r.table.format = "delta" => r.table.id = 0)
  BY <1>1, <1>4, Learns, Known, CacheFields, Formatted DEF Cached
<1>6. StageInv(p)'
  BY <1>1, <1>2, <1>3, <1>5, Known DEF MovesTo, StageInv, Writing, Dropping
<1>7. CacheInv(p)'
  BY <1>1, <1>2, <1>3, <1>5, Known DEF MovesTo, StageInv, CacheInv, Writing
<1>8. ASSUME node[p].open, ~node[p].dropped
      PROVE  TrueInv(p)' /\ ExistsInv(p)' /\ VictimInv(p)' /\ AbsentInv(p)' /\ LogInv(p)'
  <2>1. TrueInv(p)' /\ ExistsInv(p)'
    BY <1>1, <1>5, <1>8, Learns, Known DEF TrueInv, ExistsInv, KnownInv
  <2>2. VictimInv(p)' /\ AbsentInv(p)'
    BY <1>1, <1>2, <1>3, <1>5 DEF MovesTo, VictimInv, AbsentInv
  <2>3. kind = "fabric" /\ Format(p) = "iceberg" => log = NoLog
    BY <1>1, <1>8, AnswerFacts, FabricShows, Known, Formatted DEF KnownInv, LogInv
  <2>4. LogInv(p)'
    BY <1>1, <1>3, <2>3 DEF MovesTo, LogInv
  <2> QED
    BY <2>1, <2>2, <2>4
<1>9. BatchInv(p)'
  BY <1>2, <1>3 DEF MovesTo, BatchInv
<1>10. AloneInv(p)'
  <2>1. SUFFICES ASSUME node[p].open, node[p].alone
                 PROVE  AloneInv(p)'
    BY <1>3 DEF MovesTo, AloneInv
  <2>2. ~node[p].dropped
    BY <2>1, Known DEF StageInv
  <2>3. kind = "fabric" => r.table.format = Actual.format
    BY <1>1, <1>5, <2>1, AnswerFacts, FabricShows, Known, Formatted DEF AloneInv
  <2>4. Format(p) = "iceberg" => IcebergExists
    <3>1. CASE kind = "unity"
      BY <1>1, <2>1, <2>2, <3>1, Learns DEF IcebergExists
    <3>2. CASE kind = "fabric"
      BY <1>1, <1>5, <2>3, <3>2, FabricShows, Formatted
    <3> QED
      BY <1>1, <3>1, <3>2
  <2>5. Actual' = Actual /\ IcebergExists' = IcebergExists
    BY <1>1 DEF Actual, IcebergExists, Shown
  <2> QED
    BY <1>1, <1>2, <1>3, <1>5, <2>1, <2>3, <2>4, <2>5, Known DEF MovesTo, AloneInv
<1>11. ProcessInv(p)'
  BY <1>3, <1>6, <1>7, <1>8, <1>9, <1>10 DEF ProcessInv, KnownInv, MovesTo
<1> QED
  BY <1>1, <1>2, <1>3, <1>5, <1>11, Known, QuietStep DEF GoesOn, MovesTo

\* drop_schema remembers nothing when it lists no table, or none at all.
ListsNothing(p) == Doing(p) = "drop_schema" /\ (kind = "fabric" \/ ~IsTable(table))

LEMMA EmptyListStep ==
  ASSUME IInv, NEW p \in Processes, Look(p), ListsNothing(p)
  PROVE  IInv'
<1> DEFINE t == Looked(p)
           c == MustDrop(p) \/ ~IsTable(Looked(p))
<1>1. /\ UNCHANGED <<kind, schema, table, log, converted, superseded>> /\ Stage(p) = "look"
      /\ t \in TableType /\ node[p].open /\ t = table /\ c \in BOOLEAN
      /\ ServerInv /\ CacheInv(p) /\ StageInv(p) /\ ProcessesInv
      /\ Doing(p) = "drop_schema" /\ kind \in {"unity", "fabric"}
      /\ kind = "unity" => ~IsTable(table)
      /\ "drop_schema" \in Stages
  BY Known, AtStage, KindsAreKnown DEF Look, ListsNothing, server, ServerInv, Looked, Stages
<1>2. Looks(p, t, c, "drop_schema") /\ Cache(p, cache[p])
  <2>1. ~MustDrop(p)
    BY <1>1 DEF MustDrop, ListsNothing, Looked
  <2>2. Noted(p) = cache[p]
    BY DEF Noted, ListsNothing
  <2> QED
    BY <1>1, <2>1, <2>2 DEF Look, Looks
<1> HIDE DEF t, c
<1>3. /\ node' \in [Processes -> NodeType]
      /\ Stage(p)' = "drop_schema" /\ Doing(p)' = Doing(p) /\ Format(p)' = Format(p)
      /\ Batch(p)' = Batch(p) /\ Victim(p)' = t /\ Creating(p)' = c
      /\ node'[p].open = node[p].open /\ node'[p].alone = node[p].alone
      /\ node'[p].dropped = node[p].dropped /\ node'[p].exists = node[p].exists
      /\ \A q \in Processes \ {p} : node'[q] = node[q]
  <2>1. t \in TableType /\ c \in BOOLEAN /\ "drop_schema" \in Stages /\ ProcessesInv
        /\ Looks(p, t, c, "drop_schema")
    BY <1>1, <1>2
  <2>2. /\ node' \in [Processes -> NodeType]
        /\ node'[p].now.stage = "drop_schema" /\ node'[p].now.do = Doing(p)
        /\ node'[p].now.format = Format(p) /\ node'[p].now.batch = Batch(p)
        /\ node'[p].now.victim = t /\ node'[p].now.creating = c
        /\ node'[p].open = node[p].open
        /\ node'[p].alone = node[p].alone /\ node'[p].dropped = node[p].dropped
        /\ node'[p].exists = node[p].exists
        /\ \A q \in Processes \ {p} : node'[q] = node[q]
    BY <2>1, LookFields
  <2> QED
    BY <2>2 DEF Stage, Doing, Format, Batch, Victim, Creating
<1>4. cache' = cache /\ cache' \in [Processes -> CacheType] /\ Cached(p)' = Cached(p)
  <2>1. cache' = cache
    BY <1>1, <1>2 DEF Cache, ProcessesInv
  <2> QED
    BY <1>1, <2>1 DEF Cached, ProcessesInv
<1>5. StageInv(p)' /\ CacheInv(p)'
  BY <1>1, <1>3, <1>4 DEF StageInv, CacheInv, Writing, Dropping
<1>6. ASSUME node[p].open, ~node[p].dropped
      PROVE  TrueInv(p)' /\ ExistsInv(p)' /\ VictimInv(p)' /\ AbsentInv(p)' /\ LogInv(p)'
  <2>1. TrueInv(p) /\ ExistsInv(p) /\ AbsentInv(p)
    BY <1>6, Known DEF KnownInv
  <2>2. TrueInv(p)' /\ ExistsInv(p)' /\ AbsentInv(p)'
    BY <1>1, <1>3, <1>4, <2>1 DEF TrueInv, ExistsInv, AbsentInv, Shown
  <2>3. VictimInv(p)' /\ LogInv(p)'
    BY <1>1, <1>3, <1>4, <2>1 DEF TrueInv, VictimInv, LogInv, Writing
  <2> QED
    BY <2>2, <2>3
<1>7. BatchInv(p)' /\ AloneInv(p)'
  BY <1>1, <1>3, <1>4, Known DEF BatchInv, AloneInv, IcebergExists
<1>8. ProcessInv(p)'
  BY <1>3, <1>5, <1>6, <1>7 DEF ProcessInv, KnownInv
<1>9. GoesOn(p) /\ Stage(p)' # "clean" /\ Stage(p)' # "register"
  BY <1>1, <1>3 DEF GoesOn
<1> QED
  <2>1. \A q \in Processes \ {p} : cache'[q] = cache[q] /\ node'[q] = node[q]
    BY <1>3, <1>4
  <2>2. /\ UNCHANGED <<kind, server, superseded>>
        /\ nodes' \in 0 .. MaxNodes /\ faults' \in 0 .. MaxFaults
    BY <1>1 DEF Look, ServerInv, server
  <2> QED
    BY <1>3, <1>4, <1>8, <1>9, <2>1, <2>2, QuietStep

LEMMA FoundStep ==
  ASSUME IInv, NEW p \in Processes, Look(p), ~ListsNothing(p)
  PROVE  IInv'
<1> USE DEF Look
<1> DEFINE t == Looked(p)
           r == Remembered(cache[p], t)
           drops == MustDrop(p)
           s == CASE MustDrop(p) /\ kind = "unity" /\ Looked(p).format = "delta" -> "vend"
                  [] MustDrop(p) /\ ~(kind = "unity" /\ Looked(p).format = "delta") -> "unregister"
                  [] ~MustDrop(p) /\ Doing(p) = "drop_schema" -> "drop_schema"
                  [] OTHER -> "schema"
<1>1. /\ UNCHANGED <<kind, schema, table, log, converted, superseded>> /\ Stage(p) = "look"
      /\ t \in TableType /\ node[p].open /\ (t = Answer(p) \/ t = table)
      /\ Doing(p) # "drop_schema" => t = Answer(p)
      /\ Doing(p) = "drop_schema" => t = table
      /\ Format(p) \in {"delta", "iceberg"} /\ kind \in {"unity", "fabric"}
      /\ Doing(p) \in {"table", "incremental", "stored", "drop_schema"}
      /\ Doing(p) = "drop_schema" => kind = "unity" /\ IsTable(t)
      /\ ServerInv /\ CacheInv(p) /\ StageInv(p)
  BY Known, ProcessTypes, AnswerFacts, AtStage, KindsAreKnown
  DEF server, Formats, ServerInv, Looked, Does, ListsNothing
<1>2. /\ drops => IsTable(t)
      /\ drops /\ Doing(p) \in {"table", "incremental"} => t.format # Format(p)
      /\ ~drops /\ IsTable(t) /\ Doing(p) \in {"table", "incremental"} => t.format = Format(p)
      /\ ~drops /\ IsTable(t) => Doing(p) # "stored"
      /\ ~drops /\ IsTable(t) /\ Doing(p) = "drop_schema" => kind = "fabric"
      /\ drops /\ Doing(p) = "drop_schema" => kind = "unity"
      /\ Doing(p) = "drop_schema" => drops
      /\ drops \in BOOLEAN
  BY <1>1 DEF MustDrop
<1>3. /\ s \in {"vend", "unregister", "drop_schema", "schema"}
      /\ s \in {"vend", "unregister"} <=> drops
      /\ s = "vend" => kind = "unity" /\ t.format = "delta"
      /\ s # "drop_schema" /\ (s = "schema" => Doing(p) # "drop_schema")
      /\ s \in Stages
  BY <1>2 DEF Stages, Writing, Dropping
<1>4. node' = [node EXCEPT ![p].now.victim = t,
                           ![p].now.creating = drops \/ ~IsTable(t),
                           ![p].now.stage = s]
      /\ Cache(p, r)
  BY DEF Noted, ListsNothing
<1> HIDE DEF t, r, s, drops
<1>5. /\ node' \in [Processes -> NodeType]
      /\ Stage(p)' = s /\ Doing(p)' = Doing(p) /\ Format(p)' = Format(p)
      /\ Batch(p)' = Batch(p) /\ Victim(p)' = t /\ Creating(p)' = (drops \/ ~IsTable(t))
      /\ node'[p].open = node[p].open /\ node'[p].alone = node[p].alone
      /\ node'[p].dropped = node[p].dropped /\ node'[p].exists = node[p].exists
      /\ \A q \in Processes \ {p} : node'[q] = node[q]
  <2> HIDE DEF Look
  <2>1. PICK c \in BOOLEAN : c = (drops \/ ~IsTable(t))
    OBVIOUS
  <2>2. Looks(p, t, c, s)
    BY <1>4, <2>1 DEF Looks
  <2>3. ProcessesInv /\ t \in TableType /\ s \in Stages
    BY <1>1, <1>3, Known
  <2>4. /\ node' \in [Processes -> NodeType]
        /\ node'[p].now.stage = s /\ node'[p].now.do = Doing(p)
        /\ node'[p].now.format = Format(p) /\ node'[p].now.batch = Batch(p)
        /\ node'[p].now.victim = t /\ node'[p].now.creating = c
        /\ node'[p].open = node[p].open
        /\ node'[p].alone = node[p].alone /\ node'[p].dropped = node[p].dropped
        /\ node'[p].exists = node[p].exists
        /\ \A q \in Processes \ {p} : node'[q] = node[q]
    BY <2>2, <2>3, LookFields
  <2> QED
    BY <2>1, <2>4 DEF Stage, Doing, Format, Batch, Victim, Creating
<1>6. /\ cache' \in [Processes -> CacheType] /\ Cached(p)' = r.table /\ cache'[p] = r
      /\ \A q \in Processes \ {p} : cache'[q] = cache[q]
      /\ r.schema = cache[p].schema /\ r.iceberg = cache[p].iceberg
      /\ IsTable(t) => IsTable(r.table) /\ r.table.format = t.format /\ r.table.id = t.id
      /\ ~IsTable(t) => r.table = IF kind = "unity" THEN Absent ELSE Cached(p)
      /\ r.table.format = "absent" => r.table = Absent
      /\ kind = "fabric" => /\ r.uri = 0 /\ r.table # Absent
                            /\ r.table.format = "delta" => r.table.id = 0
  BY <1>1, <1>4, Learns, Known, CacheFields DEF Cached, r
<1>7. ~IsTable(t) /\ kind = "fabric" /\ Doing(p) # "drop_schema" => ~IsTable(Cached(p)) /\ t = Shown
  BY <1>1, AnswerFacts DEF CacheInv
<1>8. StageInv(p)'
  BY <1>1, <1>2, <1>3, <1>5 DEF StageInv, Writing, Dropping
<1>9. CacheInv(p)'
  <2>1. /\ s \in Writing <=> s = "schema"
        /\ s \notin {"after", "clean", "done", "find", "create", "credentials", "write", "register"}
        /\ kind' = kind /\ cache'[p].uri = r.uri
    BY <1>1, <1>3, <1>6 DEF Writing
  <2>2. /\ s = "schema" /\ ~Creating(p)' => IsTable(r.table)
        /\ s = "schema" /\ IsTable(r.table) => r.table.format = Format(p)
        /\ s = "schema" /\ Creating(p)' /\ kind = "unity" => r.table = Absent
    <3>1. /\ Creating(p)' <=> drops \/ ~IsTable(t)
          /\ s = "schema" => ~drops /\ Doing(p) # "drop_schema"
      BY <1>3, <1>5
    <3>2. s = "schema" /\ IsTable(t) => t.format = Format(p)
      BY <1>1, <1>2, <3>1
    <3>3. s = "schema" /\ ~IsTable(t) /\ kind = "fabric" => ~IsTable(r.table)
      BY <1>6, <1>7, <3>1
    <3> QED
      BY <1>1, <1>6, <3>1, <3>2, <3>3, Formatted
  <2> QED
    BY <1>5, <1>6, <2>1, <2>2 DEF CacheInv
<1>10. ASSUME node[p].open, ~node[p].dropped
       PROVE  TrueInv(p)' /\ ExistsInv(p)' /\ VictimInv(p)' /\ AbsentInv(p)' /\ LogInv(p)'
  <2>1. /\ r.uri = IF r.table.format = "delta" THEN r.table.id ELSE 0
        /\ kind = "unity" /\ IsTable(t) =>
             IsTable(table) /\ table.id = t.id /\ table.format = t.format
        /\ node[p].exists => r.table # Absent /\ (IsTable(r.table) \/ IsTable(Shown))
        /\ kind = "unity" /\ ~IsTable(t) => Cached(p) = Absent \/ ~IsTable(table)
    BY <1>1, <1>10, Learns DEF r
  <2>2. Shown' = Shown
    BY <1>1 DEF Shown
  <2>3. KnownInv(p)
    BY Known
  <2>4. TrueInv(p)'
    BY <1>1, <1>6, <1>10, <2>1, <2>3, Formatted DEF TrueInv, KnownInv
  <2>5. ExistsInv(p)'
    BY <1>5, <1>6, <2>1, <2>2 DEF ExistsInv
  <2>6. VictimInv(p)'
    BY <1>1, <1>2, <1>3, <1>5, <2>1 DEF VictimInv
  <2>7. AbsentInv(p)'
    <3>1. r.table = Absent /\ kind = "unity" => ~IsTable(t)
      BY <1>6, Formatted
    <3> QED
      BY <1>1, <1>5, <1>6, <1>10, <2>1, <2>3, <3>1, Formatted DEF AbsentInv, KnownInv
  <2>8. LogInv(p)'
    <3>1. SUFFICES ASSUME kind = "fabric", Format(p) = "iceberg", s # "drop_schema",
                          r.table.format = "iceberg" \/ s = "schema"
                   PROVE  log = NoLog
      BY <1>1, <1>3, <1>5, <1>6 DEF LogInv, Writing
    <3>2. Doing(p) # "drop_schema" /\ t = Answer(p)
      BY <1>1, <1>2, <1>3, <3>1
    <3>3. Cached(p).format = "iceberg" => log = NoLog
      BY <1>1, <1>10, <2>3, <3>1 DEF KnownInv, LogInv
    <3>4. CASE IsTable(t) /\ t.format = "iceberg"
      BY <1>1, <3>1, <3>2, <3>3, <3>4, AnswerFacts, FabricShows DEF CacheInv
    <3>5. CASE IsTable(t) /\ t.format # "iceberg"
      BY <1>1, <1>2, <1>3, <1>6, <3>1, <3>2, <3>5, Formatted
    <3>6. CASE ~IsTable(t)
      BY <1>7, <3>1, <3>2, <3>6, FabricShows, Formatted
    <3> QED
      BY <3>4, <3>5, <3>6
  <2> QED
    BY <2>4, <2>5, <2>6, <2>7, <2>8
<1>11. BatchInv(p)'
  BY <1>3, <1>5 DEF BatchInv
<1>12. AloneInv(p)'
  <2>1. SUFFICES ASSUME node[p].open, node[p].alone
                 PROVE  AloneInv(p)'
    BY <1>5 DEF AloneInv
  <2>2. ~node[p].dropped /\ AloneInv(p)
    BY <1>1, <2>1, Known DEF StageInv
  <2>3. Actual' = Actual /\ IcebergExists' = IcebergExists
    BY <1>1 DEF Actual, IcebergExists, Shown
  <2>4. kind = "unity" /\ r.table = Absent => ~IsTable(table)
    <3>1. r.table = Absent /\ kind = "unity" => ~IsTable(t)
      BY <1>6, Formatted
    <3>2. kind = "unity" /\ ~IsTable(t) => Cached(p) = Absent \/ ~IsTable(table)
      BY <1>1, <2>1, <2>2, Learns
    <3> QED
      BY <1>1, <2>1, <2>2, <3>1, <3>2 DEF AloneInv
  <2>5. kind = "fabric" /\ IsTable(r.table) /\ s # "drop_schema" =>
          r.table.format = Actual.format
    <3>1. SUFFICES ASSUME kind = "fabric", IsTable(r.table), s # "drop_schema"
                   PROVE  r.table.format = Actual.format
      OBVIOUS
    <3>2. t = Answer(p) /\ IsTable(t)
      BY <1>1, <1>2, <1>3, <1>6, <1>7, <3>1
    <3>3. IsTable(Cached(p)) => Cached(p).format = Actual.format
      BY <1>1, <2>1, <2>2, <3>1 DEF AloneInv
    <3>4. IsTable(Shown) => Shown.format = Actual.format
      BY <3>1, FabricShows, Formatted
    <3> QED
      BY <1>1, <1>6, <3>1, <3>2, <3>3, <3>4, AnswerFacts DEF CacheInv
  <2> QED
    BY <1>1, <1>3, <1>5, <1>6, <2>1, <2>2, <2>3, <2>4, <2>5 DEF AloneInv
<1>13. ProcessInv(p)'
  BY <1>5, <1>8, <1>9, <1>10, <1>11, <1>12 DEF ProcessInv, KnownInv
<1>14. GoesOn(p) /\ Stage(p)' # "clean" /\ Stage(p)' # "register"
  BY <1>1, <1>3, <1>5 DEF GoesOn
<1> QED
  BY <1>1, <1>5, <1>6, <1>13, <1>14, Known, QuietStep

LEMMA LookStep ==
  ASSUME IInv, NEW p \in Processes, Look(p)
  PROVE  IInv'
  BY EmptyListStep, FoundStep

LEMMA AfterStep ==
  ASSUME IInv, NEW p \in Processes, After(p)
  PROVE  IInv'
<1> DEFINE c == IF Creating(p) THEN AfterCreate(cache[p], Format(p)) ELSE cache[p]
<1>1. /\ UNCHANGED <<kind, schema, table, log, converted, superseded, nodes, faults>>
      /\ UNCHANGED <<kind, server, superseded>> /\ Stage(p) = "after" /\ Cache(p, c) /\ Done(p)
  BY DEF After, server, Creating
<1>2. /\ ServerInv /\ StageInv(p) /\ CacheInv(p) /\ node[p].open
      /\ Format(p) \in {"delta", "iceberg"} /\ kind \in {"unity", "fabric"}
      /\ cache[p] \in CacheType /\ Cached(p) \in TableType
      /\ Cached(p) = cache[p].table /\ Creating(p) \in BOOLEAN
  BY <1>1, Known, ProcessTypes, AtStage, KindsAreKnown DEF ServerInv, Formats, Cached
<1>3. MovesTo(p, "done") /\ node'[p].exists
  BY <1>1, Known, DoneMoves
<1>4. /\ c \in CacheType /\ c.schema = cache[p].schema /\ c.iceberg = cache[p].iceberg
      /\ c.uri = cache[p].uri
      /\ Creating(p) /\ kind = "unity" /\ Format(p) = "iceberg" => c.table = None
      /\ Creating(p) /\ kind = "unity" /\ Format(p) = "delta" => c.table = Cached(p)
      /\ Creating(p) /\ kind = "fabric" => c.table = Found(0, Format(p))
      /\ ~Creating(p) => c.table = Cached(p)
  <2>1. CASE ~Creating(p)
    BY <1>2, <2>1
  <2>2. CASE Creating(p) /\ kind = "unity" /\ Format(p) = "iceberg"
    <3>1. c = Forgotten(cache[p])
      BY <2>2 DEF AfterCreate
    <3>2. Cached(p) = Absent
      BY <1>1, <1>2, <2>2 DEF CacheInv, Writing
    <3> QED
      BY <1>2, <2>2, <3>1, <3>2, Constants, Formatted DEF Forgotten, CacheType
  <2>3. CASE Creating(p) /\ kind = "unity" /\ Format(p) = "delta"
    <3>1. c = cache[p]
      BY <2>3 DEF AfterCreate
    <3> QED
      BY <1>2, <2>3, <3>1
  <2>4. CASE Creating(p) /\ kind = "fabric"
    <3>1. c = [cache[p] EXCEPT !.table = Found(0, Format(p))]
      BY <2>4 DEF AfterCreate
    <3>2. Found(0, Format(p)) \in TableType
      BY <1>2 DEF Found, TableType, Formats
    <3> QED
      BY <1>2, <2>4, <3>1, <3>2 DEF CacheType
  <2> QED
    BY <1>2, <2>1, <2>2, <2>3, <2>4
<1> HIDE DEF c
<1>5. /\ cache' \in [Processes -> CacheType] /\ cache'[p] = c /\ Cached(p)' = c.table
      /\ \A q \in Processes \ {p} : cache'[q] = cache[q]
  BY <1>1, <1>4, Known, CacheFields DEF Cached
<1>6. /\ c.table.format = "absent" => c.table = Absent
      /\ c.table # Absent
      /\ kind = "unity" /\ Creating(p) /\ Format(p) = "iceberg" => Cached(p) = Absent
      /\ IsTable(c.table) \/ (kind = "unity" /\ Creating(p) /\ Format(p) = "iceberg")
      /\ kind = "fabric" => /\ c.uri = 0 /\ c.table.format = Format(p)
                            /\ c.table.format = "delta" => c.table.id = 0
  BY <1>1, <1>2, <1>4, Formatted, FoundFields DEF CacheInv, Writing
<1>7. StageInv(p)' /\ CacheInv(p)'
  <2>1. StageInv(p)'
    BY <1>1, <1>2, <1>3 DEF MovesTo, StageInv, Writing, Dropping
  <2>2. CacheInv(p)'
    BY <1>1, <1>2, <1>3, <1>5, <1>6 DEF MovesTo, CacheInv, Writing
  <2> QED
    BY <2>1, <2>2
<1>8. KnownInv(p)'
  <2> SUFFICES ASSUME ~node[p].dropped PROVE KnownInv(p)'
    BY <1>3 DEF MovesTo, KnownInv
  <2>1. TrueInv(p) /\ LogInv(p) /\ BatchInv(p)
    BY <1>2, Known DEF KnownInv
  <2>2. TrueInv(p)'
    BY <1>1, <1>2, <1>4, <1>5, <1>6, <2>1, Formatted DEF TrueInv
  <2>3. kind = "unity" /\ Format(p) = "iceberg" => IsTable(Shown)
    BY <1>1, <1>2, <2>1, AnswerFacts, Formatted DEF BatchInv, IcebergExists
  <2>4. ExistsInv(p)'
    <3>1. Shown' = Shown
      BY <1>1 DEF Shown
    <3> QED
      BY <1>5, <1>6, <2>3, <3>1 DEF ExistsInv
  <2>5. VictimInv(p)' /\ AbsentInv(p)'
    BY <1>3, <1>5, <1>6 DEF MovesTo, VictimInv, AbsentInv
  <2>6. LogInv(p)'
    BY <1>1, <1>3, <2>1 DEF MovesTo, LogInv, Writing
  <2> QED
    BY <2>2, <2>4, <2>5, <2>6 DEF KnownInv
<1>9. BatchInv(p)'
  BY <1>3 DEF MovesTo, BatchInv
<1>10. AloneInv(p)'
  <2> SUFFICES ASSUME node[p].alone PROVE AloneInv(p)'
    BY <1>3 DEF MovesTo, AloneInv
  <2>1. ~node[p].dropped /\ AloneInv(p)
    BY <1>2, Known DEF StageInv
  <2>2. LogInv(p) /\ BatchInv(p)
    BY <1>2, <2>1, Known DEF KnownInv
  <2>3. kind = "fabric" => Format(p) = Actual.format
    <3> SUFFICES ASSUME kind = "fabric" PROVE Format(p) = Actual.format
      OBVIOUS
    <3>1. CASE Format(p) = "delta"
      BY <1>1, <1>2, <2>1, <2>2, <3>1, FabricShows DEF BatchInv
    <3>2. CASE Format(p) = "iceberg"
      BY <1>1, <1>2, <2>1, <2>2, <3>2, FabricShows DEF BatchInv, LogInv, Writing
    <3> QED
      BY <1>2, <3>1, <3>2
  <2>4. Actual' = Actual /\ IcebergExists' = IcebergExists
    BY <1>1 DEF Actual, IcebergExists, Shown
  <2> QED
    BY <1>1, <1>2, <1>3, <1>4, <1>5, <1>6, <2>1, <2>3, <2>4 DEF MovesTo, AloneInv
<1>11. ProcessInv(p)'
  BY <1>7, <1>8, <1>9, <1>10 DEF ProcessInv
<1>12. GoesOn(p) /\ Stage(p)' = "done" /\ \A q \in Processes \ {p} : node'[q] = node[q]
  BY <1>1, <1>3 DEF GoesOn, MovesTo
<1>13. nodes' \in 0 .. MaxNodes /\ faults' \in 0 .. MaxFaults /\ node' \in [Processes -> NodeType]
  BY <1>1, <1>3, Known DEF MovesTo
<1> QED
  BY <1>1, <1>5, <1>11, <1>12, <1>13, QuietStep

LEMMA CreateSchemaStep ==
  ASSUME IInv, NEW p \in Processes, CreateSchema(p)
  PROVE  IInv'
<1> DEFINE c == [cache[p] EXCEPT !.schema = TRUE]
           s == IF Format(p) = "delta" THEN "credentials" ELSE "find"
<1>1. /\ UNCHANGED <<kind, table, log, converted, superseded, nodes, faults>>
      /\ Stage(p) = "schema" /\ Cache(p, c) /\ GoTo(p, s)
      /\ schema' = (schema \/ ~cache[p].schema)
  BY DEF CreateSchema
<1>2. /\ ServerInv /\ StageInv(p) /\ CacheInv(p) /\ node[p].open
      /\ Format(p) \in {"delta", "iceberg"} /\ cache[p].schema \in BOOLEAN
  BY <1>1, Known, ProcessTypes, AtStage DEF Formats
<1>3. /\ s \in Stages /\ s \in Writing /\ s \in {"credentials", "find"}
      /\ s = "credentials" => Format(p) = "delta"
      /\ s = "find" => Format(p) = "iceberg"
  BY <1>2 DEF Stages, Writing
<1>4. MovesTo(p, s) /\ node'[p].exists = node[p].exists
  BY <1>1, <1>3, Known, GoToMoves
<1>5. /\ c \in CacheType /\ c.schema /\ c.table = cache[p].table
      /\ c.uri = cache[p].uri /\ c.iceberg = cache[p].iceberg
  BY Known, ProcessTypes DEF CacheType
<1> HIDE DEF c, s
<1>6. /\ cache' \in [Processes -> CacheType] /\ Cached(p)' = Cached(p)
      /\ cache'[p].schema /\ cache'[p].uri = cache[p].uri
      /\ cache'[p].iceberg = cache[p].iceberg
      /\ \A q \in Processes \ {p} : cache'[q] = cache[q]
  BY <1>1, <1>5, Known, CacheFields DEF Cached
<1>7. ServerInv' /\ Shown' = Shown
  <2>1. Shown' = Shown
    BY <1>1 DEF Shown
  <2>2. schema' \in BOOLEAN /\ (schema => schema')
    BY <1>1, <1>2 DEF ServerInv
  <2> QED
    BY <1>1, <1>2, <2>1, <2>2 DEF ServerInv, IcebergExists
<1>8. ASSUME NEW q \in Processes \ {p}
      PROVE  Aside(q)
  <2>1. Keeps(q)
    BY <1>1, <1>7 DEF Keeps
  <2> QED
    BY <1>4, <1>6, <2>1 DEF Aside, MovesTo
<1>9. StageInv(p)' /\ CacheInv(p)'
  <2>1. StageInv(p)'
    BY <1>1, <1>2, <1>3, <1>4, <1>6 DEF MovesTo, StageInv, Writing, Dropping
  <2>2. CacheInv(p)'
    BY <1>1, <1>2, <1>3, <1>4, <1>6 DEF MovesTo, CacheInv, Writing
  <2> QED
    BY <2>1, <2>2
<1>10. KnownInv(p)'
  <2> SUFFICES ASSUME ~node[p].dropped PROVE KnownInv(p)'
    BY <1>4 DEF MovesTo, KnownInv
  <2>1. TrueInv(p) /\ ExistsInv(p) /\ VictimInv(p) /\ AbsentInv(p) /\ LogInv(p)
    BY <1>2, Known DEF KnownInv
  <2>2. TrueInv(p)' /\ ExistsInv(p)'
    BY <1>1, <1>2, <1>4, <1>6, <1>7, <2>1 DEF TrueInv, ExistsInv
  <2>3. VictimInv(p)' /\ AbsentInv(p)' /\ LogInv(p)'
    BY <1>1, <1>3, <1>4, <1>6, <2>1 DEF MovesTo, VictimInv, AbsentInv, LogInv, Writing
  <2> QED
    BY <2>2, <2>3 DEF KnownInv
<1>11. BatchInv(p)'
  BY <1>3, <1>4 DEF MovesTo, BatchInv
<1>12. AloneInv(p)'
  <2>1. Actual' = Actual /\ IcebergExists' = IcebergExists
    BY <1>1, <1>7 DEF Actual, IcebergExists
  <2> QED
    BY <1>1, <1>3, <1>4, <1>6, <2>1, Known DEF MovesTo, AloneInv
<1>13. ProcessInv(p)'
  BY <1>9, <1>10, <1>11, <1>12 DEF ProcessInv
<1>14. /\ GoesOn(p) /\ node' \in [Processes -> NodeType]
       /\ Stage(p)' # "clean" /\ Stage(p)' # "register"
  BY <1>1, <1>3, <1>4 DEF GoesOn, MovesTo
<1> QED
  BY <1>1, <1>6, <1>7, <1>8, <1>13, <1>14, Step

LEMMA ClosingSteps ==
  ASSUME IInv, NEW p \in Processes, End(p) \/ Reject(p) \/ Raise(p) \/ Fail(p)
  PROVE  IInv'
<1>1. /\ Close(p) /\ UNCHANGED <<kind, server, superseded>>
      /\ node[p].open \/ Stage(p) # "idle"
      /\ nodes' = nodes /\ (faults' = faults \/ (faults < MaxFaults /\ faults' = faults + 1))
  BY DEF End, Reject, Raise, Raises, Fail, server
<1>2. node[p].open
  BY <1>1, Known, AtStage
<1>3. nodes' \in 0 .. MaxNodes /\ faults' \in 0 .. MaxFaults
  BY <1>1, Known, BoundsAreNaturals
<1> QED
  BY <1>1, <1>2, <1>3, ClosingStep

LEMMA WriteStep ==
  ASSUME IInv, NEW p \in Processes, Write(p)
  PROVE  IInv'
<1> DEFINE s == IF Appends(p) THEN "done" ELSE AfterWrite(p)
<1>1. /\ UNCHANGED <<kind, schema, table, converted, cache, nodes, faults>>
      /\ Stage(p) = "write"
      /\ \/ /\ Appends(p) /\ log' = (log \ NoLog) \cup {Batch(p)} /\ superseded' = superseded
            /\ Done(p)
         \/ /\ ~Appends(p) /\ log' = {Batch(p)} /\ superseded' = superseded \cup (log \ NoLog)
            /\ GoTo(p, AfterWrite(p))
  BY DEF Write
<1>2. /\ ServerInv /\ StageInv(p) /\ CacheInv(p) /\ node[p].open
      /\ Format(p) = "delta" /\ Batch(p) \in Batches /\ Batch(p) # 0 /\ Creating(p) \in BOOLEAN
      /\ kind \in {"unity", "fabric"} /\ node[p].exists \in BOOLEAN
  <2>1. ServerInv /\ StageInv(p) /\ CacheInv(p) /\ node[p].open /\ Creating(p) \in BOOLEAN
        /\ node[p].exists \in BOOLEAN /\ Batch(p) \in 0 .. MaxNodes
    BY <1>1, Known, ProcessTypes, AtStage
  <2>2. Format(p) = "delta" /\ Batch(p) # 0
    BY <1>1, <2>1 DEF StageInv
  <2> QED
    BY <2>1, <2>2, BoundsAreNaturals, KindsAreKnown DEF Batches, ServerInv
<1>3. /\ s \in {"done", "register", "after"} /\ s \in Stages
      /\ s = "done" <=> Appends(p)
      /\ s = "register" => kind = "unity" /\ ~IsTable(Cached(p))
      /\ s = "after" => kind = "fabric" \/ IsTable(Cached(p))
  BY <1>2 DEF AfterWrite, Stages, Writing, Cached
<1>4. /\ MovesTo(p, s)
      /\ node'[p].exists = node[p].exists \/ (s = "done" /\ node'[p].exists)
  <2>1. CASE Appends(p)
    BY <1>1, <2>1, Known, DoneMoves
  <2>2. CASE ~Appends(p)
    <3>1. GoTo(p, s)
      BY <1>1, <2>2
    <3> HIDE DEF s
    <3> QED
      BY <1>3, <3>1, Known, GoToMoves
  <2> QED
    BY <2>1, <2>2
<1>5. s = "done" => ~Creating(p)
  BY <1>3 DEF Appends, Creating
<1> HIDE DEF s
<1>6. /\ log' # NoLog /\ log' \subseteq Batches /\ superseded' \subseteq Batches
      /\ log \subseteq log' \cup superseded' \cup NoLog /\ superseded \subseteq superseded'
      /\ Batch(p) \in log'
  BY <1>1, <1>2 DEF ServerInv, NoLog, Batches
<1>7. /\ cache' \in [Processes -> CacheType] /\ Cached(p)' = Cached(p)
      /\ \A q \in Processes : cache'[q] = cache[q]
  BY <1>1, Known DEF Cached, ProcessesInv
<1>8. ServerInv'
  BY <1>1, <1>2, <1>6 DEF ServerInv, IcebergExists
<1>9. /\ IsTable(Shown) => IsTable(Shown)'
      /\ Shown.format = "delta" => Shown'.format = "delta"
      /\ kind = "fabric" => Shown'.format = "delta" /\ Actual'.format = "delta"
      /\ kind = "unity" => Shown' = table
  BY <1>1, <1>2, <1>6, FoundFields, Formatted DEF Shown, Actual
<1>10. ASSUME NEW q \in Processes \ {p}
       PROVE  Aside(q)
  <2>1. node[q].open => Format(q) # "iceberg"
    <3>1. node[q].open /\ Batch(q) = 0 => Format(q) = "delta"
      BY Known DEF StageInv, Format, NoNode
    <3> QED
      BY <1>2, <3>1, Alongside
  <2>2. node[q].open => Keeps(q)
    BY <1>1, <1>6, <1>9, <2>1 DEF Keeps
  <2> QED
    BY <1>4, <1>7, <2>2 DEF Aside, MovesTo
<1>11. StageInv(p)'
  <2>1. s = "register" => Creating(p)
    BY <1>1, <1>2, <1>3 DEF CacheInv, Writing
  <2> QED
    BY <1>1, <1>2, <1>3, <1>4, <1>7, <2>1 DEF MovesTo, StageInv, Writing, Dropping
<1>12. CacheInv(p)'
  <2>1. ~Creating(p) => IsTable(Cached(p))
    BY <1>1, <1>2 DEF CacheInv, Writing
  <2>2. IsTable(Cached(p)) => Cached(p).format = Format(p)
    BY <1>1, <1>2 DEF CacheInv, Writing
  <2>3. s \in {"register", "after"} => s \in Writing
    BY DEF Writing
  <2> QED
    BY <1>1, <1>2, <1>3, <1>4, <1>5, <1>7, <2>1, <2>2, <2>3, Formatted
    DEF MovesTo, CacheInv, Writing
<1>13. KnownInv(p)'
  <2> SUFFICES ASSUME ~node[p].dropped PROVE KnownInv(p)'
    BY <1>4 DEF MovesTo, KnownInv
  <2>1. TrueInv(p) /\ ExistsInv(p) /\ VictimInv(p) /\ AbsentInv(p)
    BY <1>2, Known DEF KnownInv
  <2>2. TrueInv(p)'
    BY <1>1, <1>7, <2>1 DEF TrueInv
  <2>3. ExistsInv(p)'
    <3>1. s = "done" => IsTable(Cached(p))
      BY <1>1, <1>2, <1>5 DEF CacheInv, Writing
    <3> QED
      BY <1>4, <1>7, <1>9, <2>1, <3>1, Formatted DEF ExistsInv
  <2>4. VictimInv(p)' /\ AbsentInv(p)' /\ LogInv(p)'
    BY <1>1, <1>2, <1>3, <1>4, <1>7, <2>1 DEF MovesTo, VictimInv, AbsentInv, LogInv
  <2> QED
    BY <2>2, <2>3, <2>4 DEF KnownInv
<1>14. BatchInv(p)'
  <2> SUFFICES ASSUME ~node[p].dropped PROVE BatchInv(p)'
    BY <1>4 DEF MovesTo, BatchInv
  <2>1. s = "after" => Shown'.format = "delta"
    <3>1. CASE kind = "unity" /\ IsTable(Cached(p))
      <4>1. table.format = Cached(p).format
        BY <1>2, <3>1, Known DEF KnownInv, TrueInv
      <4>2. Cached(p).format = "delta"
        BY <1>1, <1>2, <3>1 DEF CacheInv, Writing
      <4> QED
        BY <1>9, <3>1, <4>1, <4>2
    <3>2. CASE kind = "fabric"
      BY <1>9, <3>2
    <3> QED
      BY <1>2, <1>3, <3>1, <3>2
  <2> QED
    BY <1>2, <1>4, <1>6, <2>1 DEF MovesTo, BatchInv
<1>15. AloneInv(p)'
  <2>1. kind = "fabric" /\ IsTable(Cached(p)) => Cached(p).format = Actual'.format
    BY <1>1, <1>2, <1>9 DEF CacheInv, Writing
  <2>2. IcebergExists' = IcebergExists
    BY <1>1 DEF IcebergExists
  <2>3. s = "after" /\ kind = "unity" => Cached(p) # Absent
    BY <1>3, Formatted
  <2> QED
    BY <1>1, <1>3, <1>4, <1>7, <2>1, <2>2, <2>3, Known DEF MovesTo, AloneInv
<1>16. ProcessInv(p)'
  BY <1>11, <1>12, <1>13, <1>14, <1>15 DEF ProcessInv
<1>17. /\ GoesOn(p) /\ node' \in [Processes -> NodeType] /\ Stage(p)' # "clean"
       /\ kind' = kind /\ table' = table
  BY <1>1, <1>3, <1>4 DEF GoesOn, MovesTo
<1> QED
  BY <1>6, <1>7, <1>8, <1>10, <1>16, <1>17, Step

LEMMA RegisterStep ==
  ASSUME IInv, NEW p \in Processes, Register(p)
  PROVE  IInv'
<1> DEFINE t == IF IsTable(table) THEN table ELSE Found(nodes * 10 + Batch(p), "delta")
           c == Remembered(cache[p], t)
<1>1. /\ UNCHANGED <<kind, schema, log, converted, nodes, faults, superseded>>
      /\ Stage(p) = "register" /\ schema /\ table' = t /\ Cache(p, c) /\ GoTo(p, "after")
  BY DEF Register, AcceptsRegistration
<1>2. /\ ServerInv /\ StageInv(p) /\ CacheInv(p) /\ node[p].open
      /\ Batch(p) \in Nat /\ Batch(p) # 0 /\ Creating(p) /\ kind = "unity"
      /\ Format(p) = "delta" /\ Cached(p) = Absent /\ nodes \in Nat
      /\ log # NoLog /\ cache[p] \in CacheType /\ Doing(p) # "drop_schema"
  <2>1. ServerInv /\ StageInv(p) /\ CacheInv(p) /\ node[p].open /\ Batch(p) \in 0 .. MaxNodes
        /\ cache[p] \in CacheType /\ log # NoLog
    BY <1>1, Known, ProcessTypes, AtStage DEF IInv, CleanInv
  <2>2. Format(p) = "delta" /\ Batch(p) # 0 /\ kind = "unity" /\ Creating(p)
        /\ Doing(p) # "drop_schema"
    BY <1>1, <2>1 DEF StageInv, Writing
  <2>3. Cached(p) = Absent
    BY <1>1, <2>1, <2>2 DEF CacheInv, Writing
  <2> QED
    BY <2>1, <2>2, <2>3, BoundsAreNaturals DEF ServerInv
<1>3. MovesTo(p, "after") /\ node'[p].exists = node[p].exists
  BY <1>1, Known, GoToMoves DEF Stages, Writing
<1>4. /\ t \in TableType /\ IsTable(t) /\ t.data \subseteq Batches /\ t.format \in {"delta", "iceberg"}
      /\ IsTable(table) => t = table
      /\ t.format = "iceberg" => table.format = "iceberg"
      /\ t.format = "delta" \/ table.format = "iceberg"
  <2>1. CASE IsTable(table)
    BY <1>2, <2>1, Formatted DEF ServerInv, TableType
  <2>2. CASE ~IsTable(table)
    BY <1>2, <2>2, FoundFields, Formatted DEF Found, TableType, Formats
  <2> QED
    BY <2>1, <2>2
<1> HIDE DEF t
<1>5. /\ c \in CacheType /\ c.schema = cache[p].schema /\ c.iceberg = cache[p].iceberg
      /\ c.table = Found(t.id, t.format)
      /\ c.uri = IF t.format = "delta" THEN t.id ELSE cache[p].uri
  BY <1>2, <1>4, RememberedFacts
<1> HIDE DEF c
<1>6. /\ cache' \in [Processes -> CacheType] /\ Cached(p)' = c.table /\ cache'[p] = c
      /\ \A q \in Processes \ {p} : cache'[q] = cache[q]
      /\ IsTable(c.table) /\ c.table.id = t.id /\ c.table.format = t.format
  BY <1>1, <1>4, <1>5, Known, CacheFields, FoundFields, Formatted DEF Cached
<1>7. ServerInv'
  BY <1>1, <1>2, <1>4, Formatted DEF ServerInv, IcebergExists
<1>8. Shown' = t /\ Shown = table
  BY <1>1, <1>2 DEF Shown
<1>9. ASSUME NEW q \in Processes \ {p}
      PROVE  Aside(q) /\ Stage(q) # "clean"
  <2>1. Keeps(q)
    <3>1. ~IsTable(table) => table.data = {}
      BY <1>2, NoTable
    <3>2. table.data \subseteq t.data
      BY <1>4, <3>1
    <3> QED
      BY <1>1, <1>4, <1>8, <3>2 DEF Keeps
  <2>2. ASSUME Stage(q) = "clean" PROVE FALSE
    <3>1. /\ node[q].open /\ Batch(q) # 0 /\ Victim(q).format = "delta"
          /\ Doing(q) \in {"table", "incremental"} => Victim(q).format # Format(q)
          /\ Doing(q) \in {"table", "incremental", "stored", "drop_schema"}
      BY <2>2, Known, ProcessTypes, AtStage DEF StageInv, Dropping, Does
    <3>2. Format(q) = "delta"
      BY <1>2, <3>1, Alongside
    <3>3. Doing(q) \notin {"stored", "drop_schema"}
      BY <1>2, <3>1, Alongside
    <3> QED
      BY <3>1, <3>2, <3>3
  <2> QED
    BY <1>3, <1>6, <2>1, <2>2 DEF Aside, MovesTo
<1>10. StageInv(p)' /\ CacheInv(p)'
  <2>1. StageInv(p)'
    BY <1>1, <1>2, <1>3, <1>6 DEF MovesTo, StageInv, Writing, Dropping
  <2>2. CacheInv(p)'
    BY <1>1, <1>2, <1>3, <1>4, <1>6, Formatted DEF MovesTo, CacheInv, Writing
  <2> QED
    BY <2>1, <2>2
<1>11. KnownInv(p)'
  <2> SUFFICES ASSUME ~node[p].dropped PROVE KnownInv(p)'
    BY <1>3 DEF MovesTo, KnownInv
  <2>1. TrueInv(p)
    BY <1>2, Known DEF KnownInv
  <2>2. TrueInv(p)'
    BY <1>1, <1>2, <1>4, <1>5, <1>6, <2>1, Formatted DEF TrueInv
  <2>3. ExistsInv(p)' /\ VictimInv(p)' /\ AbsentInv(p)' /\ LogInv(p)'
    BY <1>1, <1>2, <1>3, <1>6, Formatted DEF MovesTo, ExistsInv, VictimInv, AbsentInv, LogInv
  <2> QED
    BY <2>2, <2>3 DEF KnownInv
<1>12. BatchInv(p)'
  <2> SUFFICES ASSUME ~node[p].dropped PROVE BatchInv(p)'
    BY <1>3 DEF MovesTo, BatchInv
  <2>1. table.format # "iceberg"
    BY <1>2, Known DEF KnownInv, AbsentInv
  <2>2. Batch(p) \in log \cup superseded
    BY <1>1, <1>2, Known DEF BatchInv
  <2> QED
    BY <1>1, <1>2, <1>3, <1>4, <1>8, <2>1, <2>2 DEF MovesTo, BatchInv
<1>13. AloneInv(p)'
  <2>1. node[p].alone => ~IsTable(table) /\ cache[p].iceberg = 0
    BY <1>1, <1>2, Known, Formatted DEF AloneInv, IcebergExists
  <2> QED
    BY <1>1, <1>2, <1>3, <1>5, <1>6, <2>1, Formatted DEF MovesTo, AloneInv
<1>14. ProcessInv(p)'
  BY <1>10, <1>11, <1>12, <1>13 DEF ProcessInv
<1>15. /\ GoesOn(p) /\ node' \in [Processes -> NodeType] /\ Stage(p)' # "clean"
       /\ kind' = kind /\ log' # NoLog
  BY <1>1, <1>2, <1>3 DEF GoesOn, MovesTo
<1> QED
  BY <1>6, <1>7, <1>9, <1>14, <1>15, Step

LEMMA CreateStep ==
  ASSUME IInv, NEW p \in Processes, Create(p)
  PROVE  IInv'
<1> DEFINE t == Found(nodes * 10 + Batch(p), "iceberg")
           c == [cache[p] EXCEPT !.iceberg = t.id]
<1>1. /\ UNCHANGED <<kind, schema, log, nodes, faults, superseded>> /\ converted' = FALSE
      /\ Stage(p) = "create" /\ schema /\ ~IsTable(table) /\ table' = t
      /\ Cache(p, c) /\ GoTo(p, "commit")
  BY DEF Create, MayCreate
<1>2. /\ ServerInv /\ StageInv(p) /\ CacheInv(p) /\ node[p].open
      /\ Batch(p) \in Nat /\ Batch(p) # 0 /\ nodes \in Nat /\ Format(p) = "iceberg"
      /\ Doing(p) # "drop_schema" /\ kind \in {"unity", "fabric"}
      /\ cache[p] \in CacheType
  <2>1. ServerInv /\ StageInv(p) /\ CacheInv(p) /\ node[p].open /\ Batch(p) \in 0 .. MaxNodes
        /\ cache[p] \in CacheType
    BY <1>1, Known, ProcessTypes, AtStage
  <2>2. Format(p) = "iceberg" /\ Batch(p) # 0 /\ Doing(p) # "drop_schema"
    BY <1>1, <2>1 DEF StageInv, Writing
  <2> QED
    BY <2>1, <2>2, BoundsAreNaturals, KindsAreKnown DEF ServerInv
<1>3. MovesTo(p, "commit") /\ node'[p].exists = node[p].exists
  BY <1>1, Known, GoToMoves DEF Stages, Writing
<1>4. /\ t \in TableType /\ IsTable(t) /\ t.data = {} /\ t.format = "iceberg" /\ t.id \in Nat
  BY <1>2, Formatted DEF Found, TableType, Formats
<1>5. /\ ~converted /\ table.data = {} /\ table.format = "none"
  BY <1>1, <1>2, NoTable DEF ServerInv, IcebergExists
<1> HIDE DEF t
<1>6. /\ c \in CacheType /\ c.schema = cache[p].schema /\ c.iceberg = t.id
      /\ c.table = cache[p].table /\ c.uri = cache[p].uri
  BY <1>2, <1>4 DEF CacheType
<1> HIDE DEF c
<1>7. /\ cache' \in [Processes -> CacheType] /\ Cached(p)' = Cached(p)
      /\ cache'[p].schema = cache[p].schema /\ cache'[p].uri = cache[p].uri
      /\ cache'[p].iceberg = t.id
      /\ \A q \in Processes \ {p} : cache'[q] = cache[q]
  BY <1>1, <1>6, Known, CacheFields DEF Cached
<1>8. ServerInv'
  BY <1>1, <1>2, <1>4 DEF ServerInv, IcebergExists
<1>9. /\ kind = "unity" => Shown = table /\ Shown' = t
      /\ kind = "fabric" => Shown' = Shown
  BY <1>1, <1>2, <1>5 DEF Shown
<1>10. ASSUME NEW q \in Processes \ {p}
       PROVE  Aside(q)
  <2>1. node[q].open /\ Batch(q) # 0 => Format(q) # "delta" /\ Doing(q) # "drop_schema"
    BY <1>1, <1>2, Alongside
  <2>2. node[q].open => Keeps(q)
    BY <1>1, <1>2, <1>4, <1>5, <1>9, <2>1, Formatted DEF Keeps
  <2> QED
    BY <1>3, <1>7, <2>2 DEF Aside, MovesTo
<1>11. StageInv(p)' /\ CacheInv(p)'
  <2>1. StageInv(p)'
    BY <1>1, <1>2, <1>3, <1>7 DEF MovesTo, StageInv, Writing, Dropping
  <2>2. CacheInv(p)'
    BY <1>1, <1>2, <1>3, <1>7 DEF MovesTo, CacheInv, Writing
  <2> QED
    BY <2>1, <2>2
<1>12. KnownInv(p)'
  <2> SUFFICES ASSUME ~node[p].dropped PROVE KnownInv(p)'
    BY <1>3 DEF MovesTo, KnownInv
  <2>1. TrueInv(p) /\ ExistsInv(p) /\ LogInv(p)
    BY <1>2, Known DEF KnownInv
  <2>2. TrueInv(p)'
    BY <1>1, <1>7, <2>1 DEF TrueInv
  <2>3. ExistsInv(p)'
    BY <1>1, <1>2, <1>3, <1>7, <1>9, <2>1 DEF ExistsInv
  <2>4. VictimInv(p)' /\ AbsentInv(p)' /\ LogInv(p)'
    BY <1>1, <1>2, <1>3, <1>7, <2>1 DEF MovesTo, VictimInv, AbsentInv, LogInv, Writing
  <2> QED
    BY <2>2, <2>3, <2>4 DEF KnownInv
<1>13. BatchInv(p)'
  BY <1>3 DEF MovesTo, BatchInv
<1>14. AloneInv(p)'
  <2> SUFFICES ASSUME node[p].alone PROVE AloneInv(p)'
    BY <1>3 DEF MovesTo, AloneInv
  <2>1. IcebergExists' /\ table'.id = t.id /\ IsTable(table')
    BY <1>1, <1>4 DEF IcebergExists
  <2>2. kind = "fabric" => log' = NoLog
    BY <1>1, <1>2, Known DEF KnownInv, LogInv, StageInv, Writing
  <2>3. kind = "fabric" => Actual'.format = "iceberg"
    BY <1>1, <2>1, <2>2, FoundFields DEF Actual
  <2>4. IsTable(Cached(p)) => Cached(p).format = "iceberg"
    BY <1>1, <1>2 DEF CacheInv, Writing
  <2> QED
    BY <1>1, <1>3, <1>7, <2>1, <2>3, <2>4 DEF MovesTo, AloneInv
<1>15. ProcessInv(p)'
  BY <1>11, <1>12, <1>13, <1>14 DEF ProcessInv
<1>16. /\ GoesOn(p) /\ node' \in [Processes -> NodeType]
       /\ Stage(p)' # "clean" /\ Stage(p)' # "register"
       /\ kind' = kind /\ table'.format # "delta" /\ log' = log
  BY <1>1, <1>3, <1>4 DEF GoesOn, MovesTo
<1> QED
  BY <1>7, <1>8, <1>10, <1>15, <1>16, Step

LEMMA CommitStep ==
  ASSUME IInv, NEW p \in Processes, Commit(p)
  PROVE  IInv'
<1> DEFINE c == [cache[p] EXCEPT !.iceberg = table.id]
           s == IF Appends(p) THEN "done" ELSE "after"
<1>1. /\ UNCHANGED <<kind, schema, log, converted, nodes, faults>>
      /\ Stage(p) = "commit" /\ IcebergExists /\ Cache(p, c)
      /\ \/ /\ Appends(p) /\ table' = [table EXCEPT !.data = @ \cup {Batch(p)}]
            /\ superseded' = superseded /\ Done(p)
         \/ /\ ~Appends(p) /\ table' = [table EXCEPT !.data = {Batch(p)}]
            /\ superseded' = superseded \cup table.data /\ GoTo(p, "after")
  BY DEF Commit, Commits
<1>2. /\ ServerInv /\ StageInv(p) /\ CacheInv(p) /\ node[p].open
      /\ Batch(p) \in Batches /\ Batch(p) # 0 /\ Format(p) = "iceberg"
      /\ kind \in {"unity", "fabric"} /\ table \in TableType /\ table.format = "iceberg"
      /\ cache[p] \in CacheType /\ Creating(p) \in BOOLEAN /\ node[p].exists \in BOOLEAN
  <2>1. ServerInv /\ StageInv(p) /\ CacheInv(p) /\ node[p].open /\ Batch(p) \in 0 .. MaxNodes
        /\ cache[p] \in CacheType /\ Creating(p) \in BOOLEAN /\ node[p].exists \in BOOLEAN
    BY <1>1, Known, ProcessTypes, AtStage
  <2>2. Format(p) = "iceberg" /\ Batch(p) # 0
    BY <1>1, <2>1 DEF StageInv
  <2> QED
    BY <1>1, <2>1, <2>2, BoundsAreNaturals, KindsAreKnown DEF ServerInv, Batches, IcebergExists
<1>3. /\ table' \in TableType /\ table'.id = table.id /\ table'.format = table.format
      /\ Batch(p) \in table'.data /\ table'.data \subseteq Batches
      /\ superseded' \subseteq Batches /\ superseded \subseteq superseded'
      /\ table.data \subseteq table'.data \cup superseded'
  BY <1>1, <1>2 DEF TableType, ServerInv
<1>4. /\ MovesTo(p, s) /\ s \in {"done", "after"}
      /\ node'[p].exists = node[p].exists \/ (s = "done" /\ node'[p].exists)
      /\ s = "done" => ~Creating(p)
  <2>1. CASE Appends(p)
    BY <1>1, <2>1, Known, DoneMoves DEF Appends, Creating
  <2>2. CASE ~Appends(p)
    BY <1>1, <2>2, Known, GoToMoves DEF Stages, Writing
  <2> QED
    BY <2>1, <2>2
<1>5. /\ c \in CacheType /\ c.schema = cache[p].schema /\ c.iceberg = table.id
      /\ c.table = cache[p].table /\ c.uri = cache[p].uri
  BY <1>2 DEF CacheType, TableType
<1> HIDE DEF c, s
<1>6. /\ cache' \in [Processes -> CacheType] /\ Cached(p)' = Cached(p)
      /\ cache'[p].schema = cache[p].schema /\ cache'[p].uri = cache[p].uri
      /\ cache'[p].iceberg = table.id
      /\ \A q \in Processes \ {p} : cache'[q] = cache[q]
  BY <1>1, <1>5, Known, CacheFields DEF Cached
<1>7. ServerInv' /\ IcebergExists' /\ IsTable(table)' /\ IsTable(table)
  BY <1>1, <1>2, <1>3, Formatted DEF ServerInv, IcebergExists
<1>8. /\ kind = "unity" => Shown = table /\ Shown' = table'
      /\ kind = "fabric" => Shown' = Shown /\ Actual' = Actual
  BY <1>1, <1>2, <1>7 DEF Shown, Actual
<1>9. ASSUME NEW q \in Processes \ {p}
      PROVE  Aside(q)
  <2>1. Keeps(q)
    BY <1>1, <1>2, <1>3, <1>7, <1>8 DEF Keeps
  <2> QED
    BY <1>4, <1>6, <2>1 DEF Aside, MovesTo
<1>10. StageInv(p)' /\ CacheInv(p)'
  <2>1. StageInv(p)'
    BY <1>1, <1>2, <1>4, <1>6 DEF MovesTo, StageInv, Writing, Dropping
  <2>2. /\ ~Creating(p) => IsTable(Cached(p))
        /\ IsTable(Cached(p)) => Cached(p).format = Format(p)
    BY <1>1, <1>2 DEF CacheInv, Writing
  <2>3. CacheInv(p)'
    BY <1>1, <1>2, <1>4, <1>6, <2>2, Formatted DEF MovesTo, CacheInv, Writing
  <2> QED
    BY <2>1, <2>3
<1>11. KnownInv(p)'
  <2> SUFFICES ASSUME ~node[p].dropped PROVE KnownInv(p)'
    BY <1>4 DEF MovesTo, KnownInv
  <2>1. TrueInv(p) /\ ExistsInv(p) /\ LogInv(p)
    BY <1>2, Known DEF KnownInv
  <2>2. TrueInv(p)'
    BY <1>1, <1>3, <1>6, <1>7, <2>1 DEF TrueInv
  <2>3. ExistsInv(p)'
    <3>1. s = "done" => IsTable(Cached(p))
      BY <1>1, <1>2, <1>4 DEF CacheInv, Writing
    <3>2. IsTable(Shown) => IsTable(Shown)'
      BY <1>2, <1>7, <1>8
    <3> QED
      BY <1>4, <1>6, <2>1, <3>1, <3>2, Formatted DEF ExistsInv
  <2>4. /\ log = NoLog \/ kind = "unity"
        /\ Doing(p) # "drop_schema"
    BY <1>1, <1>2, <2>1 DEF LogInv, StageInv, Writing
  <2>5. VictimInv(p)' /\ AbsentInv(p)' /\ LogInv(p)'
    BY <1>1, <1>2, <1>4, <1>6, <2>4 DEF MovesTo, VictimInv, AbsentInv, LogInv
  <2> QED
    BY <2>2, <2>3, <2>5 DEF KnownInv
<1>12. BatchInv(p)'
  BY <1>2, <1>3, <1>4, <1>7 DEF MovesTo, BatchInv
<1>13. AloneInv(p)'
  <2>1. s = "done" => Cached(p) # Absent
    BY <1>1, <1>2, <1>4, Formatted DEF CacheInv, Writing
  <2> QED
    BY <1>1, <1>3, <1>4, <1>6, <1>7, <1>8, <2>1, Known DEF MovesTo, AloneInv
<1>14. ProcessInv(p)'
  BY <1>10, <1>11, <1>12, <1>13 DEF ProcessInv
<1>15. /\ GoesOn(p) /\ node' \in [Processes -> NodeType]
       /\ Stage(p)' # "clean" /\ Stage(p)' # "register"
       /\ kind' = kind /\ table'.format # "delta" /\ log' = log
  BY <1>1, <1>2, <1>3, <1>4 DEF GoesOn, MovesTo
<1> QED
  BY <1>6, <1>7, <1>9, <1>14, <1>15, Step

\* The node has dropped the table, and goes on.
DropsTo(p, s) ==
  /\ node' \in [Processes -> NodeType]
  /\ Stage(p)' = s /\ Doing(p)' = (IF s = "look" THEN "table" ELSE Doing(p))
  /\ Format(p)' = Format(p) /\ Batch(p)' = Batch(p)
  /\ Victim(p)' = Victim(p) /\ Creating(p)' = Creating(p)
  /\ node'[p].open = node[p].open /\ node'[p].alone = node[p].alone
  /\ node'[p].dropped = node[p].dropped /\ ~node'[p].exists
  /\ \A q \in Processes \ {p} : cache'[q] = cache[q] => Aside(q)

LEMMA DropMoves ==
  ASSUME IInv, NEW p \in Processes, NEW s, s \in Stages, DropAndGo(p, s)
  PROVE  DropsTo(p, s)
<1>1. node \in [Processes -> NodeType]
  BY DEF IInv, ProcessesInv
<1>2. ASSUME NEW q \in Processes \ {p}
      PROVE  /\ node'[q] \in NodeType /\ (cache'[q] = cache[q] => Aside(q))
  <2>1. node'[q] = [node[q] EXCEPT !.dropped = node[q].open]
    BY DEF DropAndGo
  <2>2. node[q] \in NodeType /\ node[q].open \in BOOLEAN
    BY <1>1 DEF NodeType
  <2>3. /\ node'[q] \in NodeType /\ node'[q].dropped = node[q].open
        /\ node'[q].open = node[q].open /\ node'[q].exists = node[q].exists
        /\ node'[q].now = node[q].now /\ node'[q].alone = node[q].alone
    BY <2>1, <2>2 DEF NodeType
  <2>4. ~node[q].open => node'[q] = node[q]
    <3>1. SUFFICES ASSUME ~node[q].open PROVE node'[q] = node[q]
      OBVIOUS
    <3>2. node[q] = Closed
      BY <3>1, Known DEF ProcessesInv
    <3>3. node'[q] = [Closed EXCEPT !.dropped = Closed.open]
      BY <2>1, <3>2
    <3> QED
      BY <3>2, <3>3 DEF Closed
  <2> QED
    BY <2>2, <2>3, <2>4 DEF Aside
<1>3. node'[p] = [node[p] EXCEPT !.now.stage = s,
                                 !.now.do = IF s = "look" THEN "table" ELSE @,
                                 !.exists = FALSE]
  BY DEF DropAndGo
<1> DEFINE d == IF s = "look" THEN "table" ELSE Doing(p)
           now == [[node[p].now EXCEPT !.stage = s] EXCEPT !.do = d]
<1>4. node[p] \in NodeType /\ node[p].now \in NowType /\ d \in Does
  BY <1>1, Known, ProcessTypes DEF Does
<1>5. node'[p] = [[node[p] EXCEPT !.now = now] EXCEPT !.exists = FALSE]
  BY <1>3, <1>4 DEF NodeType, NowType, Doing
<1>6. /\ now \in NowType /\ now.stage = s /\ now.do = d /\ now.format = Format(p)
      /\ now.batch = Batch(p) /\ now.victim = Victim(p) /\ now.creating = Creating(p)
  BY <1>4 DEF NowType, Format, Batch, Victim, Creating
<1> HIDE DEF now
<1>7. /\ node'[p] \in NodeType /\ node'[p].now = now /\ node'[p].exists = FALSE
      /\ node'[p].open = node[p].open /\ node'[p].alone = node[p].alone
      /\ node'[p].dropped = node[p].dropped
  BY <1>4, <1>5, <1>6 DEF NodeType
<1>8. node' \in [Processes -> NodeType]
  <2>1. node' = [q \in Processes |-> node'[q]]
    BY DEF DropAndGo
  <2> QED
    BY <1>2, <1>7, <2>1
<1> QED
  BY <1>2, <1>6, <1>7, <1>8
  DEF DropsTo, Stage, Doing, Format, Batch, Victim, Creating

\* Where a node goes after the drop.
LEMMA AfterDropStage ==
  ASSUME IInv, NEW p \in Processes
  PROVE  /\ AfterDrop(p) \in {"drop_schema", "look", "schema"} /\ AfterDrop(p) \in Stages
         /\ AfterDrop(p) = "drop_schema" => Doing(p) = "drop_schema"
         /\ AfterDrop(p) = "schema" => Doing(p) # "drop_schema"
<1>1. Doing(p) \in {"table", "incremental", "stored", "drop_schema"}
  BY Known, ProcessTypes DEF Does
<1> QED
  BY <1>1 DEF AfterDrop, Stages, Writing

LEMMA UnregisterStep ==
  ASSUME IInv, NEW p \in Processes, Unregister(p)
  PROVE  IInv'
<1> DEFINE c == [Dropped(cache[p]) EXCEPT
                   !.iceberg = IF Victim(p).format = "iceberg" THEN 0 ELSE @,
                   !.creds = @ \ {Victim(p).id}]
           s == IF Victim(p).format = "delta" THEN "clean" ELSE AfterDrop(p)
<1>1. /\ UNCHANGED <<kind, schema, log, converted, nodes, faults, superseded>>
      /\ Stage(p) = "unregister" /\ kind = "unity" /\ table' = None
      /\ Cache(p, c) /\ DropAndGo(p, s)
  BY DEF Unregister, Victim
<1>2. /\ ServerInv /\ StageInv(p) /\ CacheInv(p) /\ node[p].open
      /\ cache[p] \in CacheType /\ Cached(p) = cache[p].table
      /\ IsTable(Victim(p)) /\ Creating(p) /\ Batch(p) # 0
  BY <1>1, Known, ProcessTypes, AtStage DEF StageInv, Dropping, Cached
<1>3. /\ s \in {"clean", "drop_schema", "look", "schema"} /\ s \in Stages
      /\ s = "clean" => Victim(p).format = "delta"
      /\ s = "drop_schema" => Doing(p) = "drop_schema"
      /\ s = "schema" => Doing(p) # "drop_schema"
  BY AfterDropStage DEF Stages, Dropping
<1> HIDE DEF s
<1>4. DropsTo(p, s)
  BY <1>1, <1>3, DropMoves
<1>5. /\ c \in CacheType /\ c.table = Absent /\ c.schema = cache[p].schema
      /\ c.uri = IF Cached(p).format = "delta" THEN 0 ELSE cache[p].uri
      /\ c.iceberg = IF Victim(p).format = "iceberg" THEN 0 ELSE cache[p].iceberg
  BY <1>2, Constants DEF Dropped, Forgotten, CacheType
<1> HIDE DEF c
<1>6. /\ cache' \in [Processes -> CacheType] /\ cache'[p] = c /\ Cached(p)' = Absent
      /\ \A q \in Processes \ {p} : cache'[q] = cache[q]
  BY <1>1, <1>5, Known, CacheFields DEF Cached
<1>7. ~IsTable(table') /\ table'.format = "none" /\ table'.data = {} /\ table' \in TableType
  BY <1>1, Formatted, Constants DEF None
<1>8. ServerInv'
  <2>1. ~converted
    BY <1>1, <1>2 DEF ServerInv
  <2> QED
    BY <1>1, <1>2, <1>7, <2>1 DEF ServerInv
<1>9. StageInv(p)' /\ CacheInv(p)'
  <2>1. StageInv(p)'
    BY <1>1, <1>2, <1>3, <1>4, <1>6 DEF DropsTo, StageInv, Writing, Dropping
  <2>2. CacheInv(p)'
    BY <1>1, <1>2, <1>3, <1>4, <1>6, Formatted DEF DropsTo, CacheInv, Writing
  <2> QED
    BY <2>1, <2>2
<1>10. KnownInv(p)'
  <2> SUFFICES ASSUME ~node[p].dropped PROVE KnownInv(p)'
    BY <1>4 DEF DropsTo, KnownInv
  <2>1. TrueInv(p)
    BY <1>2, Known DEF KnownInv
  <2>2. TrueInv(p)'
    BY <1>1, <1>5, <1>6, <2>1, Formatted DEF TrueInv
  <2>3. ExistsInv(p)' /\ VictimInv(p)' /\ AbsentInv(p)' /\ LogInv(p)'
    BY <1>1, <1>3, <1>4, <1>6, <1>7, Formatted
    DEF DropsTo, ExistsInv, VictimInv, AbsentInv, LogInv
  <2> QED
    BY <2>2, <2>3 DEF KnownInv
<1>11. BatchInv(p)'
  BY <1>3, <1>4 DEF DropsTo, BatchInv
<1>12. AloneInv(p)'
  <2> SUFFICES ASSUME node[p].alone PROVE AloneInv(p)'
    BY <1>4 DEF DropsTo, AloneInv
  <2>1. ~node[p].dropped /\ AloneInv(p)
    BY <1>2, Known DEF StageInv
  <2>2. cache[p].iceberg # 0 => Victim(p).format = "iceberg"
    BY <1>1, <1>2, <2>1, Known DEF KnownInv, VictimInv, AloneInv, IcebergExists
  <2> QED
    BY <1>1, <1>3, <1>4, <1>5, <1>6, <1>7, <2>2 DEF DropsTo, AloneInv
<1>13. ProcessInv(p)'
  BY <1>9, <1>10, <1>11, <1>12 DEF ProcessInv
<1>14. /\ GoesOn(p) /\ node' \in [Processes -> NodeType] /\ Stage(p)' # "register"
       /\ kind' = kind /\ table'.format # "delta" /\ log' = log
  BY <1>1, <1>3, <1>4, <1>7 DEF GoesOn, DropsTo
<1>15. \A q \in Processes \ {p} : Aside(q)
  BY <1>4, <1>6 DEF DropsTo
<1> QED
  BY <1>6, <1>8, <1>13, <1>14, <1>15, Step

LEMMA RemoveDirectoryStep ==
  ASSUME IInv, NEW p \in Processes, RemoveDirectory(p)
  PROVE  IInv'
<1> DEFINE c == [cache[p] EXCEPT !.table = None, !.iceberg = 0]
           s == AfterDrop(p)
<1>1. /\ UNCHANGED <<kind, schema, nodes, faults, superseded>>
      /\ Stage(p) = "unregister" /\ kind = "fabric" /\ table' = None /\ log' = NoLog
      /\ converted' = FALSE /\ Cache(p, c) /\ DropAndGo(p, s)
  BY DEF RemoveDirectory
<1>2. /\ ServerInv /\ StageInv(p) /\ CacheInv(p) /\ node[p].open
      /\ cache[p] \in CacheType /\ Creating(p) /\ Batch(p) # 0 /\ cache[p].uri = 0
  BY <1>1, Known, ProcessTypes, AtStage DEF StageInv, CacheInv, Dropping
<1>3. /\ s \in {"drop_schema", "look", "schema"} /\ s \in Stages
      /\ s = "drop_schema" => Doing(p) = "drop_schema"
      /\ s = "schema" => Doing(p) # "drop_schema"
  BY AfterDropStage
<1> HIDE DEF s
<1>4. DropsTo(p, s)
  BY <1>1, <1>3, DropMoves
<1>5. /\ c \in CacheType /\ c.table = None /\ c.schema = cache[p].schema
      /\ c.uri = 0 /\ c.iceberg = 0
  BY <1>2, Constants DEF CacheType
<1> HIDE DEF c
<1>6. /\ cache' \in [Processes -> CacheType] /\ cache'[p] = c /\ Cached(p)' = None
      /\ \A q \in Processes \ {p} : cache'[q] = cache[q]
  BY <1>1, <1>5, Known, CacheFields DEF Cached
<1>7. ~IsTable(table') /\ table'.format = "none" /\ table'.data = {} /\ table' \in TableType
  BY <1>1, Formatted, Constants DEF None
<1>8. ServerInv'
  BY <1>1, <1>2, <1>7 DEF ServerInv
<1>9. StageInv(p)' /\ CacheInv(p)'
  <2>1. StageInv(p)'
    BY <1>1, <1>2, <1>3, <1>4, <1>6 DEF DropsTo, StageInv, Writing, Dropping
  <2>2. CacheInv(p)'
    BY <1>1, <1>2, <1>3, <1>4, <1>5, <1>6, Formatted DEF DropsTo, CacheInv, Writing
  <2> QED
    BY <2>1, <2>2
<1>10. KnownInv(p)'
  <2> SUFFICES ASSUME ~node[p].dropped PROVE KnownInv(p)'
    BY <1>4 DEF DropsTo, KnownInv
  <2>1. TrueInv(p)
    BY <1>2, Known DEF KnownInv
  <2>2. TrueInv(p)'
    BY <1>1, <1>5, <1>6, <2>1, Formatted DEF TrueInv
  <2>3. ExistsInv(p)' /\ VictimInv(p)' /\ AbsentInv(p)' /\ LogInv(p)'
    BY <1>1, <1>3, <1>4, <1>7 DEF DropsTo, ExistsInv, VictimInv, AbsentInv, LogInv
  <2> QED
    BY <2>2, <2>3 DEF KnownInv
<1>11. BatchInv(p)' /\ AloneInv(p)'
  BY <1>1, <1>3, <1>4, <1>5, <1>6, Formatted DEF DropsTo, BatchInv, AloneInv
<1>12. ProcessInv(p)'
  BY <1>9, <1>10, <1>11 DEF ProcessInv
<1>13. /\ GoesOn(p) /\ node' \in [Processes -> NodeType] /\ Stage(p)' # "register"
       /\ kind' = kind /\ table'.format # "delta"
  BY <1>1, <1>3, <1>4, <1>7 DEF GoesOn, DropsTo
<1>14. \A q \in Processes \ {p} : Aside(q) /\ Stage(q) # "register"
  <2>1. \A q \in Processes : Stage(q) # "register"
    BY <1>1, Known DEF StageInv
  <2> QED
    BY <1>4, <1>6, <2>1 DEF DropsTo
<1> QED
  BY <1>6, <1>8, <1>12, <1>13, <1>14, Step

LEMMA DropSchemaStep ==
  ASSUME IInv, NEW p \in Processes, DropSchema(p)
  PROVE  IInv'
<1> DEFINE c == SchemaDropped(cache[p])
<1>1. /\ UNCHANGED <<kind, nodes, faults, superseded>> /\ Stage(p) = "drop_schema"
      /\ schema' = FALSE /\ table' = None /\ converted' = FALSE
      /\ log' = (IF kind = "fabric" THEN NoLog ELSE log)
      /\ Cache(p, c) /\ DropAndGo(p, "done")
  BY DEF DropSchema
<1>2. /\ ServerInv /\ StageInv(p) /\ CacheInv(p) /\ node[p].open /\ Doing(p) = "drop_schema"
      /\ cache[p] \in CacheType /\ Cached(p) = cache[p].table /\ Batch(p) # 0
      /\ kind \in {"unity", "fabric"}
      /\ Cached(p).format = "absent" => Cached(p) = Absent
      /\ kind = "fabric" => cache[p].uri = 0
  BY <1>1, Known, ProcessTypes, AtStage, KindsAreKnown
  DEF ServerInv, StageInv, CacheInv, Cached
<1>3. DropsTo(p, "done")
  BY <1>1, DropMoves DEF Stages
<1>4. /\ c \in CacheType /\ c.schema = FALSE /\ c.uri = cache[p].uri
      /\ kind = "fabric" => c.table = None /\ c.iceberg = 0
      /\ kind = "unity" => c.table = Cached(p) /\ c.iceberg = cache[p].iceberg
  BY <1>2, Constants DEF SchemaDropped, CacheType
<1> HIDE DEF c
<1>5. /\ cache' \in [Processes -> CacheType] /\ cache'[p] = c /\ Cached(p)' = c.table
      /\ \A q \in Processes \ {p} : cache'[q] = cache[q]
  BY <1>1, <1>4, Known, CacheFields DEF Cached
<1>6. ~IsTable(table') /\ table'.format = "none" /\ table'.data = {} /\ table' \in TableType
  BY <1>1, Formatted, Constants DEF None
<1>7. ServerInv'
  BY <1>1, <1>2, <1>6 DEF ServerInv
<1>8. StageInv(p)' /\ CacheInv(p)'
  <2>1. StageInv(p)'
    BY <1>1, <1>2, <1>3 DEF DropsTo, StageInv, Writing, Dropping
  <2>2. CacheInv(p)'
    BY <1>1, <1>2, <1>3, <1>4, <1>5, Formatted DEF DropsTo, CacheInv, Writing
  <2> QED
    BY <2>1, <2>2
<1>9. KnownInv(p)'
  <2> SUFFICES ASSUME ~node[p].dropped PROVE KnownInv(p)'
    BY <1>3 DEF DropsTo, KnownInv
  <2>1. TrueInv(p) /\ (kind = "unity" => ~IsTable(Cached(p)))
    BY <1>1, <1>2, Known DEF KnownInv, VictimInv
  <2>2. TrueInv(p)'
    BY <1>1, <1>2, <1>4, <1>5, <2>1, Formatted DEF TrueInv
  <2>3. ExistsInv(p)' /\ VictimInv(p)' /\ AbsentInv(p)' /\ LogInv(p)'
    BY <1>1, <1>3, <1>6 DEF DropsTo, ExistsInv, VictimInv, AbsentInv, LogInv
  <2> QED
    BY <2>2, <2>3 DEF KnownInv
<1>10. BatchInv(p)'
  BY <1>3 DEF DropsTo, BatchInv
<1>11. AloneInv(p)'
  <2> SUFFICES ASSUME node[p].alone PROVE AloneInv(p)'
    BY <1>3 DEF DropsTo, AloneInv
  <2>1. kind = "unity" => cache[p].iceberg = 0
    BY <1>1, <1>2, Known, Formatted DEF AloneInv, IcebergExists
  <2> QED
    BY <1>1, <1>2, <1>3, <1>4, <1>5, <1>6, <2>1, Formatted DEF DropsTo, AloneInv
<1>12. ProcessInv(p)'
  BY <1>8, <1>9, <1>10, <1>11 DEF ProcessInv
<1>13. /\ GoesOn(p) /\ node' \in [Processes -> NodeType] /\ Stage(p)' # "register"
       /\ kind' = kind /\ table'.format # "delta"
  BY <1>1, <1>3, <1>6 DEF GoesOn, DropsTo
<1>14. /\ \A q \in Processes \ {p} : Aside(q)
       /\ log' = NoLog => log = NoLog \/ \A q \in Processes \ {p} : Stage(q) # "register"
  <2>1. kind = "fabric" => \A q \in Processes : Stage(q) # "register"
    BY Known DEF StageInv
  <2> QED
    BY <1>1, <1>3, <1>5, <2>1 DEF DropsTo
<1> QED
  BY <1>5, <1>7, <1>12, <1>13, <1>14, Step

LEMMA OpenStep ==
  ASSUME IInv, NEW p \in Processes, Open(p)
  PROVE  IInv'
<1> DEFINE c == IF kind = "unity" /\ IsTable(table) THEN Remembered(EmptyCache, table)
                ELSE EmptyCache
<1>1. /\ UNCHANGED <<kind, schema, table, log, converted, superseded, nodes, faults>>
      /\ UNCHANGED <<kind, server, superseded>> /\ ~node[p].open /\ Cache(p, c)
      /\ ServerInv /\ ProcessesInv /\ kind \in {"unity", "fabric"} /\ table \in TableType
  BY Known, KindsAreKnown DEF Open, server, ServerInv
<1>2. PICK a \in BOOLEAN : a = (\A r \in Processes \ {p} : ~node[r].open)
  OBVIOUS
<1>3. PICK e \in BOOLEAN : e = IsTable(Shown)
  <2>1. IsTable(Shown) \in BOOLEAN
    BY DEF IsTable
  <2> QED
    BY <2>1, Zenon
<1>4. node'[p] = [Closed EXCEPT !.open = TRUE, !.exists = e, !.alone = a]
  BY <1>2, <1>3 DEF Open
<1>5. /\ node'[p] \in NodeType /\ node'[p].open /\ node'[p].exists = e /\ node'[p].alone = a
      /\ ~node'[p].dropped /\ node'[p].now = NoNode
  BY <1>4, Constants DEF Closed, NodeType
<1>6. ASSUME NEW q \in Processes \ {p}
      PROVE  /\ node'[q] \in NodeType /\ Unaware(q)
             /\ node'[q].open = node[q].open /\ node'[q].now = node[q].now
             /\ node[q].open => ~a /\ ~node'[q].alone
             /\ ~node[q].open => node'[q] = node[q]
             /\ cache'[q] = cache[q]
  <2>1. node'[q] = [node[q] EXCEPT !.alone = @ /\ ~node[q].open]
    BY DEF Open
  <2>2. node[q] \in NodeType /\ node[q].open \in BOOLEAN /\ node[q].alone \in BOOLEAN
    BY <1>1, ProcessTypes
  <2>3. /\ node'[q] \in NodeType /\ (node'[q].alone <=> node[q].alone /\ ~node[q].open)
        /\ node'[q].open = node[q].open /\ node'[q].exists = node[q].exists
        /\ node'[q].now = node[q].now /\ node'[q].dropped = node[q].dropped
    BY <2>1, <2>2 DEF NodeType
  <2>4. ~node[q].open => node'[q] = node[q]
    <3>1. SUFFICES ASSUME ~node[q].open PROVE node'[q] = node[q]
      OBVIOUS
    <3>2. node[q] = Closed
      BY <1>1, <3>1 DEF ProcessesInv
    <3>3. node'[q] = [Closed EXCEPT !.alone = Closed.alone /\ ~Closed.open]
      BY <2>1, <3>2
    <3> QED
      BY <3>2, <3>3 DEF Closed
  <2>5. cache'[q] = cache[q]
    BY <1>1 DEF Cache, ProcessesInv
  <2>6. Keeps(q)
    BY <1>1 DEF Keeps, Shown
  <2>7. node[q].open => ~a
    BY <1>2
  <2> QED
    BY <2>2, <2>3, <2>4, <2>5, <2>6, <2>7 DEF Unaware
<1>7. node' \in [Processes -> NodeType]
  <2>1. node' = [q \in Processes |-> node'[q]]
    BY DEF Open
  <2> QED
    BY <1>5, <1>6, <2>1
<1>8. /\ EmptyCache \in CacheType /\ EmptyCache.table = None /\ EmptyCache.uri = 0
      /\ EmptyCache.iceberg = 0 /\ ~EmptyCache.schema
  BY Constants DEF EmptyCache
<1>9. /\ c \in CacheType /\ ~c.schema /\ c.iceberg = 0
      /\ kind = "unity" /\ IsTable(table) =>
           /\ c.table = Found(table.id, table.format)
           /\ c.uri = IF table.format = "delta" THEN table.id ELSE 0
      /\ ~(kind = "unity" /\ IsTable(table)) => c = EmptyCache
  <2>1. CASE kind = "unity" /\ IsTable(table)
    BY <1>1, <1>8, <2>1, RememberedFacts
  <2>2. CASE ~(kind = "unity" /\ IsTable(table))
    BY <1>8, <2>2
  <2> QED
    BY <2>1, <2>2
<1> HIDE DEF c
<1>10. /\ cache' \in [Processes -> CacheType] /\ cache'[p] = c /\ Cached(p)' = c.table
  BY <1>1, <1>9, CacheFields DEF Cached
<1>11. /\ c.table # Absent /\ c.table.format # "absent"
       /\ IsTable(c.table) <=> kind = "unity" /\ IsTable(table)
       /\ IsTable(c.table) => c.table.id = table.id /\ c.table.format = table.format
       /\ c.uri = IF c.table.format = "delta" THEN c.table.id ELSE 0
       /\ kind = "fabric" => c = EmptyCache /\ c.uri = 0 /\ c.table.format = "none"
  BY <1>1, <1>8, <1>9, FoundFields, Formatted
<1>12. ServerInv' /\ Shown' = Shown
  BY <1>1 DEF ServerInv, IcebergExists, Shown
<1>13. ProcessesInv'
  BY <1>1, <1>5, <1>6, <1>7, <1>10 DEF ProcessesInv
<1>14. /\ Stage(p)' = "idle" /\ Batch(p)' = 0 /\ Doing(p)' = "table" /\ Format(p)' = "delta"
  BY <1>5 DEF Stage, Batch, Doing, Format, NoNode
<1>15. OverlapInv'
  <2>1. ASSUME NEW q \in Processes \ {p}, node'[q].open
        PROVE  ~node'[q].alone /\ ~node'[p].alone
    BY <1>5, <1>6, <2>1
  <2>2. ASSUME NEW q \in Processes \ {p}, NEW r \in Processes \ {p}, q # r,
               node'[q].open, node'[r].open
        PROVE  /\ ~node'[q].alone
               /\ Doing(q)' \in {"stored", "drop_schema"} => node'[r].now = NoNode
               /\ Batch(q)' # 0 /\ Batch(r)' # 0 => Format(q)' = Format(r)'
    BY <1>6, <2>2 DEF IInv, OverlapInv, Doing, Batch, Format
  <2> QED
    BY <1>5, <1>14, <2>1, <2>2 DEF OverlapInv
<1>16. CleanInv'
  <2>1. \A q \in Processes \ {p} : Stage(q)' = Stage(q)
    BY <1>6 DEF Stage
  <2> QED
    BY <1>1, <1>14, <2>1 DEF IInv, CleanInv
<1>17. ProcessInv(p)'
  <2>1. StageInv(p)'
    BY <1>1, <1>5, <1>10, <1>11, <1>14 DEF StageInv, Writing, Dropping
  <2>2. CacheInv(p)'
    BY <1>1, <1>10, <1>11, <1>14 DEF CacheInv, Writing
  <2>3. TrueInv(p)'
    BY <1>1, <1>9, <1>10, <1>11 DEF TrueInv
  <2>4. ExistsInv(p)'
    BY <1>3, <1>5, <1>10, <1>11, <1>12 DEF ExistsInv
  <2>5. VictimInv(p)' /\ AbsentInv(p)' /\ LogInv(p)'
    BY <1>10, <1>11, <1>14 DEF VictimInv, AbsentInv, LogInv
  <2>6. BatchInv(p)' /\ AloneInv(p)'
    BY <1>1, <1>9, <1>10, <1>11, <1>14, Formatted DEF BatchInv, AloneInv
  <2> QED
    BY <2>1, <2>2, <2>3, <2>4, <2>5, <2>6 DEF ProcessInv, KnownInv
<1> QED
  BY <1>1, <1>6, <1>12, <1>13, <1>15, <1>16, <1>17, UnawareKept DEF IInv

LEMMA BeginStep ==
  ASSUME IInv, NEW p \in Processes, NEW do \in Does, NEW format \in Formats,
         Begin(p, do, format)
  PROVE  IInv'
<1> DEFINE s == IF do = "incremental" /\ node[p].exists THEN "validate" ELSE "look"
           now == [NoNode EXCEPT !.do = do, !.format = format, !.batch = nodes + 1, !.stage = s]
<1>1. /\ UNCHANGED <<kind, schema, table, log, converted, superseded, cache, faults>>
      /\ UNCHANGED <<kind, server, superseded>> /\ nodes' = nodes + 1 /\ nodes < MaxNodes
      /\ node[p].open /\ Stage(p) \in {"idle", "done"} /\ MayOverlap(p, do, format)
      /\ node' = [node EXCEPT ![p].now = now]
  BY DEF Begin, server
<1>2. /\ ServerInv /\ ProcessesInv /\ StageInv(p) /\ CacheInv(p)
      /\ nodes \in 0 .. MaxNodes /\ faults \in 0 .. MaxFaults /\ kind \in {"unity", "fabric"}
  BY Known, KindsAreKnown DEF ServerInv
<1>3. /\ s \in {"validate", "look"} /\ s \in Stages
      /\ s = "validate" => node[p].exists /\ do = "incremental"
  BY DEF Stages
<1> HIDE DEF s
<1>4. nodes' \in 0 .. MaxNodes /\ nodes' # 0 /\ nodes' = nodes + 1
  BY <1>1, <1>2, BoundsAreNaturals
<1>5. /\ now \in NowType /\ now.stage = s /\ now.do = do /\ now.format = format
      /\ now.batch = nodes + 1 /\ now.creating = FALSE
  BY <1>3, <1>4, Constants DEF NoNode, NowType
<1> HIDE DEF now
<1>6. /\ node' \in [Processes -> NodeType] /\ node'[p].now = now
      /\ node'[p].open = node[p].open /\ node'[p].alone = node[p].alone
      /\ node'[p].dropped = node[p].dropped /\ node'[p].exists = node[p].exists
      /\ \A q \in Processes \ {p} : node'[q] = node[q]
  BY <1>1, <1>2, <1>5, NowFields
<1>7. /\ Stage(p)' = s /\ Doing(p)' = do /\ Format(p)' = format /\ Batch(p)' # 0
      /\ ~Creating(p)' /\ cache' = cache /\ Cached(p)' = Cached(p)
  BY <1>1, <1>4, <1>5, <1>6 DEF Stage, Doing, Format, Batch, Creating, Cached
<1>8. ServerInv' /\ Shown' = Shown /\ Actual' = Actual /\ IcebergExists' = IcebergExists
  BY <1>1, <1>2, <1>4 DEF ServerInv, IcebergExists, Shown, Actual
<1>9. ASSUME NEW q \in Processes \ {p}
      PROVE  /\ Unaware(q) /\ Stage(q)' = Stage(q) /\ Doing(q)' = Doing(q)
             /\ Format(q)' = Format(q) /\ Batch(q)' = Batch(q)
  <2>1. Keeps(q)
    BY <1>1, <1>8 DEF Keeps
  <2>2. node[q].open => ~node[q].alone
    BY <1>1, Alongside
  <2> QED
    BY <1>1, <1>6, <2>1, <2>2 DEF Unaware, Stage, Doing, Format, Batch
<1>10. ProcessesInv'
  BY <1>1, <1>2, <1>6 DEF ProcessesInv
<1>11. OverlapInv'
  <2>1. ASSUME NEW q \in Processes \ {p}, node[q].open
        PROVE  /\ ~node'[q].alone /\ ~node'[p].alone
               /\ Doing(p)' \notin {"stored", "drop_schema"}
               /\ Doing(q)' \notin {"stored", "drop_schema"}
               /\ Batch(q)' # 0 => Format(q)' = Format(p)'
    <3>1. /\ ~node[q].alone /\ ~node[p].alone
      BY <1>1, <2>1, Alongside
    <3>2. /\ do \in {"table", "incremental"} /\ Doing(q) \in {"table", "incremental"}
          /\ Batch(q) # 0 => Format(q) = format
      BY <1>1, <2>1 DEF MayOverlap, Batch
    <3> QED
      BY <1>6, <1>7, <1>9, <3>1, <3>2
  <2>2. ASSUME NEW q \in Processes \ {p}, NEW r \in Processes \ {p}, q # r,
               node'[q].open, node'[r].open
        PROVE  /\ ~node'[q].alone
               /\ Doing(q)' \in {"stored", "drop_schema"} => node'[r].now = NoNode
               /\ Batch(q)' # 0 /\ Batch(r)' # 0 => Format(q)' = Format(r)'
    BY <1>6, <1>9, <2>2 DEF IInv, OverlapInv
  <2> QED
    BY <1>6, <2>1, <2>2 DEF OverlapInv
<1>12. CleanInv'
  BY <1>1, <1>3, <1>7, <1>9 DEF IInv, CleanInv
<1>13. StageInv(p)' /\ CacheInv(p)'
  <2>1. StageInv(p)'
    BY <1>1, <1>2, <1>3, <1>6, <1>7 DEF StageInv, Writing, Dropping
  <2>2. CacheInv(p)'
    BY <1>1, <1>2, <1>3, <1>7 DEF CacheInv, Writing
  <2> QED
    BY <2>1, <2>2
<1>14. KnownInv(p)'
  <2> SUFFICES ASSUME ~node[p].dropped PROVE KnownInv(p)'
    BY <1>6 DEF KnownInv
  <2>1. TrueInv(p) /\ ExistsInv(p) /\ AbsentInv(p) /\ LogInv(p)
    BY <1>1, Known DEF KnownInv
  <2>2. TrueInv(p)' /\ ExistsInv(p)' /\ VictimInv(p)'
    BY <1>1, <1>3, <1>6, <1>7, <1>8, <2>1 DEF TrueInv, ExistsInv, VictimInv
  <2>3. AbsentInv(p)'
    <3>1. Cached(p) = Absent => Doing(p) = "drop_schema"
      BY <1>1, <1>2 DEF StageInv, CacheInv
    <3> QED
      BY <1>1, <1>7, <2>1, <3>1 DEF AbsentInv
  <2>4. LogInv(p)'
    <3>1. kind = "fabric" /\ Stage(p) = "idle" => Cached(p).format # "iceberg"
      BY <1>2, Formatted DEF StageInv, Cached, EmptyCache
    <3>2. kind = "fabric" /\ Stage(p) = "done" /\ Cached(p).format = "iceberg" =>
            Format(p) = "iceberg"
      BY <1>2, Formatted DEF CacheInv
    <3> QED
      BY <1>1, <1>3, <1>7, <2>1, <3>1, <3>2 DEF LogInv, Writing
  <2> QED
    BY <2>2, <2>3, <2>4 DEF KnownInv
<1>15. BatchInv(p)' /\ AloneInv(p)'
  <2>1. BatchInv(p)'
    BY <1>3, <1>7 DEF BatchInv
  <2>2. AloneInv(p)'
    BY <1>1, <1>3, <1>6, <1>7, <1>8, Known DEF AloneInv
  <2> QED
    BY <2>1, <2>2
<1>16. ProcessInv(p)'
  BY <1>13, <1>14, <1>15 DEF ProcessInv
<1> QED
  BY <1>1, <1>8, <1>9, <1>10, <1>11, <1>12, <1>16, UnawareKept DEF IInv

LEMMA ConvertStep ==
  ASSUME IInv, Convert
  PROVE  IInv'
<1>1. /\ UNCHANGED <<kind, schema, table, log, cache, node, nodes, faults, superseded>>
      /\ converted' = TRUE /\ kind = "fabric" /\ IcebergExists
  BY DEF Convert
<1>2. ServerInv' /\ IsTable(table) /\ table.format = "iceberg"
  BY <1>1, Formatted DEF IInv, ServerInv, IcebergExists
<1>3. /\ IsTable(Shown) => IsTable(Shown)'
      /\ Shown.format = "delta" => Shown'.format = "delta"
      /\ Actual' = Actual /\ IcebergExists' = IcebergExists
  <2>1. CASE log = NoLog
    BY <1>1, <1>2, <2>1, FoundFields, Formatted DEF Shown, Actual, IcebergExists
  <2>2. CASE log # NoLog
    BY <1>1, <2>2 DEF Shown, Actual, IcebergExists
  <2> QED
    BY <2>1, <2>2
<1>4. ProcessesInv' /\ OverlapInv' /\ CleanInv'
  BY <1>1 DEF IInv, ProcessesInv, OverlapInv, CleanInv, Stage, Doing, Batch, Format
<1>5. ASSUME NEW q \in Processes
      PROVE  ProcessInv(q)'
  <2>1. /\ Stage(q)' = Stage(q) /\ Doing(q)' = Doing(q) /\ Format(q)' = Format(q)
        /\ Batch(q)' = Batch(q) /\ Victim(q)' = Victim(q) /\ Creating(q)' = Creating(q)
        /\ Cached(q)' = Cached(q)
    BY <1>1 DEF Stage, Doing, Format, Batch, Victim, Creating, Cached
  <2>2. StageInv(q)' /\ CacheInv(q)'
    BY <1>1, <2>1, Known DEF StageInv, CacheInv
  <2>3. KnownInv(q)'
    BY <1>1, <1>3, <2>1, Known
    DEF KnownInv, TrueInv, ExistsInv, VictimInv, AbsentInv, LogInv
  <2>4. BatchInv(q)'
    BY <1>1, <1>3, <2>1, Known DEF BatchInv
  <2>5. AloneInv(q)'
    BY <1>1, <1>3, <2>1, Known DEF AloneInv
  <2> QED
    BY <2>2, <2>3, <2>4, <2>5 DEF ProcessInv
<1> QED
  BY <1>2, <1>4, <1>5 DEF IInv

-----------------------------------------------------------------------------
LEMMA InitInv == Init => IInv
<1> SUFFICES ASSUME Init PROVE IInv
  OBVIOUS
<1>1. /\ kind \in Kinds /\ schema = FALSE /\ table = None /\ log = NoLog /\ converted = FALSE
      /\ \A p \in Processes : cache[p] = EmptyCache /\ node[p] = Closed
      /\ cache = [p \in Processes |-> EmptyCache] /\ node = [p \in Processes |-> Closed]
      /\ nodes = 0 /\ faults = 0 /\ superseded = {}
  BY DEF Init
<1>2. /\ ~IsTable(None) /\ None.format = "none" /\ None.data = {} /\ None \in TableType
      /\ None # Absent
  BY Constants, Formatted DEF None
<1>3. ServerInv
  <2>1. nodes \in 0 .. MaxNodes /\ faults \in 0 .. MaxFaults /\ superseded \subseteq Batches
    BY <1>1, BoundsAreNaturals
  <2>2. /\ table \in TableType /\ table.format = "none" /\ table.data = {}
        /\ ~IsTable(table)
    BY <1>1, <1>2
  <2> QED
    BY <1>1, <2>1, <2>2 DEF ServerInv
<1>4. ProcessesInv
  BY <1>1, Constants DEF ProcessesInv
<1>5. ASSUME NEW p \in Processes
      PROVE  /\ ~node[p].open /\ node[p].alone /\ ~node[p].dropped /\ ~node[p].exists
             /\ node[p].now = NoNode /\ Stage(p) = "idle" /\ Batch(p) = 0
             /\ Cached(p) = None /\ cache[p].uri = 0 /\ cache[p] = EmptyCache
  BY <1>1 DEF Closed, NoNode, EmptyCache, Stage, Batch, Cached
<1>6. OverlapInv /\ CleanInv
  BY <1>5 DEF OverlapInv, CleanInv
<1>7. ASSUME NEW p \in Processes
      PROVE  ProcessInv(p)
  <2>1. StageInv(p) /\ CacheInv(p)
    BY <1>2, <1>5 DEF StageInv, CacheInv, Writing, Dropping
  <2>2. KnownInv(p) /\ BatchInv(p) /\ AloneInv(p)
    BY <1>5 DEF KnownInv, BatchInv, AloneInv
  <2> QED
    BY <2>1, <2>2 DEF ProcessInv
<1> QED
  BY <1>3, <1>4, <1>6, <1>7 DEF IInv

LEMMA NextInv == IInv /\ [Next]_vars => IInv'
<1> SUFFICES ASSUME IInv, [Next]_vars PROVE IInv'
  OBVIOUS
<1>1. CASE Next
  BY <1>1, OpenStep, BeginStep, ClosingSteps, ValidateStep, LookStep, VendStep,
     UnregisterStep, RemoveDirectoryStep, CleanStep, LeaveStorageStep, CreateSchemaStep,
     CredentialsStep, WriteStep, RegisterStep, FindStep, CreateStep, CommitStep, AfterStep,
     DropSchemaStep, ConvertStep
  DEF Next
<1>2. CASE UNCHANGED vars
  <2>1. UNCHANGED <<kind, schema, table, log, converted, cache, node, nodes, faults, superseded>>
    BY <1>2 DEF vars, server
  <2>2. ServerInv' /\ ProcessesInv' /\ OverlapInv' /\ CleanInv'
    BY <2>1 DEF IInv, ServerInv, ProcessesInv, OverlapInv, CleanInv, IcebergExists, Stage,
                Doing, Batch, Format
  <2>3. ASSUME NEW q \in Processes
        PROVE  ProcessInv(q)'
    <3>1. /\ Stage(q)' = Stage(q) /\ Doing(q)' = Doing(q) /\ Format(q)' = Format(q)
          /\ Batch(q)' = Batch(q) /\ Victim(q)' = Victim(q) /\ Creating(q)' = Creating(q)
          /\ Cached(q)' = Cached(q) /\ Shown' = Shown /\ Actual' = Actual
          /\ IcebergExists' = IcebergExists
      BY <2>1 DEF Stage, Doing, Format, Batch, Victim, Creating, Cached, Shown, Actual,
                  IcebergExists
    <3>2. StageInv(q)' /\ CacheInv(q)'
      BY <2>1, <3>1, Known DEF StageInv, CacheInv
    <3>3. KnownInv(q)'
      BY <2>1, <3>1, Known
      DEF KnownInv, TrueInv, ExistsInv, VictimInv, AbsentInv, LogInv
    <3>4. BatchInv(q)' /\ AloneInv(q)'
      BY <2>1, <3>1, Known DEF BatchInv, AloneInv
    <3> QED
      BY <3>2, <3>3, <3>4 DEF ProcessInv
  <2> QED
    BY <2>2, <2>3 DEF IInv
<1> QED
  BY <1>1, <1>2

THEOREM Invariance == Spec => []IInv
BY InitInv, NextInv, PTL DEF Spec

-----------------------------------------------------------------------------
\* The types of the model (the invariant TypeOK).
THEOREM TypeCorrect == Spec => []TypeOK
<1>1. IInv => TypeOK
  <2> SUFFICES ASSUME IInv PROVE TypeOK
    OBVIOUS
  <2>1. ServerInv /\ ProcessesInv
    BY DEF IInv
  <2>2. table.format \in Formats \cup {"none"} /\ table.data \subseteq Batches
    BY <2>1 DEF ServerInv, TableType
  <2> QED
    BY <2>1, <2>2 DEF TypeOK, ServerInv, ProcessesInv
<1> QED
  BY <1>1, Invariance, PTL

(***************************************************************************)
(* A request is refused only in a race: another invocation has dropped the  *)
(* table meanwhile, creates the same Iceberg table, or has registered the   *)
(* same Delta table before the credentials of its path were asked for.      *)
(***************************************************************************)
LEMMA Unrefused ==
  ASSUME IInv, NEW p \in Processes, Raises(p)
  PROVE  /\ ~node[p].alone
         /\ \/ node[p].dropped
            \/ Format(p) = "iceberg"
            \/ Stage(p) = "credentials" /\ RefusesPath(p)
<1>1. /\ ServerInv /\ StageInv(p) /\ CacheInv(p) /\ node[p].open
      /\ Format(p) \in {"delta", "iceberg"} /\ kind \in {"unity", "fabric"}
      /\ node[p].dropped \in BOOLEAN
  BY Known, ProcessTypes, AtStage, KindsAreKnown DEF Raises, ServerInv, Formats
<1>2. CASE Stage(p) = "validate" /\ ~IsTable(Answer(p))
  BY <1>1, <1>2, AnswerFacts, Known, Formatted DEF StageInv, KnownInv, ExistsInv
<1>3. CASE Stage(p) = "vend" /\ ~Vends(p, Victim(p).id)
  BY <1>1, <1>3, Known DEF StageInv, KnownInv, VictimInv, Vends
<1>4. CASE Stage(p) = "credentials" /\ ~GetsCredentials(p)
  <2>1. kind = "unity" /\ cache[p].uri # 0 /\ ~Vends(p, cache[p].uri)
    BY <1>1, <1>4 DEF GetsCredentials
  <2>2. ~node[p].dropped => Vends(p, cache[p].uri)
    BY <1>1, <2>1, Known, Formatted DEF KnownInv, TrueInv, Vends
  <2> QED
    BY <1>1, <2>1, <2>2 DEF StageInv
<1>5. CASE Stage(p) = "credentials" /\ RefusesPath(p)
  <2>1. kind = "unity" /\ Creating(p) /\ table.format = "delta" /\ IsTable(table)
    BY <1>1, <1>5 DEF RefusesPath, Creating, IsTable, Formats
  <2>2. Cached(p) = Absent
    BY <1>1, <1>5, <2>1 DEF CacheInv, Writing
  <2> QED
    BY <1>1, <1>5, <2>1, <2>2, Known DEF AloneInv
<1>6. CASE Stage(p) = "register" /\ ~AcceptsRegistration(p)
  BY <1>1, <1>6, Known
  DEF StageInv, CacheInv, KnownInv, TrueInv, AcceptsRegistration
<1>7. CASE Stage(p) = "create" /\ ~MayCreate
  <2>1. Format(p) = "iceberg"
    BY <1>1, <1>7 DEF StageInv
  <2>2. ~node[p].alone
    BY <1>1, <1>7, Known DEF StageInv, CacheInv, KnownInv, TrueInv, AloneInv, MayCreate
  <2> QED
    BY <2>1, <2>2
<1>8. CASE Stage(p) = "commit" /\ ~Commits(p)
  <2>1. Format(p) = "iceberg"
    BY <1>1, <1>8 DEF StageInv
  <2>2. ~node[p].alone
    BY <1>1, <1>8, Known DEF AloneInv, Commits
  <2> QED
    BY <2>1, <2>2
<1> QED
  BY <1>2, <1>3, <1>4, <1>5, <1>6, <1>7, <1>8 DEF Raises, Victim

(***************************************************************************)
(* What failed runs leave behind, in any format, and other creators of the  *)
(* same Delta table or schema never block a run (the invariant              *)
(* LeftoversAndRacesDontBlock): TableFormatCatalog and its two subclasses   *)
(* overwrite, register or drop it.  The credentials of a path where another *)
(* run has just registered its table are the exception the invariant makes. *)
(***************************************************************************)
THEOREM NothingBlocks == Spec => []LeftoversAndRacesDontBlock
<1>1. IInv => LeftoversAndRacesDontBlock
  BY Unrefused DEF LeftoversAndRacesDontBlock
<1> QED
  BY <1>1, Invariance, PTL

(***************************************************************************)
(* What a node leaves in the caches is true (the invariant CachesStayTrue): *)
(* remember_table, forget_table and after_create keep them so, also before  *)
(* Fabric shows the table that was written.                                 *)
(***************************************************************************)
THEOREM CachesTrue == Spec => []CachesStayTrue
<1>1. IInv => CachesStayTrue
  <2> SUFFICES ASSUME IInv, NEW p \in Processes, node[p].alone, Stage(p) = "done"
               PROVE  /\ IsTable(cache[p].table) \/ cache[p].table = Absent
                           => Answer(p).format = Actual.format
                      /\ cache[p].uri \in {0, Actual.id}
                      /\ cache[p].iceberg \in {0, table.id}
                      /\ cache[p].schema => schema
    BY DEF CachesStayTrue
  <2>1. /\ ServerInv /\ StageInv(p) /\ CacheInv(p) /\ node[p].open /\ ~node[p].dropped
        /\ TrueInv(p) /\ AloneInv(p) /\ kind \in {"unity", "fabric"} /\ Cached(p) = cache[p].table
    BY Known, AtStage, KindsAreKnown DEF ServerInv, StageInv, KnownInv, Cached
  <2>2. kind = "unity" => Actual = table
    BY AnswerFacts DEF Actual
  <2>3. cache[p].iceberg \in {0, table.id} /\ (cache[p].schema => schema)
    BY <2>1 DEF AloneInv, TrueInv
  <2>4. cache[p].uri \in {0, Actual.id}
    BY <2>1, <2>2, Formatted DEF TrueInv, CacheInv
  <2>5. CASE IsTable(Cached(p)) /\ kind = "unity"
    BY <2>1, <2>2, <2>3, <2>4, <2>5, AnswerFacts DEF TrueInv
  <2>6. CASE IsTable(Cached(p)) /\ kind = "fabric"
    BY <2>1, <2>3, <2>4, <2>6, AnswerFacts DEF AloneInv
  <2>7. CASE Cached(p) = Absent
    <3>1. kind = "unity" /\ table.format = "none"
      BY <2>1, <2>7, NoTable DEF CacheInv, AloneInv
    <3> QED
      BY <2>2, <2>3, <2>4, <2>7, <3>1, AnswerFacts, Formatted
  <2> QED
    BY <2>1, <2>3, <2>4, <2>5, <2>6, <2>7
<1> QED
  BY <1>1, Invariance, PTL

-----------------------------------------------------------------------------
(***************************************************************************)
(* The steps with which a node ends well.                                   *)
(***************************************************************************)
\* No process ends well by a step of process r, but perhaps r.
OnlyOf(r) == \A p \in Processes \ {r} : Stage(p)' = Stage(p)

LEMMA StepOfOne ==
  ASSUME IInv, NEW r \in Processes, NEW s, s \in Stages
  PROVE  /\ GoTo(r, s) => OnlyOf(r) /\ Stage(r)' = s
         /\ Done(r) => OnlyOf(r) /\ Stage(r)' = "done"
         /\ Close(r) => OnlyOf(r) /\ Stage(r)' = "idle"
         /\ DropAndGo(r, s) => OnlyOf(r) /\ Stage(r)' = s
         /\ Go(r, s) => OnlyOf(r) /\ Stage(r)' = s
<1>1. GoTo(r, s) => OnlyOf(r) /\ Stage(r)' = s
  BY Known, GoToMoves DEF MovesTo, OnlyOf, Stage
<1>2. Done(r) => OnlyOf(r) /\ Stage(r)' = "done"
  BY Known, DoneMoves DEF MovesTo, OnlyOf, Stage
<1>3. Close(r) => OnlyOf(r) /\ Stage(r)' = "idle"
  BY Known, CloseFields DEF OnlyOf, Stage, Closed, NoNode
<1>4. ASSUME DropAndGo(r, s) PROVE OnlyOf(r) /\ Stage(r)' = s
  <2>1. ASSUME NEW q \in Processes \ {r}
        PROVE  node'[q].now = node[q].now
    <3>1. node'[q] = [node[q] EXCEPT !.dropped = node[q].open] /\ node[q] \in NodeType
      BY <1>4, Known, ProcessTypes DEF DropAndGo
    <3> QED
      BY <3>1 DEF NodeType
  <2> QED
    BY <1>4, <2>1, DropMoves DEF DropsTo, OnlyOf, Stage
<1>5. Go(r, s) => OnlyOf(r) /\ Stage(r)' = s
  BY Known DEF Go, ProcessesInv, NodeType, NowType, OnlyOf, Stage
<1> QED
  BY <1>1, <1>2, <1>3, <1>4, <1>5

LEMMA EndsWell ==
  ASSUME IInv, Next, NEW p \in Processes, Stage(p) # "done", Stage(p)' = "done"
  PROVE  \/ (Write(p) \/ Commit(p)) /\ Appends(p)
         \/ After(p) \/ DropSchema(p)
<1> DEFINE Ends(r) == OnlyOf(r) /\ Stage(r)' # "done"
<1>1. ASSUME NEW r \in Processes, Ends(r) PROVE FALSE
  BY <1>1 DEF OnlyOf
<1>2. ASSUME NEW r \in Processes, Open(r) PROVE Ends(r)
  <2>1. node'[r].now = NoNode
    BY <1>2 DEF Open, Closed
  <2>2. ASSUME NEW q \in Processes \ {r} PROVE node'[q].now = node[q].now
    <3>1. node'[q] = [node[q] EXCEPT !.alone = @ /\ ~node[q].open] /\ node[q] \in NodeType
      BY <1>2, Known, ProcessTypes DEF Open
    <3> QED
      BY <3>1 DEF NodeType
  <2> QED
    BY <2>1, <2>2 DEF OnlyOf, Stage, NoNode
<1>3. ASSUME NEW r \in Processes, NEW do \in Does, NEW format \in Formats, Begin(r, do, format)
      PROVE  Ends(r)
  <2>1. PICK s \in {"validate", "look"} :
          node' = [node EXCEPT ![r].now = [NoNode EXCEPT !.do = do, !.format = format,
                                             !.batch = nodes + 1, !.stage = s]]
    BY <1>3 DEF Begin
  <2>2. node \in [Processes -> NodeType]
    BY Known DEF ProcessesInv
  <2>3. /\ node'[r].now = [NoNode EXCEPT !.do = do, !.format = format,
                                         !.batch = nodes + 1, !.stage = s]
        /\ \A q \in Processes \ {r} : node'[q] = node[q]
    BY <2>1, <2>2 DEF NodeType
  <2> QED
    BY <2>3 DEF OnlyOf, Stage, NoNode
<1>4. ASSUME NEW r \in Processes, End(r) \/ Reject(r) \/ Raise(r) \/ Fail(r) PROVE Ends(r)
  BY <1>4, StepOfOne DEF End, Reject, Raise, Fail, Stages
<1>5. ASSUME NEW r \in Processes, Look(r) PROVE Ends(r)
  <2>1. PICK s \in {"vend", "unregister", "drop_schema", "schema"} :
          node' = [node EXCEPT ![r].now.victim = Looked(r),
                               ![r].now.creating = MustDrop(r) \/ ~IsTable(Looked(r)),
                               ![r].now.stage = s]
    BY <1>5 DEF Look
  <2>2. node \in [Processes -> NodeType]
    BY Known DEF ProcessesInv
  <2> QED
    BY <2>1, <2>2 DEF OnlyOf, Stage, NodeType, NowType
<1>6. ASSUME NEW r \in Processes, Validate(r) \/ Vend(r) \/ CreateSchema(r) \/ Credentials(r)
                                  \/ Find(r) \/ Register(r) \/ Create(r)
      PROVE  Ends(r)
  <2>1. PICK s \in {"unregister", "credentials", "commit", "find", "write", "create", "after"} :
          GoTo(r, s)
    BY <1>6 DEF Validate, Vend, CreateSchema, Credentials, Find, Register, Create, FirstStage
  <2>2. s \in Stages
    BY DEF Stages, Writing, Dropping
  <2> QED
    BY <2>1, <2>2, StepOfOne
<1>7. ASSUME NEW r \in Processes, Clean(r) \/ LeaveStorage(r) PROVE Ends(r)
  BY <1>7, StepOfOne, AfterDropStage DEF Clean, LeaveStorage
<1>8. ASSUME NEW r \in Processes, Unregister(r) \/ RemoveDirectory(r) PROVE Ends(r)
  <2>1. PICK s \in {"clean", "drop_schema", "look", "schema"} : DropAndGo(r, s)
    BY <1>8, AfterDropStage DEF Unregister, RemoveDirectory
  <2>2. s \in Stages
    BY DEF Stages, Writing, Dropping
  <2> QED
    BY <2>1, <2>2, StepOfOne
<1>9. ASSUME NEW r \in Processes, Write(r) \/ Commit(r), ~Appends(r) PROVE Ends(r)
  <2>1. PICK s \in {"register", "after"} : GoTo(r, s)
    BY <1>9 DEF Write, Commit, AfterWrite
  <2>2. s \in Stages
    BY DEF Stages, Writing
  <2> QED
    BY <2>1, <2>2, StepOfOne
<1>10. ASSUME NEW r \in Processes, After(r) \/ DropSchema(r)
                                   \/ ((Write(r) \/ Commit(r)) /\ Appends(r))
       PROVE  OnlyOf(r)
  <2>1. "done" \in Stages
    BY DEF Stages
  <2> QED
    BY <1>10, <2>1, StepOfOne DEF After, DropSchema, Write, Commit
<1>11. ~Convert
  BY DEF Convert, Stage
<1> HIDE DEF Ends
<1> QED
  <2>1. PICK r \in Processes : After(r) \/ DropSchema(r) \/ ((Write(r) \/ Commit(r)) /\ Appends(r))
    BY <1>1, <1>2, <1>3, <1>4, <1>5, <1>6, <1>7, <1>8, <1>9, <1>11 DEF Next
  <2>2. r = p
    BY <1>10, <2>1 DEF OnlyOf
  <2> QED
    BY <2>1, <2>2

LEMMA PublishedStep ==
  ASSUME IInv, NEW p \in Processes, Stage(p) # "done", Stage(p)' = "done",
         Doing(p) # "drop_schema", ~node[p].dropped,
         ((Write(p) \/ Commit(p)) /\ Appends(p)) \/ After(p) \/ DropSchema(p)
  PROVE  Published(p)' \/ Batch(p) \in superseded'
<1>1. /\ ServerInv /\ StageInv(p) /\ CacheInv(p) /\ ProcessesInv
      /\ Format(p) \in {"delta", "iceberg"} /\ kind \in {"unity", "fabric"}
      /\ node[p].open => TrueInv(p) /\ LogInv(p) /\ BatchInv(p)
  BY Known, ProcessTypes, KindsAreKnown DEF ServerInv, Formats, KnownInv
<1>2. CASE Write(p) /\ Appends(p)
  <2>1. /\ Stage(p) = "write" /\ log' = (log \ NoLog) \cup {Batch(p)} /\ Done(p) /\ table' = table
        /\ kind' = kind /\ Batch(p) # 0 /\ Format(p) = "delta" /\ ~Creating(p) /\ node[p].open
    BY <1>1, <1>2, AtStage DEF Write, StageInv, Appends, Creating
  <2>2. Batch(p)' = Batch(p) /\ Format(p)' = Format(p)
    BY <1>1, <2>1, DoneMoves DEF MovesTo
  <2>3. log' # NoLog /\ Batch(p) \in log'
    BY <2>1 DEF NoLog
  <2>4. kind = "unity" => table.format = "delta"
    BY <1>1, <2>1 DEF CacheInv, TrueInv, Writing
  <2>5. Shown'.format = "delta"
    BY <1>1, <2>1, <2>3, <2>4, FoundFields DEF Shown
  <2> QED
    BY <2>1, <2>2, <2>3, <2>5 DEF Published
<1>3. CASE Commit(p) /\ Appends(p)
  <2>1. /\ Stage(p) = "commit" /\ table' = [table EXCEPT !.data = @ \cup {Batch(p)}] /\ Done(p)
        /\ IcebergExists /\ kind' = kind /\ log' = log /\ Format(p) = "iceberg" /\ node[p].open
        /\ table \in TableType
    BY <1>1, <1>3, AtStage DEF Commit, Commits, StageInv, ServerInv
  <2>2. Batch(p)' = Batch(p) /\ Format(p)' = Format(p)
    BY <1>1, <2>1, DoneMoves DEF MovesTo
  <2>3. IcebergExists' /\ Batch(p) \in table'.data
    BY <2>1 DEF IcebergExists, TableType
  <2>4. kind = "fabric" => log = NoLog
    BY <1>1, <2>1 DEF LogInv, Writing
  <2> QED
    BY <2>1, <2>2, <2>3, <2>4 DEF Published
<1>4. CASE After(p)
  <2>1. /\ Stage(p) = "after" /\ UNCHANGED <<kind, table, log, converted, superseded>> /\ Done(p)
        /\ node[p].open
    BY <1>1, <1>4, AtStage DEF After, server
  <2>2. Batch(p)' = Batch(p) /\ Format(p)' = Format(p)
    BY <1>1, <2>1, DoneMoves DEF MovesTo
  <2>3. Shown' = Shown /\ IcebergExists' = IcebergExists
    BY <2>1 DEF Shown, IcebergExists
  <2>4. kind = "fabric" /\ Format(p) = "iceberg" => log = NoLog
    BY <1>1, <2>1 DEF LogInv, Writing
  <2> QED
    BY <1>1, <2>1, <2>2, <2>3, <2>4 DEF BatchInv, Published
<1>5. CASE DropSchema(p)
  BY <1>1, <1>5 DEF DropSchema, StageInv
<1> QED
  BY <1>2, <1>3, <1>4, <1>5

(***************************************************************************)
(* A node that ends well has published its batch in the model's format (the *)
(* action property SuccessMeansPublished): write_relation of both catalogs, *)
(* whatever it found, dropped or registered on the way.                     *)
(***************************************************************************)
THEOREM PublishedThen == Spec => SuccessMeansPublished
<1>1. IInv /\ [Next]_vars =>
        [\A p \in Processes :
           /\ Stage(p) # "done" /\ Stage(p)' = "done"
           /\ Doing(p) # "drop_schema" /\ ~node[p].dropped
           => Published(p)' \/ Batch(p) \in superseded']_vars
  BY EndsWell, PublishedStep
<1> QED
  BY <1>1, Invariance, PTL DEF Spec, SuccessMeansPublished
=============================================================================
