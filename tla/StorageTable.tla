---------------------------- MODULE StorageTable ----------------------------
(***************************************************************************)
(* One table of the local, S3 or Azure catalog, written by one node after   *)
(* the other, with a stop at any moment: the process is killed, or an error *)
(* leaves the call half done.                                               *)
(*                                                                         *)
(* StorageCatalog asks the object store only: which writes are atomic, what *)
(* a stopped write or drop leaves behind and whether the next node takes    *)
(* that for its table is what this module is about.  Rows are the batches   *)
(* that produced them.                                                      *)
(***************************************************************************)
EXTENDS Naturals, Sequences, FiniteSets

CONSTANTS Stores,     \* kinds of storage: "local", "s3", "azure"
          Kinds,      \* kinds of nodes
          Formats,    \* values of file_format, "delta" among them
          MaxNodes,   \* bound on the nodes that are run
          MaxMishaps  \* bound on stops

ASSUME StoresAreKnown == Stores \subseteq {"local", "s3", "azure"}
ASSUME KindsAreKnown ==
  Kinds \subseteq {"table", "incremental", "python", "snapshot", "test", "seed"}
ASSUME FormatsAreKnown ==
  "delta" \in Formats /\ Formats \subseteq {"delta", "csv", "parquet"}

ASSUME BoundsAreNaturals == MaxNodes \in Nat /\ MaxMishaps \in Nat

VARIABLES
  store,     \* the catalog's storage
  kind,      \* what the node is: a model, a snapshot, a stored test, a seed
  format,    \* its file_format, the default one for a stored test
  object,    \* what is at the path of each format
  todo,      \* the calls the node has yet to make
  busy,      \* the first of them has begun to change the storage
  batch,     \* nodes begun so far
  due,       \* batches the table owes since its last complete load
  outcome,   \* how the last node ended
  switched,  \* file_format was changed
  mishaps    \* what was stopped so far

vars == <<store, kind, format, object, todo, busy, batch, due, outcome,
          switched, mishaps>>

(***************************************************************************)
(* A Delta directory holds `files` without a log, a `whole` table, or a log *)
(* whose beginning or data files are gone (`hollow`).  A plain file is      *)
(* `whole` or `torn`: on a local disk the sink writes to the file itself.   *)
(***************************************************************************)
Absent == [is |-> "none", rows |-> {}]
Object(s, r) == [is |-> s, rows |-> r]

Atomic(f) == f # "delta" /\ store # "local"

First == todo[1]
Doing(op) == todo # <<>> /\ First.op = op
Target == First.format

Call(op, f, rows) == [op |-> op, format |-> f, rows |-> rows]

Put(f, o) == object' = [object EXCEPT ![f] = o]

Init ==
  /\ store \in Stores
  /\ kind \in Kinds
  /\ format \in Formats
  /\ kind = "test" => format = "delta"
  /\ object = [f \in Formats |-> Absent]
  /\ todo = <<>>
  /\ busy = FALSE
  /\ batch = 0
  /\ due = {}
  /\ outcome = "none"
  /\ switched = FALSE
  /\ mishaps = [what |-> {}, count |-> 0]

-----------------------------------------------------------------------------
\* list_relations_without_caching: directories with a Delta log, and files.
LogFound(f) == object[f].is \in {"whole", "hollow"}
FileFound(f) == object[f].is \in {"whole", "torn"}

Listed(f) == IF f = "delta" THEN LogFound(f) ELSE FileFound(f)

\* table_exists: the local catalog asks for the path alone (and as a mutant:
\* so do the others), S3 and Azure ask for a Delta log.
PathExists(f) == object[f].is # "none"

TableExists(f) == IF store = "local" THEN PathExists(f) ELSE Listed(f)

\* SQL increments go by dbt's listing, which knows the table by its name,
\* Python models and snapshots ask the catalog for their own format.
Increments ==
  \/ kind = "incremental" /\ \E f \in Formats : Listed(f)
  \/ kind \in {"python", "snapshot"} /\ TableExists(format)

MayReload == kind \in {"table", "incremental", "python"}

Clearing == CASE kind = "test" -> {"drop"}
              [] kind = "seed" -> {"drop", "truncate"}
              [] OTHER -> {}

Start(calls) ==
  /\ todo = <<>>
  /\ batch < MaxNodes
  /\ todo' = calls
  /\ batch' = batch + 1
  /\ outcome' = "none"
  /\ UNCHANGED <<store, kind, format, object, busy, due, switched, mishaps>>

Load == Call("load", format, {batch + 1})

BeginIncrement == Increments /\ Start(<<Call("append", format, {})>>)

BeginLoad ==
  /\ ~Increments \/ MayReload
  /\ Clearing # {} => \A f \in Formats : ~Listed(f)
  /\ Start(<<Load>>)

\* A stored test drops the relation dbt lists, a seed truncates it or, with a
\* full refresh, drops it.
BeginClear ==
  \E op \in Clearing, f \in {g \in Formats : Listed(g)} :
    Start(<<Call(op, f, {}), Load>>)

\* The first call is done; the node ends with the last one.
Done ==
  /\ todo' = Tail(todo)
  /\ busy' = FALSE
  /\ outcome' = IF Len(todo) = 1 /\ ~Doing("drop") THEN "ok" ELSE "none"

Raise ==
  /\ todo' = <<>>
  /\ busy' = FALSE
  /\ outcome' = "raised"
  /\ UNCHANGED <<store, kind, format, object, batch, due, switched, mishaps>>

-----------------------------------------------------------------------------
(***************************************************************************)
(* Reading.  A cut csv file may read as fewer rows, a cut parquet file has  *)
(* no footer; a hollow table may show its log and miss what the log names.  *)
(***************************************************************************)
Reads(f) ==
  CASE object[f].is = "whole" -> {object[f].rows}
    [] object[f].is = "torn" /\ f = "csv" -> SUBSET object[f].rows
    [] object[f].is = "hollow" -> {object[f].rows}
    [] OTHER -> {}

MayFail(f) == object[f].is # "whole"

\* Mutant: the rows of a plain file are not read before it is written again.
ReadNothing ==
  /\ Doing("append") /\ ~busy
  /\ \E r \in Reads(Target) :
       todo' = <<Call("extend", Target, IF Target = "delta" THEN r \cup {batch}
                                        ELSE {batch})>>
  /\ UNCHANGED <<store, kind, format, object, busy, batch, due, outcome,
                 switched, mishaps>>

\* append_relation and its kin: a plain file is read and written as a whole, a
\* Delta table is opened and gets a commit.
ReadForAppend ==
  /\ Doing("append") /\ ~busy
  /\ \E r \in Reads(Target) :
       todo' = <<Call("extend", Target, r \cup {batch})>>
  /\ UNCHANGED <<store, kind, format, object, busy, batch, due, outcome,
                 switched, mishaps>>

\* truncate_relation: a Delta commit that names no file any more; a plain file
\* is read for its schema and written again without rows.
Truncate ==
  /\ Doing("truncate") /\ ~busy
  /\ IF Target = "delta"
       THEN /\ object[Target].is \in {"whole", "hollow"}
            /\ Put(Target, Object("whole", {}))
            /\ Done
       ELSE /\ Reads(Target) # {}
            /\ todo' = <<Call("empty", Target, {})>> \o Tail(todo)
            /\ UNCHANGED <<object, busy, outcome>>
  /\ UNCHANGED <<store, kind, format, batch, due, switched, mishaps>>

Refused ==
  /\ ~busy
  /\ \/ Doing("append") /\ MayFail(Target)
     \/ Doing("truncate") /\ MayFail(Target)
     \/ Doing("load") /\ object[Target].is = "hollow"
  /\ Raise

-----------------------------------------------------------------------------
Writing == Doing("load") \/ Doing("extend") \/ Doing("empty")

\* A Delta write adds its data files first, a local sink cuts the file; on S3
\* and Azure a plain file is there only when its upload is complete.
StartWrite ==
  /\ Writing /\ ~busy
  /\ busy' = TRUE
  /\ CASE Atomic(Target) -> UNCHANGED object
       [] Target = "delta" /\ object[Target].is = "none" ->
            Put(Target, Object("files", {}))
       [] Target # "delta" /\ store = "local" ->
            Put(Target, Object("torn", First.rows))
       [] OTHER -> UNCHANGED object
  /\ UNCHANGED <<store, kind, format, todo, batch, due, outcome, switched,
                 mishaps>>

\* An increment that went to a hollow table leaves it hollow.
Commit ==
  /\ Writing /\ busy
  /\ Put(Target, Object(IF Doing("extend") /\ object[Target].is = "hollow"
                          THEN "hollow" ELSE "whole", First.rows))
  /\ due' = IF Doing("extend") THEN due \cup {batch} ELSE First.rows
  /\ Done
  /\ UNCHANGED <<store, kind, format, batch, switched, mishaps>>

(***************************************************************************)
(* drop_relation and drop_schema.  Azure deletes a directory in one call.   *)
(* rmtree and the pages of S3 remove a Delta table piece by piece: its log  *)
(* goes first or last.                                                      *)
(***************************************************************************)
Pieces(f) == f = "delta" /\ store # "azure"

DropPart ==
  /\ Doing("drop") /\ ~busy
  /\ Pieces(Target)
  /\ object[Target].is # "none"
  /\ busy' = TRUE
  /\ \E s \in {"files", "hollow"} : Put(Target, Object(s, {}))
  /\ UNCHANGED <<store, kind, format, todo, batch, due, outcome, switched,
                 mishaps>>

DropDone ==
  /\ Doing("drop")
  /\ busy \/ ~Pieces(Target) \/ object[Target].is = "none"
  /\ Put(Target, Absent)
  /\ Done
  /\ UNCHANGED <<store, kind, format, batch, due, switched, mishaps>>

Mishap(what) ==
  /\ mishaps.count < MaxMishaps
  /\ mishaps' = [what |-> mishaps.what \cup {what}, count |-> mishaps.count + 1]

\* rmtree(ignore_errors=True) goes on when a file cannot be removed.
DropIgnored ==
  /\ Doing("drop") /\ busy
  /\ store = "local"
  /\ Mishap("ignored")
  /\ Done
  /\ UNCHANGED <<store, kind, format, object, batch, due, switched>>

\* The process is killed, or the call fails where it is.
Stop ==
  /\ todo # <<>>
  /\ Mishap(IF Doing("drop") THEN "drop" ELSE "write")
  /\ todo' = <<>>
  /\ busy' = FALSE
  /\ outcome' = "stopped"
  /\ UNCHANGED <<store, kind, format, object, batch, due, switched>>

-----------------------------------------------------------------------------
\* Between two runs: somebody drops the schema with the tables in it, at once
\* or one after the other ...
DropDirectory ==
  /\ store = "azure"
  /\ object' = [f \in Formats |-> Absent]
  /\ UNCHANGED todo

DropEach ==
  /\ store # "azure"
  /\ \E order \in [1..Cardinality(Formats) -> Formats] :
       /\ \A f \in Formats : \E i \in DOMAIN order : order[i] = f
       /\ todo' = [i \in DOMAIN order |-> Call("drop", order[i], {})]
  /\ UNCHANGED object

DropSchema ==
  /\ todo = <<>>
  /\ \E f \in Formats : PathExists(f)
  /\ DropDirectory \/ DropEach
  /\ outcome' = "none"
  /\ UNCHANGED <<store, kind, format, busy, batch, due, switched, mishaps>>

\* ... or changes file_format.
ChangeFormat ==
  /\ todo = <<>>
  /\ kind # "test"
  /\ format' \in Formats \ {format}
  /\ switched' = TRUE
  /\ outcome' = "none"
  /\ UNCHANGED <<store, kind, object, todo, busy, batch, due, mishaps>>

Next ==
  \/ BeginIncrement \/ BeginLoad \/ BeginClear
  \/ ReadForAppend \/ Truncate \/ Refused \/ StartWrite \/ Commit
  \/ DropPart \/ DropDone \/ DropIgnored \/ Stop \/ DropSchema \/ ChangeFormat

Spec == Init /\ [][Next]_vars

-----------------------------------------------------------------------------
Ops == {"load", "append", "extend", "truncate", "empty", "drop"}

Objects == [is : {"none", "files", "whole", "hollow", "torn"},
            rows : SUBSET (1..MaxNodes)]
Calls == [op : Ops, format : Formats, rows : SUBSET (1..MaxNodes)]

TypeOK ==
  /\ store \in Stores /\ kind \in Kinds /\ format \in Formats
  /\ object \in [Formats -> Objects]
  /\ todo \in Seq(Calls)
  /\ busy \in BOOLEAN /\ switched \in BOOLEAN
  /\ batch \in 0..MaxNodes
  /\ due \subseteq 1..MaxNodes
  /\ outcome \in {"none", "ok", "raised", "stopped"}
  /\ mishaps \in [what : SUBSET {"write", "drop", "ignored"},
                  count : 0..MaxMishaps]

\* What a stopped write leaves behind never makes a later node raise, on any
\* storage - but for a plain file on a local disk, which is torn, and a local
\* Delta directory without a log, which Python models and snapshots take for
\* their table.  A stored test recovers from a half done drop as well.
LeftoversDontBlock ==
  outcome = "raised" =>
    \/ switched /\ kind = "incremental"
    \/ "drop" \in mishaps.what /\ kind # "test"
    \/ "ignored" \in mishaps.what
    \/ /\ store = "local" /\ "write" \in mishaps.what
       /\ format # "delta" \/ switched \/ kind \in {"python", "snapshot"}

\* After a node that ended well its table holds exactly what its last complete
\* load and the increments since then wrote.  Not claimed after a half done
\* drop, for a plain file a stop has torn, and for a table that was left under
\* another file_format for a while and is then taken up again.
SuccessKeepsHistory ==
  outcome = "ok" =>
    \/ object[format].is = "whole" /\ object[format].rows = due
    \/ switched /\ kind \in {"incremental", "python", "snapshot"}
    \/ mishaps.what \cap {"drop", "ignored"} # {} /\ kind # "test"
    \/ store = "local" /\ format # "delta" /\ "write" \in mishaps.what
=============================================================================
