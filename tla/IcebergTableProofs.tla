-------------------------- MODULE IcebergTableProofs --------------------------
(***************************************************************************)
(* Proofs about IcebergTable for every number of runs, starts, lost answers *)
(* and crashes.  The inductive invariant says what a commit that is under   *)
(* way was computed from: as long as the table still has the snapshot of    *)
(* its base, the base says truly what the table holds.                      *)
(***************************************************************************)
EXTENDS IcebergTable, TLAPS

(***************************************************************************)
(* delete+insert is two commits: two runs that overlap may both delete and  *)
(* then both insert.  What is said of the rows needs one or the other.      *)
(***************************************************************************)
OneCommitOrOneRun == "delete+insert" \notin Strategies \/ ~Overlap

\* A table's schema changes once; other than that its columns only get comments.
Grows(a, b) ==
  /\ a.schema = "new" => b.schema = "new"
  /\ a.schema = b.schema =>
       \A c \in Columns :
         \/ b.columns[c] = a.columns[c]
         \/ a.columns[c] = "plain" /\ b.columns[c] = "described"

\* A table somebody loaded: what it says of the snapshot the table still has, and
\* of its columns.
Consistent(b) ==
  /\ b.snapshot <= snapshots
  /\ b.snapshot = table.snapshot => b.copies = table.copies /\ b.others = table.others
  /\ Grows(b, table)

\* What a data commit does to the rows of the table it was computed from.
Change(q) ==
  \/ q.after.copies = 1 /\ q.after.others \in {0, q.base.others}
  \/ q.after.copies = q.base.copies /\ q.after.others = q.base.others
  \/ /\ q.after.copies = 0 /\ q.after.others = q.base.others
     /\ strategy = "delete+insert"

\* A commit on its way to the server.
CommitInv(q) ==
  /\ q \in Request /\ q.stage # "none"
  /\ q.base \in Table /\ q.after \in Table /\ Consistent(q.base)
  /\ q.stage = "write" => q.after.partitioned = Partitioned
  /\ q.stage = "write" /\ OneCommitOrOneRun => Change(q)
  /\ Grows(q.base, q.after)
  /\ q.stage = "comment" => q.after.columns # q.base.columns
  /\ Exists

Checked(r) == stage[r] \in {"evolve", "write"} /\ operation[r] \notin {"replace", "fill"}

\* Where a run is: what it has cached, and what it is going to commit.
PlaceInv(r) ==
  /\ Sent(r) => request[r].stage = stage[r] /\ CommitInv(request[r])
  /\ \A t \in {cached[r], compared[r]} : t # NoTable => Exists /\ Consistent(t)
  /\ stage[r] \in {"increment", "evolve", "write", "comment"} => Exists
  /\ stage[r] \in {"publish", "create", "increment"} => cached[r] = NoTable /\ batch[r]
  /\ stage[r] = "increment" => strategy # "table"
  /\ stage[r] = "create" => operation[r] = "fill"
  /\ stage[r] = "evolve" => operation[r] = "merge"
  /\ stage[r] = "write" /\ operation[r] \in {"delete", "insert"} =>
       strategy = "delete+insert"

\* What set_comments decided before its first attempt, and what it asks for.
CommentInv(r) ==
  /\ compared[r] # NoTable => stage[r] = "comment"
  /\ compared[r] # NoTable /\ ~Sent(r) => cached[r] = NoTable
  /\ stage[r] = "comment" /\ Sent(r) =>
       /\ compared[r] # NoTable
       /\ \A c \in Columns :
            compared[r].columns[c] = "plain" => request[r].after.columns[c] = "described"

\* The partitions the run checked are those its commit will find.
PartitionInv(r) ==
  Checked(r) =>
    /\ table.partitioned = Partitioned
    /\ cached[r] # NoTable => cached[r].partitioned = Partitioned

\* An increment is computed from the table it is added to.
IncrementInv(r) ==
  /\ stage[r] = "write" /\ operation[r] \in {"append", "fill"} =>
       cached[r] # NoTable /\ (batch[r] => cached[r].copies = 0)
  /\ stage[r] = "write" /\ operation[r] = "delete" /\ Sent(r) => request[r].after.copies = 0
  /\ stage[r] = "write" /\ operation[r] = "insert" /\ batch[r] /\ ~Sent(r)
       /\ OneCommitOrOneRun =>
       /\ cached[r] = NoTable /\ table.copies = 0
       /\ \A q \in late : q.stage = "write" => q.base.snapshot # table.snapshot

WrittenInv(r) == stage[r] \in {"comment", "done"} => written[r] \/ NothingToWrite(r)

RunInv(r) ==
  PlaceInv(r) /\ CommentInv(r) /\ PartitionInv(r) /\ IncrementInv(r) /\ WrittenInv(r)

TableInv ==
  /\ table.snapshot <= snapshots
  /\ OneCommitOrOneRun => table.copies <= 1
  /\ ~Overlap => \A r, s \in Runs : ~Resting(r) /\ ~Resting(s) => r = s

IInv ==
  /\ TypeOK
  /\ TableInv
  /\ \A q \in late : CommitInv(q)
  /\ \A r \in Runs : RunInv(r)

-----------------------------------------------------------------------------
\* The fields of a loaded table; a table that exists is none but a table.
LEMMA TableFields ==
  ASSUME NEW t \in Table \cup {NoTable}
  PROVE  /\ t.snapshot \in Nat /\ t.copies \in Nat /\ t.others \in Nat
         /\ t.partitioned \in BOOLEAN /\ t.columns \in ColumnFunctions
         /\ t # NoTable <=> t \in Table
<1>1. NoTable.schema \notin {"old", "new"}
  BY DEF NoTable
<1>2. ASSUME t \in Table
      PROVE  /\ t.snapshot \in Nat /\ t.copies \in Nat /\ t.others \in Nat
             /\ t.partitioned \in BOOLEAN /\ t.columns \in ColumnFunctions /\ t # NoTable
  BY <1>1, <1>2 DEF Table
<1>3. /\ NoTable.snapshot \in Nat /\ NoTable.copies \in Nat /\ NoTable.others \in Nat
      /\ NoTable.partitioned \in BOOLEAN /\ NoTable.columns \in ColumnFunctions
  BY DEF NoTable, ColumnFunctions
<1>4. CASE t \in Table
  BY <1>2, <1>4
<1>5. CASE t = NoTable
  <2>1. t \notin Table
    BY <1>2, <1>5
  <2>2. /\ t.snapshot \in Nat /\ t.copies \in Nat /\ t.others \in Nat
        /\ t.partitioned \in BOOLEAN /\ t.columns \in ColumnFunctions
    BY <1>3, <1>5
  <2> QED
    BY <1>5, <2>1, <2>2
<1> QED
  BY <1>4, <1>5

LEMMA TypesOfTable ==
  ASSUME IInv
  PROVE  /\ table.snapshot \in Nat /\ table.copies \in Nat /\ table.others \in Nat
         /\ table.partitioned \in BOOLEAN /\ table.columns \in ColumnFunctions
         /\ snapshots \in Nat /\ table \in Table \cup {NoTable}
         /\ Exists <=> table \in Table
  BY TableFields DEF IInv, TypeOK, Exists

\* Changes of a schema add up.
LEMMA GrowsTwice ==
  ASSUME NEW a \in Table, NEW b \in Table, NEW c \in Table, Grows(a, b), Grows(b, c)
  PROVE  Grows(a, c)
<1>1. a.schema = c.schema => a.schema = b.schema /\ b.schema = c.schema
  BY DEF Grows, Table
<1> QED
  BY <1>1 DEF Grows

\* A table is what it is.
LEMMA GrowsNot == ASSUME NEW a PROVE Grows(a, a)
  BY DEF Grows

(***************************************************************************)
(* What a step may do to the table: leave its snapshot, with the rows, or   *)
(* give it a new one; and its columns only change as Grows says.            *)
(***************************************************************************)
SameSnapshot ==
  /\ snapshots' = snapshots
  /\ table'.snapshot = table.snapshot
  /\ table'.copies = table.copies /\ table'.others = table.others
  /\ table'.partitioned = table.partitioned

NewSnapshot ==
  /\ snapshots' = snapshots + 1
  /\ table'.snapshot = snapshots + 1
  /\ table'.partitioned \in {table.partitioned, Partitioned}

TableStep ==
  /\ strategy' = strategy
  /\ SameSnapshot \/ NewSnapshot
  /\ Exists => Exists' /\ table' \in Table /\ Grows(table, table')

LEMMA ConsistencyKept ==
  ASSUME IInv, TableStep, Exists, NEW b \in Table, Consistent(b)
  PROVE  Consistent(b)'
<1>1. Grows(b, table')
  BY TypesOfTable, GrowsTwice DEF TableStep, Consistent
<1>2. b.snapshot \in Nat
  BY TableFields
<1>3. CASE SameSnapshot
  BY <1>1, <1>3 DEF SameSnapshot, Consistent, Grows
<1>4. CASE NewSnapshot
  BY <1>1, <1>2, <1>4, TypesOfTable DEF NewSnapshot, Consistent, Grows
<1> QED
  BY <1>3, <1>4 DEF TableStep

LEMMA CommitKept ==
  ASSUME IInv, TableStep, NEW q, CommitInv(q)
  PROVE  CommitInv(q)'
<1>1. q.base \in Table /\ Exists
  BY DEF CommitInv
<1>2. Consistent(q.base)'
  BY <1>1, ConsistencyKept DEF CommitInv
<1> QED
  BY <1>2 DEF CommitInv, TableStep, Change, OneCommitOrOneRun, Grows

\* A run that the step does not touch.
Untouched(u) ==
  /\ stage'[u] = stage[u] /\ cached'[u] = cached[u] /\ operation'[u] = operation[u]
  /\ batch'[u] = batch[u] /\ request'[u] = request[u] /\ written'[u] = written[u]
  /\ compared'[u] = compared[u]

\* A run that is about to insert keeps finding what its delete left.
InsertionSafe(u) ==
  stage[u] = "write" /\ operation[u] = "insert" /\ batch[u] /\ ~Sent(u) /\ OneCommitOrOneRun =>
    /\ table'.copies = table.copies
    /\ \A q \in late' : q.stage = "write" => q.base.snapshot # table'.snapshot

LEMMA UntouchedRun ==
  ASSUME IInv, TableStep, NEW u \in Runs, Untouched(u), InsertionSafe(u)
  PROVE  RunInv(u)'
<1>1. /\ RunInv(u) /\ cached[u] \in Table \cup {NoTable}
      /\ compared[u] \in Table \cup {NoTable}
  BY DEF IInv, TypeOK
<1>2. /\ Sent(u)' <=> Sent(u)
      /\ OneCommitOrOneRun' <=> OneCommitOrOneRun
      /\ Exists => Exists'
      /\ strategy' = strategy
  BY DEF Untouched, Sent, OneCommitOrOneRun, TableStep
<1>3. PlaceInv(u)'
  <2>1. ASSUME Sent(u) PROVE CommitInv(request[u])'
    <3>1. CommitInv(request[u])
      BY <1>1, <2>1 DEF RunInv, PlaceInv
    <3>2. request'[u] = request[u]
      BY DEF Untouched
    <3> QED
      BY <3>1, <3>2, CommitKept DEF CommitInv, Consistent, Change, Grows
  <2>2. ASSUME NEW t \in {cached[u], compared[u]}, t # NoTable
        PROVE  Exists' /\ Consistent(t)'
    <3>1. t \in Table /\ Exists /\ Consistent(t)
      BY <1>1, <2>2 DEF RunInv, PlaceInv
    <3> QED
      BY <1>2, <3>1, ConsistencyKept
  <2> QED
    BY <1>1, <1>2, <2>1, <2>2 DEF RunInv, PlaceInv, Untouched
<1>4. PartitionInv(u)'
  <2>1. table.partitioned = Partitioned => table'.partitioned = Partitioned
    BY DEF TableStep, SameSnapshot, NewSnapshot
  <2> QED
    BY <1>1, <2>1 DEF RunInv, PartitionInv, Checked, Untouched
<1>5. IncrementInv(u)'
  BY <1>1, <1>2 DEF RunInv, IncrementInv, InsertionSafe, Untouched
<1>6. WrittenInv(u)' /\ CommentInv(u)'
  BY <1>1, <1>2 DEF RunInv, WrittenInv, CommentInv, NothingToWrite, Untouched
<1> QED
  BY <1>3, <1>4, <1>5, <1>6 DEF RunInv

\* Where no other run works: none is about to insert.
LEMMA NobodyInserts ==
  ASSUME IInv, NEW r \in Runs, NEW u \in Runs \ {r}, ~Resting(r)
  PROVE  ~(stage[u] = "write" /\ operation[u] = "insert" /\ OneCommitOrOneRun)
<1> SUFFICES ASSUME stage[u] = "write", operation[u] = "insert", OneCommitOrOneRun
             PROVE  FALSE
  OBVIOUS
<1>1. strategy = "delete+insert" /\ strategy \in Strategies
  BY DEF IInv, RunInv, PlaceInv, TypeOK
<1>2. ~Resting(u)
  BY DEF Resting
<1> QED
  BY <1>1, <1>2 DEF OneCommitOrOneRun, IInv, TableInv

\* The step of a run that leaves the table alone leaves the others theirs.
LEMMA TableAlone ==
  ASSUME IInv, UNCHANGED <<strategy, table, snapshots>>
  PROVE  /\ TableStep /\ SameSnapshot
         /\ \A q \in late : CommitInv(q)'
<1>1. TableStep /\ SameSnapshot
  BY TypesOfTable, GrowsNot DEF TableStep, SameSnapshot, Exists
<1> QED
  BY <1>1, CommitKept DEF IInv

(***************************************************************************)
(* A commit that the server accepts gives the table a new snapshot made     *)
(* from the one it had, or changes the schema of the one it has.            *)
(***************************************************************************)
LEMMA Landing ==
  ASSUME IInv, NEW q, CommitInv(q), Valid(q), Land(q), strategy' = strategy
  PROVE  /\ table' \in Table /\ snapshots' \in Nat /\ Exists' /\ TableStep
         /\ table' = Updated(q)
         /\ q.stage # "write" => SameSnapshot
         /\ q.stage = "write" => NewSnapshot /\ table'.partitioned = Partitioned
         /\ q.stage = "write" => /\ table'.copies = q.after.copies
                                 /\ table'.others = q.after.others
                                 /\ q.base.copies = table.copies
                                 /\ q.base.others = table.others
         /\ q.stage = "comment" => table'.columns = q.after.columns
         /\ OneCommitOrOneRun => table'.copies <= 1
<1> DEFINE t == IF SchemaOf(q.after) = SchemaOf(q.base) THEN table
                ELSE [table EXCEPT !.schema = q.after.schema, !.columns = q.after.columns]
<1>1. table \in Table /\ q.base \in Table /\ q.after \in Table
  BY TypesOfTable DEF CommitInv
<1>2. table' = Updated(q)
  BY DEF Land
<1>3. /\ t \in Table /\ t.snapshot = table.snapshot /\ t.copies = table.copies
      /\ t.others = table.others /\ t.partitioned = table.partitioned
  BY <1>1 DEF Table
<1>4. q.stage = "comment" => t.columns = q.after.columns
  BY <1>1 DEF CommitInv, SchemaOf, Table
<1>5. Grows(table, t)
  <2>1. CASE SchemaOf(q.after) = SchemaOf(q.base)
    BY <2>1, GrowsNot
  <2>2. CASE SchemaOf(q.after) # SchemaOf(q.base)
    <3>1. /\ table.schema = q.base.schema /\ table.columns = q.base.columns
          /\ t.schema = q.after.schema /\ t.columns = q.after.columns
      BY <1>1, <2>2 DEF Valid, SchemaOf, Table
    <3> QED
      BY <3>1 DEF CommitInv, Grows
  <2> QED
    BY <2>1, <2>2
<1> HIDE DEF t
<1>6. CASE q.stage # "write"
  <2>1. table' = t /\ snapshots' = snapshots
    BY <1>2, <1>6 DEF t, Updated, Land
  <2>3. SameSnapshot
    BY <1>3, <2>1 DEF SameSnapshot
  <2>4. Exists'
    BY <1>3, <2>1, TableFields DEF Exists
  <2>5. OneCommitOrOneRun => table'.copies <= 1
    BY <2>3 DEF IInv, TableInv, SameSnapshot
  <2> QED
    BY <1>2, <1>3, <1>4, <1>5, <1>6, <2>1, <2>3, <2>4, <2>5, TypesOfTable DEF TableStep
<1>7. CASE q.stage = "write"
  <2>1. /\ snapshots' = snapshots + 1
        /\ table' = [t EXCEPT !.snapshot = snapshots + 1, !.copies = q.after.copies,
                              !.others = q.after.others, !.partitioned = q.after.partitioned]
    BY <1>2, <1>7 DEF t, Updated, Land
  <2>2. /\ table' \in Table /\ table'.snapshot = snapshots + 1
        /\ table'.copies = q.after.copies /\ table'.others = q.after.others
        /\ table'.partitioned = q.after.partitioned
        /\ table'.schema = t.schema /\ table'.columns = t.columns
    <3>1. /\ q.after.copies \in Nat /\ q.after.others \in Nat
          /\ q.after.partitioned \in BOOLEAN /\ snapshots + 1 \in Nat
      BY <1>1, TableFields, TypesOfTable
    <3> QED
      BY <1>3, <2>1, <3>1 DEF Table
  <2>3. Exists'
    BY <2>2, TableFields DEF Exists
  <2>4. NewSnapshot /\ table'.partitioned = Partitioned
    BY <1>7, <2>1, <2>2 DEF NewSnapshot, CommitInv
  <2>5. q.base.copies = table.copies /\ q.base.others = table.others
    BY <1>7 DEF Valid, CommitInv, Consistent
  <2>6. ASSUME OneCommitOrOneRun PROVE table'.copies <= 1
    BY <1>7, <2>2, <2>5, <2>6, TypesOfTable DEF CommitInv, Change, IInv, TableInv
  <2>7. Grows(table, table')
    BY <1>5, <2>2 DEF Grows
  <2> QED
    BY <1>2, <1>7, <2>1, <2>2, <2>3, <2>4, <2>5, <2>6, <2>7, TypesOfTable DEF TableStep
<1> QED
  BY <1>6, <1>7

(***************************************************************************)
(* A step of run r preserves the invariant when it keeps the commits under  *)
(* way and the run's own part of it.                                        *)
(***************************************************************************)
LEMMA RunStep ==
  ASSUME IInv, NEW r \in Runs, \A u \in Runs \ {r} : Untouched(u),
         ~Resting(r) \/ (Overlap \/ \A s \in Runs : Resting(s)),
         TypeOK', TableStep, table'.snapshot <= snapshots',
         OneCommitOrOneRun => table'.copies <= 1,
         \A q \in late' : CommitInv(q)',
         RunInv(r)'
  PROVE  IInv'
<1>1. ASSUME NEW u \in Runs \ {r}
      PROVE  RunInv(u)'
  <2>1. InsertionSafe(u)
    <3> SUFFICES ASSUME stage[u] = "write", operation[u] = "insert", OneCommitOrOneRun
                 PROVE  FALSE
      BY DEF InsertionSafe
    <3>1. Resting(r)
      BY NobodyInserts
    <3>2. strategy = "delete+insert" /\ strategy \in Strategies
      BY DEF IInv, RunInv, PlaceInv, TypeOK
    <3> QED
      BY <3>1, <3>2 DEF OneCommitOrOneRun, Resting
  <2> QED
    BY <2>1, UntouchedRun
<1>2. TableInv'
  <2>1. ~Overlap => \A u, v \in Runs : ~Resting(u)' /\ ~Resting(v)' => u = v
    BY DEF IInv, TableInv, Resting, Untouched
  <2> QED
    BY <2>1 DEF TableInv, OneCommitOrOneRun
<1> QED
  BY <1>1, <1>2 DEF IInv

LEMMA LocalStep ==
  ASSUME IInv, NEW r \in Runs, \A u \in Runs \ {r} : Untouched(u),
         ~Resting(r) \/ (Overlap \/ \A s \in Runs : Resting(s)),
         UNCHANGED Server, TypeOK', RunInv(r)'
  PROVE  IInv'
<1>1. TableStep /\ \A q \in late' : CommitInv(q)'
  BY TableAlone DEF Server
<1>2. table'.snapshot <= snapshots' /\ (OneCommitOrOneRun => table'.copies <= 1)
  BY DEF IInv, TableInv, Server
<1> QED
  BY <1>1, <1>2, RunStep

\* What holds of a run before its step.
LEMMA RunFacts ==
  ASSUME IInv, NEW r \in Runs
  PROVE  /\ TypeOK
         /\ PlaceInv(r) /\ PartitionInv(r) /\ IncrementInv(r) /\ WrittenInv(r)
         /\ CommentInv(r) /\ compared[r] \in Table \cup {NoTable}
         /\ cached[r] \in Table \cup {NoTable} /\ request[r] \in Request
         /\ Loaded(r) \in Table \cup {NoTable}
         /\ stage[r] \in {"increment", "evolve", "write", "comment"} =>
              Loaded(r) \in Table /\ Loaded(r) # NoTable /\ Consistent(Loaded(r))
<1>1. /\ TypeOK /\ TableInv
      /\ PlaceInv(r) /\ PartitionInv(r) /\ IncrementInv(r) /\ WrittenInv(r)
      /\ CommentInv(r) /\ compared[r] \in Table \cup {NoTable}
      /\ cached[r] \in Table \cup {NoTable} /\ request[r] \in Request
  BY DEF IInv, RunInv, TypeOK
<1>2. Loaded(r) \in Table \cup {NoTable}
  BY <1>1 DEF Loaded, TypeOK
<1>3. Consistent(table)
  BY <1>1, GrowsNot DEF Consistent, TableInv
<1>4. ASSUME stage[r] \in {"increment", "evolve", "write", "comment"}
      PROVE  Loaded(r) # NoTable /\ Consistent(Loaded(r))
  BY <1>1, <1>3, <1>4 DEF PlaceInv, Loaded, Exists
<1> QED
  BY <1>1, <1>2, <1>4

-----------------------------------------------------------------------------
\* Outside set_comments nothing is compared.
LEMMA NothingCompared ==
  ASSUME IInv, NEW r \in Runs, compared'[r] = NoTable, stage'[r] # "comment" \/ ~Sent(r)'
  PROVE  CommentInv(r)'
  BY DEF CommentInv

(***************************************************************************)
(* One lemma per action.                                                    *)
(***************************************************************************)
LEMMA BeginStep ==
  ASSUME IInv, NEW r \in Runs, NEW f \in BOOLEAN, Begin(r, f)
  PROVE  IInv'
<1> USE DEF Begin, GoTo, Cache
<1>1. \A u \in Runs \ {r} : Untouched(u)
  BY RunFacts DEF Untouched, TypeOK
<1>2. TypeOK'
  BY RunFacts DEF TypeOK, Stages, Server, COMMIT_ATTEMPTS
<1>3. /\ stage'[r] \in {"publish", "increment"} /\ cached'[r] = NoTable /\ batch'[r]
      /\ compared'[r] = NoTable
      /\ stage'[r] = "increment" => Exists /\ strategy # "table"
      /\ strategy' = strategy /\ request' = request /\ operation' = operation
  BY RunFacts DEF TypeOK, Server, CommentInv, Resting
<1>4. ~Sent(r)'
  BY <1>3, RunFacts DEF Sent, PlaceInv, Resting, CommitInv, Request
<1>5. Exists' <=> Exists
  BY DEF Exists, Server
<1>6. RunInv(r)'
  BY <1>3, <1>4, <1>5, NothingCompared
     DEF RunInv, PlaceInv, PartitionInv, IncrementInv, WrittenInv, Checked
<1> QED
  BY <1>1, <1>2, <1>6, LocalStep

LEMMA PublishStep ==
  ASSUME IInv, NEW r \in Runs, Publish(r)
  PROVE  IInv'
<1> USE DEF Publish, GoTo, At
<1>1. \A u \in Runs \ {r} : Untouched(u)
  BY RunFacts DEF Untouched, TypeOK
<1>2. TypeOK'
  BY RunFacts DEF TypeOK, Stages, DataOperations, Server, COMMIT_ATTEMPTS
<1>3. /\ cached'[r] = NoTable /\ batch'[r] /\ ~Sent(r)' /\ ~Resting(r)
      /\ compared'[r] = NoTable
      /\ \/ stage'[r] = "write" /\ operation'[r] = "replace" /\ Exists'
         \/ stage'[r] = "create" /\ operation'[r] = "fill"
  BY RunFacts DEF PlaceInv, CommentInv, TypeOK, Resting, Sent, Server, Exists
<1>4. RunInv(r)'
  BY <1>3, NothingCompared DEF RunInv, PlaceInv, PartitionInv, IncrementInv, WrittenInv, Checked
<1> QED
  BY <1>1, <1>2, <1>3, <1>4, LocalStep

\* The table appears empty, without a snapshot, and with it the run's cached one.
LEMMA CreateTableStep ==
  ASSUME IInv, NEW r \in Runs, CreateTable(r)
  PROVE  IInv'
<1> USE DEF CreateTable, GoTo, Cache, At
<1>1. \A u \in Runs \ {r} : Untouched(u)
  BY RunFacts DEF Untouched, TypeOK
<1>2. /\ ~Resting(r) /\ ~Sent(r) /\ ~Sent(r)' /\ operation'[r] = "fill" /\ batch'[r]
      /\ compared'[r] = NoTable
  BY RunFacts DEF PlaceInv, CommentInv, TypeOK, Resting, Sent
<1>3. CASE Exists
  <2>1. UNCHANGED Server /\ stage'[r] = "failed" /\ cached' = cached
    BY <1>3, RunFacts DEF Server, TypeOK
  <2>2. TypeOK'
    BY <1>3, RunFacts DEF TypeOK, Stages, COMMIT_ATTEMPTS
  <2>3. RunInv(r)'
    BY <1>2, <2>1, RunFacts, NothingCompared
       DEF RunInv, PlaceInv, PartitionInv, IncrementInv, WrittenInv, Checked
  <2> QED
    BY <1>1, <1>2, <2>1, <2>2, <2>3, LocalStep
<1>4. CASE ~Exists
  <2>1. /\ table = NoTable /\ table' = EmptyTable /\ EmptyTable \in Table
        /\ EmptyTable.snapshot = NoTable.snapshot /\ EmptyTable.copies = NoTable.copies
        /\ EmptyTable.others = NoTable.others
        /\ EmptyTable.partitioned = NoTable.partitioned /\ EmptyTable.copies = 0
    BY <1>4 DEF Exists, EmptyTable, NoTable, Table, ColumnFunctions
  <2>2. Exists' /\ EmptyTable # NoTable
    BY <2>1, TableFields DEF Exists
  <2>3. TableStep
    BY <1>4, <2>1, <2>2 DEF TableStep, SameSnapshot
  <2>4. \A q \in late' : CommitInv(q)'
    BY <2>3, CommitKept DEF IInv
  <2>5. /\ stage'[r] = "write" /\ cached'[r] = EmptyTable
        /\ table'.snapshot <= snapshots' /\ table'.copies = 0
    BY <1>4, <2>1, RunFacts DEF TypeOK, IInv, TableInv
  <2>6. TypeOK'
    BY <1>4, <2>1, RunFacts DEF TypeOK, Stages, COMMIT_ATTEMPTS
  <2>7. Consistent(cached[r])'
    <3>1. /\ Grows(EmptyTable, EmptyTable) /\ table' = EmptyTable
          /\ cached'[r] = EmptyTable /\ EmptyTable.snapshot <= snapshots'
      BY <2>1, <2>5, GrowsNot
    <3> QED
      BY <3>1 DEF Consistent, Grows
  <2>8. RunInv(r)'
    BY <1>2, <2>1, <2>2, <2>5, <2>7, NothingCompared
       DEF RunInv, PlaceInv, PartitionInv, IncrementInv, WrittenInv, Checked
  <2> QED
    BY <1>1, <1>2, <2>3, <2>4, <2>5, <2>6, <2>8, RunStep
<1> QED
  BY <1>3, <1>4

LEMMA PrepareStep ==
  ASSUME IInv, NEW r \in Runs, Prepare(r)
  PROVE  IInv'
<1> USE DEF Prepare, GoTo, Cache, At
<1>1. \A u \in Runs \ {r} : Untouched(u)
  BY RunFacts DEF Untouched, TypeOK
<1>2. /\ stage[r] = "increment" /\ ~Resting(r) /\ ~Sent(r) /\ ~Sent(r)'
      /\ cached[r] = NoTable /\ Loaded(r) = table /\ Exists /\ Exists'
      /\ cached'[r] = table /\ Consistent(table) /\ UNCHANGED Server
      /\ compared'[r] = NoTable
  BY RunFacts DEF PlaceInv, CommentInv, TypeOK, Resting, Sent, Loaded, Server, Exists
<1>3. Consistent(cached[r])'
  BY <1>2 DEF Consistent, Server, Grows
<1>4. CASE ~SamePartitioning(table)
  <2>1. stage'[r] = "failed" /\ TypeOK'
    BY <1>2, <1>4, RunFacts DEF TypeOK, Stages, Server, COMMIT_ATTEMPTS
  <2>2. RunInv(r)'
    BY <1>2, <1>3, <2>1, NothingCompared
       DEF RunInv, PlaceInv, PartitionInv, IncrementInv, WrittenInv, Checked
  <2> QED
    BY <1>1, <1>2, <2>1, <2>2, LocalStep
<1>5. CASE SamePartitioning(table)
  <2>1. PICK b \in BOOLEAN :
          /\ strategy = "append" => b = (table.copies = 0)
          /\ batch' = [batch EXCEPT ![r] = b]
    BY <1>2, <1>5
  <2>2. /\ operation' = [operation EXCEPT ![r] = FirstOperation]
        /\ FirstOperation \in {"merge", "delete", "append"}
        /\ FirstOperation = "merge" <=> strategy = "merge"
        /\ FirstOperation = "delete" <=> strategy = "delete+insert"
    BY <1>2, <1>5 DEF FirstOperation
  <2>3. TypeOK'
    BY <1>2, <2>1, <2>2, <1>5, RunFacts
       DEF TypeOK, Stages, DataOperations, Server, COMMIT_ATTEMPTS
  <2>4. /\ batch'[r] = b /\ operation'[r] = FirstOperation
        /\ stage'[r] \in {"evolve", "write"}
        /\ stage'[r] = "evolve" => strategy = "merge"
        /\ table'.partitioned = Partitioned
    BY <1>2, <1>5, <2>1, <2>2, RunFacts DEF TypeOK, SamePartitioning, Server
  <2>5. PlaceInv(r)'
    BY <1>2, <1>3, <2>2, <2>4 DEF PlaceInv, Server
  <2>6. PartitionInv(r)' /\ WrittenInv(r)'
    BY <1>2, <2>4 DEF PartitionInv, WrittenInv, Checked, Server
  <2>7. IncrementInv(r)'
    <3>1. FirstOperation = "append" => strategy = "append"
      BY <1>2, <2>2, RunFacts, StrategiesAreKnown DEF TypeOK, AllStrategies, PlaceInv
    <3> QED
      BY <1>2, <2>1, <2>2, <2>4, <3>1 DEF IncrementInv, Exists
  <2>8. CommentInv(r)'
    BY <1>2, NothingCompared
  <2> QED
    BY <1>1, <1>2, <2>3, <2>5, <2>6, <2>7, <2>8, LocalStep DEF RunInv
<1> QED
  BY <1>4, <1>5

\* A step that is done leaves the run at the next one.
LEMMA StepDoneTypes ==
  ASSUME TypeOK, NEW r \in Runs, StepDone(r)
  PROVE  /\ stage' \in [Runs -> Stages] /\ operation' \in [Runs -> DataOperations]
         /\ attempt' \in [Runs -> 1..COMMIT_ATTEMPTS]
         /\ stage'[r] = StageAfter(r) /\ operation'[r] = OperationAfter(r)
         /\ \A u \in Runs \ {r} : stage'[u] = stage[u] /\ operation'[u] = operation[u]
         /\ compared' \in [Runs -> Table \cup {NoTable}] /\ compared'[r] = NoTable
         /\ \A u \in Runs \ {r} : compared'[u] = compared[u]
         /\ StageAfter(r) \in {"write", "comment", "done"}
<1>1. StageAfter(r) \in {"write", "comment", "done"}
  BY DEF StageAfter
<1>2. OperationAfter(r) \in DataOperations
  BY DEF OperationAfter, TypeOK, DataOperations
<1>3. 1 \in 1..COMMIT_ATTEMPTS
  BY DEF COMMIT_ATTEMPTS
<1> QED
  BY <1>1, <1>2, <1>3 DEF TypeOK, StepDone, Forget, GoTo, Stages

LEMMA SkipWriteStep ==
  ASSUME IInv, NEW r \in Runs, SkipWrite(r)
  PROVE  IInv'
<1> USE DEF SkipWrite, At
<1>1. \A u \in Runs \ {r} : Untouched(u)
  BY RunFacts, StepDoneTypes DEF Untouched, TypeOK
<1>2. TypeOK' /\ UNCHANGED Server /\ ~Resting(r) /\ ~Sent(r)' /\ compared'[r] = NoTable
  BY RunFacts, StepDoneTypes DEF TypeOK, Server, Resting, Sent
<1>3. /\ Exists' /\ cached' = cached /\ ~batch'[r] /\ stage[r] = "write"
      /\ cached[r] # NoTable => Consistent(cached[r])'
      /\ \/ operation[r] = "merge" /\ operation'[r] = "merge" /\ stage'[r] = "comment"
         \/ /\ operation[r] = "delete" /\ operation'[r] = "insert" /\ stage'[r] = "write"
            /\ strategy' = "delete+insert"
  <2>1. /\ Exists' /\ cached' = cached /\ ~batch'[r] /\ stage[r] = "write"
        /\ cached[r] # NoTable => Consistent(cached[r])'
        /\ operation[r] = "delete" => strategy' = "delete+insert"
    BY RunFacts DEF NothingToWrite, PlaceInv, Exists, Server, Consistent, Grows
  <2>2. /\ operation[r] \in {"merge", "delete"}
        /\ stage'[r] = StageAfter(r) /\ operation'[r] = OperationAfter(r)
    BY RunFacts, StepDoneTypes DEF NothingToWrite
  <2> QED
    BY <2>1, <2>2 DEF StageAfter, OperationAfter
<1>4. PlaceInv(r)'
  BY <1>2, <1>3 DEF PlaceInv
<1>5. PartitionInv(r)'
  BY <1>3, RunFacts DEF PartitionInv, Checked, Server
<1>6. IncrementInv(r)' /\ WrittenInv(r)' /\ CommentInv(r)'
  BY <1>2, <1>3, NothingCompared DEF IncrementInv, WrittenInv, NothingToWrite
<1> QED
  BY <1>1, <1>2, <1>4, <1>5, <1>6, LocalStep DEF RunInv

\* A data commit is computed from a table the run knows to be partitioned right,
\* and adds its increment to a table that does not have it.
LEMMA WriteStep ==
  ASSUME IInv, NEW r \in Runs, Write(r)
  PROVE  IInv'
<1> USE DEF At, Cache
<1>0. PICK base : base = Loaded(r)
  OBVIOUS
<1> DEFINE after(s) == [snapshot |-> 0, copies |-> CopiesAfter(r, base),
                        others |-> OthersAfter(r, base),
                        partitioned |-> PartitionedAfter(r, base),
                        schema |-> s[1], columns |-> s[2]]
<1>1. PICK s \in SchemasAfter(r, base) : Send(r, base, after(s))
  BY <1>0 DEF Write
<1>2. /\ stage[r] = "write" /\ ~Sent(r) /\ ~Resting(r) /\ Exists /\ Exists'
      /\ base \in Table /\ base # NoTable /\ Consistent(base) /\ Consistent(base)'
      /\ UNCHANGED Server
      /\ base = IF cached[r] # NoTable THEN cached[r] ELSE table
  <2>1. stage[r] = "write" /\ ~Sent(r) /\ ~Resting(r) /\ UNCHANGED Server
    BY DEF Write, Resting
  <2>2. Exists /\ base \in Table /\ base # NoTable /\ Consistent(base)
    BY <1>0, <2>1, RunFacts DEF PlaceInv
  <2>3. Exists' /\ Consistent(base)'
    BY <2>1, <2>2 DEF Exists, Server, Consistent, Grows
  <2> QED
    BY <1>0, <2>1, <2>2, <2>3 DEF Loaded
<1>3. /\ stage'[r] = "write" /\ operation'[r] = operation[r] /\ batch'[r] = batch[r]
      /\ compared'[r] = NoTable
      /\ cached'[r] = base
      /\ request'[r] = [stage |-> "write", base |-> base, after |-> after(s)]
      /\ \A u \in Runs \ {r} : request'[u] = request[u]
  BY <1>1, <1>2, RunFacts DEF Write, CommentInv, TypeOK, Send
<1>4. after(s) \in Table /\ Grows(base, after(s))
  <2>1. /\ base.copies \in Nat /\ base.others \in Nat /\ base.partitioned \in BOOLEAN
        /\ base.schema \in {"old", "new"} /\ base.columns \in ColumnFunctions
    BY <1>2, TableFields DEF Table
  <2>2. PICK a \in {"old", "new"}, f \in ColumnFunctions :
          /\ s = <<a, f>>
          /\ base.schema = "new" => a = "new"
          /\ base.schema = a => f = base.columns
    BY <1>1, <2>1 DEF SchemasAfter, SyncedColumns, UnitedColumns
  <2>7. after(s).schema = a /\ after(s).columns = f
    BY <2>2
  <2>3. CopiesAfter(r, base) \in Nat /\ OthersAfter(r, base) \in Nat
    BY <2>1 DEF CopiesAfter, OthersAfter
  <2>4. PartitionedAfter(r, base) \in BOOLEAN
    BY <2>1, OptionsAreBooleans DEF PartitionedAfter
  <2>5. after(s) \in Table
    BY <2>2, <2>3, <2>4 DEF Table
  <2>6. Grows(base, after(s))
    BY <2>2, <2>7 DEF Grows
  <2> QED
    BY <2>5, <2>6
<1>5. after(s).partitioned = Partitioned
  BY <1>2, RunFacts DEF PartitionInv, Checked, PartitionedAfter
<1>6. ASSUME OneCommitOrOneRun
      PROVE  Change(request'[r])
  <2>1. CASE operation[r] \in {"replace", "merge"}
    BY <1>3, <2>1 DEF Change, CopiesAfter, OthersAfter
  <2>2. CASE operation[r] = "delete"
    BY <1>2, <1>3, <2>2, RunFacts DEF Change, CopiesAfter, OthersAfter, PlaceInv
  <2>3. CASE operation[r] \in {"append", "fill", "insert"}
    <3>1. after(s).others = base.others
      BY <2>3 DEF OthersAfter
    <3>2. CASE batch[r]
      <4>1. base.copies = 0
        BY <1>2, <1>6, <2>3, <3>2, RunFacts DEF IncrementInv
      <4> QED
        BY <1>3, <2>3, <3>1, <3>2, <4>1 DEF Change, CopiesAfter
    <3>3. CASE ~batch[r]
      <4>1. base.copies \in Nat
        BY <1>2, TableFields
      <4> QED
        BY <1>3, <2>3, <3>1, <3>3, <4>1 DEF Change, CopiesAfter
    <3> QED
      BY <3>2, <3>3
  <2> QED
    BY <2>1, <2>2, <2>3, RunFacts DEF TypeOK, DataOperations
<1> HIDE DEF after
<1>7. request'[r] \in Request
  BY <1>2, <1>3, <1>4 DEF Request
<1>8. CommitInv(request[r])'
  BY <1>2, <1>3, <1>4, <1>5, <1>6, <1>7
     DEF CommitInv, Change, Consistent, OneCommitOrOneRun, Server, Grows
<1>9. /\ \A u \in Runs \ {r} : Untouched(u)
      /\ TypeOK'
  BY <1>2, <1>3, <1>7, RunFacts DEF Write, Untouched, TypeOK, Send, Server
<1>10. PlaceInv(r)' /\ PartitionInv(r)'
  <2>1. PlaceInv(r)'
    BY <1>2, <1>3, <1>8, RunFacts DEF PlaceInv, Server
  <2>2. PartitionInv(r)'
    BY <1>2, <1>3, RunFacts DEF PartitionInv, Checked, Server
  <2> QED
    BY <2>1, <2>2
<1>11. IncrementInv(r)'
  <2>1. operation[r] = "delete" => request'[r].after.copies = 0
    BY <1>3 DEF after, CopiesAfter
  <2>2. Sent(r)'
    BY <1>3 DEF Sent
  <2> QED
    BY <1>2, <1>3, <2>1, <2>2, RunFacts DEF IncrementInv
<1>12. WrittenInv(r)' /\ CommentInv(r)'
  BY <1>3, NothingCompared DEF WrittenInv
<1> QED
  BY <1>2, <1>9, <1>10, <1>11, <1>12, LocalStep DEF RunInv

(***************************************************************************)
(* A metadata commit changes the columns of a table the run loaded.         *)
(***************************************************************************)
LEMMA MetadataSent ==
  ASSUME IInv, NEW r \in Runs, stage[r] \in {"evolve", "comment"}, ~Sent(r),
         NEW after \in Table, Grows(Loaded(r), after),
         stage[r] = "comment" => after.columns # Loaded(r).columns,
         Send(r, Loaded(r), after), Cache(r, Loaded(r)),
         compared' \in [Runs -> Table \cup {NoTable}],
         \A u \in Runs \ {r} : compared'[u] = compared[u],
         compared'[r] # NoTable => Consistent(compared'[r]),
         CommentInv(r)',
         UNCHANGED <<Server, stage, operation, attempt, batch, written, bounds>>
  PROVE  IInv'
<1> USE DEF Cache, Send
<1>1. PICK base : base = Loaded(r)
  OBVIOUS
<1>2. /\ ~Resting(r) /\ Exists /\ base \in Table /\ base # NoTable /\ Consistent(base)
      /\ base = IF cached[r] # NoTable THEN cached[r] ELSE table
  BY <1>1, RunFacts DEF Resting, PlaceInv, Loaded
<1>3. /\ Exists' /\ Consistent(base)' /\ cached'[r] = base
      /\ compared'[r] # NoTable => Consistent(compared[r])'
      /\ cached' \in [Runs -> Table \cup {NoTable}]
      /\ \A u \in Runs \ {r} : cached'[u] = cached[u]
  BY <1>1, <1>2, RunFacts DEF Exists, Server, Consistent, Grows, TypeOK
<1>4. /\ request'[r] = [stage |-> stage[r], base |-> base, after |-> after]
      /\ \A u \in Runs \ {r} : request'[u] = request[u]
  BY <1>1, RunFacts DEF TypeOK
<1>5. request'[r] \in Request
  BY <1>2, <1>4 DEF Request
<1>6. CommitInv(request[r])'
  BY <1>1, <1>2, <1>3, <1>4, <1>5 DEF CommitInv, Consistent, Grows
<1>7. \A u \in Runs \ {r} : Untouched(u)
  BY <1>3, <1>4 DEF Untouched
<1>8. TypeOK'
  BY <1>3, <1>5, RunFacts DEF TypeOK, Server
<1>9. PlaceInv(r)'
  BY <1>2, <1>3, <1>4, <1>6, RunFacts DEF PlaceInv
<1>10. PartitionInv(r)' /\ WrittenInv(r)'
  BY <1>2, <1>3, RunFacts DEF PartitionInv, Checked, WrittenInv, NothingToWrite, Server
<1>11. IncrementInv(r)'
  BY DEF IncrementInv
<1> QED
  BY <1>2, <1>7, <1>8, <1>9, <1>10, <1>11, LocalStep DEF RunInv

\* A metadata step for which the loaded table needs no commit.
LEMMA MetadataThere ==
  ASSUME IInv, NEW r \in Runs, stage[r] \in {"evolve", "comment"}, ~Sent(r),
         StepDone(r), Cache(r, Loaded(r)),
         UNCHANGED <<Server, request, batch, written, bounds>>
  PROVE  IInv'
<1> USE DEF Cache
<1>1. PICK base : base = Loaded(r)
  OBVIOUS
<1>2. /\ ~Resting(r) /\ Exists /\ base \in Table /\ Consistent(base)
      /\ base = IF cached[r] # NoTable THEN cached[r] ELSE table
  BY <1>1, RunFacts DEF Resting, PlaceInv, Loaded
<1>3. /\ Exists' /\ Consistent(base)' /\ cached'[r] = base
      /\ cached' \in [Runs -> Table \cup {NoTable}]
      /\ \A u \in Runs \ {r} : cached'[u] = cached[u]
  BY <1>1, <1>2, RunFacts DEF Exists, Server, Consistent, Grows, TypeOK
<1>4. \A u \in Runs \ {r} : Untouched(u)
  BY <1>3, RunFacts, StepDoneTypes DEF Untouched
<1>5. TypeOK'
  BY <1>3, RunFacts, StepDoneTypes DEF TypeOK, Server
<1>6. /\ operation'[r] = operation[r] /\ ~Sent(r)' /\ compared'[r] = NoTable
      /\ stage[r] = "evolve" => stage'[r] = "write"
      /\ stage[r] = "comment" => stage'[r] = "done"
  BY RunFacts, StepDoneTypes DEF StageAfter, OperationAfter, Sent
<1>7. PlaceInv(r)' /\ WrittenInv(r)' /\ CommentInv(r)'
  BY <1>2, <1>3, <1>6, RunFacts, NothingCompared DEF PlaceInv, WrittenInv, NothingToWrite
<1>8. PartitionInv(r)'
  BY <1>2, <1>3, <1>6, RunFacts DEF PartitionInv, Checked, Server
<1>9. IncrementInv(r)'
  BY <1>6, RunFacts DEF IncrementInv, PlaceInv
<1> QED
  BY <1>2, <1>4, <1>5, <1>7, <1>8, <1>9, LocalStep DEF RunInv

LEMMA EvolveSchemaStep ==
  ASSUME IInv, NEW r \in Runs, EvolveSchema(r)
  PROVE  IInv'
<1>1. stage[r] = "evolve" /\ ~Sent(r) /\ Cache(r, Loaded(r)) /\ Loaded(r) \in Table
  BY RunFacts DEF EvolveSchema, At
<1>2. CASE StepDone(r) /\ UNCHANGED request
  BY <1>1, <1>2, MetadataThere DEF EvolveSchema
<1>3. ASSUME NEW f \in UnitedColumns(Loaded(r).columns), Loaded(r).schema = "old",
             Send(r, Loaded(r), [Loaded(r) EXCEPT !.schema = "new", !.columns = f]),
             UNCHANGED <<stage, operation, compared, attempt>>
      PROVE  IInv'
  <2>1. PICK after : after = [Loaded(r) EXCEPT !.schema = "new", !.columns = f]
    OBVIOUS
  <2>2. after \in Table /\ after.schema = "new"
    BY <1>1, <2>1 DEF Table, UnitedColumns
  <2>3. Grows(Loaded(r), after)
    BY <1>3, <2>2 DEF Grows
  <2>4. compared[r] = NoTable /\ compared \in [Runs -> Table \cup {NoTable}]
    BY <1>1, RunFacts DEF CommentInv, TypeOK
  <2>5. CommentInv(r)'
    BY <1>1, <1>3, <2>4, NothingCompared
  <2>6. UNCHANGED <<Server, batch, written, bounds>>
    BY DEF EvolveSchema
  <2> QED
    BY <1>1, <1>3, <2>1, <2>2, <2>3, <2>4, <2>5, <2>6, MetadataSent
<1> QED
  BY <1>2, <1>3 DEF EvolveSchema

\* What set_comments compared its comments with is a table that somebody loaded.
LEMMA ComparedFacts ==
  ASSUME IInv, NEW r \in Runs, stage[r] = "comment"
  PROVE  /\ Loaded(r) \in Table /\ Compared(r) \in Table /\ Compared(r) # NoTable
         /\ Exists /\ Consistent(Compared(r))
         /\ CommentsAfter(r, Loaded(r)) \in Table
         /\ CommentsAfter(r, Loaded(r)).schema = Loaded(r).schema
         /\ \A c \in Columns :
              CommentsAfter(r, Loaded(r)).columns[c] =
                IF Compared(r).columns[c] = "plain" THEN "described"
                ELSE Loaded(r).columns[c]
<1>1. /\ Loaded(r) \in Table /\ Exists /\ Consistent(Loaded(r)) /\ Loaded(r) # NoTable
      /\ compared[r] \in Table \cup {NoTable}
      /\ compared[r] # NoTable => Consistent(compared[r])
  BY RunFacts DEF PlaceInv
<1>2. Compared(r) \in Table /\ Compared(r) # NoTable /\ Consistent(Compared(r))
  BY <1>1 DEF Compared
<1>3. PICK f : f = [c \in Columns |-> IF c \in Changed(r) THEN "described"
                                      ELSE Loaded(r).columns[c]]
  OBVIOUS
<1>4. f \in ColumnFunctions
  BY <1>1, <1>3 DEF Table, ColumnFunctions
<1>5. CommentsAfter(r, Loaded(r)) = [Loaded(r) EXCEPT !.columns = f]
  BY <1>3 DEF CommentsAfter
<1>6. /\ CommentsAfter(r, Loaded(r)) \in Table
      /\ CommentsAfter(r, Loaded(r)).schema = Loaded(r).schema
      /\ CommentsAfter(r, Loaded(r)).columns = f
  BY <1>1, <1>4, <1>5 DEF Table
<1> QED
  BY <1>1, <1>2, <1>3, <1>6 DEF Changed

LEMMA SetCommentsStep ==
  ASSUME IInv, NEW r \in Runs, SetComments(r)
  PROVE  IInv'
<1>1. /\ stage[r] = "comment" /\ ~Sent(r) /\ ~Resting(r)
      /\ UNCHANGED <<Server, batch, written, bounds>>
  BY DEF SetComments, At, Resting
<1>2. CASE CommentsThere(r)
  BY <1>1, <1>2, MetadataThere DEF CommentsThere
<1>3. CASE CommentsSent(r)
  <2>1. PICK after : after = CommentsAfter(r, Loaded(r))
    OBVIOUS
  <2>2. /\ Loaded(r) \in Table /\ after \in Table /\ after.schema = Loaded(r).schema
        /\ \A c \in Columns :
             after.columns[c] = IF Compared(r).columns[c] = "plain" THEN "described"
                                ELSE Loaded(r).columns[c]
        /\ Compared(r) \in Table /\ Compared(r) # NoTable /\ Consistent(Compared(r))
    BY <1>1, <2>1, ComparedFacts
  <2>3. \A c \in Columns :
          Compared(r).columns[c] = "plain" =>
            Loaded(r).columns[c] \in {"plain", "described"}
    <3>1. \A c \in Columns :
            Compared(r).columns[c] = "plain" => Loaded(r).columns[c] # "absent"
      BY <1>3 DEF CommentsSent, ChangedColumnGone, Changed
    <3>2. \A c \in Columns : Loaded(r).columns[c] \in {"absent", "plain", "described"}
      BY <2>2 DEF Table, ColumnFunctions
    <3> QED
      BY <3>1, <3>2
  <2>4. Grows(Loaded(r), after)
    BY <2>2, <2>3 DEF Grows
  <2>5. after.columns # Loaded(r).columns
    <3>1. after # Loaded(r)
      BY <1>3, <2>1 DEF CommentsSent, NoUpdate
    <3>2. after = [Loaded(r) EXCEPT !.columns = after.columns]
      BY <2>1, <2>2 DEF CommentsAfter, Table
    <3> QED
      BY <2>2, <3>1, <3>2 DEF Table
  <2>6. /\ compared' \in [Runs -> Table \cup {NoTable}] /\ compared'[r] = Compared(r)
        /\ \A u \in Runs \ {r} : compared'[u] = compared[u]
    BY <1>3, <2>2, RunFacts DEF CommentsSent, TypeOK
  <2>7. CommentInv(r)'
    <3>1. request'[r] = [stage |-> stage[r], base |-> Loaded(r), after |-> after]
      BY <1>3, <2>1, RunFacts DEF CommentsSent, Send, TypeOK
    <3>2. Sent(r)' /\ stage'[r] = "comment"
      BY <1>1, <1>3, <3>1 DEF Sent, CommentsSent
    <3> QED
      BY <2>2, <2>6, <3>1, <3>2 DEF CommentInv
  <2> QED
    BY <1>1, <1>3, <2>1, <2>2, <2>4, <2>5, <2>6, <2>7, MetadataSent DEF CommentsSent
<1>4. CASE CommentsFail(r)
  <2> USE DEF CommentsFail, GoTo, Cache, Forget, StageAfterFailure
  <2>1. /\ \A u \in Runs \ {r} : Untouched(u)
        /\ TypeOK'
    BY <1>1, <1>4, RunFacts DEF Untouched, TypeOK, Stages, Server
  <2>2. /\ ~Sent(r)' /\ cached'[r] = NoTable /\ compared'[r] = NoTable
        /\ stage'[r] = "failed"
    BY <1>1, <1>4, RunFacts DEF Sent, TypeOK
  <2>3. RunInv(r)'
    BY <2>2, NothingCompared
       DEF RunInv, PlaceInv, PartitionInv, IncrementInv, WrittenInv, Checked
  <2> QED
    BY <1>1, <2>1, <2>3, LocalStep
<1> QED
  BY <1>2, <1>3, <1>4 DEF SetComments

\* A run whose commit is accepted goes on with the table that the commit made.
LEMMA AcceptStep ==
  ASSUME IInv, NEW r \in Runs, Accept(r)
  PROVE  IInv'
<1> USE DEF Cache
<1>1. PICK q : q = request[r]
  OBVIOUS
<1>2. /\ Sent(r) /\ Valid(q) /\ Land(q) /\ strategy' = strategy /\ StepDone(r)
      /\ late' = late /\ batch' = batch
  BY <1>1 DEF Accept
<1>3. /\ q.stage = stage[r] /\ CommitInv(q) /\ stage[r] \in {"evolve", "write", "comment"}
      /\ ~Resting(r)
  BY <1>1, <1>2, RunFacts DEF PlaceInv, CommitInv, Request, Resting
<1>4. /\ table' \in Table /\ snapshots' \in Nat /\ Exists' /\ TableStep
      /\ q.stage # "write" => SameSnapshot
      /\ q.stage = "write" => /\ NewSnapshot /\ table'.partitioned = Partitioned
                              /\ table'.copies = q.after.copies
      /\ OneCommitOrOneRun => table'.copies <= 1
      /\ table' = Updated(q)
  BY <1>2, <1>3, Landing
<1>5. table'.snapshot <= snapshots'
  BY <1>4, TypesOfTable DEF TableStep, SameSnapshot, NewSnapshot, IInv, TableInv
<1>6. \A c \in late' : CommitInv(c)'
  BY <1>2, <1>4, CommitKept DEF IInv
<1>7. /\ request' = [request EXCEPT ![r] = NoRequest] /\ NoRequest \in Request
      /\ written' \in [Runs -> BOOLEAN]
      /\ \A u \in Runs \ {r} : written'[u] = written[u]
      /\ written[r] \/ stage[r] = "write" => written'[r]
      /\ cached' = [cached EXCEPT ![r] = CachedAfterCommit(r)]
      /\ CachedAfterCommit(r) \in {NoTable, table'}
  BY <1>1, <1>3, <1>4, RunFacts
     DEF Accept, Answered, NoRequest, Request, TypeOK, CachedAfterCommit
<1>8. \A u \in Runs \ {r} : Untouched(u)
  BY <1>2, <1>7, RunFacts, StepDoneTypes DEF Untouched, TypeOK
<1>9. TypeOK'
  BY <1>2, <1>4, <1>7, RunFacts, StepDoneTypes DEF Accept, TypeOK
<1>10. /\ ~Sent(r)' /\ cached'[r] \in {NoTable, table'} /\ compared'[r] = NoTable
       /\ operation[r] = "delete" /\ stage[r] = "write" => cached'[r] = NoTable
  BY <1>1, <1>2, <1>3, <1>7, RunFacts, StepDoneTypes
     DEF Sent, NoRequest, TypeOK, CachedAfterCommit
<1>11. /\ stage[r] = "evolve" => /\ operation[r] = "merge" /\ operation'[r] = "merge"
                                 /\ stage'[r] = "write"
       /\ stage[r] = "write" /\ operation[r] = "delete" =>
            operation'[r] = "insert" /\ stage'[r] = "write" /\ strategy' = "delete+insert"
       /\ stage[r] = "write" /\ operation[r] # "delete" => stage'[r] = "comment"
       /\ stage[r] = "comment" => stage'[r] = "done" /\ operation'[r] = operation[r]
  <2>1. stage'[r] = StageAfter(r) /\ operation'[r] = OperationAfter(r)
    BY <1>2, RunFacts, StepDoneTypes
  <2>2. /\ stage[r] = "evolve" => operation[r] = "merge"
        /\ stage[r] = "write" /\ operation[r] = "delete" => strategy' = "delete+insert"
    BY <1>2, RunFacts DEF PlaceInv
  <2> QED
    BY <2>1, <2>2 DEF StageAfter, OperationAfter
<1>12. PlaceInv(r)'
  <2>1. Consistent(table)'
    BY <1>5, GrowsNot DEF Consistent, Grows
  <2>2. cached'[r] # NoTable => Consistent(cached[r])'
    BY <1>10, <2>1 DEF Consistent, Grows
  <2> QED
    BY <1>3, <1>4, <1>10, <1>11, <2>2 DEF PlaceInv
<1>13. PartitionInv(r)'
  BY <1>3, <1>4, <1>10, <1>11, RunFacts DEF PartitionInv, Checked, SameSnapshot
<1>14. IncrementInv(r)'
  <2>1. ASSUME stage[r] = "write", operation[r] = "delete"
        PROVE  /\ table'.copies = 0
               /\ \A c \in late' : c.stage = "write" => c.base.snapshot # table'.snapshot
    <3>1. table'.copies = 0
      BY <1>1, <1>2, <1>3, <1>4, <2>1, RunFacts DEF IncrementInv
    <3>2. ASSUME NEW c \in late'
          PROVE  c.base.snapshot # table'.snapshot
      <4>1. c.base \in Table /\ c.base.snapshot <= snapshots
        BY <1>2, <3>2 DEF IInv, CommitInv, Consistent
      <4>2. table'.snapshot = snapshots + 1
        BY <1>3, <1>4, <2>1 DEF NewSnapshot
      <4> QED
        BY <4>1, <4>2, TypesOfTable, TableFields
    <3> QED
      BY <3>1, <3>2
  <2> QED
    BY <1>3, <1>10, <1>11, <2>1 DEF IncrementInv
<1>15. WrittenInv(r)' /\ CommentInv(r)'
  BY <1>2, <1>3, <1>7, <1>10, <1>11, RunFacts, NothingCompared DEF WrittenInv, NothingToWrite
<1> QED
  BY <1>3, <1>4, <1>5, <1>6, <1>8, <1>9, <1>12, <1>13, <1>14, <1>15, RunStep DEF RunInv

\* The process learns that its commit failed: it starts from the table again, or ends.
LEMMA CommitRaisesStep ==
  ASSUME IInv, NEW r \in Runs, Sent(r), CommitRaises(r),
         late' \in {late, late \cup {request[r]}}
  PROVE  IInv'
<1> USE DEF CommitRaises, Cache, GoTo, Forget
<1>1. /\ stage[r] \in {"evolve", "write", "comment"} /\ ~Resting(r)
      /\ CommitInv(request[r]) /\ Exists
  BY RunFacts DEF PlaceInv, CommitInv, Request, Resting
<1>2. TableStep /\ table'.snapshot <= snapshots' /\ (OneCommitOrOneRun => table'.copies <= 1)
  BY TableAlone DEF IInv, TableInv
<1>3. \A c \in late' : CommitInv(c)'
  BY <1>1, <1>2, CommitKept DEF IInv
<1>4. NoRequest \in Request /\ request' = [request EXCEPT ![r] = NoRequest]
  BY DEF Answered, NoRequest, Request
<1>5. cached' = [cached EXCEPT ![r] = NoTable]
  BY DEF CachedAfterFailure
<1>6. /\ \/ stage'[r] = "failed" /\ compared'[r] = NoTable
         \/ /\ stage'[r] = stage[r] /\ stage[r] \in {"evolve", "comment"}
            /\ compared'[r] = compared[r]
      /\ compared' \in [Runs -> Table \cup {NoTable}]
      /\ \A u \in Runs \ {r} : compared'[u] = compared[u]
  BY <1>1, RunFacts DEF MayRetry, StageAfterFailure, TypeOK
<1>7. \A u \in Runs \ {r} : Untouched(u)
  BY <1>4, <1>5, <1>6, RunFacts DEF Untouched, TypeOK
<1>8. TypeOK'
  <2>1. late' \subseteq Request
    BY RunFacts DEF TypeOK
  <2>2. stage' \in [Runs -> Stages]
    BY RunFacts DEF TypeOK, Stages, StageAfterFailure
  <2>3. attempt' \in [Runs -> 1..COMMIT_ATTEMPTS]
    BY RunFacts DEF TypeOK, MayRetry, COMMIT_ATTEMPTS
  <2> QED
    BY <1>4, <1>5, <1>6, <2>1, <2>2, <2>3, RunFacts DEF TypeOK
<1>9. ~Sent(r)' /\ cached'[r] = NoTable /\ Exists'
  BY <1>1, <1>4, <1>5, RunFacts DEF Sent, NoRequest, TypeOK, Exists
<1>10. PlaceInv(r)' /\ CommentInv(r)'
  <2>1. compared'[r] # NoTable => Consistent(compared[r])'
    BY <1>6, RunFacts DEF PlaceInv, Consistent, Grows
  <2> QED
    BY <1>6, <1>9, <2>1, RunFacts DEF PlaceInv, CommentInv
<1>11. PartitionInv(r)' /\ IncrementInv(r)'
  BY <1>6, <1>9, RunFacts DEF PartitionInv, IncrementInv, Checked
<1>12. WrittenInv(r)'
  BY <1>6, RunFacts DEF WrittenInv, NothingToWrite
<1> QED
  BY <1>1, <1>2, <1>3, <1>7, <1>8, <1>10, <1>11, <1>12, RunStep DEF RunInv

\* A run that is killed leaves the commit it sent under way.
LEMMA CrashStep ==
  ASSUME IInv, NEW r \in Runs, Crash(r)
  PROVE  IInv'
<1> USE DEF Crash, Cache, GoTo, Forget
<1>1. TableStep /\ table'.snapshot <= snapshots' /\ (OneCommitOrOneRun => table'.copies <= 1)
  BY TableAlone DEF IInv, TableInv
<1>2. \A c \in late' : CommitInv(c)'
  BY <1>1, CommitKept, RunFacts DEF IInv, PlaceInv
<1>3. NoRequest \in Request /\ request' = [request EXCEPT ![r] = NoRequest]
  BY DEF Answered, NoRequest, Request
<1>4. \A u \in Runs \ {r} : Untouched(u)
  BY <1>3, RunFacts DEF Untouched, TypeOK
<1>5. TypeOK'
  BY <1>3, RunFacts DEF TypeOK, Stages
<1>6. /\ ~Sent(r)' /\ cached'[r] = NoTable /\ stage'[r] = "failed"
      /\ compared'[r] = NoTable
  BY <1>3, RunFacts DEF Sent, NoRequest, TypeOK
<1>7. RunInv(r)'
  BY <1>6, NothingCompared DEF RunInv, PlaceInv, PartitionInv, IncrementInv, WrittenInv, Checked
<1> QED
  BY <1>1, <1>2, <1>4, <1>5, <1>7, RunStep

(***************************************************************************)
(* A step of the server or of another engine, in which no run moves.        *)
(***************************************************************************)
LEMMA ServerStep ==
  ASSUME IInv, UNCHANGED <<runVars, written>>, late' \subseteq late,
         TableStep, table' \in Table \cup {NoTable}, snapshots' \in Nat,
         table'.snapshot <= snapshots', OneCommitOrOneRun => table'.copies <= 1,
         \A u \in Runs : InsertionSafe(u)
  PROVE  IInv'
<1>1. \A u \in Runs : RunInv(u)'
  BY UntouchedRun DEF Untouched, runVars
<1>2. TypeOK'
  BY DEF IInv, TypeOK, TableStep, runVars
<1>3. TableInv'
  BY DEF IInv, TableInv, OneCommitOrOneRun, Resting, runVars
<1>4. \A c \in late' : CommitInv(c)'
  BY CommitKept DEF IInv
<1> QED
  BY <1>1, <1>2, <1>3, <1>4 DEF IInv

\* A late data commit that is still valid does not meet a run between its two
\* commits: the delete gave the table a snapshot the late one is not based on.
LEMMA LateStep ==
  ASSUME IInv, NEW q \in late, LandLate(q) \/ NeverLand(q)
  PROVE  IInv'
<1>1. /\ UNCHANGED <<runVars, written>> /\ late' \subseteq late /\ strategy' = strategy
      /\ CommitInv(q)
  BY DEF LandLate, NeverLand, IInv
<1>2. CASE LandLate(q) /\ Valid(q)
  <2>1. Land(q)
    BY <1>2 DEF LandLate
  <2>2. /\ table' \in Table /\ snapshots' \in Nat /\ TableStep
        /\ q.stage # "write" => SameSnapshot
        /\ q.stage = "write" => NewSnapshot
        /\ OneCommitOrOneRun => table'.copies <= 1
    BY <1>1, <1>2, <2>1, Landing
  <2>3. table'.snapshot <= snapshots'
    BY <2>2, TypesOfTable DEF SameSnapshot, NewSnapshot, IInv, TableInv
  <2>4. ASSUME NEW u \in Runs
        PROVE  InsertionSafe(u)
    <3> SUFFICES ASSUME stage[u] = "write", operation[u] = "insert", batch[u], ~Sent(u),
                        OneCommitOrOneRun
                 PROVE  /\ table'.copies = table.copies
                        /\ \A c \in late' : c.stage = "write" => c.base.snapshot # table'.snapshot
      BY DEF InsertionSafe
    <3>1. \A c \in late : c.stage = "write" => c.base.snapshot # table.snapshot
      BY RunFacts DEF IncrementInv
    <3>2. q.stage # "write"
      BY <1>2, <3>1 DEF Valid
    <3> QED
      BY <1>1, <2>2, <3>1, <3>2 DEF SameSnapshot
  <2> QED
    BY <1>1, <2>2, <2>3, <2>4, ServerStep
<1>3. CASE UNCHANGED <<table, snapshots>>
  <2>1. TableStep /\ \A u \in Runs : InsertionSafe(u)
    BY <1>1, <1>3, TableAlone, RunFacts DEF InsertionSafe, IncrementInv
  <2>2. /\ table'.snapshot <= snapshots' /\ snapshots' \in Nat
        /\ table' \in Table \cup {NoTable} /\ (OneCommitOrOneRun => table'.copies <= 1)
    BY <1>3 DEF IInv, TableInv, TypeOK
  <2> QED
    BY <1>1, <2>1, <2>2, ServerStep
<1> QED
  BY <1>2, <1>3 DEF LandLate, NeverLand

LEMMA AppendFields ==
  ASSUME IInv, OthersAppend
  PROVE  /\ Exists /\ Exists' /\ table' \in Table /\ NewSnapshot /\ strategy' = strategy
         /\ Grows(table, table')
         /\ table'.copies = table.copies /\ table'.others = table.others + 1
<1>1. Exists /\ table \in Table /\ snapshots + 1 \in Nat
  BY TypesOfTable DEF OthersAppend
<1>2. table' = [table EXCEPT !.snapshot = snapshots + 1, !.others = @ + 1]
  BY DEF OthersAppend
<1>3. table'.snapshot = snapshots + 1 /\ table'.others = table.others + 1
  BY <1>1, <1>2 DEF Table
<1>4. table'.copies = table.copies /\ table'.partitioned = table.partitioned
  BY <1>1, <1>2 DEF Table
<1>5. table' \in Table
  <2>1. table.others + 1 \in Nat
    BY TypesOfTable
  <2>2. table' = [table EXCEPT !.snapshot = snapshots + 1, !.others = table.others + 1]
    BY <1>1, <1>2 DEF Table
  <2> QED
    BY <1>1, <2>1, <2>2 DEF Table
<1>6. Exists' /\ Grows(table, table')
  <2>1. table'.schema = table.schema /\ table'.columns = table.columns
    BY <1>1, <1>2 DEF Table
  <2> QED
    BY <1>5, <2>1, TableFields DEF Exists, Grows
<1> QED
  BY <1>1, <1>3, <1>4, <1>5, <1>6 DEF OthersAppend, NewSnapshot

LEMMA OthersAppendStep ==
  ASSUME IInv, OthersAppend
  PROVE  IInv'
<1>1. /\ UNCHANGED <<runVars, written>> /\ late' = late /\ TableStep
      /\ table' \in Table /\ NewSnapshot /\ table'.copies = table.copies
  BY AppendFields DEF OthersAppend, TableStep
<1>2. /\ snapshots' \in Nat /\ table'.snapshot <= snapshots'
      /\ OneCommitOrOneRun => table'.copies <= 1
  BY <1>1, TypesOfTable DEF NewSnapshot, IInv, TableInv
<1>3. ASSUME NEW c \in late
      PROVE  c.base.snapshot # table'.snapshot
  <2>1. c.base \in Table /\ c.base.snapshot <= snapshots
    BY <1>3 DEF IInv, CommitInv, Consistent
  <2> QED
    BY <1>1, <2>1, TypesOfTable, TableFields DEF NewSnapshot
<1>4. \A u \in Runs : InsertionSafe(u)
  BY <1>1, <1>3 DEF InsertionSafe
<1> QED
  BY <1>1, <1>2, <1>4, ServerStep

-----------------------------------------------------------------------------
(***************************************************************************)
(* The invariant, and the theorems it gives.                                *)
(***************************************************************************)
LEMMA InitInv == Init => IInv
<1> SUFFICES ASSUME Init PROVE IInv
  OBVIOUS
<1> USE DEF Init
<1>1. /\ table \in Table \cup {NoTable} /\ table.copies \in {0, 1} /\ table.others = 0
      /\ table.snapshot \in {0, 1}
  <2>1. CASE table = NoTable
    BY <2>1 DEF NoTable
  <2>2. CASE table # NoTable
    BY <2>2 DEF Table
  <2> QED
    BY <2>1, <2>2
<1>2. TypeOK
  <2>1. NoRequest \in Request
    BY DEF NoRequest, Request
  <2>2. 1 \in 1..COMMIT_ATTEMPTS
    BY DEF COMMIT_ATTEMPTS
  <2> QED
    BY <1>1, <2>1, <2>2 DEF TypeOK, Stages, DataOperations
<1>3. TableInv
  BY <1>1 DEF TableInv, Resting
<1>4. \A r \in Runs : /\ ~Sent(r) /\ stage[r] = "off"
                       /\ cached[r] = NoTable /\ compared[r] = NoTable
  BY DEF Sent, NoRequest
<1>5. \A r \in Runs : RunInv(r)
  BY <1>4 DEF RunInv, PlaceInv, CommentInv, PartitionInv, IncrementInv, WrittenInv, Checked
<1> QED
  BY <1>2, <1>3, <1>5 DEF IInv

LEMMA NextInv == IInv /\ [Next]_vars => IInv'
<1> SUFFICES ASSUME IInv, [Next]_vars PROVE IInv'
  OBVIOUS
<1>1. ASSUME NEW r \in Runs, Work(r) PROVE IInv'
  <2>1. CASE Reject(r)
    BY <2>1, CommitRaisesStep DEF Reject
  <2>2. CASE RejectAnyway(r)
    BY <2>2, CommitRaisesStep DEF RejectAnyway
  <2>3. CASE LoseAnswer(r)
    BY <2>3, CommitRaisesStep DEF LoseAnswer
  <2> QED
    BY <1>1, <2>1, <2>2, <2>3, PublishStep, CreateTableStep, PrepareStep, SkipWriteStep,
       WriteStep, EvolveSchemaStep, SetCommentsStep, AcceptStep DEF Work
<1>2. CASE UNCHANGED vars
  <2>1. TableStep /\ \A q \in late' : CommitInv(q)'
    BY <1>2, TableAlone DEF vars
  <2>2. \A u \in Runs : Untouched(u) /\ InsertionSafe(u)
    BY <1>2, RunFacts DEF vars, runVars, Untouched, InsertionSafe, IncrementInv
  <2>3. \A u \in Runs : RunInv(u)'
    BY <2>1, <2>2, UntouchedRun
  <2>4. TypeOK' /\ TableInv'
    BY <1>2 DEF vars, runVars, IInv, TypeOK, TableInv, Resting, OneCommitOrOneRun
  <2> QED
    BY <2>1, <2>3, <2>4 DEF IInv
<1> QED
  BY <1>1, <1>2, BeginStep, CrashStep, LateStep, OthersAppendStep DEF Next

LEMMA Invariance == Spec => []IInv
  BY InitInv, NextInv, PTL DEF Spec

\* The variables have their types, for any number of runs and any bounds.
THEOREM TypeCorrect == Spec => []TypeOK
<1>1. IInv => TypeOK
  BY DEF IInv
<1> QED
  BY <1>1, Invariance, PTL

(***************************************************************************)
(* An increment is in the table at most once, whatever runs overlap, crash, *)
(* are repeated or land late.  The hypothesis is needed: of two runs of a   *)
(* delete+insert model that overlap, both may delete and then both insert.  *)
(***************************************************************************)
THEOREM NotDoubled ==
  ASSUME OneCommitOrOneRun
  PROVE  Spec => []BatchNotDoubled
<1>1. IInv => BatchNotDoubled
  BY DEF IInv, TableInv, BatchNotDoubled
<1> QED
  BY <1>1, Invariance, PTL

\* A run that goes on to its comments, or ends well, wrote its data if it had any.
THEOREM Written == Spec => []SuccessMeansWritten
<1>1. IInv => SuccessMeansWritten
  BY DEF IInv, RunInv, WrittenInv, SuccessMeansWritten
<1> QED
  BY <1>1, Invariance, PTL

-----------------------------------------------------------------------------
(***************************************************************************)
(* What a step does to the table, seen from outside: nothing but create it, *)
(* land a commit on it, or append to it for another engine.                 *)
(***************************************************************************)
Lands == \E q : CommitInv(q) /\ Valid(q) /\ Land(q)

LEMMA StepsOnTable ==
  ASSUME IInv, Next
  PROVE  /\ strategy' = strategy
         /\ \/ UNCHANGED <<table, snapshots>>
            \/ Lands /\ appends' = appends
            \/ /\ table = NoTable /\ table' = EmptyTable
               /\ UNCHANGED <<snapshots, appends>>
            \/ OthersAppend
<1>1. ASSUME NEW r \in Runs, Accept(r)
      PROVE  strategy' = strategy /\ Lands /\ appends' = appends
  <2>1. Sent(r) /\ Valid(request[r]) /\ Land(request[r]) /\ CommitInv(request[r])
    BY <1>1, RunFacts DEF Accept, PlaceInv
  <2> QED
    BY <1>1, <2>1 DEF Accept, Lands, bounds
<1>2. ASSUME NEW q \in late, LandLate(q)
      PROVE  /\ strategy' = strategy
             /\ \/ Lands /\ appends' = appends
                \/ UNCHANGED <<table, snapshots>>
  <2>1. CommitInv(q)
    BY DEF IInv
  <2> QED
    BY <1>2, <2>1 DEF LandLate, Lands, bounds
<1>3. ASSUME NEW r \in Runs, CreateTable(r)
      PROVE  /\ strategy' = strategy /\ UNCHANGED <<snapshots, appends>>
             /\ \/ table = NoTable /\ table' = EmptyTable
                \/ UNCHANGED table
  BY <1>3 DEF CreateTable, Exists, bounds
<1>4. ASSUME NEW r \in Runs,
             (\E f \in BOOLEAN : Begin(r, f)) \/ Publish(r) \/ Prepare(r) \/ SkipWrite(r)
               \/ Write(r) \/ EvolveSchema(r) \/ SetComments(r)
      PROVE  UNCHANGED <<strategy, table, snapshots>>
  BY <1>4 DEF Begin, Publish, Prepare, SkipWrite, Write, EvolveSchema, SetComments, Server
<1>5. ASSUME NEW r \in Runs, Reject(r) \/ RejectAnyway(r) \/ LoseAnswer(r) \/ Crash(r)
      PROVE  UNCHANGED <<strategy, table, snapshots>>
  BY <1>5 DEF Reject, RejectAnyway, LoseAnswer, Crash, CommitRaises
<1>6. ASSUME NEW q \in late, NeverLand(q)
      PROVE  UNCHANGED <<strategy, table, snapshots>>
  BY <1>6 DEF NeverLand
<1>7. OthersAppend => strategy' = strategy
  BY DEF OthersAppend
<1> QED
  BY <1>1, <1>2, <1>3, <1>4, <1>5, <1>6, <1>7 DEF Next, Work

\* The appends of others are counted, and by nobody else.
Counted == appends \in Nat

LEMMA AppendsCounted == Spec => []Counted
<1>1. Init => Counted
  BY DEF Init, Counted
<1>2. Counted /\ [Next]_vars => Counted'
  <2> SUFFICES ASSUME Counted, [Next]_vars PROVE Counted'
    OBVIOUS
  <2>1. ASSUME NEW r \in Runs, Work(r) PROVE appends' = appends
    <3>1. Accept(r) \/ Reject(r) \/ RejectAnyway(r) \/ LoseAnswer(r) => appends' = appends
      BY DEF Accept, Reject, RejectAnyway, LoseAnswer, CommitRaises, bounds
    <3> QED
      BY <2>1, <3>1
         DEF Work, Publish, CreateTable, Prepare, SkipWrite, Write, EvolveSchema,
             SetComments, bounds
  <2>2. ASSUME NEW r \in Runs, (\E f \in BOOLEAN : Begin(r, f)) \/ Crash(r)
        PROVE  appends' = appends
    BY <2>2 DEF Begin, Crash
  <2>3. ASSUME NEW q \in late, LandLate(q) \/ NeverLand(q) PROVE appends' = appends
    BY <2>3 DEF LandLate, NeverLand, bounds
  <2> QED
    BY <2>1, <2>2, <2>3 DEF Next, OthersAppend, vars, bounds, Counted
<1> QED
  BY <1>1, <1>2, PTL DEF Spec

\* Data lands only in a table partitioned as the model says: what a run checked
\* on the table it loaded still holds when its commit lands, at once or late.
THEOREM LandsPartitioned == Spec => PartitionedAsConfigured
<1>1. ASSUME IInv, Counted, Next, snapshots' # snapshots, appends' = appends
      PROVE  table'.partitioned = Partitioned
  <2>1. strategy' = strategy /\ Lands
    BY <1>1, StepsOnTable DEF OthersAppend, Counted
  <2>2. PICK q : CommitInv(q) /\ Valid(q) /\ Land(q)
    BY <2>1 DEF Lands
  <2>3. q.stage = "write"
    BY <1>1, <2>2 DEF Land
  <2> QED
    BY <1>1, <2>1, <2>2, <2>3, Landing
<1>2. IInv /\ Counted /\ [Next]_vars =>
        [snapshots' # snapshots /\ appends' = appends => table'.partitioned = Partitioned]_vars
  BY <1>1
<1> QED
  BY <1>2, Invariance, AppendsCounted, PTL DEF Spec, PartitionedAsConfigured

(***************************************************************************)
(* A run that ends well ends after its comments.  A column that had its     *)
(* comment, or was not there, when set_comments compared still has, or      *)
(* still is not; the others get theirs, or were found to have them.         *)
(***************************************************************************)
LEMMA EndsWithDocs ==
  ASSUME IInv, Next, NEW r \in Runs, stage[r] # "done", stage'[r] = "done",
         Compared(r).schema = table'.schema, NEW c \in Columns
  PROVE  table'.columns[c] # "plain"
<1> USE DEF GoTo, Cache
<1>1. CASE SetComments(r)
  <2>1. stage[r] = "comment" /\ ~Sent(r) /\ CommentsThere(r) /\ table' = table
    BY <1>1, RunFacts
       DEF SetComments, At, CommentsFail, CommentsSent, StageAfterFailure, TypeOK, Server
  <2>2. CommentsAfter(r, Loaded(r)) = Loaded(r)
    BY <2>1 DEF CommentsThere, NoUpdate
  <2>3. /\ Compared(r).columns[c] = "plain" => Loaded(r).columns[c] = "described"
        /\ Consistent(Compared(r))
    BY <2>1, <2>2, ComparedFacts
  <2>4. CASE Compared(r).columns[c] # "plain"
    BY <2>1, <2>3, <2>4 DEF Consistent, Grows
  <2>5. CASE Compared(r).columns[c] = "plain"
    <3>1. compared[r] # NoTable
      BY <2>3, <2>5 DEF Compared
    <3>2. Loaded(r) = table
      BY <2>1, <3>1, RunFacts DEF CommentInv, Loaded
    <3> QED
      BY <2>1, <2>3, <2>5, <3>2
  <2> QED
    BY <2>4, <2>5
<1>2. CASE Accept(r)
  <2>1. /\ Sent(r) /\ Valid(request[r]) /\ Land(request[r]) /\ strategy' = strategy
        /\ StepDone(r) /\ CommitInv(request[r]) /\ request[r].stage = stage[r]
    BY <1>2, RunFacts DEF Accept, PlaceInv
  <2>2. stage[r] \in {"evolve", "write", "comment"}
    BY <2>1 DEF CommitInv, Request
  <2>3. stage[r] = "comment"
    BY <2>1, <2>2, StepDoneTypes, RunFacts DEF StageAfter
  <2>4. /\ table'.columns = request[r].after.columns /\ TableStep /\ Exists
        /\ compared[r] # NoTable /\ compared[r] \in Table /\ Consistent(compared[r])
        /\ compared[r].columns[c] = "plain" => request[r].after.columns[c] = "described"
    BY <2>1, <2>3, Landing, RunFacts DEF CommentInv, PlaceInv
  <2>5. Compared(r) = compared[r] /\ Grows(compared[r], table')
    BY <2>4, TypesOfTable, GrowsTwice DEF Compared, Consistent, TableStep
  <2> QED
    BY <2>4, <2>5 DEF Grows
<1>3. CASE SkipWrite(r)
  BY <1>3, StepDoneTypes, RunFacts DEF SkipWrite, At, StageAfter
<1>4. ASSUME NEW u \in Runs, u # r,
             EvolveSchema(u) \/ SetComments(u) \/ Accept(u) \/ SkipWrite(u)
      PROVE  stage'[r] = stage[r]
  BY <1>4, StepDoneTypes, RunFacts
     DEF EvolveSchema, SetComments, CommentsFail, CommentsThere, CommentsSent, Accept,
         SkipWrite, TypeOK
<1>8. CASE EvolveSchema(r)
  BY <1>8, StepDoneTypes, RunFacts DEF EvolveSchema, At, StageAfter
<1>5. ASSUME NEW u \in Runs, Reject(u) \/ RejectAnyway(u) \/ LoseAnswer(u) \/ Crash(u)
      PROVE  stage'[r] \in {stage[r], "failed"}
  BY <1>5, RunFacts DEF Reject, RejectAnyway, LoseAnswer, Crash, CommitRaises,
     StageAfterFailure, TypeOK
<1>6. ASSUME NEW u \in Runs,
             (\E f \in BOOLEAN : Begin(u, f)) \/ Publish(u) \/ CreateTable(u) \/ Prepare(u)
               \/ Write(u)
      PROVE  stage'[r] # "done"
  BY <1>6, RunFacts DEF Begin, Publish, CreateTable, Prepare, Write, TypeOK
<1>7. ASSUME (\E q \in late : LandLate(q) \/ NeverLand(q)) \/ OthersAppend
      PROVE  stage'[r] = stage[r]
  BY <1>7 DEF LandLate, NeverLand, OthersAppend, runVars
<1> QED
  BY <1>1, <1>2, <1>3, <1>4, <1>5, <1>6, <1>7, <1>8 DEF Next, Work

\* A run that ends well leaves no described column without its comment, whatever
\* was rejected, lost or landed late, unless the schema changed under its retries.
THEOREM CommentsSet == Spec => DocsPersisted
<1>1. IInv /\ [Next]_vars =>
        [\A r \in Runs :
           /\ stage[r] # "done" /\ stage'[r] = "done"
           /\ Compared(r).schema = table'.schema
           => \A c \in Columns : table'.columns[c] # "plain"]_vars
  BY EndsWithDocs
<1> QED
  BY <1>1, Invariance, PTL DEF Spec, DocsPersisted

-----------------------------------------------------------------------------
(***************************************************************************)
(* Every commit that lands is one atomic read-and-write of the abstract     *)
(* table, or changes nothing that it shows.                                 *)
(***************************************************************************)
LEMMA LandingRefines ==
  ASSUME IInv, Lands, strategy' = strategy, OneCommitOrOneRun
  PROVE  [Atomic!Next]_(Atomic!vars)
<1>1. PICK q : CommitInv(q) /\ Valid(q) /\ Land(q)
  BY DEF Lands
<1>2. /\ Exists /\ Exists' /\ table' = Updated(q)
      /\ q.stage # "write" => SameSnapshot
      /\ q.stage = "write" => /\ table'.copies = q.after.copies
                              /\ table'.others = q.after.others
                              /\ q.base.copies = table.copies
                              /\ q.base.others = table.others
  BY <1>1, Landing DEF CommitInv
<1>3. CASE q.stage # "write"
  <2>1. table'.copies = table.copies /\ table'.others = table.others
    BY <1>2, <1>3 DEF SameSnapshot
  <2> QED
    BY <1>2, <2>1 DEF Atomic!vars
<1>4. CASE q.stage = "write"
  <2>1. \/ table'.copies = 1 /\ table'.others \in {0, table.others}
        \/ table'.copies = table.copies /\ table'.others = table.others
        \/ /\ table'.copies = 0 /\ table'.others = table.others
           /\ strategy = "delete+insert"
    BY <1>1, <1>2, <1>4 DEF CommitInv, Change
  <2>2. Exists' <=> Exists
    BY <1>2
  <2>3. CASE table'.copies = 1 /\ table'.others = 0
    BY <1>2, <2>2, <2>3 DEF Atomic!Next, Atomic!Replace
  <2>4. CASE table'.copies = 1 /\ table'.others = table.others
    BY <1>2, <2>2, <2>4 DEF Atomic!Next, Atomic!Increment
  <2>5. CASE table'.copies = table.copies /\ table'.others = table.others
    BY <2>2, <2>5 DEF Atomic!vars
  <2>6. CASE table'.copies = 0 /\ table'.others = table.others /\ strategy = "delete+insert"
    BY <1>2, <2>2, <2>6 DEF Atomic!Next, Atomic!Delete
  <2> QED
    BY <2>1, <2>3, <2>4, <2>5, <2>6
<1> QED
  BY <1>3, <1>4

LEMMA CreationRefines ==
  ASSUME IInv, table = NoTable, table' = EmptyTable, strategy' = strategy
  PROVE  Atomic!Next
<1>1. /\ EmptyTable \in Table /\ EmptyTable.copies = NoTable.copies
      /\ EmptyTable.others = NoTable.others
  BY DEF EmptyTable, NoTable, Table, ColumnFunctions
<1>2. ~Exists /\ Exists'
  BY <1>1, TableFields DEF Exists
<1> QED
  BY <1>1, <1>2 DEF Atomic!Next, Atomic!Create

(***************************************************************************)
(* The runs implement AtomicTable: no update is lost, and no increment is   *)
(* computed from one table and added to another.                            *)
(***************************************************************************)
THEOREM Refinement ==
  ASSUME OneCommitOrOneRun
  PROVE  Spec => ImplementsAtomicTable
<1>1. Init => Atomic!Init
  <2> SUFFICES ASSUME Init PROVE Atomic!Init
    OBVIOUS
  <2>1. CASE table = NoTable
    BY <2>1 DEF Atomic!Init, Exists, NoTable
  <2>2. CASE table # NoTable
    BY <2>2 DEF Init, Atomic!Init, Exists
  <2> QED
    BY <2>1, <2>2
<1>2. ASSUME IInv, Next PROVE [Atomic!Next]_(Atomic!vars)
  <2>1. CASE UNCHANGED <<strategy, table>>
    BY <2>1 DEF Atomic!vars, Exists
  <2>2. CASE OthersAppend
    BY <1>2, <2>2, AppendFields DEF Atomic!Next, Atomic!OthersAppend
  <2> QED
    BY <1>2, <2>1, <2>2, StepsOnTable, LandingRefines, CreationRefines
<1>3. UNCHANGED vars => UNCHANGED Atomic!vars
  BY DEF vars, Atomic!vars, Exists
<1>4. IInv /\ [Next]_vars => [Atomic!Next]_(Atomic!vars)
  BY <1>2, <1>3
<1> QED
  BY <1>1, <1>4, Invariance, PTL DEF Spec, Atomic!Spec, ImplementsAtomicTable
=============================================================================
