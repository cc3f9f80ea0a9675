---------------------------- MODULE AtomicTable ----------------------------
(***************************************************************************)
(* What the runs of an incremental or table model promise about the data in *)
(* its Iceberg table: every write reads the table, computes and replaces    *)
(* its contents in one atomic step, so writes never see half of each other. *)
(***************************************************************************)
EXTENDS Naturals

VARIABLES
  strategy,  \* the model's materialization and incremental strategy
  exists,    \* the table is registered in the catalog
  copies,    \* how many rows the table has for a key of the model's batch
  others     \* rows appended by others, for other keys

vars == <<strategy, exists, copies, others>>

Init ==
  /\ exists \in BOOLEAN
  /\ copies \in {0, 1}
  /\ others = 0
  /\ ~exists => copies = 0

\* The table is created empty, and visible, before its first data is written.
Create ==
  /\ ~exists
  /\ exists' = TRUE
  /\ UNCHANGED <<copies, others>>

\* A full refresh, or a run of a table model: the result replaces everything.
Replace ==
  /\ exists
  /\ copies' = 1
  /\ others' = 0
  /\ UNCHANGED exists

\* An increment: afterwards its batch is in the table once.
Increment ==
  /\ exists
  /\ copies' = 1
  /\ UNCHANGED <<exists, others>>

\* The first half of delete+insert, which is two writes.
Delete ==
  /\ exists /\ strategy = "delete+insert"
  /\ copies' = 0
  /\ UNCHANGED <<exists, others>>

OthersAppend ==
  /\ exists
  /\ others' = others + 1
  /\ UNCHANGED <<exists, copies>>

Next ==
  /\ Create \/ Replace \/ Increment \/ Delete \/ OthersAppend
  /\ UNCHANGED strategy

Spec == Init /\ [][Next]_vars
=============================================================================
