--------------------------- MODULE MCSnapshotScd2 ---------------------------
(***************************************************************************)
(* Small instances of SnapshotScd2.                                         *)
(***************************************************************************)
EXTENDS SnapshotScd2, TLC

\* A row that comes back with its old updated_at gets the dbt_scd_id of its
\* closed row under these.
ReusesIds(c) == c.strategy = "timestamp" /\ c.hardDeletes = "invalidate"

SafeToRestore == {c \in AllConfigs : ~ReusesIds(c)}
DeltaInvalidate == {c \in AllConfigs : c.format = "delta" /\ ReusesIds(c)}

Symmetry == Permutations(Keys) \cup Permutations(Values)
=============================================================================
