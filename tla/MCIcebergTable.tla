--------------------------- MODULE MCIcebergTable ---------------------------
(***************************************************************************)
(* One or two runs of one model, with lost answers, crashes and restarts.   *)
(***************************************************************************)
EXTENDS IcebergTable, TLC

\* The strategies that write their data in one commit.
OneCommitStrategies == {"table", "append", "merge"}

Symmetry == Permutations(Runs) \cup Permutations(Columns)
=============================================================================
