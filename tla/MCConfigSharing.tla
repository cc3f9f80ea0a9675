--------------------------- MODULE MCConfigSharing ---------------------------
(***************************************************************************)
(* Three threads, one relation of a node and two of sources, a catalog with *)
(* an Iceberg catalog inside.                                               *)
(***************************************************************************)
EXTENDS ConfigSharing, TLC

Symmetry == Permutations(Threads) \cup Permutations(Sources)
=============================================================================
