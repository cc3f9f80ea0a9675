--------------------------- MODULE MCComputeSlots ---------------------------
(***************************************************************************)
(* ComputeSlots on three threads, without a limit and with one or two slots *)
(* and up to three nested blocks.                                           *)
(***************************************************************************)
EXTENDS ComputeSlots, TLC

MCLimits == {0, 1, 2}

Symmetry == Permutations(Threads)
=============================================================================
