--------------------------- MODULE MCFormatSwitch ---------------------------
(***************************************************************************)
(* Two processes that write one table of either catalog.                    *)
(***************************************************************************)
EXTENDS FormatSwitch, TLC

Symmetry == Permutations(Processes)
=============================================================================
