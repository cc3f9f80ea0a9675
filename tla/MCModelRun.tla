----------------------------- MODULE MCModelRun -----------------------------
(***************************************************************************)
(* Node runs on two or three threads with zero, one or two slots.           *)
(***************************************************************************)
EXTENDS ModelRun, TLC

MCLimits == {0, 1, 2}
OneSlot == {1}

\* Every kind whose collected data is passed to _commit as a DataFrame.
KindsWithoutPythonFrames == AllKinds \ {"pythonFrame"}

Symmetry == Permutations(Threads)
=============================================================================
