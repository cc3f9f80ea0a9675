--------------------------- MODULE BoundedCompute ---------------------------
(***************************************************************************)
(* What the profile key compute_threads promises, with no semaphore, no     *)
(* thread-local state and no commits: a set of threads that run Polars, and *)
(* at most `limit` of them at the same time.  ComputeSlots and ModelRun are *)
(* shown to implement it.                                                   *)
(***************************************************************************)
EXTENDS Naturals, FiniteSets

CONSTANTS Threads,  \* dbt's worker threads
          Limits    \* values of compute_threads; 0 stands for "not set"

VARIABLES limit,     \* the configured number of slots
          computing  \* threads that run Polars and count against the limit

vars == <<limit, computing>>

Init == limit \in Limits /\ computing = {}

\* A new adapter sets the limit while no model computes.
Reconfigure == /\ computing = {}
               /\ limit' \in Limits
               /\ UNCHANGED computing

Start(t) == /\ t \notin computing
            /\ Cardinality(computing) < limit
            /\ computing' = computing \cup {t}
            /\ UNCHANGED limit

Stop(t) == /\ t \in computing
           /\ computing' = computing \ {t}
           /\ UNCHANGED limit

Next == Reconfigure \/ \E t \in Threads : Start(t) \/ Stop(t)

Spec == Init /\ [][Next]_vars
=============================================================================
