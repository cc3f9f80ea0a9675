------------------------- MODULE MCIncrementalWrite -------------------------
(***************************************************************************)
(* A full run and incremental runs of a model with two columns.             *)
(***************************************************************************)
EXTENDS IncrementalWrite, TLC

CONSTANTS a, b

Two == {a, b}

\* A configuration that raises nothing by itself.
Valid(format, strategy, policy, update, exclude) ==
  [format |-> format, strategy |-> strategy, on_schema_change |-> policy,
   unique_key |-> strategy # "append", null_cells |-> FALSE, same_partitions |-> TRUE,
   update |-> update, exclude |-> exclude]

Formats == {"delta", "file", "iceberg"}
KeyedStrategies == {"merge", "delete+insert"}

\* Every strategy and format; sync_all_columns where it may keep duplicates.
AllWrites ==
  {Valid(f, s, p, {}, {}) : f \in Formats, s \in {"append"} \cup KeyedStrategies,
                            p \in {"ignore", "append_new_columns"}}
  \cup {Valid(f, "append", "sync_all_columns", {}, {}) : f \in Formats}
  \cup {Valid(f, "merge", "append_new_columns", u, {}) : f \in Formats, u \in {{a}, {b}}}
  \cup {Valid(f, "merge", "ignore", {}, {a}) : f \in Formats}
  \cup {Valid(f, "merge", "fail", {a}, {b}) : f \in Formats}
  \cup {[Valid("delta", s, "fail", {}, {}) EXCEPT !.unique_key = uk, !.same_partitions = sp] :
         s \in {"merge", "delete+insert"}, uk, sp \in BOOLEAN}

\* Increments with NULLs in any column.  A merge into a plain file is not among
\* them: existing.update keeps the old value where the new one is NULL.
NullWrites ==
  {[Valid(f, "merge", "append_new_columns", {}, e) EXCEPT !.null_cells = TRUE] :
   f \in {"delta", "iceberg"}, e \in {{}, {a}}}
  \cup {[Valid(f, "delete+insert", "append_new_columns", {}, {}) EXCEPT !.null_cells = TRUE] :
        f \in Formats}

Writes == AllWrites \cup NullWrites

SyncedDeletes == {Valid("delta", "delete+insert", "sync_all_columns", {}, {})}
=============================================================================
