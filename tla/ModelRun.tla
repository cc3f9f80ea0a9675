------------------------------ MODULE ModelRun ------------------------------
(***************************************************************************)
(* dbt's worker threads running nodes against an Iceberg catalog: what each *)
(* kind of node computes and commits inside its compute slot (impl.py), and *)
(* how IcebergCatalog._commit gives the slot away while a commit is under   *)
(* way (icebergCatalog.py).  The slots are those of ComputeSlots.           *)
(*                                                                         *)
(* Each node writes a table of its own.  What a commit does to a table is   *)
(* the subject of IcebergTable; here a commit is accepted or refused.       *)
(***************************************************************************)
EXTENDS Naturals, Sequences, FiniteSets

CONSTANTS
  Threads,      \* dbt's worker threads
  Limits,       \* values of compute_threads; 0 stands for None
  MaxDepth,     \* bound on nested with-blocks: hold() around releasable()
  Kinds,        \* the kinds of nodes in the run, a subset of AllKinds
  NodeCount,    \* how many nodes dbt has to run
  Paced         \* TRUE: the catalog sets min_commit_interval (Snowflake)

VARIABLES limit, permits, running, holding, releasable, blocks, waiting

slotVars == <<limit, permits, running, holding, releasable, blocks, waiting>>

Slots == INSTANCE ComputeSlots

COMMIT_ATTEMPTS == 4

(***************************************************************************)
(* The steps of a node that matter for its slot.  `collect` and `summarize` *)
(* run Polars.  The others commit: the result, lazy (`commitLazy`) or       *)
(* collected (`commitFrame`, and `storeFailures` of a test), a change whose *)
(* frame is only in the closure handed to _commit (`commitRows`), a         *)
(* `truncate` outside the slot, or metadata (`evolve`, `comment`).          *)
(***************************************************************************)
Program == [
  table        |-> <<"truncate", "hold", "commitLazy", "leave", "comment">>,
  merge        |-> <<"hold", "collect", "evolve", "commitRows", "leave", "comment">>,
  deleteInsert |-> <<"hold", "collect", "commitRows", "commitFrame", "leave", "comment">>,
  snapshot     |-> <<"hold", "collect", "commitRows", "leave">>,
  seed         |-> <<"truncate", "hold", "collect", "commitFrame", "leave", "comment">>,
  test         |-> <<"hold", "collect", "storeFailures", "summarize", "leave">>,
  pythonFrame  |-> <<"hold", "collect", "commitLazy", "leave", "comment">>]

AllKinds == DOMAIN Program

ComputeOps == {"collect", "summarize"}
MetadataOps == {"evolve", "comment"}
CommitOps == MetadataOps \cup
  {"truncate", "commitLazy", "commitFrame", "commitRows", "storeFailures"}

\* Steps the code skips when there is nothing to do: no hook or earlier seed to
\* truncate for, no new column, no changed row, no failures to store, no comment.
SkippableOps == {"truncate", "evolve", "commitRows", "storeFailures", "comment"}

ASSUME ThreadsAreFinite == IsFiniteSet(Threads)
ASSUME LimitsAreNaturals == Limits \subseteq Nat
ASSUME DepthIsNatural == MaxDepth \in Nat
ASSUME KindsAreKnown == Kinds \subseteq AllKinds
ASSUME NodeCountIsNatural == NodeCount \in Nat
ASSUME PacedIsBoolean == Paced \in BOOLEAN

VARIABLES
  todo,       \* nodes not started yet
  kind,       \* the kind of node each thread runs, or "none"
  step,       \* index of the thread's next step in the node's program
  phase,      \* where the thread is within that step
  attempt,    \* attempts of _commit_metadata at this step
  collected,  \* the thread's node keeps a collected frame in memory
  recent      \* the node's table was committed to within min_commit_interval

nodeVars == <<todo, kind, step, phase, attempt, collected, recent>>
vars == <<slotVars, nodeVars>>

Phases == {"idle", "op", "computing", "entered", "sleep", "ensure", "write",
           "commit", "committed", "refused", "backoff", "raise"}

Init ==
  /\ Slots!Init
  /\ todo = NodeCount
  /\ kind = [t \in Threads |-> "none"]
  /\ step = [t \in Threads |-> 1]
  /\ phase = [t \in Threads |-> "idle"]
  /\ attempt = [t \in Threads |-> 1]
  /\ collected = [t \in Threads |-> FALSE]
  /\ recent = [t \in Threads |-> FALSE]

-----------------------------------------------------------------------------
Steps(t) == Program[kind[t]]
AtEnd(t) == step[t] > Len(Steps(t))
Op(t) == Steps(t)[step[t]]

At(t, op) == phase[t] = "op" /\ ~AtEnd(t) /\ Op(t) = op

Goto(t, p) == phase' = [phase EXCEPT ![t] = p]

NextOp(t) ==
  /\ step' = [step EXCEPT ![t] = @ + 1]
  /\ attempt' = [attempt EXCEPT ![t] = 1]
  /\ Goto(t, "op")

Stay == UNCHANGED slotVars

\* A worker thread takes the next node, of any kind.
StartNode(t, k) ==
  /\ phase[t] = "idle" /\ todo > 0
  /\ todo' = todo - 1
  /\ kind' = [kind EXCEPT ![t] = k]
  /\ step' = [step EXCEPT ![t] = 1]
  /\ Goto(t, "op")
  /\ Stay /\ UNCHANGED <<attempt, collected, recent>>

Skip(t) ==
  /\ attempt[t] = 1
  /\ \E op \in SkippableOps : At(t, op)
  /\ NextOp(t)
  /\ Stay /\ UNCHANGED <<todo, kind, collected, recent>>

(***************************************************************************)
(* @holds_compute_slot around the adapter's methods: wait for a slot, take  *)
(* it, and give it back when the method returns.                            *)
(***************************************************************************)
WaitForSlot(t) ==
  /\ At(t, "hold")
  /\ Slots!HoldWait(t)
  /\ UNCHANGED nodeVars

BeginModel(t) ==
  /\ At(t, "hold")
  /\ Slots!HoldNested(t) \/ Slots!HoldAcquire(t)
  /\ NextOp(t)
  /\ UNCHANGED <<todo, kind, collected, recent>>

EndModel(t) ==
  /\ At(t, "leave")
  /\ Slots!HoldExit(t) \/ Slots!NestedExit(t)
  /\ collected' = [collected EXCEPT ![t] = FALSE]
  /\ NextOp(t)
  /\ UNCHANGED <<todo, kind, recent>>

Compute(t) ==
  /\ \E op \in ComputeOps : At(t, op)
  /\ Goto(t, "computing")
  /\ Stay /\ UNCHANGED <<todo, kind, step, attempt, collected, recent>>

Computed(t) ==
  /\ phase[t] = "computing"
  /\ collected' = [collected EXCEPT ![t] = TRUE]
  /\ NextOp(t)
  /\ Stay /\ UNCHANGED <<todo, kind, recent>>

-----------------------------------------------------------------------------
\* Mutant: the slot is given back for collected data too.
DataIsLazyIgnored(op) == TRUE

\* Mutant: the data is not passed to _commit.
DataNotPassed(op) == FALSE

\* _commit's isinstance(data, pl.LazyFrame).
DataIsLazy(op) == op = "commitLazy"

EnterCommit(t) ==
  /\ \E op \in CommitOps : At(t, op)
  /\ Slots!ReleasableEnter(t, DataIsLazy(Op(t)))
  /\ Goto(t, "entered")
  /\ UNCHANGED <<todo, kind, step, attempt, collected, recent>>

GiveSlot(t) == IF Slots!Releases(t) THEN Slots!Release(t) ELSE Stay

\* Lines 260-265: sleep until min_commit_interval after the last commit.
Pace(t) ==
  /\ phase[t] = "entered"
  /\ IF recent[t] THEN GiveSlot(t) /\ Goto(t, "sleep")
                  ELSE Stay /\ Goto(t, "ensure")
  /\ UNCHANGED <<todo, kind, step, attempt, collected, recent>>

Wake(t) ==
  /\ phase[t] = "sleep" /\ ~recent[t]
  /\ Goto(t, "ensure")
  /\ Stay /\ UNCHANGED <<todo, kind, step, attempt, collected, recent>>

IntervalPasses(t) ==
  /\ recent[t]
  /\ recent' = [recent EXCEPT ![t] = FALSE]
  /\ Stay /\ UNCHANGED <<todo, kind, step, phase, attempt, collected>>

\* Mutant: the write after the pause goes on without a slot.
MustTakeSlotNever(t) == FALSE

MustTakeSlot(t) == Slots!NeedsSlot(t)

\* Line 267: ensure_held() before `write` computes and writes the data files.
EnsureHeld(t) ==
  /\ phase[t] = "ensure"
  /\ \/ /\ MustTakeSlot(t)
        /\ Slots!EnsureWait(t)
        /\ UNCHANGED nodeVars
     \/ /\ Slots!EnsureAcquire(t) \/ (~MustTakeSlot(t) /\ Stay)
        /\ Goto(t, "write")
        /\ UNCHANGED <<todo, kind, step, attempt, collected, recent>>

\* The wrapped commit_table: release(), then the request to the catalog.
SendCommit(t) ==
  /\ phase[t] = "write"
  /\ GiveSlot(t)
  /\ Goto(t, "commit")
  /\ UNCHANGED <<todo, kind, step, attempt, collected, recent>>

Accepted(t) ==
  /\ phase[t] = "commit"
  /\ recent' = [recent EXCEPT ![t] = Paced]
  /\ Goto(t, "committed")
  /\ Stay /\ UNCHANGED <<todo, kind, step, attempt, collected>>

\* CommitFailedException or CommitStateUnknownException.
Refused(t) ==
  /\ phase[t] = "commit"
  /\ Goto(t, "refused")
  /\ Stay /\ UNCHANGED <<todo, kind, step, attempt, collected, recent>>

LeaveCommit(t) ==
  /\ phase[t] = "committed"
  /\ Slots!ReleasableExit(t)
  /\ NextOp(t)
  /\ UNCHANGED <<todo, kind, collected, recent>>

\* Mutant: a refused metadata commit is tried for ever.
MayRetryForever(t) == Op(t) \in MetadataOps

\* Only _commit_metadata tries again, COMMIT_ATTEMPTS times in all.
MayRetry(t) == Op(t) \in MetadataOps /\ attempt[t] < COMMIT_ATTEMPTS

LeaveRefused(t) ==
  /\ phase[t] = "refused"
  /\ Slots!ReleasableExit(t)
  /\ Goto(t, IF MayRetry(t) THEN "backoff" ELSE "raise")
  /\ UNCHANGED <<todo, kind, step, attempt, collected, recent>>

\* Mutant: the attempts are not counted.
RetryUncounted(t) ==
  /\ phase[t] = "backoff"
  /\ Goto(t, "op")
  /\ Stay /\ UNCHANGED <<todo, kind, step, attempt, collected, recent>>

Retry(t) ==
  /\ phase[t] = "backoff"
  /\ attempt' = [attempt EXCEPT ![t] = @ + 1]
  /\ Goto(t, "op")
  /\ Stay /\ UNCHANGED <<todo, kind, step, collected, recent>>

-----------------------------------------------------------------------------
\* The query, the write of the data files or a request raises anything else.
Fail(t) ==
  /\ phase[t] \in {"computing", "write", "commit"}
  /\ Goto(t, "raise")
  /\ Stay /\ UNCHANGED <<todo, kind, step, attempt, collected, recent>>

\* The exception leaves the innermost with-block; with the last one the
\* method's frames, and the data they hold, are gone.
Unwind(t) ==
  /\ phase[t] = "raise" /\ blocks[t] # <<>>
  /\ Slots!Exit(t)
  /\ collected' = [collected EXCEPT ![t] = @ /\ Len(blocks[t]) > 1]
  /\ UNCHANGED <<todo, kind, step, phase, attempt, recent>>

NodeEnds(t) ==
  /\ blocks[t] = <<>>
  /\ phase[t] = "raise" \/ (phase[t] = "op" /\ AtEnd(t))
  /\ kind' = [kind EXCEPT ![t] = "none"]
  /\ step' = [step EXCEPT ![t] = 1]
  /\ attempt' = [attempt EXCEPT ![t] = 1]
  /\ recent' = [recent EXCEPT ![t] = FALSE]
  /\ Goto(t, "idle")
  /\ Stay /\ UNCHANGED <<todo, collected>>

RunNode(t) ==
  \/ \E k \in Kinds : StartNode(t, k)
  \/ Skip(t) \/ WaitForSlot(t) \/ BeginModel(t) \/ EndModel(t)
  \/ Compute(t) \/ Computed(t)
  \/ EnterCommit(t) \/ Pace(t) \/ Wake(t) \/ EnsureHeld(t) \/ SendCommit(t)
  \/ Accepted(t) \/ Refused(t) \/ LeaveCommit(t) \/ LeaveRefused(t) \/ Retry(t)
  \/ Fail(t) \/ Unwind(t) \/ NodeEnds(t)

AllDone == todo = 0 /\ \A t \in Threads : phase[t] = "idle"

\* dbt's run ends when every node ended.
RunEnds == AllDone /\ UNCHANGED vars

Next == RunEnds \/ \E t \in Threads : RunNode(t) \/ IntervalPasses(t)

Spec == Init /\ [][Next]_vars

(***************************************************************************)
(* A thread that can go on does, requests are answered (the clients have    *)
(* timeouts) and time passes.  Nothing is assumed of the order in which the *)
(* semaphore serves its waiters: weak fairness only.                        *)
(***************************************************************************)
FairSpec ==
  Spec /\ \A t \in Threads : WF_vars(RunNode(t)) /\ WF_vars(IntervalPasses(t))

-----------------------------------------------------------------------------
TypeOK ==
  /\ Slots!TypeOK
  /\ todo \in 0..NodeCount
  /\ kind \in [Threads -> Kinds \cup {"none"}]
  /\ step \in [Threads -> 1..7]
  /\ phase \in [Threads -> Phases]
  /\ attempt \in [Threads -> 1..COMMIT_ATTEMPTS]
  /\ collected \in [Threads -> BOOLEAN]
  /\ recent \in [Threads -> BOOLEAN]

\* Threads whose model runs Polars.  Outside a model only metadata and deletes
\* of whole files are committed, which computes nothing.
Computing == {t \in Threads : phase[t] \in {"computing", "write"} /\ running[t]}

InCommit(t) == phase[t] \in {"sleep", "commit"}

(***************************************************************************)
(* No Polars work without a slot: the slot given up during one commit is    *)
(* taken again before the node's next frame is read, joined or written.     *)
(***************************************************************************)
ComputesWithSlot == \A t \in Computing : holding[t]

(***************************************************************************)
(* At most `limit` nodes keep a collected frame in memory, also while they  *)
(* wait for the catalog: the promise of performance.md that only one model  *)
(* is in memory with compute_threads: 1.                                    *)
(***************************************************************************)
CollectedWithinLimit ==
  limit # 0 => Cardinality({t \in Threads : collected[t]}) <= limit

(***************************************************************************)
(* A node that waits for the catalog keeps its slot only for the frame it   *)
(* still has in memory: lazy commits never block the other nodes.           *)
(***************************************************************************)
SlotKeptOnlyForData ==
  \A t \in Threads : InCommit(t) /\ holding[t] => collected[t]

(***************************************************************************)
(* The nodes of a run implement the promise of compute_threads: a thread    *)
(* starts to compute only when fewer than `limit` others do.                *)
(***************************************************************************)
Bounded == INSTANCE BoundedCompute WITH computing <- Computing
ImplementsBoundedCompute == Bounded!Spec

(***************************************************************************)
(* Every run ends: no node waits for a slot for ever, although the nodes    *)
(* that keep theirs sleep and retry with it.                                *)
(***************************************************************************)
RunFinishes == <>[]AllDone
=============================================================================
