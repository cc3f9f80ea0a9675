---------------------------- MODULE ComputeSlots ----------------------------
(***************************************************************************)
(* src/dbt/adapters/polars/compute_slots.py: the semaphore that limits how  *)
(* many models run Polars at once, and the thread-local flags that decide   *)
(* who takes a slot, who gives one back and who must not.                   *)
(*                                                                         *)
(* The client is the most general one: a thread opens and closes `hold` and *)
(* `releasable` blocks in any nesting Python's `with` allows (a block also  *)
(* closes when its body raises) and calls `release` and `ensure_held` at    *)
(* any moment.  ModelRun is the client the adapter really has.              *)
(***************************************************************************)
EXTENDS Naturals, Sequences, FiniteSets

CONSTANTS Threads,   \* threads that share the module-level compute_slots
          Limits,    \* values of compute_threads; 0 stands for None
          MaxDepth   \* bound on the nesting of with-blocks in one thread

ASSUME ThreadsAreFinite == IsFiniteSet(Threads)
ASSUME LimitsAreNaturals == Limits \subseteq Nat
ASSUME DepthIsNatural == MaxDepth \in Nat

VARIABLES
  limit,       \* what the semaphore was created with; 0: there is none
  permits,     \* the semaphore's counter
  running,     \* state.running_model of each thread
  holding,     \* state.holding of each thread
  releasable,  \* state.releasable of each thread
  blocks,      \* each thread's open with-blocks, innermost last
  waiting      \* where a thread blocks in semaphore.acquire(), or "no"

vars == <<limit, permits, running, holding, releasable, blocks, waiting>>

(***************************************************************************)
(* A block remembers what its `finally` needs: a `slot` block is a hold()   *)
(* that took a slot, a `nested` block a hold() that just yields, and a      *)
(* `releasable` block keeps its argument and the flag's previous value.     *)
(***************************************************************************)
Block == [kind : {"slot", "nested", "releasable"}, enabled : BOOLEAN, previous : BOOLEAN]

Holders == {t \in Threads : holding[t]}

Top(t) == blocks[t][Len(blocks[t])]

BlocksOf(t, kind) == {i \in 1..Len(blocks[t]) : blocks[t][i].kind = kind}

Push(t, block) == blocks' = [blocks EXCEPT ![t] = Append(@, block)]

HoldBlock(kind) == [kind |-> kind, enabled |-> FALSE, previous |-> FALSE]

Pop(t) == blocks' = [blocks EXCEPT ![t] = SubSeq(@, 1, Len(@) - 1)]

\* The thread executes client code and may open another block.
Active(t) == waiting[t] = "no"
MayOpen(t) == Active(t) /\ Len(blocks[t]) < MaxDepth

Init ==
  /\ limit \in Limits
  /\ permits = limit
  /\ running = [t \in Threads |-> FALSE]
  /\ holding = [t \in Threads |-> FALSE]
  /\ releasable = [t \in Threads |-> FALSE]
  /\ blocks = [t \in Threads |-> <<>>]
  /\ waiting = [t \in Threads |-> "no"]

-----------------------------------------------------------------------------
(***************************************************************************)
(* configure(), called by PolarsAdapter.__init__.  dbt builds its adapter   *)
(* before it runs nodes, so no thread is inside a block at that moment.     *)
(***************************************************************************)
Configure(l) ==
  /\ \A t \in Threads : blocks[t] = <<>> /\ Active(t)
  /\ limit' = l
  /\ permits' = l
  /\ UNCHANGED <<running, holding, releasable, blocks, waiting>>

\* Mutant: the counter is taken from without waiting for it to be positive.
CanTakeAnytime == TRUE

\* semaphore.acquire() (lines 37 and 73) blocks while the counter is zero.
CanTake == permits > 0

\* Mutant: hold() no longer recognises that the thread already runs a model.
HoldPassesUnlimited(t) == limit = 0

\* Line 34: hold() only yields without a limit, or inside another hold().
HoldPasses(t) == limit = 0 \/ running[t]

HoldNested(t) ==
  /\ MayOpen(t)
  /\ HoldPasses(t)
  /\ Push(t, HoldBlock("nested"))
  /\ UNCHANGED <<limit, permits, running, holding, releasable, waiting>>

HoldWait(t) ==
  /\ MayOpen(t)
  /\ ~HoldPasses(t)
  /\ waiting' = [waiting EXCEPT ![t] = "hold"]
  /\ UNCHANGED <<limit, permits, running, holding, releasable, blocks>>

HoldAcquire(t) ==
  /\ waiting[t] = "hold"
  /\ CanTake
  /\ permits' = permits - 1
  /\ running' = [running EXCEPT ![t] = TRUE]
  /\ holding' = [holding EXCEPT ![t] = TRUE]
  /\ waiting' = [waiting EXCEPT ![t] = "no"]
  /\ Push(t, HoldBlock("slot"))
  /\ UNCHANGED <<limit, releasable>>

ReleasableEnter(t, enabled) ==
  /\ MayOpen(t)
  /\ releasable' = [releasable EXCEPT ![t] = enabled]
  /\ Push(t, [kind |-> "releasable", enabled |-> enabled, previous |-> releasable[t]])
  /\ UNCHANGED <<limit, permits, running, holding, waiting>>

\* Lines 59-63: the calls of release() that do something.
Releases(t) == limit # 0 /\ holding[t] /\ releasable[t]

Release(t) ==
  /\ Active(t)
  /\ Releases(t)
  /\ permits' = permits + 1
  /\ holding' = [holding EXCEPT ![t] = FALSE]
  /\ UNCHANGED <<limit, running, releasable, blocks, waiting>>

\* Mutant: ensure_held() acquires without asking whether a slot is held.
NeedsSlotWhenRunning(t) == limit # 0 /\ running[t]

\* Lines 68-72: the calls of ensure_held() that do something.
NeedsSlot(t) == limit # 0 /\ running[t] /\ ~holding[t]

EnsureWait(t) ==
  /\ Active(t)
  /\ NeedsSlot(t)
  /\ waiting' = [waiting EXCEPT ![t] = "ensure"]
  /\ UNCHANGED <<limit, permits, running, holding, releasable, blocks>>

EnsureAcquire(t) ==
  /\ waiting[t] = "ensure"
  /\ CanTake
  /\ permits' = permits - 1
  /\ holding' = [holding EXCEPT ![t] = TRUE]
  /\ waiting' = [waiting EXCEPT ![t] = "no"]
  /\ UNCHANGED <<limit, running, releasable, blocks>>

-----------------------------------------------------------------------------
(***************************************************************************)
(* Leaving a block, at its end or because its body raised: the `finally`    *)
(* clauses.  Only the innermost block of a thread can close.                *)
(***************************************************************************)
CanClose(t, kind) == Active(t) /\ blocks[t] # <<>> /\ Top(t).kind = kind

\* Mutant: the finally clause gives back a slot that release() already gave back.
PermitsAfterHoldTwice(t) == permits + 1

\* Mutant: the slot is only given back by a commit.
PermitsAfterHoldKept(t) == permits

PermitsAfterHold(t) == IF holding[t] THEN permits + 1 ELSE permits

HoldExit(t) ==
  /\ CanClose(t, "slot")
  /\ permits' = PermitsAfterHold(t)
  /\ running' = [running EXCEPT ![t] = FALSE]
  /\ holding' = [holding EXCEPT ![t] = FALSE]
  /\ Pop(t)
  /\ UNCHANGED <<limit, releasable, waiting>>

NestedExit(t) ==
  /\ CanClose(t, "nested")
  /\ Pop(t)
  /\ UNCHANGED <<limit, permits, running, holding, releasable, waiting>>

\* Mutant: the finally clause sets the flag to what the block enabled.
FlagAfterKept(t) == releasable[t]

FlagAfter(t) == Top(t).previous

ReleasableExit(t) ==
  /\ CanClose(t, "releasable")
  /\ releasable' = [releasable EXCEPT ![t] = FlagAfter(t)]
  /\ Pop(t)
  /\ UNCHANGED <<limit, permits, running, holding, waiting>>

Enter(t) == HoldNested(t) \/ HoldWait(t) \/ \E b \in BOOLEAN : ReleasableEnter(t, b)
Acquire(t) == HoldAcquire(t) \/ EnsureAcquire(t)
Call(t) == Release(t) \/ EnsureWait(t)
Exit(t) == HoldExit(t) \/ NestedExit(t) \/ ReleasableExit(t)

Next ==
  \/ \E l \in Limits : Configure(l)
  \/ \E t \in Threads : Enter(t) \/ Acquire(t) \/ Call(t) \/ Exit(t)

Spec == Init /\ [][Next]_vars

-----------------------------------------------------------------------------
TypeOK ==
  /\ limit \in Limits
  /\ permits \in Nat
  /\ running \in [Threads -> BOOLEAN]
  /\ holding \in [Threads -> BOOLEAN]
  /\ releasable \in [Threads -> BOOLEAN]
  /\ blocks \in [Threads -> Seq(Block)]
  /\ waiting \in [Threads -> {"no", "hold", "ensure"}]

(***************************************************************************)
(* No slot is lost or invented: the semaphore's counter and the threads     *)
(* that hold a slot always add up to the limit, whatever the order of       *)
(* releases, commits that raise and closing blocks.  A slot released twice  *)
(* (once by the commit, once by hold's finally) or not at all breaks it.    *)
(***************************************************************************)
SlotsConserved == limit # 0 => permits + Cardinality(Holders) = limit

(***************************************************************************)
(* No thread waits for a slot while it holds one: hold() inside hold() and  *)
(* ensure_held() both look before they acquire.                             *)
(***************************************************************************)
NoHoldAndWait == \A t \in Threads : waiting[t] # "no" => ~holding[t]

(***************************************************************************)
(* When every slot is taken, a thread that is not itself waiting for a slot *)
(* has one of them, so the waiting threads are never all of the holders: no *)
(* group of models deadlocks on the semaphore.                              *)
(***************************************************************************)
SomeHolderRuns ==
  limit # 0 /\ permits = 0 => \E t \in Threads : holding[t] /\ Active(t)

(***************************************************************************)
(* A worker thread runs one node after the other: outside every block       *)
(* nothing of the previous node is left in the thread-local state, even     *)
(* when that node released its slot at the commit or failed half way.       *)
(***************************************************************************)
CleanWhenIdle ==
  \A t \in Threads :
    blocks[t] = <<>> => ~running[t] /\ ~holding[t] /\ ~releasable[t]

\* The releasable() block the thread is in allows release(), whatever the blocks
\* around it and those already closed were opened with.
InnermostEnables(t) ==
  \E i \in BlocksOf(t, "releasable") :
    /\ blocks[t][i].enabled
    /\ \A j \in BlocksOf(t, "releasable") : j <= i

(***************************************************************************)
(* A model gives its slot up in the middle of its run only where the        *)
(* innermost open releasable() was called with TRUE: never while the        *)
(* _commit it is in was handed collected data, also when that _commit is    *)
(* nested in one that was not, or follows one that raised.                  *)
(***************************************************************************)
InnermostBlockDecides ==
  [][\A t \in Threads :
       holding[t] /\ running'[t] /\ ~holding'[t] => InnermostEnables(t)]_vars

(***************************************************************************)
(* The threads with a slot are the threads that compute: the semaphore and  *)
(* its flags implement the limit.                                           *)
(***************************************************************************)
Bounded == INSTANCE BoundedCompute WITH computing <- Holders
ImplementsBoundedCompute == Bounded!Spec
=============================================================================
