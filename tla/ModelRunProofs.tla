---------------------------- MODULE ModelRunProofs ----------------------------
(***************************************************************************)
(* Proofs about ModelRun for every number of threads, nodes and slots.  The *)
(* nodes are a client of ComputeSlots: every step of a node is a step of    *)
(* the semaphore or leaves it alone, so what is proved of ComputeSlots      *)
(* holds of the run.  The inductive invariant adds which blocks are open at *)
(* each step of a node's program and where the slot may be missing.         *)
(***************************************************************************)
EXTENDS ModelRun, FiniteSetTheorems, SequenceTheorems, TLAPS

SlotProofs == INSTANCE ComputeSlotsProofs

-----------------------------------------------------------------------------
\* Step i of a program lies between `hold` and `leave`.
Inside(k, i) ==
  /\ \E h \in 1..(i - 1) : Program[k][h] = "hold"
  /\ \A l \in 1..(i - 1) : Program[k][l] # "leave"

\* A frame was collected before step i of the model.
Loaded(k, i) ==
  /\ \E c \in 1..(i - 1) : Program[k][c] \in ComputeOps
  /\ \A l \in 1..(i - 1) : Program[k][l] # "leave"

CommitsLazily(k) == \E i \in 1..Len(Program[k]) : Program[k][i] = "commitLazy"

CommitPhases == {"entered", "sleep", "ensure", "write", "commit", "committed", "refused"}

\* The block of the model itself, and the block of one of its commits.
HoldBlock == Slots!HoldBlock(IF limit = 0 THEN "nested" ELSE "slot")
CommitBlock(t) == [kind |-> "releasable", enabled |-> DataIsLazy(Op(t)), previous |-> FALSE]

Outer(t) == IF Inside(kind[t], step[t]) THEN <<HoldBlock>> ELSE <<>>

\* Where a thread can be in its node's program.
PlaceInv(t) ==
  /\ phase[t] = "idle" <=> kind[t] = "none"
  /\ phase[t] # "idle" => step[t] \in 1..(Len(Steps(t)) + 1)
  /\ phase[t] = "computing" => ~AtEnd(t) /\ Op(t) \in ComputeOps
  /\ phase[t] \in CommitPhases => ~AtEnd(t) /\ Op(t) \in CommitOps
  /\ phase[t] = "backoff" =>
       ~AtEnd(t) /\ Op(t) \in MetadataOps /\ attempt[t] < COMMIT_ATTEMPTS

\* The with-blocks that are open there.
BlocksInv(t) ==
  /\ phase[t] = "idle" => blocks[t] = <<>>
  /\ phase[t] \in {"op", "computing", "backoff"} => blocks[t] = Outer(t)
  /\ phase[t] \in CommitPhases =>
       /\ blocks[t] = Append(Outer(t), CommitBlock(t))
       /\ releasable[t] = DataIsLazy(Op(t))
  /\ phase[t] = "raise" =>
       blocks[t] \in {<<>>, Outer(t), Append(Outer(t), CommitBlock(t))}

\* A model is without its slot only during and after the commit of a lazy frame.
SlotInv(t) ==
  running[t] /\ ~holding[t] =>
    /\ CommitsLazily(kind[t])
    /\ \/ phase[t] \in {"sleep", "ensure", "commit", "committed", "refused"}
            /\ Op(t) = "commitLazy"
       \/ phase[t] = "op" /\ ~AtEnd(t) /\ Op(t) = "leave"
       \/ phase[t] = "raise"

\* A wait for the catalog begins by giving up what may be given up.
GivenInv(t) ==
  phase[t] \in {"sleep", "commit"} /\ releasable[t] => ~holding[t]

\* The frames in memory are those collected since the model began.
DataInv(t) ==
  /\ collected[t] =>
       /\ phase[t] # "idle" /\ blocks[t] # <<>>
       /\ Inside(kind[t], step[t]) /\ Loaded(kind[t], step[t])
  /\ phase[t] \notin {"idle", "raise"} /\ Loaded(kind[t], step[t]) => collected[t]

NodeInv(t) ==
  PlaceInv(t) /\ BlocksInv(t) /\ SlotInv(t) /\ GivenInv(t) /\ DataInv(t)

IInv ==
  /\ TypeOK
  /\ SlotProofs!IInv
  /\ \A t \in Threads : NodeInv(t)

-----------------------------------------------------------------------------
\* What the proofs use of the seven programs.
LEMMA ProgramFacts ==
  ASSUME NEW k \in AllKinds
  PROVE  /\ Len(Program[k]) \in 4..6
         /\ ~Inside(k, Len(Program[k]) + 1)
         /\ \A i \in 1..Len(Program[k]) :
              /\ Program[k][i] \in CommitOps \cup ComputeOps \cup {"hold", "leave"}
              /\ Program[k][i] = "hold" => ~Inside(k, i) /\ Inside(k, i + 1)
              /\ Program[k][i] = "leave" => Inside(k, i)
              /\ Program[k][i] \in ComputeOps => Inside(k, i)
              /\ Program[k][i] \in CommitOps \ {"commitLazy"} /\ Inside(k, i) =>
                   Loaded(k, i)
              /\ Program[k][i] = "commitLazy" =>
                   Inside(k, i) /\ i < Len(Program[k]) /\ Program[k][i + 1] = "leave"
<1>1. CASE k = "table"
  <2>1. Program[k] = <<"truncate", "hold", "commitLazy", "leave", "comment">>
    BY <1>1 DEF Program
  <2> QED
    BY <2>1 DEF Inside, Loaded, ComputeOps, CommitOps, MetadataOps
<1>2. CASE k = "merge"
  <2>1. Program[k] = <<"hold", "collect", "evolve", "commitRows", "leave", "comment">>
    BY <1>2 DEF Program
  <2> QED
    BY <2>1 DEF Inside, Loaded, ComputeOps, CommitOps, MetadataOps
<1>3. CASE k = "deleteInsert"
  <2>1. Program[k] = <<"hold", "collect", "commitRows", "commitFrame", "leave", "comment">>
    BY <1>3 DEF Program
  <2> QED
    BY <2>1 DEF Inside, Loaded, ComputeOps, CommitOps, MetadataOps
<1>4. CASE k = "snapshot"
  <2>1. Program[k] = <<"hold", "collect", "commitRows", "leave">>
    BY <1>4 DEF Program
  <2> QED
    BY <2>1 DEF Inside, Loaded, ComputeOps, CommitOps, MetadataOps
<1>5. CASE k = "seed"
  <2>1. Program[k] = <<"truncate", "hold", "collect", "commitFrame", "leave", "comment">>
    BY <1>5 DEF Program
  <2> QED
    BY <2>1 DEF Inside, Loaded, ComputeOps, CommitOps, MetadataOps
<1>6. CASE k = "test"
  <2>1. Program[k] = <<"hold", "collect", "storeFailures", "summarize", "leave">>
    BY <1>6 DEF Program
  <2> QED
    BY <2>1 DEF Inside, Loaded, ComputeOps, CommitOps, MetadataOps
<1>7. CASE k = "pythonFrame"
  <2>1. Program[k] = <<"hold", "collect", "commitLazy", "leave", "comment">>
    BY <1>7 DEF Program
  <2>2. \A i \in 1..6 : Inside(k, i) <=> i \in 2..4
    BY <2>1 DEF Inside
  <2>3. Len(Program[k]) = 5
    BY <2>1
  <2> QED
    BY <2>1, <2>2, <2>3 DEF ComputeOps, CommitOps, MetadataOps
<1> QED
  BY <1>1, <1>2, <1>3, <1>4, <1>5, <1>6, <1>7 DEF AllKinds, Program

\* Passing a step moves a node in or out of its model only at hold and leave,
\* and loads a frame only at a step that computes.
LEMMA PassingStep ==
  ASSUME NEW k \in AllKinds, NEW i \in 1..Len(Program[k])
  PROVE  /\ ~Inside(k, 1) /\ ~Loaded(k, 1)
         /\ Program[k][i] \notin {"hold", "leave"} =>
              (Inside(k, i + 1) <=> Inside(k, i))
         /\ Program[k][i] = "leave" => ~Inside(k, i + 1) /\ ~Loaded(k, i + 1)
         /\ Program[k][i] \notin ComputeOps \cup {"leave"} =>
              (Loaded(k, i + 1) <=> Loaded(k, i))
         /\ Program[k][i] \in ComputeOps => (Inside(k, i) => Loaded(k, i + 1))
         /\ Loaded(k, i) => Inside(k, i)
<1>1. i \in Nat \ {0} /\ \A j \in 1..i : j \in 1..(i - 1) \/ j = i
  BY ProgramFacts
<1>2. i + 1 - 1 = i
  BY <1>1
<1>3. ~Inside(k, 1) /\ ~Loaded(k, 1)
  BY DEF Inside, Loaded
<1>4. ASSUME Program[k][i] \notin {"hold", "leave"}
      PROVE  Inside(k, i + 1) <=> Inside(k, i)
  BY <1>1, <1>2, <1>4 DEF Inside
<1>5. Program[k][i] = "leave" => ~Inside(k, i + 1) /\ ~Loaded(k, i + 1)
  BY <1>1, <1>2 DEF Inside, Loaded
<1>6. ASSUME Program[k][i] \notin ComputeOps \cup {"leave"}
      PROVE  Loaded(k, i + 1) <=> Loaded(k, i)
  BY <1>1, <1>2, <1>6 DEF Loaded
<1>7. ASSUME Program[k][i] \in ComputeOps, Inside(k, i)
      PROVE  Loaded(k, i + 1)
  BY <1>1, <1>2, <1>7 DEF Inside, Loaded, ComputeOps
<1>8. ASSUME Loaded(k, i)
      PROVE  Inside(k, i)
  <2>1. PICK c \in 1..(i - 1) : Program[k][c] \in ComputeOps
    BY <1>8 DEF Loaded
  <2>2. c \in 1..Len(Program[k]) /\ Inside(k, c)
    BY <2>1, ProgramFacts
  <2>3. PICK h \in 1..(c - 1) : Program[k][h] = "hold"
    BY <2>2 DEF Inside
  <2> QED
    BY <1>1, <1>8, <2>3 DEF Inside, Loaded
<1> QED
  BY <1>3, <1>4, <1>5, <1>6, <1>7, <1>8

\* Only Python models both collect a frame and commit a lazy one.
LEMMA LoadedOrLazy ==
  ASSUME NEW k \in AllKinds, k # "pythonFrame",
         NEW i \in 1..(Len(Program[k]) + 1), Loaded(k, i)
  PROVE  ~CommitsLazily(k)
<1>1. \E c \in 1..Len(Program[k]) : Program[k][c] \in ComputeOps
  BY ProgramFacts DEF Loaded
<1>2. CASE k = "table"
  <2>1. Program[k] = <<"truncate", "hold", "commitLazy", "leave", "comment">>
    BY <1>2 DEF Program
  <2> QED
    BY <1>1, <2>1 DEF ComputeOps
<1>3. CASE k = "merge"
  <2>1. Program[k] = <<"hold", "collect", "evolve", "commitRows", "leave", "comment">>
    BY <1>3 DEF Program
  <2> QED
    BY <2>1 DEF CommitsLazily
<1>4. CASE k = "deleteInsert"
  <2>1. Program[k] = <<"hold", "collect", "commitRows", "commitFrame", "leave", "comment">>
    BY <1>4 DEF Program
  <2> QED
    BY <2>1 DEF CommitsLazily
<1>5. CASE k = "snapshot"
  <2>1. Program[k] = <<"hold", "collect", "commitRows", "leave">>
    BY <1>5 DEF Program
  <2> QED
    BY <2>1 DEF CommitsLazily
<1>6. CASE k = "seed"
  <2>1. Program[k] = <<"truncate", "hold", "collect", "commitFrame", "leave", "comment">>
    BY <1>6 DEF Program
  <2> QED
    BY <2>1 DEF CommitsLazily
<1>7. CASE k = "test"
  <2>1. Program[k] = <<"hold", "collect", "storeFailures", "summarize", "leave">>
    BY <1>7 DEF Program
  <2> QED
    BY <2>1 DEF CommitsLazily
<1> QED
  BY <1>2, <1>3, <1>4, <1>5, <1>6, <1>7 DEF AllKinds, Program

-----------------------------------------------------------------------------
(***************************************************************************)
(* The nodes are a client of the semaphore: each of their steps is one call *)
(* of it or none.                                                           *)
(***************************************************************************)
LEMMA NodeStepIsSlotStep ==
  ASSUME NEW t \in Threads, RunNode(t) \/ IntervalPasses(t)
  PROVE  [Slots!Next]_slotVars
<1>1. CASE UNCHANGED slotVars
  BY <1>1
<1>2. CASE \/ Slots!HoldNested(t) \/ Slots!HoldWait(t)
           \/ \E b \in BOOLEAN : Slots!ReleasableEnter(t, b)
  BY <1>2 DEF Slots!Next, Slots!Enter
<1>3. CASE Slots!HoldAcquire(t) \/ Slots!EnsureAcquire(t)
  BY <1>3 DEF Slots!Next, Slots!Acquire
<1>4. CASE Slots!Release(t) \/ Slots!EnsureWait(t)
  BY <1>4 DEF Slots!Next, Slots!Call
<1>5. CASE Slots!Exit(t) \/ Slots!HoldExit(t) \/ Slots!NestedExit(t)
             \/ Slots!ReleasableExit(t)
  BY <1>5 DEF Slots!Next, Slots!Exit
<1>6. ASSUME EnterCommit(t)
      PROVE  \E b \in BOOLEAN : Slots!ReleasableEnter(t, b)
  <2>1. DataIsLazy(Op(t)) \in BOOLEAN
    BY DEF DataIsLazy
  <2> QED
    BY <1>6, <2>1 DEF EnterCommit
<1> QED
  BY <1>1, <1>2, <1>3, <1>4, <1>5, <1>6
     DEF RunNode, IntervalPasses, StartNode, Skip, WaitForSlot, BeginModel, EndModel,
         Compute, Computed, Pace, Wake, EnsureHeld, SendCommit, Accepted, Refused,
         LeaveCommit, LeaveRefused, Retry, Fail, Unwind, NodeEnds, Stay, GiveSlot

LEMMA StepIsSlotStep == [Next]_vars => [Slots!Next]_slotVars
  BY NodeStepIsSlotStep DEF Next, RunEnds, vars

(***************************************************************************)
(* A run of nodes uses the semaphore as ComputeSlots describes its clients, *)
(* so everything proved about the slots holds of the run.                   *)
(***************************************************************************)
THEOREM NodesUseSlots == Spec => Slots!Spec
<1>1. Init => Slots!Init
  BY DEF Init
<1>2. [Next]_vars => [Slots!Next]_(Slots!vars)
  BY StepIsSlotStep DEF slotVars, Slots!vars
<1> QED
  BY <1>1, <1>2, PTL DEF Spec, Slots!Spec

\* The invariant of the slots, carried over.
LEMMA SlotAssumptions ==
  /\ SlotProofs!IsFiniteSet(Threads)
  /\ Limits \subseteq Nat /\ MaxDepth \in Nat
  BY ThreadsAreFinite, LimitsAreNaturals, DepthIsNatural
     DEF SlotProofs!IsFiniteSet, IsFiniteSet

LEMMA SlotsInit == Init => SlotProofs!IInv
  BY SlotProofs!InitInv, SlotAssumptions DEF Init, Slots!Init, SlotProofs!Init

LEMMA SlotsKept == SlotProofs!IInv /\ [Next]_vars => SlotProofs!IInv'
<1>1. ASSUME UNCHANGED slotVars
      PROVE  UNCHANGED SlotProofs!vars
  BY <1>1 DEF slotVars, SlotProofs!vars
<1>2. ASSUME Slots!Next
      PROVE  SlotProofs!Next
  <2> USE DEF Slots!Push, SlotProofs!Push, Slots!Pop, SlotProofs!Pop,
              Slots!Active, SlotProofs!Active, Slots!MayOpen, SlotProofs!MayOpen,
              Slots!CanTake, SlotProofs!CanTake, Slots!CanClose, SlotProofs!CanClose,
              Slots!Top, SlotProofs!Top, Slots!HoldBlock, SlotProofs!HoldBlock
  <2>1. ASSUME NEW l \in Limits, Slots!Configure(l)
        PROVE  SlotProofs!Configure(l)
    BY <2>1 DEF Slots!Configure, SlotProofs!Configure
  <2>2. ASSUME NEW t \in Threads, Slots!Enter(t)
        PROVE  SlotProofs!Enter(t)
    BY <2>2 DEF Slots!Enter, SlotProofs!Enter, Slots!HoldNested, SlotProofs!HoldNested,
                Slots!HoldWait, SlotProofs!HoldWait, Slots!HoldPasses,
                SlotProofs!HoldPasses, Slots!ReleasableEnter, SlotProofs!ReleasableEnter
  <2>3. ASSUME NEW t \in Threads, Slots!Acquire(t)
        PROVE  SlotProofs!Acquire(t)
    BY <2>3 DEF Slots!Acquire, SlotProofs!Acquire, Slots!HoldAcquire,
                SlotProofs!HoldAcquire, Slots!EnsureAcquire, SlotProofs!EnsureAcquire
  <2>4. ASSUME NEW t \in Threads, Slots!Call(t)
        PROVE  SlotProofs!Call(t)
    BY <2>4 DEF Slots!Call, SlotProofs!Call, Slots!Release, SlotProofs!Release,
                Slots!Releases, SlotProofs!Releases, Slots!EnsureWait,
                SlotProofs!EnsureWait, Slots!NeedsSlot, SlotProofs!NeedsSlot
  <2>5. ASSUME NEW t \in Threads, Slots!Exit(t)
        PROVE  SlotProofs!Exit(t)
    BY <2>5 DEF Slots!Exit, SlotProofs!Exit, Slots!HoldExit, SlotProofs!HoldExit,
                Slots!PermitsAfterHold, SlotProofs!PermitsAfterHold, Slots!NestedExit,
                SlotProofs!NestedExit, Slots!ReleasableExit, SlotProofs!ReleasableExit,
                Slots!FlagAfter, SlotProofs!FlagAfter
  <2> QED
    BY <1>2, <2>1, <2>2, <2>3, <2>4, <2>5 DEF Slots!Next, SlotProofs!Next
<1> QED
  BY <1>1, <1>2, StepIsSlotStep, SlotProofs!NextInv, SlotAssumptions

-----------------------------------------------------------------------------
(***************************************************************************)
(* What the open blocks say of the flags: outside a model they are down, a  *)
(* model with a limit runs, and only a commit's block raises `releasable`.  *)
(***************************************************************************)
FlagsFit(t) ==
  /\ limit \in Nat /\ (running[t] => limit # 0) /\ (holding[t] => running[t])
  /\ blocks[t] \in {<<>>, <<CommitBlock(t)>>} => ~running[t]
  /\ blocks[t] = <<HoldBlock>> => (running[t] <=> limit # 0)
  /\ blocks[t] = <<HoldBlock, CommitBlock(t)>> => (running[t] <=> limit # 0)
  /\ blocks[t] \in {<<>>, <<HoldBlock>>} => ~releasable[t]

LEMMA FlagsOfBlocks ==
  ASSUME NEW t \in Threads
  PROVE  SlotProofs!IInv => FlagsFit(t)
<1> SUFFICES ASSUME SlotProofs!IInv PROVE FlagsFit(t)
  OBVIOUS
<1>1. SlotProofs!ThreadInv(t) /\ limit \in Nat
  BY SlotAssumptions DEF SlotProofs!IInv, SlotProofs!TypeOK
<1>2. running[t] <=> \E i \in 1..Len(blocks[t]) : blocks[t][i].kind = "slot"
  BY <1>1 DEF SlotProofs!ThreadInv, SlotProofs!SlotBlockMatches, SlotProofs!SlotBlocks,
              SlotProofs!BlocksOf
<1>3. (\A i \in 1..Len(blocks[t]) : blocks[t][i].kind # "releasable") => ~releasable[t]
  BY <1>1 DEF SlotProofs!ThreadInv, SlotProofs!FlagInv, SlotProofs!EnabledBefore,
              SlotProofs!ReleasableBlocks, SlotProofs!BlocksOf
<1>4. blocks[t] \in {<<>>, <<CommitBlock(t)>>} => ~running[t]
  BY <1>2 DEF CommitBlock
<1>5. blocks[t] = <<HoldBlock>> => (running[t] <=> limit # 0)
  BY <1>2 DEF HoldBlock, Slots!HoldBlock
<1>6. blocks[t] = <<HoldBlock, CommitBlock(t)>> => (running[t] <=> limit # 0)
  BY <1>2 DEF HoldBlock, Slots!HoldBlock, CommitBlock
<1>7. blocks[t] \in {<<>>, <<HoldBlock>>} => ~releasable[t]
  BY <1>3 DEF HoldBlock, Slots!HoldBlock
<1> QED
  BY <1>1, <1>4, <1>5, <1>6, <1>7 DEF SlotProofs!ThreadInv, FlagsFit

LEMMA FlagsOfBlocksNext ==
  ASSUME NEW t \in Threads
  PROVE  SlotProofs!IInv' => FlagsFit(t)'
  BY FlagsOfBlocks, PTL

LEMMA PrimedPlace ==
  ASSUME NEW t
  PROVE  /\ Inside(kind[t], step[t])' <=> Inside(kind'[t], step'[t])
         /\ Loaded(kind[t], step[t])' <=> Loaded(kind'[t], step'[t])
  BY DEF Inside, Loaded

-----------------------------------------------------------------------------
\* The part of TypeOK that is not about the slots.
NodeTypeOK ==
  /\ todo \in 0..NodeCount
  /\ kind \in [Threads -> Kinds \cup {"none"}]
  /\ step \in [Threads -> 1..7]
  /\ phase \in [Threads -> Phases]
  /\ attempt \in [Threads -> 1..COMMIT_ATTEMPTS]
  /\ collected \in [Threads -> BOOLEAN]
  /\ recent \in [Threads -> BOOLEAN]

LEMMA TypeParts == SlotProofs!IInv /\ NodeTypeOK => TypeOK
  BY DEF TypeOK, NodeTypeOK, Slots!TypeOK, Slots!Block, SlotProofs!IInv, SlotProofs!TypeOK,
         SlotProofs!Block

\* A step of thread t leaves the other threads and the limit as they are.
Untouched(t) ==
  /\ limit' = limit
  /\ \A u \in Threads \ {t} :
       /\ kind'[u] = kind[u] /\ step'[u] = step[u] /\ phase'[u] = phase[u]
       /\ attempt'[u] = attempt[u] /\ collected'[u] = collected[u]
       /\ running'[u] = running[u] /\ holding'[u] = holding[u]
       /\ releasable'[u] = releasable[u] /\ blocks'[u] = blocks[u]

LEMMA OthersKeepInv ==
  ASSUME NEW t \in Threads, NEW u \in Threads \ {t}, Untouched(t), NodeInv(u)
  PROVE  NodeInv(u)'
<1>1. /\ limit' = limit
      /\ kind'[u] = kind[u] /\ step'[u] = step[u] /\ phase'[u] = phase[u]
      /\ attempt'[u] = attempt[u] /\ collected'[u] = collected[u]
      /\ running'[u] = running[u] /\ holding'[u] = holding[u]
      /\ releasable'[u] = releasable[u] /\ blocks'[u] = blocks[u]
  BY DEF Untouched
<1>2. AtEnd(u)' = AtEnd(u) /\ Steps(u)' = Steps(u) /\ Op(u)' = Op(u)
  BY <1>1 DEF AtEnd, Steps, Op
<1>3. HoldBlock' = HoldBlock /\ CommitBlock(u)' = CommitBlock(u) /\ Outer(u)' = Outer(u)
  BY <1>1, <1>2 DEF HoldBlock, CommitBlock, Outer, Inside, DataIsLazy, Slots!HoldBlock
<1>4. PlaceInv(u)'
  BY <1>1, <1>2 DEF NodeInv, PlaceInv
<1>5. BlocksInv(u)'
  BY <1>1, <1>2, <1>3 DEF NodeInv, BlocksInv, DataIsLazy
<1>6. SlotInv(u)'
  BY <1>1, <1>2 DEF NodeInv, SlotInv, CommitsLazily
<1>7. GivenInv(u)'
  BY <1>1 DEF NodeInv, GivenInv
<1>8. DataInv(u)'
  BY <1>1 DEF NodeInv, DataInv, Inside, Loaded
<1> QED
  BY <1>4, <1>5, <1>6, <1>7, <1>8 DEF NodeInv

\* Opening and closing blocks of a thread that has at most two.
LEMMA SecondBlock == ASSUME NEW a, NEW b PROVE Append(<<a>>, b) = <<a, b>>
<1> DEFINE s == Append(<<a>>, b)
           u == <<a, b>>
<1>1. /\ <<a>> \in Seq({a, b})
      /\ u \in Seq({a, b}) /\ Len(u) = 2 /\ u[1] = a /\ u[2] = b
  OBVIOUS
<1>2. s \in Seq({a, b}) /\ Len(s) = 2 /\ s[1] = a /\ s[2] = b
  BY <1>1
<1>3. 1..2 = {1, 2}
  OBVIOUS
<1> HIDE DEF s, u
<1>4. \A i \in 1..Len(s) : s[i] = u[i]
  BY <1>1, <1>2, <1>3
<1>5. s = u
  BY <1>1, <1>2, <1>4, SeqEqual
<1> QED
  BY <1>5 DEF s, u

LEMMA SecondBlockCloses ==
  ASSUME NEW a, NEW b PROVE SubSeq(<<a, b>>, 1, Len(<<a, b>>) - 1) = <<a>>
<1> DEFINE s == SubSeq(<<a, b>>, 1, 1)
           u == <<a>>
<1>1. /\ Len(<<a, b>>) - 1 = 1 /\ <<a, b>> \in Seq({a, b})
      /\ u \in Seq({a, b}) /\ Len(u) = 1 /\ u[1] = a
  OBVIOUS
<1>2. s \in Seq({a, b}) /\ Len(s) = 1 /\ s[1] = a
  BY <1>1
<1>3. 1..1 = {1}
  OBVIOUS
<1> HIDE DEF s, u
<1>4. \A i \in 1..Len(s) : s[i] = u[i]
  BY <1>1, <1>2, <1>3
<1>5. s = u
  BY <1>1, <1>2, <1>4, SeqEqual
<1> QED
  BY <1>1, <1>5 DEF s, u

LEMMA SmallStacks ==
  ASSUME NEW a, NEW b
  PROVE  /\ Append(<<>>, a) = <<a>> /\ Append(<<a>>, b) = <<a, b>>
         /\ SubSeq(<<a>>, 1, Len(<<a>>) - 1) = <<>>
         /\ SubSeq(<<a, b>>, 1, Len(<<a, b>>) - 1) = <<a>>
         /\ Len(<<>>) = 0 /\ Len(<<a>>) = 1 /\ Len(<<a, b>>) = 2
         /\ <<a>> # <<>> /\ <<a, b>> # <<>> /\ <<a>> # <<a, b>> /\ <<b>> # <<a, b>>
<1>1. /\ Append(<<>>, a) = <<a>>
      /\ SubSeq(<<a>>, 1, Len(<<a>>) - 1) = <<>>
  OBVIOUS
<1>2. /\ Len(<<>>) = 0 /\ Len(<<a>>) = 1 /\ Len(<<a, b>>) = 2
      /\ <<a>> # <<>> /\ <<a, b>> # <<>> /\ <<a>> # <<a, b>> /\ <<b>> # <<a, b>>
  OBVIOUS
<1> QED
  BY <1>1, <1>2, SecondBlock, SecondBlockCloses

\* What every step may assume of its thread.
LEMMA InvOfThread ==
  ASSUME IInv, NEW t \in Threads
  PROVE  /\ NodeTypeOK /\ SlotProofs!TypeOK
         /\ PlaceInv(t) /\ BlocksInv(t) /\ SlotInv(t) /\ GivenInv(t) /\ DataInv(t)
         /\ kind[t] # "none" => kind[t] \in AllKinds /\ kind[t] \in Kinds
  BY KindsAreKnown DEF IInv, TypeOK, NodeTypeOK, SlotProofs!IInv, NodeInv

\* Where the next step of thread t is, once it passes the one it is at.
LEMMA NextPlace ==
  ASSUME IInv, NEW t \in Threads, phase[t] # "idle", ~AtEnd(t), NextOp(t), kind' = kind
  PROVE  /\ kind[t] \in AllKinds /\ step[t] \in 1..Len(Program[kind[t]])
         /\ Op(t) = Program[kind[t]][step[t]]
         /\ step'[t] = step[t] + 1 /\ phase'[t] = "op" /\ kind'[t] = kind[t]
         /\ PlaceInv(t)'
         /\ step' \in [Threads -> 1..7] /\ phase' \in [Threads -> Phases]
         /\ attempt' \in [Threads -> 1..COMMIT_ATTEMPTS]
         /\ \A u \in Threads \ {t} :
              step'[u] = step[u] /\ phase'[u] = phase[u] /\ attempt'[u] = attempt[u]
<1>1. kind[t] \in AllKinds /\ step[t] \in 1..Len(Program[kind[t]])
  BY InvOfThread, ProgramFacts DEF PlaceInv, AtEnd, Steps, NodeTypeOK
<1>2. /\ step'[t] = step[t] + 1 /\ phase'[t] = "op" /\ kind'[t] = kind[t]
      /\ phase' \in [Threads -> Phases]
      /\ attempt' \in [Threads -> 1..COMMIT_ATTEMPTS]
      /\ \A u \in Threads \ {t} :
           step'[u] = step[u] /\ phase'[u] = phase[u] /\ attempt'[u] = attempt[u]
  BY InvOfThread DEF NodeTypeOK, NextOp, Goto, Phases, COMMIT_ATTEMPTS
<1>3. Len(Program[kind[t]]) \in 4..6
  BY <1>1, ProgramFacts
<1>4. step' \in [Threads -> 1..7]
  <2>1. \A n \in 4..6 : \A i \in 1..n : i + 1 \in 1..7
    OBVIOUS
  <2> QED
    BY <1>1, <1>3, <2>1, InvOfThread DEF NodeTypeOK, NextOp
<1>5. PlaceInv(t)'
  BY <1>1, <1>2, <1>3, InvOfThread DEF PlaceInv, CommitPhases, Steps, AtEnd, NodeTypeOK
<1> QED
  BY <1>1, <1>2, <1>4, <1>5 DEF Op, Steps

-----------------------------------------------------------------------------
(***************************************************************************)
(* One lemma per action: it touches only its own thread and keeps that      *)
(* thread's part of the invariant.                                          *)
(***************************************************************************)
Good(t) == NodeTypeOK' /\ Untouched(t) /\ NodeInv(t)'

LEMMA SkipStep ==
  ASSUME IInv, SlotProofs!IInv', NEW t \in Threads, Skip(t)
  PROVE  Good(t)
<1> USE DEF Skip, Stay, slotVars, At, SkippableOps
<1>1. phase[t] = "op" /\ ~AtEnd(t) /\ kind' = kind
  OBVIOUS
<1>2. Op(t) \in CommitOps \ {"commitLazy"}
  BY DEF CommitOps, MetadataOps
<1>3. NodeTypeOK' /\ Untouched(t)
  BY <1>1, NextPlace, InvOfThread DEF NodeTypeOK, Untouched
<1>4. /\ Inside(kind[t], step[t])' <=> Inside(kind[t], step[t])
      /\ Loaded(kind[t], step[t])' <=> Loaded(kind[t], step[t])
  <2>1. Op(t) \notin {"hold", "leave"} /\ Op(t) \notin ComputeOps \cup {"leave"}
    BY <1>2 DEF CommitOps, MetadataOps, ComputeOps
  <2> QED
    BY <1>1, <2>1, NextPlace, PassingStep, PrimedPlace
<1>5. BlocksInv(t)'
  BY <1>1, <1>4, NextPlace, InvOfThread DEF BlocksInv, CommitPhases, Outer, HoldBlock,
                                               Slots!HoldBlock
<1>6. SlotInv(t)' /\ GivenInv(t)'
  BY <1>1, <1>2, NextPlace, InvOfThread DEF SlotInv, GivenInv, CommitOps, MetadataOps
<1>7. DataInv(t)'
  BY <1>1, <1>4, NextPlace, InvOfThread DEF DataInv
<1> QED
  BY <1>1, <1>3, <1>5, <1>6, <1>7, NextPlace DEF Good, NodeInv

LEMMA StartNodeStep ==
  ASSUME IInv, SlotProofs!IInv', NEW t \in Threads, NEW k \in Kinds, StartNode(t, k)
  PROVE  Good(t)
<1> USE DEF StartNode, Stay, slotVars, Goto
<1>1. k \in AllKinds /\ k # "none"
  BY KindsAreKnown DEF AllKinds, Program
<1>2. Len(Program[k]) \in 4..6
  BY <1>1, ProgramFacts
<1>3. NodeTypeOK' /\ Untouched(t)
  BY InvOfThread, NodeCountIsNatural DEF NodeTypeOK, Untouched, Phases
<1>4. kind'[t] = k /\ step'[t] = 1 /\ phase'[t] = "op" /\ blocks'[t] = <<>>
  BY InvOfThread DEF NodeTypeOK, BlocksInv
<1>5. ~Inside(k, 1) /\ ~Loaded(k, 1)
  BY DEF Inside, Loaded
<1>6. ~collected'[t]
  BY InvOfThread DEF DataInv
<1>7. PlaceInv(t)'
  BY <1>1, <1>2, <1>4 DEF PlaceInv, CommitPhases, Steps
<1>8. BlocksInv(t)'
  BY <1>4, <1>5 DEF BlocksInv, CommitPhases, Outer
<1>9. ~running'[t]
  BY <1>4, FlagsOfBlocksNext DEF FlagsFit
<1>10. SlotInv(t)' /\ GivenInv(t)' /\ DataInv(t)'
  BY <1>4, <1>5, <1>6, <1>9 DEF SlotInv, GivenInv, DataInv
<1> QED
  BY <1>3, <1>7, <1>8, <1>10 DEF Good, NodeInv

LEMMA WaitForSlotStep ==
  ASSUME IInv, SlotProofs!IInv', NEW t \in Threads, WaitForSlot(t)
  PROVE  Good(t)
<1>1. /\ UNCHANGED nodeVars
      /\ UNCHANGED <<limit, permits, running, holding, releasable, blocks>>
  BY DEF WaitForSlot, Slots!HoldWait
<1>2. NodeTypeOK'
  BY <1>1, InvOfThread DEF NodeTypeOK, nodeVars
<1>3. Untouched(t)
  BY <1>1 DEF Untouched, nodeVars
<1>4. NodeInv(t)'
  BY <1>1, InvOfThread
     DEF NodeInv, PlaceInv, BlocksInv, SlotInv, GivenInv, DataInv, nodeVars, Steps, AtEnd,
         Op, Outer, HoldBlock, CommitBlock
<1> QED
  BY <1>2, <1>3, <1>4 DEF Good

\* hold() takes the model's slot, or only yields when no limit is set.
LEMMA BeginModelStep ==
  ASSUME IInv, SlotProofs!IInv', NEW t \in Threads, BeginModel(t)
  PROVE  Good(t)
<1>1. /\ phase[t] = "op" /\ ~AtEnd(t) /\ Op(t) = "hold"
      /\ NextOp(t) /\ UNCHANGED <<todo, kind, collected, recent, limit, releasable>>
  BY DEF BeginModel, At, Slots!HoldNested, Slots!HoldAcquire
<1>2. ~Inside(kind[t], step[t]) /\ Inside(kind[t], step[t])'
  BY <1>1, NextPlace, ProgramFacts, PrimedPlace
<1>3. ~Loaded(kind[t], step[t]) /\ ~Loaded(kind[t], step[t])'
  <2>1. ~Loaded(kind[t], step[t])
    BY <1>1, <1>2, NextPlace, PassingStep
  <2>2. "hold" \notin ComputeOps \cup {"leave"}
    BY DEF ComputeOps
  <2> QED
    BY <1>1, <2>1, <2>2, NextPlace, PassingStep, PrimedPlace
<1>4. blocks[t] = <<>>
  BY <1>1, <1>2, InvOfThread DEF BlocksInv, Outer
<1>5. ~running[t] /\ ~releasable[t] /\ ~holding[t]
  BY <1>4, FlagsOfBlocks DEF IInv, FlagsFit
<1>6. /\ blocks'[t] = <<HoldBlock>>
      /\ running'[t] => holding'[t]
      /\ \A u \in Threads \ {t} : /\ running'[u] = running[u] /\ holding'[u] = holding[u]
                                  /\ blocks'[u] = blocks[u]
  <2>1. CASE Slots!HoldNested(t)
    <3>1. limit = 0
      BY <1>5, <2>1 DEF Slots!HoldNested, Slots!HoldPasses
    <3>2. HoldBlock = Slots!HoldBlock("nested")
      BY <3>1 DEF HoldBlock
    <3> QED
      BY <1>4, <1>5, <2>1, <3>2, InvOfThread, SmallStacks
         DEF Slots!HoldNested, Slots!Push, SlotProofs!TypeOK
  <2>2. CASE Slots!HoldAcquire(t)
    <3>1. limit # 0
      BY <2>2 DEF Slots!HoldAcquire, IInv, SlotProofs!IInv, SlotProofs!ThreadInv,
                  SlotProofs!WaitingMatches
    <3> QED
      BY <1>4, <2>2, <3>1, InvOfThread, SmallStacks
         DEF Slots!HoldAcquire, Slots!Push, HoldBlock, SlotProofs!TypeOK
  <2> QED
    BY <2>1, <2>2 DEF BeginModel
<1>7. NodeTypeOK' /\ Untouched(t)
  BY <1>1, <1>6, NextPlace, InvOfThread DEF NodeTypeOK, Untouched
<1>8. BlocksInv(t)'
  BY <1>1, <1>2, <1>6, NextPlace DEF BlocksInv, CommitPhases, Outer, HoldBlock,
                                               Slots!HoldBlock
<1>9. SlotInv(t)' /\ GivenInv(t)'
  BY <1>1, <1>6, NextPlace DEF SlotInv, GivenInv
<1>10. DataInv(t)'
  BY <1>1, <1>3, NextPlace, InvOfThread DEF DataInv
<1> QED
  BY <1>1, <1>7, <1>8, <1>9, <1>10, NextPlace DEF Good, NodeInv

\* The method returns: its slot goes back and its frames are gone.
LEMMA EndModelStep ==
  ASSUME IInv, SlotProofs!IInv', NEW t \in Threads, EndModel(t)
  PROVE  Good(t)
<1>1. /\ phase[t] = "op" /\ ~AtEnd(t) /\ Op(t) = "leave"
      /\ NextOp(t) /\ UNCHANGED <<todo, kind, recent, limit, releasable>>
      /\ collected' = [collected EXCEPT ![t] = FALSE]
  BY DEF EndModel, At, Slots!HoldExit, Slots!NestedExit
<1>2. Inside(kind[t], step[t])
  BY <1>1, NextPlace, ProgramFacts
<1>3. ~Inside(kind[t], step[t])' /\ ~Loaded(kind[t], step[t])'
  BY <1>1, NextPlace, PassingStep, PrimedPlace
<1>4. blocks[t] = <<HoldBlock>>
  BY <1>1, <1>2, InvOfThread DEF BlocksInv, Outer
<1>5. /\ blocks'[t] = <<>>
      /\ \A u \in Threads \ {t} : /\ running'[u] = running[u] /\ holding'[u] = holding[u]
                                  /\ blocks'[u] = blocks[u]
  BY <1>4, SmallStacks, InvOfThread
     DEF EndModel, Slots!HoldExit, Slots!NestedExit, Slots!Pop, SlotProofs!TypeOK
<1>6. NodeTypeOK' /\ Untouched(t)
  BY <1>1, <1>5, NextPlace, InvOfThread DEF NodeTypeOK, Untouched
<1>7. BlocksInv(t)'
  BY <1>1, <1>3, <1>5, NextPlace DEF BlocksInv, CommitPhases, Outer
<1>8. ~running'[t] /\ ~holding'[t]
  BY <1>5, FlagsOfBlocksNext DEF FlagsFit
<1>9. SlotInv(t)' /\ GivenInv(t)'
  BY <1>8 DEF SlotInv, GivenInv
<1>10. DataInv(t)'
  BY <1>1, <1>3, NextPlace, InvOfThread DEF DataInv, NodeTypeOK
<1> QED
  BY <1>1, <1>6, <1>7, <1>9, <1>10, NextPlace DEF Good, NodeInv

\* Within a step of its program a node's place stays what it is.
LEMMA SamePlace ==
  ASSUME NEW t, kind'[t] = kind[t], step'[t] = step[t], limit' = limit
  PROVE  /\ Steps(t)' = Steps(t) /\ (AtEnd(t)' <=> AtEnd(t)) /\ Op(t)' = Op(t)
         /\ HoldBlock' = HoldBlock /\ CommitBlock(t)' = CommitBlock(t) /\ Outer(t)' = Outer(t)
         /\ Inside(kind[t], step[t])' <=> Inside(kind[t], step[t])
         /\ Loaded(kind[t], step[t])' <=> Loaded(kind[t], step[t])
         /\ CommitsLazily(kind[t])' <=> CommitsLazily(kind[t])
<1>1. Steps(t)' = Steps(t) /\ (AtEnd(t)' <=> AtEnd(t)) /\ Op(t)' = Op(t)
  BY DEF Steps, AtEnd, Op
<1>2. HoldBlock' = HoldBlock /\ CommitBlock(t)' = CommitBlock(t)
  BY <1>1 DEF HoldBlock, Slots!HoldBlock, CommitBlock, DataIsLazy
<1>3. /\ Inside(kind[t], step[t])' <=> Inside(kind[t], step[t])
      /\ Loaded(kind[t], step[t])' <=> Loaded(kind[t], step[t])
  BY PrimedPlace
<1>4. CommitsLazily(kind[t])' <=> CommitsLazily(kind[t])
  BY DEF CommitsLazily
<1>5. Outer(t)' = Outer(t)
  BY <1>2, <1>3 DEF Outer
<1> QED
  BY <1>1, <1>2, <1>3, <1>4, <1>5

\* What a step of a thread's program can be, and the blocks around a commit.
LEMMA OpFacts ==
  ASSUME IInv, NEW t \in Threads, phase[t] # "idle", ~AtEnd(t)
  PROVE  /\ kind[t] \in AllKinds /\ step[t] \in 1..Len(Program[kind[t]])
         /\ Op(t) = Program[kind[t]][step[t]]
         /\ Op(t) \in ComputeOps => Inside(kind[t], step[t])
         /\ Op(t) = "commitLazy" => Inside(kind[t], step[t]) /\ CommitsLazily(kind[t])
         /\ Op(t) \in CommitOps \ {"commitLazy"} /\ Inside(kind[t], step[t]) =>
              Loaded(kind[t], step[t])
         /\ phase[t] \in CommitPhases =>
              blocks[t] \in {<<CommitBlock(t)>>, <<HoldBlock, CommitBlock(t)>>}
         /\ phase[t] \in CommitPhases =>
              (Inside(kind[t], step[t]) <=> blocks[t] = <<HoldBlock, CommitBlock(t)>>)
<1>1. kind[t] \in AllKinds /\ step[t] \in 1..Len(Program[kind[t]])
  BY InvOfThread, ProgramFacts DEF PlaceInv, AtEnd, Steps, NodeTypeOK
<1>2. Op(t) = Program[kind[t]][step[t]]
  BY DEF Op, Steps
<1>3. Op(t) \in ComputeOps => Inside(kind[t], step[t])
  BY <1>1, <1>2, ProgramFacts
<1>4. Op(t) = "commitLazy" => Inside(kind[t], step[t]) /\ CommitsLazily(kind[t])
  BY <1>1, <1>2, ProgramFacts DEF CommitsLazily
<1>5. Op(t) \in CommitOps \ {"commitLazy"} /\ Inside(kind[t], step[t]) =>
        Loaded(kind[t], step[t])
  BY <1>1, <1>2, ProgramFacts
<1>6. phase[t] \in CommitPhases =>
        blocks[t] = IF Inside(kind[t], step[t]) THEN <<HoldBlock, CommitBlock(t)>>
                                                ELSE <<CommitBlock(t)>>
  BY InvOfThread, SmallStacks DEF BlocksInv, Outer
<1> QED
  BY <1>1, <1>2, <1>3, <1>4, <1>5, <1>6, SmallStacks

LEMMA ComputeStep ==
  ASSUME IInv, SlotProofs!IInv', NEW t \in Threads, Compute(t)
  PROVE  Good(t)
<1> USE DEF Compute, Stay, slotVars, Goto, At
<1>1. phase[t] = "op" /\ ~AtEnd(t) /\ Op(t) \in ComputeOps /\ phase'[t] = "computing"
  BY InvOfThread DEF NodeTypeOK, Phases
<1>2. NodeTypeOK' /\ Untouched(t)
  BY InvOfThread DEF NodeTypeOK, Untouched, Phases
<1>3. PlaceInv(t)' /\ BlocksInv(t)'
  BY <1>1, SamePlace, InvOfThread DEF PlaceInv, BlocksInv, CommitPhases
<1>4. SlotInv(t)' /\ GivenInv(t)' /\ DataInv(t)'
  BY <1>1, SamePlace, InvOfThread DEF SlotInv, GivenInv, DataInv, ComputeOps
<1> QED
  BY <1>2, <1>3, <1>4 DEF Good, NodeInv

\* collect() returned: the node keeps the frame.
LEMMA ComputedStep ==
  ASSUME IInv, SlotProofs!IInv', NEW t \in Threads, Computed(t)
  PROVE  Good(t)
<1> USE DEF Computed, Stay, slotVars
<1>1. phase[t] = "computing" /\ ~AtEnd(t) /\ Op(t) \in ComputeOps /\ kind' = kind
  BY InvOfThread DEF PlaceInv
<1>2. collected'[t] = TRUE
  BY InvOfThread DEF NodeTypeOK
<1>3. NodeTypeOK' /\ Untouched(t)
  BY <1>1, NextPlace, InvOfThread DEF NodeTypeOK, Untouched
<1>4. /\ Inside(kind[t], step[t]) /\ Inside(kind[t], step[t])'
      /\ Loaded(kind[t], step[t])'
  <2>1. Inside(kind[t], step[t]) /\ Op(t) \notin {"hold", "leave"}
    BY <1>1, OpFacts DEF ComputeOps
  <2> QED
    BY <1>1, <2>1, NextPlace, PassingStep, PrimedPlace
<1>5. blocks[t] = <<HoldBlock>> /\ blocks'[t] = <<HoldBlock>>' /\ blocks' = blocks
  BY <1>1, <1>4, InvOfThread DEF BlocksInv, Outer, HoldBlock
<1>6. BlocksInv(t)'
  BY <1>1, <1>4, <1>5, NextPlace DEF BlocksInv, CommitPhases, Outer
<1>7. SlotInv(t)' /\ GivenInv(t)'
  BY <1>1, NextPlace, InvOfThread DEF SlotInv, GivenInv
<1>8. DataInv(t)'
  BY <1>1, <1>2, <1>4, <1>5, NextPlace, SmallStacks DEF DataInv
<1> QED
  BY <1>1, <1>3, <1>6, <1>7, <1>8, NextPlace DEF Good, NodeInv

\* `with compute_slots.releasable(isinstance(data, pl.LazyFrame))`
LEMMA EnterCommitStep ==
  ASSUME IInv, SlotProofs!IInv', NEW t \in Threads, EnterCommit(t)
  PROVE  Good(t)
<1> USE DEF EnterCommit, Goto, At, Slots!ReleasableEnter
<1>1. /\ phase[t] = "op" /\ ~AtEnd(t) /\ Op(t) \in CommitOps /\ phase'[t] = "entered"
      /\ UNCHANGED <<kind, step, attempt, collected, limit, running, holding>>
  BY InvOfThread DEF NodeTypeOK, Phases
<1>2. blocks[t] = Outer(t) /\ ~releasable[t]
  BY <1>1, FlagsOfBlocks, InvOfThread DEF BlocksInv, IInv, FlagsFit, Outer
<1>3. /\ blocks'[t] = Append(Outer(t), CommitBlock(t))
      /\ releasable'[t] = DataIsLazy(Op(t))
      /\ \A u \in Threads \ {t} :
           blocks'[u] = blocks[u] /\ releasable'[u] = releasable[u]
  BY <1>2, InvOfThread DEF Slots!Push, CommitBlock, SlotProofs!TypeOK
<1>4. NodeTypeOK' /\ Untouched(t)
  BY <1>1, <1>3, InvOfThread DEF NodeTypeOK, Untouched, Phases
<1>5. PlaceInv(t)'
  BY <1>1, SamePlace, InvOfThread DEF PlaceInv, CommitPhases
<1>6. BlocksInv(t)'
  BY <1>1, <1>3, SamePlace DEF BlocksInv, CommitPhases
<1>7. SlotInv(t)' /\ GivenInv(t)'
  BY <1>1, SamePlace, InvOfThread DEF SlotInv, GivenInv, CommitOps, MetadataOps
<1>8. DataInv(t)'
  BY <1>1, <1>3, SamePlace, SmallStacks, InvOfThread DEF DataInv, Outer
<1> QED
  BY <1>4, <1>5, <1>6, <1>7, <1>8 DEF Good, NodeInv

\* A commit gives the slot up exactly when its block allows it.
LEMMA GiveSlotEffect ==
  ASSUME IInv, NEW t \in Threads, GiveSlot(t)
  PROVE  /\ UNCHANGED <<limit, running, releasable, blocks>>
         /\ \A u \in Threads \ {t} : holding'[u] = holding[u]
         /\ holding'[t] <=> holding[t] /\ ~releasable[t]
<1>1. holding[t] => limit # 0
  BY FlagsOfBlocks DEF FlagsFit, IInv
<1>2. CASE Slots!Releases(t)
  BY <1>2, InvOfThread
     DEF GiveSlot, Slots!Release, Slots!Releases, SlotProofs!TypeOK
<1>3. CASE ~Slots!Releases(t)
  BY <1>1, <1>3, InvOfThread DEF GiveSlot, Stay, slotVars, Slots!Releases
<1> QED
  BY <1>2, <1>3

\* Before a lazy commit's slot is given up, in the sleep or at commit_table.
LEMMA GivingStep ==
  ASSUME IInv, NEW t \in Threads, NEW p \in {"sleep", "commit"},
         phase[t] \in CommitPhases, GiveSlot(t), Goto(t, p),
         UNCHANGED <<todo, kind, step, attempt, collected, recent>>
  PROVE  Good(t)
<1> USE DEF Goto
<1>1. phase'[t] = p /\ ~AtEnd(t) /\ Op(t) \in CommitOps /\ p \in CommitPhases
  BY InvOfThread DEF NodeTypeOK, CommitPhases, Phases, PlaceInv
<1>2. NodeTypeOK' /\ Untouched(t)
  BY GiveSlotEffect, InvOfThread DEF NodeTypeOK, Untouched, Phases
<1>3. /\ kind'[t] = kind[t] /\ step'[t] = step[t] /\ limit' = limit
      /\ blocks'[t] = blocks[t] /\ releasable'[t] = releasable[t]
      /\ running'[t] = running[t] /\ collected'[t] = collected[t]
  BY GiveSlotEffect
<1>4. PlaceInv(t)'
  BY <1>1, <1>3, SamePlace, InvOfThread DEF PlaceInv, CommitPhases
<1>5. BlocksInv(t)'
  BY <1>1, <1>3, SamePlace, InvOfThread DEF BlocksInv, CommitPhases
<1>6. GivenInv(t)'
  BY <1>3, GiveSlotEffect DEF GivenInv
<1>7. SlotInv(t)'
  <2> SUFFICES ASSUME running'[t], ~holding'[t]
               PROVE  Op(t) = "commitLazy"
    <3>1. Op(t) = "commitLazy" => CommitsLazily(kind[t])
      BY <1>1, OpFacts DEF CommitPhases
    <3> QED
      BY <1>1, <1>3, <3>1, SamePlace DEF SlotInv
  <2>1. CASE holding[t]
    BY <2>1, GiveSlotEffect, InvOfThread DEF BlocksInv, DataIsLazy
  <2>2. CASE ~holding[t]
    BY <1>3, <2>2, InvOfThread DEF SlotInv, CommitPhases
  <2> QED
    BY <2>1, <2>2
<1>8. DataInv(t)'
  BY <1>1, <1>3, SamePlace, InvOfThread DEF DataInv, CommitPhases
<1> QED
  BY <1>2, <1>4, <1>5, <1>6, <1>7, <1>8 DEF Good, NodeInv

\* Steps between the phases of a commit that leave the slot alone.
LEMMA MovingStep ==
  ASSUME IInv, NEW t \in Threads,
         NEW p \in CommitPhases, phase[t] \in CommitPhases, Goto(t, p), Stay,
         UNCHANGED <<todo, kind, step, attempt, collected>>,
         recent' \in [Threads -> BOOLEAN],
         running[t] /\ ~holding[t] => p \in {"ensure", "committed", "refused"},
         p \notin {"sleep", "commit"}
  PROVE  Good(t)
<1> USE DEF Goto, Stay, slotVars
<1>1. phase'[t] = p /\ ~AtEnd(t) /\ Op(t) \in CommitOps
  BY InvOfThread DEF NodeTypeOK, PlaceInv
<1>2. NodeTypeOK' /\ Untouched(t)
  BY InvOfThread DEF NodeTypeOK, Untouched, Phases, CommitPhases
<1>3. PlaceInv(t)'
  BY <1>1, SamePlace, InvOfThread DEF PlaceInv, CommitPhases
<1>4. BlocksInv(t)'
  BY <1>1, SamePlace, InvOfThread DEF BlocksInv, CommitPhases
<1>5. SlotInv(t)' /\ GivenInv(t)'
  BY <1>1, SamePlace, InvOfThread DEF SlotInv, GivenInv, CommitPhases
<1>6. DataInv(t)'
  BY <1>1, SamePlace, InvOfThread DEF DataInv, CommitPhases
<1> QED
  BY <1>2, <1>3, <1>4, <1>5, <1>6 DEF Good, NodeInv

LEMMA PaceStep ==
  ASSUME IInv, SlotProofs!IInv', NEW t \in Threads, Pace(t)
  PROVE  Good(t)
<1>1. phase[t] \in CommitPhases
  BY DEF Pace, CommitPhases
<1>2. CASE recent[t]
  BY <1>1, <1>2, GivingStep DEF Pace
<1>3. CASE ~recent[t]
  BY <1>1, <1>3, MovingStep, InvOfThread DEF Pace, CommitPhases, NodeTypeOK
<1> QED
  BY <1>2, <1>3

LEMMA WakeStep ==
  ASSUME IInv, SlotProofs!IInv', NEW t \in Threads, Wake(t)
  PROVE  Good(t)
  BY MovingStep, InvOfThread DEF Wake, CommitPhases, NodeTypeOK

LEMMA IntervalPassesStep ==
  ASSUME IInv, SlotProofs!IInv', NEW t \in Threads, IntervalPasses(t)
  PROVE  Good(t)
<1> USE DEF IntervalPasses, Stay, slotVars
<1>1. NodeTypeOK' /\ Untouched(t)
  BY InvOfThread DEF NodeTypeOK, Untouched
<1>2. PlaceInv(t)' /\ BlocksInv(t)' /\ SlotInv(t)'
  BY SamePlace, InvOfThread DEF PlaceInv, BlocksInv, SlotInv
<1>3. GivenInv(t)' /\ DataInv(t)'
  BY SamePlace, InvOfThread DEF GivenInv, DataInv
<1> QED
  BY <1>1, <1>2, <1>3 DEF Good, NodeInv

\* The write starts only with the slot: it was kept, or it is taken again.
LEMMA EnsureHeldStep ==
  ASSUME IInv, SlotProofs!IInv', NEW t \in Threads, EnsureHeld(t)
  PROVE  Good(t)
<1>0. phase[t] = "ensure" /\ phase[t] \in CommitPhases /\ "write" \in CommitPhases
  BY DEF EnsureHeld, CommitPhases
<1>1. CASE Slots!EnsureWait(t) /\ UNCHANGED nodeVars
  <2>1. UNCHANGED nodeVars /\ UNCHANGED <<limit, running, holding, releasable, blocks>>
    BY <1>1 DEF Slots!EnsureWait
  <2>2. NodeTypeOK' /\ Untouched(t)
    BY <2>1, InvOfThread DEF NodeTypeOK, nodeVars, Untouched
  <2>3. NodeInv(t)'
    BY <2>1, InvOfThread
       DEF NodeInv, PlaceInv, BlocksInv, SlotInv, GivenInv, DataInv, nodeVars, Steps,
           AtEnd, Op, Outer, HoldBlock, CommitBlock
  <2> QED
    BY <2>2, <2>3 DEF Good
<1>2. CASE /\ ~MustTakeSlot(t) /\ Stay /\ Goto(t, "write")
           /\ UNCHANGED <<todo, kind, step, attempt, collected, recent>>
  <2>1. ~(running[t] /\ ~holding[t])
    BY <1>2, FlagsOfBlocks DEF MustTakeSlot, Slots!NeedsSlot, FlagsFit, IInv
  <2> QED
    BY <1>0, <1>2, <2>1, MovingStep, InvOfThread DEF NodeTypeOK
<1>3. CASE /\ Slots!EnsureAcquire(t) /\ Goto(t, "write")
           /\ UNCHANGED <<todo, kind, step, attempt, collected, recent>>
  <2> USE <1>3 DEF Goto, Slots!EnsureAcquire
  <2>1. phase'[t] = "write" /\ ~AtEnd(t) /\ Op(t) \in CommitOps
    BY <1>0, InvOfThread DEF NodeTypeOK, PlaceInv, Phases
  <2>2. NodeTypeOK' /\ Untouched(t)
    BY InvOfThread DEF NodeTypeOK, Untouched, Phases, SlotProofs!TypeOK
  <2>3. holding'[t]
    BY InvOfThread DEF SlotProofs!TypeOK
  <2>4. PlaceInv(t)'
    BY <1>0, <2>1, SamePlace, InvOfThread DEF PlaceInv, CommitPhases
  <2>5. BlocksInv(t)'
    BY <1>0, <2>1, SamePlace, InvOfThread DEF BlocksInv, CommitPhases
  <2>6. SlotInv(t)' /\ GivenInv(t)'
    BY <2>1, <2>3 DEF SlotInv, GivenInv
  <2>7. DataInv(t)'
    BY <1>0, <2>1, SamePlace, InvOfThread DEF DataInv
  <2> QED
    BY <2>2, <2>4, <2>5, <2>6, <2>7 DEF Good, NodeInv
<1> QED
  BY <1>1, <1>2, <1>3 DEF EnsureHeld

LEMMA SendCommitStep ==
  ASSUME IInv, SlotProofs!IInv', NEW t \in Threads, SendCommit(t)
  PROVE  Good(t)
  BY GivingStep DEF SendCommit, CommitPhases

LEMMA AcceptedStep ==
  ASSUME IInv, SlotProofs!IInv', NEW t \in Threads, Accepted(t)
  PROVE  Good(t)
<1>1. recent' \in [Threads -> BOOLEAN]
  BY PacedIsBoolean, InvOfThread DEF Accepted, NodeTypeOK
<1> QED
  BY <1>1, MovingStep DEF Accepted, CommitPhases

LEMMA RefusedStep ==
  ASSUME IInv, SlotProofs!IInv', NEW t \in Threads, Refused(t)
  PROVE  Good(t)
  BY MovingStep, InvOfThread DEF Refused, CommitPhases, NodeTypeOK

\* Leaving a commit's block brings back the flag and the blocks of before.
LEMMA CommitBlockCloses ==
  ASSUME IInv, NEW t \in Threads, phase[t] \in CommitPhases, Slots!ReleasableExit(t)
  PROVE  /\ UNCHANGED <<limit, running, holding>>
         /\ blocks'[t] = Outer(t) /\ releasable'[t] = FALSE
         /\ \A u \in Threads \ {t} :
              blocks'[u] = blocks[u] /\ releasable'[u] = releasable[u]
<1> USE DEF Slots!ReleasableExit
<1>1. ~AtEnd(t) /\ phase[t] # "idle"
  BY InvOfThread DEF PlaceInv, CommitPhases
<1>2. blocks[t] = IF Inside(kind[t], step[t]) THEN <<HoldBlock, CommitBlock(t)>>
                                              ELSE <<CommitBlock(t)>>
  BY <1>1, OpFacts
<1>3. blocks[t][Len(blocks[t])] = CommitBlock(t)
  BY <1>2
<1>4. SubSeq(blocks[t], 1, Len(blocks[t]) - 1) = Outer(t)
  BY <1>2, SmallStacks DEF Outer
<1>5. releasable'[t] = FALSE
  BY <1>3, InvOfThread DEF Slots!FlagAfter, Slots!Top, CommitBlock, SlotProofs!TypeOK
<1> QED
  BY <1>4, <1>5, InvOfThread DEF Slots!Pop, SlotProofs!TypeOK

LEMMA LeaveCommitStep ==
  ASSUME IInv, SlotProofs!IInv', NEW t \in Threads, LeaveCommit(t)
  PROVE  Good(t)
<1> USE DEF LeaveCommit
<1>1. /\ phase[t] = "committed" /\ phase[t] \in CommitPhases
      /\ ~AtEnd(t) /\ Op(t) \in CommitOps /\ NextOp(t) /\ kind' = kind
      /\ UNCHANGED <<todo, collected, recent>>
  BY InvOfThread DEF PlaceInv, CommitPhases
<1>2. Op(t) \notin {"hold", "leave"} /\ Op(t) \notin ComputeOps \cup {"leave"}
  BY <1>1 DEF CommitOps, MetadataOps, ComputeOps
<1>3. /\ Inside(kind[t], step[t])' <=> Inside(kind[t], step[t])
      /\ Loaded(kind[t], step[t])' <=> Loaded(kind[t], step[t])
  BY <1>1, <1>2, NextPlace, PassingStep, PrimedPlace
<1>4. NodeTypeOK' /\ Untouched(t)
  BY <1>1, NextPlace, CommitBlockCloses, InvOfThread DEF NodeTypeOK, Untouched
<1>5. BlocksInv(t)'
  BY <1>1, <1>3, NextPlace, CommitBlockCloses DEF BlocksInv, CommitPhases, Outer, HoldBlock,
                                               Slots!HoldBlock
<1>6. GivenInv(t)'
  BY <1>1, NextPlace DEF GivenInv
<1>7. DataInv(t)'
  <2>1. collected[t] => Outer(t) # <<>>
    BY SmallStacks, InvOfThread DEF DataInv, Outer
  <2>2. collected'[t] = collected[t] /\ phase'[t] = "op" /\ blocks'[t] = Outer(t)
    BY <1>1, NextPlace, CommitBlockCloses
  <2> QED
    BY <1>1, <1>3, <2>1, <2>2, InvOfThread DEF DataInv
<1>8. SlotInv(t)'
  <2>0. /\ CommitsLazily(kind[t])' <=> CommitsLazily(kind[t])
        /\ phase'[t] = "op" /\ running'[t] = running[t] /\ holding'[t] = holding[t]
    BY <1>1, NextPlace, CommitBlockCloses DEF CommitsLazily
  <2> SUFFICES ASSUME running[t], ~holding[t]
               PROVE  CommitsLazily(kind[t]) /\ ~AtEnd(t)' /\ Op(t)' = "leave"
    BY <2>0 DEF SlotInv
  <2>1. Op(t) = "commitLazy" /\ CommitsLazily(kind[t])
    BY <1>1, InvOfThread DEF SlotInv
  <2>2. step[t] < Len(Program[kind[t]]) /\ Program[kind[t]][step[t] + 1] = "leave"
    BY <1>1, <2>1, NextPlace, ProgramFacts
  <2>3. Len(Program[kind[t]]) \in 4..6
    BY <1>1, NextPlace, ProgramFacts
  <2>4. step'[t] = step[t] + 1 /\ step[t] \in Nat /\ kind'[t] = kind[t]
    BY <1>1, <2>3, NextPlace
  <2> QED
    BY <2>1, <2>2, <2>3, <2>4 DEF AtEnd, Op, Steps
<1> QED
  BY <1>1, <1>4, <1>5, <1>6, <1>7, <1>8, NextPlace DEF Good, NodeInv

\* A refused metadata change is tried again, everything else raises.
LEMMA LeaveRefusedStep ==
  ASSUME IInv, SlotProofs!IInv', NEW t \in Threads, LeaveRefused(t)
  PROVE  Good(t)
<1> USE DEF LeaveRefused, Goto
<1>1. /\ phase[t] = "refused" /\ phase[t] \in CommitPhases
      /\ ~AtEnd(t) /\ Op(t) \in CommitOps
      /\ UNCHANGED <<todo, kind, step, attempt, collected, recent>>
  BY InvOfThread DEF PlaceInv, CommitPhases
<1>2. /\ phase'[t] \in {"backoff", "raise"}
      /\ phase'[t] = "backoff" => Op(t) \in MetadataOps /\ attempt[t] < COMMIT_ATTEMPTS
  BY InvOfThread DEF NodeTypeOK, MayRetry
<1>3. NodeTypeOK' /\ Untouched(t)
  BY <1>1, CommitBlockCloses, InvOfThread DEF NodeTypeOK, Untouched, Phases
<1>4. limit' = limit /\ blocks'[t] = Outer(t) /\ running' = running /\ holding' = holding
  BY <1>1, CommitBlockCloses
<1>5. PlaceInv(t)'
  BY <1>1, <1>2, <1>4, SamePlace, InvOfThread DEF PlaceInv, CommitPhases
<1>6. BlocksInv(t)'
  BY <1>1, <1>2, <1>4, SamePlace DEF BlocksInv, CommitPhases
<1>7. SlotInv(t)'
  BY <1>1, <1>2, <1>4, SamePlace, InvOfThread DEF SlotInv, MetadataOps
<1>8. GivenInv(t)' /\ DataInv(t)'
  BY <1>1, <1>2, <1>4, SamePlace, SmallStacks, InvOfThread DEF GivenInv, DataInv, Outer
<1> QED
  BY <1>3, <1>5, <1>6, <1>7, <1>8 DEF Good, NodeInv

LEMMA RetryStep ==
  ASSUME IInv, SlotProofs!IInv', NEW t \in Threads, Retry(t)
  PROVE  Good(t)
<1> USE DEF Retry, Goto, Stay, slotVars
<1>1. phase[t] = "backoff" /\ phase'[t] = "op" /\ ~AtEnd(t) /\ attempt[t] < COMMIT_ATTEMPTS
  BY InvOfThread DEF NodeTypeOK, PlaceInv
<1>2. NodeTypeOK' /\ Untouched(t)
  BY <1>1, InvOfThread DEF NodeTypeOK, Untouched, Phases, COMMIT_ATTEMPTS
<1>3. PlaceInv(t)' /\ BlocksInv(t)'
  BY <1>1, SamePlace, InvOfThread DEF PlaceInv, BlocksInv, CommitPhases
<1>4. SlotInv(t)' /\ GivenInv(t)' /\ DataInv(t)'
  BY <1>1, SamePlace, InvOfThread DEF SlotInv, GivenInv, DataInv
<1> QED
  BY <1>2, <1>3, <1>4 DEF Good, NodeInv

LEMMA FailStep ==
  ASSUME IInv, SlotProofs!IInv', NEW t \in Threads, Fail(t)
  PROVE  Good(t)
<1> USE DEF Fail, Goto, Stay, slotVars
<1>1. phase[t] \in {"computing", "write", "commit"} /\ phase'[t] = "raise"
  BY InvOfThread DEF NodeTypeOK
<1>2. NodeTypeOK' /\ Untouched(t)
  BY InvOfThread DEF NodeTypeOK, Untouched, Phases
<1>3. PlaceInv(t)'
  BY <1>1, SamePlace, InvOfThread DEF PlaceInv, CommitPhases
<1>4. BlocksInv(t)'
  BY <1>1, SamePlace, InvOfThread DEF BlocksInv, CommitPhases
<1>5. SlotInv(t)' /\ GivenInv(t)' /\ DataInv(t)'
  BY <1>1, SamePlace, InvOfThread DEF SlotInv, GivenInv, DataInv
<1> QED
  BY <1>2, <1>3, <1>4, <1>5 DEF Good, NodeInv

\* An exception closes the innermost block, whichever it is.
LEMMA ExitEffect ==
  ASSUME IInv, NEW t \in Threads, Slots!Exit(t)
  PROVE  /\ limit' = limit
         /\ blocks'[t] = SubSeq(blocks[t], 1, Len(blocks[t]) - 1)
         /\ running'[t] /\ ~holding'[t] => running[t] /\ ~holding[t]
         /\ \A u \in Threads \ {t} :
              /\ running'[u] = running[u] /\ holding'[u] = holding[u]
              /\ releasable'[u] = releasable[u] /\ blocks'[u] = blocks[u]
<1>1. CASE Slots!HoldExit(t)
  BY <1>1, InvOfThread DEF Slots!HoldExit, Slots!Pop, SlotProofs!TypeOK
<1>2. CASE Slots!NestedExit(t)
  BY <1>2, InvOfThread DEF Slots!NestedExit, Slots!Pop, SlotProofs!TypeOK
<1>3. CASE Slots!ReleasableExit(t)
  BY <1>3, InvOfThread DEF Slots!ReleasableExit, Slots!Pop, SlotProofs!TypeOK
<1> QED
  BY <1>1, <1>2, <1>3 DEF Slots!Exit

LEMMA UnwindStep ==
  ASSUME IInv, SlotProofs!IInv', NEW t \in Threads, Unwind(t)
  PROVE  Good(t)
<1> USE DEF Unwind
<1>1. /\ phase[t] = "raise" /\ blocks[t] # <<>>
      /\ UNCHANGED <<todo, kind, step, phase, attempt, recent>>
      /\ limit' = limit
      /\ collected' \in [Threads -> BOOLEAN]
      /\ collected'[t] <=> collected[t] /\ Len(blocks[t]) > 1
      /\ \A u \in Threads \ {t} : collected'[u] = collected[u]
  BY ExitEffect, InvOfThread DEF NodeTypeOK
<1>2. NodeTypeOK' /\ Untouched(t)
  BY <1>1, ExitEffect, InvOfThread DEF NodeTypeOK, Untouched
<1>3. \/ blocks[t] = <<HoldBlock>> /\ blocks'[t] = <<>>
      \/ blocks[t] = <<CommitBlock(t)>> /\ blocks'[t] = <<>>
      \/ blocks[t] = <<HoldBlock, CommitBlock(t)>> /\ blocks'[t] = <<HoldBlock>>
           /\ Inside(kind[t], step[t])
  BY <1>1, ExitEffect, SmallStacks, InvOfThread DEF BlocksInv, Outer
<1>4. PlaceInv(t)'
  BY <1>1, SamePlace, InvOfThread DEF PlaceInv, CommitPhases
<1>5. BlocksInv(t)'
  <2>1. blocks'[t] \in {<<>>, Outer(t)}
    BY <1>3 DEF Outer
  <2> QED
    BY <1>1, <2>1, SamePlace DEF BlocksInv, CommitPhases
<1>6. SlotInv(t)' /\ GivenInv(t)'
  BY <1>1, ExitEffect, SamePlace, InvOfThread DEF SlotInv, GivenInv
<1>7. DataInv(t)'
  <2>1. collected'[t] => collected[t] /\ blocks'[t] # <<>>
    <3>1. Len(<<HoldBlock>>) = 1 /\ Len(<<CommitBlock(t)>>) = 1 /\ <<HoldBlock>> # <<>>
      BY SmallStacks
    <3>2. blocks'[t] = <<>> => Len(blocks[t]) = 1
      BY <1>3, <3>1
    <3>3. Len(blocks[t]) = 1 => ~collected'[t]
      BY <1>1
    <3>4. collected'[t] => collected[t]
      BY <1>1
    <3> QED
      BY <3>2, <3>3, <3>4
  <2> QED
    BY <1>1, <2>1, SamePlace, InvOfThread DEF DataInv
<1> QED
  BY <1>2, <1>4, <1>5, <1>6, <1>7 DEF Good, NodeInv

LEMMA NodeEndsStep ==
  ASSUME IInv, SlotProofs!IInv', NEW t \in Threads, NodeEnds(t)
  PROVE  Good(t)
<1> USE DEF NodeEnds, Goto, Stay, slotVars
<1>1. /\ blocks[t] = <<>> /\ blocks'[t] = <<>>
      /\ phase'[t] = "idle" /\ kind'[t] = "none" /\ ~collected[t] /\ ~collected'[t]
  BY InvOfThread DEF NodeTypeOK, DataInv
<1>2. NodeTypeOK' /\ Untouched(t)
  BY InvOfThread DEF NodeTypeOK, Untouched, Phases, COMMIT_ATTEMPTS
<1>3. PlaceInv(t)' /\ BlocksInv(t)'
  BY <1>1 DEF PlaceInv, BlocksInv, CommitPhases
<1>4. ~running'[t]
  BY <1>1, FlagsOfBlocksNext DEF FlagsFit
<1>5. SlotInv(t)' /\ GivenInv(t)' /\ DataInv(t)'
  BY <1>1, <1>4 DEF SlotInv, GivenInv, DataInv
<1> QED
  BY <1>2, <1>3, <1>5 DEF Good, NodeInv

-----------------------------------------------------------------------------
LEMMA InitInv == Init => IInv
<1> SUFFICES ASSUME Init PROVE IInv
  OBVIOUS
<1>1. SlotProofs!IInv
  BY SlotsInit
<1>2. NodeTypeOK
  BY NodeCountIsNatural DEF Init, NodeTypeOK, Phases, COMMIT_ATTEMPTS
<1>3. ASSUME NEW t \in Threads
      PROVE  NodeInv(t)
  <2>1. /\ phase[t] = "idle" /\ kind[t] = "none" /\ ~collected[t]
        /\ ~running[t] /\ blocks[t] = <<>>
    BY DEF Init, Slots!Init
  <2> QED
    BY <2>1 DEF NodeInv, PlaceInv, BlocksInv, SlotInv, GivenInv, DataInv, CommitPhases
<1> QED
  BY <1>1, <1>2, <1>3, TypeParts DEF IInv

LEMMA ThreadStep ==
  ASSUME IInv, SlotProofs!IInv', NEW t \in Threads, RunNode(t) \/ IntervalPasses(t)
  PROVE  Good(t)
<1>1. ASSUME NEW k \in Kinds, StartNode(t, k) PROVE Good(t)
  BY <1>1, StartNodeStep
<1>2. CASE Skip(t) \/ WaitForSlot(t) \/ BeginModel(t) \/ EndModel(t)
  BY <1>2, SkipStep, WaitForSlotStep, BeginModelStep, EndModelStep
<1>3. CASE Compute(t) \/ Computed(t)
  BY <1>3, ComputeStep, ComputedStep
<1>4. CASE EnterCommit(t) \/ Pace(t) \/ Wake(t) \/ EnsureHeld(t) \/ SendCommit(t)
  BY <1>4, EnterCommitStep, PaceStep, WakeStep, EnsureHeldStep, SendCommitStep
<1>5. CASE Accepted(t) \/ Refused(t) \/ LeaveCommit(t) \/ LeaveRefused(t) \/ Retry(t)
  BY <1>5, AcceptedStep, RefusedStep, LeaveCommitStep, LeaveRefusedStep, RetryStep
<1>6. CASE Fail(t) \/ Unwind(t) \/ NodeEnds(t)
  BY <1>6, FailStep, UnwindStep, NodeEndsStep
<1> QED
  BY <1>1, <1>2, <1>3, <1>4, <1>5, <1>6, IntervalPassesStep DEF RunNode

LEMMA NextInv == IInv /\ [Next]_vars => IInv'
<1> SUFFICES ASSUME IInv, [Next]_vars PROVE IInv'
  OBVIOUS
<1>1. SlotProofs!IInv'
  BY SlotsKept DEF IInv
<1>2. ASSUME NEW t \in Threads, RunNode(t) \/ IntervalPasses(t)
      PROVE  IInv'
  <2>1. NodeTypeOK' /\ Untouched(t) /\ NodeInv(t)'
    BY <1>1, <1>2, ThreadStep DEF Good
  <2>2. \A u \in Threads \ {t} : NodeInv(u)'
    BY <2>1, OthersKeepInv DEF IInv
  <2>3. TypeOK'
    BY <1>1, <2>1
       DEF TypeOK, NodeTypeOK, Slots!TypeOK, Slots!Block, SlotProofs!IInv,
           SlotProofs!TypeOK, SlotProofs!Block
  <2> QED
    BY <1>1, <2>1, <2>2, <2>3 DEF IInv
<1>3. CASE UNCHANGED vars
  <2>1. TypeOK'
    BY <1>3 DEF IInv, TypeOK, Slots!TypeOK, vars, nodeVars, slotVars
  <2>2. ASSUME NEW t \in Threads PROVE NodeInv(t)'
    <3>1. UNCHANGED <<limit, running, holding, releasable, blocks, kind, step, phase,
                      attempt, collected>>
      BY <1>3 DEF vars, nodeVars, slotVars
    <3> QED
      BY <3>1, SamePlace
         DEF IInv, NodeInv, PlaceInv, BlocksInv, SlotInv, GivenInv, DataInv
  <2> QED
    BY <1>1, <2>1, <2>2 DEF IInv
<1> QED
  BY <1>2, <1>3 DEF Next, RunEnds

THEOREM Invariance == Spec => []IInv
  BY InitInv, NextInv, PTL DEF Spec

(***************************************************************************)
(* Every thread is at a step of a known program, with its slot and blocks.  *)
(***************************************************************************)
THEOREM TypeCorrect == Spec => []TypeOK
<1>1. IInv => TypeOK
  BY DEF IInv
<1> QED
  BY <1>1, Invariance, PTL

\* A thread that computes in a limited model has its slot.
LEMMA ComputingHolds == IInv => ComputesWithSlot
<1> SUFFICES ASSUME IInv, NEW t \in Threads, phase[t] \in {"computing", "write"},
                    running[t], ~holding[t]
             PROVE  FALSE
  BY DEF ComputesWithSlot, Computing
<1> QED
  BY InvOfThread DEF SlotInv

(***************************************************************************)
(* For every number of threads and slots and every mix of nodes, Polars     *)
(* runs inside a limited model only while the thread has its slot: what a   *)
(* commit gave away is taken again before the node's next work.             *)
(***************************************************************************)
THEOREM PolarsRunsWithSlot == Spec => []ComputesWithSlot
  BY ComputingHolds, Invariance, PTL

(***************************************************************************)
(* A node keeps its slot through a wait for the catalog only when it has a  *)
(* collected frame in memory.                                               *)
(***************************************************************************)
THEOREM LazyCommitsBlockNobody == Spec => []SlotKeptOnlyForData
<1>1. IInv => SlotKeptOnlyForData
  <2> SUFFICES ASSUME IInv, NEW t \in Threads, phase[t] \in {"sleep", "commit"}, holding[t]
               PROVE  collected[t]
    BY DEF SlotKeptOnlyForData, InCommit
  <2>1. /\ phase[t] \in CommitPhases /\ phase[t] # "idle"
        /\ ~AtEnd(t) /\ Op(t) \in CommitOps
    BY InvOfThread DEF PlaceInv, CommitPhases
  <2>2. running[t]
    BY FlagsOfBlocks DEF IInv, FlagsFit
  <2>3. Inside(kind[t], step[t])
    BY <2>1, <2>2, OpFacts, FlagsOfBlocks DEF IInv, FlagsFit
  <2>4. Op(t) # "commitLazy"
    BY <2>1, InvOfThread DEF BlocksInv, GivenInv, DataIsLazy
  <2>5. Loaded(kind[t], step[t])
    BY <2>1, <2>3, <2>4, OpFacts
  <2> QED
    BY <2>1, <2>5, InvOfThread DEF DataInv
<1> QED
  BY <1>1, Invariance, PTL

-----------------------------------------------------------------------------
HasSlot == {t \in Threads : holding[t]}

\* At most `limit` threads have a slot.
LEMMA SlotsWithinLimit ==
  IInv => /\ limit \in Nat
          /\ limit # 0 => Cardinality(HasSlot) <= limit
<1> SUFFICES ASSUME IInv PROVE limit \in Nat /\ (limit # 0 => Cardinality(HasSlot) <= limit)
  OBVIOUS
<1>1. limit \in Nat /\ permits \in Nat
  BY SlotAssumptions, InvOfThread DEF SlotProofs!TypeOK, IInv, SlotProofs!IInv
<1>2. limit # 0 => permits + Cardinality(HasSlot) = limit
  <2>1. SlotProofs!Cardinality(HasSlot) = Cardinality(HasSlot)
    BY DEF SlotProofs!Cardinality, Cardinality
  <2> QED
    BY <2>1 DEF IInv, SlotProofs!IInv, SlotProofs!SlotsConserved, SlotProofs!Holders, HasSlot
<1>3. Cardinality(HasSlot) \in Nat
  BY ThreadsAreFinite, FS_Subset, FS_CardinalityType DEF HasSlot
<1> QED
  BY <1>1, <1>2, <1>3

(***************************************************************************)
(* A frame that a node collected is in memory under the node's slot.  Only  *)
(* a Python model that returns a LazyFrame over data it collected itself    *)
(* breaks this, the kind the run python_frames shows.                       *)
(***************************************************************************)
LEMMA CollectedHolds ==
  ASSUME IInv, "pythonFrame" \notin Kinds, limit # 0, NEW t \in Threads, collected[t]
  PROVE  holding[t]
<1>1. /\ phase[t] # "idle" /\ blocks[t] # <<>>
      /\ Inside(kind[t], step[t]) /\ Loaded(kind[t], step[t])
      /\ kind[t] \in AllKinds /\ kind[t] # "pythonFrame"
  BY InvOfThread DEF DataInv, PlaceInv
<1>2. ~CommitsLazily(kind[t])
  <2>1. step[t] \in 1..(Len(Program[kind[t]]) + 1)
    BY <1>1, InvOfThread DEF PlaceInv, Steps
  <2> QED
    BY <1>1, <2>1, LoadedOrLazy
<1>3. running[t]
  <2>1. Outer(t) = <<HoldBlock>>
    BY <1>1 DEF Outer
  <2>2. blocks[t] \in {<<HoldBlock>>, <<HoldBlock, CommitBlock(t)>>}
    <3>1. phase[t] \in {"op", "computing", "backoff", "raise"} \cup CommitPhases
      BY <1>1, InvOfThread DEF NodeTypeOK, Phases, CommitPhases
    <3> QED
      BY <1>1, <2>1, <3>1, SmallStacks, InvOfThread DEF BlocksInv
  <2> QED
    BY <2>2, FlagsOfBlocks DEF FlagsFit, IInv
<1> QED
  BY <1>2, <1>3, InvOfThread DEF SlotInv

(***************************************************************************)
(* At most `limit` nodes have a collected frame in memory, when no Python   *)
(* model hands a collected frame back as a LazyFrame.                       *)
(***************************************************************************)
THEOREM FramesWithinLimit ==
  ASSUME "pythonFrame" \notin Kinds
  PROVE  Spec => []CollectedWithinLimit
<1>1. IInv => CollectedWithinLimit
  <2> SUFFICES ASSUME IInv, limit # 0
               PROVE  Cardinality({t \in Threads : collected[t]}) <= limit
    BY DEF CollectedWithinLimit
  <2> DEFINE InMemory == {t \in Threads : collected[t]}
  <2>1. InMemory \subseteq HasSlot
    BY CollectedHolds DEF HasSlot
  <2>2. IsFiniteSet(HasSlot)
    BY ThreadsAreFinite, FS_Subset DEF HasSlot
  <2>3. /\ IsFiniteSet(InMemory)
        /\ Cardinality(InMemory) <= Cardinality(HasSlot)
    BY <2>1, <2>2, FS_Subset
  <2>4. Cardinality(InMemory) \in Nat /\ Cardinality(HasSlot) \in Nat
    BY <2>2, <2>3, FS_CardinalityType
  <2> HIDE DEF InMemory
  <2>5. Cardinality(InMemory) <= limit
    BY <2>3, <2>4, SlotsWithinLimit
  <2> QED
    BY <2>5 DEF InMemory
<1> QED
  BY <1>1, Invariance, PTL

-----------------------------------------------------------------------------
\* What holds of the threads that compute, in every state.
ComputingFits ==
  /\ IsFiniteSet(Computing)
  /\ limit \in Nat
  /\ Computing # {} => Cardinality(Computing) <= limit

LEMMA ComputingIsBounded == IInv => ComputingFits
<1> SUFFICES ASSUME IInv PROVE ComputingFits
  OBVIOUS
<1>1. Computing \subseteq HasSlot /\ IsFiniteSet(HasSlot)
  BY ComputingHolds, ThreadsAreFinite, FS_Subset DEF ComputesWithSlot, HasSlot, Computing
<1>2. /\ IsFiniteSet(Computing) /\ Cardinality(Computing) \in Nat
      /\ Cardinality(HasSlot) \in Nat
      /\ Cardinality(Computing) <= Cardinality(HasSlot)
  BY <1>1, FS_Subset, FS_CardinalityType
<1>3. Computing # {} => limit # 0
  BY FlagsOfBlocks DEF IInv, FlagsFit, Computing
<1> QED
  BY <1>2, <1>3, SlotsWithinLimit DEF ComputingFits

LEMMA ComputingIsBoundedNext == IInv' => ComputingFits'
  BY ComputingIsBounded, PTL

\* A node's step starts or stops at most its own thread's computation.
LEMMA StepRefines == IInv /\ [Next]_vars => [Bounded!Next]_(Bounded!vars)
<1> SUFFICES ASSUME IInv, [Next]_vars PROVE [Bounded!Next]_(Bounded!vars)
  OBVIOUS
<1>1. IInv' /\ ComputingFits /\ ComputingFits'
  BY NextInv, ComputingIsBounded, ComputingIsBoundedNext
<1>2. CASE UNCHANGED vars
  BY <1>2 DEF vars, slotVars, nodeVars, Bounded!vars, Computing
<1>3. ASSUME NEW t \in Threads, RunNode(t) \/ IntervalPasses(t)
      PROVE  [Bounded!Next]_(Bounded!vars)
  <2>1. limit' = limit /\ Computing' \ {t} = Computing \ {t}
    BY <1>1, <1>3, ThreadStep DEF Good, Untouched, Computing, IInv
  <2>2. CASE t \in Computing' /\ t \notin Computing
    <3>1. Computing' = Computing \cup {t}
      BY <2>1, <2>2
    <3>2. /\ Cardinality(Computing \cup {t}) = Cardinality(Computing) + 1
          /\ Cardinality(Computing) \in Nat
      BY <1>1, <2>2, FS_AddElement, FS_CardinalityType DEF ComputingFits
    <3>3. Cardinality(Computing') <= limit
      BY <1>1, <2>1, <2>2 DEF ComputingFits
    <3>4. Cardinality(Computing) < limit
      BY <1>1, <3>1, <3>2, <3>3 DEF ComputingFits
    <3>5. Bounded!Cardinality(Computing) = Cardinality(Computing)
      BY DEF Bounded!Cardinality, Cardinality
    <3> QED
      BY <2>1, <2>2, <3>1, <3>4, <3>5 DEF Bounded!Next, Bounded!Start
  <2>3. CASE t \notin Computing' /\ t \in Computing
    <3>1. Computing' = Computing \ {t}
      BY <2>1, <2>3
    <3> QED
      BY <2>1, <2>3, <3>1 DEF Bounded!Next, Bounded!Stop
  <2>4. CASE t \in Computing' <=> t \in Computing
    <3>1. Computing' = Computing
      BY <2>1, <2>4
    <3> QED
      BY <2>1, <3>1 DEF Bounded!vars
  <2> QED
    BY <2>2, <2>3, <2>4
<1> QED
  BY <1>2, <1>3 DEF Next, RunEnds

(***************************************************************************)
(* The nodes implement BoundedCompute: a thread starts to run Polars only   *)
(* while fewer than `limit` threads do, through every release and           *)
(* re-acquisition around the commits.                                       *)
(***************************************************************************)
THEOREM Refinement == Spec => ImplementsBoundedCompute
<1>1. Init => Bounded!Init
  BY DEF Init, Slots!Init, Bounded!Init, Computing
<1> QED
  BY <1>1, StepRefines, Invariance, PTL DEF Spec, Bounded!Spec, ImplementsBoundedCompute
=============================================================================
