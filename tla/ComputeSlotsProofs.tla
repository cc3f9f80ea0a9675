-------------------------- MODULE ComputeSlotsProofs --------------------------
(***************************************************************************)
(* Proofs about ComputeSlots for every set of threads, every limit and      *)
(* every nesting depth.  The inductive invariant IInv ties the thread-local *)
(* flags to the blocks that are open: what a `finally` clause restores is   *)
(* only right because the blocks close innermost first.                     *)
(***************************************************************************)
EXTENDS ComputeSlots, FiniteSetTheorems, TLAPS

SlotBlocks(t) == BlocksOf(t, "slot")
ReleasableBlocks(t) == BlocksOf(t, "releasable")

\* A thread runs a model exactly while one hold() block that took a slot is open.
SlotBlockMatches(t) ==
  /\ running[t] <=> SlotBlocks(t) # {}
  /\ \A i, j \in SlotBlocks(t) : i = j

\* Of the releasable blocks before the n-th block the innermost allows release().
EnabledBefore(t, n) ==
  \E i \in ReleasableBlocks(t) :
    /\ i < n /\ blocks[t][i].enabled
    /\ \A j \in ReleasableBlocks(t) : j < n => j <= i

\* The flag is that of the innermost block, and each block restores the one's before.
FlagInv(t) ==
  /\ releasable[t] <=> EnabledBefore(t, Len(blocks[t]) + 1)
  /\ \A i \in ReleasableBlocks(t) : blocks[t][i].previous <=> EnabledBefore(t, i)

\* Who may wait: hold() only outside a model, ensure_held() only without a slot.
WaitingMatches(t) ==
  /\ waiting[t] = "hold" => limit # 0 /\ ~running[t]
  /\ waiting[t] = "ensure" => limit # 0 /\ running[t] /\ ~holding[t]

ThreadInv(t) ==
  /\ holding[t] => running[t]
  /\ running[t] => limit # 0
  /\ WaitingMatches(t)
  /\ SlotBlockMatches(t)
  /\ FlagInv(t)

IInv ==
  /\ TypeOK
  /\ SlotsConserved
  /\ \A t \in Threads : ThreadInv(t)

-----------------------------------------------------------------------------
\* Opening a block adds one at the end and leaves the others where they are.
LEMMA PushFacts ==
  ASSUME NEW s \in Seq(Block), NEW b \in Block
  PROVE  /\ Append(s, b) \in Seq(Block)
         /\ Len(Append(s, b)) = Len(s) + 1
         /\ Append(s, b)[Len(s) + 1] = b
         /\ \A i \in 1..Len(s) : Append(s, b)[i] = s[i]
  OBVIOUS

\* A prefix of a sequence is a sequence with the same elements.
LEMMA PrefixFacts ==
  ASSUME NEW s \in Seq(Block), NEW n \in Nat, n <= Len(s)
  PROVE  /\ SubSeq(s, 1, n) \in Seq(Block)
         /\ Len(SubSeq(s, 1, n)) = n
         /\ \A i \in 1..n : SubSeq(s, 1, n)[i] = s[i]
<1>1. SubSeq(s, 1, n) \in Seq(Block)
  OBVIOUS
<1>2. Len(SubSeq(s, 1, n)) = n
  OBVIOUS
<1>3. \A i \in 1..n : SubSeq(s, 1, n)[i] = s[i]
  OBVIOUS
<1> QED BY <1>1, <1>2, <1>3

\* Closing a block removes the innermost one and leaves the others.
LEMMA PopFacts ==
  ASSUME NEW s \in Seq(Block), s # <<>>
  PROVE  /\ SubSeq(s, 1, Len(s) - 1) \in Seq(Block)
         /\ Len(SubSeq(s, 1, Len(s) - 1)) = Len(s) - 1
         /\ \A i \in 1..(Len(s) - 1) : SubSeq(s, 1, Len(s) - 1)[i] = s[i]
         /\ Len(s) \in Nat \ {0}
         /\ s[Len(s)] \in Block
<1>1. Len(s) \in Nat /\ Len(s) # 0
  OBVIOUS
<1>2. s[Len(s)] \in Block
  BY <1>1
<1>3. Len(s) - 1 \in Nat /\ Len(s) - 1 <= Len(s)
  BY <1>1
<1> QED BY <1>1, <1>2, <1>3, PrefixFacts

\* A thread whose part of the state does not change keeps its invariant.
LEMMA OtherThread ==
  ASSUME NEW u \in Threads, ThreadInv(u), limit' = limit,
         running'[u] = running[u], holding'[u] = holding[u],
         releasable'[u] = releasable[u], blocks'[u] = blocks[u],
         waiting'[u] = waiting[u]
  PROVE  ThreadInv(u)'
  BY DEF ThreadInv, WaitingMatches, SlotBlockMatches, FlagInv,
         EnabledBefore, SlotBlocks, ReleasableBlocks, BlocksOf

\* A thread whose blocks and flag do not change keeps what its blocks restore.
LEMMA SameBlocks ==
  ASSUME NEW t \in Threads, blocks'[t] = blocks[t], releasable'[t] = releasable[t]
  PROVE  /\ SlotBlocks(t)' = SlotBlocks(t)
         /\ FlagInv(t) => FlagInv(t)'
  BY DEF FlagInv, EnabledBefore, SlotBlocks, ReleasableBlocks, BlocksOf

\* Outside every block there is none to restore anything.
LEMMA NoBlocks ==
  ASSUME NEW t \in Threads, blocks[t] = <<>>
  PROVE  /\ SlotBlocks(t) = {}
         /\ FlagInv(t) <=> ~releasable[t]
  BY DEF FlagInv, EnabledBefore, SlotBlocks, ReleasableBlocks, BlocksOf

\* The flag after a step that leaves the thread with n - 1 blocks.
LEMMA FlagAfterStep ==
  ASSUME NEW t \in Threads, NEW n \in Nat, (Len(blocks[t]) + 1)' = n,
         releasable'[t] <=> EnabledBefore(t, n)',
         \A i \in ReleasableBlocks(t)' :
           blocks'[t][i].previous <=> EnabledBefore(t, i)'
  PROVE  FlagInv(t)'
  BY DEF FlagInv, EnabledBefore

\* The threads that hold a slot are finitely many.
LEMMA HoldersFinite == IsFiniteSet(Holders)
  BY FS_Subset, ThreadsAreFinite DEF Holders

\* A thread that takes a slot is one more holder.
LEMMA OneMoreHolder ==
  ASSUME TypeOK, NEW t \in Threads, ~holding[t],
         holding' = [holding EXCEPT ![t] = TRUE]
  PROVE  Cardinality(Holders)' = Cardinality(Holders) + 1
<1>1. Holders' = Holders \cup {t}
  BY DEF Holders, TypeOK
<1>2. t \notin Holders
  BY DEF Holders
<1> QED BY <1>1, <1>2, HoldersFinite, FS_AddElement

\* A thread that gives its slot back is one holder less.
LEMMA OneHolderLess ==
  ASSUME TypeOK, NEW t \in Threads, holding[t],
         holding' = [holding EXCEPT ![t] = FALSE]
  PROVE  Cardinality(Holders)' = Cardinality(Holders) - 1
<1>1. Holders' = Holders \ {t}
  BY DEF Holders, TypeOK
<1>2. t \in Holders
  BY DEF Holders
<1> QED BY <1>1, <1>2, HoldersFinite, FS_RemoveElement

\* Their number is a natural number.
LEMMA HoldersCount == Cardinality(Holders) \in Nat
  BY HoldersFinite, FS_CardinalityType

\* The semaphore was created with a natural number of permits.
LEMMA LimitIsNatural == TypeOK => limit \in Nat /\ permits \in Nat
  BY LimitsAreNaturals DEF TypeOK

\* What opening a block does to the sets of slot and releasable blocks.
Pushed(t, b) ==
  LET n == Len(blocks[t]) + 1 IN
  /\ n \in Nat \ {0} /\ Len(blocks[t])' = n /\ blocks'[t][n] = b
  /\ \A i \in 1..(n - 1) : blocks'[t][i] = blocks[t][i]
  /\ SlotBlocks(t)' =
       IF b.kind = "slot" THEN SlotBlocks(t) \cup {n} ELSE SlotBlocks(t)
  /\ ReleasableBlocks(t)' =
       IF b.kind = "releasable" THEN ReleasableBlocks(t) \cup {n} ELSE ReleasableBlocks(t)
  /\ SlotBlocks(t) \subseteq 1..(n - 1)
  /\ ReleasableBlocks(t) \subseteq 1..(n - 1)

\* What closing the innermost block does to them.
Popped(t) ==
  LET n == Len(blocks[t]) IN
  /\ n \in Nat \ {0} /\ Len(blocks[t])' = n - 1
  /\ Top(t) = blocks[t][n] /\ Top(t) \in Block
  /\ \A i \in 1..(n - 1) : blocks'[t][i] = blocks[t][i]
  /\ SlotBlocks(t)' = SlotBlocks(t) \ {n}
  /\ ReleasableBlocks(t)' = ReleasableBlocks(t) \ {n}
  /\ n \in SlotBlocks(t) <=> Top(t).kind = "slot"
  /\ n \in ReleasableBlocks(t) <=> Top(t).kind = "releasable"
  /\ SlotBlocks(t) \subseteq 1..n
  /\ ReleasableBlocks(t) \subseteq 1..n

OthersKeepBlocks(t) == \A u \in Threads : u # t => blocks'[u] = blocks[u]

\* Entering a with-block, on the thread's own blocks and on the others'.
LEMMA PushEffect ==
  ASSUME TypeOK, NEW t \in Threads, NEW b \in Block, Push(t, b)
  PROVE  /\ blocks' \in [Threads -> Seq(Block)]
         /\ OthersKeepBlocks(t)
         /\ Pushed(t, b)
<1>1. blocks[t] \in Seq(Block) /\ blocks'[t] = Append(blocks[t], b)
  BY DEF TypeOK, Push
<1>2. /\ Len(blocks'[t]) = Len(blocks[t]) + 1
      /\ blocks'[t][Len(blocks[t]) + 1] = b
      /\ \A i \in 1..Len(blocks[t]) : blocks'[t][i] = blocks[t][i]
  BY <1>1, PushFacts
<1>3. blocks' \in [Threads -> Seq(Block)]
  BY <1>1, PushFacts DEF TypeOK, Push
<1>4. OthersKeepBlocks(t)
  BY DEF TypeOK, Push, OthersKeepBlocks
<1>5. Pushed(t, b)
  BY <1>1, <1>2 DEF SlotBlocks, ReleasableBlocks, BlocksOf, Pushed
<1> QED BY <1>3, <1>4, <1>5

\* Leaving a with-block, on the thread's own blocks and on the others'.
LEMMA PopEffect ==
  ASSUME TypeOK, NEW t \in Threads, blocks[t] # <<>>, Pop(t)
  PROVE  /\ blocks' \in [Threads -> Seq(Block)]
         /\ OthersKeepBlocks(t)
         /\ Popped(t)
<1>1. /\ blocks[t] \in Seq(Block)
      /\ blocks'[t] = SubSeq(blocks[t], 1, Len(blocks[t]) - 1)
  BY DEF TypeOK, Pop
<1>2. /\ Len(blocks'[t]) = Len(blocks[t]) - 1
      /\ \A i \in 1..(Len(blocks[t]) - 1) : blocks'[t][i] = blocks[t][i]
      /\ Len(blocks[t]) \in Nat \ {0}
      /\ blocks[t][Len(blocks[t])] \in Block
  BY <1>1, PopFacts
<1>3. blocks' \in [Threads -> Seq(Block)]
  BY <1>1, PopFacts DEF TypeOK, Pop
<1>4. OthersKeepBlocks(t)
  BY DEF TypeOK, Pop, OthersKeepBlocks
<1>5. Popped(t)
  BY <1>1, <1>2 DEF SlotBlocks, ReleasableBlocks, BlocksOf, Top, Popped
<1> QED BY <1>3, <1>4, <1>5

\* Opening or closing a hold() block leaves the releasable blocks alone.
LEMMA PushKeepsFlag ==
  ASSUME NEW t \in Threads, NEW b, b.kind # "releasable",
         FlagInv(t), Pushed(t, b), releasable'[t] = releasable[t]
  PROVE  FlagInv(t)'
<1>0. PICK n \in Nat \ {0} : n = Len(blocks[t]) + 1
  BY DEF Pushed
<1>1. ReleasableBlocks(t)' = ReleasableBlocks(t) /\ ReleasableBlocks(t) \subseteq 1..(n - 1)
  BY <1>0 DEF Pushed
<1>2. \A i \in ReleasableBlocks(t) : blocks'[t][i] = blocks[t][i]
  BY <1>0, <1>1 DEF Pushed
<1>3. n \in Nat \ {0} /\ (Len(blocks[t]) + 1)' = n + 1
  BY <1>0 DEF Pushed
<1>4. \A i \in 1..n : EnabledBefore(t, i)' <=> EnabledBefore(t, i)
  BY <1>1, <1>2 DEF EnabledBefore
<1>5. EnabledBefore(t, n + 1)' <=> EnabledBefore(t, n)
  BY <1>1, <1>2, <1>3 DEF EnabledBefore
<1>6. releasable'[t] <=> EnabledBefore(t, n + 1)'
  BY <1>0, <1>5 DEF FlagInv
<1>7. \A i \in ReleasableBlocks(t)' : blocks'[t][i].previous <=> EnabledBefore(t, i)'
  BY <1>1, <1>2, <1>3, <1>4 DEF FlagInv
<1> QED BY <1>3, <1>6, <1>7, FlagAfterStep

\* Leaving a hold() block keeps what the releasable blocks restore.
LEMMA PopKeepsFlag ==
  ASSUME NEW t \in Threads, Top(t).kind # "releasable",
         FlagInv(t), Popped(t), releasable'[t] = releasable[t]
  PROVE  FlagInv(t)'
<1>0. PICK n \in Nat \ {0} : n = Len(blocks[t])
  BY DEF Popped
<1>1. ReleasableBlocks(t)' = ReleasableBlocks(t)
  BY <1>0 DEF Popped
<1>2. ReleasableBlocks(t) \subseteq 1..(n - 1)
  BY <1>0 DEF Popped
<1>3. \A i \in ReleasableBlocks(t) : blocks'[t][i] = blocks[t][i]
  BY <1>0, <1>2 DEF Popped
<1>4. n \in Nat \ {0} /\ (Len(blocks[t]) + 1)' = n
  BY <1>0 DEF Popped
<1>5. \A i \in 1..n : EnabledBefore(t, i)' <=> EnabledBefore(t, i)
  BY <1>1, <1>3 DEF EnabledBefore
<1>6. EnabledBefore(t, n + 1) <=> EnabledBefore(t, n)
  BY <1>2, <1>4 DEF EnabledBefore
<1>7. releasable'[t] <=> EnabledBefore(t, n)'
  BY <1>0, <1>4, <1>5, <1>6 DEF FlagInv
<1>8. \A i \in ReleasableBlocks(t)' : blocks'[t][i].previous <=> EnabledBefore(t, i)'
  BY <1>1, <1>2, <1>3, <1>4, <1>5 DEF FlagInv
<1> QED BY <1>4, <1>7, <1>8, FlagAfterStep

-----------------------------------------------------------------------------
(***************************************************************************)
(* One lemma per action: the action preserves the inductive invariant.      *)
(***************************************************************************)
\* hold() inside a model, or without a limit, changes no flag.
LEMMA HoldNestedStep ==
  ASSUME IInv, NEW t \in Threads, HoldNested(t)
  PROVE  IInv'
<1> USE DEF HoldNested, MayOpen, Active, HoldPasses
<1>0. /\ blocks' \in [Threads -> Seq(Block)]
      /\ OthersKeepBlocks(t)
      /\ Pushed(t, HoldBlock("nested")) /\ HoldBlock("nested").kind = "nested"
  BY PushEffect DEF IInv, TypeOK, HoldBlock, Block
<1>1. TypeOK'
  BY <1>0 DEF IInv, TypeOK
<1>2. SlotsConserved'
  BY DEF IInv, SlotsConserved, Holders
<1>3. ThreadInv(t)'
  <2>1. SlotBlockMatches(t)'
    BY <1>0, <1>1 DEF IInv, TypeOK, ThreadInv, WaitingMatches, SlotBlockMatches, Pushed
  <2>2. FlagInv(t)'
    BY <1>0, PushKeepsFlag DEF IInv, ThreadInv
  <2> QED BY <2>1, <2>2 DEF IInv, TypeOK, ThreadInv, WaitingMatches
<1>4. ASSUME NEW u \in Threads, u # t
      PROVE  ThreadInv(u)'
  BY <1>4, <1>0, OtherThread DEF IInv, TypeOK, OthersKeepBlocks
<1> QED BY <1>1, <1>2, <1>3, <1>4 DEF IInv

\* Starting to wait in hold(): only outside a model.
LEMMA HoldWaitStep ==
  ASSUME IInv, NEW t \in Threads, HoldWait(t)
  PROVE  IInv'
<1> USE DEF HoldWait, MayOpen, Active, HoldPasses
<1>1. TypeOK'
  BY DEF IInv, TypeOK
<1>2. SlotsConserved'
  BY DEF IInv, SlotsConserved, Holders
<1>3. ThreadInv(t)'
  <2>1. SlotBlockMatches(t)'
    BY <1>1, SameBlocks DEF IInv, TypeOK, ThreadInv, WaitingMatches, SlotBlockMatches
  <2>2. FlagInv(t)'
    BY SameBlocks DEF IInv, ThreadInv
  <2> QED BY <2>1, <2>2 DEF IInv, TypeOK, ThreadInv, WaitingMatches
<1>4. ASSUME NEW u \in Threads, u # t
      PROVE  ThreadInv(u)'
  BY <1>4, OtherThread DEF IInv, TypeOK
<1> QED BY <1>1, <1>2, <1>3, <1>4 DEF IInv

\* hold() takes a slot and its block is the only slot block of the thread.
LEMMA HoldAcquireStep ==
  ASSUME IInv, NEW t \in Threads, HoldAcquire(t)
  PROVE  IInv'
<1> USE DEF HoldAcquire, CanTake
<1>0. /\ blocks' \in [Threads -> Seq(Block)]
      /\ OthersKeepBlocks(t)
      /\ Pushed(t, HoldBlock("slot")) /\ HoldBlock("slot").kind = "slot"
  BY PushEffect DEF IInv, TypeOK, HoldBlock, Block
<1>b. ~holding[t]
  BY DEF IInv, ThreadInv, WaitingMatches
<1>1. TypeOK'
  <2>1. permits' \in Nat
    BY LimitIsNatural DEF IInv
  <2> QED BY <1>0, <2>1 DEF IInv, TypeOK
<1>2. SlotsConserved'
  <2>1. Cardinality(Holders)' = Cardinality(Holders) + 1
    BY <1>b, OneMoreHolder DEF IInv
  <2> QED BY <2>1, HoldersCount, LimitIsNatural DEF IInv, SlotsConserved
<1>3. ThreadInv(t)'
  <2>1. SlotBlockMatches(t)'
    BY <1>0, <1>1 DEF IInv, TypeOK, ThreadInv, WaitingMatches, SlotBlockMatches, Pushed
  <2>2. FlagInv(t)'
    BY <1>0, PushKeepsFlag DEF IInv, ThreadInv
  <2> QED BY <2>1, <2>2 DEF IInv, TypeOK, ThreadInv, WaitingMatches
<1>4. ASSUME NEW u \in Threads, u # t
      PROVE  ThreadInv(u)'
  BY <1>4, <1>0, OtherThread DEF IInv, TypeOK, OthersKeepBlocks
<1> QED BY <1>1, <1>2, <1>3, <1>4 DEF IInv

\* Entering releasable() keeps the previous value of the flag in the block.
LEMMA ReleasableEnterStep ==
  ASSUME IInv, NEW t \in Threads, NEW enabled \in BOOLEAN, ReleasableEnter(t, enabled)
  PROVE  IInv'
<1> USE DEF ReleasableEnter, MayOpen, Active
<1> DEFINE b == [kind |-> "releasable", enabled |-> enabled, previous |-> releasable[t]]
<1>0. /\ blocks' \in [Threads -> Seq(Block)]
      /\ OthersKeepBlocks(t)
      /\ Pushed(t, b)
      /\ b.kind = "releasable" /\ b.enabled = enabled /\ b.previous = releasable[t]
  <2>1. b \in Block /\ Push(t, b)
    BY DEF IInv, TypeOK, Block
  <2> QED BY <2>1, PushEffect DEF IInv
<1> HIDE DEF b
<1>1. TypeOK'
  BY <1>0 DEF IInv, TypeOK
<1>2. SlotsConserved'
  BY DEF IInv, SlotsConserved, Holders
<1>3. ThreadInv(t)'
  <2>1. SlotBlockMatches(t)'
    BY <1>0, <1>1 DEF IInv, TypeOK, ThreadInv, WaitingMatches, SlotBlockMatches, Pushed
  <2>2. FlagInv(t)'
    <3>0. PICK n \in Nat \ {0} : n = Len(blocks[t]) + 1
      BY <1>0 DEF Pushed
    <3>1. /\ ReleasableBlocks(t)' = ReleasableBlocks(t) \cup {n}
          /\ ReleasableBlocks(t) \subseteq 1..(n - 1)
          /\ n \in Nat \ {0} /\ (Len(blocks[t]) + 1)' = n + 1
          /\ blocks'[t][n] = b /\ releasable'[t] = enabled
      BY <1>0, <3>0 DEF Pushed, IInv, TypeOK
    <3>2. \A i \in ReleasableBlocks(t) : blocks'[t][i] = blocks[t][i] /\ i < n
      BY <1>0, <3>0, <3>1 DEF Pushed
    <3>3. \A i \in 1..n : EnabledBefore(t, i)' <=> EnabledBefore(t, i)
      BY <3>1, <3>2 DEF EnabledBefore
    <3>4. EnabledBefore(t, n + 1)' <=> enabled
      <4>1. \A j \in ReleasableBlocks(t)' : j < n + 1 /\ j <= n
        BY <3>1, <3>2
      <4>2. \A j \in ReleasableBlocks(t)' : n <= j => j = n
        BY <3>1, <3>2
      <4>3. blocks'[t][n].enabled = enabled /\ n \in ReleasableBlocks(t)'
        BY <1>0, <3>1
      <4> QED BY <3>1, <4>1, <4>2, <4>3 DEF EnabledBefore
    <3>5. blocks'[t][n].previous <=> EnabledBefore(t, n)
      BY <1>0, <3>0, <3>1 DEF IInv, ThreadInv, FlagInv
    <3>6. \A i \in ReleasableBlocks(t) : blocks'[t][i].previous <=> EnabledBefore(t, i)
      BY <3>2 DEF IInv, ThreadInv, FlagInv
    <3>7. \A i \in ReleasableBlocks(t)' : blocks'[t][i].previous <=> EnabledBefore(t, i)'
      BY <3>1, <3>2, <3>3, <3>5, <3>6
    <3> QED BY <3>1, <3>4, <3>7, FlagAfterStep
  <2> QED BY <2>1, <2>2 DEF IInv, TypeOK, ThreadInv, WaitingMatches
<1>4. ASSUME NEW u \in Threads, u # t
      PROVE  ThreadInv(u)'
  BY <1>4, <1>0, OtherThread DEF IInv, TypeOK, OthersKeepBlocks
<1> QED BY <1>1, <1>2, <1>3, <1>4 DEF IInv

\* release() gives back one slot of a holder.
LEMMA ReleaseStep ==
  ASSUME IInv, NEW t \in Threads, Release(t)
  PROVE  IInv'
<1> USE DEF Release, Releases, Active
<1>1. TypeOK'
  BY DEF IInv, TypeOK
<1>2. SlotsConserved'
  <2>1. Cardinality(Holders)' = Cardinality(Holders) - 1
    BY OneHolderLess DEF IInv
  <2> QED BY <2>1, HoldersCount, LimitIsNatural DEF IInv, SlotsConserved
<1>3. ThreadInv(t)'
  <2>1. SlotBlockMatches(t)'
    <3>1. SlotBlocks(t)' = SlotBlocks(t)
      BY SameBlocks
    <3> QED BY <3>1 DEF IInv, ThreadInv, SlotBlockMatches
  <2>2. FlagInv(t)'
    BY SameBlocks DEF IInv, ThreadInv
  <2> QED BY <2>1, <2>2 DEF IInv, TypeOK, ThreadInv, WaitingMatches
<1>4. ASSUME NEW u \in Threads, u # t
      PROVE  ThreadInv(u)'
  BY <1>4, OtherThread DEF IInv, TypeOK
<1> QED BY <1>1, <1>2, <1>3, <1>4 DEF IInv

\* Starting to wait in ensure_held(): only without a slot.
LEMMA EnsureWaitStep ==
  ASSUME IInv, NEW t \in Threads, EnsureWait(t)
  PROVE  IInv'
<1> USE DEF EnsureWait, NeedsSlot, Active
<1>1. TypeOK'
  BY DEF IInv, TypeOK
<1>2. SlotsConserved'
  BY DEF IInv, SlotsConserved, Holders
<1>3. ThreadInv(t)'
  <2>1. SlotBlockMatches(t)'
    BY <1>1, SameBlocks DEF IInv, TypeOK, ThreadInv, WaitingMatches, SlotBlockMatches
  <2>2. FlagInv(t)'
    BY SameBlocks DEF IInv, ThreadInv
  <2> QED BY <2>1, <2>2 DEF IInv, TypeOK, ThreadInv, WaitingMatches
<1>4. ASSUME NEW u \in Threads, u # t
      PROVE  ThreadInv(u)'
  BY <1>4, OtherThread DEF IInv, TypeOK
<1> QED BY <1>1, <1>2, <1>3, <1>4 DEF IInv

\* ensure_held() takes one slot for a thread that has none.
LEMMA EnsureAcquireStep ==
  ASSUME IInv, NEW t \in Threads, EnsureAcquire(t)
  PROVE  IInv'
<1> USE DEF EnsureAcquire, CanTake
<1>b. ~holding[t]
  BY DEF IInv, ThreadInv, WaitingMatches
<1>1. TypeOK'
  BY LimitIsNatural DEF IInv, TypeOK
<1>2. SlotsConserved'
  <2>1. Cardinality(Holders)' = Cardinality(Holders) + 1
    BY <1>b, OneMoreHolder DEF IInv
  <2> QED BY <2>1, HoldersCount, LimitIsNatural DEF IInv, SlotsConserved
<1>3. ThreadInv(t)'
  <2>1. SlotBlockMatches(t)'
    BY <1>1, SameBlocks DEF IInv, TypeOK, ThreadInv, WaitingMatches, SlotBlockMatches
  <2>2. FlagInv(t)'
    BY SameBlocks DEF IInv, ThreadInv
  <2> QED BY <2>1, <2>2 DEF IInv, TypeOK, ThreadInv, WaitingMatches
<1>4. ASSUME NEW u \in Threads, u # t
      PROVE  ThreadInv(u)'
  BY <1>4, OtherThread DEF IInv, TypeOK
<1> QED BY <1>1, <1>2, <1>3, <1>4 DEF IInv

\* The finally clause of hold() gives back the slot if the thread still has it.
LEMMA HoldExitStep ==
  ASSUME IInv, NEW t \in Threads, HoldExit(t)
  PROVE  IInv'
<1> USE DEF HoldExit, CanClose, Active, PermitsAfterHold
<1>0. /\ blocks' \in [Threads -> Seq(Block)]
      /\ OthersKeepBlocks(t)
      /\ Popped(t)
  BY PopEffect DEF IInv
<1>1. TypeOK'
  <2>1. permits' \in Nat
    BY LimitIsNatural DEF IInv
  <2> QED BY <1>0, <2>1 DEF IInv, TypeOK
<1>2. SlotsConserved'
  <2>1. CASE holding[t]
    <3>1. Cardinality(Holders)' = Cardinality(Holders) - 1
      BY <2>1, OneHolderLess DEF IInv
    <3> QED BY <2>1, <3>1, HoldersCount, LimitIsNatural DEF IInv, SlotsConserved
  <2>2. CASE ~holding[t]
    <3>1. holding' = holding
      BY <2>2 DEF IInv, TypeOK
    <3> QED BY <2>2, <3>1 DEF IInv, SlotsConserved, Holders
  <2> QED BY <2>1, <2>2
<1>3. ThreadInv(t)'
  <2>1. SlotBlockMatches(t)'
    BY <1>0, <1>1 DEF IInv, TypeOK, ThreadInv, WaitingMatches, SlotBlockMatches, Popped
  <2>2. FlagInv(t)'
    BY <1>0, PopKeepsFlag DEF IInv, ThreadInv
  <2> QED BY <2>1, <2>2 DEF IInv, TypeOK, ThreadInv, WaitingMatches
<1>4. ASSUME NEW u \in Threads, u # t
      PROVE  ThreadInv(u)'
  BY <1>4, <1>0, OtherThread DEF IInv, TypeOK, OthersKeepBlocks
<1> QED BY <1>1, <1>2, <1>3, <1>4 DEF IInv

\* Leaving a nested hold() changes no flag.
LEMMA NestedExitStep ==
  ASSUME IInv, NEW t \in Threads, NestedExit(t)
  PROVE  IInv'
<1> USE DEF NestedExit, CanClose, Active
<1>0. /\ blocks' \in [Threads -> Seq(Block)]
      /\ OthersKeepBlocks(t)
      /\ Popped(t)
  BY PopEffect DEF IInv
<1>1. TypeOK'
  BY <1>0 DEF IInv, TypeOK
<1>2. SlotsConserved'
  BY DEF IInv, SlotsConserved, Holders
<1>3. ThreadInv(t)'
  <2>1. SlotBlockMatches(t)'
    BY <1>0, <1>1 DEF IInv, TypeOK, ThreadInv, WaitingMatches, SlotBlockMatches, Popped
  <2>2. FlagInv(t)'
    BY <1>0, PopKeepsFlag DEF IInv, ThreadInv
  <2> QED BY <2>1, <2>2 DEF IInv, TypeOK, ThreadInv, WaitingMatches
<1>4. ASSUME NEW u \in Threads, u # t
      PROVE  ThreadInv(u)'
  BY <1>4, <1>0, OtherThread DEF IInv, TypeOK, OthersKeepBlocks
<1> QED BY <1>1, <1>2, <1>3, <1>4 DEF IInv

\* Leaving releasable() restores the flag of the enclosing block.
LEMMA ReleasableExitStep ==
  ASSUME IInv, NEW t \in Threads, ReleasableExit(t)
  PROVE  IInv'
<1> USE DEF ReleasableExit, CanClose, Active, FlagAfter
<1>0. /\ blocks' \in [Threads -> Seq(Block)]
      /\ OthersKeepBlocks(t)
      /\ Popped(t)
  BY PopEffect DEF IInv
<1>1. TypeOK'
  BY <1>0 DEF IInv, TypeOK, Popped, Block
<1>2. SlotsConserved'
  BY DEF IInv, SlotsConserved, Holders
<1>3. ThreadInv(t)'
  <2>1. SlotBlockMatches(t)'
    BY <1>0, <1>1 DEF IInv, TypeOK, ThreadInv, WaitingMatches, SlotBlockMatches, Popped
  <2>2. FlagInv(t)'
    <3>0. PICK n \in Nat \ {0} : n = Len(blocks[t])
      BY <1>0 DEF Popped
    <3>1. /\ ReleasableBlocks(t)' = ReleasableBlocks(t) \ {n}
          /\ n \in ReleasableBlocks(t)
          /\ ReleasableBlocks(t) \subseteq 1..n
          /\ n \in Nat \ {0} /\ (Len(blocks[t]) + 1)' = n
          /\ releasable'[t] = blocks[t][n].previous
      BY <1>0, <3>0 DEF Popped, IInv, TypeOK
    <3>2. \A i \in ReleasableBlocks(t) \ {n} : i < n /\ blocks'[t][i] = blocks[t][i]
      BY <1>0, <3>0, <3>1 DEF Popped
    <3>3. \A i \in 1..n : EnabledBefore(t, i)' <=> EnabledBefore(t, i)
      BY <3>1, <3>2 DEF EnabledBefore
    <3>4. releasable'[t] <=> EnabledBefore(t, n)
      BY <3>1 DEF IInv, ThreadInv, FlagInv
    <3>5. \A i \in ReleasableBlocks(t) \ {n} : blocks'[t][i].previous <=> EnabledBefore(t, i)
      BY <3>1, <3>2 DEF IInv, ThreadInv, FlagInv
    <3>6. \A i \in ReleasableBlocks(t)' : blocks'[t][i].previous <=> EnabledBefore(t, i)'
      BY <3>1, <3>2, <3>3, <3>5
    <3> QED BY <3>1, <3>3, <3>4, <3>6, FlagAfterStep
  <2> QED BY <2>1, <2>2 DEF IInv, TypeOK, ThreadInv, WaitingMatches
<1>4. ASSUME NEW u \in Threads, u # t
      PROVE  ThreadInv(u)'
  BY <1>4, <1>0, OtherThread DEF IInv, TypeOK, OthersKeepBlocks
<1> QED BY <1>1, <1>2, <1>3, <1>4 DEF IInv

\* configure() starts from threads that hold nothing, with all slots free.
LEMMA ConfigureStep ==
  ASSUME IInv, NEW l \in Limits, Configure(l)
  PROVE  IInv'
<1> USE DEF Configure, Active
<1>1. TypeOK'
  BY LimitsAreNaturals DEF IInv, TypeOK
<1>2. \A t \in Threads : SlotBlocks(t) = {}
  BY NoBlocks
<1>3. \A t \in Threads : ~running[t] /\ ~holding[t]
  BY <1>2 DEF IInv, ThreadInv, SlotBlockMatches
<1>4. SlotsConserved'
  <2>1. Holders' = {}
    BY <1>3 DEF Holders
  <2>2. l \in Nat
    BY LimitsAreNaturals
  <2> QED BY <2>1, <2>2, FS_EmptySet DEF SlotsConserved
<1>5. ASSUME NEW t \in Threads
      PROVE  ThreadInv(t)'
  <2>1. SlotBlockMatches(t)' /\ FlagInv(t)'
    BY SameBlocks DEF IInv, ThreadInv, SlotBlockMatches
  <2> QED BY <1>3, <2>1 DEF ThreadInv, WaitingMatches
<1> QED BY <1>1, <1>4, <1>5 DEF IInv

\* The flags and the semaphore match before any model runs.
LEMMA InitInv == Init => IInv
<1> SUFFICES ASSUME Init PROVE IInv
  OBVIOUS
<1>1. TypeOK
  BY LimitsAreNaturals DEF Init, TypeOK
<1>2. SlotsConserved
  <2>1. Holders = {}
    BY DEF Init, Holders
  <2>2. limit \in Nat
    BY LimitsAreNaturals DEF Init
  <2> QED BY <2>1, <2>2, FS_EmptySet DEF Init, SlotsConserved
<1>3. \A t \in Threads : ThreadInv(t)
  BY NoBlocks DEF Init, ThreadInv, WaitingMatches, SlotBlockMatches
<1> QED BY <1>1, <1>2, <1>3 DEF IInv

\* Every call of ComputeSlots keeps the flags, blocks and semaphore in step.
LEMMA NextInv == IInv /\ [Next]_vars => IInv'
<1> SUFFICES ASSUME IInv, [Next]_vars PROVE IInv'
  OBVIOUS
<1>1. ASSUME NEW l \in Limits, Configure(l) PROVE IInv'
  BY <1>1, ConfigureStep
<1>2. ASSUME NEW t \in Threads, Enter(t) PROVE IInv'
  BY <1>2, HoldNestedStep, HoldWaitStep, ReleasableEnterStep DEF Enter
<1>3. ASSUME NEW t \in Threads, Acquire(t) PROVE IInv'
  BY <1>3, HoldAcquireStep, EnsureAcquireStep DEF Acquire
<1>4. ASSUME NEW t \in Threads, Call(t) PROVE IInv'
  BY <1>4, ReleaseStep, EnsureWaitStep DEF Call
<1>5. ASSUME NEW t \in Threads, Exit(t) PROVE IInv'
  BY <1>5, HoldExitStep, NestedExitStep, ReleasableExitStep DEF Exit
<1>6. CASE UNCHANGED vars
  BY <1>6, SameBlocks DEF vars, IInv, TypeOK, SlotsConserved, Holders, ThreadInv,
                          WaitingMatches, SlotBlockMatches
<1> QED BY <1>1, <1>2, <1>3, <1>4, <1>5, <1>6 DEF Next

-----------------------------------------------------------------------------
(***************************************************************************)
(* IInv holds in every state of every behaviour of compute_slots.           *)
(***************************************************************************)
THEOREM Invariance == Spec => []IInv
  BY InitInv, NextInv, PTL DEF Spec

(***************************************************************************)
(* The flags and the counter keep their types; in particular the counter of *)
(* the semaphore never goes below zero.                                     *)
(***************************************************************************)
THEOREM TypeCorrect == Spec => []TypeOK
<1>1. IInv => TypeOK
  BY DEF IInv
<1> QED BY <1>1, Invariance, PTL

(***************************************************************************)
(* For any number of threads and any limit, no slot is lost or invented.    *)
(***************************************************************************)
THEOREM SlotConservation == Spec => []SlotsConserved
<1>1. IInv => SlotsConserved
  BY DEF IInv
<1> QED BY <1>1, Invariance, PTL

(***************************************************************************)
(* A thread that waits for a slot in hold() or ensure_held() holds none.    *)
(***************************************************************************)
THEOREM WaitersHoldNothing == Spec => []NoHoldAndWait
<1>1. IInv => NoHoldAndWait
  BY DEF IInv, TypeOK, ThreadInv, WaitingMatches, NoHoldAndWait
<1> QED BY <1>1, Invariance, PTL

(***************************************************************************)
(* When the semaphore is exhausted, a thread that is not waiting holds one  *)
(* of the slots: threads cannot deadlock on the slots.                      *)
(***************************************************************************)
THEOREM NoSlotDeadlock == Spec => []SomeHolderRuns
<1>1. IInv => SomeHolderRuns
  <2> SUFFICES ASSUME IInv, limit # 0, permits = 0
               PROVE  \E t \in Threads : holding[t] /\ Active(t)
    BY DEF SomeHolderRuns
  <2>1. Cardinality(Holders) # 0
    BY HoldersCount, LimitIsNatural DEF IInv, SlotsConserved
  <2>2. PICK t \in Threads : holding[t]
    BY <2>1, FS_EmptySet DEF Holders
  <2>3. Active(t)
    BY <2>2 DEF IInv, TypeOK, ThreadInv, WaitingMatches, Active
  <2> QED BY <2>2, <2>3
<1> QED BY <1>1, Invariance, PTL

(***************************************************************************)
(* A worker thread carries nothing over from one node to the next.          *)
(***************************************************************************)
THEOREM NothingCarriedOver == Spec => []CleanWhenIdle
<1>1. IInv => CleanWhenIdle
  <2> SUFFICES ASSUME IInv, NEW t \in Threads, blocks[t] = <<>>
               PROVE  ~running[t] /\ ~holding[t] /\ ~releasable[t]
    BY DEF CleanWhenIdle
  <2> QED BY NoBlocks DEF IInv, ThreadInv, SlotBlockMatches
<1> QED BY <1>1, Invariance, PTL

(***************************************************************************)
(* A model that goes on running gives its slot up only where the innermost  *)
(* releasable block allows it: the flag that release() looks at is the one  *)
(* of that block, after any blocks opened and closed, or left by raising.   *)
(***************************************************************************)
THEOREM InnermostDecides == Spec => InnermostBlockDecides
<1> DEFINE Decides == \A t \in Threads :
                        holding[t] /\ running'[t] /\ ~holding'[t] => InnermostEnables(t)
<1>1. IInv /\ [Next]_vars => [Decides]_vars
  <2> SUFFICES ASSUME IInv, Next, NEW t \in Threads,
                      holding[t], running'[t], ~holding'[t]
               PROVE  InnermostEnables(t)
    BY DEF vars
  <2>1. releasable[t]
    <3> USE DEF IInv, TypeOK
    <3>1. ASSUME NEW l \in Limits, Configure(l) PROVE FALSE
      BY <3>1 DEF Configure
    <3>2. ASSUME NEW u \in Threads, Enter(u) \/ Acquire(u) PROVE FALSE
      BY <3>2 DEF Enter, HoldNested, HoldWait, ReleasableEnter, Acquire, HoldAcquire,
                  EnsureAcquire
    <3>3. ASSUME NEW u \in Threads, Call(u) PROVE releasable[t]
      BY <3>3 DEF Call, Release, Releases, EnsureWait
    <3>4. ASSUME NEW u \in Threads, Exit(u) PROVE FALSE
      BY <3>4 DEF Exit, HoldExit, NestedExit, ReleasableExit
    <3> QED BY <3>1, <3>2, <3>3, <3>4 DEF Next
  <2>2. EnabledBefore(t, Len(blocks[t]) + 1)
    BY <2>1 DEF IInv, ThreadInv, FlagInv
  <2>3. \A i \in ReleasableBlocks(t) : i < Len(blocks[t]) + 1
    BY DEF ReleasableBlocks, BlocksOf, IInv, TypeOK
  <2> QED BY <2>2, <2>3 DEF EnabledBefore, ReleasableBlocks, InnermostEnables
<1> QED BY <1>1, Invariance, PTL DEF Spec, InnermostBlockDecides

-----------------------------------------------------------------------------
(***************************************************************************)
(* The steps of the semaphore as steps of BoundedCompute: taking a slot     *)
(* starts to compute, giving it back stops, anything else stutters.         *)
(***************************************************************************)
LEMMA TakesSlot ==
  ASSUME IInv, NEW t \in Threads, Acquire(t)
  PROVE  Bounded!Start(t)
<1> USE DEF Acquire, HoldAcquire, EnsureAcquire, CanTake
<1>1. ~holding[t] /\ limit # 0
  BY DEF IInv, ThreadInv, WaitingMatches
<1>2. Holders' = Holders \cup {t} /\ t \notin Holders
  BY <1>1 DEF Holders, IInv, TypeOK
<1>3. permits > 0 /\ permits + Cardinality(Holders) = limit
  BY <1>1 DEF IInv, SlotsConserved
<1>4. Cardinality(Holders) < limit
  BY <1>3, HoldersCount, LimitIsNatural DEF IInv
<1>5. Bounded!Cardinality(Holders) = Cardinality(Holders)
  BY DEF Bounded!Cardinality, Cardinality
<1> QED BY <1>2, <1>4, <1>5 DEF Bounded!Start

\* A thread that gives its slot back stops computing.
LEMMA GivesSlotBack ==
  ASSUME IInv, NEW t \in Threads, holding[t], limit' = limit,
         holding' = [holding EXCEPT ![t] = FALSE]
  PROVE  Bounded!Stop(t)
<1>1. Holders' = Holders \ {t} /\ t \in Holders
  BY DEF Holders, IInv, TypeOK
<1> QED BY <1>1 DEF Bounded!Stop

\* Every call of ComputeSlots is a step of the promised limit, or no step of it.
LEMMA StepRefines == IInv /\ [Next]_vars => [Bounded!Next]_(Bounded!vars)
<1> SUFFICES ASSUME IInv, [Next]_vars PROVE [Bounded!Next]_(Bounded!vars)
  OBVIOUS
<1> USE DEF Bounded!Next, Bounded!vars
<1>1. ASSUME NEW l \in Limits, Configure(l) PROVE Bounded!Next
  <2>1. \A t \in Threads : ~holding[t]
    BY <1>1, NoBlocks DEF Configure, IInv, ThreadInv, SlotBlockMatches
  <2>2. Holders = {} /\ Holders' = {}
    BY <1>1, <2>1 DEF Configure, Holders
  <2> QED BY <1>1, <2>2 DEF Configure, Bounded!Reconfigure
<1>2. ASSUME NEW t \in Threads, Enter(t) PROVE UNCHANGED Bounded!vars
  BY <1>2 DEF Enter, HoldNested, HoldWait, ReleasableEnter, Holders
<1>3. ASSUME NEW t \in Threads, Acquire(t) PROVE Bounded!Next
  BY <1>3, TakesSlot
<1>4. ASSUME NEW t \in Threads, Call(t) PROVE [Bounded!Next]_(Bounded!vars)
  <2>1. CASE Release(t)
    BY <2>1, GivesSlotBack DEF Release, Releases
  <2>2. CASE EnsureWait(t)
    BY <2>2 DEF EnsureWait, Holders
  <2> QED BY <1>4, <2>1, <2>2 DEF Call
<1>5. ASSUME NEW t \in Threads, Exit(t) PROVE [Bounded!Next]_(Bounded!vars)
  <2>1. CASE HoldExit(t) /\ holding[t]
    BY <2>1, GivesSlotBack DEF HoldExit
  <2>2. CASE HoldExit(t) /\ ~holding[t]
    <3>1. holding' = holding
      BY <2>2 DEF HoldExit, IInv, TypeOK
    <3> QED BY <2>2, <3>1 DEF HoldExit, Holders
  <2>3. CASE NestedExit(t) \/ ReleasableExit(t)
    BY <2>3 DEF NestedExit, ReleasableExit, Holders
  <2> QED BY <1>5, <2>1, <2>2, <2>3 DEF Exit
<1>6. CASE UNCHANGED vars
  BY <1>6 DEF vars, Holders
<1> QED BY <1>1, <1>2, <1>3, <1>4, <1>5, <1>6 DEF Next

(***************************************************************************)
(* compute_slots implements BoundedCompute: never more than `limit` threads *)
(* hold a slot, whatever they call and in whatever order.                   *)
(***************************************************************************)
THEOREM Refinement == Spec => ImplementsBoundedCompute
<1>1. Init => Bounded!Init
  BY DEF Init, Bounded!Init, Holders
<1> QED BY <1>1, StepRefines, Invariance, PTL
        DEF Spec, Bounded!Spec, ImplementsBoundedCompute

=============================================================================
