------------------------- MODULE ConfigSharingProofs -------------------------
(***************************************************************************)
(* Proofs about ConfigSharing for every set of threads, nodes and sources   *)
(* and any number of lazily made objects.  Two inductive invariants: one    *)
(* says who is still going to store a relation that is missing, the other   *)
(* that only the holder of a level's lock is between the second look and    *)
(* the publication.                                                         *)
(***************************************************************************)
EXTENDS ConfigSharing, TLAPS

\* Whoever passed the flag or filled the dictionaries left no relation out.
Promised(r) ==
  \/ r \in Known
  \/ \E u \in Threads : stage[u] = "fill" /\ r \in filling[u]

ConfigInv ==
  /\ loaded => \A r \in Relations : Promised(r)
  /\ \A t \in Threads : stage[t] = "fill" => loaded
  /\ \A t \in Threads : stage[t] = "store" => filling[t] \subseteq Sources
  /\ \A t \in Threads : stage[t] # "idle" => wanted[t] \in Relations
  /\ \A t \in Threads :
       stage[t] = "lookup" => wanted[t] \in Known \/ loaded

InLock == {"check", "make", "unlock"}

ObjectInv ==
  /\ \A t \in Threads : \A l \in Levels :
       got[t][l] # 0 => got[t][l] = instance[l]
  /\ \A t \in Threads :
       stage[t] \in InLock => level[t] \in Levels /\ holder[level[t]] = t
  /\ \A t \in Threads :
       stage[t] \in {"lock", "return"} => level[t] \in Levels
  /\ \A t \in Threads : stage[t] = "make" => instance[level[t]] = 0

IInv == TypeOK /\ ConfigInv /\ ObjectInv

-----------------------------------------------------------------------------
LEMMA InitInv == Init => IInv
<1> SUFFICES ASSUME Init PROVE IInv
  OBVIOUS
<1>1. TypeOK
  <2>1. /\ nodeConfigs \subseteq Nodes
        /\ sourceConfigs \subseteq Sources
        /\ loaded \in BOOLEAN
    BY DEF Init
  <2>2. /\ stage \in [Threads -> Stages]
        /\ wanted \in [Threads -> Relations \cup {Nothing}]
        /\ filling \in [Threads -> SUBSET Relations]
    BY DEF Init, Stages
  <2>3. /\ instance \in [Levels -> Nat]
        /\ holder \in [Levels -> Threads \cup {Nobody}]
        /\ got \in [Threads -> [Levels -> Nat]]
        /\ level \in [Threads -> Nat \ {0}]
        /\ made \in Nat
        /\ count \in 0..MaxNodes
    BY MaxNodesIsNatural DEF Init
  <2> QED BY <2>1, <2>2, <2>3 DEF TypeOK
<1>2. ConfigInv
  BY DEF Init, ConfigInv
<1>3. ObjectInv
  BY DEF Init, ObjectInv, InLock
<1> QED BY <1>1, <1>2, <1>3 DEF IInv

\* A step of the config part keeps the types.
LEMMA ConfigureTypes ==
  ASSUME IInv, NEW t \in Threads, Configure(t)
  PROVE  TypeOK'
<1> USE DEF IInv, TypeOK, Stages, Goto, configs, objects, Relations
<1>1. ASSUME NEW r \in Relations, Take(t, r)
      PROVE  /\ count' \in 0..MaxNodes
             /\ wanted' \in [Threads -> Relations \cup {Nothing}]
  BY <1>1, MaxNodesIsNatural DEF Take
<1>2. ASSUME NEW r \in Relations, BeginNode(t, r) PROVE TypeOK'
  BY <1>1, <1>2 DEF BeginNode, Take
<1>3. ASSUME NEW r \in Relations, BeginRelation(t, r) PROVE TypeOK'
  BY <1>1, <1>3 DEF BeginRelation, Take
<1>4. ASSUME NEW r \in Relations, StoreSource(t, r) PROVE TypeOK'
  BY <1>4 DEF StoreSource, ConfigInv
<1>5. ASSUME NEW r \in Relations, Fill(t, r) PROVE TypeOK'
  BY <1>5 DEF Fill
<1>6. CASE SourcesStored(t)
  BY <1>6 DEF SourcesStored
<1>7. CASE Resolve(t)
  BY <1>7 DEF Resolve
<1>8. CASE TestFlag(t)
  BY <1>8 DEF TestFlag
<1>9. CASE SetFlag(t)
  BY <1>9 DEF SetFlag
<1>10. CASE Filled(t)
  BY <1>10 DEF Filled
<1>11. CASE Lookup(t)
  BY <1>11 DEF Lookup
<1>12. CASE NotFound(t)
  BY <1>12 DEF NotFound
<1> QED BY <1>2, <1>3, <1>4, <1>5, <1>6, <1>7, <1>8, <1>9, <1>10, <1>11, <1>12
        DEF Configure

\* A step towards the objects keeps the types.
LEMMA ObtainTypes ==
  ASSUME IInv, NEW t \in Threads, Obtain(t)
  PROVE  TypeOK'
<1> USE DEF IInv, TypeOK, Stages, Goto, configs, objects, Levels
<1>1. ASSUME Receive(t), level[t] \in Levels
      PROVE  /\ got' \in [Threads -> [Levels -> Nat]]
             /\ level' \in [Threads -> Nat \ {0}]
             /\ stage' \in [Threads -> Stages]
  <2>1. level[t] + 1 \in Nat \ {0} /\ instance[level[t]] \in Nat
    BY <1>1
  <2>2. [got[t] EXCEPT ![level[t]] = instance[level[t]]] \in [Levels -> Nat]
    BY <2>1
  <2>3. got' = [got EXCEPT ![t] =
                  [got[t] EXCEPT ![level[t]] = instance[level[t]]]]
    BY <1>1 DEF Receive
  <2> QED BY <1>1, <2>1, <2>2, <2>3 DEF Receive
<1>2. CASE FastRead(t)
  <2>1. CASE instance[level[t]] # 0
    BY <1>1, <1>2, <2>1 DEF FastRead
  <2>2. CASE instance[level[t]] = 0
    BY <1>2, <2>2 DEF FastRead
  <2> QED BY <2>1, <2>2
<1>3. CASE TakeLock(t)
  BY <1>3 DEF TakeLock
<1>4. CASE Check(t)
  BY <1>4 DEF Check
<1>5. CASE Make(t)
  <2>1. made' \in Nat /\ instance' = [instance EXCEPT ![level[t]] = made']
    BY <1>5 DEF Make
  <2>3. instance' \in [Levels -> Nat]
    BY <2>1
  <2>2. stage' \in [Threads -> Stages]
    BY <1>5 DEF Make
  <2> QED BY <1>5, <2>1, <2>2, <2>3 DEF Make
<1>6. CASE MakeFails(t)
  BY <1>6 DEF MakeFails
<1>7. CASE Unlock(t)
  BY <1>7 DEF Unlock
<1>8. CASE Return(t)
  <2>1. level[t] \in Levels
    BY <1>8 DEF Return, ObjectInv
  <2> QED BY <1>1, <1>8, <2>1 DEF Return
<1>9. CASE Work(t)
  BY <1>9 DEF Work
<1> QED BY <1>2, <1>3, <1>4, <1>5, <1>6, <1>7, <1>8, <1>9 DEF Obtain

-----------------------------------------------------------------------------
\* The keys of the dictionaries only grow, so a promise is broken only by a
\* thread that leaves the loop or passes a key.
LEMMA PromiseKept ==
  ASSUME NEW r, Promised(r), Known \subseteq Known',
         \A u \in Threads : stage[u] = "fill" /\ r \in filling[u] =>
            \/ stage'[u] = "fill" /\ r \in filling'[u]
            \/ r \in Known'
  PROVE  Promised(r)'
  BY DEF Promised

\* A step of the config part keeps every relation promised.
LEMMA ConfigureConfigs ==
  ASSUME IInv, NEW t \in Threads, Configure(t)
  PROVE  ConfigInv'
<1> USE DEF IInv, TypeOK, ConfigInv, Goto, configs, objects, Relations
<1>1. ASSUME NEW r \in Relations, BeginNode(t, r) PROVE ConfigInv'
  <2>1. CASE sourceConfigs = {}
    <3>1. /\ stage' = [stage EXCEPT ![t] = "store"]
          /\ filling' = [filling EXCEPT ![t] = Sources]
          /\ stage[t] = "idle"
          /\ wanted' = [wanted EXCEPT ![t] = r]
          /\ UNCHANGED configs
      BY <1>1, <2>1 DEF BeginNode, Take
    <3>2. \A s \in Relations : Promised(s) => Promised(s)'
      BY <3>1, PromiseKept DEF Known
    <3> QED BY <3>1, <3>2 DEF Known
  <2>2. CASE sourceConfigs # {}
    <3>1. /\ stage' = [stage EXCEPT ![t] = "resolve"]
          /\ filling' = filling
          /\ stage[t] = "idle"
          /\ wanted' = [wanted EXCEPT ![t] = r]
          /\ UNCHANGED configs
      BY <1>1, <2>2 DEF BeginNode, Take
    <3>2. \A s \in Relations : Promised(s) => Promised(s)'
      BY <3>1, PromiseKept DEF Known
    <3> QED BY <3>1, <3>2 DEF Known
  <2> QED BY <2>1, <2>2
<1>2. ASSUME NEW r \in Relations, BeginRelation(t, r) PROVE ConfigInv'
  <2>1. /\ stage' = [stage EXCEPT ![t] = "resolve"]
        /\ filling' = filling
        /\ stage[t] = "idle"
        /\ wanted' = [wanted EXCEPT ![t] = r]
        /\ UNCHANGED configs
    BY <1>2 DEF BeginRelation, Take
  <2>2. \A s \in Relations : Promised(s) => Promised(s)'
    BY <2>1, PromiseKept DEF Known
  <2> QED BY <2>1, <2>2 DEF Known
<1>3. ASSUME NEW r \in Relations, StoreSource(t, r) PROVE ConfigInv'
  <2>1. Known \subseteq Known'
    BY <1>3 DEF StoreSource, Known
  <2>2. \A s \in Relations : Promised(s) => Promised(s)'
    BY <1>3, <2>1, PromiseKept DEF StoreSource
  <2> QED BY <1>3, <2>1, <2>2 DEF StoreSource
<1>4. ASSUME NEW r \in Relations, Fill(t, r) PROVE ConfigInv'
  <2>1. Known' = Known \cup {r}
    BY <1>4 DEF Fill, Known
  <2>2. \A s \in Relations : Promised(s) => Promised(s)'
    BY <1>4, <2>1, PromiseKept DEF Fill
  <2> QED BY <1>4, <2>1, <2>2 DEF Fill
<1>5. CASE SourcesStored(t)
  <2>1. \A s \in Relations : Promised(s) => Promised(s)'
    BY <1>5, PromiseKept DEF SourcesStored, Known
  <2> QED BY <1>5, <2>1 DEF SourcesStored, Known
<1>6. CASE Resolve(t)
  <2>1. \A s \in Relations : Promised(s) => Promised(s)'
    BY <1>6, PromiseKept DEF Resolve, Known
  <2> QED BY <1>6, <2>1 DEF Resolve, Known
<1>7. CASE TestFlag(t)
  <2>1. \A s \in Relations : Promised(s) => Promised(s)'
    BY <1>7, PromiseKept DEF TestFlag, Known
  <2> QED BY <1>7, <2>1 DEF TestFlag, Known
<1>8. CASE SetFlag(t)
  <2>1. \A s \in Relations : Promised(s)'
    BY <1>8 DEF SetFlag, Promised
  <2> QED BY <1>8, <2>1 DEF SetFlag, Known
<1>9. CASE Filled(t)
  <2>1. \A s \in Relations : Promised(s) => Promised(s)'
    BY <1>9, PromiseKept DEF Filled, Known
  <2> QED BY <1>9, <2>1 DEF Filled, Known
<1>10. CASE Lookup(t)
  <2>1. \A s \in Relations : Promised(s) => Promised(s)'
    BY <1>10, PromiseKept DEF Lookup, Known
  <2> QED BY <1>10, <2>1 DEF Lookup, Known
<1>11. CASE NotFound(t)
  <2>1. \A s \in Relations : Promised(s) => Promised(s)'
    BY <1>11, PromiseKept DEF NotFound, Known
  <2> QED BY <1>11, <2>1 DEF NotFound, Known
<1> QED BY <1>1, <1>2, <1>3, <1>4, <1>5, <1>6, <1>7, <1>8, <1>9, <1>10, <1>11
        DEF Configure

\* A thread that asks for an object stores no config and is in none of the
\* stages the configs depend on, before the step and after it.
LEMMA ObtainConfigs ==
  ASSUME IInv, NEW t \in Threads, Obtain(t)
  PROVE  ConfigInv'
<1> USE DEF IInv, TypeOK, ConfigInv, configs, Relations
<1>1. /\ UNCHANGED <<configs, wanted, filling>>
      /\ stage[t] \notin {"idle", "store", "fill", "lookup"}
      /\ \E s \in {"idle", "ask", "lock", "check", "make", "unlock", "return"} :
           stage' = [stage EXCEPT ![t] = s]
  BY DEF Obtain, FastRead, TakeLock, Check, Make, MakeFails, Unlock, Return,
         Work, Receive, Goto
<1>2. \A s \in Relations : Promised(s) => Promised(s)'
  BY <1>1, PromiseKept DEF Known
<1> QED BY <1>1, <1>2 DEF Known

-----------------------------------------------------------------------------
\* A step of the config part touches no object and no lock.
LEMMA ConfigureObjects ==
  ASSUME IInv, NEW t \in Threads, Configure(t)
  PROVE  ObjectInv'
<1> USE DEF IInv, TypeOK, ObjectInv, InLock
<1>1. /\ UNCHANGED <<instance, holder, got>>
      /\ \A u \in Threads \ {t} :
           stage'[u] = stage[u] /\ level'[u] = level[u]
      /\ stage'[t] \notin InLock \cup {"lock", "return"}
  BY DEF Configure, BeginNode, BeginRelation, Take, StoreSource, Fill,
         SourcesStored, Resolve, TestFlag, SetFlag, Filled, Lookup, NotFound,
         Goto, objects
<1> QED BY <1>1

\* A step towards the objects: the lock keeps two threads from publishing.
LEMMA ObtainObjects ==
  ASSUME IInv, NEW t \in Threads, Obtain(t)
  PROVE  ObjectInv'
<1> USE DEF IInv, TypeOK, Goto, objects, Levels
<1>1. ASSUME Receive(t), level[t] \in Levels, UNCHANGED <<instance, holder>>
      PROVE  ObjectInv'
  BY <1>1 DEF Receive, ObjectInv, InLock
<1>2. CASE FastRead(t)
  <2>1. CASE instance[level[t]] # 0
    BY <1>1, <1>2, <2>1 DEF FastRead
  <2>2. CASE instance[level[t]] = 0
    BY <1>2, <2>2 DEF FastRead, ObjectInv, InLock
  <2> QED BY <2>1, <2>2
<1>3. CASE TakeLock(t)
  BY <1>3, NobodyIsNone DEF TakeLock, ObjectInv, InLock
<1>4. CASE Check(t)
  BY <1>4 DEF Check, ObjectInv, InLock
<1>5. CASE Make(t)
  <2>1. /\ level[t] \in Levels
        /\ holder[level[t]] = t
        /\ instance[level[t]] = 0
    BY <1>5 DEF Make, ObjectInv, InLock
  <2>2. \A u \in Threads : got[u][level[t]] = 0
    BY <2>1 DEF ObjectInv
  <2>3. \A u \in Threads \ {t} : stage[u] = "make" => level[u] # level[t]
    BY <2>1 DEF ObjectInv, InLock
  <2>4. /\ stage' = [stage EXCEPT ![t] = "unlock"]
        /\ instance' = [instance EXCEPT ![level[t]] = made + 1]
        /\ UNCHANGED <<holder, got, level>>
    BY <1>5 DEF Make
  <2> QED BY <2>1, <2>2, <2>3, <2>4 DEF ObjectInv, InLock
<1>6. CASE MakeFails(t)
  BY <1>6 DEF MakeFails, ObjectInv, InLock
<1>7. CASE Unlock(t)
  BY <1>7 DEF Unlock, ObjectInv, InLock
<1>8. CASE Return(t)
  BY <1>1, <1>8 DEF Return, ObjectInv
<1>9. CASE Work(t)
  BY <1>9 DEF Work, ObjectInv, InLock
<1> QED BY <1>2, <1>3, <1>4, <1>5, <1>6, <1>7, <1>8, <1>9 DEF Obtain

-----------------------------------------------------------------------------
\* Every step keeps the invariant.
LEMMA NextInv ==
  IInv /\ [Next]_vars => IInv'
<1> SUFFICES ASSUME IInv, [Next]_vars PROVE IInv'
  OBVIOUS
<1>1. ASSUME NEW t \in Threads, Configure(t) PROVE IInv'
  BY <1>1, ConfigureTypes, ConfigureConfigs, ConfigureObjects DEF IInv
<1>2. ASSUME NEW t \in Threads, Obtain(t) PROVE IInv'
  BY <1>2, ObtainTypes, ObtainConfigs, ObtainObjects DEF IInv
<1>3. CASE UNCHANGED vars
  BY <1>3 DEF vars, IInv, TypeOK, ConfigInv, ObjectInv, InLock, Promised, Known
<1> QED BY <1>1, <1>2, <1>3 DEF Next

\* The invariant holds in every state of every behaviour.
LEMMA InvariantHolds == Spec => []IInv
  BY InitInv, NextInv, PTL DEF Spec

\* impl.py and the catalogs: every shared attribute keeps its type, for any
\* number of threads and relations.
THEOREM TypeCorrect == Spec => []TypeOK
<1>1. IInv => TypeOK
  BY DEF IInv
<1> QED BY <1>1, InvariantHolds, PTL

\* load_configs_from_manifest and store_source_configs: a relation of the
\* manifest is unknown to a thread only while another one is about to store it.
THEOREM NobodyLeavesARelationOut == Spec => []UnknownOnlyWhileLoading
<1>1. IInv => UnknownOnlyWhileLoading
  BY DEF IInv, TypeOK, ConfigInv, UnknownOnlyWhileLoading, Promised
<1> QED BY <1>1, InvariantHolds, PTL

\* get_storage_catalog, iceberg_catalog and _catalog: all threads are given the
\* same object of a level, whatever the order in which they first ask for it.
THEOREM AllShareOne == Spec => []OneInstance
<1>1. IInv => OneInstance
  BY DEF IInv, ObjectInv, OneInstance
<1> QED BY <1>1, InvariantHolds, PTL
=============================================================================
