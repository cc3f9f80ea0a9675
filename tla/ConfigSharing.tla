---------------------------- MODULE ConfigSharing ----------------------------
(***************************************************************************)
(* What the worker threads of one dbt run share in PolarsAdapter: the two   *)
(* dictionaries of relation configs (impl.py, filled by set_relations_cache *)
(* before the threads start, by store_source_configs and, when a relation   *)
(* is missing, by load_configs_from_manifest) and the objects that are made *)
(* on first use under a lock: the catalog of the profile, the Iceberg       *)
(* catalog inside it, the REST client inside that one.                      *)
(*                                                                         *)
(* Reading or writing one key of a dictionary and one attribute is atomic   *)
(* (the interpreter's lock); everything longer interleaves.                 *)
(***************************************************************************)
EXTENDS Naturals

CONSTANTS Threads,   \* dbt's worker threads
          Nodes,     \* relations of the manifest's nodes
          Sources,   \* relations of the manifest's sources
          Nothing,   \* no relation
          Nobody,    \* no thread
          Depth,     \* lazily made objects a relation's catalog consists of
          MaxNodes   \* bound on the nodes that are run

ASSUME RelationsDiffer == Nodes \cap Sources = {}
ASSUME NothingIsNone == Nothing \notin Nodes \cup Sources
ASSUME NobodyIsNone == Nobody \notin Threads
ASSUME DepthIsNatural == Depth \in Nat
ASSUME MaxNodesIsNatural == MaxNodes \in Nat

VARIABLES
  nodeConfigs,    \* keys of _node_configs
  sourceConfigs,  \* keys of _source_configs
  loaded,         \* configs_loaded_from_manifest
  stage,          \* what each thread does
  wanted,         \* the relation the thread resolves
  filling,        \* keys the thread's loop has yet to store
  instance,       \* the published object of each level; 0 for none
  holder,         \* the thread that holds the lock of each level
  got,            \* the object each thread was given last, per level
  level,          \* the level each thread asks for
  made,           \* objects made so far
  count           \* nodes begun so far

vars == <<nodeConfigs, sourceConfigs, loaded, stage, wanted, filling,
          instance, holder, got, level, made, count>>

configs == <<nodeConfigs, sourceConfigs, loaded>>
objects == <<instance, holder, got, level, made>>

Relations == Nodes \cup Sources
Levels == 1..Depth

Known == nodeConfigs \cup sourceConfigs

Goto(t, s) == stage' = [stage EXCEPT ![t] = s]

\* _node_configs after set_relations_cache: every node, or none with
\* --no-populate-cache and in run-operation.
Init ==
  /\ nodeConfigs \in {{}, Nodes}
  /\ sourceConfigs = {}
  /\ loaded = FALSE
  /\ stage = [t \in Threads |-> "idle"]
  /\ wanted = [t \in Threads |-> Nothing]
  /\ filling = [t \in Threads |-> {}]
  /\ instance = [l \in Levels |-> 0]
  /\ holder = [l \in Levels |-> Nobody]
  /\ got = [t \in Threads |-> [l \in Levels |-> 0]]
  /\ level = [t \in Threads |-> 1]
  /\ made = 0
  /\ count = 0

-----------------------------------------------------------------------------
(***************************************************************************)
(* The configs.  The materializations `table` and `incremental`, snapshots  *)
(* and tests call store_source_configs first; seeds, unit tests and the     *)
(* second relation of a query go straight to _resolve_relation.             *)
(***************************************************************************)
Take(t, r) ==
  /\ stage[t] = "idle"
  /\ count < MaxNodes
  /\ count' = count + 1
  /\ wanted' = [wanted EXCEPT ![t] = r]
  /\ UNCHANGED <<configs, objects>>

BeginNode(t, r) ==
  /\ Take(t, r)
  /\ IF sourceConfigs = {}
       THEN /\ Goto(t, "store")
            /\ filling' = [filling EXCEPT ![t] = Sources]
       ELSE /\ Goto(t, "resolve")
            /\ UNCHANGED filling

BeginRelation(t, r) ==
  /\ Take(t, r)
  /\ Goto(t, "resolve")
  /\ UNCHANGED filling

\* One round of the loop in store_source_configs.
StoreSource(t, s) ==
  /\ stage[t] = "store"
  /\ s \in filling[t]
  /\ sourceConfigs' = sourceConfigs \cup {s}
  /\ filling' = [filling EXCEPT ![t] = @ \ {s}]
  /\ UNCHANGED <<nodeConfigs, loaded, stage, wanted, objects, count>>

SourcesStored(t) ==
  /\ stage[t] = "store"
  /\ filling[t] = {}
  /\ Goto(t, "resolve")
  /\ UNCHANGED <<configs, wanted, filling, objects, count>>

\* Mutant: a relation that is missing is not looked for in the manifest.
ResolveNoLoad(t) ==
  /\ stage[t] = "resolve"
  /\ Goto(t, "lookup")
  /\ UNCHANGED <<configs, wanted, filling, objects, count>>

Resolve(t) ==
  /\ stage[t] = "resolve"
  /\ Goto(t, IF wanted[t] \in Known THEN "lookup" ELSE "load")
  /\ UNCHANGED <<configs, wanted, filling, objects, count>>

\* load_configs_from_manifest tests the flag, then sets it, then fills.
TestFlag(t) ==
  /\ stage[t] = "load"
  /\ Goto(t, IF loaded THEN "lookup" ELSE "mark")
  /\ UNCHANGED <<configs, wanted, filling, objects, count>>

SetFlag(t) ==
  /\ stage[t] = "mark"
  /\ loaded' = TRUE
  /\ Goto(t, "fill")
  /\ filling' = [filling EXCEPT ![t] = Relations]
  /\ UNCHANGED <<nodeConfigs, sourceConfigs, wanted, objects, count>>

\* setdefault of one relation: the nodes come before the sources.
Fill(t, r) ==
  /\ stage[t] = "fill"
  /\ r \in filling[t]
  /\ r \in Sources => filling[t] \cap Nodes = {}
  /\ nodeConfigs' = nodeConfigs \cup ({r} \cap Nodes)
  /\ sourceConfigs' = sourceConfigs \cup ({r} \cap Sources)
  /\ filling' = [filling EXCEPT ![t] = @ \ {r}]
  /\ UNCHANGED <<loaded, stage, wanted, objects, count>>

Filled(t) ==
  /\ stage[t] = "fill"
  /\ filling[t] = {}
  /\ Goto(t, "lookup")
  /\ UNCHANGED <<configs, wanted, filling, objects, count>>

\* The relation is found and its catalog is asked for ...
Lookup(t) ==
  /\ stage[t] = "lookup"
  /\ wanted[t] \in Known
  /\ Goto(t, "ask")
  /\ level' = [level EXCEPT ![t] = 1]
  /\ UNCHANGED <<configs, wanted, filling, instance, holder, got, made, count>>

\* ... or the node fails: "Could not find config for relation".
NotFound(t) ==
  /\ stage[t] = "lookup"
  /\ wanted[t] \notin Known
  /\ Goto(t, "idle")
  /\ UNCHANGED <<configs, wanted, filling, objects, count>>

-----------------------------------------------------------------------------
(***************************************************************************)
(* The objects.  get_storage_catalog, TableFormatCatalog.iceberg_catalog    *)
(* and IcebergCatalog._catalog share one protocol: look, take the lock,     *)
(* look again, make the object, publish it, give the lock back and return   *)
(* what is published.                                                       *)
(***************************************************************************)
Receive(t) ==
  LET l == level[t] IN
  /\ got' = [got EXCEPT ![t][l] = instance[l]]
  /\ level' = [level EXCEPT ![t] = l + 1]
  /\ Goto(t, "ask")

FastRead(t) ==
  /\ stage[t] = "ask"
  /\ level[t] \in Levels
  /\ IF instance[level[t]] # 0
       THEN Receive(t)
       ELSE Goto(t, "lock") /\ UNCHANGED <<got, level>>
  /\ UNCHANGED <<configs, wanted, filling, instance, holder, made, count>>

TakeLock(t) ==
  /\ stage[t] = "lock"
  /\ holder[level[t]] = Nobody
  /\ holder' = [holder EXCEPT ![level[t]] = t]
  /\ Goto(t, "check")
  /\ UNCHANGED <<configs, wanted, filling, instance, got, level, made, count>>

\* Mutant: the lock is taken and nobody looks again.
CheckNothing(t) ==
  /\ stage[t] = "check"
  /\ Goto(t, "make")
  /\ UNCHANGED <<configs, wanted, filling, objects, count>>

Check(t) ==
  /\ stage[t] = "check"
  /\ Goto(t, IF instance[level[t]] # 0 THEN "unlock" ELSE "make")
  /\ UNCHANGED <<configs, wanted, filling, objects, count>>

\* The new object is assigned when its constructor has returned.
Make(t) ==
  /\ stage[t] = "make"
  /\ made' = made + 1
  /\ instance' = [instance EXCEPT ![level[t]] = made + 1]
  /\ Goto(t, "unlock")
  /\ UNCHANGED <<configs, wanted, filling, holder, got, level, count>>

\* An unknown catalog, a missing package, a service that does not answer: the
\* error leaves the with-block and fails the node.
MakeFails(t) ==
  /\ stage[t] = "make"
  /\ holder' = [holder EXCEPT ![level[t]] = Nobody]
  /\ Goto(t, "idle")
  /\ UNCHANGED <<configs, wanted, filling, instance, got, level, made, count>>

Unlock(t) ==
  /\ stage[t] = "unlock"
  /\ holder' = [holder EXCEPT ![level[t]] = Nobody]
  /\ Goto(t, "return")
  /\ UNCHANGED <<configs, wanted, filling, instance, got, level, made, count>>

Return(t) ==
  /\ stage[t] = "return"
  /\ Receive(t)
  /\ UNCHANGED <<configs, wanted, filling, instance, holder, made, count>>

\* Every object is there and the node does its work.
Work(t) ==
  /\ stage[t] = "ask"
  /\ level[t] \notin Levels
  /\ Goto(t, "idle")
  /\ UNCHANGED <<configs, wanted, filling, objects, count>>

Configure(t) ==
  \/ \E r \in Relations : BeginNode(t, r) \/ BeginRelation(t, r)
  \/ \E r \in Relations : StoreSource(t, r) \/ Fill(t, r)
  \/ SourcesStored(t) \/ Resolve(t) \/ TestFlag(t) \/ SetFlag(t) \/ Filled(t)
  \/ Lookup(t) \/ NotFound(t)

Obtain(t) ==
  \/ FastRead(t) \/ TakeLock(t) \/ Check(t) \/ Make(t) \/ MakeFails(t)
  \/ Unlock(t) \/ Return(t) \/ Work(t)

Next == \E t \in Threads : Configure(t) \/ Obtain(t)

Spec == Init /\ [][Next]_vars

-----------------------------------------------------------------------------
Stages == {"idle", "store", "resolve", "load", "mark", "fill", "lookup",
           "ask", "lock", "check", "make", "unlock", "return"}

\* The values the shared attributes and the threads' own variables take.
TypeOK ==
  /\ nodeConfigs \subseteq Nodes
  /\ sourceConfigs \subseteq Sources
  /\ loaded \in BOOLEAN
  /\ stage \in [Threads -> Stages]
  /\ wanted \in [Threads -> Relations \cup {Nothing}]
  /\ filling \in [Threads -> SUBSET Relations]
  /\ instance \in [Levels -> Nat]
  /\ holder \in [Levels -> Threads \cup {Nobody}]
  /\ got \in [Threads -> [Levels -> Nat]]
  /\ level \in [Threads -> Nat \ {0}]
  /\ made \in Nat
  /\ count \in 0..MaxNodes

\* A node can fail with "Could not find config for relation" for a relation of
\* the manifest only while another thread is in the loop of
\* load_configs_from_manifest and has that relation still before it: what one
\* thread stores, marks and skips never leaves a relation out for good.
UnknownOnlyWhileLoading ==
  \A t \in Threads :
    stage[t] = "lookup" /\ wanted[t] \notin Known =>
      \E u \in Threads : stage[u] = "fill" /\ wanted[t] \in filling[u]

\* However the first uses race, all threads work with one catalog, one Iceberg
\* catalog and one REST client: the caches and the commit pacing they hold are
\* only right when nobody keeps a second one.
OneInstance ==
  \A t, u \in Threads : \A l \in Levels :
    got[t][l] # 0 /\ got[u][l] # 0 => got[t][l] = got[u][l]
=============================================================================
