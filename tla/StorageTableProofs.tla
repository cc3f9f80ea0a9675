-------------------------- MODULE StorageTableProofs --------------------------
(***************************************************************************)
(* Proofs about StorageTable for every choice of storages, kinds of nodes   *)
(* and formats and any number of nodes and stops.  The inductive invariant  *)
(* says where each damaged object comes from: from a stop, or from the call *)
(* under way.                                                               *)
(***************************************************************************)
EXTENDS StorageTable, FiniteSetTheorems, SequenceTheorems, TLAPS

Growing == {"incremental", "python", "snapshot"}

IsIncrement(c) ==
  c.op \in {"append", "extend"} /\ c.format = format /\ kind \in Growing

IsLoad(c) == c.op = "load" /\ c.format = format

IsClear(c) ==
  /\ c.op \in {"drop", "truncate", "empty"}
  /\ kind \in {"test", "seed"}
  /\ c.op # "drop" => kind = "seed"
  /\ ~switched => c.format = format

\* A node has one call left, or something to clear before it loads, or the
\* schema is being dropped.
Shape ==
  \/ todo = <<>>
  \/ \A i \in 1..Len(todo) : todo[i].op = "drop"
  \/ Len(todo) = 1 /\ (IsIncrement(todo[1]) \/ IsLoad(todo[1]))
  \/ Len(todo) = 2 /\ IsClear(todo[1]) /\ IsLoad(todo[2])

BusyInv ==
  busy => todo # <<>> /\ todo[1].op \in {"load", "extend", "empty", "drop"}

Stopped(what) == what \in mishaps.what
Touched(f) == busy /\ todo[1].format = f

\* Only a stop, or the call under way, leaves an object that is not whole.
ObjectInv ==
  \A f \in Formats :
    /\ object[f].is = "torn" =>
         /\ store = "local" /\ f # "delta"
         /\ Stopped("write") \/ (Touched(f) /\ todo[1].op # "drop")
    /\ object[f].is = "hollow" =>
         /\ f = "delta"
         /\ \/ Stopped("drop") \/ Stopped("ignored")
            \/ Touched(f) /\ todo[1].op = "drop"
    /\ object[f].is = "files" =>
         /\ f = "delta"
         /\ \/ Stopped("drop") \/ Stopped("ignored") \/ Stopped("write")
            \/ Touched(f)

\* Nothing is stored under another format unless file_format was changed.
StrayInv ==
  ~switched => \A f \in Formats : f # format => object[f].is = "none"

AppendInv ==
  todo # <<>> /\ todo[1].op = "append" =>
    /\ kind = "incremental" => Listed(format) \/ switched
    /\ kind \in {"python", "snapshot"} => TableExists(format)

TruncateInv ==
  todo # <<>> /\ todo[1].op = "truncate" => Listed(todo[1].format)

TestInv ==
  kind = "test" =>
    /\ format = "delta" /\ ~switched
    /\ todo # <<>> /\ todo[1].op = "load" /\ object["delta"].is = "hollow" =>
         Stopped("ignored")

\* The batch of a node under way is one of those begun.
BatchInv == todo # <<>> /\ kind \in Growing /\ todo[1].op # "drop" => batch # 0

OutcomeInv == outcome \in {"ok", "raised"} => todo = <<>>

Unharmed ==
  /\ ~switched
  /\ ~Stopped("drop") /\ ~Stopped("ignored")
  /\ ~(store = "local" /\ format # "delta" /\ Stopped("write"))

HistoryInv ==
  kind \in Growing /\ Unharmed /\ object[format].is = "whole" =>
    object[format].rows = due

ExtendInv ==
  todo # <<>> /\ todo[1].op = "extend" /\ Unharmed =>
    todo[1].rows = due \cup {batch}

IInv ==
  /\ TypeOK /\ Shape /\ BusyInv /\ ObjectInv /\ StrayInv /\ AppendInv
  /\ TruncateInv /\ TestInv /\ BatchInv /\ OutcomeInv /\ HistoryInv /\ ExtendInv
  /\ LeftoversDontBlock /\ SuccessKeepsHistory

-----------------------------------------------------------------------------
\* What is left of the calls when the first is done.
LEMMA TailFacts ==
  ASSUME NEW S, NEW s \in Seq(S), s # <<>>
  PROVE  /\ Tail(s) \in Seq(S)
         /\ Len(s) \in Nat \ {0}
         /\ Len(Tail(s)) = Len(s) - 1
         /\ \A i \in 1..(Len(s) - 1) : Tail(s)[i] = s[i + 1]
         /\ Len(s) = 1 => Tail(s) = <<>>
         /\ s[1] \in S
<1>1. Len(s) \in Nat \ {0}
  OBVIOUS
<1>2. s[1] \in S
  BY <1>1
<1>3. Tail(s) \in Seq(S) /\ Len(Tail(s)) = Len(s) - 1
  OBVIOUS
<1>4. \A i \in 1..(Len(s) - 1) : Tail(s)[i] = s[i + 1]
  OBVIOUS
<1>5. ASSUME Len(s) = 1 PROVE Tail(s) = <<>>
  <2>1. Len(Tail(s)) = 0
    BY <1>3, <1>5
  <2> QED BY <1>3, <2>1, EmptySeq
<1> QED BY <1>1, <1>2, <1>3, <1>4, <1>5

LEMMA InitInv == Init => IInv
<1> SUFFICES ASSUME Init PROVE IInv
  OBVIOUS
<1>1. TypeOK
  <2>1. object \in [Formats -> Objects]
    BY DEF Init, Absent, Objects
  <2>2. todo \in Seq(Calls)
    BY DEF Init
  <2>3. /\ batch \in 0..MaxNodes
        /\ mishaps \in [what : SUBSET {"write", "drop", "ignored"},
                        count : 0..MaxMishaps]
    BY BoundsAreNaturals DEF Init
  <2> QED BY <2>1, <2>2, <2>3 DEF Init, TypeOK
<1>2. Shape
  BY DEF Init, Shape
<1>3. BusyInv
  BY DEF Init, BusyInv
<1>4. ObjectInv
  BY DEF Init, ObjectInv, Absent
<1>5. StrayInv
  BY DEF Init, StrayInv, Absent
<1>6. AppendInv
  BY DEF Init, AppendInv
<1>7. TruncateInv
  BY DEF Init, TruncateInv
<1>8. TestInv
  BY DEF Init, TestInv, Absent
<1>9. BatchInv
  BY DEF Init, BatchInv
<1>10. OutcomeInv
  BY DEF Init, OutcomeInv
<1>11. HistoryInv
  BY DEF Init, HistoryInv, Absent
<1>12. ExtendInv
  BY DEF Init, ExtendInv
<1>13. LeftoversDontBlock
  BY DEF Init, LeftoversDontBlock
<1>14. SuccessKeepsHistory
  BY DEF Init, SuccessKeepsHistory
<1> QED BY <1>1, <1>2, <1>3, <1>4, <1>5, <1>6, <1>7,
           <1>8, <1>9, <1>10, <1>11, <1>12, <1>13, <1>14 DEF IInv

\* Storing one object leaves the others, and the types, as they are.
LEMMA PutFacts ==
  ASSUME TypeOK, NEW f \in Formats, NEW o \in Objects, Put(f, o)
  PROVE  /\ object' \in [Formats -> Objects]
         /\ object'[f] = o
         /\ \A g \in Formats : g # f => object'[g] = object[g]
  BY DEF Put, TypeOK

LEMMA FirstFacts ==
  ASSUME TypeOK, NEW op, Doing(op)
  PROVE  /\ todo # <<>> /\ First \in Calls /\ First.op = op
         /\ Target \in Formats /\ First.rows \in SUBSET (1..MaxNodes)
<1>1. First \in Calls
  BY TailFacts DEF TypeOK, Doing, First
<1> QED BY <1>1 DEF Doing, Target, Calls

LEMMA MishapFacts ==
  ASSUME TypeOK, NEW w \in {"write", "drop", "ignored"}, Mishap(w)
  PROVE  /\ mishaps' \in [what : SUBSET {"write", "drop", "ignored"},
                          count : 0..MaxMishaps]
         /\ mishaps'.what = mishaps.what \cup {w}
<1>1. mishaps.what \in SUBSET {"write", "drop", "ignored"}
  BY DEF TypeOK
<1>2. mishaps.count \in 0..MaxMishaps /\ mishaps.count < MaxMishaps
  BY DEF TypeOK, Mishap
<1>3. mishaps.count + 1 \in 0..MaxMishaps
  BY <1>2, BoundsAreNaturals
<1>4. mishaps' = [what |-> mishaps.what \cup {w}, count |-> mishaps.count + 1]
  BY DEF Mishap
<1> QED BY <1>1, <1>3, <1>4

\* After its first call a node is at its load, or done.
LEMMA DoneFacts ==
  ASSUME IInv, todo # <<>>, Done, UNCHANGED <<format, kind, switched>>
  PROVE  /\ todo' \in Seq(Calls)
         /\ Shape'
         /\ busy' = FALSE
         /\ outcome' \in {"none", "ok"}
         /\ todo' # <<>> =>
              \/ todo'[1].op = "drop" /\ First.op = "drop"
              \/ /\ todo'[1].op = "load" /\ todo'[1].format = format
                 /\ IsClear(First)
         /\ outcome' = "ok" =>
              /\ todo' = <<>>
              /\ IsIncrement(First) \/ IsLoad(First)
<1>1. /\ todo \in Seq(Calls)
      /\ todo' = Tail(todo)
      /\ busy' = FALSE
      /\ outcome' = IF Len(todo) = 1 /\ ~Doing("drop") THEN "ok" ELSE "none"
  BY DEF Done, IInv, TypeOK
<1>2. /\ Tail(todo) \in Seq(Calls)
      /\ Len(todo) \in Nat \ {0}
      /\ Len(todo') = Len(todo) - 1
      /\ \A j \in 1..(Len(todo) - 1) : todo'[j] = todo[j + 1]
      /\ Len(todo) = 1 => todo' = <<>>
  BY <1>1, TailFacts
<1>3. CASE \A j \in 1..Len(todo) : todo[j].op = "drop"
  <2>1. First.op = "drop" /\ outcome' = "none"
    BY <1>1, <1>2, <1>3 DEF First, Doing
  <2>2. \A j \in 1..Len(todo') : todo'[j].op = "drop"
    BY <1>2, <1>3
  <2>3. todo' # <<>> => todo'[1].op = "drop"
    <3>1. ASSUME todo' # <<>> PROVE Len(todo) # 1
      BY <1>2, <3>1
    <3> QED BY <1>2, <2>2, <3>1
  <2> QED BY <1>1, <1>2, <2>1, <2>2, <2>3 DEF Shape
<1>4. CASE Len(todo) = 1 /\ (IsIncrement(todo[1]) \/ IsLoad(todo[1]))
  BY <1>1, <1>2, <1>4 DEF Shape, First
<1>5. CASE Len(todo) = 2 /\ IsClear(todo[1]) /\ IsLoad(todo[2])
  <2>1. Len(todo') = 1 /\ outcome' = "none"
    BY <1>1, <1>2, <1>5
  <2>2. todo'[1] = todo[1 + 1]
    BY <1>2, <1>5
  <2> QED BY <1>1, <1>2, <1>5, <2>1, <2>2 DEF Shape, IsLoad, First
<1> QED BY <1>3, <1>4, <1>5 DEF IInv, Shape

-----------------------------------------------------------------------------
\* One lemma for each action.
LEMMA BeginIncrementStep ==
  ASSUME IInv, BeginIncrement
  PROVE  IInv'
<1> USE DEF IInv
<1>a. /\ todo = <<>> /\ ~busy
      /\ todo' = <<Call("append", format, {})>>
      /\ outcome' = "none"
      /\ batch' = batch + 1 /\ batch < MaxNodes
      /\ UNCHANGED <<store, kind, format, object, busy, due, switched, mishaps>>
  BY DEF BeginIncrement, Start, BusyInv
<1>b. batch' \in 0..MaxNodes /\ batch + 1 \in 1..MaxNodes
  BY <1>a, BoundsAreNaturals DEF TypeOK
<1>c. /\ todo' \in Seq(Calls) /\ Len(todo') = 1
      /\ todo'[1] = [op |-> "append", format |-> format, rows |-> {}]
  BY <1>a DEF Call, Calls, Ops, TypeOK
<1>d. Increments
  BY DEF BeginIncrement
<1>1. TypeOK'
  BY <1>a, <1>b, <1>c DEF TypeOK
<1>2. Shape'
  BY <1>a, <1>c, <1>d DEF Shape, IsIncrement, IsLoad, IsClear, Increments, Growing
<1>3. BusyInv'
  BY <1>a, <1>b, <1>c DEF BusyInv
<1>4. ObjectInv'
  BY <1>a, <1>b, <1>c DEF ObjectInv, Stopped, Touched
<1>5. StrayInv'
  BY <1>a, <1>b, <1>c DEF StrayInv
<1>6. AppendInv'
  <2>1. ASSUME kind = "incremental", ~switched PROVE Listed(format)
    BY <1>d, <2>1 DEF Increments, StrayInv, Listed, LogFound, FileFound
  <2>2. ASSUME kind \in {"python", "snapshot"} PROVE TableExists(format)
    BY <1>d, <2>2 DEF Increments
  <2> QED BY <1>a, <2>1, <2>2
          DEF AppendInv, Listed, LogFound, FileFound, TableExists, PathExists
<1>7. TruncateInv'
  BY <1>a, <1>b, <1>c DEF TruncateInv, Listed, LogFound, FileFound
<1>8. TestInv'
  BY <1>a, <1>b, <1>c DEF TestInv, Stopped
<1>9. BatchInv'
  BY <1>a, <1>b, <1>c DEF BatchInv
<1>10. OutcomeInv'
  BY <1>a, <1>b, <1>c DEF OutcomeInv
<1>11. HistoryInv'
  BY <1>a, <1>b, <1>c DEF HistoryInv, Unharmed, Stopped, Growing
<1>12. ExtendInv'
  BY <1>a, <1>b, <1>c DEF ExtendInv, Unharmed, Stopped, Growing
<1>13. LeftoversDontBlock'
  BY <1>a, <1>b, <1>c DEF LeftoversDontBlock
<1>14. SuccessKeepsHistory'
  BY <1>a, <1>b, <1>c DEF SuccessKeepsHistory
<1> QED BY <1>1, <1>2, <1>3, <1>4, <1>5, <1>6, <1>7,
           <1>8, <1>9, <1>10, <1>11, <1>12, <1>13, <1>14

LEMMA BeginLoadStep ==
  ASSUME IInv, BeginLoad
  PROVE  IInv'
<1> USE DEF IInv
<1>a. /\ todo = <<>> /\ ~busy
      /\ todo' = <<Load>>
      /\ outcome' = "none"
      /\ batch' = batch + 1 /\ batch < MaxNodes
      /\ UNCHANGED <<store, kind, format, object, busy, due, switched, mishaps>>
  BY DEF BeginLoad, Start, BusyInv
<1>b. batch' \in 0..MaxNodes /\ batch + 1 \in 1..MaxNodes
  BY <1>a, BoundsAreNaturals DEF TypeOK
<1>c. /\ todo' \in Seq(Calls) /\ Len(todo') = 1
      /\ todo'[1] = [op |-> "load", format |-> format, rows |-> {batch + 1}]
  BY <1>a, <1>b DEF Call, Load, Calls, Ops, TypeOK
<1>d. kind = "test" => object["delta"].is # "hollow"
  BY FormatsAreKnown DEF BeginLoad, Clearing, Listed, LogFound
<1>1. TypeOK'
  BY <1>a, <1>b, <1>c DEF TypeOK
<1>2. Shape'
  BY <1>a, <1>b, <1>c DEF Shape, IsIncrement, IsLoad, IsClear
<1>3. BusyInv'
  BY <1>a, <1>b, <1>c DEF BusyInv
<1>4. ObjectInv'
  BY <1>a, <1>b, <1>c DEF ObjectInv, Stopped, Touched
<1>5. StrayInv'
  BY <1>a, <1>b, <1>c DEF StrayInv
<1>6. AppendInv'
  BY <1>a, <1>b, <1>c DEF AppendInv, Listed, LogFound, FileFound, TableExists, PathExists
<1>7. TruncateInv'
  BY <1>a, <1>b, <1>c DEF TruncateInv, Listed, LogFound, FileFound
<1>8. TestInv'
  BY <1>a, <1>c, <1>d DEF TestInv, Stopped
<1>9. BatchInv'
  BY <1>a, <1>b, <1>c DEF BatchInv
<1>10. OutcomeInv'
  BY <1>a, <1>b, <1>c DEF OutcomeInv
<1>11. HistoryInv'
  BY <1>a, <1>b, <1>c DEF HistoryInv, Unharmed, Stopped, Growing
<1>12. ExtendInv'
  BY <1>a, <1>b, <1>c DEF ExtendInv, Unharmed, Stopped, Growing
<1>13. LeftoversDontBlock'
  BY <1>a, <1>b, <1>c DEF LeftoversDontBlock
<1>14. SuccessKeepsHistory'
  BY <1>a, <1>b, <1>c DEF SuccessKeepsHistory
<1> QED BY <1>1, <1>2, <1>3, <1>4, <1>5, <1>6, <1>7,
           <1>8, <1>9, <1>10, <1>11, <1>12, <1>13, <1>14

LEMMA BeginClearStep ==
  ASSUME IInv, BeginClear
  PROVE  IInv'
<1> USE DEF IInv
<1>0. PICK op \in Clearing, f \in {g \in Formats : Listed(g)} :
        Start(<<Call(op, f, {}), Load>>)
  BY DEF BeginClear
<1>a. /\ todo = <<>> /\ ~busy
      /\ todo' = <<Call(op, f, {}), Load>>
      /\ outcome' = "none"
      /\ batch' = batch + 1 /\ batch < MaxNodes
      /\ UNCHANGED <<store, kind, format, object, busy, due, switched, mishaps>>
  BY <1>0 DEF Start, BusyInv
<1>b. batch' \in 0..MaxNodes /\ batch + 1 \in 1..MaxNodes
  BY <1>a, BoundsAreNaturals DEF TypeOK
<1>c. /\ op \in {"drop", "truncate"} /\ kind \in {"test", "seed"}
      /\ op # "drop" => kind = "seed"
      /\ f \in Formats /\ Listed(f)
  BY <1>0 DEF Clearing
<1>d. /\ todo' \in Seq(Calls) /\ Len(todo') = 2
      /\ todo'[1] = [op |-> op, format |-> f, rows |-> {}]
      /\ todo'[2] = [op |-> "load", format |-> format, rows |-> {batch + 1}]
  <2>1. Call(op, f, {}) \in Calls /\ Load \in Calls
    BY <1>b, <1>c DEF Call, Load, Calls, Ops, TypeOK
  <2> QED BY <1>a, <2>1 DEF Call, Load
<1>e. ~switched => f = format
  BY <1>c DEF StrayInv, Listed, LogFound, FileFound
<1>1. TypeOK'
  BY <1>a, <1>b, <1>d, <1>c DEF TypeOK
<1>2. Shape'
  BY <1>a, <1>c, <1>d, <1>e DEF Shape, IsIncrement, IsLoad, IsClear
<1>3. BusyInv'
  BY <1>a, <1>b, <1>d, <1>c DEF BusyInv
<1>4. ObjectInv'
  BY <1>a, <1>b, <1>d, <1>c DEF ObjectInv, Stopped, Touched
<1>5. StrayInv'
  BY <1>a, <1>b, <1>d, <1>c DEF StrayInv
<1>6. AppendInv'
  BY <1>a, <1>b, <1>d, <1>c DEF AppendInv, Listed, LogFound, FileFound, TableExists, PathExists
<1>7. TruncateInv'
  BY <1>a, <1>b, <1>d, <1>c DEF TruncateInv, Listed, LogFound, FileFound
<1>8. TestInv'
  BY <1>a, <1>b, <1>d, <1>c DEF TestInv, Stopped
<1>9. BatchInv'
  BY <1>a, <1>b, <1>d, <1>c DEF BatchInv
<1>10. OutcomeInv'
  BY <1>a, <1>b, <1>d, <1>c DEF OutcomeInv
<1>11. HistoryInv'
  BY <1>a, <1>b, <1>d, <1>c DEF HistoryInv, Unharmed, Stopped, Growing
<1>12. ExtendInv'
  BY <1>a, <1>b, <1>d, <1>c DEF ExtendInv, Unharmed, Stopped, Growing
<1>13. LeftoversDontBlock'
  BY <1>a, <1>b, <1>d, <1>c DEF LeftoversDontBlock
<1>14. SuccessKeepsHistory'
  BY <1>a, <1>b, <1>d, <1>c DEF SuccessKeepsHistory
<1> QED BY <1>1, <1>2, <1>3, <1>4, <1>5, <1>6, <1>7,
           <1>8, <1>9, <1>10, <1>11, <1>12, <1>13, <1>14

LEMMA ReadForAppendStep ==
  ASSUME IInv, ReadForAppend
  PROVE  IInv'
<1> USE DEF IInv
<1>a. Doing("append") /\ ~busy
  BY DEF ReadForAppend
<1>b. PICK r \in Reads(Target) :
        todo' = <<Call("extend", Target, r \cup {batch})>>
  BY DEF ReadForAppend
<1>c. UNCHANGED <<store, kind, format, object, busy, batch, due, outcome,
                  switched, mishaps>>
  BY DEF ReadForAppend
<1>d. /\ First.op = "append" /\ Target \in Formats
      /\ todo # <<>> /\ todo[1] = First /\ First \in Calls
  BY <1>a, FirstFacts DEF First
<1>e. Len(todo) = 1 /\ IsIncrement(First)
  <2>1. todo \in Seq(Calls) /\ Len(todo) \in Nat \ {0}
    BY <1>d, TailFacts DEF TypeOK
  <2> QED BY <1>d, <2>1 DEF Shape, First, IsClear, IsLoad
<1>f. r \subseteq object[Target].rows /\ object[Target].rows \subseteq 1..MaxNodes
  BY <1>b, <1>d DEF Reads, TypeOK, Objects
<1>g. r \cup {batch} \in SUBSET (1..MaxNodes)
  <2>1. batch \in 0..MaxNodes /\ batch # 0
    BY <1>d, <1>e DEF TypeOK, BatchInv, IsIncrement
  <2>2. batch \in 1..MaxNodes
    BY <2>1, BoundsAreNaturals
  <2> QED BY <1>f, <2>2
<1>h. /\ todo' \in Seq(Calls) /\ Len(todo') = 1
      /\ todo'[1] = [op |-> "extend", format |-> Target, rows |-> r \cup {batch}]
  BY <1>b, <1>d, <1>g DEF Call, Calls, Ops
<1>i. Target = format /\ kind \in Growing
  BY <1>e DEF IsIncrement, Target
<1>1. TypeOK'
  BY <1>c, <1>h DEF TypeOK
<1>2. Shape'
  BY <1>c, <1>h, <1>i DEF Shape, IsIncrement, IsLoad, IsClear
<1>3. BusyInv'
  BY <1>a, <1>c, <1>d, <1>h DEF BusyInv
<1>4. ObjectInv'
  BY <1>a, <1>c, <1>d, <1>h DEF ObjectInv, Stopped, Touched
<1>5. StrayInv'
  BY <1>a, <1>c, <1>d, <1>h DEF StrayInv
<1>6. AppendInv'
  BY <1>a, <1>c, <1>d, <1>h DEF AppendInv, Listed, LogFound, FileFound, TableExists, PathExists
<1>7. TruncateInv'
  BY <1>a, <1>c, <1>d, <1>h DEF TruncateInv, Listed, LogFound, FileFound
<1>8. TestInv'
  BY <1>a, <1>c, <1>d, <1>h DEF TestInv, Stopped
<1>9. BatchInv'
  BY <1>a, <1>c, <1>d, <1>h DEF BatchInv
<1>10. OutcomeInv'
  BY <1>a, <1>c, <1>d, <1>h DEF OutcomeInv
<1>11. HistoryInv'
  BY <1>a, <1>c, <1>d, <1>h DEF HistoryInv, Unharmed, Stopped, Growing
<1>12. ExtendInv'
  <2>1. ASSUME Unharmed PROVE r = due
    <3>1. object[format].is = "whole"
      BY <1>a, <1>b, <1>i, <2>1
         DEF Reads, Unharmed, Stopped, ObjectInv, Touched, TypeOK
    <3> QED BY <1>b, <1>i, <2>1, <3>1 DEF Reads, HistoryInv
  <2> QED BY <1>c, <1>h, <2>1 DEF ExtendInv, Unharmed, Stopped
<1>13. LeftoversDontBlock'
  BY <1>a, <1>c, <1>d, <1>h DEF LeftoversDontBlock
<1>14. SuccessKeepsHistory'
  BY <1>a, <1>c, <1>d, <1>h DEF SuccessKeepsHistory
<1> QED BY <1>1, <1>2, <1>3, <1>4, <1>5, <1>6, <1>7,
           <1>8, <1>9, <1>10, <1>11, <1>12, <1>13, <1>14

LEMMA RefusedStep ==
  ASSUME IInv, Refused
  PROVE  IInv'
<1> USE DEF IInv
<1>a. /\ ~busy /\ Raise
      /\ todo # <<>> /\ First \in Calls /\ Target \in Formats /\ todo[1] = First
      /\ todo \in Seq(Calls) /\ Len(todo) \in Nat \ {0}
      /\ \/ First.op \in {"append", "truncate"} /\ object[Target].is # "whole"
         \/ First.op = "load" /\ object[Target].is = "hollow"
  BY FirstFacts, TailFacts DEF Refused, MayFail, TypeOK, First, Doing
<1>b. /\ todo' = <<>> /\ busy' = FALSE /\ outcome' = "raised"
      /\ UNCHANGED <<store, kind, format, object, batch, due, switched, mishaps>>
  BY <1>a DEF Raise
<1>c. todo' \in Seq(Calls)
  BY <1>b
<1>1. TypeOK'
  BY <1>b, <1>c DEF TypeOK
<1>2. Shape'
  BY <1>a, <1>b DEF Shape, IsIncrement, IsLoad, IsClear
<1>3. BusyInv'
  BY <1>a, <1>b DEF BusyInv
<1>4. ObjectInv'
  BY <1>a, <1>b DEF ObjectInv, Stopped, Touched
<1>5. StrayInv'
  BY <1>a, <1>b DEF StrayInv
<1>6. AppendInv'
  BY <1>a, <1>b DEF AppendInv, Listed, LogFound, FileFound, TableExists, PathExists
<1>7. TruncateInv'
  BY <1>a, <1>b DEF TruncateInv, Listed, LogFound, FileFound
<1>8. TestInv'
  BY <1>a, <1>b DEF TestInv, Stopped
<1>9. BatchInv'
  BY <1>a, <1>b DEF BatchInv
<1>10. OutcomeInv'
  BY <1>a, <1>b DEF OutcomeInv
<1>11. HistoryInv'
  BY <1>a, <1>b DEF HistoryInv, Unharmed, Stopped, Growing
<1>12. ExtendInv'
  BY <1>a, <1>b DEF ExtendInv, Unharmed, Stopped, Growing
<1>13. LeftoversDontBlock'
  <2>1. CASE First.op = "append"
    <3>1. IsIncrement(First)
      BY <1>a, <2>1 DEF Shape, First, IsClear, IsLoad
    <3>2. Target = format /\ kind \in Growing
      BY <3>1 DEF IsIncrement, Target
    <3>3. object[format].is \in {"none", "files", "torn", "hollow"}
      BY <1>a, <2>1, <3>2 DEF TypeOK, Objects
    <3>4. CASE object[format].is = "none"
      BY <1>a, <1>b, <2>1, <3>2, <3>4
         DEF AppendInv, Listed, LogFound, FileFound, TableExists, PathExists,
             LeftoversDontBlock, Growing
    <3>5. CASE object[format].is = "files"
      BY <1>a, <1>b, <2>1, <3>2, <3>5
         DEF AppendInv, Listed, LogFound, FileFound, TableExists, PathExists,
             LeftoversDontBlock, Growing, ObjectInv, Touched, Stopped
    <3>6. CASE object[format].is = "torn"
      BY <1>a, <1>b, <3>2, <3>6
         DEF LeftoversDontBlock, ObjectInv, Touched, Stopped
    <3>7. CASE object[format].is = "hollow"
      BY <1>a, <1>b, <3>2, <3>7
         DEF LeftoversDontBlock, Growing, ObjectInv, Touched, Stopped
    <3> QED BY <3>3, <3>4, <3>5, <3>6, <3>7
  <2>2. CASE First.op = "truncate"
    <3>1. IsClear(First) /\ Listed(Target)
      BY <1>a, <2>2 DEF Shape, First, IsIncrement, IsLoad, TruncateInv, Target
    <3>2. kind = "seed" /\ (~switched => Target = format)
      BY <2>2, <3>1 DEF IsClear, Target
    <3> QED BY <1>a, <1>b, <2>2, <3>1, <3>2
            DEF LeftoversDontBlock, ObjectInv, Touched, Stopped, Listed, LogFound,
                FileFound
  <2>3. CASE First.op = "load"
    <3>1. object[Target].is = "hollow"
      BY <1>a, <2>3
    <3>2. Target = "delta" /\ (Stopped("drop") \/ Stopped("ignored"))
      BY <1>a, <3>1 DEF ObjectInv, Touched
    <3>3. kind = "test" => Stopped("ignored")
      BY <1>a, <2>3, <3>1, <3>2 DEF TestInv
    <3> QED BY <1>b, <3>2, <3>3 DEF LeftoversDontBlock, Stopped
  <2> QED BY <1>a, <2>1, <2>2, <2>3
<1>14. SuccessKeepsHistory'
  BY <1>a, <1>b DEF SuccessKeepsHistory
<1> QED BY <1>1, <1>2, <1>3, <1>4, <1>5, <1>6, <1>7,
           <1>8, <1>9, <1>10, <1>11, <1>12, <1>13, <1>14







\* What the shape of the calls says about the first of them.
LEMMA ShapeFacts ==
  ASSUME IInv, NEW op, Doing(op)
  PROVE  /\ todo # <<>> /\ todo[1] = First /\ First \in Calls /\ First.op = op
         /\ Target = First.format /\ Target \in Formats
         /\ First.rows \in SUBSET (1..MaxNodes)
         /\ op \in {"append", "extend"} => IsIncrement(First)
         /\ op = "load" => IsLoad(First)
         /\ op \in {"truncate", "empty"} =>
              Len(todo) = 2 /\ IsClear(First) /\ IsLoad(todo[2])
<1>1. /\ todo # <<>> /\ First \in Calls /\ First.op = op
      /\ Target \in Formats /\ First.rows \in SUBSET (1..MaxNodes)
  BY FirstFacts DEF IInv
<1>2. todo \in Seq(Calls) /\ Len(todo) \in Nat \ {0}
  BY <1>1, TailFacts DEF IInv, TypeOK
<1>3. CASE \A i \in 1..Len(todo) : todo[i].op = "drop"
  BY <1>1, <1>2, <1>3 DEF First, Target
<1>4. CASE Len(todo) = 1 /\ (IsIncrement(todo[1]) \/ IsLoad(todo[1]))
  BY <1>1, <1>4 DEF First, Target, IsIncrement, IsLoad
<1>5. CASE Len(todo) = 2 /\ IsClear(todo[1]) /\ IsLoad(todo[2])
  BY <1>1, <1>5 DEF First, Target, IsClear
<1> QED BY <1>1, <1>3, <1>4, <1>5 DEF IInv, Shape

\* The parts that hold after any call is done.
LEMMA DoneInv ==
  ASSUME IInv, todo # <<>>, Done, UNCHANGED <<format, kind, switched>>
  PROVE  /\ Shape' /\ BusyInv' /\ AppendInv' /\ TruncateInv' /\ BatchInv'
         /\ OutcomeInv' /\ ExtendInv' /\ LeftoversDontBlock'
<1>1. /\ Shape' /\ busy' = FALSE /\ outcome' \in {"none", "ok"}
      /\ todo' # <<>> =>
           \/ todo'[1].op = "drop"
           \/ todo'[1].op = "load" /\ kind \in {"test", "seed"}
      /\ outcome' = "ok" => todo' = <<>>
  BY DoneFacts DEF IsClear
<1> QED BY <1>1
        DEF BusyInv, AppendInv, TruncateInv, BatchInv, OutcomeInv, ExtendInv,
            LeftoversDontBlock, Growing

\* A call put in front of those that are left.
LEMMA ConsFacts ==
  ASSUME NEW S, NEW c \in S, NEW t \in Seq(S)
  PROVE  /\ <<c>> \o t \in Seq(S)
         /\ Len(<<c>> \o t) = 1 + Len(t)
         /\ (<<c>> \o t)[1] = c
         /\ Len(t) = 1 => (<<c>> \o t)[1 + 1] = t[1]
<1>1. <<c>> \in Seq(S) /\ Len(<<c>>) = 1 /\ <<c>>[1] = c /\ Len(t) \in Nat
  OBVIOUS
<1>2. <<c>> \o t \in Seq(S) /\ Len(<<c>> \o t) = 1 + Len(t)
  BY <1>1
<1>3. (<<c>> \o t)[1] = c
  BY <1>1, <1>2
<1>4. Len(t) = 1 => (<<c>> \o t)[1 + 1] = t[1]
  BY <1>1, <1>2
<1> QED BY <1>2, <1>3, <1>4

LEMMA TruncateStep ==
  ASSUME IInv, Truncate
  PROVE  IInv'
<1> USE DEF IInv
<1>a. /\ Doing("truncate") /\ ~busy
      /\ UNCHANGED <<store, kind, format, batch, due, switched, mishaps>>
  BY DEF Truncate
<1>b. /\ todo # <<>> /\ todo[1] = First /\ First \in Calls
      /\ First.op = "truncate" /\ Target = First.format /\ Target \in Formats
      /\ Len(todo) = 2 /\ IsClear(First) /\ IsLoad(todo[2])
  BY <1>a, ShapeFacts
<1>c. kind = "seed" /\ (~switched => Target = format)
  BY <1>b DEF IsClear
<1>1. CASE Target = "delta"
  <2>a. Done /\ Put(Target, Object("whole", {}))
    BY <1>1 DEF Truncate
  <2>b. /\ object' \in [Formats -> Objects]
        /\ object'[Target].is = "whole"
        /\ \A g \in Formats : g # Target => object'[g] = object[g]
    BY <1>b, <2>a, PutFacts DEF Object, Objects
  <2>c. /\ Shape' /\ BusyInv' /\ AppendInv' /\ TruncateInv' /\ BatchInv'
        /\ OutcomeInv' /\ ExtendInv' /\ LeftoversDontBlock'
    BY <1>a, <1>b, <2>a, DoneInv
  <2>d. todo' \in Seq(Calls) /\ busy' = FALSE /\ outcome' \in {"none", "ok"}
    BY <1>a, <1>b, <2>a, DoneFacts
  <2>1. TypeOK'
    BY <1>a, <2>b, <2>d DEF TypeOK
  <2>2. ObjectInv'
    BY <1>a, <1>b, <2>b DEF ObjectInv, Stopped, Touched
  <2>3. StrayInv'
    BY <1>a, <1>c, <2>b DEF StrayInv
  <2>4. TestInv' /\ HistoryInv'
    BY <1>a, <1>c DEF TestInv, HistoryInv, Growing
  <2>5. SuccessKeepsHistory'
    <3>1. outcome' # "ok"
      BY <1>a, <1>b, <2>a, DoneFacts DEF IsIncrement, IsLoad
    <3> QED BY <3>1 DEF SuccessKeepsHistory
  <2> QED BY <2>c, <2>1, <2>2, <2>3, <2>4, <2>5
<1>2. CASE Target # "delta"
  <2>a. /\ todo' = <<Call("empty", Target, {})>> \o Tail(todo)
        /\ UNCHANGED <<object, busy, outcome>>
    BY <1>2 DEF Truncate
  <2>b. /\ todo' \in Seq(Calls) /\ Len(todo') = 2 /\ todo'[2] = todo[2]
        /\ todo'[1] = [op |-> "empty", format |-> Target, rows |-> {}]
    <3>1. Call("empty", Target, {}) \in Calls
      BY <1>b DEF Call, Calls, Ops
    <3>2. todo \in Seq(Calls) /\ Tail(todo) \in Seq(Calls) /\ Len(Tail(todo)) = 1
      BY <1>b, TailFacts DEF TypeOK
    <3>3. \A i \in 1..(Len(todo) - 1) : Tail(todo)[i] = todo[i + 1]
      BY <1>b, <3>2, TailFacts
    <3>4. Tail(todo)[1] = todo[1 + 1]
      BY <1>b, <3>3
    <3>5. todo' = <<Call("empty", Target, {})>> \o Tail(todo)
      BY <2>a
    <3>6. /\ todo' \in Seq(Calls) /\ Len(todo') = 1 + Len(Tail(todo))
          /\ todo'[1] = Call("empty", Target, {})
      BY <3>1, <3>2, <3>5, ConsFacts
    <3>7. todo'[1 + 1] = Tail(todo)[1]
      BY <3>1, <3>2, <3>5, ConsFacts
    <3>8. Len(todo') = 2 /\ todo'[2] = todo[2]
      <4>1. Len(todo') = 2
        BY <3>2, <3>6
      <4>2. todo'[1 + 1] = todo[1 + 1]
        BY <3>4, <3>7
      <4>3. todo'[2] = todo[2]
        BY <4>2
      <4> QED BY <4>1, <4>3
    <3> QED BY <3>6, <3>8 DEF Call
  <2>1. TypeOK'
    BY <1>a, <2>a, <2>b DEF TypeOK
  <2>2. Shape'
    BY <1>a, <1>b, <1>c, <2>b DEF Shape, IsClear, IsLoad
  <2>3. BusyInv' /\ AppendInv' /\ TruncateInv' /\ BatchInv' /\ ExtendInv'
    BY <1>a, <1>c, <2>a, <2>b
       DEF BusyInv, AppendInv, TruncateInv, BatchInv, ExtendInv, Growing
  <2>4. ObjectInv'
    BY <1>a, <2>a DEF ObjectInv, Stopped, Touched
  <2>5. StrayInv' /\ TestInv' /\ HistoryInv'
    BY <1>a, <1>c, <2>a DEF StrayInv, TestInv, HistoryInv, Growing
  <2>6. OutcomeInv' /\ LeftoversDontBlock' /\ SuccessKeepsHistory'
    BY <1>a, <1>b, <2>a DEF OutcomeInv, LeftoversDontBlock, SuccessKeepsHistory
  <2> QED BY <2>1, <2>2, <2>3, <2>4, <2>5, <2>6
<1> QED BY <1>1, <1>2

LEMMA StartWriteStep ==
  ASSUME IInv, StartWrite
  PROVE  IInv'
<1> USE DEF IInv
<1>a. /\ ~busy /\ busy' = TRUE
      /\ UNCHANGED <<store, kind, format, todo, batch, due, outcome, switched, mishaps>>
      /\ \E op \in {"load", "extend", "empty"} : Doing(op)
  BY DEF StartWrite, Writing
<1>b. /\ todo # <<>> /\ todo[1] = First /\ First \in Calls
      /\ First.op \in {"load", "extend", "empty"}
      /\ Target = First.format /\ Target \in Formats
      /\ First.rows \in SUBSET (1..MaxNodes)
      /\ IsIncrement(First) \/ IsLoad(First) \/ IsClear(First)
  BY <1>a, ShapeFacts
<1>c. ~switched => Target = format
  BY <1>b DEF IsIncrement, IsLoad, IsClear
<1>d. /\ object' \in [Formats -> Objects]
      /\ \A g \in Formats : g # Target => object'[g] = object[g]
      /\ \/ object'[Target] = object[Target]
         \/ object'[Target].is = "files" /\ Target = "delta"
         \/ object'[Target].is = "torn" /\ Target # "delta" /\ store = "local"
  <2>1. CASE UNCHANGED object
    BY <2>1 DEF TypeOK
  <2>2. CASE Target = "delta" /\ Put(Target, Object("files", {}))
    BY <1>b, <2>2, PutFacts DEF Object, Objects
  <2>3. CASE /\ Target # "delta" /\ store = "local"
             /\ Put(Target, Object("torn", First.rows))
    BY <1>b, <2>3, PutFacts DEF Object, Objects
  <2> QED BY <2>1, <2>2, <2>3 DEF StartWrite
<1>1. TypeOK'
  BY <1>a, <1>b, <1>c, <1>d DEF TypeOK
<1>2. Shape'
  BY <1>a DEF Shape, IsIncrement, IsLoad, IsClear
<1>3. BusyInv'
  BY <1>a, <1>b, <1>c, <1>d DEF BusyInv
<1>4. ObjectInv'
  BY <1>a, <1>b, <1>c, <1>d DEF ObjectInv, Stopped, Touched
<1>5. StrayInv'
  BY <1>a, <1>b, <1>c, <1>d DEF StrayInv
<1>6. AppendInv'
  BY <1>a, <1>b, <1>c, <1>d DEF AppendInv, Listed, LogFound, FileFound, TableExists, PathExists
<1>7. TruncateInv'
  BY <1>a, <1>b, <1>c, <1>d DEF TruncateInv, Listed, LogFound, FileFound
<1>8. TestInv'
  BY <1>a, <1>b, <1>c, <1>d DEF TestInv, Stopped
<1>9. BatchInv'
  BY <1>a, <1>b, <1>c, <1>d DEF BatchInv
<1>10. OutcomeInv'
  BY <1>a, <1>b, <1>c, <1>d DEF OutcomeInv
<1>11. HistoryInv'
  BY <1>a, <1>b, <1>c, <1>d DEF HistoryInv, Unharmed, Stopped
<1>12. ExtendInv'
  BY <1>a, <1>b, <1>c, <1>d DEF ExtendInv, Unharmed, Stopped
<1>13. LeftoversDontBlock'
  BY <1>a, <1>b, <1>c, <1>d DEF LeftoversDontBlock
<1>14. SuccessKeepsHistory'
  BY <1>a, <1>b DEF SuccessKeepsHistory, OutcomeInv
<1> QED BY <1>1, <1>2, <1>3, <1>4, <1>5, <1>6, <1>7,
           <1>8, <1>9, <1>10, <1>11, <1>12, <1>13, <1>14

LEMMA CommitStep ==
  ASSUME IInv, Commit
  PROVE  IInv'
<1> USE DEF IInv
<1>0. /\ busy /\ Done
      /\ UNCHANGED <<store, kind, format, batch, switched, mishaps>>
      /\ \E op \in {"load", "extend", "empty"} : Doing(op)
  BY DEF Commit, Writing
<1>d. /\ todo # <<>> /\ todo[1] = First /\ First \in Calls
      /\ First.op \in {"load", "extend", "empty"}
      /\ Target = First.format /\ Target \in Formats
      /\ First.rows \in SUBSET (1..MaxNodes)
      /\ IsIncrement(First) \/ IsLoad(First) \/ IsClear(First)
  BY <1>0, ShapeFacts
<1>a. todo # <<>> /\ Done /\ UNCHANGED <<format, kind, switched>>
  BY <1>0, <1>d
<1>b. /\ Shape' /\ BusyInv' /\ AppendInv' /\ TruncateInv' /\ BatchInv'
      /\ OutcomeInv' /\ ExtendInv' /\ LeftoversDontBlock'
  BY <1>a, DoneInv
<1>c. /\ todo' \in Seq(Calls) /\ busy' = FALSE /\ outcome' \in {"none", "ok"}
      /\ todo' # <<>> =>
           (First.op = "drop" /\ todo'[1].op = "drop") \/ IsClear(First)
      /\ outcome' = "ok" => IsIncrement(First) \/ IsLoad(First)
  BY <1>a, DoneFacts
<1>e. /\ object' \in [Formats -> Objects]
      /\ object'[Target].rows = First.rows
      /\ object'[Target].is =
           IF First.op = "extend" /\ object[Target].is = "hollow" THEN "hollow"
           ELSE "whole"
      /\ \A g \in Formats : g # Target => object'[g] = object[g]
  <2> DEFINE state == IF First.op = "extend" /\ object[Target].is = "hollow"
                        THEN "hollow" ELSE "whole"
  <2>1. Doing("extend") <=> First.op = "extend"
    BY <1>d DEF Doing
  <2>2. Put(Target, Object(state, First.rows)) /\ Object(state, First.rows) \in Objects
    BY <1>d, <2>1 DEF Commit, Object, Objects
  <2>3. /\ Object(state, First.rows).is = state
        /\ Object(state, First.rows).rows = First.rows
    BY DEF Object
  <2> HIDE DEF state
  <2>4. /\ object' \in [Formats -> Objects]
        /\ object'[Target] = Object(state, First.rows)
        /\ \A g \in Formats : g # Target => object'[g] = object[g]
    BY <1>d, <2>2, PutFacts
  <2> QED BY <2>3, <2>4 DEF state
<1>f. ~switched => Target = format
  BY <1>d DEF IsIncrement, IsLoad, IsClear
<1>g. /\ due' = IF First.op = "extend" THEN due \cup {batch} ELSE First.rows
      /\ due' \subseteq 1..MaxNodes
  <2>1. due' = IF First.op = "extend" THEN due \cup {batch} ELSE First.rows
    BY <1>d DEF Commit, Doing
  <2>2. ASSUME First.op = "extend" PROVE batch \in 1..MaxNodes
    <3>1. batch # 0 /\ batch \in 0..MaxNodes
      BY <1>d, <2>2 DEF BatchInv, IsIncrement, IsLoad, IsClear, TypeOK
    <3> QED BY <3>1, BoundsAreNaturals
  <2> QED BY <1>d, <2>1, <2>2 DEF TypeOK
<1>1. TypeOK'
  BY <1>0, <1>c, <1>e, <1>g DEF TypeOK
<1>2. Shape'
  BY <1>b
<1>3. BusyInv'
  BY <1>b
<1>4. ObjectInv'
  BY <1>0, <1>c, <1>d, <1>e DEF ObjectInv, Stopped, Touched
<1>5. StrayInv'
  BY <1>0, <1>d, <1>e, <1>f DEF StrayInv
<1>6. AppendInv'
  BY <1>b
<1>7. TruncateInv'
  BY <1>b
<1>8. TestInv'
  BY <1>0, <1>c, <1>d DEF TestInv, IsClear
<1>9. BatchInv'
  BY <1>b
<1>10. OutcomeInv'
  BY <1>b
<1>11. HistoryInv'
  <2>1. ASSUME kind \in Growing PROVE Target = format /\ First.op \in {"load", "extend"}
    BY <1>d, <2>1 DEF IsIncrement, IsLoad, IsClear, Growing
  <2>2. ASSUME Unharmed, First.op = "extend" PROVE First.rows = due'
    BY <1>d, <1>g, <2>2 DEF ExtendInv
  <2>3. ASSUME First.op = "load" PROVE First.rows = due'
    BY <1>g, <2>3
  <2> QED BY <1>0, <1>e, <2>1, <2>2, <2>3 DEF HistoryInv, Unharmed, Stopped
<1>12. ExtendInv'
  BY <1>b
<1>13. LeftoversDontBlock'
  BY <1>b
<1>14. SuccessKeepsHistory'
  <2> SUFFICES ASSUME outcome' = "ok" PROVE SuccessKeepsHistory'
    BY DEF SuccessKeepsHistory
  <2>1. CASE IsLoad(First)
    <3>1. First.op = "load" /\ Target = format
      BY <1>d, <2>1 DEF IsLoad
    <3> QED BY <1>0, <1>e, <1>g, <3>1 DEF SuccessKeepsHistory
  <2>2. CASE IsIncrement(First)
    <3>1. First.op = "extend" /\ Target = format /\ kind \in Growing
      BY <1>d, <2>2 DEF IsIncrement
    <3>2. CASE ~Unharmed
      BY <1>0, <3>1, <3>2 DEF SuccessKeepsHistory, Unharmed, Stopped, Growing
    <3>3. CASE Unharmed
      <4>1. object[Target].is # "hollow"
        BY <1>d, <3>1, <3>3 DEF ObjectInv, Unharmed, Touched
      <4>2. First.rows = due'
        BY <1>d, <1>g, <3>1, <3>3 DEF ExtendInv
      <4> QED BY <1>0, <1>e, <3>1, <4>1, <4>2 DEF SuccessKeepsHistory
    <3> QED BY <3>2, <3>3
  <2> QED BY <1>c, <2>1, <2>2
<1> QED BY <1>1, <1>2, <1>3, <1>4, <1>5, <1>6, <1>7,
           <1>8, <1>9, <1>10, <1>11, <1>12, <1>13, <1>14

LEMMA DropPartStep ==
  ASSUME IInv, DropPart
  PROVE  IInv'
<1> USE DEF IInv
<1>a. /\ ~busy /\ busy' = TRUE /\ Doing("drop") /\ Target = "delta"
      /\ UNCHANGED <<store, kind, format, todo, batch, due, outcome, switched, mishaps>>
      /\ object[Target].is # "none"
  BY DEF DropPart, Pieces
<1>b. /\ todo # <<>> /\ todo[1] = First /\ First.op = "drop"
      /\ Target = First.format /\ Target \in Formats
  BY <1>a, ShapeFacts
<1>c. PICK s \in {"files", "hollow"} : Put(Target, Object(s, {}))
  BY DEF DropPart
<1>d. /\ object' \in [Formats -> Objects]
      /\ object'[Target].is \in {"files", "hollow"}
      /\ \A g \in Formats : g # Target => object'[g] = object[g]
  BY <1>b, <1>c, PutFacts DEF Object, Objects
<1>1. TypeOK'
  BY <1>a, <1>b, <1>d DEF TypeOK
<1>2. Shape'
  BY <1>a DEF Shape, IsIncrement, IsLoad, IsClear
<1>3. BusyInv'
  BY <1>a, <1>b, <1>d DEF BusyInv
<1>4. ObjectInv'
  BY <1>a, <1>b, <1>d DEF ObjectInv, Stopped, Touched
<1>5. StrayInv'
  BY <1>a, <1>b, <1>d DEF StrayInv
<1>6. AppendInv'
  BY <1>a, <1>b, <1>d DEF AppendInv, Listed, LogFound, FileFound, TableExists, PathExists
<1>7. TruncateInv'
  BY <1>a, <1>b, <1>d DEF TruncateInv, Listed, LogFound, FileFound
<1>8. TestInv'
  BY <1>a, <1>b, <1>d DEF TestInv, Stopped
<1>9. BatchInv'
  BY <1>a, <1>b, <1>d DEF BatchInv
<1>10. OutcomeInv'
  BY <1>a, <1>b, <1>d DEF OutcomeInv
<1>11. HistoryInv'
  BY <1>a, <1>b, <1>d DEF HistoryInv, Unharmed, Stopped, TypeOK
<1>12. ExtendInv'
  BY <1>a, <1>b, <1>d DEF ExtendInv, Unharmed, Stopped
<1>13. LeftoversDontBlock'
  BY <1>a, <1>b, <1>d DEF LeftoversDontBlock
<1>14. SuccessKeepsHistory'
  BY <1>a, <1>b DEF SuccessKeepsHistory, OutcomeInv
<1> QED BY <1>1, <1>2, <1>3, <1>4, <1>5, <1>6, <1>7,
           <1>8, <1>9, <1>10, <1>11, <1>12, <1>13, <1>14

LEMMA DropDoneStep ==
  ASSUME IInv, DropDone
  PROVE  IInv'
<1> USE DEF IInv
<1>0. /\ Doing("drop") /\ Done /\ Put(Target, Absent)
      /\ UNCHANGED <<store, kind, format, batch, due, switched, mishaps>>
  BY DEF DropDone
<1>d. /\ todo # <<>> /\ todo[1] = First /\ First.op = "drop"
      /\ Target = First.format /\ Target \in Formats
  BY <1>0, ShapeFacts
<1>a. todo # <<>> /\ Done /\ UNCHANGED <<format, kind, switched>>
  BY <1>0, <1>d
<1>b. /\ Shape' /\ BusyInv' /\ AppendInv' /\ TruncateInv' /\ BatchInv'
      /\ OutcomeInv' /\ ExtendInv' /\ LeftoversDontBlock'
  BY <1>a, DoneInv
<1>c. /\ todo' \in Seq(Calls) /\ busy' = FALSE /\ outcome' \in {"none", "ok"}
      /\ todo' # <<>> =>
           (First.op = "drop" /\ todo'[1].op = "drop") \/ IsClear(First)
      /\ outcome' = "ok" => IsIncrement(First) \/ IsLoad(First)
  BY <1>a, DoneFacts
<1>e. /\ object' \in [Formats -> Objects]
      /\ object'[Target].is = "none"
      /\ \A g \in Formats : g # Target => object'[g] = object[g]
  BY <1>0, <1>d, PutFacts DEF Absent, Objects
<1>1. TypeOK'
  BY <1>0, <1>c, <1>e DEF TypeOK
<1>2. Shape'
  BY <1>b
<1>3. BusyInv'
  BY <1>b
<1>4. ObjectInv'
  BY <1>0, <1>c, <1>d, <1>e DEF ObjectInv, Stopped, Touched
<1>5. StrayInv'
  BY <1>0, <1>c, <1>d, <1>e DEF StrayInv
<1>6. AppendInv'
  BY <1>b
<1>7. TruncateInv'
  BY <1>b
<1>8. TestInv'
  <2>1. ASSUME kind = "test", todo' # <<>>, todo'[1].op = "load"
        PROVE  object'["delta"].is = "none"
    <3>1. IsClear(First)
      BY <1>c, <2>1
    <3>2. Target = "delta"
      BY <1>d, <2>1, <3>1 DEF IsClear, TestInv
    <3> QED BY <1>e, <3>2
  <2> QED BY <1>0, <2>1 DEF TestInv
<1>9. BatchInv'
  BY <1>b
<1>10. OutcomeInv'
  BY <1>b
<1>11. HistoryInv'
  BY <1>0, <1>e DEF HistoryInv, Unharmed, Stopped, TypeOK
<1>12. ExtendInv'
  BY <1>b
<1>13. LeftoversDontBlock'
  BY <1>b
<1>14. SuccessKeepsHistory'
  BY <1>c, <1>d DEF SuccessKeepsHistory, IsIncrement, IsLoad
<1> QED BY <1>1, <1>2, <1>3, <1>4, <1>5, <1>6, <1>7,
           <1>8, <1>9, <1>10, <1>11, <1>12, <1>13, <1>14

LEMMA DropIgnoredStep ==
  ASSUME IInv, DropIgnored
  PROVE  IInv'
<1> USE DEF IInv
<1>0. /\ Doing("drop") /\ Done /\ Mishap("ignored")
      /\ UNCHANGED <<store, kind, format, object, batch, due, switched>>
  BY DEF DropIgnored
<1>d. /\ todo # <<>> /\ todo[1] = First /\ First.op = "drop"
      /\ Target = First.format /\ Target \in Formats
  BY <1>0, ShapeFacts
<1>a. todo # <<>> /\ Done /\ UNCHANGED <<format, kind, switched>>
  BY <1>0, <1>d
<1>b. /\ Shape' /\ BusyInv' /\ AppendInv' /\ TruncateInv' /\ BatchInv'
      /\ OutcomeInv' /\ ExtendInv' /\ LeftoversDontBlock'
  BY <1>a, DoneInv
<1>c. /\ todo' \in Seq(Calls) /\ busy' = FALSE /\ outcome' \in {"none", "ok"}
      /\ todo' # <<>> =>
           (First.op = "drop" /\ todo'[1].op = "drop") \/ IsClear(First)
      /\ outcome' = "ok" => IsIncrement(First) \/ IsLoad(First)
  BY <1>a, DoneFacts
<1>e. /\ mishaps' \in [what : SUBSET {"write", "drop", "ignored"},
                       count : 0..MaxMishaps]
      /\ mishaps'.what = mishaps.what \cup {"ignored"}
  BY <1>0, MishapFacts
<1>1. TypeOK'
  BY <1>0, <1>c, <1>e DEF TypeOK
<1>2. Shape'
  BY <1>b
<1>3. BusyInv'
  BY <1>b
<1>4. ObjectInv'
  BY <1>0, <1>c, <1>d, <1>e DEF ObjectInv, Stopped, Touched
<1>5. StrayInv'
  BY <1>0, <1>c, <1>d, <1>e DEF StrayInv
<1>6. AppendInv'
  BY <1>b
<1>7. TruncateInv'
  BY <1>b
<1>8. TestInv'
  BY <1>0, <1>e DEF TestInv, Stopped
<1>9. BatchInv'
  BY <1>b
<1>10. OutcomeInv'
  BY <1>b
<1>11. HistoryInv'
  BY <1>0, <1>c, <1>d, <1>e DEF HistoryInv, Unharmed, Stopped
<1>12. ExtendInv'
  BY <1>b
<1>13. LeftoversDontBlock'
  BY <1>b
<1>14. SuccessKeepsHistory'
  BY <1>c, <1>d DEF SuccessKeepsHistory, IsIncrement, IsLoad
<1> QED BY <1>1, <1>2, <1>3, <1>4, <1>5, <1>6, <1>7,
           <1>8, <1>9, <1>10, <1>11, <1>12, <1>13, <1>14

LEMMA StopStep ==
  ASSUME IInv, Stop
  PROVE  IInv'
<1> USE DEF IInv
<1>a. /\ todo # <<>> /\ todo' = <<>> /\ busy' = FALSE /\ outcome' = "stopped"
      /\ UNCHANGED <<store, kind, format, object, batch, due, switched>>
      /\ Mishap(IF Doing("drop") THEN "drop" ELSE "write")
  BY DEF Stop
<1>b. /\ mishaps' \in [what : SUBSET {"write", "drop", "ignored"},
                       count : 0..MaxMishaps]
      /\ mishaps'.what = mishaps.what \cup {IF Doing("drop") THEN "drop" ELSE "write"}
  BY <1>a, MishapFacts
<1>c. Doing("drop") <=> todo[1].op = "drop"
  BY <1>a DEF Doing, First
<1>d. todo' \in Seq(Calls)
  BY <1>a
<1>1. TypeOK'
  BY <1>a, <1>b, <1>c, <1>d DEF TypeOK
<1>2. Shape'
  BY <1>a, <1>b, <1>c, <1>d DEF Shape, IsIncrement, IsLoad, IsClear
<1>3. BusyInv'
  BY <1>a, <1>b, <1>c, <1>d DEF BusyInv
<1>4. ObjectInv'
  BY <1>a, <1>b, <1>c, <1>d DEF ObjectInv, Stopped, Touched
<1>5. StrayInv'
  BY <1>a, <1>b, <1>c, <1>d DEF StrayInv
<1>6. AppendInv'
  BY <1>a, <1>b, <1>c, <1>d DEF AppendInv, Listed, LogFound, FileFound, TableExists, PathExists
<1>7. TruncateInv'
  BY <1>a, <1>b, <1>c, <1>d DEF TruncateInv, Listed, LogFound, FileFound
<1>8. TestInv'
  BY <1>a, <1>b, <1>c, <1>d DEF TestInv, Stopped
<1>9. BatchInv'
  BY <1>a, <1>b, <1>c, <1>d DEF BatchInv
<1>10. OutcomeInv'
  BY <1>a, <1>b, <1>c, <1>d DEF OutcomeInv
<1>11. HistoryInv'
  BY <1>a, <1>b, <1>c, <1>d DEF HistoryInv, Unharmed, Stopped
<1>12. ExtendInv'
  BY <1>a, <1>b, <1>c, <1>d DEF ExtendInv, Unharmed, Stopped
<1>13. LeftoversDontBlock'
  BY <1>a, <1>b, <1>c, <1>d DEF LeftoversDontBlock
<1>14. SuccessKeepsHistory'
  BY <1>a, <1>b, <1>c, <1>d DEF SuccessKeepsHistory
<1> QED BY <1>1, <1>2, <1>3, <1>4, <1>5, <1>6, <1>7,
           <1>8, <1>9, <1>10, <1>11, <1>12, <1>13, <1>14

LEMMA DropSchemaStep ==
  ASSUME IInv, DropSchema
  PROVE  IInv'
<1> USE DEF IInv
<1>a. /\ todo = <<>> /\ ~busy /\ outcome' = "none"
      /\ UNCHANGED <<store, kind, format, busy, batch, due, switched, mishaps>>
      /\ DropDirectory \/ DropEach
  BY DEF DropSchema, BusyInv
<1>b. /\ object' \in [Formats -> Objects]
      /\ \A f \in Formats : object'[f] = object[f] \/ object'[f].is = "none"
  <2>1. CASE DropDirectory
    BY <2>1 DEF DropDirectory, Absent, Objects
  <2>2. CASE DropEach
    BY <2>2 DEF DropEach, TypeOK
  <2> QED BY <1>a, <2>1, <2>2
<1>c. /\ todo' \in Seq(Calls)
      /\ \A i \in 1..Len(todo') : todo'[i].op = "drop"
      /\ todo' # <<>> => todo'[1].op = "drop"
  <2>1. CASE DropDirectory
    <3>1. todo' = <<>> /\ Len(<<>>) = 0
      BY <1>a, <2>1 DEF DropDirectory
    <3> QED BY <3>1
  <2>2. CASE DropEach
    <3>1. IsFiniteSet({"delta", "csv", "parquet"})
      <4>1. IsFiniteSet({} \cup {"delta"})
        BY FS_EmptySet, FS_AddElement
      <4>2. IsFiniteSet(({} \cup {"delta"}) \cup {"csv"})
        BY <4>1, FS_AddElement
      <4>3. IsFiniteSet((({} \cup {"delta"}) \cup {"csv"}) \cup {"parquet"})
        BY <4>2, FS_AddElement
      <4>4. (({} \cup {"delta"}) \cup {"csv"}) \cup {"parquet"}
              = {"delta", "csv", "parquet"}
        OBVIOUS
      <4> QED BY <4>3, <4>4
    <3>2. Cardinality(Formats) \in Nat
      BY <3>1, FS_Subset, FS_CardinalityType, FormatsAreKnown
    <3>3. PICK order \in [1..Cardinality(Formats) -> Formats] :
            todo' = [i \in DOMAIN order |-> Call("drop", order[i], {})]
      BY <2>2 DEF DropEach
    <3>4. /\ todo' = [i \in 1..Cardinality(Formats) |-> Call("drop", order[i], {})]
          /\ \A i \in 1..Cardinality(Formats) :
               Call("drop", order[i], {}) \in Calls
      BY <3>3 DEF Call, Calls, Ops
    <3>5. todo' \in Seq(Calls) /\ Len(todo') = Cardinality(Formats)
      BY <3>2, <3>4
    <3>6. \A i \in 1..Len(todo') : todo'[i].op = "drop"
      BY <3>4, <3>5 DEF Call
    <3>7. todo' # <<>> => Len(todo') \in Nat \ {0}
      BY <3>5, EmptySeq
    <3> QED BY <3>5, <3>6, <3>7
  <2> QED BY <1>a, <2>1, <2>2
<1>1. TypeOK'
  BY <1>a, <1>b, <1>c DEF TypeOK
<1>2. Shape'
  BY <1>a, <1>c DEF Shape
<1>3. BusyInv'
  BY <1>a, <1>b, <1>c DEF BusyInv
<1>4. ObjectInv'
  BY <1>a, <1>b, <1>c DEF ObjectInv, Stopped, Touched
<1>5. StrayInv'
  BY <1>a, <1>b, <1>c DEF StrayInv
<1>6. AppendInv'
  BY <1>a, <1>b, <1>c DEF AppendInv, Listed, LogFound, FileFound, TableExists, PathExists
<1>7. TruncateInv'
  BY <1>a, <1>b, <1>c DEF TruncateInv, Listed, LogFound, FileFound
<1>8. TestInv'
  BY <1>a, <1>b, <1>c DEF TestInv, Stopped
<1>9. BatchInv'
  BY <1>a, <1>b, <1>c DEF BatchInv
<1>10. OutcomeInv'
  BY <1>a, <1>b, <1>c DEF OutcomeInv
<1>11. HistoryInv'
  BY <1>a, <1>b DEF HistoryInv, Unharmed, Stopped, TypeOK
<1>12. ExtendInv'
  BY <1>a, <1>b, <1>c DEF ExtendInv, Unharmed, Stopped
<1>13. LeftoversDontBlock'
  BY <1>a, <1>b, <1>c DEF LeftoversDontBlock
<1>14. SuccessKeepsHistory'
  BY <1>a, <1>b, <1>c DEF SuccessKeepsHistory
<1> QED BY <1>1, <1>2, <1>3, <1>4, <1>5, <1>6, <1>7,
           <1>8, <1>9, <1>10, <1>11, <1>12, <1>13, <1>14

LEMMA ChangeFormatStep ==
  ASSUME IInv, ChangeFormat
  PROVE  IInv'
<1> USE DEF IInv
<1>a. /\ todo = <<>> /\ ~busy /\ outcome' = "none" /\ kind # "test"
      /\ format' \in Formats /\ switched' = TRUE
      /\ UNCHANGED <<store, kind, object, todo, busy, batch, due, mishaps>>
  BY DEF ChangeFormat, BusyInv
<1>1. TypeOK'
  BY <1>a DEF TypeOK
<1>2. Shape'
  BY <1>a DEF Shape
<1>3. BusyInv'
  BY <1>a DEF BusyInv
<1>4. ObjectInv'
  BY <1>a DEF ObjectInv, Stopped, Touched
<1>5. StrayInv'
  BY <1>a DEF StrayInv
<1>6. AppendInv'
  BY <1>a DEF AppendInv, Listed, LogFound, FileFound, TableExists, PathExists
<1>7. TruncateInv'
  BY <1>a DEF TruncateInv, Listed, LogFound, FileFound
<1>8. TestInv'
  BY <1>a DEF TestInv, Stopped
<1>9. BatchInv'
  BY <1>a DEF BatchInv
<1>10. OutcomeInv'
  BY <1>a DEF OutcomeInv
<1>11. HistoryInv'
  BY <1>a DEF HistoryInv, Unharmed, Stopped
<1>12. ExtendInv'
  BY <1>a DEF ExtendInv, Unharmed, Stopped
<1>13. LeftoversDontBlock'
  BY <1>a DEF LeftoversDontBlock
<1>14. SuccessKeepsHistory'
  BY <1>a DEF SuccessKeepsHistory
<1> QED BY <1>1, <1>2, <1>3, <1>4, <1>5, <1>6, <1>7,
           <1>8, <1>9, <1>10, <1>11, <1>12, <1>13, <1>14

-----------------------------------------------------------------------------
LEMMA Stutter == IInv /\ UNCHANGED vars => IInv'
<1> SUFFICES ASSUME IInv, UNCHANGED vars PROVE IInv'
  OBVIOUS
<1>1. UNCHANGED <<store, kind, format, object, todo, busy, batch, due, outcome,
                  switched, mishaps>>
  BY DEF vars
<1> QED BY <1>1
        DEF IInv, TypeOK, Shape, IsIncrement, IsLoad, IsClear, BusyInv, ObjectInv,
            Stopped, Touched, StrayInv, AppendInv, Listed, LogFound, FileFound,
            TableExists, PathExists, TruncateInv, TestInv, BatchInv, OutcomeInv,
            HistoryInv, Unharmed, ExtendInv, LeftoversDontBlock,
            SuccessKeepsHistory

LEMMA Inductive == Spec => []IInv
<1>1. Init => IInv
  BY InitInv
<1>2. IInv /\ [Next]_vars => IInv'
  <2> SUFFICES ASSUME IInv, [Next]_vars PROVE IInv'
    OBVIOUS
  <2>1. CASE BeginIncrement
    BY <2>1, BeginIncrementStep
  <2>2. CASE BeginLoad
    BY <2>2, BeginLoadStep
  <2>3. CASE BeginClear
    BY <2>3, BeginClearStep
  <2>4. CASE ReadForAppend
    BY <2>4, ReadForAppendStep
  <2>5. CASE Truncate
    BY <2>5, TruncateStep
  <2>6. CASE Refused
    BY <2>6, RefusedStep
  <2>7. CASE StartWrite
    BY <2>7, StartWriteStep
  <2>8. CASE Commit
    BY <2>8, CommitStep
  <2>9. CASE DropPart
    BY <2>9, DropPartStep
  <2>10. CASE DropDone
    BY <2>10, DropDoneStep
  <2>11. CASE DropIgnored
    BY <2>11, DropIgnoredStep
  <2>12. CASE Stop
    BY <2>12, StopStep
  <2>13. CASE DropSchema
    BY <2>13, DropSchemaStep
  <2>14. CASE ChangeFormat
    BY <2>14, ChangeFormatStep
  <2>15. CASE UNCHANGED vars
    BY <2>15, Stutter
  <2> QED BY <2>1, <2>2, <2>3, <2>4, <2>5, <2>6, <2>7, <2>8,
             <2>9, <2>10, <2>11, <2>12, <2>13, <2>14, <2>15
          DEF Next
<1> QED BY <1>1, <1>2, PTL DEF Spec

-----------------------------------------------------------------------------
\* Every variable keeps its type, however many nodes are run and stopped.
THEOREM TypeCorrect == Spec => []TypeOK
<1>1. IInv => TypeOK
  BY DEF IInv
<1> QED BY <1>1, Inductive, PTL

\* A node raises only over what the storage of its kind of table cannot hide:
\* a half done drop, a torn local file, a local directory without a log, or a
\* table of another file_format.
THEOREM OnlyNamedLeftoversBlock == Spec => []LeftoversDontBlock
<1>1. IInv => LeftoversDontBlock
  BY DEF IInv
<1> QED BY <1>1, Inductive, PTL

\* After a node that ended well the table holds the batches it owes: no batch of
\* an earlier node is lost, none is kept across a complete load.
THEOREM HistoryIsKept == Spec => []SuccessKeepsHistory
<1>1. IInv => SuccessKeepsHistory
  BY DEF IInv
<1> QED BY <1>1, Inductive, PTL
=============================================================================
