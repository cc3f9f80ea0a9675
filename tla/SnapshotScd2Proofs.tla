------------------------- MODULE SnapshotScd2Proofs -------------------------
(***************************************************************************)
(* Proofs about SnapshotScd2 for any keys, values and configurations.  The  *)
(* three formats find rows by dbt_scd_id, which is the key and the stamp of *)
(* a row.  The inductive invariant says enough of the stamps in the table,  *)
(* in the source and in what a run read of it for every id to be its own    *)
(* and every new id to be new: then all formats write the same rows.        *)
(***************************************************************************)
EXTENDS SnapshotScd2, TLAPS

(***************************************************************************)
(* A row that is restored with its old updated_at gets the id of its closed *)
(* row when a run has invalidated it and goes by timestamps.                *)
(***************************************************************************)
ReusesIds(c) == c.strategy = "timestamp" /\ c.hardDeletes = "invalidate"
NoIdReused == \A c \in RestoringConfigs : ~ReusesIds(c)

\* The last row the source had for a key.
Latest(k) == IF source[k] # None THEN source[k] ELSE removed[k]

\* Nothing in the source, or read of it, is stamped after now, and what a run
\* read is the latest row of its key, or older.
SourceInv ==
  /\ \A k \in Keys :
       /\ source[k] # None => source[k].stamp <= clock
       /\ removed[k] # None => removed[k].stamp <= clock
  /\ read # None =>
       \A k \in Keys : read[k] # None =>
         /\ read[k].stamp <= clock
         /\ Latest(k) # None =>
              /\ read[k].stamp <= Latest(k).stamp
              /\ read[k].stamp = Latest(k).stamp => read[k] = Latest(k)

\* A row of the table, by itself.
WellFormed(r) ==
  /\ r.from = r.stamp /\ r.stamp <= clock
  /\ r.to = Open => r.updated = r.stamp
  /\ r.to # Open => r.stamp < r.to /\ r.to <= clock

\* A row of the table and a row of its key in the source: the stamp tells the
\* values, and a marker has a stamp no row of the source ever gets.
Fits(r, entry) ==
  entry # None =>
    IF r.deleted THEN entry.stamp # r.stamp
    ELSE r.stamp <= entry.stamp /\ (r.stamp = entry.stamp => r.val = entry.val)

StampsInv ==
  config.strategy = "timestamp" =>
    \A r \in target :
      /\ Fits(r, Latest(r.key))
      /\ read # None => Fits(r, read[r.key])

\* A key that comes back after it was invalidated comes back with a new stamp.
FreshInv ==
  ReusesIds(config) =>
    \A r \in target :
      /\ r.to # Open =>
           /\ source[r.key] # None => r.stamp < source[r.key].stamp
           /\ read # None /\ read[r.key] # None => r.stamp < read[r.key].stamp
      /\ read # None /\ read[r.key] = None /\ source[r.key] # None =>
           r.stamp < source[r.key].stamp

UniqueIds == \A r, s \in target : ScdId(r) = ScdId(s) => r = s

\* Only `invalidate` leaves a key without an open row.
StaysOpen == config.hardDeletes # "invalidate" => \A r \in target : r.key \in OpenKeys

\* The open row of a key is what the last run left it as.
UpToDate(r, entry) ==
  IF config.strategy = "timestamp" THEN entry.stamp <= r.stamp /\ Shows(r, entry)
                                   ELSE r.val = entry.val

TrackInv ==
  exists =>
    \A k \in Keys :
      /\ last[k] # None => \E r \in OpenRows : r.key = k /\ UpToDate(r, last[k])
      /\ last[k] = None /\ config.hardDeletes # "ignore" =>
           \A r \in OpenRows :
             r.key = k => config.hardDeletes = "new_record" /\ r.deleted

TableInv ==
  /\ \A r \in target : WellFormed(r)
  /\ UniqueIds /\ OneOpenRow /\ IntervalsDisjoint /\ StaysOpen
  /\ ~exists => target = {}

IInv == TypeOK /\ SourceInv /\ StampsInv /\ FreshInv /\ TrackInv /\ TableInv

-----------------------------------------------------------------------------
(***************************************************************************)
(* Types: of rows of the source, and of rows of the table.                  *)
(***************************************************************************)
LEMMA EntryFields ==
  ASSUME NEW e \in Entries \cup {None}, e # None
  PROVE  e \in Entries /\ e.val \in Values /\ e.stamp \in Times /\ e.stamp \in Nat
  BY TimeAssumption DEF Entries, Times

LEMMA RowFields ==
  ASSUME NEW r \in Rows
  PROVE  /\ r.key \in Keys /\ r.val \in Values /\ r.stamp \in Times /\ r.from \in Times
         /\ r.to \in Times \cup {Open} /\ r.updated \in Times /\ r.deleted \in BOOLEAN
         /\ r.born \in Times /\ r.stamp \in Nat /\ r.from \in Nat /\ r.updated \in Nat
         /\ r.to # Open => r.to \in Nat
  BY TimeAssumption DEF Rows, Times

LEMMA OpenIsNoTime == \A t \in Times : t # Open /\ t \in Nat
  BY TimeAssumption DEF Times

\* What is known of the state in every run.
LEMMA StateFacts ==
  ASSUME TypeOK
  PROVE  /\ clock \in Nat /\ MaxTime \in Nat
         /\ config.strategy \in {"timestamp", "check"}
         /\ config.hardDeletes \in {"ignore", "invalidate", "new_record"}
         /\ config.format \in {"iceberg", "delta", "file"}
         /\ \A k \in Keys : /\ source[k] \in Entries \cup {None}
                            /\ removed[k] \in Entries \cup {None}
                            /\ last[k] \in Entries \cup {None}
                            /\ Latest(k) \in Entries \cup {None}
                            /\ read # None => read[k] \in Entries \cup {None}
         /\ \A r \in target : r \in Rows
<1>1. config \in AllConfigs
  BY ConfigsAssumption DEF TypeOK
<1>2. clock \in Nat /\ MaxTime \in Nat
  BY TimeAssumption DEF TypeOK, Times
<1>3. \A k \in Keys : /\ source[k] \in Entries \cup {None}
                      /\ removed[k] \in Entries \cup {None}
                      /\ last[k] \in Entries \cup {None}
                      /\ read # None => read[k] \in Entries \cup {None}
  BY DEF TypeOK, SourceTables
<1> QED
  BY <1>1, <1>2, <1>3 DEF AllConfigs, Latest, TypeOK

LEMMA NewRowFields ==
  ASSUME TypeOK, read # None, NEW k \in Present, NEW now \in Times
  PROVE  LET s == NewRow(k, now) IN
         /\ s \in Rows /\ s.key = k /\ s.val = read[k].val /\ s.stamp = Stamp(k, now)
         /\ s.from = s.stamp /\ s.updated = s.stamp /\ s.to = Open /\ ~s.deleted
         /\ Stamp(k, now) \in Times /\ read[k] \in Entries
<1>1. k \in Keys /\ read[k] # None /\ read[k] \in Entries /\ read[k].val \in Values
      /\ read[k].stamp \in Times
  BY StateFacts, EntryFields DEF Present
<1>2. Stamp(k, now) \in Times
  BY <1>1 DEF Stamp
<1> QED
  BY <1>1, <1>2 DEF NewRow, Rows

LEMMA MarkerFields ==
  ASSUME NEW r \in Rows, NEW now \in Times
  PROVE  LET s == DeletedMarker(r, now) IN
         /\ s \in Rows /\ s.key = r.key /\ s.to = r.to /\ s.stamp = now
         /\ s.from = now /\ s.updated = now /\ s.deleted
  BY DEF DeletedMarker, Rows

LEMMA ClosedFields ==
  ASSUME NEW r \in Rows, NEW t \in Times
  PROVE  LET s == CloseAt(r, t) IN
         /\ s \in Rows /\ s.key = r.key /\ s.val = r.val /\ s.stamp = r.stamp
         /\ s.from = r.from /\ s.to = t /\ s.updated = t /\ s.deleted = r.deleted
         /\ s.born = r.born /\ ScdId(s) = ScdId(r)
<1>1. CloseAt(r, t) \in Rows
  BY DEF CloseAt, Rows
<1>2. LET s == CloseAt(r, t) IN
      /\ s.key = r.key /\ s.val = r.val /\ s.stamp = r.stamp
      /\ s.from = r.from /\ s.to = t /\ s.updated = t /\ s.deleted = r.deleted
      /\ s.born = r.born
  BY DEF CloseAt, Rows
<1> QED
  BY <1>1, <1>2 DEF ScdId

\* The rows a run closes are open ones, and it closes them at the clock, or at
\* the stamp of the row that follows.
Closing == ChangedRows \cup DeletedOpen
EndOf(r, now) == IF r \in ChangedRows THEN Stamp(r.key, now) ELSE now

LEMMA ClosingFacts ==
  ASSUME TypeOK, read # None, NEW now \in Times
  PROVE  /\ RowsToClose(now) = {CloseAt(r, EndOf(r, now)) : r \in Closing}
         /\ \A r \in Closing : r \in target /\ r \in Rows /\ r.to = Open
                               /\ EndOf(r, now) \in Times
<1>1. \A r \in ChangedRows : r \in OpenRows /\ r.key \in Present
  BY DEF ChangedRows, Changed
<1>2. \A r \in DeletedOpen : r \in OpenRows /\ r.key \notin Present
  BY DEF DeletedOpen
<1>3. RowsToClose(now) = {CloseAt(r, EndOf(r, now)) : r \in Closing}
  BY <1>1, <1>2 DEF RowsToClose, Closing, EndOf
<1>4. ASSUME NEW r \in Closing
      PROVE  r \in target /\ r \in Rows /\ r.to = Open /\ EndOf(r, now) \in Times
  BY <1>1, <1>2, StateFacts, NewRowFields DEF Closing, OpenRows, EndOf
<1> QED
  BY <1>3, <1>4

LEMMA StagedTypes ==
  ASSUME TypeOK, read # None, NEW now \in Times
  PROVE  RowsToClose(now) \subseteq Rows /\ RowsToInsert(now) \subseteq Rows
<1>1. RowsToClose(now) \subseteq Rows
  BY ClosingFacts, ClosedFields
<1>2. \A k \in KeysToInsert : k \in Present
  BY DEF KeysToInsert, ChangedRows, Changed
<1>3. \A r \in DeletedOpen : r \in Rows
  BY StateFacts DEF DeletedOpen, OpenRows
<1>4. RowsToInsert(now) \subseteq Rows
  BY <1>2, <1>3, NewRowFields, MarkerFields DEF RowsToInsert
<1> QED
  BY <1>1, <1>4

LEMMA UpdatedTypes ==
  ASSUME NEW rows \in SUBSET Rows, NEW staged \in SUBSET Rows
  PROVE  Updated(rows, staged) \subseteq Rows
<1>1. ASSUME NEW r \in Rows, NEW s \in Rows
      PROVE  [s EXCEPT !.born = r.born] \in Rows
  BY DEF Rows
<1> QED
  BY <1>1 DEF Updated

LEMMA WrittenTypes ==
  ASSUME NEW rows \in SUBSET Rows, NEW close \in SUBSET Rows, NEW insert \in SUBSET Rows
  PROVE  Written(rows, close, insert) \subseteq Rows
<1>1. /\ Updated(rows, close) \subseteq Rows
      /\ Updated(rows, close \cup insert) \subseteq Rows
  BY UpdatedTypes
<1> QED
  BY <1>1 DEF Written, IcebergWrite, DeltaWrite, FileWrite

-----------------------------------------------------------------------------
(***************************************************************************)
(* What a run inserts: a row for each key of the source that is new or      *)
(* changed, and markers for keys that are gone.                             *)
(***************************************************************************)
LEMMA InsertFacts ==
  ASSUME TypeOK, read # None, NEW now \in Times, NEW s \in RowsToInsert(now)
  PROVE  /\ s \in Rows /\ s.to = Open /\ s.from = s.stamp /\ s.updated = s.stamp
         /\ \/ /\ s.key \in KeysToInsert /\ s.key \in Present /\ s = NewRow(s.key, now)
               /\ s.stamp = Stamp(s.key, now) /\ s.val = read[s.key].val /\ ~s.deleted
            \/ /\ s.key \notin Present /\ s.stamp = now /\ s.deleted
               /\ config.hardDeletes = "new_record"
               /\ \E d \in DeletedOpen : d.key = s.key /\ s = DeletedMarker(d, now)
<1>1. CASE \E k \in KeysToInsert : s = NewRow(k, now)
  <2>1. PICK k \in KeysToInsert : s = NewRow(k, now)
    BY <1>1
  <2>2. k \in Present
    BY DEF KeysToInsert, ChangedRows, Changed
  <2> QED
    BY <2>1, <2>2, NewRowFields
<1>2. CASE \E d \in DeletedOpen :
             config.hardDeletes = "new_record" /\ s = DeletedMarker(d, now)
  <2>1. PICK d \in DeletedOpen :
          config.hardDeletes = "new_record" /\ s = DeletedMarker(d, now)
    BY <1>2
  <2>2. d \in Rows /\ d.to = Open /\ d.key \notin Present
    BY StateFacts DEF DeletedOpen, OpenRows
  <2> QED
    BY <2>1, <2>2, MarkerFields
<1> QED
  BY <1>1, <1>2 DEF RowsToInsert

\* A run closes the open row of every key it inserts a row for.
LEMMA InsertCloses ==
  ASSUME IInv, read # None, NEW now \in Times, NEW s \in RowsToInsert(now),
         NEW r \in OpenRows, r.key = s.key
  PROVE  r \in Closing /\ (s.key \in Present => r \in ChangedRows)
                       /\ (s.key \notin Present => r \in DeletedOpen)
<1> USE DEF IInv
<1>1. CASE s.key \in Present
  <2>1. s.key \in OpenKeys
    BY DEF OpenKeys
  <2>2. PICK o \in ChangedRows : o.key = s.key
    BY <1>1, <2>1, InsertFacts DEF KeysToInsert
  <2>3. o = r
    BY <2>2 DEF TableInv, OneOpenRow, ChangedRows
  <2> QED
    BY <1>1, <2>2, <2>3 DEF Closing
<1>2. CASE s.key \notin Present
  <2>1. config.hardDeletes = "new_record"
    BY <1>2, InsertFacts
  <2> QED
    BY <1>2, <2>1 DEF DeletedOpen, Closing
<1> QED
  BY <1>1, <1>2

(***************************************************************************)
(* By timestamps a row is inserted with the stamp of a source row: later    *)
(* than those of all rows of its key.                                       *)
(***************************************************************************)
LEMMA NewStampIsLater ==
  ASSUME IInv, read # None, config.strategy = "timestamp",
         NEW k \in KeysToInsert, NEW r \in target, r.key = k
  PROVE  /\ r.stamp < read[k].stamp
         /\ ~ReusesIds(config) /\ r.to # Open => r.to <= read[k].stamp
<1> USE DEF IInv
<1>1. k \in Present /\ k \in Keys /\ read[k] # None /\ read[k] \in Entries
      /\ read[k].stamp \in Nat /\ r \in Rows
  BY StateFacts, EntryFields DEF KeysToInsert, ChangedRows, Changed, Present
<1>2. r.stamp \in Nat /\ (r.to # Open => r.to \in Nat) /\ WellFormed(r)
  BY <1>1, RowFields DEF TableInv
<1>3. CASE k \in OpenKeys
  <2>1. PICK o \in ChangedRows : o.key = k
    BY <1>3 DEF KeysToInsert
  <2>2. o \in OpenRows /\ o \in target /\ o.to = Open /\ read[k].stamp > o.updated /\ o \in Rows
    BY <2>1, StateFacts DEF ChangedRows, Changed, OpenRows
  <2>3. o.updated = o.stamp /\ o.from = o.stamp /\ o.stamp \in Nat
    BY <2>2, RowFields DEF TableInv, WellFormed
  <2>4. CASE r.to = Open
    <3>1. r = o
      BY <2>1, <2>2, <2>4 DEF TableInv, OneOpenRow, OpenRows
    <3> QED
      BY <1>1, <2>2, <2>3, <2>4, <3>1
  <2>5. CASE r.to # Open /\ ~ReusesIds(config)
    <3>1. r # o
      BY <2>2, <2>5
    <3>2. config.hardDeletes # "invalidate"
      BY <2>5 DEF ReusesIds
    <3>3. r.to <= o.from
      BY <2>1, <2>2, <3>1, <3>2 DEF TableInv, IntervalsDisjoint
    <3> QED
      BY <1>1, <1>2, <2>2, <2>3, <2>5, <3>3 DEF WellFormed
  <2>6. CASE r.to # Open /\ ReusesIds(config)
    BY <1>1, <2>6 DEF FreshInv
  <2> QED
    BY <2>4, <2>5, <2>6
<1>4. CASE k \notin OpenKeys
  <2>1. ReusesIds(config)
    BY <1>4 DEF ReusesIds, TableInv, StaysOpen
  <2>2. r.to # Open
    BY <1>4 DEF OpenKeys, OpenRows
  <2> QED
    BY <1>1, <2>1, <2>2 DEF FreshInv
<1> QED
  BY <1>3, <1>4

\* A closed row ends after it began, and no later than now; a row that is
\* inserted has a stamp of its own and begins when the older ones have ended.
LEMMA NewRowsFollow ==
  ASSUME IInv, read # None, NEW now \in Times, now = clock + 1,
         NEW s \in RowsToInsert(now), NEW r \in target, r.key = s.key
  PROVE  /\ r.stamp < s.stamp
         /\ ~ReusesIds(config) /\ r.to # Open => r.to <= s.from
         /\ r \in Closing => EndOf(r, now) <= s.from
<1> USE DEF IInv
<1>1. /\ r \in Rows /\ r.stamp \in Nat /\ (r.to # Open => r.to \in Nat) /\ WellFormed(r)
      /\ clock \in Nat
  BY StateFacts, RowFields DEF TableInv
<1>2. CASE s.stamp = now
  <2>1. s.from = now /\ r.stamp < s.stamp /\ (r.to # Open => r.to <= s.from)
    BY <1>1, <1>2, InsertFacts DEF WellFormed
  <2>2. ASSUME r \in Closing
        PROVE  EndOf(r, now) <= now
    <3>1. CASE r \in ChangedRows
      <4>1. s.key \in Present
        BY <3>1 DEF ChangedRows, Changed
      <4>2. EndOf(r, now) = s.stamp
        BY <3>1, <4>1, InsertFacts DEF EndOf
      <4> QED
        BY <1>1, <1>2, <4>2
    <3>2. CASE r \notin ChangedRows
      BY <1>1, <3>2 DEF EndOf
    <3> QED
      BY <3>1, <3>2
  <2> QED
    BY <2>1, <2>2
<1>3. CASE s.stamp # now
  <2>1. /\ s.key \in KeysToInsert /\ s.stamp = read[s.key].stamp
        /\ config.strategy = "timestamp" /\ s.from = s.stamp /\ s.key \in Present
    BY <1>3, InsertFacts, StateFacts DEF Stamp
  <2>2. r.stamp < s.stamp /\ (~ReusesIds(config) /\ r.to # Open => r.to <= s.from)
    BY <2>1, NewStampIsLater
  <2>3. ASSUME r \in Closing
        PROVE  EndOf(r, now) <= s.from
    <3>1. r \in ChangedRows
      BY <2>1, <2>3 DEF Closing, DeletedOpen
    <3>2. EndOf(r, now) = s.from
      BY <2>1, <3>1 DEF EndOf, Stamp
    <3> QED
      BY <1>1, <2>1, <3>2, InsertFacts, RowFields
  <2> QED
    BY <2>2, <2>3
<1> QED
  BY <1>2, <1>3

LEMMA EndsAfterBegin ==
  ASSUME IInv, read # None, NEW now \in Times, now = clock + 1, NEW r \in Closing
  PROVE  r.stamp < EndOf(r, now) /\ EndOf(r, now) <= now
<1> USE DEF IInv
<1>1. /\ r \in Rows /\ r.stamp \in Nat /\ WellFormed(r) /\ r.to = Open /\ clock \in Nat
      /\ r.stamp <= clock
  BY StateFacts, RowFields, ClosingFacts DEF TableInv, WellFormed
<1>2. CASE r \in ChangedRows /\ config.strategy = "timestamp"
  <2>1. read[r.key].stamp > r.updated /\ r.key \in Keys /\ read[r.key] # None
    BY <1>2 DEF ChangedRows, Changed, Present
  <2>2. read[r.key].stamp <= clock /\ read[r.key].stamp \in Nat
    BY <2>1, StateFacts, EntryFields DEF SourceInv
  <2> QED
    BY <1>1, <1>2, <2>1, <2>2 DEF EndOf, Stamp, WellFormed
<1>3. CASE ~(r \in ChangedRows /\ config.strategy = "timestamp")
  BY <1>1, <1>3 DEF EndOf, Stamp
<1> QED
  BY <1>2, <1>3

-----------------------------------------------------------------------------
(***************************************************************************)
(* The three ways to write.  Ids are their own and new ids are new, so each *)
(* format replaces the rows to close by their closed forms and adds the     *)
(* rows to insert.                                                          *)
(***************************************************************************)
After(now) == (target \ Closing) \cup RowsToClose(now) \cup RowsToInsert(now)

LEMMA IdsMatch ==
  ASSUME IInv, read # None, NEW now \in Times, now = clock + 1
  PROVE  /\ \A r \in target, s \in RowsToClose(now) :
              ScdId(r) = ScdId(s) <=> r \in Closing /\ s = CloseAt(r, EndOf(r, now))
         /\ \A r \in target, s \in RowsToInsert(now) : ScdId(r) # ScdId(s)
<1> USE DEF IInv
<1>1. ASSUME NEW r \in target, NEW s \in RowsToClose(now)
      PROVE  ScdId(r) = ScdId(s) <=> r \in Closing /\ s = CloseAt(r, EndOf(r, now))
  <2>1. PICK o \in Closing : s = CloseAt(o, EndOf(o, now))
    BY ClosingFacts
  <2>2. o \in target /\ ScdId(s) = ScdId(o)
    BY <2>1, ClosingFacts, ClosedFields
  <2>3. r \in Closing => ScdId(CloseAt(r, EndOf(r, now))) = ScdId(r)
    BY ClosingFacts, ClosedFields
  <2> QED
    BY <2>1, <2>2, <2>3 DEF TableInv, UniqueIds
<1>2. ASSUME NEW r \in target, NEW s \in RowsToInsert(now), ScdId(r) = ScdId(s)
      PROVE  FALSE
  <2>1. r.key = s.key /\ r.stamp = s.stamp
    BY <1>2 DEF ScdId
  <2>2. r.stamp \in Nat
    BY StateFacts, RowFields
  <2> QED
    BY <2>1, <2>2, NewRowsFollow
<1> QED
  BY <1>1, <1>2

LEMMA UpdateCloses ==
  ASSUME IInv, read # None, NEW now \in Times, now = clock + 1,
         NEW staged, RowsToClose(now) \subseteq staged,
         staged \subseteq RowsToClose(now) \cup RowsToInsert(now)
  PROVE  Updated(target, staged) = (target \ Closing) \cup RowsToClose(now)
<1>1. \A r \in target, s \in staged :
        ScdId(r) = ScdId(s) <=> r \in Closing /\ s = CloseAt(r, EndOf(r, now))
  <2>1. ASSUME NEW r \in target, NEW s \in staged, ScdId(r) = ScdId(s)
        PROVE  r \in Closing /\ s = CloseAt(r, EndOf(r, now))
    BY <2>1, IdsMatch
  <2>2. ASSUME NEW r \in target, NEW s \in staged, r \in Closing,
               s = CloseAt(r, EndOf(r, now))
        PROVE  ScdId(r) = ScdId(s)
    BY <2>2, ClosingFacts, ClosedFields DEF IInv
  <2> QED
    BY <2>1, <2>2
<1>2. \A r \in Closing : r \in target /\ CloseAt(r, EndOf(r, now)) \in staged
  BY ClosingFacts DEF IInv
<1>3. \A r \in target : ScdId(r) \notin ScdIds(staged) <=> r \notin Closing
  BY <1>1, <1>2 DEF ScdIds
<1>4. ASSUME NEW r \in Closing, NEW s, s = CloseAt(r, EndOf(r, now))
      PROVE  [s EXCEPT !.born = r.born] = s
  <2>1. s \in Rows /\ s.born = r.born
    BY <1>4, ClosingFacts, ClosedFields DEF IInv
  <2> QED
    BY <2>1 DEF Rows
<1>5. ASSUME NEW r \in target
      PROVE  {[s EXCEPT !.born = r.born] : s \in {t \in staged : ScdId(t) = ScdId(r)}}
               = IF r \in Closing THEN {CloseAt(r, EndOf(r, now))} ELSE {}
  <2>1. {t \in staged : ScdId(t) = ScdId(r)}
          = IF r \in Closing THEN {CloseAt(r, EndOf(r, now))} ELSE {}
    BY <1>1, <1>2
  <2> QED
    BY <1>4, <2>1
<1>6. UNION {{[s EXCEPT !.born = r.born] : s \in {t \in staged : ScdId(t) = ScdId(r)}} :
               r \in target}
        = {CloseAt(r, EndOf(r, now)) : r \in Closing}
  BY <1>2, <1>5
<1> QED
  BY <1>3, <1>6, ClosingFacts DEF Updated, IInv

LEMMA WritesAgree ==
  ASSUME IInv, read # None, NEW now \in Times, now = clock + 1
  PROVE  Written(target, RowsToClose(now), RowsToInsert(now)) = After(now)
<1> DEFINE close == RowsToClose(now)
           insert == RowsToInsert(now)
<1>1. CASE close = {}
  <2>1. \A r \in Closing : CloseAt(r, EndOf(r, now)) \in close
    BY ClosingFacts DEF IInv
  <2>2. Closing = {}
    BY <1>1, <2>1
  <2> QED
    BY <1>1, <2>2 DEF Written, After
<1>2. Updated(target, close) = (target \ Closing) \cup close
  BY UpdateCloses
<1>3. Updated(target, close \cup insert) = (target \ Closing) \cup close
  BY UpdateCloses
<1>4. {r \in target : ScdId(r) \notin ScdIds(close)} = target \ Closing
  <2>1. \A r \in Closing : CloseAt(r, EndOf(r, now)) \in close
    BY ClosingFacts DEF IInv
  <2>2. \A r \in target : ScdId(r) \in ScdIds(close) <=> r \in Closing
    BY <2>1, IdsMatch DEF ScdIds
  <2> QED
    BY <2>2
<1>5. {s \in close \cup insert : ScdId(s) \notin ScdIds(target)} = insert
  <2>1. \A s \in insert : ScdId(s) \notin ScdIds(target)
    BY IdsMatch DEF ScdIds
  <2>2. \A s \in close : ScdId(s) \in ScdIds(target)
    BY ClosingFacts, ClosedFields DEF ScdIds, IInv
  <2> QED
    BY <2>1, <2>2
<1> QED
  BY <1>1, <1>2, <1>3, <1>4, <1>5 DEF Written, IcebergWrite, DeltaWrite, FileWrite, After

\* Where a row of the table comes from after a run.
LEMMA RowsAfter ==
  ASSUME IInv, read # None, NEW now \in Times, now = clock + 1, NEW s \in After(now)
  PROVE  \/ s \in RowsToInsert(now)
         \/ s \in target /\ s \notin Closing
         \/ \E r \in Closing : r \in target /\ s = CloseAt(r, EndOf(r, now))
  BY ClosingFacts DEF After, IInv

-----------------------------------------------------------------------------
(***************************************************************************)
(* A run that finishes: the first one, which creates the table, writes what *)
(* a later one would write to an empty table.                               *)
(***************************************************************************)
RunEnds(now) ==
  /\ read # None /\ Finished
  /\ now \in Times /\ now = clock + 1 /\ clock' = now
  /\ target' = After(now)

LEMMA RunsEnd ==
  ASSUME IInv, FirstSnapshot \/ ApplyScd2
  PROVE  RunEnds(clock + 1)
<1>1. read # None /\ Finished /\ clock' = clock + 1 /\ clock + 1 \in Times
  BY StateFacts DEF FirstSnapshot, ApplyScd2, Finished, Tick, IInv, Times
<1>2. CASE FirstSnapshot
  <2>1. target = {}
    BY <1>2 DEF FirstSnapshot, IInv, TableInv
  <2>2. Closing = {} /\ ChangedRows = {} /\ OpenKeys = {} /\ DeletedOpen = {}
    BY <2>1 DEF Closing, ChangedRows, DeletedOpen, OpenKeys, OpenRows
  <2>3. RowsToClose(clock + 1) = {} /\ KeysToInsert = Present
    BY <2>2 DEF RowsToClose, KeysToInsert
  <2>4. RowsToInsert(clock + 1) = {NewRow(k, clock + 1) : k \in Present}
    BY <2>2, <2>3 DEF RowsToInsert
  <2> QED
    BY <1>1, <1>2, <2>1, <2>3, <2>4 DEF FirstSnapshot, RunEnds, After
<1>3. CASE ApplyScd2
  BY <1>1, <1>3, WritesAgree DEF ApplyScd2, RunEnds
<1> QED
  BY <1>2, <1>3

LEMMA RowsWellFormed ==
  ASSUME IInv, NEW now, RunEnds(now), NEW s \in target'
  PROVE  WellFormed(s)' /\ s \in Rows
<1> USE DEF RunEnds, IInv
<1>1. CASE s \in RowsToInsert(now)
  <2>1. s \in Rows /\ s.from = s.stamp /\ s.updated = s.stamp /\ s.to = Open
    BY <1>1, InsertFacts
  <2>2. s.stamp <= now
    <3>1. CASE s.stamp = now
      BY <3>1, StateFacts
    <3>2. CASE s.stamp # now
      <4>1. s.stamp = read[s.key].stamp /\ s.key \in Present
        BY <1>1, <3>2, InsertFacts DEF Stamp
      <4> QED
        BY <4>1, StateFacts, EntryFields DEF SourceInv, Present
    <3> QED
      BY <3>1, <3>2
  <2> QED
    BY <2>1, <2>2 DEF WellFormed
<1>2. CASE s \in target /\ s \notin Closing
  BY <1>2, StateFacts, RowFields DEF WellFormed, TableInv
<1>3. ASSUME NEW r \in Closing, r \in target, s = CloseAt(r, EndOf(r, now))
      PROVE  WellFormed(s)' /\ s \in Rows
  <2>1. EndOf(r, now) \in Times /\ EndOf(r, now) # Open /\ r \in Rows
    BY ClosingFacts, OpenIsNoTime
  <2>2. /\ s \in Rows /\ s.from = r.from /\ s.stamp = r.stamp
        /\ s.to = EndOf(r, now) /\ s.to # Open
    BY <1>3, <2>1, ClosedFields
  <2>3. r.from = r.stamp /\ r.stamp < EndOf(r, now) /\ EndOf(r, now) <= now /\ r.stamp <= clock
    BY <1>3, EndsAfterBegin DEF TableInv, WellFormed
  <2> QED
    BY <2>2, <2>3, <2>1, StateFacts, RowFields DEF WellFormed
<1> QED
  BY <1>1, <1>2, <1>3, RowsAfter

\* The row of the table a row comes from that is not inserted: the same but for its end.
ComesFrom(s, r, now) ==
  /\ r \in target
  /\ \/ s = r /\ r \notin Closing
     \/ /\ r \in Closing /\ r.to = Open
        /\ s = CloseAt(r, EndOf(r, now)) /\ s.to = EndOf(r, now) /\ s.to # Open
  /\ s.key = r.key /\ s.val = r.val /\ s.stamp = r.stamp /\ s.from = r.from
  /\ s.deleted = r.deleted

LEMMA OldRows ==
  ASSUME IInv, NEW now, RunEnds(now), NEW s \in target', s \notin RowsToInsert(now)
  PROVE  \E r \in target : ComesFrom(s, r, now)
<1> USE DEF RunEnds, IInv
<1>1. CASE s \in target /\ s \notin Closing
  BY <1>1 DEF ComesFrom
<1>2. ASSUME NEW r \in Closing, r \in target, s = CloseAt(r, EndOf(r, now))
      PROVE  ComesFrom(s, r, now)
  <2>1. r \in Rows /\ r.to = Open /\ EndOf(r, now) \in Times /\ EndOf(r, now) # Open
    BY <1>2, ClosingFacts, OpenIsNoTime
  <2> QED
    BY <1>2, <2>1, ClosedFields DEF ComesFrom
<1> QED
  BY <1>1, <1>2, RowsAfter

\* A row that is inserted is the only one of its key that is.
LEMMA OneInserted ==
  ASSUME IInv, read # None, NEW now \in Times,
         NEW s \in RowsToInsert(now), NEW t \in RowsToInsert(now), s.key = t.key
  PROVE  s = t
<1> USE DEF IInv
<1>1. CASE s.key \in Present
  BY <1>1, InsertFacts
<1>2. CASE s.key \notin Present
  <2>1. PICK d \in DeletedOpen : d.key = s.key /\ s = DeletedMarker(d, now)
    BY <1>2, InsertFacts
  <2>2. PICK e \in DeletedOpen : e.key = s.key /\ t = DeletedMarker(e, now)
    BY <1>2, InsertFacts
  <2>3. d = e
    BY <2>1, <2>2 DEF TableInv, OneOpenRow, DeletedOpen
  <2> QED
    BY <2>1, <2>2, <2>3
<1> QED
  BY <1>1, <1>2

LEMMA OldBeforeInserted ==
  ASSUME IInv, NEW now, RunEnds(now), NEW r \in target, NEW s, ComesFrom(s, r, now),
         NEW t \in RowsToInsert(now), s.key = t.key
  PROVE  /\ s.stamp < t.stamp /\ s.to # Open
         /\ ~ReusesIds(config) => s.to <= t.from
<1> USE DEF RunEnds, ComesFrom
<1>1. /\ r.stamp < t.stamp
      /\ ~ReusesIds(config) /\ r.to # Open => r.to <= t.from
      /\ r \in Closing => EndOf(r, now) <= t.from
  BY NewRowsFollow
<1>2. r.to = Open => r \in Closing
  BY InsertCloses DEF OpenRows
<1> QED
  BY <1>1, <1>2

\* The configuration in which the intervals may overlap.
LEMMA DisjointUnless ==
  ASSUME TypeOK
  PROVE  config.strategy = "check" \/ config.hardDeletes # "invalidate" <=> ~ReusesIds(config)
  BY StateFacts DEF ReusesIds

LEMMA RunKeepsTable ==
  ASSUME IInv, NEW now, RunEnds(now)
  PROVE  TableInv'
<1>1. \A r \in target' : WellFormed(r)'
  BY RowsWellFormed
<1>2. config' = config /\ exists' /\ TypeOK /\ TableInv
  BY DEF RunEnds, Finished, IInv
<1>3. ASSUME NEW s \in target', NEW t \in target', s.key = t.key, s # t
      PROVE  /\ s.stamp # t.stamp
             /\ s.to # Open \/ t.to # Open
             /\ ~ReusesIds(config) => \/ s.to # Open /\ s.to <= t.from
                                      \/ t.to # Open /\ t.to <= s.from
  <2>1. s.stamp \in Nat /\ t.stamp \in Nat
    BY RowsWellFormed, RowFields
  <2>2. CASE s \in RowsToInsert(now) /\ t \in RowsToInsert(now)
    BY <1>3, <2>2, OneInserted DEF RunEnds
  <2>3. CASE s \notin RowsToInsert(now) /\ t \in RowsToInsert(now)
    <3>1. PICK r \in target : ComesFrom(s, r, now)
      BY <2>3, OldRows
    <3> QED
      BY <1>3, <2>1, <2>3, <3>1, OldBeforeInserted
  <2>4. CASE s \in RowsToInsert(now) /\ t \notin RowsToInsert(now)
    <3>1. PICK r \in target : ComesFrom(t, r, now)
      BY <2>4, OldRows
    <3> QED
      BY <1>3, <2>1, <2>4, <3>1, OldBeforeInserted
  <2>5. CASE s \notin RowsToInsert(now) /\ t \notin RowsToInsert(now)
    <3>1. PICK r \in target : ComesFrom(s, r, now)
      BY <2>5, OldRows
    <3>2. PICK q \in target : ComesFrom(t, q, now)
      BY <2>5, OldRows
    <3>3. r # q /\ r.key = q.key
      BY <1>3, <3>1, <3>2 DEF ComesFrom
    <3>4. r.stamp # q.stamp
      BY <1>2, <3>3 DEF TableInv, UniqueIds, ScdId
    <3>5. r.to # Open \/ q.to # Open
      BY <1>2, <3>3 DEF TableInv, OneOpenRow, OpenRows
    <3>6. ~ReusesIds(config) => \/ r.to # Open /\ r.to <= q.from
                                \/ q.to # Open /\ q.to <= r.from
      BY <1>2, <3>3, DisjointUnless DEF TableInv, IntervalsDisjoint
    <3> QED
      BY <3>1, <3>2, <3>4, <3>5, <3>6 DEF ComesFrom
  <2> QED
    BY <2>2, <2>3, <2>4, <2>5
<1>4. UniqueIds'
  BY <1>3 DEF UniqueIds, ScdId
<1>5. OneOpenRow'
  BY <1>3 DEF OneOpenRow, OpenRows
<1>6. IntervalsDisjoint'
  BY <1>2, <1>3, DisjointUnless DEF IntervalsDisjoint
<1>7. ASSUME config.hardDeletes # "invalidate", NEW s \in target'
      PROVE  \E o \in target' : o.key = s.key /\ o.to = Open
  <2>1. CASE s \in RowsToInsert(now)
    BY <1>2, <2>1, InsertFacts DEF RunEnds
  <2>2. CASE s \notin RowsToInsert(now)
    <3>1. PICK r \in target : ComesFrom(s, r, now)
      BY <2>2, OldRows
    <3>2. PICK o \in OpenRows : o.key = r.key
      BY <1>2, <1>7 DEF TableInv, StaysOpen, OpenKeys
    <3>3. CASE o \notin Closing
      BY <3>1, <3>2, <3>3 DEF RunEnds, After, OpenRows, ComesFrom
    <3>4. CASE o \in ChangedRows
      <4>1. o.key \in KeysToInsert /\ o.key \in Present
        BY <3>4 DEF KeysToInsert, ChangedRows, Changed
      <4>2. NewRow(o.key, now) \in target'
        BY <4>1 DEF RunEnds, After, RowsToInsert
      <4> QED
        BY <1>2, <3>1, <3>2, <4>1, <4>2, NewRowFields DEF RunEnds, ComesFrom
    <3>5. CASE o \in DeletedOpen
      <4>1. config.hardDeletes = "new_record"
        BY <1>2, <1>7, <3>5, StateFacts DEF DeletedOpen
      <4>2. DeletedMarker(o, now) \in target'
        BY <3>5, <4>1 DEF RunEnds, After, RowsToInsert
      <4> QED
        BY <1>2, <3>1, <3>2, <4>2, StateFacts, MarkerFields DEF RunEnds, ComesFrom, OpenRows
    <3> QED
      BY <3>3, <3>4, <3>5 DEF Closing
  <2> QED
    BY <2>1, <2>2
<1>8. StaysOpen'
  BY <1>2, <1>7 DEF StaysOpen, OpenKeys, OpenRows
<1> QED
  BY <1>1, <1>2, <1>4, <1>5, <1>6, <1>8 DEF TableInv

\* What a run leaves open is what it read.
LEMMA RunTracks ==
  ASSUME IInv, NEW now, RunEnds(now)
  PROVE  TrackInv'
<1>1. /\ config' = config /\ last' = read /\ TypeOK /\ TableInv /\ StampsInv
      /\ read # None /\ now \in Times /\ target' = After(now)
  BY DEF RunEnds, Finished, IInv
<1>2. ASSUME NEW k \in Keys, read[k] # None
      PROVE  \E s \in target' : s.to = Open /\ s.key = k /\ UpToDate(s, read[k])
  <2>1. k \in Present /\ read[k] \in Entries /\ read[k].stamp \in Nat
    BY <1>1, <1>2, StateFacts, EntryFields DEF Present
  <2>2. CASE k \in KeysToInsert
    <3>1. NewRow(k, now) \in target'
      BY <1>1, <2>2 DEF After, RowsToInsert
    <3>2. UpToDate(NewRow(k, now), read[k])
      BY <1>1, <2>1, NewRowFields DEF UpToDate, Shows, Stamp
    <3> QED
      BY <1>1, <2>1, <3>1, <3>2, NewRowFields
  <2>3. CASE k \notin KeysToInsert
    <3>1. PICK o \in OpenRows : o.key = k
      BY <2>1, <2>3 DEF KeysToInsert, OpenKeys
    <3>2. o \notin ChangedRows /\ ~Changed(o)
      BY <2>3, <3>1 DEF KeysToInsert, ChangedRows
    <3>3. o \notin Closing
      BY <2>1, <3>1, <3>2 DEF Closing, DeletedOpen
    <3>4. o \in target' /\ o.to = Open /\ o \in target /\ o \in Rows
      BY <1>1, <3>1, <3>3, StateFacts DEF After, OpenRows
    <3>5. CASE config.strategy = "check"
      BY <2>1, <3>1, <3>2, <3>4, <3>5 DEF Changed, UpToDate
    <3>6. CASE config.strategy = "timestamp"
      <4>1. WellFormed(o) /\ o.stamp \in Nat
        BY <1>1, <3>4, RowFields DEF TableInv
      <4>2. read[k].stamp <= o.stamp /\ o.from = o.stamp
        BY <2>1, <3>1, <3>2, <3>4, <3>6, <4>1 DEF Changed, WellFormed
      <4>3. Fits(o, read[k])
        BY <1>1, <3>1, <3>4, <3>6 DEF StampsInv
      <4>4. Shows(o, read[k])
        BY <1>2, <2>1, <4>1, <4>2, <4>3 DEF Fits, Shows
      <4> QED
        BY <3>1, <3>4, <3>6, <4>2, <4>4 DEF UpToDate
    <3> QED
      BY <1>1, <3>5, <3>6, StateFacts
  <2> QED
    BY <2>2, <2>3
<1>3. ASSUME NEW k \in Keys, read[k] = None, config.hardDeletes # "ignore",
             NEW s \in target', s.to = Open, s.key = k
      PROVE  config.hardDeletes = "new_record" /\ s.deleted
  <2>1. k \notin Present
    BY <1>3 DEF Present
  <2>2. CASE s \in RowsToInsert(now)
    BY <1>1, <1>3, <2>1, <2>2, InsertFacts
  <2>3. CASE s \notin RowsToInsert(now)
    <3>1. PICK r \in target : ComesFrom(s, r, now)
      BY <2>3, OldRows
    <3>2. r.to = Open /\ r \notin Closing /\ r.key = k
      BY <1>3, <3>1 DEF ComesFrom
    <3> QED
      BY <1>3, <2>1, <3>2 DEF Closing, DeletedOpen, OpenRows
  <2> QED
    BY <2>2, <2>3
<1>4. ASSUME NEW r, NEW e
      PROVE  UpToDate(r, e)' <=> UpToDate(r, e)
  BY <1>1 DEF UpToDate, Shows
<1> QED
  BY <1>1, <1>2, <1>3, <1>4 DEF TrackInv, OpenRows

\* Between runs nothing read is kept, and the rows fit the source that goes on.
LEMMA RunFits ==
  ASSUME IInv, NEW now, RunEnds(now)
  PROVE  SourceInv' /\ StampsInv' /\ FreshInv'
<1>1. /\ UNCHANGED <<config, source, removed>> /\ read' = None /\ clock' = now
      /\ TypeOK /\ SourceInv /\ StampsInv /\ FreshInv /\ TableInv
      /\ read # None /\ now \in Times /\ now = clock + 1 /\ clock \in Nat
  BY StateFacts DEF RunEnds, Finished, IInv
<1>2. \A k \in Keys : Latest(k)' = Latest(k)
  BY <1>1 DEF Latest
<1>3. SourceInv'
  <2>1. \A k \in Keys : /\ source[k] # None => source[k].stamp <= now
                        /\ removed[k] # None => removed[k].stamp <= now
    BY <1>1, StateFacts, EntryFields DEF SourceInv
  <2> QED
    BY <1>1, <2>1 DEF SourceInv
<1>4. ASSUME config.strategy = "timestamp", NEW s \in target'
      PROVE  Fits(s, Latest(s.key))
  <2>1. CASE s \in RowsToInsert(now)
    <3>1. s.key \in Keys
      BY <1>1, <2>1, InsertFacts, RowFields
    <3>2. CASE s.key \in Present
      <4>1. s.stamp = read[s.key].stamp /\ s.val = read[s.key].val /\ ~s.deleted
        BY <1>1, <1>4, <2>1, <3>2, InsertFacts DEF Stamp
      <4> QED
        BY <1>1, <3>1, <3>2, <4>1 DEF SourceInv, Fits, Present
    <3>3. CASE s.key \notin Present
      <4>1. s.stamp = now /\ s.deleted
        BY <1>1, <2>1, <3>3, InsertFacts
      <4>2. Latest(s.key) # None => Latest(s.key).stamp <= clock /\ Latest(s.key).stamp \in Nat
        BY <1>1, <3>1, StateFacts, EntryFields DEF SourceInv, Latest
      <4> QED
        BY <1>1, <4>1, <4>2 DEF Fits
    <3> QED
      BY <3>2, <3>3
  <2>2. CASE s \notin RowsToInsert(now)
    <3>1. PICK r \in target : ComesFrom(s, r, now)
      BY <2>2, OldRows
    <3> QED
      BY <1>1, <1>4, <3>1 DEF StampsInv, Fits, ComesFrom
  <2> QED
    BY <2>1, <2>2
<1>5. StampsInv'
  <2>1. \A s \in target' : s.key \in Keys
    BY RowsWellFormed, RowFields
  <2> QED
    BY <1>1, <1>2, <1>4, <2>1 DEF StampsInv, Fits
<1>6. ASSUME ReusesIds(config), NEW s \in target', s.to # Open, source[s.key] # None
      PROVE  s.stamp < source[s.key].stamp
  <2>1. s \notin RowsToInsert(now)
    BY <1>1, <1>6, InsertFacts
  <2>2. PICK r \in target : ComesFrom(s, r, now)
    BY <2>1, OldRows
  <2>3. /\ s.key = r.key /\ s.stamp = r.stamp /\ r \in Rows /\ r.key \in Keys /\ r.stamp \in Nat
        /\ source[r.key].stamp \in Nat
    BY <1>1, <1>6, <2>2, StateFacts, RowFields, EntryFields DEF ComesFrom
  <2>4. CASE r.to # Open
    BY <1>1, <1>6, <2>3, <2>4 DEF FreshInv
  <2>5. CASE r.to = Open /\ read[r.key] = None
    BY <1>1, <1>6, <2>3, <2>5 DEF FreshInv
  <2>6. CASE r.to = Open /\ read[r.key] # None
    <3>1. r \in ChangedRows
      BY <1>6, <2>2, <2>3, <2>6 DEF ComesFrom, Closing, DeletedOpen, Present
    <3>2. read[r.key].stamp > r.stamp
      BY <1>1, <1>6, <2>2, <2>6, <3>1 DEF ChangedRows, Changed, ReusesIds, TableInv, WellFormed
    <3>3. read[r.key].stamp <= source[r.key].stamp /\ read[r.key].stamp \in Nat
      BY <1>1, <1>6, <2>3, <2>6, StateFacts, EntryFields DEF SourceInv, Latest
    <3> QED
      BY <2>3, <3>2, <3>3
  <2> QED
    BY <2>4, <2>5, <2>6
<1>7. FreshInv'
  BY <1>1, <1>6 DEF FreshInv, ReusesIds
<1> QED
  BY <1>3, <1>5, <1>7

-----------------------------------------------------------------------------
(***************************************************************************)
(* The steps between the writes leave the table as it is.                   *)
(***************************************************************************)
LEMMA TableStays ==
  ASSUME IInv, UNCHANGED <<config, last, exists, target>>, clock' \in Nat, clock <= clock'
  PROVE  TrackInv' /\ TableInv'
<1>1. TrackInv'
  BY DEF IInv, TrackInv, OpenRows, UpToDate, Shows
<1>2. \A r \in target' : WellFormed(r)'
  BY StateFacts, RowFields DEF IInv, TableInv, WellFormed
<1>3. /\ UniqueIds' /\ OneOpenRow' /\ IntervalsDisjoint' /\ StaysOpen'
      /\ ~exists' => target' = {}
  BY DEF IInv, TableInv, UniqueIds, OneOpenRow, IntervalsDisjoint, StaysOpen, OpenRows, OpenKeys
<1> QED
  BY <1>1, <1>2, <1>3 DEF TableInv

LEMMA ReadSourceStep ==
  ASSUME IInv, ReadSource
  PROVE  SourceInv' /\ StampsInv' /\ FreshInv' /\ TrackInv' /\ TableInv'
<1> USE DEF ReadSource, IInv
<1>1. TrackInv' /\ TableInv'
  BY TableStays, StateFacts
<1>2. \A k \in Keys : Latest(k)' = Latest(k) /\ (source[k] # None => Latest(k) = source[k])
  BY DEF Latest
<1>3. SourceInv'
  BY <1>2, StateFacts, EntryFields DEF SourceInv
<1>4. StampsInv'
  <2>1. \A r \in target : r.key \in Keys
    BY StateFacts, RowFields
  <2> QED
    BY <1>2, <2>1 DEF StampsInv, Fits
<1>5. FreshInv'
  BY DEF FreshInv
<1> QED
  BY <1>1, <1>3, <1>4, <1>5

LEMMA SnapshotFailsStep ==
  ASSUME IInv, SnapshotFails
  PROVE  SourceInv' /\ StampsInv' /\ FreshInv' /\ TrackInv' /\ TableInv'
<1> USE DEF SnapshotFails, IInv
<1>1. TrackInv' /\ TableInv'
  BY TableStays, StateFacts
<1>2. SourceInv' /\ FreshInv'
  BY DEF SourceInv, FreshInv
<1>3. StampsInv'
  BY DEF StampsInv, Latest
<1> QED
  BY <1>1, <1>2, <1>3

(***************************************************************************)
(* The source changes: a key gets a new row with a new stamp, or loses it,  *)
(* or gets back the last one it had, unless that could reuse an id.         *)
(***************************************************************************)
LEMMA SourceStep ==
  ASSUME IInv, Tick, UNCHANGED_SNAPSHOT, NEW k \in Keys, NEW e \in Entries \cup {None},
         source' = [source EXCEPT ![k] = e],
         \/ e # None /\ e.stamp = clock + 1 /\ removed' = removed
         \/ e = None /\ source[k] # None /\ removed' = [removed EXCEPT ![k] = source[k]]
         \/ /\ ~ReusesIds(config) /\ source[k] = None /\ e = removed[k] /\ e # None
            /\ removed' = removed
  PROVE  SourceInv' /\ StampsInv' /\ FreshInv' /\ TrackInv' /\ TableInv'
<1> USE DEF Tick, UNCHANGED_SNAPSHOT, IInv
<1>1. /\ clock \in Nat /\ clock' = clock + 1 /\ \A r \in target : r \in Rows
      /\ read' = read /\ target' = target /\ config' = config
  BY StateFacts
<1>2. TrackInv' /\ TableInv'
  BY <1>1, TableStays
<1>3. \A j \in Keys : source'[j] = (IF j = k THEN e ELSE source[j])
  BY DEF TypeOK, SourceTables
<1>4. \A j \in Keys : \/ removed'[j] = removed[j]
                      \/ j = k /\ e = None /\ source[k] # None /\ removed'[k] = source[k]
  BY DEF TypeOK, SourceTables
<1>5. \A j \in Keys : \/ Latest(j)' = Latest(j)
                      \/ /\ j = k /\ Latest(j)' = e /\ e # None /\ e.stamp = clock + 1
                         /\ source'[j] = e
  <2>1. ASSUME NEW j \in Keys, j # k PROVE Latest(j)' = Latest(j)
    BY <1>3, <1>4, <2>1 DEF Latest
  <2>2. CASE e = None
    <3>1. source'[k] = None /\ source[k] # None /\ removed'[k] = source[k]
      BY <1>3, <2>2 DEF TypeOK, SourceTables
    <3> QED
      BY <2>1, <3>1 DEF Latest
  <2>3. CASE e # None
    BY <1>3, <2>1, <2>3 DEF Latest
  <2> QED
    BY <2>2, <2>3
<1>6. \A j \in Keys : /\ source'[j] # None => source'[j].stamp <= clock + 1
                      /\ removed'[j] # None => removed'[j].stamp <= clock + 1
  BY <1>1, <1>3, <1>4, StateFacts, EntryFields DEF SourceInv
<1>7. SourceInv'
  <2>1. ASSUME read # None, NEW j \in Keys, read[j] # None
        PROVE  /\ read[j].stamp <= clock + 1
               /\ Latest(j)' # None =>
                    /\ read[j].stamp <= Latest(j)'.stamp
                    /\ read[j].stamp = Latest(j)'.stamp => read[j] = Latest(j)'
    <3>1. read[j].stamp \in Nat /\ read[j].stamp <= clock
      BY <2>1, StateFacts, EntryFields DEF SourceInv
    <3> QED
      BY <1>1, <1>5, <2>1, <3>1 DEF SourceInv
  <2> QED
    BY <1>1, <1>6, <2>1 DEF SourceInv
<1>8. \A r \in target : r.key \in Keys /\ r.stamp \in Nat /\ r.stamp <= clock
  BY <1>1, RowFields DEF TableInv, WellFormed
<1>9. StampsInv'
  <2>1. ASSUME config.strategy = "timestamp", NEW r \in target
        PROVE  Fits(r, Latest(r.key)')
    BY <1>1, <1>5, <1>8, <2>1 DEF StampsInv, Fits
  <2> QED
    BY <1>1, <2>1 DEF StampsInv, Fits
<1>10. FreshInv'
  <2>1. ASSUME ReusesIds(config), NEW r \in target, source'[r.key] # None
        PROVE  source'[r.key] = source[r.key] \/ r.stamp < source'[r.key].stamp
    BY <1>1, <1>3, <1>8, <2>1
  <2> QED
    BY <1>1, <2>1 DEF FreshInv, ReusesIds
<1> QED
  BY <1>2, <1>7, <1>9, <1>10

-----------------------------------------------------------------------------
(***************************************************************************)
(* Types hold whatever is restored; the rest needs NoIdReused.              *)
(***************************************************************************)
LEMMA TypeInit == Init => TypeOK
<1> SUFFICES ASSUME Init PROVE TypeOK
  OBVIOUS
<1>1. NoRows \in SourceTables
  BY DEF NoRows, SourceTables
<1>2. 0 \in Times
  BY TimeAssumption DEF Times
<1> QED
  BY <1>1, <1>2 DEF Init, TypeOK

LEMMA ClockTypes ==
  ASSUME TypeOK, Tick
  PROVE  clock' \in Times /\ clock + 1 \in Times
  BY TimeAssumption DEF TypeOK, Tick, Times

LEMMA TypeNext == TypeOK /\ [Next]_vars => TypeOK'
<1> SUFFICES ASSUME TypeOK, [Next]_vars PROVE TypeOK'
  OBVIOUS
<1>1. ASSUME NEW k \in Keys, NEW v \in Values, Upsert(k, v) PROVE TypeOK'
  <2>1. [val |-> v, stamp |-> clock + 1] \in Entries
    BY <1>1, ClockTypes DEF Upsert, Entries
  <2> QED
    BY <1>1, <2>1, ClockTypes DEF Upsert, UNCHANGED_SNAPSHOT, TypeOK, SourceTables
<1>2. ASSUME NEW k \in Keys, Delete(k) PROVE TypeOK'
  BY <1>2, ClockTypes DEF Delete, UNCHANGED_SNAPSHOT, TypeOK, SourceTables
<1>3. ASSUME NEW k \in Keys, Restore(k) PROVE TypeOK'
  BY <1>3, ClockTypes DEF Restore, UNCHANGED_SNAPSHOT, TypeOK, SourceTables
<1>4. CASE ReadSource
  BY <1>4 DEF ReadSource, TypeOK
<1>5. CASE SnapshotFails
  BY <1>5 DEF SnapshotFails, TypeOK
<1>6. ASSUME Finished, Tick, target' \subseteq Rows PROVE TypeOK'
  BY <1>6, ClockTypes DEF Finished, TypeOK
<1>7. CASE FirstSnapshot
  BY <1>6, <1>7, ClockTypes, NewRowFields DEF FirstSnapshot, Finished
<1>8. CASE ApplyScd2
  <2>1. read # None /\ clock + 1 \in Times /\ target \subseteq Rows
    BY <1>8, ClockTypes DEF ApplyScd2, Finished, TypeOK
  <2>2. /\ RowsToClose(clock + 1) \subseteq Rows
        /\ RowsToInsert(clock + 1) \subseteq Rows
    BY <2>1, StagedTypes
  <2>3. Written(target, RowsToClose(clock + 1), RowsToInsert(clock + 1)) \subseteq Rows
    BY <2>1, <2>2, WrittenTypes
  <2> QED
    BY <1>6, <1>8, <2>3 DEF ApplyScd2
<1>9. CASE Done \/ UNCHANGED vars
  BY <1>9 DEF Done, vars, TypeOK
<1> QED
  BY <1>1, <1>2, <1>3, <1>4, <1>5, <1>7, <1>8, <1>9 DEF Next

\* The table and the source always have their types, in every configuration.
THEOREM TypeCorrect == Spec => []TypeOK
  BY TypeInit, TypeNext, PTL DEF Spec

LEMMA InitInv == Init => IInv
<1> SUFFICES ASSUME Init PROVE IInv
  OBVIOUS
<1>1. TypeOK
  BY TypeInit
<1>2. SourceInv
  BY StateFacts, EntryFields DEF Init, SourceInv, NoRows
<1>3. StampsInv /\ FreshInv /\ TrackInv
  BY DEF Init, StampsInv, FreshInv, TrackInv
<1>4. TableInv
  BY DEF Init, TableInv, UniqueIds, OneOpenRow, IntervalsDisjoint, StaysOpen, OpenRows
<1> QED
  BY <1>1, <1>2, <1>3, <1>4 DEF IInv

LEMMA NextInv ==
  ASSUME NoIdReused
  PROVE  IInv /\ [Next]_vars => IInv'
<1> SUFFICES ASSUME IInv, [Next]_vars
             PROVE  SourceInv' /\ StampsInv' /\ FreshInv' /\ TrackInv' /\ TableInv'
  BY TypeNext DEF IInv
<1>1. ASSUME NEW k \in Keys, NEW v \in Values, Upsert(k, v)
      PROVE  SourceInv' /\ StampsInv' /\ FreshInv' /\ TrackInv' /\ TableInv'
  <2>1. PICK e \in Entries : e = [val |-> v, stamp |-> clock + 1]
    BY <1>1, ClockTypes DEF Upsert, Entries, IInv
  <2>2. e # None /\ e.stamp = clock + 1
    <3>1. e \in [val : Values, stamp : Nat]
      BY OpenIsNoTime DEF Entries
    <3> QED
      BY <2>1, <3>1, NoneAssumption
  <2>3. Tick /\ UNCHANGED_SNAPSHOT /\ removed' = removed /\ source' = [source EXCEPT ![k] = e]
    BY <1>1, <2>1 DEF Upsert
  <2> QED
    BY <2>2, <2>3, SourceStep
<1>2. ASSUME NEW k \in Keys, Delete(k)
      PROVE  SourceInv' /\ StampsInv' /\ FreshInv' /\ TrackInv' /\ TableInv'
  BY <1>2, SourceStep DEF Delete
<1>3. ASSUME NEW k \in Keys, Restore(k)
      PROVE  SourceInv' /\ StampsInv' /\ FreshInv' /\ TrackInv' /\ TableInv'
  <2>1. ~ReusesIds(config) /\ removed[k] \in Entries \cup {None}
    BY <1>3, StateFacts DEF Restore, NoIdReused, IInv
  <2> QED
    BY <1>3, <2>1, SourceStep DEF Restore
<1>4. CASE FirstSnapshot \/ ApplyScd2
  BY <1>4, RunsEnd, RunKeepsTable, RunTracks, RunFits
<1>5. CASE Done \/ UNCHANGED vars
  <2>1. UNCHANGED vars
    BY <1>5 DEF Done
  <2>2. TrackInv' /\ TableInv'
    BY <2>1, TableStays, StateFacts DEF vars, IInv
  <2> QED
    BY <2>1, <2>2 DEF vars, IInv, SourceInv, StampsInv, FreshInv, Latest
<1> QED
  BY <1>1, <1>2, <1>3, <1>4, <1>5, ReadSourceStep, SnapshotFailsStep DEF Next

LEMMA Invariance ==
  ASSUME NoIdReused
  PROVE  Spec => []IInv
  BY InitInv, NextInv, PTL DEF Spec

-----------------------------------------------------------------------------
(***************************************************************************)
(* The theorems.  NoIdReused is what they need: with timestamps and         *)
(* `invalidate`, a row restored with its old updated_at gets the id of its  *)
(* closed row, and the run MCSnapshotRevived shows what that does.          *)
(***************************************************************************)

\* However it changed, a key has at most one open row: the join that closes a
\* row and the join that inserts its successor agree, in all three formats.
THEOREM OneOpen ==
  ASSUME NoIdReused
  PROVE  Spec => []OneOpenRow
<1>1. IInv => OneOpenRow
  BY DEF IInv, TableInv
<1> QED
  BY <1>1, Invariance, PTL

\* At any time at most one version of a key is valid, where that can be had.
THEOREM Disjoint ==
  ASSUME NoIdReused
  PROVE  Spec => []IntervalsDisjoint
<1>1. IInv => IntervalsDisjoint
  BY DEF IInv, TableInv
<1> QED
  BY <1>1, Invariance, PTL

\* The open rows are the source as the last finished run read it.
THEOREM Tracks ==
  ASSUME NoIdReused
  PROVE  Spec => []OpenRowsTrackSource
<1>1. IInv => OpenRowsTrackSource
  <2> SUFFICES ASSUME IInv, exists, NEW k \in Keys
               PROVE  /\ last[k] # None => \E r \in OpenRows \cap RowsOf(k) : Shows(r, last[k])
                      /\ last[k] = None /\ config.hardDeletes # "ignore" =>
                           \A r \in OpenRows \cap RowsOf(k) :
                             config.hardDeletes = "new_record" /\ r.deleted
    BY DEF OpenRowsTrackSource
  <2>1. \A r \in OpenRows : r \in RowsOf(k) <=> r.key = k
    BY DEF RowsOf, OpenRows
  <2>2. \A r \in OpenRows : UpToDate(r, last[k]) => Shows(r, last[k])
    BY DEF UpToDate, Shows
  <2> QED
    BY <2>1, <2>2 DEF IInv, TrackInv
<1> QED
  BY <1>1, Invariance, PTL

\* No step but that of a run that writes changes the table.
LEMMA OnlyRunsWrite ==
  ASSUME [Next]_vars
  PROVE  FirstSnapshot \/ ApplyScd2 \/ target' = target
  BY DEF Next, Upsert, Delete, Restore, ReadSource, SnapshotFails, Done, vars,
     UNCHANGED_SNAPSHOT

\* History is only added to: no run changes or drops a closed row.
THEOREM KeepsHistory ==
  ASSUME NoIdReused
  PROVE  Spec => HistoryKept
<1>1. ASSUME IInv, [Next]_vars, NEW r \in target \ OpenRows
      PROVE  r \in target'
  <2>1. CASE FirstSnapshot \/ ApplyScd2
    <3>1. RunEnds(clock + 1)
      BY <1>1, <2>1, RunsEnd
    <3>2. r \notin Closing
      BY DEF Closing, ChangedRows, DeletedOpen
    <3> QED
      BY <3>1, <3>2 DEF RunEnds, After
  <2> QED
    BY <1>1, <2>1, OnlyRunsWrite
<1>2. IInv /\ [Next]_vars => [\A r \in target \ OpenRows : r \in target']_vars
  BY <1>1
<1> QED
  BY <1>2, Invariance, PTL DEF Spec, HistoryKept

(***************************************************************************)
(* A run may be repeated at any time: what it reads the second time is what *)
(* the open rows show already, so it closes and inserts nothing.            *)
(***************************************************************************)
LEMMA NothingChanged ==
  ASSUME IInv, ApplyScd2, read = last,
         config.hardDeletes = "new_record" => OpenKeys \subseteq Present
  PROVE  target' = target
<1> USE DEF IInv
<1>1. /\ exists /\ read # None /\ RunEnds(clock + 1) /\ TypeOK /\ TableInv /\ TrackInv
      /\ clock + 1 \in Times
  BY RunsEnd DEF ApplyScd2, Finished, RunEnds
<1>2. ASSUME NEW k \in Present
      PROVE  \E o \in OpenRows : o.key = k /\ UpToDate(o, read[k])
  BY <1>1 DEF TrackInv, Present
<1>3. ChangedRows = {}
  <2> SUFFICES ASSUME NEW r \in ChangedRows PROVE FALSE
    OBVIOUS
  <2>1. r \in OpenRows /\ r \in target /\ r.key \in Present /\ Changed(r) /\ r.to = Open
    BY DEF ChangedRows, Changed, OpenRows
  <2>2. PICK o \in OpenRows : o.key = r.key /\ UpToDate(o, read[r.key])
    BY <1>2, <2>1
  <2>3. o = r
    BY <1>1, <2>1, <2>2 DEF TableInv, OneOpenRow
  <2>4. r.updated = r.stamp /\ r.stamp \in Nat /\ read[r.key].stamp \in Nat
    <3>1. r \in Rows /\ read[r.key] \in Entries
      BY <1>1, <2>1, StateFacts, EntryFields DEF Present
    <3> QED
      BY <1>1, <2>1, <3>1, RowFields, OpenIsNoTime DEF TableInv, WellFormed, Entries
  <2> QED
    BY <2>1, <2>2, <2>3, <2>4 DEF Changed, UpToDate
<1>4. DeletedOpen = {}
  <2> SUFFICES ASSUME NEW r \in DeletedOpen PROVE FALSE
    OBVIOUS
  <2>1. /\ r \in OpenRows /\ r.key \notin Present /\ config.hardDeletes # "ignore"
        /\ r \in target
    BY DEF DeletedOpen, OpenRows
  <2>2. r.key \in Keys /\ last[r.key] = None
    BY <1>1, <2>1, StateFacts, RowFields DEF Present
  <2>3. config.hardDeletes = "new_record"
    BY <1>1, <2>1, <2>2 DEF TrackInv
  <2>4. r.key \in OpenKeys
    BY <2>1 DEF OpenKeys
  <2> QED
    BY <2>1, <2>3, <2>4
<1>5. Present \subseteq OpenKeys
  BY <1>2 DEF OpenKeys
<1>6. KeysToInsert = {} /\ Closing = {}
  BY <1>3, <1>4, <1>5 DEF KeysToInsert, Closing
<1>7. RowsToClose(clock + 1) = {} /\ RowsToInsert(clock + 1) = {}
  BY <1>3, <1>4, <1>6 DEF RowsToClose, RowsToInsert
<1> QED
  BY <1>1, <1>6, <1>7 DEF RunEnds, After

\* Running a snapshot again changes nothing.
THEOREM Rerun ==
  ASSUME NoIdReused
  PROVE  Spec => RerunChangesNothing
<1>1. IInv /\ [Next]_vars =>
        [ApplyScd2 /\ read = last
           /\ (config.hardDeletes = "new_record" => OpenKeys \subseteq Present)
         => target' = target]_vars
  BY NothingChanged
<1> QED
  BY <1>1, Invariance, PTL DEF Spec, RerunChangesNothing
=============================================================================
