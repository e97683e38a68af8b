--------------------------- MODULE DoctorProofs ---------------------------
(***************************************************************************)
(* Theorems about Doctor, for any number of chunks, fixes, indexings and    *)
(* failures.                                                               *)
(***************************************************************************)
EXTENDS Doctor, FiniteSetTheorems, TLAPS

-----------------------------------------------------------------------------
(* What the pipeline may count on.  The types need it: an indexing has room
   for its chunks. *)

PipeOK ==
    /\ job \in {"decide", "deleteRows", "deletePoints", "insert"} => next + Size - 1 \in Chunk
    /\ job \in {"deletePoints", "insert"} => Rows = {}

(* The chunks are numbered. *)
LEMMA LastNat == Size * MaxIndexings \in Nat
BY DoctorAssumption

LEMMA ChunkNat == Chunk \subseteq Nat \ {0} /\ IsFiniteSet(Chunk)
<1> DEFINE last == Size * MaxIndexings
<1>1. last \in Nat
  BY LastNat
<1> HIDE DEF last
<1>2. Chunk = 1..last
  BY DEF Chunk, last
<1> QED  BY <1>1, <1>2, FS_Interval

(* An indexing that was claimed has room for its chunks. *)
LEMMA NewChunks ==
    ASSUME next \in Nat \ {0}, next + Size - 1 \in Chunk
    PROVE  next..(next + Size - 1) \subseteq Chunk
<1> DEFINE last == Size * MaxIndexings
<1>1. last \in Nat
  BY LastNat
<1> HIDE DEF last
<1>2. Chunk = 1..last
  BY DEF Chunk, last
<1> QED  BY <1>1, <1>2, DoctorAssumption

(* The counts the fix compares are numbers. *)
LEMMA Sizes == Cardinality(Rows) \in Nat /\ Cardinality(OfDocument) \in Nat
BY ChunkNat, FS_Subset, FS_CardinalityType DEF Rows, OfDocument

(* A page or a batch is part of what it is taken from. *)
LEMMA FirstSub == \A S, n : First(S, n) \subseteq S
BY DEF First

LEMMA EndType == ASSUME FixTypeOK, End(TRUE) \/ End(FALSE) PROVE FixTypeOK'
<1>1. care' \in {"none", "sweeping", "swept", "mended"}
  BY DEF End, FixTypeOK
<1>2. fix' = "none" /\ pc' = "idle" /\ found' = {} /\ todo' = {} /\ bad' \in BOOLEAN
  BY DEF End
<1>3. cursor' = 0 /\ count' = 0 /\ tries' = 0
  BY DEF End
<1>4. cursor' \in Nat /\ count' \in Nat /\ tries' \in 0..2
  BY <1>3
<1> QED  BY <1>1, <1>2, <1>4 DEF FixTypeOK

LEMMA PipelineType == ASSUME TypeOK, PipeOK, Pipeline PROVE TypeOK'
<1> USE DEF TypeOK, StoreTypeOK, PipeTypeOK, FixTypeOK, Indexing, NoFault, Fault, store, pipe, local
<1>1. CASE SendBack
  BY <1>1 DEF SendBack
<1>2. CASE Claim
  BY <1>2 DEF Claim
<1>3. CASE Decide
  BY <1>3 DEF Decide, RowsIn, Rows
<1>4. CASE DeleteRows
  BY <1>4 DEF DeleteRows
<1>5. CASE DeletePoints
  BY <1>5 DEF DeletePoints, OfDocument
<1>6. ASSUME JobFails, Indexing  PROVE TypeOK'
  BY <1>6 DEF JobFails, RowsIn
<1>7. CASE InsertRows
  <2>1. CASE JobFails
    BY <1>6, <1>7, <2>1 DEF InsertRows
  <2>2. CASE ~JobFails
    <3>1. next \in Nat /\ Size \in Nat \ {0} /\ next + Size - 1 \in Chunk /\ job = "insert"
      BY <1>7, DoctorAssumption DEF InsertRows, PipeOK
    <3> DEFINE new == next..(next + Size - 1)
    <3>2. /\ rows' = [c \in Chunk |-> IF c \in new THEN "pending" ELSE rows[c]]
          /\ deep' = deep \cup (Nested \cap new) /\ next' = next + Size /\ work' = new
          /\ job' = "upsert" /\ UNCHANGED <<status, old, points, faults>>
          /\ UNCHANGED <<fix, pc, cursor, found, todo, count, tries, bad, fixes>> /\ care' = "none"
      BY <1>7, <2>2 DEF InsertRows
    <3>3. new \subseteq Chunk
      BY <3>1, NewChunks
    <3>4. deep' \subseteq Chunk /\ work' \subseteq Chunk /\ next' \in Nat \ {0}
      BY <3>1, <3>2, <3>3
    <3>5. rows' \in [Chunk -> {"none", "pending", "indexed", "partial"}]
      BY <3>2
    <3> HIDE DEF new
    <3>6. StoreTypeOK'
      BY <3>2, <3>4, <3>5
    <3>7. PipeTypeOK' /\ FixTypeOK' /\ fixes' \in Nat /\ faults' \in Nat
      BY <3>2, <3>4
    <3> QED  BY <3>6, <3>7
  <2> QED  BY <2>1, <2>2
<1>8. CASE UpsertPoints
  BY <1>6, <1>8 DEF UpsertPoints
<1>9. CASE MarkIndexed
  BY <1>9 DEF MarkIndexed, Rows
<1>10. CASE Finish
  BY <1>10 DEF Finish
<1> QED  BY <1>1, <1>2, <1>3, <1>4, <1>5, <1>7, <1>8, <1>9, <1>10 DEF Pipeline

LEMMA StoreType == ASSUME TypeOK, Doctor PROVE StoreTypeOK'
<1> USE DEF TypeOK
<1>0. UNCHANGED store => StoreTypeOK'
  BY DEF StoreTypeOK, store
<1>1. CASE UNCHANGED store
  BY <1>0, <1>1
<1>2. CASE DeleteOrphans
  BY <1>0, <1>2 DEF DeleteOrphans, StoreTypeOK
<1>3. CASE Upsert
  BY <1>0, <1>3 DEF Upsert, StoreTypeOK
<1>4. CASE MarkPromoted
  BY <1>4 DEF MarkPromoted, StoreTypeOK
<1>5. CASE UpdatePath
  BY <1>0, <1>5 DEF UpdatePath, Throws, StoreTypeOK, Rows
<1>6. CASE PurgeStuck
  BY <1>0, <1>6 DEF PurgeStuck, Throws, StoreTypeOK
<1>7. CASE Reset
  BY <1>0, <1>7 DEF Reset, Throws, StoreTypeOK
<1> QED
  BY <1>1, <1>2, <1>3, <1>4, <1>5, <1>6, <1>7
  DEF Doctor, Start, Scroll, Lookup, ListCounts, CountPoints, ReadRows, Retrieve, Embed,
      SelectPartial, SelectFlat, ReadFlat, RereadRows, SelectDocument, Await, Crash, Throws

LEMMA RestType == ASSUME TypeOK, Doctor PROVE PipeTypeOK' /\ fixes' \in Nat /\ faults' \in Nat
<1>1. UNCHANGED pipe
  BY DEF Doctor, Start, Scroll, Lookup, DeleteOrphans, ListCounts, CountPoints, ReadRows, Retrieve,
         Embed, Upsert, SelectPartial, MarkPromoted, SelectFlat, ReadFlat, UpdatePath, RereadRows,
         PurgeStuck, SelectDocument, Reset, Await, Crash, Quiet
<1>2. fixes' = fixes \/ fixes' = fixes + 1
  BY DEF Doctor, Start, Scroll, Lookup, DeleteOrphans, ListCounts, CountPoints, ReadRows, Retrieve,
         Embed, Upsert, SelectPartial, MarkPromoted, SelectFlat, ReadFlat, UpdatePath, RereadRows,
         PurgeStuck, SelectDocument, Reset, Await, Crash, Quiet
<1>3. faults' = faults \/ faults' = faults + 1
  BY DEF Doctor, Start, Scroll, Lookup, DeleteOrphans, ListCounts, CountPoints, ReadRows, Retrieve,
         Embed, Upsert, SelectPartial, MarkPromoted, SelectFlat, ReadFlat, UpdatePath, RereadRows,
         PurgeStuck, SelectDocument, Reset, Await, Crash, Throws, NoFault, Fault
<1> QED  BY <1>1, <1>2, <1>3 DEF TypeOK, PipeTypeOK, pipe

LEMMA FixType == ASSUME TypeOK, Doctor PROVE FixTypeOK'
<1> USE DEF TypeOK
<1>0. End(TRUE) \/ End(FALSE) \/ Throws => FixTypeOK'
  BY EndType DEF Throws
<1>1. ASSUME NEW check \in Checks, Start(check)  PROVE FixTypeOK'
  <2>1. check \in CheckNames
    BY DoctorAssumption
  <2>2. /\ fix' = check /\ cursor' \in Nat /\ found' = {} /\ todo' = {} /\ count' = 0 /\ tries' = 0
    BY <1>1 DEF Start
  <2>3. pc' \in {"scroll", "read", "purge", "list"} /\ bad' \in BOOLEAN
    BY <1>1, <2>1 DEF Start, CheckNames
  <2>4. care' \in {"none", "sweeping", "swept", "mended"}
    BY <1>1, <2>1 DEF Start, CheckNames, FixTypeOK
  <2>5. count' \in Nat /\ tries' \in 0..2
    BY <2>2
  <2> QED  BY <2>1, <2>2, <2>3, <2>4, <2>5 DEF FixTypeOK
<1>2. CASE Scroll
  <2>1. OfDocument \subseteq Chunk /\ Points \subseteq Nat
    BY ChunkNat DEF OfDocument, Points
  <2>2. CASE ~Throws
    <3>1. todo' \subseteq Chunk
      BY <1>2, <2>1, <2>2 DEF Scroll
    <3>2. cursor' \in Nat
      <4>1. cursor' = 0 \/ cursor' \in Points
        BY <1>2, <2>2 DEF Scroll
      <4>2. CASE cursor' = 0
        BY <4>2
      <4>3. CASE cursor' \in Points
        BY <2>1, <4>3
      <4> QED  BY <4>1, <4>2, <4>3
    <3> QED  BY <1>2, <2>2, <3>1, <3>2 DEF Scroll, FixTypeOK, Goto
  <2> QED  BY <1>0, <2>2
<1>3. CASE Lookup
  BY <1>0, <1>3 DEF Lookup, FixTypeOK, Goto
<1>4. CASE DeleteOrphans
  BY <1>0, <1>4 DEF DeleteOrphans, FixTypeOK, Goto
<1>5. CASE ListCounts
  BY <1>0, <1>5, Sizes DEF ListCounts, FixTypeOK, Goto
<1>6. CASE CountPoints
  BY <1>0, <1>6 DEF CountPoints, FixTypeOK, Goto, local
<1>7. CASE ReadRows
  BY <1>0, <1>7 DEF ReadRows, FixTypeOK, Goto, Rows
<1>8. CASE Retrieve
  BY <1>8, FirstSub DEF Retrieve, FixTypeOK, Goto
<1>9. CASE Embed
  <2>1. CASE End(TRUE) \/ End(FALSE)
    BY <1>0, <2>1
  <2>2. CASE ~(End(TRUE) \/ End(FALSE))
    <3>1. found # {}
      BY <1>9, <2>2 DEF Embed, FixTypeOK
    <3>2. First(found, BatchSize) \subseteq Chunk
      BY FirstSub DEF FixTypeOK
    <3> DEFINE batch == First(found, BatchSize)
    <3>3. CASE /\ todo' = batch /\ found' = found \ batch /\ tries' = 0 /\ Goto("upsert")
               /\ UNCHANGED <<cursor, count, bad, care>>
      BY <3>2, <3>3 DEF FixTypeOK, Goto
    <3>4. CASE /\ found' = found \ batch /\ bad' = TRUE
               /\ UNCHANGED <<fix, pc, cursor, todo, count, tries, care>>
      BY <3>2, <3>4 DEF FixTypeOK
    <3> QED  BY <1>9, <2>2, <3>1, <3>3, <3>4 DEF Embed
  <2> QED  BY <2>1, <2>2
<1>10. CASE Upsert
  <2>1. CASE End(FALSE)
    BY <1>0, <2>1
  <2>2. CASE ~End(FALSE)
    <3>1. CASE UNCHANGED <<fix, local, bad, care>> /\ pc' \in {"mark", "embed"}
      BY <3>1 DEF FixTypeOK, local
    <3>2. CASE /\ tries < 2 /\ tries' = tries + 1
               /\ UNCHANGED <<fix, pc, cursor, found, todo, count, bad, care>>
      BY <3>2 DEF FixTypeOK
    <3>3. CASE bad' = TRUE /\ Goto("embed") /\ UNCHANGED <<local, care>>
      BY <3>3 DEF FixTypeOK, Goto, local
    <3> QED  BY <1>10, <2>2, <3>1, <3>2, <3>3 DEF Upsert, Goto
  <2> QED  BY <2>1, <2>2
<1>11. CASE SelectPartial
  BY <1>0, <1>11 DEF SelectPartial, FixTypeOK, Goto, RowsIn
<1>12. CASE MarkPromoted
  BY <1>12 DEF MarkPromoted, FixTypeOK, Goto, local
<1>13. CASE SelectFlat
  BY <1>0, <1>13 DEF SelectFlat, FixTypeOK, Goto, local
<1>14. CASE ReadFlat
  BY <1>0, <1>14 DEF ReadFlat, FixTypeOK, Goto, Rows
<1>15. CASE UpdatePath
  <2>1. CASE End(TRUE) \/ Throws
    BY <1>0, <2>1
  <2>2. CASE ~(End(TRUE) \/ Throws)
    <3>1. CASE Goto("reread") /\ UNCHANGED <<local, bad, care>>
      BY <3>1 DEF FixTypeOK, Goto, local
    <3>2. CASE /\ todo' = todo \ First(todo, 1) /\ count' = count + 1
               /\ UNCHANGED <<fix, pc, cursor, found, tries, bad, care>>
      BY <3>2 DEF FixTypeOK
    <3> QED  BY <1>15, <2>2, <3>1, <3>2 DEF UpdatePath
  <2> QED  BY <2>1, <2>2
<1>16. CASE RereadRows
  BY <1>0, <1>16 DEF RereadRows, FixTypeOK, Goto, Rows
<1>17. CASE PurgeStuck
  BY <1>0, <1>17 DEF PurgeStuck
<1>18. CASE SelectDocument
  BY <1>0, <1>18 DEF SelectDocument, FixTypeOK, Goto, local
<1>19. CASE Reset
  BY <1>0, <1>19 DEF Reset, FixTypeOK, Goto, local
<1>20. CASE Await
  <2>1. End(TRUE) \/ End(FALSE)
    BY <1>20 DEF Await
  <2> QED  BY <1>0, <2>1
<1>21. CASE Crash
  BY <1>0, <1>21 DEF Crash
<1> QED  BY <1>1, <1>2, <1>3, <1>4, <1>5, <1>6, <1>7, <1>8, <1>9, <1>10, <1>11, <1>12, <1>13,
            <1>14, <1>15, <1>16, <1>17, <1>18, <1>19, <1>20, <1>21 DEF Doctor

-----------------------------------------------------------------------------
(* Ids are never given twice: what anybody holds is older than the next
   indexing, so that a sweep that saw no row for a point will not see one. *)

Known == Rows \cup Points \cup found \cup todo \cup work

BoundOK == \A c \in Known : c < next
SweepOK == fix = "orphan" => found \cap Rows = {}

Inv == TypeOK /\ PipeOK /\ BoundOK /\ SweepOK

LEMMA TwoFit == 2 * Size + 1 \in Nat \ {0} /\ Generation(2) \subseteq Chunk
<1>1. \A m, n \in Nat : m >= 2 => n * 2 <= n * m
  OBVIOUS
<1>2. Size \in Nat \ {0} /\ MaxIndexings \in Nat /\ MaxIndexings >= 2
  BY DoctorAssumption
<1> DEFINE last == Size * MaxIndexings
<1>3. last \in Nat /\ Size * 2 <= last
  BY <1>1, <1>2, LastNat
<1> HIDE DEF last
<1>4. Chunk = 1..last
  BY DEF Chunk, last
<1> QED  BY <1>2, <1>3, <1>4 DEF Generation

LEMMA InitOK == Init => Inv
<1> SUFFICES ASSUME Init PROVE Inv
  OBVIOUS
<1>1. Size \in Nat \ {0}
  BY DoctorAssumption
<1>2. PICK partial, lost \in SUBSET Generation(2), left \in SUBSET Generation(1) :
          /\ partial \cap lost = {}
          /\ rows = [c \in Chunk |-> IF c \notin Generation(2) THEN "none"
                                     ELSE IF c \in partial THEN "partial" ELSE "indexed"]
          /\ points = [c \in Chunk |-> IF c \in left \cup (Generation(2) \ lost)
                                       THEN "full" ELSE "none"]
  BY DEF Init
<1>3. next = 2 * Size + 1 /\ found = {} /\ todo = {} /\ work = {} /\ job = "idle" /\ fix = "none"
  BY DEF Init
<1>4. StoreTypeOK
  <2>1. rows \in [Chunk -> {"none", "pending", "indexed", "partial"}]
    BY <1>2
  <2>2. points \in [Chunk -> {"none", "full", "thin", "bare"}]
    BY <1>2
  <2>3. deep \subseteq Chunk
    BY TwoFit DEF Init
  <2> QED  BY <1>3, <2>1, <2>2, <2>3, TwoFit DEF StoreTypeOK, Init
<1>5. PipeTypeOK /\ FixTypeOK /\ fixes \in Nat /\ faults \in Nat
  <2>1. /\ job = "idle" /\ work = {} /\ fix = "none" /\ pc = "idle" /\ found = {} /\ todo = {}
        /\ care = "none" /\ bad \in BOOLEAN
    BY DEF Init
  <2>2. cursor = 0 /\ count = 0 /\ tries = 0 /\ fixes = 0 /\ faults = 0
    BY DEF Init
  <2>3. cursor \in Nat /\ count \in Nat /\ tries \in 0..2 /\ fixes \in Nat /\ faults \in Nat
    BY <2>2
  <2> QED  BY <2>1, <2>3 DEF PipeTypeOK, FixTypeOK
<1>6. Rows \subseteq Generation(2) /\ Points \subseteq Generation(1) \cup Generation(2)
  BY <1>2 DEF Rows, Points
<1>7. \A c \in Generation(1) \cup Generation(2) : c < 2 * Size + 1
  BY <1>1 DEF Generation
<1>8. BoundOK
  BY <1>3, <1>6, <1>7 DEF BoundOK, Known
<1> QED  BY <1>3, <1>4, <1>5, <1>8 DEF Inv, TypeOK, PipeOK, SweepOK

LEMMA TypeStep == ASSUME TypeOK, PipeOK, [Next]_vars PROVE TypeOK'
<1>1. CASE UNCHANGED vars
  BY <1>1 DEF vars, store, pipe, local, TypeOK, StoreTypeOK, PipeTypeOK, FixTypeOK
<1>2. CASE Pipeline
  BY <1>2, PipelineType
<1>3. CASE Doctor
  BY <1>3, StoreType, RestType, FixType DEF TypeOK
<1> QED  BY <1>1, <1>2, <1>3 DEF Next

(* Only an indexing makes rows. *)
LEMMA DoctorKept ==
    ASSUME TypeOK, Doctor
    PROVE  Rows' \subseteq Rows /\ next' = next /\ UNCHANGED pipe
<1>1. UNCHANGED pipe
  BY DEF Doctor, Start, Scroll, Lookup, DeleteOrphans, ListCounts, CountPoints, ReadRows, Retrieve,
         Embed, Upsert, SelectPartial, MarkPromoted, SelectFlat, ReadFlat, UpdatePath, RereadRows,
         PurgeStuck, SelectDocument, Reset, Await, Crash, Quiet
<1>2. CASE UNCHANGED store
  BY <1>1, <1>2 DEF store, Rows
<1>3. CASE DeleteOrphans
  BY <1>1, <1>2, <1>3 DEF DeleteOrphans, Rows
<1>4. CASE Upsert
  BY <1>1, <1>2, <1>4 DEF Upsert, Rows
<1>5. CASE MarkPromoted
  BY <1>1, <1>5 DEF MarkPromoted, Rows
<1>6. CASE UpdatePath
  BY <1>1, <1>2, <1>6 DEF UpdatePath, Throws, Rows
<1>7. CASE PurgeStuck
  BY <1>1, <1>2, <1>7 DEF PurgeStuck, Throws, Rows
<1>8. CASE Reset
  BY <1>1, <1>2, <1>8 DEF Reset, Throws, Rows
<1> QED
  BY <1>2, <1>3, <1>4, <1>5, <1>6, <1>7, <1>8
  DEF Doctor, Start, Scroll, Lookup, ListCounts, CountPoints, ReadRows, Retrieve, Embed,
      SelectPartial, SelectFlat, ReadFlat, RereadRows, SelectDocument, Await, Crash, Throws

(* Every step but the insert of rows works on what is known. *)
LEMMA DoctorKnown == ASSUME TypeOK, Doctor PROVE Known' \subseteq Known
<1>0. Rows' \subseteq Rows /\ work' = work
  BY DoctorKept DEF pipe
<1>1. ASSUME found' \subseteq Known, todo' \subseteq Known, Points' \subseteq Known
      PROVE  Known' \subseteq Known
  BY <1>0, <1>1 DEF Known
<1>2. ASSUME UNCHANGED points  PROVE Points' \subseteq Known
  BY <1>2 DEF Points, Known
<1>3. Rows \subseteq Known /\ Points \subseteq Known /\ found \subseteq Known /\ todo \subseteq Known
  BY DEF Known
<1>4. First(found, BatchSize) \subseteq Known /\ First(todo, 1) \subseteq Known
      /\ First(todo, BatchSize) \subseteq Known
  BY <1>3, FirstSub
<1>5. ASSUME End(TRUE) \/ End(FALSE)  PROVE found' = {} /\ todo' = {}
  BY <1>5 DEF End
<1>6. CASE (Throws \/ End(TRUE) \/ End(FALSE)) /\ UNCHANGED points
  BY <1>1, <1>2, <1>5, <1>6 DEF Throws
<1>7. ASSUME NEW check \in Checks, Start(check)  PROVE Known' \subseteq Known
  BY <1>1, <1>2, <1>7 DEF Start, store
<1>8. CASE Scroll
  <2>1. UNCHANGED points
    BY <1>8 DEF Scroll, Throws, store
  <2>2. CASE ~Throws
    <3>1. found' = found /\ todo' \subseteq OfDocument
      BY <1>8, <2>2 DEF Scroll
    <3>2. OfDocument \subseteq Points
      BY DEF OfDocument, Points
    <3> QED  BY <1>1, <1>2, <1>3, <2>1, <3>1, <3>2
  <2> QED  BY <1>6, <2>1, <2>2
<1>9. CASE Lookup
  BY <1>1, <1>2, <1>3, <1>6, <1>9 DEF Lookup, Throws, store
<1>10. CASE DeleteOrphans
  <2>1. CASE found = {}
    BY <1>6, <1>10, <2>1 DEF DeleteOrphans, store
  <2>2. CASE found # {}
    <3>1. found' \subseteq found /\ todo' = todo /\ Points' \subseteq Points
      BY <1>10, <2>2 DEF DeleteOrphans, Points
    <3> QED  BY <1>1, <1>3, <3>1
  <2> QED  BY <2>1, <2>2
<1>11. CASE ListCounts \/ CountPoints \/ SelectFlat \/ SelectDocument \/ Await \/ Crash
  <2>1. UNCHANGED points
    BY <1>11 DEF ListCounts, CountPoints, SelectFlat, SelectDocument, Await, Crash, Throws, store
  <2>2. CASE Throws \/ End(TRUE) \/ End(FALSE)
    BY <1>6, <2>1, <2>2
  <2>3. CASE ~(Throws \/ End(TRUE) \/ End(FALSE))
    <3>1. ~Await /\ ~Crash
      BY <2>3 DEF Await, Crash
    <3>2. UNCHANGED <<found, todo>>
      BY <1>11, <2>3, <3>1 DEF ListCounts, CountPoints, SelectFlat, SelectDocument, local
    <3> QED  BY <1>1, <1>2, <1>3, <2>1, <3>2
  <2> QED  BY <2>2, <2>3
<1>12. CASE ReadRows \/ RereadRows \/ ReadFlat \/ SelectPartial
  BY <1>1, <1>2, <1>3, <1>6, <1>12
  DEF ReadRows, RereadRows, ReadFlat, SelectPartial, Throws, store, RowsIn, Rows
<1>13. CASE Retrieve
  <2>1. todo' \subseteq todo /\ found' \subseteq found \cup First(todo, BatchSize) /\ UNCHANGED points
    BY <1>13 DEF Retrieve, store
  <2> QED  BY <1>1, <1>2, <1>3, <1>4, <2>1
<1>14. CASE Embed
  <2>1. UNCHANGED points
    BY <1>14 DEF Embed, store
  <2>2. CASE End(TRUE) \/ End(FALSE)
    BY <1>6, <2>1, <2>2
  <2>3. CASE ~(End(TRUE) \/ End(FALSE))
    <3>1. found' \subseteq found /\ (todo' = todo \/ todo' = First(found, BatchSize))
      BY <1>14, <2>3 DEF Embed, TypeOK, FixTypeOK
    <3> QED  BY <1>1, <1>2, <1>3, <1>4, <2>1, <3>1
  <2> QED  BY <2>2, <2>3
<1>15. CASE Upsert
  <2>1. Points' \subseteq Points \cup todo
    BY <1>15 DEF Upsert, Points, store
  <2>2. CASE End(FALSE)
    BY <1>1, <1>3, <1>5, <2>1, <2>2
  <2>3. CASE ~End(FALSE)
    <3>1. UNCHANGED <<found, todo>>
      BY <1>15, <2>3 DEF Upsert, local
    <3> QED  BY <1>1, <1>3, <2>1, <3>1
  <2> QED  BY <2>2, <2>3
<1>16. CASE MarkPromoted
  BY <1>1, <1>2, <1>3, <1>16 DEF MarkPromoted, local
<1>17. CASE UpdatePath
  <2>1. UNCHANGED points
    BY <1>17 DEF UpdatePath, Throws, store
  <2>2. CASE Throws \/ End(TRUE)
    BY <1>6, <2>1, <2>2
  <2>3. CASE ~(Throws \/ End(TRUE))
    <3>1. found' = found /\ todo' \subseteq todo
      BY <1>17, <2>3 DEF UpdatePath, local
    <3> QED  BY <1>1, <1>2, <1>3, <2>1, <3>1
  <2> QED  BY <2>2, <2>3
<1>18. CASE PurgeStuck
  BY <1>6, <1>18 DEF PurgeStuck, Throws, store
<1>19. CASE Reset
  BY <1>1, <1>2, <1>3, <1>6, <1>19 DEF Reset, Throws, store, local
<1> QED  BY <1>7, <1>8, <1>9, <1>10, <1>11, <1>12, <1>13, <1>14, <1>15, <1>16, <1>17, <1>18, <1>19 DEF Doctor

(* A sweep never finds a chunk that has a row. *)
LEMMA SweepStep ==
    ASSUME TypeOK, SweepOK, Doctor
    PROVE  SweepOK'
<1>1. Rows' \subseteq Rows
  BY DoctorKept
<1>2. CASE Lookup
  <2>1. CASE Throws
    BY <2>1 DEF Throws, End, SweepOK
  <2>2. CASE ~Throws
    BY <1>1, <1>2, <2>2 DEF Lookup, SweepOK, At, Goto
  <2> QED  BY <2>1, <2>2
<1>3. CASE fix' = "orphan" /\ found' \subseteq found /\ (fix = "orphan" \/ found' = {})
  BY <1>1, <1>3 DEF SweepOK
<1>4. CASE fix' # "orphan"
  BY <1>4 DEF SweepOK
<1>5. ASSUME fix' = "orphan", ~Lookup
      PROVE  found' \subseteq found /\ (fix = "orphan" \/ found' = {})
  <2>1. ~End(TRUE) /\ ~End(FALSE) /\ ~Throws
    BY <1>5 DEF End, Throws
  <2>2. CASE \E check \in Checks : Start(check)
    BY <2>2 DEF Start
  <2>3. CASE Scroll \/ DeleteOrphans
    BY <1>5, <2>1, <2>3 DEF Scroll, DeleteOrphans, At
  <2>4. CASE Embed \/ Upsert
    BY <1>5, <2>1, <2>4 DEF Embed, Upsert, Goto, local, TypeOK, FixTypeOK
  <2>5. ~(ListCounts \/ CountPoints \/ ReadRows \/ Retrieve)
    BY <1>5, <2>1 DEF ListCounts, CountPoints, ReadRows, Retrieve, At, Goto
  <2>6. ~(SelectPartial \/ MarkPromoted \/ SelectFlat \/ ReadFlat \/ UpdatePath \/ RereadRows)
    BY <1>5, <2>1 DEF SelectPartial, MarkPromoted, SelectFlat, ReadFlat, UpdatePath, RereadRows, At, Goto
  <2>7. ~(PurgeStuck \/ SelectDocument \/ Reset \/ Await \/ Crash)
    BY <1>5, <2>1 DEF PurgeStuck, SelectDocument, Reset, Await, Crash, At, Goto, End
  <2> QED  BY <1>5, <2>2, <2>3, <2>4, <2>5, <2>6, <2>7 DEF Doctor
<1> QED  BY <1>2, <1>3, <1>4, <1>5

(* An indexing gives new numbers only, so it writes no row of what is found. *)
LEMMA PipelineStep ==
    ASSUME TypeOK, PipeOK, BoundOK, SweepOK, Pipeline
    PROVE  PipeOK' /\ BoundOK' /\ SweepOK'
<1>1. UNCHANGED <<fix, found, todo>>
  BY DEF Pipeline, SendBack, Claim, Decide, DeleteRows, DeletePoints, InsertRows, UpsertPoints,
         MarkIndexed, Finish, Indexing, local
<1>2. CASE InsertRows /\ ~JobFails
  <2> DEFINE new == next..(next + Size - 1)
  <2>1. /\ rows' = [c \in Chunk |-> IF c \in new THEN "pending" ELSE rows[c]]
        /\ next' = next + Size /\ work' = new /\ job' = "upsert" /\ UNCHANGED points
    BY <1>2 DEF InsertRows
  <2>2. next \in Nat \ {0} /\ Size \in Nat \ {0}
    BY DoctorAssumption DEF TypeOK, StoreTypeOK
  <2>3. \A c \in new : c >= next /\ c < next'
    BY <2>1, <2>2
  <2> HIDE DEF new
  <2>4. Rows' \subseteq Rows \cup new /\ Points' = Points
    BY <2>1 DEF Rows, Points
  <2>5. \A c \in Known : c \in Nat /\ c < next
    BY ChunkNat DEF BoundOK, Known, Rows, Points, TypeOK, FixTypeOK, PipeTypeOK
  <2>6. \A c \in Known : c < next'
    BY <2>1, <2>2, <2>5
  <2>7. Known' \subseteq Known \cup new
    BY <1>1, <2>1, <2>4 DEF Known
  <2>8. BoundOK'
    BY <2>3, <2>6, <2>7 DEF BoundOK
  <2>9. \A c \in found : c \notin new
    BY <2>2, <2>3, <2>5 DEF Known
  <2>10. SweepOK'
    BY <1>1, <2>4, <2>9 DEF SweepOK
  <2> QED  BY <2>1, <2>8, <2>10 DEF PipeOK
<1>3. CASE ~(InsertRows /\ ~JobFails)
  <2>1. next' = next
    BY <1>3 DEF Pipeline, SendBack, Claim, Decide, DeleteRows, DeletePoints, InsertRows, UpsertPoints,
         MarkIndexed, Finish, Indexing, JobFails, store
  <2>2. Rows' \subseteq Rows
    BY <1>3 DEF Pipeline, SendBack, Claim, Decide, DeleteRows, DeletePoints, InsertRows, UpsertPoints,
         MarkIndexed, Finish, Indexing, JobFails, store, Rows
  <2>3. Points' \subseteq Points \cup work
    BY <1>3 DEF Pipeline, SendBack, Claim, Decide, DeleteRows, DeletePoints, InsertRows, UpsertPoints,
         MarkIndexed, Finish, Indexing, JobFails, store, Points
  <2>4. work' \subseteq work \cup Rows
    BY <1>3 DEF Pipeline, SendBack, Claim, Decide, DeleteRows, DeletePoints, InsertRows, UpsertPoints,
         MarkIndexed, Finish, Indexing, JobFails, pipe, Rows, RowsIn
  <2>5. BoundOK' /\ SweepOK'
    BY <1>1, <2>1, <2>2, <2>3, <2>4 DEF BoundOK, SweepOK, Known
  <2>6. PipeOK'
    <3>1. CASE Claim
      BY <3>1 DEF Claim, PipeOK
    <3>2. CASE Decide
      BY <2>1, <2>2, <3>2 DEF Decide, PipeOK, store
    <3>3. CASE DeleteRows
      BY <2>1, <3>3 DEF DeleteRows, PipeOK, Rows
    <3>4. CASE DeletePoints
      BY <2>1, <2>2, <3>4 DEF DeletePoints, PipeOK
    <3>5. CASE InsertRows
      BY <1>3, <3>5 DEF InsertRows, JobFails, PipeOK
    <3>6. CASE SendBack \/ UpsertPoints \/ MarkIndexed \/ Finish
      <4>1. job' \in {"idle", "mark", "finish"}
        BY <3>6 DEF SendBack, UpsertPoints, MarkIndexed, Finish, JobFails, pipe
      <4> QED  BY <4>1 DEF PipeOK
    <3> QED  BY <3>1, <3>2, <3>3, <3>4, <3>5, <3>6 DEF Pipeline
  <2> QED  BY <2>5, <2>6
<1> QED  BY <1>2, <1>3

LEMMA InvStep == ASSUME Inv, [Next]_vars PROVE Inv'
<1> USE DEF Inv
<1>1. TypeOK'
  BY TypeStep
<1>2. CASE UNCHANGED vars
  BY <1>1, <1>2 DEF vars, store, pipe, local, PipeOK, BoundOK, SweepOK, Known, Rows, Points
<1>3. CASE Pipeline
  BY <1>1, <1>3, PipelineStep
<1>4. CASE Doctor
  <2>1. Known' \subseteq Known /\ Rows' \subseteq Rows /\ next' = next /\ UNCHANGED pipe
    BY <1>4, DoctorKnown, DoctorKept
  <2>2. BoundOK' /\ PipeOK'
    BY <2>1 DEF BoundOK, PipeOK, pipe
  <2> QED  BY <1>1, <1>4, <2>2, SweepStep
<1> QED  BY <1>2, <1>3, <1>4 DEF Next

(* The invariant holds. *)
LEMMA Invariance == Spec => []Inv
BY InitOK, InvStep, PTL DEF Spec

(***************************************************************************)
(* Every variable of the doctor and of the pipeline around it has its type. *)
(***************************************************************************)
THEOREM TypeCorrect == Spec => []TypeOK
BY Invariance, PTL DEF Inv

-----------------------------------------------------------------------------
(***************************************************************************)
(* Whatever the interleaving of fixes and indexings, and whatever fails, no *)
(* point is deleted while its row is there.                                *)
(***************************************************************************)
THEOREM SweepsSafe == Spec => RowsKeepPoints
<1> DEFINE Kept == \A c \in Chunk : points[c] # "none" /\ rows[c] # "none" => points'[c] # "none"
<1>1. ASSUME Inv, [Next]_vars  PROVE [Kept]_vars
  <2>1. CASE UNCHANGED points
    BY <2>1
  <2>2. CASE DeletePoints
    <3>1. Rows = {}
      BY <1>1, <2>2 DEF DeletePoints, Inv, PipeOK
    <3> QED  BY <3>1 DEF Rows
  <2>3. CASE UpsertPoints
    BY <2>3 DEF UpsertPoints, JobFails
  <2>4. CASE DeleteOrphans
    <3>1. CASE found = {}
      BY <2>4, <3>1, <2>1 DEF DeleteOrphans, store
    <3>2. CASE found # {}
      <4>1. First(found, PageSize) \cap Rows = {}
        BY <2>4, <1>1, FirstSub DEF DeleteOrphans, At, Inv, SweepOK
      <4> QED  BY <2>4, <3>2, <4>1 DEF DeleteOrphans, Rows
    <3> QED  BY <3>1, <3>2
  <2>5. CASE Upsert
    BY <2>5, <2>1 DEF Upsert, store
  <2>6. CASE UNCHANGED vars
    BY <2>6
  <2> QED
    BY <1>1, <2>1, <2>2, <2>3, <2>4, <2>5, <2>6
    DEF Next, Pipeline, SendBack, Claim, Decide, DeleteRows, InsertRows, MarkIndexed, Finish, JobFails,
        Doctor, Start, Scroll, Lookup, ListCounts, CountPoints, ReadRows, Retrieve, Embed, SelectPartial,
        MarkPromoted, SelectFlat, ReadFlat, UpdatePath, RereadRows, PurgeStuck, SelectDocument, Reset,
        Await, Crash, Throws, store
<1> QED  BY <1>1, Invariance, PTL DEF Spec, RowsKeepPoints

-----------------------------------------------------------------------------
(***************************************************************************)
(* What a sweep and a repair that go well have reached so far, as long as   *)
(* nobody else writes: an orphan is found, on the page, or still to come;   *)
(* then there is none, and a row without a point is listed, or the fix      *)
(* knows that it has failed.                                                *)
(***************************************************************************)
Orphans == OfDocument \ Rows
Bare    == Rows \ Points

SweepInv ==
    care = "sweeping" =>
        /\ fix = "orphan" /\ pc \in {"scroll", "lookup", "delete"}
        /\ pc = "scroll" => \A c \in Orphans : c \in found \/ c >= cursor
        /\ pc = "lookup" => \A c \in Orphans : c \in found \/ c \in todo \/ (cursor # 0 /\ c >= cursor)
        /\ pc = "delete" /\ ~bad => Orphans \subseteq found

CleanInv ==
    care \in {"swept", "mended"} =>
        /\ Orphans = {}
        /\ fix \in {"none", "missing"}
        /\ fix = "none" => pc = "idle"
        /\ fix = "missing" =>
             /\ pc \in {"list", "count", "read", "retrieve", "embed", "upsert"}
             /\ found \subseteq Rows /\ todo \subseteq Rows

RepairInv ==
    /\ (care = "swept" /\ fix = "missing") =>
          /\ pc = "count" => count = Cardinality(Rows)
          /\ pc = "retrieve" => Bare \subseteq found \cup todo
          /\ pc = "embed" /\ ~bad => Bare \subseteq found
          /\ pc = "upsert" /\ ~bad => Bare \subseteq found \cup todo
    /\ care = "mended" => Bare = {}

CareInv == SweepInv /\ CleanInv /\ RepairInv

(* Where no care is taken, nothing is promised. *)
LEMMA NoCare == ASSUME care' = "none" PROVE CareInv'
BY DEF CareInv, SweepInv, CleanInv, RepairInv

(* A fix that takes no care gains none. *)
LEMMA CareFromStart ==
    ASSUME Doctor, care = "none", ~ \E check \in Checks : Start(check)
    PROVE  care' = "none"
<1>3. CASE Scroll \/ Lookup \/ DeleteOrphans
  BY <1>3 DEF Scroll, Lookup, DeleteOrphans, Throws, End
<1>4. CASE ListCounts \/ CountPoints \/ ReadRows \/ Retrieve \/ Embed \/ Upsert
  BY <1>4 DEF ListCounts, CountPoints, ReadRows, Retrieve, Embed, Upsert, Throws, End
<1>5. CASE SelectPartial \/ MarkPromoted \/ SelectFlat \/ ReadFlat \/ UpdatePath \/ RereadRows
  BY <1>5 DEF SelectPartial, MarkPromoted, SelectFlat, ReadFlat, UpdatePath, RereadRows, Throws, End
<1>6. CASE PurgeStuck \/ SelectDocument \/ Reset \/ Await \/ Crash
  BY <1>6 DEF PurgeStuck, SelectDocument, Reset, Await, Crash, Throws, End
<1> QED  BY <1>3, <1>4, <1>5, <1>6 DEF Doctor

(* The steps of a fix that takes care. *)
LEMMA StepsOfFix ==
    ASSUME Doctor, fix # "none"
    PROVE  /\ ~ \E check \in Checks : Start(check)
           /\ (fix = "orphan" /\ pc \in {"scroll", "lookup", "delete"})
                => Scroll \/ Lookup \/ DeleteOrphans \/ Crash
           /\ (fix = "missing" /\ pc \in {"list", "count", "read", "retrieve", "embed", "upsert"})
                => ListCounts \/ CountPoints \/ ReadRows \/ Retrieve \/ Embed \/ Upsert \/ Crash
<1>1. ~ \E check \in Checks : Start(check)
  BY DEF Start
<1>2. SelectPartial \/ MarkPromoted => fix = "partial"
  BY DEF SelectPartial, MarkPromoted, At
<1>3. SelectFlat \/ ReadFlat \/ UpdatePath \/ RereadRows => fix = "flat"
  BY DEF SelectFlat, ReadFlat, UpdatePath, RereadRows, At
<1>4. PurgeStuck \/ SelectDocument \/ Reset \/ Await => fix \in {"stuck", "reprocess"}
  BY DEF PurgeStuck, SelectDocument, Reset, Await, At
<1>5. Scroll \/ Lookup \/ DeleteOrphans => fix = "orphan"
  BY DEF Scroll, Lookup, DeleteOrphans, At
<1>6. ListCounts \/ CountPoints \/ ReadRows \/ Retrieve => fix = "missing"
  BY DEF ListCounts, CountPoints, ReadRows, Retrieve, At
<1>7. Embed \/ Upsert => pc \in {"embed", "upsert"}
  BY DEF Embed, Upsert
<1> QED  BY <1>1, <1>2, <1>3, <1>4, <1>5, <1>6, <1>7 DEF Doctor

(* A sweep starts before the first point, a repair with nothing in hand. *)
LEMMA StartCare == ASSUME TypeOK, CareInv, NEW check \in Checks, Start(check) PROVE CareInv'
<1>1. /\ fix = "none" /\ fix' = check /\ found' = {} /\ todo' = {}
      /\ UNCHANGED <<rows, points>> /\ Rows' = Rows /\ Points' = Points /\ OfDocument' = OfDocument
  BY DEF Start, store, Rows, Points, OfDocument
<1>2. CASE check = "orphan"
  <2>1. care' = "sweeping" /\ pc' = "scroll" /\ cursor' = 1
    BY <1>2 DEF Start
  <2>2. \A c \in Orphans' : c >= 1
    BY ChunkNat DEF Orphans, OfDocument
  <2> QED  BY <1>1, <1>2, <2>1, <2>2 DEF CareInv, SweepInv, CleanInv, RepairInv
<1>3. CASE check = "missing"
  <2>1. care' = care /\ pc' = "list"
    BY <1>3 DEF Start
  <2>2. care # "sweeping"
    BY <1>1 DEF CareInv, SweepInv
  <2> QED  BY <1>1, <1>3, <2>1, <2>2 DEF CareInv, SweepInv, CleanInv, RepairInv, Orphans, Bare
<1>4. CASE check \notin {"orphan", "missing"}
  <2>1. care' = "none"
    BY <1>4 DEF Start
  <2> QED  BY <2>1, NoCare
<1> QED  BY <1>2, <1>3, <1>4

(* A sweep keeps track of the orphans, page by page. *)
LEMMA SweepCare ==
    ASSUME TypeOK, CareInv, care = "sweeping", Doctor
    PROVE  CareInv'
<1>1. /\ fix = "orphan" /\ pc \in {"scroll", "lookup", "delete"}
      /\ pc = "scroll" => \A c \in Orphans : c \in found \/ c >= cursor
      /\ pc = "lookup" => \A c \in Orphans : c \in found \/ c \in todo \/ (cursor # 0 /\ c >= cursor)
      /\ pc = "delete" /\ ~bad => Orphans \subseteq found
  BY DEF CareInv, SweepInv
<1>2. Orphans \subseteq Chunk /\ Chunk \subseteq Nat \ {0} /\ cursor \in Nat
  BY ChunkNat DEF Orphans, OfDocument, TypeOK, FixTypeOK
<1>3. End(FALSE) => care' = "none"
  BY <1>1 DEF End
<1>4. CASE Throws \/ Crash
  BY <1>3, <1>4, NoCare DEF Throws, Crash
<1>5. CASE Scroll /\ ~Throws
  <2> DEFINE rest == {c \in Points : c >= cursor}
             page == First(rest, PageSize)
             more == rest \ page
  <2>1. /\ pc = "scroll" /\ todo' = page \cap OfDocument
        /\ (more = {} /\ cursor' = 0) \/ (cursor' \in more /\ \A c \in more : cursor' <= c)
        /\ pc' = "lookup" /\ UNCHANGED <<fix, rows, points, found, care>>
    BY <1>5 DEF Scroll, At, Goto, store
  <2>2. Orphans' = Orphans
    BY <2>1 DEF Orphans, OfDocument, Rows
  <2>3. \A c \in Orphans : c \in found' \/ c \in todo' \/ (cursor' # 0 /\ c >= cursor')
    <3> SUFFICES ASSUME NEW c \in Orphans, c \notin found, c \notin todo'
                 PROVE  cursor' # 0 /\ c >= cursor'
      BY <2>1
    <3>1. c \in rest
      BY <1>1, <2>1 DEF Orphans, OfDocument, Points
    <3>2. c \in more
      BY <2>1, <3>1 DEF Orphans
    <3>3. more \subseteq Chunk
      BY DEF Points
    <3> HIDE DEF more
    <3> QED  BY <1>2, <2>1, <3>2, <3>3
  <2> QED  BY <1>1, <2>1, <2>2, <2>3 DEF CareInv, SweepInv, CleanInv, RepairInv
<1>6. CASE Lookup /\ ~Throws
  <2>1. /\ pc = "lookup" /\ found' = found \cup (todo \ Rows)
        /\ pc' = (IF cursor = 0 THEN "delete" ELSE "scroll")
        /\ UNCHANGED <<fix, rows, points, cursor, bad, care>>
    BY <1>6 DEF Lookup, At, Goto, store
  <2>2. Orphans' = Orphans
    BY <2>1 DEF Orphans, OfDocument, Rows
  <2>3. \A c \in Orphans : c \in found' \/ (cursor # 0 /\ c >= cursor)
    BY <1>1, <2>1 DEF Orphans
  <2>4. CASE cursor = 0
    BY <1>1, <2>1, <2>2, <2>3, <2>4 DEF CareInv, SweepInv, CleanInv, RepairInv
  <2>5. CASE cursor # 0
    BY <1>1, <2>1, <2>2, <2>3, <2>5 DEF CareInv, SweepInv, CleanInv, RepairInv
  <2> QED  BY <2>4, <2>5
<1>7. CASE DeleteOrphans
  <2>1. pc = "delete" /\ rows' = rows
    BY <1>7 DEF DeleteOrphans, At, store
  <2>2. CASE found = {}
    <3>1. End(~bad) /\ UNCHANGED points
      BY <1>7, <2>2 DEF DeleteOrphans, store
    <3>2. CASE bad
      <4>1. care' = "none"
        BY <1>1, <3>1, <3>2 DEF End
      <4> QED  BY <4>1, NoCare
    <3>3. CASE ~bad
      <4>1. care' = "swept" /\ fix' = "none" /\ found' = {} /\ todo' = {}
        BY <1>1, <3>1, <3>3 DEF End
      <4>2. pc' = "idle"
        BY <3>1 DEF End
      <4>3. Orphans' = {}
        BY <1>1, <2>1, <2>2, <3>1, <3>3 DEF Orphans, OfDocument, Rows
      <4> QED  BY <4>1, <4>2, <4>3 DEF CareInv, SweepInv, CleanInv, RepairInv
    <3> QED  BY <3>2, <3>3
  <2>3. CASE found # {}
    <3> DEFINE batch == First(found, PageSize)
    <3>1. /\ found' = found \ batch /\ pc' = "delete" /\ UNCHANGED <<fix, care>>
          /\ \/ points' = [c \in Chunk |-> IF c \in batch THEN "none" ELSE points[c]] /\ bad' = bad
             \/ bad' = TRUE /\ points' = points
      BY <1>7, <2>3 DEF DeleteOrphans, Goto
    <3>2. ~bad' => Orphans' \subseteq found'
      <4> SUFFICES ASSUME ~bad', NEW c \in Orphans'
                   PROVE  c \in found'
        OBVIOUS
      <4>1. ~bad /\ points' = [d \in Chunk |-> IF d \in batch THEN "none" ELSE points[d]]
        BY <3>1
      <4>2. c \in Chunk /\ points'[c] \in {"full", "thin"} /\ c \notin Rows
        BY <2>1 DEF Orphans, OfDocument, Rows
      <4>3. c \notin batch /\ c \in Orphans
        BY <4>1, <4>2 DEF Orphans, OfDocument
      <4> QED  BY <1>1, <2>1, <3>1, <4>1, <4>3
    <3> QED  BY <1>1, <3>1, <3>2 DEF CareInv, SweepInv, CleanInv, RepairInv
  <2> QED  BY <2>2, <2>3
<1> QED  BY <1>1, <1>4, <1>5, <1>6, <1>7, StepsOfFix

(* A fix for missing points that ends, well or not; it ends well where no row
   is without a point. *)
LEMMA MissingEnds ==
    ASSUME CareInv, care \in {"swept", "mended"}, fix = "missing", UNCHANGED <<rows, points>>,
           \/ End(FALSE)
           \/ End(TRUE) /\ (care = "swept" => Bare = {})
    PROVE  CareInv'
<1>1. Orphans' = Orphans /\ Bare' = Bare /\ Orphans = {} /\ (care = "mended" => Bare = {})
  BY DEF Orphans, Bare, OfDocument, Rows, Points, CareInv, CleanInv, RepairInv
<1>2. fix' = "none" /\ pc' = "idle"
  BY DEF End
<1>3. CASE care = "mended"
  <2>1. care' = "mended"
    BY <1>3 DEF End
  <2> QED  BY <1>1, <1>2, <1>3, <2>1 DEF CareInv, SweepInv, CleanInv, RepairInv
<1>4. CASE care = "swept"
  <2>1. care' = "none" \/ (care' = "mended" /\ Bare = {})
    BY <1>4 DEF End
  <2> QED  BY <1>1, <1>2, <2>1, NoCare DEF CareInv, SweepInv, CleanInv, RepairInv
<1> QED  BY <1>3, <1>4

(* No more rows than points of the document, and no orphan: no row is bare. *)
LEMMA CountsAgree ==
    ASSUME Orphans = {}, Cardinality(Rows) <= Cardinality(OfDocument)
    PROVE  Bare = {}
<1>1. OfDocument \subseteq Rows /\ IsFiniteSet(Rows)
  BY ChunkNat, FS_Subset DEF Orphans, Rows
<1>2. Cardinality(OfDocument) <= Cardinality(Rows) /\ (Cardinality(Rows) = Cardinality(OfDocument) => Rows = OfDocument)
  BY <1>1, FS_Subset
<1>3. Rows = OfDocument
  BY <1>2, Sizes
<1> QED  BY <1>3 DEF Bare, OfDocument, Points

(* A repair keeps track of the rows without a point, batch by batch. *)
LEMMA MissingCare ==
    ASSUME TypeOK, CareInv, care \in {"swept", "mended"}, Doctor, fix = "missing"
    PROVE  CareInv'
<1>1. /\ pc \in {"list", "count", "read", "retrieve", "embed", "upsert"}
      /\ found \subseteq Rows /\ todo \subseteq Rows /\ Orphans = {}
      /\ care = "mended" => Bare = {}
      /\ care = "swept" =>
           /\ pc = "count" => count = Cardinality(Rows)
           /\ pc = "retrieve" => Bare \subseteq found \cup todo
           /\ pc = "embed" /\ ~bad => Bare \subseteq found
           /\ pc = "upsert" /\ ~bad => Bare \subseteq found \cup todo
  BY DEF CareInv, CleanInv, RepairInv
<1>2. ASSUME UNCHANGED <<rows, points>>
      PROVE  Rows' = Rows /\ Orphans' = Orphans /\ Bare' = Bare
  BY <1>2 DEF Orphans, Bare, OfDocument, Rows, Points
<1>3. CASE Throws \/ Crash
  BY <1>3, MissingEnds DEF Throws, Crash, store
<1>4. CASE ListCounts /\ ~Throws
  <2>1. UNCHANGED <<rows, points>>
    BY <1>4 DEF ListCounts, store
  <2>2. CASE End(FALSE)
    BY <2>1, <2>2, MissingEnds
  <2>3. CASE ~End(FALSE)
    <3>1. count' = Cardinality(Rows) /\ pc' = "count" /\ UNCHANGED <<fix, found, todo, care>>
      BY <1>4, <2>3 DEF ListCounts, Goto
    <3> QED  BY <1>1, <1>2, <2>1, <3>1 DEF CareInv, SweepInv, CleanInv, RepairInv
  <2> QED  BY <2>2, <2>3
<1>5. CASE CountPoints
  <2>1. UNCHANGED <<rows, points>> /\ pc = "count"
    BY <1>5 DEF CountPoints, At, store
  <2>2. PICK n \in {0, Cardinality(OfDocument)} :
          IF count <= n THEN End(TRUE) ELSE Goto("read") /\ UNCHANGED <<local, bad, care>>
    BY <1>5 DEF CountPoints
  <2>3. CASE count <= n
    <3>1. care = "swept" => Bare = {}
      <4> SUFFICES ASSUME care = "swept" PROVE Bare = {}
        OBVIOUS
      <4>1. Cardinality(Rows) <= n
        BY <1>1, <2>1, <2>3
      <4>2. Cardinality(Rows) <= Cardinality(OfDocument)
        BY <2>2, <4>1, Sizes
      <4> QED  BY <1>1, <4>2, CountsAgree
    <3> QED  BY <2>1, <2>2, <2>3, <3>1, MissingEnds
  <2>4. CASE ~(count <= n)
    <3>1. pc' = "read" /\ UNCHANGED <<fix, found, todo, care>>
      BY <2>2, <2>4 DEF Goto, local
    <3> QED  BY <1>1, <1>2, <2>1, <3>1 DEF CareInv, SweepInv, CleanInv, RepairInv
  <2> QED  BY <2>3, <2>4
<1>6. CASE ReadRows /\ ~Throws
  <2>1. todo' = Rows /\ pc' = "retrieve" /\ UNCHANGED <<rows, points, fix, found, care>>
    BY <1>6 DEF ReadRows, Goto, store
  <2>2. Bare \subseteq Rows
    BY DEF Bare
  <2> QED  BY <1>1, <1>2, <2>1, <2>2 DEF CareInv, SweepInv, CleanInv, RepairInv
<1>7. CASE Retrieve
  <2> DEFINE batch == First(todo, BatchSize)
  <2>1. /\ todo' = todo \ batch /\ found' \in {found \cup (batch \ Points), found \cup batch}
        /\ pc' = (IF todo' = {} THEN "embed" ELSE "retrieve")
        /\ UNCHANGED <<rows, points, fix, care>> /\ pc = "retrieve"
    BY <1>7 DEF Retrieve, At, Goto, store
  <2>2. batch \subseteq todo
    BY FirstSub
  <2> HIDE DEF batch
  <2>3. found' \subseteq Rows /\ todo' \subseteq Rows
    BY <1>1, <2>1, <2>2
  <2>4. care = "swept" => Bare \subseteq found' \cup todo'
    BY <1>1, <2>1 DEF Bare
  <2>5. pc' = "embed" => todo' = {}
    BY <2>1
  <2>6. pc' \in {"embed", "retrieve"}
    BY <2>1
  <2> QED  BY <1>1, <1>2, <2>1, <2>3, <2>4, <2>5, <2>6 DEF CareInv, SweepInv, CleanInv, RepairInv
<1>8. CASE Embed
  <2>1. pc = "embed" /\ UNCHANGED <<rows, points>>
    BY <1>8 DEF Embed, store
  <2>2. CASE found = {}
    <3>1. End(~bad)
      BY <1>8, <2>2 DEF Embed
    <3>2. CASE bad
      <4>1. End(FALSE)
        BY <3>1, <3>2 DEF End
      <4> QED  BY <2>1, <4>1, MissingEnds
    <3>3. CASE ~bad
      <4>1. End(TRUE)
        BY <3>1, <3>3 DEF End
      <4> QED  BY <1>1, <2>1, <2>2, <3>3, <4>1, MissingEnds
    <3> QED  BY <3>2, <3>3
  <2>3. CASE found # {}
    <3> DEFINE batch == First(found, BatchSize)
    <3>1. CASE End(FALSE)
      BY <2>1, <3>1, MissingEnds
    <3>2. CASE ~End(FALSE)
      <4>1. todo' = batch /\ found' = found \ batch /\ pc' = "upsert" /\ UNCHANGED <<fix, bad, care>>
        BY <1>8, <2>3, <3>2 DEF Embed, Goto
      <4>2. batch \subseteq found
        BY FirstSub
      <4> HIDE DEF batch
      <4> QED  BY <1>1, <1>2, <2>1, <4>1, <4>2 DEF CareInv, SweepInv, CleanInv, RepairInv
    <3> QED  BY <3>1, <3>2
  <2> QED  BY <2>2, <2>3
<1>9. CASE Upsert
  <2>1. pc = "upsert" /\ UNCHANGED rows
    BY <1>9 DEF Upsert, store
  <2>2. ASSUME points' = [c \in Chunk |-> IF c \notin todo THEN points[c] ELSE "thin"],
               pc' = "embed", UNCHANGED <<fix, found, todo, bad, care>>
        PROVE  CareInv'
    <3>1. Rows' = Rows /\ OfDocument' \subseteq OfDocument \cup todo
      BY <2>1, <2>2 DEF Rows, OfDocument
    <3>2. Orphans' = {}
      BY <1>1, <3>1 DEF Orphans
    <3>3. Bare' \subseteq Bare \ todo
      <4>1. \A c \in Chunk : points'[c] = "none" => points[c] = "none" /\ c \notin todo
        BY <2>2
      <4>2. Bare' \subseteq Chunk /\ \A c \in Bare' : points'[c] = "none" /\ c \in Rows
        BY <3>1 DEF Bare, Points, Rows
      <4> QED  BY <4>1, <4>2 DEF Bare, Points
    <3> QED  BY <1>1, <2>1, <2>2, <3>1, <3>2, <3>3 DEF CareInv, SweepInv, CleanInv, RepairInv
  <2>3. ASSUME UNCHANGED <<points, fix, pc, found, todo, bad, care>>
        PROVE  CareInv'
    BY <1>1, <1>2, <2>1, <2>3 DEF CareInv, SweepInv, CleanInv, RepairInv
  <2>4. ASSUME UNCHANGED <<points, fix, found, todo, care>>, bad' = TRUE, pc' = "embed"
        PROVE  CareInv'
    BY <1>1, <1>2, <2>1, <2>4 DEF CareInv, SweepInv, CleanInv, RepairInv
  <2> QED  BY <1>9, <2>2, <2>3, <2>4 DEF Upsert, Goto, local, store
<1> QED  BY <1>1, <1>3, <1>4, <1>5, <1>6, <1>7, <1>8, <1>9, StepsOfFix

(* Every step keeps it. *)
LEMMA CareStep == ASSUME TypeOK, CareInv, [Next]_vars PROVE CareInv'
<1>1. CASE UNCHANGED vars
  BY <1>1 DEF vars, store, local, CareInv, SweepInv, CleanInv, RepairInv, Orphans, Bare, OfDocument, Rows, Points
<1>2. CASE Pipeline
  <2>1. care' = "none"
    BY <1>2 DEF Pipeline, SendBack, Claim, Decide, DeleteRows, DeletePoints, InsertRows, UpsertPoints,
           MarkIndexed, Finish, Indexing
  <2> QED  BY <2>1, NoCare
<1>3. CASE \E check \in Checks : Start(check)
  BY <1>3, StartCare
<1>4. CASE Doctor /\ ~ \E check \in Checks : Start(check)
  <2>1. CASE care = "none"
    BY <1>4, <2>1, CareFromStart, NoCare
  <2>2. CASE care = "sweeping"
    BY <1>4, <2>2, SweepCare
  <2>3. CASE care \in {"swept", "mended"}
    <3>1. fix # "none"
      BY <1>4, <2>3 DEF CareInv, CleanInv, Embed, Upsert, Doctor, Scroll, Lookup, DeleteOrphans, ListCounts, CountPoints, ReadRows, Retrieve,
             SelectPartial, MarkPromoted, SelectFlat, ReadFlat, UpdatePath, RereadRows, PurgeStuck,
             SelectDocument, Reset, Await, Crash, At
    <3>2. fix = "missing"
      BY <2>3, <3>1 DEF CareInv, CleanInv
    <3> QED  BY <1>4, <2>3, <3>2, MissingCare
  <2> QED  BY <2>1, <2>2, <2>3 DEF TypeOK, FixTypeOK
<1> QED  BY <1>1, <1>2, <1>3, <1>4 DEF Next

(***************************************************************************)
(* After a sweep of the orphans that went well, a repair that went well and *)
(* that nobody wrote beside has left no row without a point and no orphan,  *)
(* for any number of pages, batches, retries and failures: the counts it    *)
(* compares agree only where the sets do.                                   *)
(***************************************************************************)
THEOREM RepairsAreWhole == Spec => []Repaired
<1>1. Init => CareInv
  BY NoCare DEF Init, CareInv, SweepInv, CleanInv, RepairInv
<1>2. TypeOK /\ CareInv /\ [Next]_vars => CareInv'
  BY CareStep
<1>3. CareInv => Repaired
  BY DEF CareInv, CleanInv, RepairInv, Orphans, Bare, Repaired
<1> QED  BY TypeCorrect, <1>1, <1>2, <1>3, PTL DEF Spec

=============================================================================
