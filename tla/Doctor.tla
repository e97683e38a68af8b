------------------------------ MODULE Doctor ------------------------------
(***************************************************************************)
(* The fixes of the doctor on one document: the chunk rows in PostgreSQL    *)
(* and the points in Qdrant, which the checks compare and repair            *)
(* (doctor/runner.ts, doctor/checks/*.ts), while the pipeline may index the *)
(* document again in another process.  There is one action per statement    *)
(* or call to a store; a batch is one call.                                 *)
(*                                                                          *)
(* A chunk is the number the indexing gave it: ids are never given twice,   *)
(* and a point has the id of its row.  The document is always listed by     *)
(* the checks while it is ready.                                            *)
(***************************************************************************)
EXTENDS Naturals, FiniteSets

CONSTANTS
    Size,           \* chunks an indexing makes
    MaxIndexings,   \* bound: indexings, the two of the past included
    Nested,         \* the chunks of sections under other sections
    Checks,         \* the fixes that are run
    PageSize,       \* points of a page of the scroll
    BatchSize,      \* UPSERT_BATCH, EMBED_BATCH
    MaxFixes,       \* bound: fixes
    MaxFaults       \* bound: calls that fail

CheckNames == {"orphan", "missing", "partial", "flat", "stuck", "reprocess"}

ASSUME DoctorAssumption ==
    /\ {Size, PageSize, BatchSize} \subseteq Nat \ {0}
    /\ {MaxIndexings, MaxFixes, MaxFaults} \subseteq Nat /\ MaxIndexings >= 2
    /\ Checks \subseteq CheckNames

Chunk == 1..(Size * MaxIndexings)

VARIABLES
    status,     \* documents.status: ready, downloaded, or the pipeline's
    rows,       \* chunks.status, "none" where there is no row
    deep,       \* the rows whose section_path has a hierarchy
    old,        \* the rows an indexing that failed has left
    points,     \* "full" as the pipeline writes it, "thin" without is_latest,
                \* "bare" without payload and gemini vector, or "none"
    next,       \* the first chunk id not given yet
    job,        \* what the indexing of the document does next
    work,       \* the chunks it holds in memory
    fix,        \* the check whose fix runs, or "none"
    pc,         \* what the fix does next
    cursor,     \* offset of the scroll, 0 at its end
    found,      \* the chunks the fix is about
    todo,       \* the page, the batch or the statements at hand
    count,      \* pg_count, or the number of updated paths
    tries,      \* attempts of an upsert
    bad,        \* something of this fix failed
    fixes, faults,
    care        \* history: a sweep of the orphans, and a repair after it, that
                \* went well with nobody else writing

store == <<status, rows, deep, old, points, next>>
pipe  == <<job, work>>
local == <<cursor, found, todo, count, tries>>
vars  == <<store, pipe, fix, pc, local, bad, fixes, faults, care>>

StoreTypeOK ==
    /\ status \in {"ready", "downloaded", "embedding", "failed"}
    /\ rows \in [Chunk -> {"none", "pending", "indexed", "partial"}]
    /\ points \in [Chunk -> {"none", "full", "thin", "bare"}]
    /\ deep \subseteq Chunk /\ old \subseteq Chunk
    /\ next \in Nat \ {0}

PipeTypeOK ==
    /\ job \in {"idle", "decide", "deleteRows", "deletePoints", "insert", "upsert", "mark", "finish"}
    /\ work \subseteq Chunk

FixTypeOK ==
    /\ fix \in CheckNames \cup {"none"}
    /\ pc \in {"idle", "scroll", "lookup", "delete", "list", "count", "read", "retrieve",
               "embed", "upsert", "mark", "paths", "reread", "purge", "reset", "await"}
    /\ cursor \in Nat /\ count \in Nat /\ tries \in 0..2
    /\ found \subseteq Chunk /\ todo \subseteq Chunk
    /\ bad \in BOOLEAN
    /\ care \in {"none", "sweeping", "swept", "mended"}

(* Every variable has its type. *)
TypeOK == StoreTypeOK /\ PipeTypeOK /\ FixTypeOK /\ fixes \in Nat /\ faults \in Nat

Rows       == {c \in Chunk : rows[c] # "none"}
RowsIn(S) == {c \in Chunk : rows[c] \in S}
Points     == {c \in Chunk : points[c] # "none"}
\* The points a filter or a read of the payload finds.
OfDocument == {c \in Chunk : points[c] \in {"full", "thin"}}

\* The n first of a set of chunks.
First(S, n) == {c \in S : Cardinality({d \in S : d <= c}) <= n}

Generation(i) == (Size * (i - 1) + 1)..(Size * i)

(* Ready, after two indexings.  Some points of the first may have survived
   their delete, some of the second may be lost, some rows lack SPECTER2. *)
Init ==
    /\ status = "ready"
    /\ next = 2 * Size + 1
    /\ \E partial, lost \in SUBSET Generation(2), left \in SUBSET Generation(1) :
          /\ partial \cap lost = {}
          /\ rows = [c \in Chunk |-> IF c \notin Generation(2) THEN "none"
                                     ELSE IF c \in partial THEN "partial" ELSE "indexed"]
          /\ points = [c \in Chunk |-> IF c \in left \cup (Generation(2) \ lost)
                                       THEN "full" ELSE "none"]
    /\ deep \in {{}, Nested \cap Generation(2)}
    /\ old = {} /\ job = "idle" /\ work = {}
    /\ fix = "none" /\ pc = "idle"
    /\ cursor = 0 /\ found = {} /\ todo = {} /\ count = 0 /\ tries = 0
    /\ bad = FALSE /\ fixes = 0 /\ faults = 0 /\ care = "none"

-----------------------------------------------------------------------------
(* The pipeline: one indexing at a time, in this or another process. *)

NoFault == UNCHANGED faults
Fault   == faults < MaxFaults /\ faults' = faults + 1

\* An indexing leaves the fix alone, and spoils the care taken.
Indexing == care' = "none" /\ UNCHANGED <<fix, pc, local, bad, fixes>>

JobFails ==
    /\ Fault
    /\ job' = "idle" /\ status' = "failed" /\ work' = {}
    /\ old' = RowsIn({"pending"})
    /\ UNCHANGED <<rows, deep, points, next>>

(* Enrichment, or the reprocess command, sends the document back. *)
SendBack ==
    /\ job = "idle" /\ status \in {"ready", "failed"}
    /\ status' = "downloaded"
    /\ Indexing
    /\ UNCHANGED <<rows, deep, old, points, next, pipe, faults>>

Claim ==
    /\ job = "idle" /\ status = "downloaded"
    /\ next + Size - 1 \in Chunk
    /\ job' = "decide" /\ status' = "embedding"
    /\ Indexing
    /\ UNCHANGED <<rows, deep, old, points, next, work, faults>>

(* The resume decision: rows that are not wholly indexed are all there is to do. *)
Decide ==
    /\ job = "decide"
    /\ LET resumed == RowsIn({"pending", "partial"})
       IN  /\ work' = resumed
           /\ job' = IF resumed # {} THEN "upsert" ELSE IF Rows # {} THEN "deleteRows" ELSE "insert"
    /\ Indexing
    /\ UNCHANGED <<store, faults>>

(* deleteExistingChunks: the points go by their document_id, and their failure
   is only logged. *)
DeleteRows ==
    /\ job = "deleteRows"
    /\ rows' = [c \in Chunk |-> "none"] /\ deep' = {} /\ old' = {}
    /\ job' = "deletePoints"
    /\ Indexing
    /\ UNCHANGED <<status, points, next, work, faults>>

DeletePoints ==
    /\ job = "deletePoints"
    /\ \/ NoFault /\ points' = [c \in Chunk |-> IF c \in OfDocument THEN "none" ELSE points[c]]
       \/ Fault /\ UNCHANGED points
    /\ job' = "insert"
    /\ Indexing
    /\ UNCHANGED <<status, rows, deep, old, next, work>>

InsertRows ==
    /\ job = "insert"
    /\ LET new == next..(next + Size - 1)
       IN  \/ /\ NoFault
              /\ rows' = [c \in Chunk |-> IF c \in new THEN "pending" ELSE rows[c]]
              /\ deep' = deep \cup (Nested \cap new)
              /\ next' = next + Size
              /\ work' = new /\ job' = "upsert"
              /\ UNCHANGED <<status, old, points>>
           \/ JobFails
    /\ Indexing

UpsertPoints ==
    /\ job = "upsert"
    /\ \/ /\ NoFault
          /\ points' = [c \in Chunk |-> IF c \in work THEN "full" ELSE points[c]]
          /\ job' = "mark"
          /\ UNCHANGED <<status, rows, deep, old, next, work>>
       \/ JobFails
    /\ Indexing

MarkIndexed ==
    /\ job = "mark"
    /\ \E s \in {"indexed", "partial"} :
          rows' = [c \in Chunk |-> IF c \in work \cap Rows THEN s ELSE rows[c]]
    /\ old' = old \ work
    /\ job' = "finish"
    /\ Indexing
    /\ UNCHANGED <<status, deep, points, next, work, faults>>

Finish ==
    /\ job = "finish"
    /\ status' = "ready" /\ job' = "idle" /\ work' = {}
    /\ Indexing
    /\ UNCHANGED <<rows, deep, old, points, next, faults>>

Pipeline == SendBack \/ Claim \/ Decide \/ DeleteRows \/ DeletePoints \/ InsertRows
            \/ UpsertPoints \/ MarkIndexed \/ Finish

-----------------------------------------------------------------------------
(* A fix: runDoctor calls it after a detection, which only reads and is
   repeated by every fix.  What it throws, the runner catches. *)

At(check, label) == fix = check /\ pc = label
Goto(label)      == pc' = label /\ UNCHANGED fix

Quiet == UNCHANGED <<pipe, fixes>>

Start(check) ==
    /\ fix = "none" /\ fixes < MaxFixes
    /\ fixes' = fixes + 1
    /\ fix' = check
    /\ pc' = CASE check = "orphan"  -> "scroll"
               [] check = "partial" -> "read"
               [] check = "stuck"   -> "purge"
               [] OTHER             -> "list"
    /\ cursor' = IF check = "orphan" THEN 1 ELSE 0
    /\ found' = {} /\ todo' = {} /\ count' = 0 /\ tries' = 0 /\ bad' = FALSE
    /\ care' = CASE check = "orphan"  -> "sweeping"
                 [] check = "missing" -> care
                 [] OTHER             -> "none"
    /\ UNCHANGED <<store, pipe, faults>>

(* The fix is over; well is whether it saw the document and nothing failed. *)
End(well) ==
    /\ fix' = "none" /\ pc' = "idle"
    /\ cursor' = 0 /\ found' = {} /\ todo' = {} /\ count' = 0 /\ tries' = 0 /\ bad' = FALSE
    /\ care' = IF fix = "orphan" THEN (IF well /\ care = "sweeping" THEN "swept" ELSE "none")
               ELSE IF fix = "missing" /\ care = "swept"
                    THEN (IF well THEN "mended" ELSE "none")
               ELSE care

Throws == Fault /\ End(FALSE) /\ UNCHANGED store

-----------------------------------------------------------------------------
(* orphan-qdrant-points *)

(* A page of the points from the offset on, and where the next one starts.
   A point without payload has no chunk_id to look up. *)
Scroll ==
    /\ At("orphan", "scroll")
    /\ LET rest == {c \in Points : c >= cursor}
           page == First(rest, PageSize)
           more == rest \ page
       IN  \/ /\ NoFault
              /\ todo' = page \cap OfDocument
              /\ \/ more = {} /\ cursor' = 0
                 \/ cursor' \in more /\ \A c \in more : cursor' <= c
              /\ Goto("lookup")
              /\ UNCHANGED <<store, found, count, tries, bad, care>>
           \/ Throws
    /\ Quiet

\* Mutated form: only rows that are indexed count as rows.
LookupIndexed ==
    /\ At("orphan", "lookup")
    /\ \/ /\ NoFault
          /\ found' = found \cup {c \in todo : rows[c] # "indexed"}
          /\ Goto(IF cursor = 0 THEN "delete" ELSE "scroll")
          /\ UNCHANGED <<store, cursor, todo, count, tries, bad, care>>
       \/ Throws
    /\ Quiet

Lookup ==
    /\ At("orphan", "lookup")
    /\ \/ /\ NoFault
          /\ found' = found \cup (todo \ Rows)
          /\ Goto(IF cursor = 0 THEN "delete" ELSE "scroll")
          /\ UNCHANGED <<store, cursor, todo, count, tries, bad, care>>
       \/ Throws
    /\ Quiet

DeleteOrphans ==
    /\ At("orphan", "delete")
    /\ IF found = {} THEN End(~bad) /\ NoFault /\ UNCHANGED store
       ELSE LET batch == First(found, PageSize)
            IN  /\ found' = found \ batch
                /\ \/ /\ NoFault
                      /\ points' = [c \in Chunk |-> IF c \in batch THEN "none" ELSE points[c]]
                      /\ UNCHANGED bad
                   \/ Fault /\ bad' = TRUE /\ UNCHANGED points
                /\ Goto("delete")
                /\ UNCHANGED <<status, rows, deep, old, next, cursor, todo, count, tries, care>>
    /\ Quiet

-----------------------------------------------------------------------------
(* missing-qdrant-chunks *)

(* The list of ready documents with their numbers of rows, read once. *)
ListCounts ==
    /\ At("missing", "list")
    /\ \/ /\ NoFault
          /\ IF status = "ready" /\ Rows # {}
             THEN /\ count' = Cardinality(Rows)
                  /\ Goto("count")
                  /\ UNCHANGED <<cursor, found, todo, tries, bad, care>>
             ELSE End(FALSE)
          /\ UNCHANGED store
       \/ Throws
    /\ Quiet

\* A count that fails is 0.
CountPoints ==
    /\ At("missing", "count")
    /\ \E n \in {0, Cardinality(OfDocument)} :
          /\ (n = Cardinality(OfDocument) /\ NoFault) \/ (n = 0 /\ Fault)
          /\ IF count <= n THEN End(TRUE)
             ELSE Goto("read") /\ UNCHANGED <<local, bad, care>>
    /\ UNCHANGED store
    /\ Quiet

ReadRows ==
    /\ At("missing", "read")
    /\ \/ /\ NoFault
          /\ todo' = Rows
          /\ Goto("retrieve")
          /\ UNCHANGED <<store, cursor, found, count, tries, bad, care>>
       \/ Throws
    /\ Quiet

\* Mutated form: the points of a batch that could not be read are taken to exist.
RetrieveTrusting ==
    /\ At("missing", "retrieve")
    /\ LET batch == First(todo, BatchSize)
       IN  /\ todo' = todo \ batch
           /\ \/ NoFault /\ found' = found \cup (batch \ Points)
              \/ Fault /\ UNCHANGED found
    /\ Goto(IF todo' = {} THEN "embed" ELSE "retrieve")
    /\ UNCHANGED <<store, cursor, count, tries, bad, care>>
    /\ Quiet

\* If reading a batch of the points fails, none of them exist.
Retrieve ==
    /\ At("missing", "retrieve")
    /\ LET batch == First(todo, BatchSize)
       IN  /\ todo' = todo \ batch
           /\ \/ NoFault /\ found' = found \cup (batch \ Points)
              \/ Fault /\ found' = found \cup batch
    /\ Goto(IF todo' = {} THEN "embed" ELSE "retrieve")
    /\ UNCHANGED <<store, cursor, count, tries, bad, care>>
    /\ Quiet

(* The embedding of a batch, in all the fixes that write vectors.  partial-chunks
   goes on after a batch that fails, the others give the document up. *)
Embed ==
    /\ pc = "embed"
    /\ IF found = {} THEN End(~bad) /\ NoFault
       ELSE LET batch == First(found, BatchSize)
            IN  \/ /\ NoFault
                   /\ todo' = batch /\ found' = found \ batch /\ tries' = 0
                   /\ Goto("upsert")
                   /\ UNCHANGED <<cursor, count, bad, care>>
                \/ /\ Fault
                   /\ IF fix = "partial"
                      THEN /\ found' = found \ batch /\ bad' = TRUE
                           /\ UNCHANGED <<fix, pc, cursor, todo, count, tries, care>>
                      ELSE End(FALSE)
    /\ UNCHANGED store
    /\ Quiet

(* The points of a batch are replaced, payload and vectors, by what the fix
   sends: an upsert does not merge.  Only missing-qdrant-chunks tries again,
   and goes on after a third failure. *)
Upsert ==
    /\ pc = "upsert"
    /\ \/ /\ NoFault
          /\ points' = [c \in Chunk |-> IF c \notin todo THEN points[c]
                                        ELSE IF fix = "partial" THEN "bare" ELSE "thin"]
          /\ Goto(IF fix = "partial" THEN "mark" ELSE "embed")
          /\ UNCHANGED <<status, rows, deep, old, next, local, bad, care>>
       \/ /\ Fault
          /\ UNCHANGED store
          /\ IF fix = "missing" /\ tries < 2
             THEN tries' = tries + 1 /\ UNCHANGED <<fix, pc, cursor, found, todo, count, bad, care>>
             ELSE IF fix = "flat" THEN End(FALSE)
             ELSE bad' = TRUE /\ Goto("embed") /\ UNCHANGED <<local, care>>
    /\ Quiet

-----------------------------------------------------------------------------
(* partial-chunks *)

SelectPartial ==
    /\ At("partial", "read")
    /\ \/ /\ NoFault
          /\ found' = RowsIn({"partial"})
          /\ Goto("embed")
          /\ UNCHANGED <<store, cursor, todo, count, tries, bad, care>>
       \/ Throws
    /\ Quiet

\* The rows are marked whatever has become of them since they were read.
MarkPromoted ==
    /\ At("partial", "mark")
    /\ \/ /\ NoFault
          /\ rows' = [c \in Chunk |-> IF c \in todo \cap Rows THEN "indexed" ELSE rows[c]]
          /\ UNCHANGED bad
       \/ Fault /\ bad' = TRUE /\ UNCHANGED rows
    /\ Goto("embed")
    /\ UNCHANGED <<status, deep, old, points, next, local, care>>
    /\ Quiet

-----------------------------------------------------------------------------
(* flat-section-paths *)

Flat == status = "ready" /\ Rows # {} /\ deep = {}

SelectFlat ==
    /\ At("flat", "list")
    /\ \/ /\ NoFault
          /\ IF Flat THEN Goto("read") /\ UNCHANGED <<local, bad, care>> ELSE End(TRUE)
          /\ UNCHANGED store
       \/ Throws
    /\ Quiet

\* After the source has been parsed again.
ReadFlat ==
    /\ At("flat", "read")
    /\ \/ /\ NoFault
          /\ todo' = (Rows \ deep) \cap Nested
          /\ Goto("paths")
          /\ UNCHANGED <<store, cursor, found, count, tries, bad, care>>
       \/ Throws
    /\ Quiet

UpdatePath ==
    /\ At("flat", "paths")
    /\ IF todo = {}
       THEN /\ IF count = 0 THEN End(TRUE) ELSE Goto("reread") /\ UNCHANGED <<local, bad, care>>
            /\ UNCHANGED store /\ NoFault
       ELSE \/ /\ NoFault
               /\ LET c == First(todo, 1)
                  IN  deep' = deep \cup (c \cap Rows) /\ todo' = todo \ c
               /\ count' = count + 1
               /\ UNCHANGED <<status, rows, old, points, next, fix, pc, cursor, found, tries, bad, care>>
            \/ Throws
    /\ Quiet

RereadRows ==
    /\ At("flat", "reread")
    /\ \/ /\ NoFault
          /\ found' = Rows
          /\ Goto("embed")
          /\ UNCHANGED <<store, cursor, todo, count, tries, bad, care>>
       \/ Throws
    /\ Quiet

-----------------------------------------------------------------------------
(* stuck-pending-chunks: deleteOrphans.  A row is older than the TTL only when
   an indexing has left it behind. *)

PurgeStuck ==
    /\ At("stuck", "purge")
    /\ \/ /\ NoFault
          /\ \E S \in SUBSET old :
                /\ rows' = [c \in Chunk |-> IF c \in S THEN "none" ELSE rows[c]]
                /\ deep' = deep \ S /\ old' = old \ S
          /\ End(TRUE)
          /\ UNCHANGED <<status, points, next>>
       \/ Throws
    /\ Quiet

-----------------------------------------------------------------------------
(* oversized-chunks and latex-upgrade: the document goes through the pipeline.
   One indexing at a time: the reset waits for one that is under way. *)

SelectDocument ==
    /\ At("reprocess", "list")
    /\ \/ /\ NoFault
          /\ IF status = "ready" THEN Goto("reset") /\ UNCHANGED <<local, bad, care>> ELSE End(TRUE)
          /\ UNCHANGED store
       \/ Throws
    /\ Quiet

Reset ==
    /\ At("reprocess", "reset") /\ job = "idle"
    /\ \/ /\ NoFault
          /\ status' = "downloaded"
          /\ Goto("await")
          /\ UNCHANGED <<rows, deep, old, points, next, local, bad, care>>
       \/ Throws
    /\ Quiet

Await ==
    /\ At("reprocess", "await") /\ job = "idle" /\ status \in {"ready", "failed"}
    /\ End(status = "ready")
    /\ UNCHANGED <<store, faults>>
    /\ Quiet

-----------------------------------------------------------------------------
(* A restart of the runner ends the fix, wherever it is. *)
Crash ==
    /\ fix # "none"
    /\ Fault
    /\ End(FALSE)
    /\ UNCHANGED <<store, pipe, fixes>>

Doctor ==
    \/ \E check \in Checks : Start(check)
    \/ Scroll \/ Lookup \/ DeleteOrphans
    \/ ListCounts \/ CountPoints \/ ReadRows \/ Retrieve
    \/ Embed \/ Upsert
    \/ SelectPartial \/ MarkPromoted
    \/ SelectFlat \/ ReadFlat \/ UpdatePath \/ RereadRows
    \/ PurgeStuck
    \/ SelectDocument \/ Reset \/ Await
    \/ Crash

Next == Pipeline \/ Doctor

Spec == Init /\ [][Next]_vars

-----------------------------------------------------------------------------
(***************************************************************************)
(* A point leaves Qdrant only when its row has left PostgreSQL: no sweep    *)
(* of orphans takes the point of a chunk another process is just writing.   *)
(***************************************************************************)
RowsKeepPoints ==
    [][\A c \in Chunk : points[c] # "none" /\ rows[c] # "none" => points'[c] # "none"]_vars

(***************************************************************************)
(* The count of missing-qdrant-chunks is blind where an orphan makes up for *)
(* a lost point, but after a sweep of the orphans that went well a repair   *)
(* that went well leaves no row without a point and no orphan, whichever    *)
(* reads and upserts it had to repeat.                                      *)
(***************************************************************************)
Repaired == care = "mended" => Rows \subseteq Points /\ OfDocument \subseteq Rows

(***************************************************************************)
(* No fix hides a chunk from the search, which asks for is_latest = true    *)
(* and the gemini vector.                                                   *)
(***************************************************************************)
FoundKept ==
    [][\A c \in Chunk : rows[c] # "none" /\ points[c] = "full" /\ rows'[c] # "none"
                        => points'[c] = "full"]_vars
=============================================================================
