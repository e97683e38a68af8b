------------------------------ MODULE Readers ------------------------------
(***************************************************************************)
(* A reader next to the indexings and the administrator of VersionIndex:   *)
(* one call of a search tool, whose reads of Qdrant and of PostgreSQL come  *)
(* one after the other, and the paginate calls that walk through the pool   *)
(* it has left in Redis.  What the tools compute from the reads is in       *)
(* Search.tla.                                                              *)
(*                                                                          *)
(* A version has two chunks of the same query: the first of every version   *)
(* has one key concept, the second has none.                                *)
(***************************************************************************)
EXTENDS VersionIndex, Search

CONSTANTS
    Requests,       \* bound: the requests that may be made, records of Search
    MaxRead,        \* bound: versions next to a search
    MaxOffset,      \* bound: the last offset that is asked for
    Scenarios       \* bound: how much of each bound an execution may use, and
                    \* whether it has the search

ASSUME ScenarioAssumption ==
    \A s \in Scenarios : s.indexings \in 0..MaxIndexings /\ s.admin \in 0..MaxAdmin /\ s.faults \in 0..MaxFaults

ASSUME RequestAssumption ==
    /\ MaxOffset \in Nat /\ None # "body"
    /\ \A q \in Requests : /\ q.tool \in {"search", "search_semantic", "search_keyword"}
                          /\ q.limit \in Nat \ {0} /\ q.max \in Nat \ {0}

VARIABLES
    \* the ids of chunks are new when the rows are written again: how often the
    \* rows have been, and which of them the points are of
    written, sent,
    \* the request, its point in the handler, what it has read so far
    request, reading, vector, bm25, stored,
    \* its answer; the pool in Redis; the page on its way; the pages answered
    answer, pool, paging, pages,
    \* history: the versions were indexed in order, and since the request began
    \* nothing was deleted, lost or rewritten
    steady

reader     == <<request, reading, vector, bm25, stored, answer, pool, paging, pages>>
readerVars == <<written, sent, reader, steady>>
allVars    == <<storeVars, readerVars>>

-----------------------------------------------------------------------------
Id(d, n, k) == <<d, n, k>>

Context(k) == [Unmarked EXCEPT !.concept = IF k = 1 THEN "k" ELSE None, !.summary = "s"]

CreatedSeq == SetToSeq(Created)

(* The points and the rows that a query meets, best first: the score falls with
   the number of the chunk, and the payload is from before the markers. *)
Points ==
    LET there == Keep(CreatedSeq, LAMBDA d : points[d].there)
        Point(d, k) == [id |-> Id(d, sent[d], k), doc |-> d, score |-> 3 - k, ctx |-> Unmarked,
                        latest |-> points[d].latest]
    IN [i \in DOMAIN there |-> Point(there[i], 1)] \o [i \in DOMAIN there |-> Point(there[i], 2)]

(* A row is born indexed, or pending until its points are sent. *)
Rows(born) ==
    LET there == Keep(CreatedSeq, LAMBDA d : rows[d] # "none")
        Row(d, k) == [id |-> Id(d, written[d], k), doc |-> d, score |-> 3 - k, ctx |-> Context(k),
                      latest |-> rows[d] = "latest", section |-> "body",
                      status |-> IF pc[d] = "upsert" \/ ~points[d].there THEN born ELSE "indexed"]
    IN [i \in DOMAIN there |-> Row(there[i], 1)] \o [i \in DOMAIN there |-> Row(there[i], 2)]

(* hydrateChunkContexts reads by id, whatever became of the flag. *)
Contexts ==
    [id \in {Id(d, written[d], k) : d \in {e \in Document : rows[e] # "none"}, k \in 1..2} |-> Context(id[3])]

\* Mutated form: a hit has to be of the latest version still.
DocRowsLatest == [d \in Created |-> [deleted |-> d \in Deleted \/ rows[d] # "latest", categories |-> {}, published |-> 1]]

DocRows == [d \in Created |-> [deleted |-> d \in Deleted, categories |-> {}, published |-> 1]]

UsesPoints == request.tool \in {"search", "search_semantic"}
UsesRows   == request.tool \in {"search", "search_keyword"}

-----------------------------------------------------------------------------
Findable(d) == points[d].latest /\ rows[d] = "latest" /\ pc[d] # "upsert"

NoPages == [offset \in 0..MaxOffset |-> None]

(* Bound: no search before the first points are there. *)
Ask(q) ==
    /\ reading = "idle" /\ \E d \in Document : points[d].there
    /\ request' = q /\ reading' = "retrieve"
    /\ steady' = (tombs = <<>> /\ ~disorder /\ \E d \in Document : Findable(d))
    /\ UNCHANGED <<storeVars, written, sent, vector, bm25, stored, answer, pool, paging, pages>>

(* The two retrievals run at the same time. *)
ReadPoints ==
    /\ reading = "retrieve" /\ UsesPoints /\ vector = None
    /\ vector' = Points
    /\ UNCHANGED <<storeVars, written, sent, request, reading, bm25, stored, answer, pool, paging, pages, steady>>

ReadRows ==
    /\ reading = "retrieve" /\ UsesRows /\ bm25 = None
    /\ \E born \in {"indexed", "pending_embed"} : bm25' = Rows(born)
    /\ UNCHANGED <<storeVars, written, sent, request, reading, vector, stored, answer, pool, paging, pages, steady>>

ReadContexts ==
    /\ reading = "retrieve" /\ (UsesPoints => vector # None) /\ (UsesRows => bm25 # None)
    /\ stored' = Contexts /\ reading' = "fetch"
    /\ UNCHANGED <<storeVars, written, sent, request, vector, bm25, answer, pool, paging, pages, steady>>

Computed(order, docs) ==
    CASE request.tool = "search" -> HybridSearch(request, vector, bm25, stored, order, docs)
      [] request.tool = "search_semantic" -> SemanticSearch(request, vector, stored, order, docs)
      [] request.tool = "search_keyword" -> KeywordSearch(request, bm25, stored, docs)

Met == (IF UsesPoints THEN IdsOf(vector) ELSE {}) \cup (IF UsesRows THEN IdsOf(bm25) ELSE {})

(* fetchDocuments, and what follows without another read: the reranker has an
   order of the chunks, or is unavailable; the pool is kept unless Redis is out. *)
Fetch ==
    /\ reading = "fetch"
    /\ \E order \in {<<>>, SetToSeq(Met)} : answer' = Computed(order, DocRows)
    /\ \/ pool' = [pool |-> answer'.pool, by |-> request.by, max |-> request.max]
       \/ pool' = None
    /\ reading' = "answered" /\ vector' = None /\ bm25' = None /\ stored' = None
    /\ UNCHANGED <<storeVars, written, sent, request, paging, pages, steady>>

(* Mutated form: the page is cut from what is left of the pool. *)
FetchLeft ==
    /\ paging # None
    /\ LET left == DocumentFilter(pool.pool, [categories |-> None, dateFrom |-> 0, dateTo |-> 0], DocRows, FALSE)
           page == Paginate([pool EXCEPT !.pool = left], paging, request.limit, DocRows)
       IN pages' = [pages EXCEPT ![paging] =
              [ids |-> IdsOf(page.results), total |-> page.total, dead |-> Deleted]]
    /\ paging' = None
    /\ UNCHANGED <<storeVars, written, sent, request, reading, vector, bm25, stored, answer, pool, steady>>

(* paginate: the pool is loaded, and cut before the documents are read. *)
LoadPage(offset) ==
    /\ reading = "answered" /\ pool # None /\ paging = None
    /\ offset < answer.total /\ offset % request.limit = 0 /\ pages[offset] = None
    /\ paging' = offset
    /\ UNCHANGED <<storeVars, written, sent, request, reading, vector, bm25, stored, answer, pool, pages, steady>>

FetchPage ==
    /\ paging # None
    /\ LET page == Paginate(pool, paging, request.limit, DocRows)
       IN pages' = [pages EXCEPT ![paging] =
              [ids |-> IdsOf(page.results), total |-> page.total, dead |-> Deleted]]
    /\ paging' = None
    /\ UNCHANGED <<storeVars, written, sent, request, reading, vector, bm25, stored, answer, pool, steady>>

(* The time to live of the pool is over, or nothing was kept: a page that has
   been loaded is not affected. *)
Expire ==
    /\ reading = "answered" /\ paging = None
    /\ reading' = "none"
    /\ request' = None /\ answer' = None /\ pool' = None /\ pages' = NoPages
    /\ written' = [d \in Document |-> 0] /\ sent' = written' /\ steady' = FALSE
    /\ UNCHANGED <<storeVars, vector, bm25, stored, paging>>

-----------------------------------------------------------------------------
(* What the others do meanwhile. *)

Rewrites(d) == rows[d] # "none" /\ pc[d] = "idle" /\ pc'[d] = "upsert"

Beside ==
    /\ UNCHANGED reader
    /\ steady' = (steady /\ tombs' = <<>> /\ ~disorder' /\ faults' = faults /\ \A d \in Document : ~Rewrites(d))

Numbered(field, d, n) == IF reading = "none" THEN field ELSE [field EXCEPT ![d] = n]

(* New rows have new ids, and the points are those of the rows; bound: ids are
   not told apart when the search is over. *)
IndexBeside(d) ==
    /\ IndexRows(d) /\ Beside
    /\ LET rewritten == points'[d] = NoPoints \/ faults' # faults
       IN written' = Numbered(written, d, written[d] + IF rewritten THEN 1 ELSE 0)
    /\ UNCHANGED sent

UpsertBeside(d) ==
    /\ Upsert(d) /\ Beside
    /\ sent' = Numbered(sent, d, written[d])
    /\ UNCHANGED written

Rest == Beside /\ UNCHANGED <<written, sent>>

(* Bound: the reconciliation does not interleave with the search, since none
   of the search's reads looks at the flag it writes. *)
Reconcilable == reading \in {"none", "idle"}

Reconciling == Rest /\ Reconcilable

Apart ==
    /\ EmptyStores
    /\ pc = [d \in Document |-> "idle"] /\ todo = [d \in Document |-> {}]
    /\ flips = {} /\ tick = "idle" /\ batch = <<>>
    /\ disorder = FALSE /\ lost = FALSE
    /\ written = [d \in Document |-> 0] /\ sent = [d \in Document |-> 0]
    /\ vector = None /\ bm25 = None /\ stored = None
    /\ answer = None /\ pool = None /\ paging = None
    /\ pages = NoPages
    /\ steady = FALSE

ReadersInit ==
    /\ Apart
    /\ \E s \in Scenarios :
         /\ indexings = MaxIndexings - s.indexings /\ admin = MaxAdmin - s.admin
         /\ faults = MaxFaults - s.faults
         /\ request = None /\ reading = IF s.reads THEN "idle" ELSE "none"

ReadersNext ==
    \/ \E d \in Document :
         \/ IndexBeside(d) \/ UpsertBeside(d)
         \/ SelectOlder(d) /\ Rest
         \/ UpdateRows(d) /\ Rest
         \/ IndexFails(d) /\ Rest
         \/ \E e \in Document : FlagPoints(d, e) /\ Rest
         \/ \E e \in Document : CreateVersion(d, e) /\ Rest /\ (reading = "none" \/ Cardinality(Created) < MaxRead)
         \/ SoftDelete(d) /\ Rest
         \/ Restore(d) /\ Rest
         \/ \E value \in BOOLEAN : Flip(d, value) /\ Rest
    \/ TickDeleted /\ Reconciling
    \/ TickRestored /\ Reconciling
    \/ TickSends /\ Reconciling
    \/ TickEnds /\ Reconciling
    \/ \E q \in Requests : Ask(q)
    \/ ReadPoints \/ ReadRows \/ ReadContexts \/ Fetch
    \/ \E offset \in 0..MaxOffset : LoadPage(offset)
    \/ FetchPage \/ Expire

(* The fairness of VersionIndex; a reader need not go on. *)
ReadersSpec ==
    /\ ReadersInit /\ [][ReadersNext]_allVars
    /\ WF_allVars(Loop /\ Reconciling)
    /\ \A d \in Document : WF_allVars(\E value \in BOOLEAN : Flip(d, value) /\ Rest)
    /\ \A d \in Document : WF_allVars(pc[d] # "idle" /\ (UpsertBeside(d) \/ (Indexer(d) /\ Rest)))

-----------------------------------------------------------------------------
(* Properties. *)

(* The pages of one search fit together, however documents are deleted while
   they are asked for: no chunk is on two of them, and when all have been
   asked for, a chunk of the search whose document was there throughout is on
   one ("paginate re-applies diversifyChunks deterministically", search.ts). *)
PagesTile ==
    LET asked == {o \in DOMAIN pages : pages[o] # None}
        all == {o \in 0..(answer.total - 1) : o % request.limit = 0}
        dead == UNION {pages[o].dead : o \in asked}
        counted == Diversify(answer.pool, request.by, request.max)
    IN reading = "answered" =>
        /\ \A o, p \in asked :
             o + request.limit <= p => pages[o].ids \cap pages[p].ids = {}
        /\ all \subseteq asked =>
             \A i \in DOMAIN counted :
                 counted[i].doc \notin dead => \E o \in all : counted[i].id \in pages[o].ids

Unfiltered(q) ==
    q.types = {} /\ q.entities = {} /\ q.categories = None /\ q.dateFrom = 0 /\ q.dateTo = 0

(* A paper that a search could find when it began is found, although a newer
   version takes its place between the reads: with versions that are indexed in
   their order, and what is deleted, lost or written again meanwhile aside, the
   answer of a search without filters is not empty. *)
FoundThroughout == reading = "answered" /\ steady /\ Unfiltered(request) => answer.results # <<>>

(* When the administrator has stopped and nothing is being indexed, the points
   of the documents that the loop looks at, as many as its limit in each of its
   two directions, get the flag of their row, however the requests, the loop and
   an indexing, which resets the flag, have overtaken one another; the others
   have no such promise. *)
FlagsAgree == <>[](Reconcilable => FlagsMatch)

=============================================================================
