------------------------------ MODULE Lookups ------------------------------
(***************************************************************************)
(* The tools of the MCP server that read documents and chunk rows by an    *)
(* identifier or a condition, as functions of what they read: get_document, *)
(* get_chunks, find_by_id, find_related, find_code, find_benchmark_results, *)
(* compare_papers and get_system_stats (profiles/v1, shared).               *)
(*                                                                          *)
(* A document is a record with deleted, status, license, tier, url,         *)
(* categories, published and the lists code, data and benchmarks; a chunk   *)
(* row has id, doc, latest, position, section and ctx.                      *)
(***************************************************************************)
EXTENDS Search

NotFound == [error |-> "not_found"]

Live(d, docs) == d \in DOMAIN docs /\ ~docs[d].deleted

-----------------------------------------------------------------------------
(* Availability: two axes that say nothing of one another. *)

CanServeFile(doc) == doc.license # "closed"

SourceAccessibility(doc) ==
    CASE CanServeFile(doc) -> "served_by_us"
      [] ~CanServeFile(doc) /\ doc.url -> "external_link_only"
      [] OTHER -> "unavailable"

(* effectiveIndexingTier: a row without a tier is full when it has chunks. *)
EffectiveTier(doc, chunks) ==
    CASE doc.tier # None -> doc.tier
      [] doc.tier = None /\ chunks > 0 -> "full"
      [] OTHER -> "none"

(* computeIndexingLimitation: why a document has its abstract only. *)
Limitation(doc) ==
    CASE doc.tier \in {None, "full"} -> None
      [] doc.tier = "abstract_only" /\ ~CanServeFile(doc) -> "license"
      [] doc.tier = "abstract_only" /\ CanServeFile(doc) /\ doc.status # "ready" -> "pending"
      [] OTHER -> "pipeline"

-----------------------------------------------------------------------------
(* get_chunks and get_document. *)

\* The order of ORDER BY ... DESC NULLS LAST.
SqlOrder(value) == CASE value = "true" -> 3 [] value = "false" -> 2 [] value = "null" -> 1

SqlAnd(a, b) ==
    CASE "false" \in {a, b} -> "false" [] "false" \notin {a, b} /\ "null" \in {a, b} -> "null" [] OTHER -> "true"

(* The tier of a row: a type that is NULL compares as NULL, so that a row
   without a type comes behind one whose entities are not known. *)
RowTier(ctx, f) ==
    LET type == CASE f.types = {} \/ ctx.type \in f.types -> "true"
                  [] f.types # {} /\ ctx.type = None -> "null"
                  [] OTHER -> "false"
        entity == IF f.entities = {} \/ ctx.entities \cap f.entities # {} THEN "true" ELSE "false"
    IN SqlOrder(SqlAnd(type, entity))

InSection(row, section) == section \in {None, row.section}

(* The latest rows of a document that no filter excludes, by position. *)
LatestRows(rows, d) ==
    LET own == SelectSeq(rows, LAMBDA r : r.doc = d /\ r.latest)
    IN Reverse(SortDown(Reverse(own), LAMBDA r : r.position))

MatchingRows(rows, d, f) ==
    SelectSeq(LatestRows(rows, d),
              LAMBDA r : "mismatch" \notin Verdicts(r.ctx, f) /\ InSection(r, f.section))

(* The order of the cached pool: only its chunks, and only when the pool is
   there and has one of the document. *)
ImportanceOrder(d, pool) ==
    IF pool = None THEN <<>> ELSE SelectSeq(pool, LAMBDA c : c.doc = d)

DocumentRows(rows, d, f, pool, limit) ==
    LET matching == MatchingRows(rows, d, f)
        order == ImportanceOrder(d, pool)
        Row(id) == CHOOSE i \in DOMAIN matching : matching[i].id = id
        cached == SelectSeq(order, LAMBDA c : c.id \in IdsOf(matching))
    IN IF order # <<>>
       THEN TopN([i \in DOMAIN cached |-> matching[Row(cached[i].id)]], limit)
       ELSE TopN(SortDown(matching, LAMBDA r : RowTier(r.ctx, f)), limit)

(* An empty answer of a document that has chunks says what each filter alone
   would have matched. *)
FilterCounts(rows, d, f) ==
    LET all == LatestRows(rows, d)
        Only(Test(_)) == Len(SelectSeq(all, Test))
    IN [contentType |-> Only(LAMBDA r : TypeVerdict(r.ctx, f.types) # "mismatch"),
        section |-> Only(LAMBDA r : InSection(r, f.section)),
        entities |-> Only(LAMBDA r : EntityVerdict(r.ctx, f.entities) # "mismatch")]

GetChunks(d, f, docs, rows, pool, limit) ==
    LET found == DocumentRows(rows, d, f, pool, limit)
    IN IF ~Live(d, docs)
       THEN NotFound
       ELSE [chunks |-> found, total |-> Len(LatestRows(rows, d)), unknown |-> UnknownTypes(found),
             counts |-> IF found = <<>> THEN FilterCounts(rows, d, f) ELSE None]

(* get_document hides the rows of the registry, too. *)
Visible(d, docs) == Live(d, docs) /\ docs[d].status # "listed"

GetDocument(d, f, wantChunks, docs, rows, pool, limit) ==
    LET total == Len(LatestRows(rows, d))
    IN IF ~Visible(d, docs)
       THEN NotFound
       ELSE [tier |-> EffectiveTier(docs[d], total), access |-> SourceAccessibility(docs[d]),
             limited |-> Limitation(docs[d]), total |-> total,
             chunks |-> IF wantChunks \/ f.types # {}
                        THEN DocumentRows(rows, d, [f EXCEPT !.entities = {}, !.section = None], pool, limit)
                        ELSE None]

-----------------------------------------------------------------------------
(* find_by_id. *)

(* getBySourceId: the highest version, a deleted one included. *)
NewestOfSource(docs, source) ==
    LET versions == {d \in DOMAIN docs : docs[d].source = source}
    IN IF versions = {} THEN None
       ELSE CHOOSE d \in versions : \A e \in versions : docs[e].version <= docs[d].version

(* resolveOarxIdToDocId: the whole id, or the prefix that was the id before. *)
ResolveOarx(oarx, docs) ==
    LET named == {d \in DOMAIN docs : Visible(d, docs) /\
                     IF oarx.form = "legacy" THEN docs[d].oarx.prefix = oarx.prefix
                     ELSE docs[d].oarx = [prefix |-> oarx.prefix, rest |-> oarx.rest]}
    IN CASE oarx.form \notin {"full", "legacy"} -> [status |-> "invalid"]
         [] oarx.form \in {"full", "legacy"} /\ named = {} -> [status |-> "not_found"]
         [] OTHER -> [status |-> "ok", doc |-> CHOOSE d \in named : TRUE]

(* An OpenArx id alone decides; an arXiv id, or a DOI that names one, is tried
   before the other identifiers. *)
FindById(q, docs) ==
    LET oarx == ResolveOarx(q.oarx, docs)
        arxiv == IF q.arxiv # None THEN q.arxiv ELSE q.doiArxiv
        newest == NewestOfSource(docs, arxiv)
        others == {<<"doi", IF q.doiArxiv = None THEN q.doi ELSE None>>, <<"s2", q.s2>>, <<"dblp", q.dblp>>}
        keys == {k \in others : k[2] # None}
        tried == IF keys = {} /\ arxiv # None THEN {<<"arxiv", arxiv>>} ELSE keys
        named == {d \in DOMAIN docs : Visible(d, docs) /\ docs[d].external \cap tried # {}}
    IN CASE q.oarx # None /\ oarx.status # "ok" -> NotFound
         [] q.oarx # None /\ oarx.status = "ok" -> [doc |-> oarx.doc]
         [] q.oarx = None /\ arxiv # None /\ newest # None /\ Visible(newest, docs) -> [doc |-> newest]
         [] q.oarx = None /\ ~(arxiv # None /\ newest # None /\ Visible(newest, docs)) /\ named # {} ->
                [doc |-> CHOOSE d \in named : TRUE]
         [] OTHER -> NotFound

-----------------------------------------------------------------------------
(* find_related. *)

(* deduplicateByDocument: the place of the first, the score of the best. *)
DedupByDocument(cs) ==
    LET firsts == CapPer(cs, LAMBDA c : c.doc, 1)
        Best(d) == Head(SortDown(SelectSeq(cs, LAMBDA c : c.doc = d), LAMBDA c : c.score))
    IN [i \in DOMAIN firsts |-> Best(firsts[i].doc)]

(* By similarity to the first chunk of a document, whose own chunks are left
   out, or to a text. *)
RelatedBySimilarity(d, q, hits, docs, vectors) ==
    LET raw == VectorSearch(hits, 3 * (q.limit + 1), 0)
        others == SelectSeq(raw, LAMBDA c : c.doc # d)
        deduped == TopN(DedupByDocument(others), 2 * q.limit)
    IN CASE d # None /\ ~Live(d, docs) -> NotFound
         [] d # None /\ Live(d, docs) /\ vectors[d] # "there" -> [error |-> vectors[d]]
         [] OTHER -> [results |-> TopN(DocumentFilter(deduped, q, docs, TRUE), q.limit)]

(* By an entity or a concept: the documents with the most chunks of it. *)
RelatedByMention(q, docs, rows) ==
    LET Mentions(r) == IF q.entity # None THEN q.entity \in r.ctx.entities ELSE q.concept = r.ctx.concept
        Count(d) == Len(SelectSeq(rows, LAMBDA r : r.doc = d /\ r.latest /\ Mentions(r)))
        ready == {d \in DOMAIN docs : /\ docs[d].status = "ready" /\ ~docs[d].deleted /\ Count(d) > 0
                                      /\ q.categories = {} \/ docs[d].categories \cap q.categories # {}}
    IN TopN(SortDown(SetToSeq(ready), LAMBDA d : 1000 * Count(d) + docs[d].published), q.limit)

-----------------------------------------------------------------------------
(* find_code. *)

HasLinks(doc) == doc.code # <<>> \/ doc.data # <<>> \/ doc.benchmarks # <<>>

CodeMatched(doc, q) ==
    SelectSeq(doc.code, LAMBDA c : q.framework \in {None, c.framework} /\ c.stars >= q.minStars)

DataMatched(doc, q) == SelectSeq(doc.data, LAMBDA name : q.dataset \in {None, name})

BenchmarksMatched(doc, q) ==
    SelectSeq(doc.benchmarks, LAMBDA b : q.task \in {None, b.task} /\ q.dataset \in {None, b.dataset})

(* Each filter that is given needs a match of its own kind. *)
CodeFits(doc, q) ==
    /\ HasLinks(doc)
    /\ q.framework # None \/ q.minStars > 0 => CodeMatched(doc, q) # <<>>
    /\ q.task # None => BenchmarksMatched(doc, q) # <<>>
    /\ q.dataset # None => DataMatched(doc, q) # <<>> \/ BenchmarksMatched(doc, q) # <<>>

(* The candidates: by similarity when there is a query, else by date among
   those that pass the conditions of the statement, four times the limit. *)
CodeCandidates(q, hits, docs) ==
    LET PreFits(doc) ==
            /\ doc.status = "ready" /\ ~doc.deleted /\ HasLinks(doc) /\ PassesFilters(doc, q, TRUE)
            /\ q.task # None => \E i \in DOMAIN doc.benchmarks : doc.benchmarks[i].task = q.task
            /\ q.dataset # None => DataMatched(doc, q) # <<>> \/
                   \E i \in DOMAIN doc.benchmarks : doc.benchmarks[i].dataset = q.dataset
            /\ q.minStars > 0 => \E i \in DOMAIN doc.code : doc.code[i].stars >= q.minStars
            /\ q.framework # None => \E i \in DOMAIN doc.code : doc.code[i].framework = q.framework
        near == DedupByDocument(VectorSearch(hits, 8 * q.limit, 0))
    IN IF q.query
       THEN [i \in DOMAIN near |-> near[i].doc]
       ELSE TopN(SortDown(SetToSeq({d \in DOMAIN docs : PreFits(docs[d])}), LAMBDA d : docs[d].published), 4 * q.limit)

FindCode(q, hits, docs) ==
    TopN(SelectSeq(CodeCandidates(q, hits, docs),
                   LAMBDA d : Live(d, docs) /\ PassesFilters(docs[d], q, TRUE) /\ CodeFits(docs[d], q)),
         q.limit)

-----------------------------------------------------------------------------
(* find_benchmark_results: metrics of performance only, by score and date. *)

BenchmarkRows(q, docs) ==
    LET fit == {<<d, i>> \in (DOMAIN docs) \X (1..3) :
            /\ i \in DOMAIN docs[d].benchmarks
            /\ docs[d].status = "ready" /\ ~docs[d].deleted /\ docs[d].published >= q.minYear
            /\ q.categories = {} \/ docs[d].categories \cap q.categories # {}
            /\ LET b == docs[d].benchmarks[i]
               IN /\ b.performance /\ b.score >= q.minScore
                  /\ q.task \in {None, b.task} /\ q.dataset \in {None, b.dataset}
                  /\ q.metric \in {None, b.metric}}
        Row(p) == [doc |-> p[1], year |-> docs[p[1]].published, score |-> docs[p[1]].benchmarks[p[2]].score]
        all == SetToSeq(fit)
    IN TopN(SortDown([i \in DOMAIN all |-> Row(all[i])], LAMBDA r : 10000 * r.score + r.year), q.topK)

(* The best score of each year, taken from the rows that are answered. *)
Trajectory(rows) ==
    [y \in {rows[i].year : i \in DOMAIN rows} |->
        rows[CHOOSE i \in DOMAIN rows : rows[i].year = y /\ \A j \in 1..(i - 1) : rows[j].year # y].score]

FindBenchmarks(q, docs) ==
    LET rows == BenchmarkRows(q, docs)
    IN IF q.task = None /\ q.dataset = None /\ q.metric = None
       THEN [error |-> "filter_required"]
       ELSE [results |-> rows,
             trajectory |-> IF None \in {q.task, q.dataset, q.metric} \/ rows = <<>> THEN None ELSE Trajectory(rows)]

-----------------------------------------------------------------------------
(* compare_papers. *)

EntitiesOf(d, rows) ==
    UNION {rows[i].ctx.entities : i \in {j \in DOMAIN rows : rows[j].doc = d /\ rows[j].latest}}

ConceptsOf(d, rows) ==
    {rows[i].ctx.concept : i \in {j \in DOMAIN rows : rows[j].doc = d /\ rows[j].latest}} \ {None}

\* of: what each of the papers has.
Shared(of) == {e \in UNION Range(of) : \A d \in DOMAIN of : e \in of[d]}

Divergent(of) == [d \in DOMAIN of |-> of[d] \ UNION {of[e] : e \in DOMAIN of \ {d}}]

(* The part for concepts is written into that for entities: without it the
   request throws. *)
Compare(ids, dimensions, minimal, docs, rows) ==
    LET papers == FetchDocuments(ids, docs)
        entities == [d \in papers |-> EntitiesOf(d, rows)]
        concepts == [d \in papers |-> ConceptsOf(d, rows)]
    IN CASE Cardinality(papers) < 2 -> [error |-> "too_few"]
         [] Cardinality(papers) >= 2 /\ ~minimal /\ "concepts" \in dimensions /\ "entities" \notin dimensions ->
                [error |-> "throws"]
         [] OTHER -> [papers |-> papers,
                      entities |-> IF "entities" \in dimensions THEN Shared(entities) ELSE {},
                      concepts |-> IF "concepts" \in dimensions /\ ~minimal THEN Shared(concepts) ELSE {},
                      divergent |-> IF "entities" \in dimensions /\ ~minimal THEN Divergent(entities) ELSE None]

-----------------------------------------------------------------------------
(* get_system_stats. *)

(* The counters of documents: those that can be found. *)
CountDocuments(docs) ==
    LET counted == {d \in DOMAIN docs : Visible(d, docs)}
        ready == {d \in counted : docs[d].status = "ready"}
    IN [indexed |-> Cardinality(counted), ready |-> Cardinality(ready),
        full |-> Cardinality({d \in ready : docs[d].tier = "full"}),
        abstract |-> Cardinality({d \in ready : docs[d].tier \in {"abstract_only", None}})]

(* A section whose service does not answer is zero; the whole is kept for a
   minute. *)
Stats(cache, now, docs, remote) ==
    IF cache # None /\ now < cache.expires
    THEN cache
    ELSE [documents |-> CountDocuments(docs), remote |-> IF remote = None THEN 0 ELSE remote, expires |-> now + 60]

=============================================================================
