------------------------------- MODULE Search -------------------------------
(***************************************************************************)
(* The ranking tools of the MCP server, as functions of what they read:    *)
(* search, search_keyword, search_semantic and the dev search, paginate,   *)
(* find_methodology, find_evidence and explore_topic (profiles/v1, dev,     *)
(* shared).  Readers.tla says when each of the reads happens.               *)
(*                                                                          *)
(* A chunk is a record [id, doc, score, ctx]; its context has the markers   *)
(* of the language model, each of which may be missing.  Scores are natural *)
(* numbers, their weights integers in the proportion of the code's.         *)
(***************************************************************************)
EXTENDS Naturals, FiniteSets, SequencesExt

CONSTANT None    \* null, undefined

Unmarked ==
    [summary |-> None, concept |-> None, type |-> None, entities |-> {}, contained |-> None]

TopN(s, n) == SubSeq(s, 1, IF Len(s) < n THEN Len(s) ELSE n)

AtLeast(a, b) == IF a < b THEN b ELSE a

IdsOf(cs)  == {cs[i].id : i \in DOMAIN cs}
DocsOf(cs) == {cs[i].doc : i \in DOMAIN cs}

WithId(cs, id) == cs[CHOOSE i \in DOMAIN cs : cs[i].id = id]

(* The elements at some positions, in their order. *)
Picked(s, at) ==
    LET Place(i) == Cardinality({k \in at : k <= i})
    IN [n \in 1..Cardinality(at) |-> s[CHOOSE i \in at : Place(i) = n]]

SelectAt(s, Test(_)) == Picked(s, {i \in DOMAIN s : Test(i)})

(* Array.filter. *)
Keep(s, Test(_)) == Picked(s, {i \in DOMAIN s : Test(s[i])})

(* Array.sort keeps the order of equal elements. *)
SortDown(s, Key(_)) ==
    LET Before(i) == {j \in DOMAIN s : Key(s[j]) > Key(s[i]) \/ (Key(s[j]) = Key(s[i]) /\ j < i)}
    IN [n \in DOMAIN s |-> s[CHOOSE i \in DOMAIN s : Cardinality(Before(i)) = n - 1]]

(* At most max elements with one key, the first ones; None is no key. *)
CapPer(s, Key(_), max) ==
    SelectAt(s, LAMBDA i :
        Key(s[i]) = None \/ Cardinality({j \in 1..(i - 1) : Key(s[j]) = Key(s[i])}) < max)

-----------------------------------------------------------------------------
(* The stores. *)

(* QdrantVectorStore.search: points by similarity, latest ones only, deleted
   ones not excluded; with a cap per document it fetches four times as many. *)
VectorSearch(points, limit, perDoc) ==
    LET latest == Keep(points, LAMBDA p : p.latest)
    IN IF perDoc = 0
       THEN TopN(latest, limit)
       ELSE TopN(CapPer(TopN(latest, 4 * limit), LAMBDA p : p.doc, perDoc), limit)

(* SearchStore.searchBM25: latest indexed rows outside the references; a row
   without a section title is not found, since NULL passes no condition.  The
   rank is relative to the best one. *)
BM25Search(rows, limit) ==
    LET found == TopN(Keep(rows, LAMBDA r :
                    /\ r.latest /\ r.status \in {"indexed", "indexed_partial"}
                    /\ r.section \notin {"references", None}), limit)
        best == IF found = <<>> THEN 0 ELSE Head(found).score
    IN [i \in DOMAIN found |->
           [found[i] EXCEPT !.score = IF best > 0 THEN (10 * @) \div best ELSE 0]]

(* embedQuery: the slot named specter2 holds the vectors of qwen. *)
EmbedModel(vectorModel) ==
    IF vectorModel = "specter2" THEN "qwen3-embedding-8b" ELSE "gemini"

-----------------------------------------------------------------------------
(* The stages of the search tools. *)

VectorWeight == 6
BM25Weight   == 4

ScoreIn(cs, id) ==
    IF id \in IdsOf(cs) THEN WithId(cs, id).score ELSE 0

(* mergeHybridResults: a chunk that both found has the context of its point. *)
Merge(vector, bm25) ==
    LET all == vector \o Keep(bm25, LAMBDA c : c.id \notin IdsOf(vector))
        Fused(c) == VectorWeight * ScoreIn(vector, c.id) + BM25Weight * ScoreIn(bm25, c.id)
    IN SortDown([i \in DOMAIN all |-> [all[i] EXCEPT !.score = Fused(all[i])]],
                LAMBDA c : c.score)

CandidateCount(limit, rerank, filtered) ==
    CASE filtered -> AtLeast(50, 5 * limit)
      [] ~filtered /\ rerank -> AtLeast(15, 3 * limit)
      [] OTHER -> AtLeast(30, 3 * limit)

(* hydrateChunkContexts: the row of a chunk without markers may be gone. *)
Hydrate(cs, stored) ==
    [i \in DOMAIN cs |->
        IF cs[i].ctx = Unmarked /\ cs[i].id \in DOMAIN stored
        THEN [cs[i] EXCEPT !.ctx = stored[cs[i].id]]
        ELSE cs[i]]

TypeVerdict(ctx, types) ==
    CASE types = {} \/ ctx.type \in types -> "match"
      [] types # {} /\ ctx.type = None -> "unknown"
      [] OTHER -> "mismatch"

EntityVerdict(ctx, entities) ==
    CASE entities = {} \/ ctx.entities \cap entities # {} -> "match"
      [] entities # {} /\ ctx.entities = {} -> "unknown"
      [] OTHER -> "mismatch"

Verdicts(ctx, f) == {TypeVerdict(ctx, f.types), EntityVerdict(ctx, f.entities)}

(* applyChunkContextFilters: the matches, then what is not known. *)
ContextFilters(cs, f) ==
    Keep(cs, LAMBDA c : Verdicts(c.ctx, f) = {"match"})
    \o Keep(cs, LAMBDA c : "unknown" \in Verdicts(c.ctx, f) /\ "mismatch" \notin Verdicts(c.ctx, f))

(* The reranker sees the first 15 and only those go on; order is the ids by
   its scores, empty when it is unavailable. *)
RerankCount == 15

Rerank(cs, order) ==
    LET candidates == TopN(cs, RerankCount)
        scored == Keep(order, LAMBDA id : id \in IdsOf(candidates))
    IN IF order = <<>> \/ cs = <<>>
       THEN cs
       ELSE [i \in DOMAIN scored |-> WithId(candidates, scored[i])]

(* fetchDocuments: the rows of the named documents that are not deleted. *)
FetchDocuments(ids, docs) == {d \in ids \cap DOMAIN docs : ~docs[d].deleted}

(* The filters on documents.  The search tools take an empty list of
   categories for a list no document is in, the others for no list. *)
PassesFilters(doc, f, emptyIsNone) ==
    /\ \/ f.categories = None \/ (emptyIsNone /\ f.categories = {})
       \/ doc.categories \cap f.categories # {}
    /\ f.dateFrom = 0 \/ doc.published >= f.dateFrom
    /\ f.dateTo = 0 \/ doc.published <= f.dateTo

DocumentFilter(cs, f, docs, emptyIsNone) ==
    LET live == FetchDocuments(DocsOf(cs), docs)
    IN Keep(cs, LAMBDA c : c.doc \in live /\ PassesFilters(docs[c.doc], f, emptyIsNone))

DiversifyKey(c, by) ==
    CASE by = "document" -> c.doc
      [] by = "keyConcept" -> c.ctx.concept
      [] by = "contentType" -> c.ctx.type

Diversify(cs, by, max) == CapPer(cs, LAMBDA c : DiversifyKey(c, by), max)

(* computeFacets: how often each type occurs, the entities by frequency. *)
TypeFacet(cs) ==
    [t \in {cs[i].ctx.type : i \in DOMAIN cs} \ {None} |->
        Cardinality({i \in DOMAIN cs : cs[i].ctx.type = t})]

EntityFacet(cs, top) ==
    LET entities == UNION {cs[i].ctx.entities : i \in DOMAIN cs}
        Mentions(e) == Cardinality({i \in DOMAIN cs : e \in cs[i].ctx.entities})
    IN TopN(SortDown(SetToSeq(entities), Mentions), top)

UnknownTypes(cs) == Cardinality({i \in DOMAIN cs : cs[i].ctx.type = None})

-----------------------------------------------------------------------------
(* The search tools.  A request q has the filters, the diversification and
   the limit; the pool that is cached is the one before diversification. *)

Answer(pool, q) ==
    LET spread == Diversify(pool, q.by, q.max)
    IN [results |-> TopN(spread, q.limit), pool |-> pool, total |-> Len(spread),
        types |-> TypeFacet(TopN(pool, AtLeast(50, 5 * q.limit))),
        entities |-> EntityFacet(TopN(pool, AtLeast(50, 5 * q.limit)), 10)]

Ranked(chunks, q, stored, order, docs) ==
    LET known == Hydrate(chunks, stored)
        wanted == IF q.types = {} /\ q.entities = {} THEN known ELSE ContextFilters(known, q)
        ordered == IF q.rerank THEN Rerank(wanted, order) ELSE wanted
    IN Answer(DocumentFilter(ordered, q, docs, FALSE), q)

(* search: points and rows. *)
HybridSearch(q, points, rows, stored, order, docs) ==
    LET n == CandidateCount(q.limit, q.rerank, q.filtered)
    IN Ranked(Merge(VectorSearch(points, n, 0), BM25Search(rows, n)), q, stored, order, docs)

(* search_semantic: points only. *)
SemanticSearch(q, points, stored, order, docs) ==
    LET n == CandidateCount(q.limit, q.rerank, q.filtered)
    IN Ranked(VectorSearch(points, n, 0), q, stored, order, docs)

(* search_keyword: rows only, and no reranker. *)
KeywordSearch(q, rows, stored, docs) ==
    LET n == CandidateCount(q.limit, FALSE, q.filtered)
    IN Ranked(BM25Search(rows, n), q, stored, <<>>, docs)

(* The dev search: capped per document by the store, reranked before it is
   capped again, filtered last; nothing is hydrated or cached. *)
DevSearch(q, points, rows, order, docs) ==
    LET n == AtLeast(RerankCount, 3 * q.limit)
        candidates == TopN(Merge(VectorSearch(points, n, q.max), BM25Search(rows, n)), RerankCount)
        spread == CapPer(Rerank(candidates, order), LAMBDA c : c.doc, q.max)
    IN TopN(DocumentFilter(spread, q, docs, FALSE), q.limit)

(* paginate: the whole pool is diversified again with the settings of the
   search, and cut; documents deleted since leave gaps in the page. *)
Paginate(cached, offset, limit, docs) ==
    LET spread == Diversify(cached.pool, cached.by, cached.max)
        page == TopN(SubSeq(spread, offset + 1, Len(spread)), limit)
        live == FetchDocuments(DocsOf(page), docs)
    IN [results |-> Keep(page, LAMBDA c : c.doc \in live), total |-> Len(spread)]

-----------------------------------------------------------------------------
(* find_methodology: chunks of methodology, then those of the entities, one
   for each document. *)
Methodology(q, points, stored, docs) ==
    LET found   == Hydrate(VectorSearch(points, AtLeast(50, 6 * q.limit), 0), stored)
        methods == ContextFilters(found, [types |-> {"methodology"}, entities |-> {}])
        named   == IF q.entities = {} THEN methods
                   ELSE ContextFilters(methods, [types |-> {}, entities |-> q.entities])
        fitting == DocumentFilter(named, q, docs, TRUE)
        perDoc  == TopN(CapPer(fitting, LAMBDA c : c.doc, 1), q.limit)
    IN [results |-> perDoc,
        counts |-> <<Len(found), Len(methods), Len(named), Len(fitting), Len(perDoc)>>]

(* buildEmptyResultHint: the first stage that left nothing. *)
Hint(counts) ==
    LET stages == <<"vector", "classification", "entities", "documents", "dedup">>
    IN stages[CHOOSE i \in 1..5 : counts[i] = 0 /\ \A j \in 1..(i - 1) : counts[j] > 0]

(* extractMethod: a call that fails leaves the fields empty, and the key idea
   falls back to the summary of the chunk. *)
KeyIdea(extraction, c) == IF extraction # None THEN extraction ELSE c.ctx.summary

(* matchBenchmark: the best score among those of the task. *)
MatchBenchmark(benchmarks, q) ==
    LET fit == Keep(benchmarks, LAMBDA b :
                   b.task = q.task /\ q.dataset \in {None, b.dataset} /\ q.metric \in {None, b.metric})
    IN IF fit = <<>> THEN None ELSE Head(SortDown(fit, LAMBDA b : b.score))

-----------------------------------------------------------------------------
(* find_evidence. *)

Relations == {"supporting", "contradicting", "neutral"}

(* generateHydeText: the claim itself when the model fails or says too little. *)
HydeText(reply, claim) == IF reply \in {"failed", "short"} THEN claim ELSE reply

(* The three result lists pooled; a chunk keeps the score it was met with. *)
Pooled(claim, sup, con) ==
    LET new == Keep(sup, LAMBDA c : c.id \notin IdsOf(claim))
        met == claim \o new
    IN met \o Keep(con, LAMBDA c : c.id \notin IdsOf(met))

(* The fast mode: the hypothesis it is nearer to, scores in hundredths. *)
Fast(c, claim, sup, con) ==
    LET s == ScoreIn(sup, c.id)
        k == ScoreIn(con, c.id)
        gap == AtLeast(s, k) - (s + k - AtLeast(s, k))
        bounded == 50 + 4 * gap
    IN [chunk |-> [c EXCEPT !.score = AtLeast(AtLeast(s, k), ScoreIn(claim, c.id))],
        relation |-> CASE gap < 3 -> "neutral" [] gap >= 3 /\ s > k -> "supporting" [] OTHER -> "contradicting",
        confidence |-> IF gap < 3 THEN 50 ELSE IF bounded < 95 THEN bounded ELSE 95]

(* classifyByNLI: neutral when the call fails or its answer cannot be read. *)
Deep(c, reply) ==
    IF reply = None \/ reply.relation \notin Relations
    THEN [chunk |-> c, relation |-> "neutral", confidence |-> 30]
    ELSE [chunk |-> c, relation |-> reply.relation, confidence |-> reply.confidence]

(* The chunks of a relation, those that stand alone first. *)
Group(classified, relation) ==
    LET Alone(c) == IF c.chunk.ctx.contained = "yes" THEN 1 ELSE 0
    IN SortDown(Keep(classified, LAMBDA c : c.relation = relation),
                LAMBDA c : 1000000 * Alone(c) + c.confidence * c.chunk.score)

(* The stages that may fail after their retries give an empty answer with the
   stage's name, and no exception. *)
Evidence(q, failed, claim, sup, con, stored, docs, replies) ==
    IF failed # None
    THEN [error |-> failed, groups |-> [r \in Relations |-> <<>>]]
    ELSE LET pool == Hydrate(Pooled(claim, sup, con), stored)
             kept == Keep(DocumentFilter(pool, q, docs, TRUE),
                        LAMBDA c : q.selfContainedOnly => c.ctx.contained = "yes")
             classified == [i \in DOMAIN kept |->
                 IF q.mode = "deep" THEN Deep(kept[i], replies[kept[i].id]) ELSE Fast(kept[i], claim, sup, con)]
         IN [error |-> None, groups |-> [r \in Relations |-> TopN(Group(classified, r), q.limit)]]

-----------------------------------------------------------------------------
(* explore_topic. *)

\* log2(n + 1) in tenths.
Volume == <<10, 16, 20, 23, 26, 28, 30>>

(* The chunks of each key concept, by relevance and volume. *)
Clusters(chunks) ==
    LET named == Keep(chunks, LAMBDA c : c.ctx.concept # None)
        firsts == CapPer(named, LAMBDA c : c.ctx.concept, 1)
        Cluster(k) == SortDown(Keep(named, LAMBDA c : c.ctx.concept = k), LAMBDA c : c.score)
    IN SortDown([i \in DOMAIN firsts |-> Cluster(firsts[i].ctx.concept)],
                LAMBDA cl : Head(cl).score * Volume[Len(cl)])

(* A cluster takes its best chunk of a paper that is not at the cap, and is
   skipped when every paper is. *)
Represent(clusters, count, perPaper) ==
    LET Used(chosen, doc) == Cardinality({i \in DOMAIN chosen : chosen[i].doc = doc})
        Step(acc, cl) ==
            LET free == Keep(cl, LAMBDA c : Used(acc.chosen, c.doc) < perPaper)
            IN CASE Len(acc.chosen) >= count -> acc
                 [] Len(acc.chosen) < count /\ free = <<>> -> [acc EXCEPT !.skipped = @ + 1]
                 [] OTHER -> [acc EXCEPT !.chosen = Append(@, Head(free))]
    IN FoldLeft(Step, [chosen |-> <<>>, skipped |-> 0], clusters)

Explore(q, points, stored, docs) ==
    LET found == Hydrate(VectorSearch(points, AtLeast(80, 12 * q.count), 0), stored)
        clusters == Clusters(DocumentFilter(found, q, docs, TRUE))
        picked == Represent(clusters, q.count, q.perPaper)
    IN [chosen |-> picked.chosen, skipped |-> picked.skipped, total |-> Len(clusters)]

=============================================================================
