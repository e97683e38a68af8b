------------------------------ MODULE MCTools ------------------------------
(***************************************************************************)
(* What the reading tools of the MCP server compute, checked over all small *)
(* inputs.                                                                  *)
(***************************************************************************)
EXTENDS Lookups

Ctxs == {[Unmarked EXCEPT !.concept = c, !.type = t, !.entities = e, !.contained = s] :
            c \in {None, "k"}, t \in {None, "methodology", "results"}, e \in {{}, {"bert"}, {"squad"}}, s \in {None, "yes"}}

Plain(id, doc, score) == [id |-> id, doc |-> doc, score |-> score, ctx |-> [Unmarked EXCEPT !.concept = doc]]

Lists(n) == UNION {[1..k -> {"p", "q"} \X (1..2)] : k \in 0..n}
Chunks(s) == [i \in DOMAIN s |-> Plain(i, s[i][1], s[i][2])]

(* diversifyChunks counts as it goes; here the elements are counted that come
   before: the two agree. *)
ASSUME DiversifyCounts ==
    \A s \in Lists(4), max \in 1..2 :
        LET Step(acc, c) ==
                IF Len(SelectSeq(acc, LAMBDA a : a.doc = c.doc)) < max THEN Append(acc, c) ELSE acc
        IN Diversify(Chunks(s), "document", max) = FoldLeft(Step, <<>>, Chunks(s))

(* A chunk that both retrievals found is merged to one, and none that only one
   of them found comes before it with the same scores. *)
ASSUME MergeFuses ==
    \A s, t \in Lists(2) :
        LET merged == Merge(Chunks(s), Chunks(t))
        IN /\ IdsOf(merged) = IdsOf(Chunks(s)) \cup IdsOf(Chunks(t))
           /\ Len(merged) = Cardinality(IdsOf(merged))
           /\ \A i, j \in DOMAIN merged : i < j => merged[i].score >= merged[j].score

(* The soft filters drop what is known not to fit, put what fits before what is
   not known, and change no order besides. *)
ASSUME FiltersSoft ==
    \A a, b \in Ctxs, types \in {{}, {"methodology"}}, entities \in {{}, {"bert"}} :
        LET f == [types |-> types, entities |-> entities]
            out == ContextFilters(<<[id |-> 1, ctx |-> a], [id |-> 2, ctx |-> b]>>, f)
            kept == {i \in {1, 2} : "mismatch" \notin Verdicts(IF i = 1 THEN a ELSE b, f)}
        IN /\ IdsOf(out) = kept
           /\ Len(out) = 2 /\ out[1].id = 2 => Verdicts(b, f) = {"match"} /\ Verdicts(a, f) # {"match"}

(* get_chunks orders rows as the search does, save that a row whose type is not
   known comes behind one of the type whose entities do not fit. *)
ASSUME TiersAlike ==
    \A a, b \in Ctxs, types \in {{}, {"methodology"}}, entities \in {{}, {"bert"}} :
        LET f == [types |-> types, entities |-> entities]
        IN Verdicts(a, f) = {"match"} /\ Verdicts(b, f) # {"match"} => RowTier(a, f) > RowTier(b, f)

(* get_chunks shows latest rows of the document only, whatever an old pool
   holds, and never more than asked for. *)
ASSUME PoolOnlyOrders ==
    \A flags \in [1..3 -> BOOLEAN], pool \in {None} \cup {Chunks(s) : s \in Lists(2)}, limit \in 1..3 :
        LET rows == [i \in 1..3 |-> [id |-> i, doc |-> "p", latest |-> flags[i], position |-> 4 - i,
                                     section |-> None, ctx |-> Unmarked]]
            shown == DocumentRows(rows, "p", [types |-> {}, entities |-> {}, section |-> None], pool, limit)
        IN /\ \A i \in DOMAIN shown : shown[i].latest
           /\ Len(shown) <= limit /\ Len(shown) = Cardinality(IdsOf(shown))

(* explore_topic: no paper represents more clusters than it may, and every
   cluster is chosen, skipped or beyond the count. *)
ASSUME PapersCapped ==
    \A s \in Lists(4), perPaper \in 1..2, count \in 1..3 :
        LET clusters == [i \in DOMAIN s |-> <<Plain(i, s[i][1], s[i][2])>>]
            picked == Represent(clusters, count, perPaper)
        IN /\ \A d \in {"p", "q"} : Len(SelectSeq(picked.chosen, LAMBDA c : c.doc = d)) <= perPaper
           /\ Len(picked.chosen) <= count
           /\ Len(picked.chosen) < count => Len(picked.chosen) + picked.skipped = Len(clusters)

(* find_evidence: a chunk is in one group, the claim's own results included. *)
ASSUME OneRelation ==
    \A sup, con \in Lists(2), mode \in {"fast", "deep"} :
        LET docs == [d \in {"p", "q"} |-> [deleted |-> FALSE, categories |-> {}, published |-> 1]]
            q == [categories |-> None, dateFrom |-> 0, dateTo |-> 0, mode |-> mode, limit |-> 5, selfContainedOnly |-> FALSE]
            replies == [id \in 0..9 |-> IF id = 1 THEN None ELSE [relation |-> "supporting", confidence |-> 80]]
            groups == Evidence(q, None, <<>>, Chunks(sup), Chunks(con), <<>>, docs, replies).groups
        IN /\ \A r, o \in Relations : r # o => {x.chunk.id : x \in ToSet(groups[r])} \cap {x.chunk.id : x \in ToSet(groups[o])} = {}
           /\ Cardinality(UNION {{x.chunk.id : x \in ToSet(groups[r])} : r \in Relations}) = AtLeast(Len(sup), Len(con))

(* find_related: a document is listed once, with its best score. *)
ASSUME BestOfDocument ==
    \A s \in Lists(4) :
        LET best == DedupByDocument(Chunks(s))
        IN /\ Len(best) = Cardinality(DocsOf(Chunks(s)))
           /\ \A i \in DOMAIN best, j \in DOMAIN s : s[j][1] = best[i].doc => s[j][2] <= best[i].score

(* find_benchmark_results: the trajectory has the best score of each year. *)
ASSUME BestOfYear ==
    \A scores \in [1..2 -> 1..3], years \in [1..2 -> 1..2] :
        LET Bench(i) == [performance |-> TRUE, score |-> scores[i], task |-> "t", dataset |-> "d", metric |-> "m"]
            docs == [d \in 1..2 |-> [status |-> "ready", deleted |-> FALSE, published |-> years[d], categories |-> {},
                                     benchmarks |-> <<Bench(d)>>]]
            q == [task |-> "t", dataset |-> "d", metric |-> "m", minYear |-> 0, minScore |-> 0, categories |-> {}, topK |-> 5]
            trajectory == FindBenchmarks(q, docs).trajectory
        IN \A d \in 1..2 : trajectory[years[d]] >= scores[d]

(* compare_papers: what is shared is in every paper and divergent in none. *)
ASSUME SharedOrDivergent ==
    \A e \in [{"p", "q"} -> SUBSET {"a", "b"}] :
        LET docs == [d \in {"p", "q"} |-> [deleted |-> FALSE]]
            Row(d) == [doc |-> d, latest |-> TRUE, ctx |-> [Unmarked EXCEPT !.entities = e[d]]]
            compared == Compare({"p", "q"}, {"entities"}, FALSE, docs, <<Row("p"), Row("q")>>)
        IN /\ compared.entities = e["p"] \cap e["q"]
           /\ \A d \in {"p", "q"} : compared.divergent[d] \cap compared.entities = {}
=============================================================================
