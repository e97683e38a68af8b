---------------------------- MODULE ClaimGraph ----------------------------
(***************************************************************************)
(* The graph of the claims: what a checkpoint writes into it (ids resolved, *)
(* shape checked, write-set staged and committed, vectors stored) and what  *)
(* the scientific reads return from it.                                     *)
(*                                                                          *)
(* A value is a leaf, a list or an object.  A leaf is a pair: <<"claim", n>>*)
(* and the like are ids, <<"_:", n>> is a name local to the submission,     *)
(* <<"name", w>> a word of a vocabulary, <<"text", n>> any other text,      *)
(* <<"number", n>> and <<"flag", b>> are no text.  The data of a record is a*)
(* function from keys to values.                                            *)
(*                                                                          *)
(* A graph has `nodes` in the order in which the store returns them, which  *)
(* is any order: no read asks for one.  A value that may be missing is a set*)
(* of at most one element.                                                  *)
(***************************************************************************)
EXTENDS Integers, SequencesExt

CONSTANTS
    RelationReadCap, TraverseLimit, MaxChainHops, Widest, Floor,
    AssignId(_, _, _),      \* data, type, credential: the id derived from the content
    Before(_, _),           \* the order of ids, and of times
    Similarity(_, _, _)     \* space and two ids: how near their vectors are

Leaf(v) == [is |-> "leaf", it |-> v]
Items(s) == [is |-> "list", it |-> s]
Object(f) == [is |-> "object", it |-> f]

IsText(v) == v.is = "leaf" /\ v.it[1] \notin {"number", "flag", "null"}

(* str(record[key]) *)
Str(data, key) == IF key \in DOMAIN data /\ IsText(data[key]) THEN {data[key].it} ELSE {}

Name(data, key) == {s[2] : s \in Str(data, key)}

Given(s, default) == IF s = {} THEN default ELSE CHOOSE x \in s : TRUE

RECURSIVE Mentions(_, _)
Mentions(v, s) ==
    CASE v.is = "leaf" -> v.it = s
      [] v.is = "list" -> \E i \in DOMAIN v.it : Mentions(v.it[i], s)
      [] OTHER -> \E k \in DOMAIN v.it : Mentions(v.it[k], s)

ContainsText(node, s) == Mentions(Object(node.data), s)

-----------------------------------------------------------------------------
(* The shape of a record that a mentee submits: the keys at fault. *)

Epistemic == {"support", "extend", "qualify", "refute", "background", "shared_evidence", "same_as"}
Engineering == {"depends_on", "satisfies"}

NoText(data, keys) == {k \in keys : Str(data, k) \in {{}, {<<"text", 0>>}}}

NotUnit(data, keys) ==
    {k \in keys : ~ /\ k \in DOMAIN data /\ data[k].is = "leaf"
                    /\ data[k].it[1] = "number" /\ data[k].it[2] \in 0..1}

ClassOf(data) == Given(Name(data, "relation_class"), "epistemic")

ClaimIssues(data) ==
    (IF "content" \notin DOMAIN data THEN {"content"}
     ELSE IF data["content"].is # "object" THEN {"content"}
     ELSE LET content == data["content"].it
          IN  NoText(content, {"text", "modality", "claim_type", "claim_status"})
              \cup NotUnit(content, {"claim_strength", "extraction_fidelity"}))
    \cup {k \in {"evidence"} : IF k \in DOMAIN data THEN data[k].is # "list" ELSE TRUE}

RelationIssues(data) ==
    LET relation == Given(Name(data, "relation"), "")
        known == IF ClassOf(data) = "engineering" THEN Engineering ELSE Epistemic
    IN  NoText(data, {"source_claim_id", "target_claim_id", "relation", "direction"})
        \cup {k \in {"relation_class"} : ClassOf(data) \notin {"epistemic", "engineering"}}
        \cup {k \in {"relation"} : relation # "" /\ relation \notin known}
        \cup {k \in NoText(data, {"citation_context"}) : ClassOf(data) # "engineering" /\ relation # "same_as"}

ActivityIssues(data) ==
    NoText(data, {"activity_type"}) \cup {k \in {"activity_type"} : Name(data, k) # {"version_closeout"}}

BundleIssues(data) ==
    LET type == Given(Name(data, "bundle_type"), "")
        listed == "members" \in DOMAIN data /\ data["members"].is = "list" /\ data["members"].it # <<>>
    IN  {k \in {"bundle_type"} : type \notin {"ro_crate", "narrative_synthesis"}}
        \cup {k \in {"members"} : type = "narrative_synthesis"
                 /\ IF listed THEN \E i \in DOMAIN data[k].it :
                                   ~IsText(data[k].it[i]) \/ data[k].it[i] = Leaf(<<"text", 0>>)
                             ELSE TRUE}
        \cup {k \in NoText(data, {"synthesis_narrative"}) : type = "narrative_synthesis"}
        \cup {k \in {"manifest"} : type = "ro_crate"
                 /\ IF k \in DOMAIN data THEN data[k].is # "object" ELSE TRUE}

ValidateRecordShape(data, type) ==
    CASE type = "claim" -> ClaimIssues(data)
      [] type = "relation" -> RelationIssues(data)
      [] type = "activity" -> ActivityIssues(data)
      [] type = "metric" -> NoText(data, {"metric_name", "metric_type"})
      [] type = "bundle" -> BundleIssues(data)
      [] OTHER -> {"record_type"}

-----------------------------------------------------------------------------
(* The names that are local to a submission become ids.  A submission is a
   sequence of [local, type, data]; refused it gives {}. *)

HashRefs(type) ==
    CASE type = "relation" -> {"source_claim_id", "target_claim_id"}
      [] type = "activity" -> {"used", "generated", "wasInformedBy", "wasAssociatedWith"}
      [] type = "metric" -> {"wasGeneratedBy", "measures_entity"}
      [] OTHER -> {}

IsLocal(v) == v.is = "leaf" /\ v.it[1] = "_:"

LocalsIn(v) ==
    IF IsLocal(v) THEN {v.it}
    ELSE IF v.is = "list" THEN {v.it[i].it : i \in {j \in DOMAIN v.it : IsLocal(v.it[j])}} ELSE {}

LocalRefs(data, keys) == UNION {LocalsIn(data[k]) : k \in keys \cap DOMAIN data}

SubstituteRefs(data, keys, id) ==
    LET For(v) == IF IsLocal(v) THEN Leaf(id[v.it]) ELSE v
    IN  [k \in DOMAIN data |->
            IF k \notin keys THEN data[k]
            ELSE IF data[k].is = "list" THEN Items([i \in DOMAIN data[k].it |-> For(data[k].it[i])])
            ELSE For(data[k])]

WithId(data, id) == [k \in DOMAIN data \cup {"id"} |-> IF k = "id" THEN Leaf(id) ELSE data[k]]

Signed(data, credential) ==
    [k \in DOMAIN data \cup {"attester_id"} |-> IF k = "attester_id" THEN Leaf(<<"credential", credential>>) ELSE data[k]]

(* Those whose ids depend only on ids that are known, round after round: what a
   reference leads back to is never known. *)
ResolveEntries(submission, credential) ==
    LET IdsOf(done) ==
            [l \in UNION {submission[i].local : i \in DOMAIN done} |->
                LET i == CHOOSE i \in DOMAIN done : submission[i].local = {l} IN Given(Str(done[i], "id"), l)]
        Entry(i, id) ==
            LET data == SubstituteRefs(submission[i].data, HashRefs(submission[i].type), id)
            IN  WithId(data, AssignId(Signed(data, credential), submission[i].type, credential))
        round[n \in 0..Len(submission)] ==
            IF n = 0 THEN [i \in {} |-> {}]
            ELSE LET done == round[n - 1]
                     id == IdsOf(done)
                 IN  [i \in {j \in DOMAIN submission :
                                LocalRefs(submission[j].data, HashRefs(submission[j].type)) \subseteq DOMAIN id}
                        |-> Entry(i, id)]
    IN  [done |-> round[Len(submission)], id |-> IdsOf(round[Len(submission)])]

NoContent == [k \in {} |-> Leaf(<<"null", 0>>)]

(* A record without content of its own would have the id of every such record;
   two that differ and share an id would become one. *)
ResolveLocalIds(submission, credential) ==
    LET resolved == ResolveEntries(submission, credential)
        data == resolved.done
        type(i) == submission[i].type
        refused ==
            \/ \E i, j \in DOMAIN submission : i # j /\ submission[i].local \cap submission[j].local # {}
            \/ DOMAIN data # DOMAIN submission
            \/ \E i \in DOMAIN data :
                  Str(data[i], "id") = {AssignId(Signed(NoContent, credential), type(i), credential)}
            \/ \E i, j \in DOMAIN data : Str(data[i], "id") = Str(data[j], "id") /\ data[i] # data[j]
            \/ \E i \in DOMAIN data : ~(LocalRefs(data[i], {"supersedes"}) \subseteq DOMAIN resolved.id)
    IN  IF refused THEN {}
        ELSE {[i \in DOMAIN submission |->
                 [type |-> type(i), data |-> SubstituteRefs(data[i], {"supersedes"}, resolved.id)]]}

-----------------------------------------------------------------------------
(* What is written: with GO the records and what became of the checkpoint, with
   RETURN only the latter. *)

(* A correction is marked on what qualifies or refutes, grounding on support. *)
Admitted(type, data) ==
    {k \in DOMAIN data :
        /\ type = "relation" /\ k = "correction" => Name(data, "relation") \in {{"qualify"}, {"refute"}}
        /\ type = "relation" /\ k = "grounding" => Name(data, "relation") = {"support"}}

Annotated(r, credential, run) ==
    LET kept == Admitted(r.type, r.data)
        status == IF r.type = "claim" /\ "content" \in DOMAIN r.data
                  THEN Str(r.data["content"].it, "claim_status") ELSE {}
    IN  [r EXCEPT !.data =
            [k \in kept \cup {"attester_id", "run_id"} \cup {s \in {"claim_status"} : status # {}} |->
                CASE k = "attester_id" -> Leaf(<<"credential", credential>>)
                  [] k = "run_id" -> Leaf(run)
                  [] k = "claim_status" /\ status # {} -> Leaf(Given(status, <<>>))
                  [] OTHER -> r.data[k]]]

Outcome(verdict, claims, credential, run, note) ==
    LET data == [k \in {"activity_type", "attester_id", "generated", "activity_content", "run_id"} |->
                    CASE k = "activity_type" -> Leaf(<<"name", verdict>>)
                      [] k = "attester_id" -> Leaf(<<"credential", credential>>)
                      [] k = "generated" -> Items(claims)
                      [] k = "run_id" -> Leaf(run)
                      [] OTHER -> Object([c \in {"track_note", "cycle_context"} |->
                            IF c = "track_note" THEN Leaf(note) ELSE Object([x \in {"run_id"} |-> Leaf(run)])])]
    IN  [type |-> "activity", data |-> WithId(data, AssignId(data, "activity", credential))]

(* One whose fields still hold a local name is refused: {}. *)
WriteGraphRecords(records, go, credential, run, note) ==
    LET annotated == [i \in DOMAIN records |-> Annotated(records[i], credential, run)]
        claims == SelectSeq(annotated, LAMBDA r : r.type = "claim")
        written == IF go
                   THEN Append(annotated,
                               Outcome("go", [i \in DOMAIN claims |-> claims[i].data["id"]], credential, run, note))
                   ELSE <<Outcome("return", <<>>, credential, run, note)>>
    IN  IF \E i \in DOMAIN written : \E k \in DOMAIN written[i].data : IsLocal(written[i].data[k])
        THEN {} ELSE {written}

(* The supersedes of a record that is published pass without the guards. *)
ApplySupersedeGuards(old, new, links) ==
    LET reached[n \in Nat] ==
            IF n = 0 THEN {old.id}
            ELSE reached[n-1] \cup {l[2] : l \in {x \in links : x[1] \in reached[n-1]}}
    IN  {v \in {"set-once", "cycle", "ownership", "type"} :
            CASE v = "set-once" -> \E l \in links : l[2] = old.id
              [] v = "cycle" -> new.id \in reached[Cardinality(links)]
              [] v = "ownership" -> old.owner # new.owner
              [] OTHER -> old.type # new.type}

Tier(type) == CASE type \in {"claim", "metric"} -> 0 [] type = "bundle" -> 2 [] type = "activity" -> 3 [] OTHER -> 1

InTiers(written) ==
    FlattenSeq([t \in 1..4 |-> SelectSeq(written, LAMBDA w : Tier(w.type) = t - 1)])

RelationLabel(relation, class) == <<IF class = "engineering" THEN "ENG" ELSE "", relation>>

Exists(g, type, id) == \E i \in DOMAIN g.nodes : g.nodes[i].type = type /\ g.nodes[i].id = id

(* A relation is an edge as well, when both its claims are there; one that reads
   the same both ways goes out from the smaller id. *)
CompanionEdge(g, id, data) ==
    LET source == Str(data, "source_claim_id")
        target == Str(data, "target_claim_id")
        symmetric == Name(data, "relation") = {"same_as"}
    IN  {[label |-> RelationLabel(Given(Name(data, "relation"), "related"), ClassOf(data)), by |-> id,
          from |-> IF symmetric /\ Before(e[2], e[1]) THEN e[2] ELSE e[1],
          to |-> IF symmetric /\ Before(e[2], e[1]) THEN e[1] ELSE e[2]] :
            e \in {x \in source \X target : Exists(g, "claim", x[1]) /\ Exists(g, "claim", x[2])}}

MemberEdges(g, id, data) ==
    IF "members" \notin DOMAIN data THEN {}
    ELSE {[label |-> <<"", "HAS_MEMBER">>, by |-> id, from |-> id, to |-> m] :
            m \in {m \in {data["members"].it[i].it : i \in DOMAIN data["members"].it} : Exists(g, "claim", m)}}

(* MERGE: what has been stored under this id is replaced. *)
PutRecord(g, w) ==
    LET id == Given(Str(w.data, "id"), <<>>)
        node == [type |-> w.type, id |-> id, data |-> w.data]
        at == {i \in DOMAIN g.nodes : g.nodes[i].type = w.type /\ g.nodes[i].id = id}
        put == [g EXCEPT !.nodes = IF at = {} THEN Append(@, node) ELSE [@ EXCEPT ![CHOOSE i \in at : TRUE] = node]]
    IN  [put EXCEPT !.edges = @ \cup
            CASE w.type = "relation" -> CompanionEdge(g, id, w.data)
              [] w.type = "bundle" -> MemberEdges(g, id, w.data)
              [] OTHER -> {}]

(* The records are written one by one; the store may fail after any of them. *)
CommitBundle(g, written, writes) ==
    FoldLeft(LAMBDA s, w : PutRecord(s, w), g, SubSeq(InTiers(written), 1, writes))

(* The point of a claim: made of it and of the relations to claims that were
   committed with it.  The second space is a hedge: its failure leaves the slot empty. *)
EdgesFor(id, written, class) ==
    LET here == UNION {Str(w.data, "id") : w \in {x \in Range(written) : x.type = "claim"}}
        ends(w) == Str(w.data, "source_claim_id") \cup Str(w.data, "target_claim_id")
    IN  {w \in Range(written) : /\ w.type = "relation" /\ ClassOf(w.data) = class
                                /\ id \in ends(w) /\ \E o \in here : ends(w) = {id, o}}

VectorizeAndStore(g, written, alternate) ==
    LET new == {w \in Range(written) : w.type = "claim"}
        ids == UNION {Str(w.data, "id") : w \in new}
    IN  [g EXCEPT !.points = [id \in DOMAIN @ \cup ids |->
            IF id \notin ids THEN @[id]
            ELSE [spaces |-> {"gemini", "gemini_eng"} \cup (IF alternate THEN {"specter2"} ELSE {}),
                  edges |-> {Str(w.data, "id") : w \in EdgesFor(id, written, "epistemic")},
                  connected |-> EdgesFor(id, written, "engineering") # {},
                  status |-> UNION {Str(w.data, "claim_status") : w \in {x \in new : Str(x.data, "id") = {id}}}]]]

-----------------------------------------------------------------------------
(* What a reader is shown of a node: nothing that names a node of the process
   (a run, an intent, a decision, a journal), and no note on the track. *)

ScientificLabels == <<"claim", "relation", "activity", "metric", "bundle">>

IsProcessId(id) == id[1] \in {"run", "intent", "decision", "journal"}

(* "parent_run_id" is there for every key that ends in _run_id. *)
Kept(key, v) ==
    /\ key \notin {"track_note", "run_id", "intent_id", "decision_id", "stage_id", "parent_run_id"}
    /\ v.is = "leaf" => ~IsProcessId(v.it)

RECURSIVE ProjectValue(_)
ProjectValue(v) ==
    CASE v.is = "list" ->
            LET kept == SelectSeq(v.it, LAMBDA x : Kept("", x))
            IN  Items([i \in DOMAIN kept |-> ProjectValue(kept[i])])
      [] v.is = "object" ->
            Object([k \in {k \in DOMAIN v.it : Kept(k, v.it[k])} |-> ProjectValue(v.it[k])])
      [] OTHER -> v

ProjectScientific(node) ==
    IF node.type \notin Range(ScientificLabels) THEN {}
    ELSE {[type |-> node.type, data |-> ProjectValue(Object(node.data)).it,
           corrected_by |-> <<>>, superseded_by |-> <<>>, group |-> {}, matched |-> {}]}

Projected(nodes) == LET seen == SelectSeq(nodes, LAMBDA n : ProjectScientific(n) # {})
                    IN  [i \in DOMAIN seen |-> Given(ProjectScientific(seen[i]), 0)]

With(g, type) == SelectSeq(g.nodes, LAMBDA n : n.type = type)

Limited(s, n) == SubSeq(s, 1, IF Len(s) < n THEN Len(s) ELSE n)

-----------------------------------------------------------------------------
(* Which claims supersede this one: told by the newer claims. *)

RECURSIVE SaysSupersedes(_, _)
SaysSupersedes(v, id) ==
    CASE v.is = "leaf" -> FALSE
      [] v.is = "list" -> \E i \in DOMAIN v.it : SaysSupersedes(v.it[i], id)
      [] OTHER -> \E k \in DOMAIN v.it : SaysSupersedes(v.it[k], id) \/ (k = "supersedes" /\ v.it[k] = Leaf(id))

DeriveSupersessors(g, id) ==
    LET newer == SelectSeq(With(g, "claim"), LAMBDA n : n.id # id /\ SaysSupersedes(Object(n.data), id))
    IN  [i \in DOMAIN newer |-> newer[i].id]

(* The head of the chain; of a fork, the heads of its branches, each walked with
   hops of its own.  Where a cycle or the number of hops ends the walk, it says
   so - but not when this happens on a branch. *)
RECURSIVE Walk(_, _, _, _)
Walk(g, at, seen, hop) ==
    LET newer == DeriveSupersessors(g, at)
        followed == Cardinality(seen) > 1
        stopped == [heads |-> <<at>>, followed |-> followed, degraded |-> TRUE]
        branches == [i \in DOMAIN newer |->
                        IF newer[i] \in seen THEN <<>> ELSE Walk(g, newer[i], {newer[i]}, 0).heads]
        heads == FoldLeft(LAMBDA hs, h : IF h \in Range(hs) THEN hs ELSE Append(hs, h), <<>>, FlattenSeq(branches))
    IN  IF hop = MaxChainHops THEN stopped
        ELSE IF newer = <<>> THEN [stopped EXCEPT !.degraded = FALSE]
        ELSE IF Len(newer) > 1
             THEN [heads |-> IF heads = <<>> THEN <<at>> ELSE heads, followed |-> TRUE, degraded |-> FALSE]
        ELSE IF newer[1] \in seen THEN stopped
        ELSE Walk(g, newer[1], seen \cup {newer[1]}, hop + 1)

ResolveSupersedeHead(g, id) == Walk(g, id, {id}, 0)

IdOf(rec) == Str(rec.data, "id")

StampSupersede(g, recs) ==
    [i \in DOMAIN recs |->
        IF IdOf(recs[i]) = {} THEN recs[i]
        ELSE [recs[i] EXCEPT !.superseded_by = DeriveSupersessors(g, Given(IdOf(recs[i]), <<>>))]]

NotSuperseded(rec) == rec.superseded_by = <<>>

Latest(recs, wanted) == IF wanted THEN SelectSeq(recs, NotSuperseded) ELSE recs

(* Who corrects this claim: among the first relations that mention it. *)
LoadCorrectedBy(g, id) ==
    LET read == Limited(SelectSeq(With(g, "relation"), LAMBDA n : ContainsText(n, id)), RelationReadCap)
        by == SelectSeq(read, LAMBDA n :
                /\ "correction" \in DOMAIN n.data /\ n.data["correction"] = Leaf(<<"flag", TRUE>>)
                /\ Str(n.data, "target_claim_id") = {id}
                /\ \E s \in Str(n.data, "source_claim_id") : ~IsProcessId(s))
    IN  [i \in DOMAIN by |-> Given(Str(by[i].data, "source_claim_id"), <<>>)]

GetScientific(g, id) ==
    LET found == FlattenSeq([l \in DOMAIN ScientificLabels |->
                    SelectSeq(With(g, ScientificLabels[l]), LAMBDA n : n.id = id)])
    IN  IF IsProcessId(id) \/ found = <<>> THEN {}
        ELSE IF found[1].type # "claim" THEN ProjectScientific(found[1])
        ELSE {[r EXCEPT !.corrected_by = LoadCorrectedBy(g, id), !.superseded_by = DeriveSupersessors(g, id)] :
                r \in ProjectScientific(found[1])}

ClampLimit(n) == LET m == Given(n, 20) IN IF m < 1 THEN 1 ELSE IF m > 100 THEN 100 ELSE m

(* A filter has class, subtype, direction (sets of at most one), latest and
   collapse.  The store looks at the class, all else is looked at afterwards. *)
OfClass(data, filter) == Given(filter.class, "epistemic") \in {"all", ClassOf(data)}

SearchScientific(g, q, kinds, limit, filter) ==
    LET lim == ClampLimit(limit)
        labels == SelectSeq(IF kinds = <<>> THEN ScientificLabels ELSE kinds, LAMBDA k : k \in Range(ScientificLabels))
        Rows(l) ==
            SelectSeq(Limited(SelectSeq(With(g, l), LAMBDA n :
                                  ContainsText(n, q) /\ (l = "relation" => OfClass(n.data, filter))), lim),
                      LAMBDA n : l = "relation" => filter.subtype \in {{}, Name(n.data, "relation")})
        results == FoldLeft(LAMBDA rs, l : IF Len(rs) >= lim THEN rs ELSE rs \o Projected(Rows(l)), <<>>, labels)
    IN  Limited(Latest(StampSupersede(g, results), filter.latest), lim)

-----------------------------------------------------------------------------
(* Claims that are the same: what SAME_AS joins, either way round. *)

SameAsEdges(g) == {e \in g.edges : e.label = <<"", "same_as">> /\ e.from # e.to}

RootOf(g, id) ==
    LET pairs == SameAsEdges(g)
        joined[n \in Nat] ==
            IF n = 0 THEN {id}
            ELSE joined[n-1] \cup {e.to : e \in {x \in pairs : x.from \in joined[n-1]}}
                            \cup {e.from : e \in {x \in pairs : x.to \in joined[n-1]}}
    IN  IF \E e \in pairs : id \in {e.from, e.to} THEN joined[Cardinality(pairs)] ELSE {}

Attested(rec) == Given(Str(rec.data, "attested_at"), <<"text", 0>>)

(* The earliest of the cluster that can be read, of equals the smaller id. *)
EarliestOf(g, members) ==
    LET read == {m \in members : GetScientific(g, m) # {}}
        at(m) == Attested(Given(GetScientific(g, m), 0))
    IN  {m \in read : \A o \in read \ {m} : Before(at(m), at(o)) \/ (at(m) = at(o) /\ Before(m, o))}

(* The first of each cluster stands for all of it; `face` makes what is shown. *)
OncePerCluster(g, ids) ==
    SelectSeq([i \in DOMAIN ids |-> i], LAMBDA i :
        RootOf(g, ids[i]) = {} \/ \A j \in 1..(i-1) : RootOf(g, ids[j]) # RootOf(g, ids[i]))

CollapseSameAsClaims(g, recs) ==
    LET ids == [i \in DOMAIN recs |-> Given(IdOf(recs[i]), <<>>)]
        once == OncePerCluster(g, ids)
        Face(i) ==
            LET root == RootOf(g, ids[i])
                first == UNION {GetScientific(g, m) : m \in EarliestOf(g, root)}
            IN  IF root = {} THEN [recs[i] EXCEPT !.matched = {ids[i]}]
                ELSE [Given(first, recs[i]) EXCEPT !.group = root, !.matched = Range(ids) \cap root]
    IN  [k \in DOMAIN once |-> Face(once[k])]

-----------------------------------------------------------------------------
(* What touches a claim: its relations and what is at their other ends. *)

FindScientific(g, from, filter) ==
    LET found == SelectSeq(With(g, "relation"), LAMBDA n : ContainsText(n, from) /\ OfClass(n.data, filter))
        ends(n) == [out |-> Str(n.data, "source_claim_id") = {from}, in |-> Str(n.data, "target_claim_id") = {from}]
        mine == SelectSeq(Limited(found, RelationReadCap), LAMBDA n :
                    /\ ends(n).out \/ ends(n).in
                    /\ "out" \in filter.direction => ends(n).out
                    /\ "in" \in filter.direction => ends(n).in
                    /\ filter.subtype \in {{}, Name(n.data, "relation")})
        others == [i \in DOMAIN mine |->
                    {o \in Str(mine[i].data, IF ends(mine[i]).out THEN "target_claim_id" ELSE "source_claim_id") :
                        ~IsProcessId(o)}]
        met == FoldLeft(LAMBDA s, o : IF o \subseteq Range(s) THEN s ELSE s \o SetToSeq(o), <<>>, others)
        read == SelectSeq(met, LAMBDA id : GetScientific(g, id) # {})
        connected == Latest(StampSupersede(g, [i \in DOMAIN read |-> Given(GetScientific(g, read[i]), 0)]), filter.latest)
    IN  IF IsProcessId(from) THEN [relations |-> <<>>, connected |-> <<>>, truncated |-> FALSE]
        ELSE [relations |-> Latest(StampSupersede(g, Projected(mine)), filter.latest),
              connected |-> IF filter.collapse THEN CollapseSameAsClaims(g, connected) ELSE connected,
              truncated |-> Len(found) > RelationReadCap]

(* Along the edges of one class, up to so many hops, the start left out: the
   nearest first.  A cycle back to the start is told of for engineering. *)
EdgeLabels(class) == {RelationLabel(r, class) : r \in IF class = "engineering" THEN Engineering ELSE Epistemic}

TraverseScientific(g, from, opts) ==
    LET class == Given(opts.class, "epistemic")
        hops == LET h == Given(opts.hops, 3) IN IF h < 1 THEN 1 ELSE IF h > 6 THEN 6 ELSE h
        labels == EdgeLabels(class) \cap
                  (IF opts.subtype = {} THEN EdgeLabels(class) ELSE {RelationLabel(s, class) : s \in opts.subtype})
        edges == {e \in g.edges : e.label \in labels}
        Step(S) == IF "in" \in opts.direction THEN {e.from : e \in {x \in edges : x.to \in S}}
                                               ELSE {e.to : e \in {x \in edges : x.from \in S}}
        at[n \in 0..6] == IF n = 0 THEN {from} ELSE Step(at[n-1])
        reached == {<<id, h>> \in (UNION {at[h] : h \in 1..hops} \ {from}) \X (1..hops) :
                        id \in at[h] /\ \A k \in 1..(h-1) : id \notin at[k]}
        ordered == SetToSortSeq(reached, LAMBDA x, y : x[2] < y[2] \/ (x[2] = y[2] /\ Before(x[1], y[1])))
    IN  IF IsProcessId(from) \/ ~Exists(g, "claim", from) THEN [reached |-> <<>>, cycle |-> FALSE, truncated |-> FALSE]
        ELSE [reached |-> Limited(ordered, TraverseLimit),
              cycle |-> class = "engineering" /\ \E h \in 1..hops : from \in at[h],
              truncated |-> Len(ordered) >= TraverseLimit]

-----------------------------------------------------------------------------
(* The nearest claims in a space: of all that have a vector there. *)

SearchClaims(g, space, to, passing, limit) ==
    LET there == {id \in passing : space \in g.points[id].spaces}
    IN  Limited(SetToSortSeq(there, LAMBDA x, y :
                    \/ Similarity(space, to, x) > Similarity(space, to, y)
                    \/ Similarity(space, to, x) = Similarity(space, to, y) /\ Before(x, y)), limit)

(* Near a text.  What has been superseded is dropped after the search; the
   best of each cluster is shown, and the earliest is named. *)
SearchClaimsSemantic(g, query, limit, opts) ==
    LET engineering == opts.scope = {"engineering"}
        passing == {id \in DOMAIN g.points : /\ engineering => g.points[id].connected
                                             /\ opts.status \in {{}, g.points[id].status}}
        hits == SelectSeq(SearchClaims(g, IF engineering THEN "gemini_eng" ELSE "gemini", query, passing, ClampLimit(limit)),
                          LAMBDA id : opts.latest => DeriveSupersessors(g, id) = <<>>)
        once == IF opts.collapse THEN OncePerCluster(g, hits) ELSE [i \in DOMAIN hits |-> i]
    IN  [k \in DOMAIN once |->
            LET id == hits[once[k]]
                root == IF opts.collapse THEN RootOf(g, id) ELSE {}
            IN  [id |-> id, group |-> root, matched |-> Range(hits) \cap root,
                 canonical |-> IF root = {} THEN {id} ELSE EarliestOf(g, root)]]

ClampAssociationFloor(min) == LET m == Given(min, Floor) IN IF m < Floor THEN Floor ELSE m

ClassifyClaimOwnership(caller, owner) ==
    IF caller = {} \/ owner = {} THEN "unknown" ELSE IF caller = owner THEN "own" ELSE "foreign"

(* The owner is looked up by the run that the record names as it is shown. *)
RunOwnerHash(g, rec) == UNION {g.owners[r] : r \in Str(rec.data, "run_id") \cap DOMAIN g.owners}

RelationCount(g, id) == Cardinality({e \in g.edges : id \in {e.from, e.to}})

(* The spaces that are asked, and the score of a claim in each: what the search
   returned, or else what is computed when the vectors can be fetched. *)
Spaces(vector) ==
    CASE vector = {"qwen"} -> {"specter2"}
      [] vector = {"both"} -> {"gemini", "specter2"}
      [] OTHER -> {"gemini"}

FindRelatedClaims(g, claim, limit, opts) ==
    LET lim == ClampLimit(limit)
        wide == IF lim * 3 < Widest THEN lim * 3 ELSE Widest
        floor == ClampAssociationFloor(opts.min)
        queried == Spaces(opts.vector) \cap g.points[claim].spaces
        hits == [s \in queried |-> SelectSeq(SearchClaims(g, s, claim, DOMAIN g.points, wide), LAMBDA id : id # claim)]
        found == UNION {Range(hits[s]) : s \in queried}
        Score(id, s) ==
            IF s \in queried /\ (id \in Range(hits[s]) \/ (opts.fetched /\ s \in g.points[id].spaces))
            THEN {Similarity(s, claim, id)} ELSE {}
        Best(id) == CHOOSE x \in UNION {Score(id, s) : s \in queried} :
                        \A y \in UNION {Score(id, s) : s \in queried} : x >= y
        Above(id, s) == \E x \in Score(id, s) : x >= floor
        kept == {id \in found : /\ \E s \in queried : Above(id, s)
                                /\ opts.latest => DeriveSupersessors(g, id) = <<>>}
        ranked == Limited(SetToSortSeq(kept, LAMBDA x, y : Best(x) > Best(y) \/ (Best(x) = Best(y) /\ Before(x, y))), lim)
        anchors == IF opts.exclude THEN RootOf(g, claim) ELSE {}
        others == SelectSeq(ranked, LAMBDA id : id \notin anchors)
        once == IF opts.collapse THEN OncePerCluster(g, others) ELSE [i \in DOMAIN others |-> i]
        Canonical(id) == LET root == IF opts.collapse THEN RootOf(g, id) ELSE {}
                         IN  IF root = {} THEN id ELSE CHOOSE m \in root : \A o \in root \ {m} : Before(m, o)
        Hit(id) ==
            LET rec == GetScientific(g, id)
                link == ResolveSupersedeHead(g, Canonical(id))
            IN  [id |-> id,
                 gemini |-> Score(id, "gemini"), qwen |-> Score(id, "specter2"),
                 agreement |-> IF queried # {"gemini", "specter2"} THEN "not_measured"
                               ELSE IF \A s \in queried : Above(id, s) THEN "both_spaces" ELSE "single_space",
                 ownership |-> ClassifyClaimOwnership(opts.caller, UNION {RunOwnerHash(g, r) : r \in rec}),
                 relations |-> RelationCount(g, id), canonical |-> Canonical(id), link |-> link]
    IN  IF claim \notin DOMAIN g.points THEN {}
        ELSE {[k \in DOMAIN once |-> Hit(others[once[k]])]}

(* The caller is whom the token in authInfo names. *)
OwnerHashFromToken(token) == IF token = {} THEN {"anonymous"} ELSE token

FindRelatedClaimsTool(g, claim, limit, opts, extra) ==
    FindRelatedClaims(g, claim, limit, [opts EXCEPT !.caller = OwnerHashFromToken(extra.authInfo)])
=============================================================================
