------------------------------ MODULE MCReads ------------------------------
(***************************************************************************)
(* The graph of the claims, checked over all small submissions and graphs.  *)
(* Reads stop at two relations, walks at three hops or three claims.        *)
(***************************************************************************)
EXTENDS Integers, SequencesExt

N(id) == id[2]

Number(data, key) ==
    IF key \notin DOMAIN data THEN 0
    ELSE IF data[key].is # "leaf" THEN 0
    ELSE IF data[key].it[1] = "claim" THEN data[key].it[2] ELSE 0

Order == <<"support", "refute", "qualify", "same_as", "depends_on">>

Derived(data, type, credential) ==
    CASE type = "claim" -> <<"claim", IF "content" \in DOMAIN data THEN data["content"].it["text"].it[2] ELSE 0>>
      [] type = "relation" ->
            <<"relation", 100 * Number(data, "source_claim_id") + 10 * Number(data, "target_claim_id")
                          + (IF "relation" \in DOMAIN data
                             THEN CHOOSE i \in 1..5 : Order[i] = data["relation"].it[2] ELSE 0)>>
      [] OTHER -> <<type, Cardinality(DOMAIN data)>>

Earlier(x, y) == x[2] < y[2]

(* How near two claims are: 2 and 3 in one space only, 1 and 4 less so in the
   second, 4 to all others not at all. *)
Near(space, x, y) ==
    LET pair == {x[2], y[2]}
    IN  CASE x = y -> 100
          [] pair = {1, 4} -> IF space = "specter2" THEN 62 ELSE 80
          [] pair = {2, 3} -> IF space = "specter2" THEN 30 ELSE 65
          [] pair \in {{1, 2}, {1, 3}} -> 61 + x[2] + y[2]
          [] OTHER -> 50

G == INSTANCE ClaimGraph WITH
        RelationReadCap <- 2, TraverseLimit <- 3, MaxChainHops <- 3, Widest <- 4, Floor <- 62,
        AssignId <- Derived, Before <- Earlier, Similarity <- Near

Id(n) == <<"claim", n>>
Text(n) == G!Leaf(<<"text", n>>)
Word(w) == G!Leaf(<<"name", w>>)
Run(n) == <<"run", n>>

Content(n) ==
    G!Object([k \in {"text", "modality", "claim_type", "claim_status", "claim_strength", "extraction_fidelity"} |->
        CASE k = "text" -> Text(n)
          [] k \in {"claim_strength", "extraction_fidelity"} -> G!Leaf(<<"number", 1>>)
          [] OTHER -> Word("any")])

(* A claim with this text, attested at this time, perhaps in place of another. *)
Claim(n, time, old) ==
    [k \in {"content", "evidence", "attested_at"} \cup {s \in {"supersedes"} : old # {}} |->
        CASE k = "content" -> Content(n)
          [] k = "evidence" -> G!Items(<<>>)
          [] k = "attested_at" -> Text(time)
          [] OTHER -> G!Leaf(CHOOSE o \in old : TRUE)]

Relation(from, to, relation, class) ==
    [k \in {"source_claim_id", "target_claim_id", "relation", "relation_class", "direction", "citation_context"} |->
        CASE k = "source_claim_id" -> G!Leaf(from)
          [] k = "target_claim_id" -> G!Leaf(to)
          [] k = "relation" -> Word(relation)
          [] k = "relation_class" -> Word(class)
          [] OTHER -> Text(1)]

Empty == [nodes |-> <<>>, edges |-> {}, points |-> [id \in {} |-> {}],
          owners |-> (Run(1) :> {"ann"}) @@ (Run(2) :> {"bob"})]

Records(records) ==
    [i \in DOMAIN records |->
        LET type == records[i][1]
            data == records[i][2]
        IN  [type |-> type, data |-> G!WithId(data, Derived(data, type, "ann"))]]

(* What a run has published of these records, all of them or the first writes. *)
Staged(records, run) == G!Given(G!WriteGraphRecords(records, TRUE, "ann", run, <<"note", 1>>), <<>>)

Published(g, records, run) ==
    LET w == Staged(records, run)
    IN  G!VectorizeAndStore(G!CommitBundle(g, w, Len(w)), w, TRUE)

NodesOf(g) == Range(g.nodes)
Science(g) == {n \in NodesOf(g) : n.type # "activity"}
Ids(recs) == {G!Given(G!IdOf(recs[i]), <<>>) : i \in DOMAIN recs}

-----------------------------------------------------------------------------
(* Submissions: two claims, what joins them, and a claim in place of one. *)
L(n) == <<"_:", n>>
Entry(local, type, data) == [local |-> local, type |-> type, data |-> data]

Parts == <<
    Entry({L(1)}, "claim", Claim(1, 1, {})),
    Entry({L(2)}, "claim", Claim(2, 2, {L(1)})),
    Entry({}, "relation", Relation(L(1), L(2), "support", "epistemic")),
    Entry({}, "relation", Relation(L(2), L(1), "same_as", "epistemic")),
    Entry({L(3)}, "metric", [k \in {"metric_name", "metric_type", "measures_entity"} |->
                                IF k = "measures_entity" THEN G!Items(<<G!Leaf(L(1))>>) ELSE Text(1)])>>

Orders == {o \in [1..5 -> 1..5] : \A i, j \in 1..5 : i # j => o[i] # o[j]}

Submitted(o) == [i \in DOMAIN o |-> Parts[o[i]]]

Plain == G!Given(G!ResolveLocalIds(Parts, "ann"), <<>>)
Whole == LET w == Staged(Plain, Run(1)) IN G!CommitBundle(Empty, w, Len(w))

(* As well as a relation to a claim that nobody has handed in. *)
Loose == Staged(Plain \o Records(<< <<"relation", Relation(Id(1), Id(4), "support", "epistemic")>> >>), Run(1))

(* In whatever order the records are handed in, the ids are the same, no local
   name is left, and every relation becomes an edge. *)
ASSUME AnyOrderDoes ==
    \A o \in Orders :
        LET r == G!ResolveLocalIds(Submitted(o), "ann")
        IN  \E records \in r :
                LET g == G!CommitBundle(Empty, Staged(records, Run(1)), 6)
                IN  /\ Science(g) = Science(Whole) /\ g.edges = Whole.edges
                    /\ Cardinality(g.edges) = 2
                    /\ \A i \in 1..5, n \in 1..2 : ~G!Mentions(G!Object(records[i].data), L(n))

(* What is not all there is refused: a name nobody has, a name twice, records
   that would share an id, ids that depend on each other. *)
ASSUME LossIsRefused ==
    /\ \A i \in {1, 2} : G!ResolveLocalIds(RemoveAt(Parts, i), "ann") = {}
    /\ G!ResolveLocalIds(Append(Parts, Entry({L(1)}, "claim", Claim(4, 1, {}))), "ann") = {}
    /\ G!ResolveLocalIds(Append(Parts, Entry({}, "claim", Claim(1, 2, {}))), "ann") = {}
    /\ G!ResolveLocalIds(Append(Parts, Entry({}, "claim", Claim(1, 1, {}))), "ann") # {}
    /\ G!ResolveLocalIds(Append(Parts, Entry({}, "claim", [k \in {"evidence"} |-> G!Items(<<>>)])), "ann") = {}
    /\ G!ResolveLocalIds(<<Entry({L(1)}, "metric", [k \in {"measures_entity"} |-> G!Leaf(L(2))]),
                           Entry({L(2)}, "metric", [k \in {"wasGeneratedBy"} |-> G!Leaf(L(1))])>>, "ann") = {}

(* A commit that failed half way leaves no edge without its ends, and the same
   records handed in again make up for it. *)
ASSUME RetryHeals ==
    LET once == G!CommitBundle(Empty, Loose, 7)
    IN  \A k \in 0..7 :
            LET half == G!CommitBundle(Empty, Loose, k)
                again == G!CommitBundle(half, Loose, 7)
            IN  /\ NodesOf(again) = NodesOf(once) /\ again.edges = once.edges /\ Len(again.nodes) = Len(once.nodes)
                /\ \A e \in half.edges : G!Exists(half, "claim", e.from) /\ G!Exists(half, "claim", e.to)
                                         /\ G!Exists(half, "relation", e.by)

(* A relation whose shape is accepted is an edge that the traversal of its class
   walks, and that of the other class does not. *)
ASSUME AcceptedIsWalked ==
    \A relation \in G!Epistemic \cup G!Engineering \cup {"cites"}, class \in {"epistemic", "engineering", "other"} :
        LET data == Relation(Id(1), Id(2), relation, class)
            label == G!RelationLabel(relation, G!ClassOf(data))
        IN  G!ValidateRecordShape(data, "relation") = {} =>
                \A c \in {"epistemic", "engineering"} : (label \in G!EdgeLabels(c)) <=> (c = class)

(* Two claims that are the same are joined alike, whichever is named first. *)
ASSUME SameEitherWay ==
    LET Edges(a, b) == G!CompanionEdge(Whole, <<"relation", 1>>, Relation(a, b, "same_as", "epistemic"))
        Ends(a, b) == {<<e.from, e.to>> : e \in Edges(a, b)}
    IN  Ends(Id(1), Id(2)) = Ends(Id(2), Id(1)) /\ Ends(Id(1), Id(2)) # {}

(* A flat claim, a bundle without members and an activity of another kind are
   refused; the claims that the checks are made of are not. *)
ASSUME ShapedOnly ==
    /\ \A i \in {1, 2, 3, 4, 5} : G!ValidateRecordShape(Parts[i].data, Parts[i].type) = {}
    /\ "content" \in G!ValidateRecordShape(Content(1).it, "claim")
    /\ G!ValidateRecordShape([k \in {"bundle_type", "synthesis_narrative"} |->
            IF k = "bundle_type" THEN Word("narrative_synthesis") ELSE Text(1)], "bundle") = {"members"}
    /\ G!ValidateRecordShape([k \in {"activity_type"} |-> Word("checkpoint_go")], "activity") = {"activity_type"}

-----------------------------------------------------------------------------
(* Graphs: four claims, those that supersede others, relations, clusters. *)

(* Claim n is attested at time 5 - n, by a run of its own owner. *)
ClaimNode(n, old) == <<"claim", Claim(n, 5 - n, old)>>

(* Each claim may stand in place of one other. *)
Successions == {s \in [1..4 -> 0..4] : \A n \in 1..4 : s[n] # n}

Acyclic(s) ==
    LET back[k \in 0..4, n \in 0..4] == IF k = 0 \/ n = 0 THEN n ELSE back[k - 1, s[n]]
    IN  \A n \in 1..4 : back[4, n] = 0

Old(s, n) == IF s[n] = 0 THEN {} ELSE {Id(s[n])}

Succeeding(s) == Published(Empty, Records([n \in 1..4 |-> ClaimNode(n, Old(s, n))]), Run(1))

(* Those that stand, directly or not, in place of n, and n. *)
Newer(s, n) ==
    LET after[k \in 0..4] == IF k = 0 THEN {n} ELSE after[k-1] \cup {m \in 1..4 : s[m] \in after[k-1]}
    IN  after[4]

Tips(s, n) == {m \in Newer(s, n) : \A x \in 1..4 : s[x] # m}

Forked(s) == \E m, n \in 1..4 : m # n /\ s[m] = s[n] /\ s[m] # 0

Walkable == {s \in Successions : Acyclic(s) \/ ~Forked(s)}

Defaults == [vector |-> {}, latest |-> TRUE, exclude |-> TRUE, collapse |-> TRUE, min |-> {}, caller |-> {}, fetched |-> TRUE]

All == [class |-> {"all"}, subtype |-> {}, direction |-> {}, latest |-> FALSE, collapse |-> FALSE]

(* A walk ends at what nothing supersedes - of a fork, at every such record -
   or says that it was cut; in a cycle it says so. *)
ASSUME HeadsAreCurrent ==
    \A s \in Walkable :
        LET g == Succeeding(s)
        IN  \A n \in 1..4 :
              LET head == G!ResolveSupersedeHead(g, Id(n))
              IN  IF head.degraded THEN Cardinality(Newer(s, n)) > 3 \/ Tips(s, n) = {}
                  ELSE Range(head.heads) = {Id(m) : m \in Tips(s, n)} /\ head.followed = (Tips(s, n) # {n})

(* Asked for the latest, no read returns what has been superseded; and what it
   leaves out has been, unless the page was full before it was looked at. *)
ASSUME LatestIsCurrent ==
    \A s \in Walkable, lim \in {2, 4} :
        LET g == Succeeding(s)
            tips == {Id(n) : n \in {m \in 1..4 : \A x \in 1..4 : s[x] # m}}
            words == G!SearchScientific(g, <<"name", "any">>, <<"claim">>, {lim}, [All EXCEPT !.latest = TRUE])
            near == G!SearchClaimsSemantic(g, Id(1), {lim},
                        [scope |-> {}, status |-> {}, latest |-> TRUE, collapse |-> FALSE])
            nearest == {near[i].id : i \in DOMAIN near}
            related == G!FindRelatedClaims(g, Id(1), {lim}, Defaults)
        IN  /\ Ids(words) \subseteq tips /\ nearest \subseteq tips
            /\ lim = 4 => Ids(words) = tips /\ nearest = tips
            /\ \A r \in related : {r[i].id : i \in DOMAIN r} \subseteq tips

(* A claim is never without a way to what replaced it: the reads that show it
   name those that supersede it. *)
ASSUME ReplacedIsTold ==
    \A s \in Walkable, n \in 1..4 :
        LET g == Succeeding(s)
            told == {Id(m) : m \in {x \in 1..4 : s[x] = n}}
            rows == G!SearchScientific(g, <<"text", n>>, <<>>, {}, All)
        IN  /\ \A r \in G!GetScientific(g, Id(n)) : Range(r.superseded_by) = told
            /\ \A i \in DOMAIN rows : G!IdOf(rows[i]) = {Id(n)} => Range(rows[i].superseded_by) = told

-----------------------------------------------------------------------------
(* Relations between the claims: up to three of these. *)
Ties == {<<1, 2, "support", "epistemic">>, <<2, 1, "refute", "epistemic">>, <<1, 3, "qualify", "epistemic">>,
         <<2, 3, "depends_on", "engineering">>, <<3, 1, "depends_on", "engineering">>, <<1, 2, "depends_on", "engineering">>,
         <<3, 4, "support", "epistemic">>}

Correcting(d) == [k \in DOMAIN d \cup {"correction"} |-> IF k = "correction" THEN G!Leaf(<<"flag", TRUE>>) ELSE d[k]]

Tie(t) == <<"relation", Correcting(Relation(Id(t[1]), Id(t[2]), t[3], t[4]))>>

Claims4 == [n \in 1..4 |-> ClaimNode(n, {})]

Tied(ts) == Published(Empty, Records(Claims4 \o [i \in DOMAIN ts |-> Tie(ts[i])]), Run(1))

Nets == UNION {{SetToSeq(S)} : S \in {S \in SUBSET Ties : Cardinality(S) <= 3}}

Touching(ts, n, class, dir) ==
    {i \in DOMAIN ts : /\ (ts[i][1] = n /\ "in" \notin dir) \/ (ts[i][2] = n /\ "out" \notin dir)
                       /\ class \in {"all", ts[i][4]}}

(* What is found touches the claim, in this class and direction, and is all of
   it unless the answer says that it was cut; the claims at the other ends come
   with it. *)
ASSUME CutIsTold ==
    \A ts \in Nets, n \in {1, 3}, class \in {"all", "epistemic", "engineering"}, dir \in {{}, {"in"}, {"out"}} :
        LET g == Tied(ts)
            r == G!FindScientific(g, Id(n), [All EXCEPT !.class = {class}, !.direction = dir])
            tied == Records([i \in DOMAIN ts |-> Tie(ts[i])])
            all == {G!Given(G!IdOf(tied[i]), <<>>) : i \in Touching(ts, n, class, dir)}
            ends == {IF ts[i][1] = n THEN Id(ts[i][2]) ELSE Id(ts[i][1]) : i \in Touching(ts, n, class, dir)}
        IN  /\ Ids(r.relations) \subseteq all /\ Ids(r.connected) \subseteq ends
            /\ ~r.truncated => Ids(r.relations) = all /\ Ids(r.connected) = ends

(* Only what qualifies or refutes is a correction, and it is told of the claim
   it is aimed at. *)
ASSUME CorrectedByTarget ==
    \A ts \in Nets, n \in 1..4 :
        \A r \in G!GetScientific(Tied(ts), Id(n)) :
            LET by == {Id(ts[i][1]) : i \in {j \in DOMAIN ts : ts[j][2] = n /\ ts[j][3] \in {"refute", "qualify"}}}
            IN  /\ Range(r.corrected_by) \subseteq by
                /\ Cardinality({i \in DOMAIN ts : n \in {ts[i][1], ts[i][2]}}) <= 2 => Range(r.corrected_by) = by

(* Paths of one class, each step along an edge of it. *)
Paths(ts, from, class, dir, h) ==
    {p \in UNION {[0..k -> 1..4] : k \in 1..h} :
        /\ p[0] = from
        /\ \A i \in DOMAIN p \ {0} : \E t \in Range(ts) :
              t[4] = class /\ (IF dir = {"in"} THEN <<t[2], t[1]>> ELSE <<t[1], t[2]>>) = <<p[i-1], p[i]>>}

(* A walk reaches what a path of its class reaches, by the shortest, nearest
   first, and finds the cycle the claim is in. *)
ASSUME NearestFirst ==
    \A ts \in Nets, n \in {1, 3}, class \in {"epistemic", "engineering"}, dir \in {{}, {"in"}}, h \in {2, 3} :
        LET r == G!TraverseScientific(Tied(ts), Id(n), [class |-> {class}, subtype |-> {}, direction |-> dir, hops |-> {h}])
            paths == Paths(ts, n, class, dir, h)
            End(p) == p[Cardinality(DOMAIN p) - 1]
            Steps(p) == Cardinality(DOMAIN p) - 1
            lengths(m) == {Steps(p) : p \in {q \in paths : End(q) = m}}
        IN  /\ {r.reached[i][1][2] : i \in DOMAIN r.reached} = {End(p) : p \in paths} \ {n}
            /\ \A i \in DOMAIN r.reached : /\ r.reached[i][2] = Min(lengths(r.reached[i][1][2]))
                                            /\ \A j \in 1..i : r.reached[j][2] <= r.reached[i][2]
            /\ r.cycle <=> (class = "engineering" /\ \E p \in paths : End(p) = n)
            /\ (Len(r.reached) = 3) <=> r.truncated

-----------------------------------------------------------------------------
(* Claims that are the same. *)
Same(S) == LET ties == SetToSeq(S)
           IN  Published(Empty, Records(Claims4 \o
                  [i \in DOMAIN ties |->
                      <<"relation", Relation(Id(ties[i][1]), Id(ties[i][2]), "same_as", "epistemic")>>]), Run(1))

Pairs == {S \in SUBSET ({1, 2, 3, 4} \X {1, 2, 3, 4}) : Cardinality(S) <= 3 /\ \A p \in S : p[1] < p[2] \/ p = <<4, 2>>}

Cluster(S, n) ==
    LET c[k \in 0..4] == IF k = 0 THEN {n} ELSE c[k-1] \cup {m \in 1..4 : \E x \in c[k-1] : <<m, x>> \in S \/ <<x, m>> \in S}
    IN  c[4]

(* Each cluster is shown once, by its earliest claim where records are read and
   by its nearest in a search; every claim that was found is shown or is in the
   cluster of one that is. *)
ASSUME ClustersOnce ==
    \A S \in Pairs :
        LET g == Same(S)
            recs == [n \in 1..4 |-> G!Given(G!GetScientific(g, Id(n)), 0)]
            shown == G!CollapseSameAsClaims(g, recs)
            near == G!SearchClaimsSemantic(g, Id(2), {4},
                        [scope |-> {}, status |-> {}, latest |-> FALSE, collapse |-> TRUE])
            clusters == {Cluster(S, n) : n \in 1..4}
        IN  /\ Len(shown) = Cardinality(clusters) /\ Len(near) = Cardinality(clusters)
            /\ Ids(shown) = {Id(Max(c)) : c \in clusters}
            /\ UNION {shown[i].matched : i \in DOMAIN shown} = {Id(n) : n \in 1..4}
            /\ \A c \in clusters : \E i \in DOMAIN near :
                  /\ near[i].canonical = {Id(Max(c))}
                  /\ \A m \in c : Near("gemini", Id(2), near[i].id) >= Near("gemini", Id(2), Id(m))

(* Related claims: none is the claim itself under another id, none is below the
   floor in every space, all that is above it has its place, the nearest come
   first, and the spaces are said to agree, or not to, only when both were asked
   and it is so. *)
ASSUME RelatedIsHonest ==
    \A S \in Pairs, n \in {1, 2, 4}, vector \in {{}, {"qwen"}, {"both"}}, min \in {{}, {10}, {64}}, lim \in {1, 3} :
        LET floor == IF min = {64} THEN 64 ELSE 62
            ScoreOf(space, id) == Near(space, Id(n), id)
            asked == CASE vector = {"both"} -> {"gemini", "specter2"} [] vector = {"qwen"} -> {"specter2"} [] OTHER -> {"gemini"}
            Best(id) == Max({ScoreOf(s, id) : s \in asked})
        IN  \A r \in G!FindRelatedClaims(Same(S), Id(n), {lim}, [Defaults EXCEPT !.vector = vector, !.min = min]) :
              /\ Len(r) <= lim
              /\ lim = 3 => \A id \in {Id(m) : m \in 1..4 \ Cluster(S, n)} :
                    Best(id) >= floor => \E i \in DOMAIN r : r[i].id[2] \in Cluster(S, id[2])
              /\ \A i \in DOMAIN r :
                    /\ r[i].id \notin {Id(m) : m \in Cluster(S, n)} /\ Best(r[i].id) >= floor
                    /\ \A j \in 1..(i-1) : Best(r[j].id) >= Best(r[i].id) /\ Cluster(S, r[i].id[2]) # Cluster(S, r[j].id[2])
                    /\ r[i].agreement = IF Cardinality(asked) = 1 THEN "not_measured"
                                        ELSE IF \A s \in asked : ScoreOf(s, r[i].id) >= floor THEN "both_spaces"
                                        ELSE "single_space"

-----------------------------------------------------------------------------
(* A claim with all that must not be shown, in lists and in objects. *)
Trace(run) ==
    <<"claim", [k \in DOMAIN Claim(1, 1, {}) \cup {"run_id", "cycle_context", "used", "track_note"} |->
        CASE k = "run_id" -> G!Leaf(run)
          [] k = "used" -> G!Items(<<G!Leaf(run), G!Leaf(Id(2)), G!Object([x \in {"by", "parent_run_id"} |-> G!Leaf(run)])>>)
          [] k = "cycle_context" -> G!Object([x \in {"run_id", "stage_id", "cycle_type"} |->
                                        IF x = "cycle_type" THEN Text(3) ELSE G!Leaf(run)])
          [] k = "track_note" -> Text(9)
          [] OTHER -> Claim(1, 1, {})[k]]>>

Traced == Published(Empty, Records(<<Trace(Run(1)), ClaimNode(2, {})>>), Run(1))

(* Whatever is read, no node of the process is named, at any depth, and no note
   on the track is shown; what is science stays. *)
ASSUME NothingOfTheProcess ==
    LET shown == Range(G!SearchScientific(Traced, <<"text", 1>>, <<>>, {}, All)) \cup G!GetScientific(Traced, Id(1))
                 \cup Range(G!SearchScientific(Traced, <<"name", "go">>, <<>>, {}, All))
    IN  /\ Cardinality({r.type : r \in shown}) = 2
        /\ \A r \in shown : ~G!Mentions(G!Object(r.data), Run(1)) /\ ~G!Mentions(G!Object(r.data), <<"text", 9>>)
        /\ \A r \in G!GetScientific(Traced, Id(1)), v \in {Id(2), <<"text", 3>>} : G!Mentions(G!Object(r.data), v)
        /\ G!GetScientific(Traced, Run(1)) = {}

(* No claim is called foreign to the one whose run it is. *)
ASSUME OwnIsNotForeign ==
    \A run \in {Run(1), Run(2)}, caller \in {{"ann"}, {"bob"}} :
        LET g == Published(Empty, Records(Claims4), run)
        IN  \A r \in G!FindRelatedClaimsTool(g, Id(2), {4}, Defaults, [authInfo |-> {}, portalToken |-> caller]) :
                r # <<>> /\ (g.owners[run] = caller => \A i \in DOMAIN r : r[i].ownership # "foreign")

(* A claim found for what it is to engineering has such a relation. *)
ASSUME ConnectedIsTied ==
    \A ts \in Nets :
        LET g == Tied(ts)
            near == G!SearchClaimsSemantic(g, Id(2), {4},
                        [scope |-> {"engineering"}, status |-> {}, latest |-> FALSE, collapse |-> FALSE])
        IN  {near[i].id : i \in DOMAIN near} = UNION {{e.from, e.to} : e \in {x \in g.edges : x.label[1] = "ENG"}}

(* The guards of a supersede: never two in place of one record, never a cycle. *)
ASSUME GuardsKeepChains ==
    \A s \in Successions, old, new \in 1..4 :
        LET links == {<<Id(n), Id(s[n])>> : n \in {m \in 1..4 : s[m] # 0}}
            Rec(n) == [id |-> Id(n), owner |-> "ann", type |-> "claim"]
            after == [s EXCEPT ![new] = old]
        IN  (Acyclic(s) /\ ~Forked(s) /\ s[new] = 0 /\ G!ApplySupersedeGuards(Rec(old), Rec(new), links) = {})
                => Acyclic(after) /\ ~Forked(after)
=============================================================================
