--------------------------- MODULE MCInternalApi ---------------------------
(* InternalApi for TLC: a few documents, hits and reviews, and what must hold  *)
(* of the answers.                                                             *)
EXTENDS Integers, Sequences, FiniteSets, SequencesExt, TLC

P == INSTANCE InternalApi WITH
        Null <- "null", VectorWeight <- 6, Bm25Weight <- 4, PerDocument <- 1, Reranked <- 2,
        MaxLimit <- 3, DefaultLimit <- 2, Tick <- 2

Paper ==
    [id |-> 1, deleted |-> FALSE, status |-> "ready", license |-> "null", sources |-> {}, format |-> "pdf",
     raw |-> TRUE, oarx |-> <<"a", "b">>, concept |-> {}, version |-> 1, publisher |-> "ann",
     uploader |-> "null", user |-> "null", categories |-> {"cs"}, published |-> 1, updated |-> 1]

-----------------------------------------------------------------------------
Hits == {[chunk |-> c, doc |-> (c + 1) \div 2, score |-> v] : c \in 1..3, v \in {1, 2}}

Legs == {hs \in UNION {[1..n -> Hits] : n \in 0..2} : \A i, j \in DOMAIN hs : i # j => hs[i].chunk # hs[j].chunk}

Calls ==
    {[rerank |-> r, limit |-> n, categories |-> f[1], from |-> f[2], to |-> {}] :
        r \in BOOLEAN, n \in 1..2, f \in {<<{}, {}>>, <<{{"cs"}}, {}>>, <<{{}}, {}>>, <<{}, {2}>>}}

Libraries ==
    {{[Paper EXCEPT !.id = 1], [Paper EXCEPT !.id = 2, !.published = 2, !.categories = {"q"}]},
     {[Paper EXCEPT !.id = 1, !.deleted = TRUE], [Paper EXCEPT !.id = 2, !.published = 2]},
     {[Paper EXCEPT !.id = 1, !.published = 3]}}

Answers == {{}, {<<[index |-> 2, score |-> 9], [index |-> 1, score |-> 5]>>}}

Fits(answer, hits) == \A s \in answer : Len(hits) >= Len(s)

(* What is shown was found, is there, is asked for, comes in the order of its
   score - that of the reranker, when there is one - and no document fills it. *)
ASSUME SearchHonours ==
    \A vector, bm25 \in Legs, call \in Calls, docs \in Libraries, answer \in Answers :
        Fits(answer, P!MergeHybrid(vector, bm25)) =>
        LET page == P!SearchPage(vector, bm25, call, answer, docs)
            found == {vector[i].chunk : i \in DOMAIN vector} \cup {bm25[i].chunk : i \in DOMAIN bm25}
        IN  /\ Len(page) <= call.limit
            /\ \A i, j \in DOMAIN page : i < j => page[i].score >= page[j].score /\ page[i].doc # page[j].doc
            /\ \A i \in DOMAIN page :
                  /\ page[i].chunk \in found
                  /\ call.rerank => \A s \in answer : \E k \in DOMAIN s :
                        page[i].score = s[k].score /\ page[i].chunk = P!MergeHybrid(vector, bm25)[s[k].index].chunk
                  /\ \E d \in docs : /\ d.id = page[i].doc /\ ~d.deleted
                                     /\ \A cs \in call.categories : "cs" \in cs /\ "cs" \in d.categories
                                     /\ \A from \in call.from : d.published >= from
            /\ call.categories = {} /\ call.from = {} /\ found # {} /\ (call.rerank => answer = {})
               /\ (\A c \in found : \E d \in docs : d.id = (c + 1) \div 2 /\ ~d.deleted) => page # <<>>

(* Each is there once; one that both found is above what only one of them found
   and no more highly; and of two that only the vectors found the nearer is above. *)
ASSUME BothCount ==
    \A vector, bm25 \in Legs :
        LET merged == P!MergeHybrid(vector, bm25)
            Above(x, y) == \E a, b \in DOMAIN merged : a < b /\ merged[a].chunk = x.chunk /\ merged[b].chunk = y.chunk
            Both(x) == \E k \in DOMAIN bm25 : bm25[k].chunk = x.chunk
        IN  /\ Len(merged) = Cardinality({vector[i].chunk : i \in DOMAIN vector} \cup {bm25[i].chunk : i \in DOMAIN bm25})
            /\ \A i, j \in DOMAIN vector :
                  /\ vector[i].score >= vector[j].score /\ Both(vector[i]) /\ ~Both(vector[j]) => Above(vector[i], vector[j])
                  /\ vector[i].score > vector[j].score /\ ~Both(vector[i]) /\ ~Both(vector[j]) => Above(vector[i], vector[j])

-----------------------------------------------------------------------------
Sources == SUBSET {"pdf", "latex", "markdown"}

Disks == [{"pdf", "latex", "markdown", "eprint"} -> {"file", "no"}]
         \cup {[f \in {"pdf", "latex", "markdown", "eprint"} |-> IF f = "latex" THEN "dir" ELSE "no"]}

Papers == {[Paper EXCEPT !.sources = s, !.format = f, !.deleted = d] : s \in Sources, f \in {"pdf", "latex"}, d \in BOOLEAN}

(* A deleted document is answered like one that never was, however it is asked
   for. *)
ASSUME DeletedIsGone ==
    \A paper \in Papers, disk \in Disks, format \in {"pdf", "latex", "markdown", "x"} :
        paper.deleted =>
        /\ P!GetDocument({paper}, 1, {}) = P!GetDocument({}, 1, {})
        /\ P!ByOarxId({paper}, "long", paper.oarx) = {} /\ P!ByOarxId({paper}, "short", "a") = {}
        /\ P!GetPdf({paper}, 1, disk) = P!GetPdf({}, 1, disk)
        /\ P!Download({paper}, 1, format, disk) = P!Download({}, 1, format, disk)
        /\ P!SourceFileAnswer({paper}, 1, <<"f">>, disk, TRUE, "file") = P!SourceFileAnswer({}, 1, <<"f">>, disk, TRUE, "file")

(* A format whose path is known is among those named; it is handed over when the
   file is there, the two ways to a PDF agree, and what is handed over was named. *)
ASSUME NamedIsServed ==
    \A paper \in Papers, disk \in Disks, format \in {"pdf", "latex", "markdown"} :
        LET got == P!Download({paper}, 1, format, disk)
            named == P!GetDocument({paper}, 1, {}).what.formats
        IN  ~paper.deleted =>
            /\ paper.sources \subseteq named
            /\ format \in paper.sources /\ disk[format] # "no" => got.status = 200
            /\ format = "latex" /\ "latex" \in paper.sources /\ disk["eprint"] = "file" => got.what = "tar"
            /\ got.status = 200 => format \in paper.sources
            /\ format = "pdf" => got = P!GetPdf({paper}, 1, disk)

(* Only a file inside the archive is handed over; and the scratch directory goes,
   unless the client left before it was made or while tar was running. *)
ASSUME ScratchIsGone ==
    \A paper \in Papers, disk \in Disks, path \in {<<>>, <<"/", "f">>, <<"..", "f">>, <<"f">>}, unpacks \in BOOLEAN,
       file \in {"file", "dir", "outside", "no"}, gone \in {"before", "unpacking", "streaming", "stays"}, on \in BOOLEAN :
        LET answer == P!SourceFileAnswer({paper}, 1, path, disk, unpacks, file)
        IN  /\ answer.status = 200 => path = <<"f">> /\ file = "file" /\ unpacks /\ disk["eprint"] = "file"
            /\ P!ScratchLeft(answer, gone, on) => gone \in {"before", "unpacking"}

-----------------------------------------------------------------------------
Reviews ==
    {[document |-> 1, version |-> v, status |-> "complete", tier |-> t, verdict |-> "pass",
      firstReason |-> "r", upgrade |-> "no", aspects |-> "a"] : v \in 1..2, t \in {"basic", "full"}}

(* A review is shown to the one who published, and to whoever names no user; a
   basic one hides its aspects; the latest is the one of the highest version. *)
ASSUME ReviewForOwner ==
    \A rs \in SUBSET Reviews, user \in {"null", "ann", "bob"}, owner \in {"null", "ann"}, uploader \in {"null", "bob"}, v \in 0..2 :
        (\A r, q \in rs : r.version = q.version => r = q) =>
        LET paper == [Paper EXCEPT !.publisher = owner, !.uploader = uploader]
            got   == P!GetReview({paper}, rs, 1, user, v)
        IN  /\ got.status = 200 /\ user # "null" => (IF owner = "null" THEN uploader ELSE owner) \in {"null", user}
            /\ got.status = 403 => owner # "null" \/ uploader # "null"
            /\ \A fields \in got.what :
                  "aspects" \in fields => \E r \in rs : r.tier = "full" /\ (v = 0 \/ r.version = v)
            /\ v = 0 /\ got.status = 200 =>
                  got.what = P!GetReview({paper}, rs, 1, user, IF \E r \in rs : r.version = 2 THEN 2 ELSE 1).what
            /\ {P!MapReviewStatus(s) : s \in {"pending", "running", "complete", "failed"}} = {"pending", "complete", "failed"}

-----------------------------------------------------------------------------
Shelf == {ds \in SUBSET {[Paper EXCEPT !.id = n, !.updated = t, !.publisher = u] :
                            n \in 1..3, t \in 1..3, u \in {"ann", "bob"}} :
             /\ Cardinality(ds) <= 3 /\ \A a, b \in ds : a.id = b.id => a = b}

Pages(docs, limit) ==
    LET p[k \in 1..5] ==
            IF k = 1 THEN <<P!UserDocuments(docs, "ann", {}, {}, limit)>>
            ELSE LET q == p[k-1] IN
                 IF q[Len(q)].next = {} THEN q ELSE Append(q, P!UserDocuments(docs, "ann", {}, q[Len(q)].next, limit))
    IN p[5]

Told(docs) == \A d \in docs : d.updated % 2 = 0

(* Page after page no document is shown twice; and when every time is a whole one
   of the cursor's, all of the user's are shown. *)
ASSUME PagesTile ==
    \A docs \in Shelf, limit \in 1..2 :
        LET ps  == Pages(docs, limit)
            all == FlattenSeq([k \in DOMAIN ps |-> [i \in DOMAIN ps[k].docs |-> ps[k].docs[i].id]])
            own == {d.id : d \in {d \in docs : d.publisher = "ann"}}
        IN  /\ IsInjective(all) /\ ToSet(all) \subseteq own
            /\ Told(docs) => ToSet(all) = own

(* A next version made of the latest one is the latest of its concept. *)
ASSUME LatestFollows ==
    \A vs \in [1..2 -> 1..2], del \in [1..2 -> BOOLEAN], us \in [1..2 -> {"ann", "bob"}] :
        LET docs == {[Paper EXCEPT !.id = n, !.concept = {1}, !.version = vs[n], !.deleted = del[n], !.publisher = us[n]] : n \in 1..2}
            latest == P!ResolveConceptLatest(docs, 1, "ann")
        IN  /\ latest = {} <=> \A d \in docs : d.deleted \/ d.publisher # "ann"
            /\ \A d \in latest :
                  LET next == [Paper EXCEPT !.id = 9, !.concept = {1}, !.version = d.version + 1]
                  IN  P!ResolveConceptLatest(docs \cup {next}, 1, "ann") = {next}
=============================================================================
