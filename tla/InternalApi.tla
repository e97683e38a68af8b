---------------------------- MODULE InternalApi ----------------------------
(***************************************************************************)
(* What the Portal and the Console read through the internal API            *)
(* (internal-routes.ts, user-documents.ts, concept-latest.ts): the search,  *)
(* a document and its files, the reviews, and the lists of a user.          *)
(*                                                                          *)
(* A document is a record; sources is the set of formats for which a path   *)
(* is known, disk what is found at each path: "file", "dir" or "no".        *)
(***************************************************************************)
EXTENDS Integers, Sequences, FiniteSets, SequencesExt

CONSTANTS
    Null,
    VectorWeight, Bm25Weight,   \* VECTOR_WEIGHT and BM25_WEIGHT, in whole parts
    PerDocument,                \* diversify(hybrid, 2)
    Reranked,                   \* hybrid.slice(0, 15)
    MaxLimit, DefaultLimit,     \* of a page of a user's documents
    Tick                        \* of the database's clock in one of the cursor's

-----------------------------------------------------------------------------
(* Search.  A hit is [chunk, doc, vector, bm25]. *)

MergeHybrid(vector, bm25) ==
    LET extra == SelectSeq(bm25, LAMBDA b : \A i \in DOMAIN vector : vector[i].chunk # b.chunk)
        Of(hits, chunk) == FoldLeft(LAMBDA s, h : IF h.chunk = chunk THEN h.score ELSE s, 0, hits)
        both  == vector \o extra
        found == [i \in DOMAIN both |->
                    [chunk |-> both[i].chunk, doc |-> both[i].doc,
                     score |-> VectorWeight * Of(vector, both[i].chunk) + Bm25Weight * Of(bm25, both[i].chunk)]]
        order == SetToSortSeq(DOMAIN found, LAMBDA i, j :
                    found[i].score > found[j].score \/ (found[i].score = found[j].score /\ i < j))
    IN  [k \in DOMAIN order |-> found[order[k]]]

Diversify(hits, most) ==
    LET Seen(kept, h) == Len(SelectSeq(kept, LAMBDA k : k.doc = h.doc))
    IN  FoldLeft(LAMBDA kept, h : IF Seen(kept, h) >= most THEN kept ELSE Append(kept, h), <<>>, hits)

(* How many of each kind are asked for. *)
Candidates(call) ==
    CASE call.rerank -> IF 3 * call.limit > Reranked THEN 3 * call.limit ELSE Reranked
      [] ~call.rerank /\ (call.categories # {} \/ call.from # {} \/ call.to # {}) -> 3 * call.limit
      [] OTHER -> 2 * call.limit

(* categories, from and to: at most one each; a set of categories that is given
   and empty lets nothing pass. *)
Passes(doc, call) ==
    /\ ~doc.deleted
    /\ \A cs \in call.categories : doc.categories \cap cs # {}
    /\ \A d \in call.from : doc.published >= d
    /\ \A d \in call.to : doc.published <= d

(* Reranking takes the first few; when it fails, all stay as they were. *)
Rerank(hits, answer) ==
    IF answer = {} THEN hits
    ELSE LET scores == CHOOSE s \in answer : TRUE
         IN  [k \in DOMAIN scores |-> [hits[scores[k].index] EXCEPT !.score = scores[k].score]]

SearchPage(vector, bm25, call, answer, docs) ==
    LET merged == MergeHybrid(vector, bm25)
        ranked == IF call.rerank THEN Rerank(merged, answer) ELSE merged
        shown  == SelectSeq(Diversify(ranked, PerDocument),
                            LAMBDA h : \E d \in docs : d.id = h.doc /\ Passes(d, call))
    IN  SubSeq(shown, 1, IF Len(shown) < call.limit THEN Len(shown) ELSE call.limit)

-----------------------------------------------------------------------------
(* A document.  A deleted one is answered like one that never was. *)

CanServeFile(doc, open) == doc.license \in {Null, "NOASSERTION"} \/ doc.license \in open

GetAvailableFormats(doc) ==
    doc.sources \cup (IF doc.format \in {"latex", "markdown"} /\ doc.raw THEN {doc.format} ELSE {})

ById(docs, id) == {d \in docs : d.id = id /\ ~d.deleted}

(* By the long id, or by the beginning of it that older ids were. *)
ByOarxId(docs, kind, name) ==
    {d \in docs : ~d.deleted /\ d.status # "listed" /\ (IF kind = "long" THEN d.oarx = name ELSE d.oarx[1] = name)}

(* concept: at most one. *)
ConceptOf(doc) == IF doc.concept = {} THEN doc.id ELSE CHOOSE c \in doc.concept : TRUE

Detail(docs, doc) ==
    [id |-> doc.id, concept |-> ConceptOf(doc), formats |-> GetAvailableFormats(doc),
     versions |-> SetToSortSeq({d \in docs : d.concept = {ConceptOf(doc)}}, LAMBDA a, b : a.version < b.version)]

Served(what) == [status |-> 200, what |-> what]
NotFound     == [status |-> 404, what |-> "none"]
Invalid      == [status |-> 400, what |-> "none"]

GetDocument(docs, id, open) ==
    IF ById(docs, id) = {} THEN NotFound
    ELSE LET doc == CHOOSE d \in ById(docs, id) : TRUE
         IN  [status |-> 200, what |-> Detail(docs, doc), serve |-> CanServeFile(doc, open)]

GetPdf(docs, id, disk) ==
    IF \E d \in ById(docs, id) : "pdf" \in d.sources /\ disk["pdf"] # "no" THEN Served("pdf") ELSE NotFound

(* The file at a path, when there is one; the stream of a directory ends in an
   error that nobody takes. *)
Streamed(at, what) ==
    CASE at = "file" -> Served(what)
      [] at = "dir"  -> [status |-> 0, what |-> "uncaught"]
      [] OTHER       -> NotFound

(* The packed source goes before what may still lie unpacked. *)
DownloadLatex(disk) ==
    CASE disk["eprint"] = "file" -> Served("tar")
      [] disk["eprint"] # "file" /\ disk["latex"] = "dir" -> Served("zip")
      [] OTHER -> Streamed(disk["latex"], "tex")

Download(docs, id, format, disk) ==
    IF format \notin {"pdf", "latex", "markdown"} THEN Invalid
    ELSE IF ~\E d \in ById(docs, id) : format \in GetAvailableFormats(d) /\ format \in d.sources THEN NotFound
    ELSE IF format = "latex" THEN DownloadLatex(disk)
    ELSE Streamed(disk[format], format)

-----------------------------------------------------------------------------
(* One file of the packed source: it is unpacked into a scratch directory that
   goes when the response ends.  Steps: the directory is made, tar runs, the file
   is looked up, and streamed; gone is the step before which the client leaves. *)

(* What the file is in the archive: "file", "dir", "outside" by a link, "no". *)
SourceFileAnswer(docs, id, path, disk, unpacks, file) ==
    IF path = <<>> \/ path[1] \in {"/", ".."} THEN Invalid
    ELSE IF ~\E d \in ById(docs, id) : "latex" \in d.sources /\ disk["eprint"] = "file" THEN NotFound
    ELSE IF ~unpacks THEN [status |-> 500, what |-> "none"]
    ELSE CASE file = "file" -> Served("source-file")
           [] file = "no" -> NotFound
           [] OTHER -> Invalid

(* The handler of `close` knows only a directory that is made already; it is
   called once.  While tar runs, files may appear again after it. *)
ScratchLeft(answer, gone, tarGoesOn) ==
    CASE gone = "before" -> answer.status = 200
      [] gone = "unpacking" -> tarGoesOn
      [] OTHER -> FALSE

-----------------------------------------------------------------------------
(* The review of a document, for its owner; a basic one says only the verdict. *)

OwnerOf(doc) ==
    CASE doc.publisher # Null -> doc.publisher
      [] doc.publisher = Null /\ doc.uploader # Null -> doc.uploader
      [] OTHER -> doc.user

Minimal == {"document", "version", "status", "tier", "verdict", "firstReason", "upgrade"}

ReviewFields(review) == IF review.tier = "basic" THEN Minimal ELSE DOMAIN review

(* Whose it is is looked at only when a user is named. *)
ReviewAccess(docs, id, user) ==
    LET doc == {d \in docs : d.id = id}
    IN  CASE user # Null /\ doc = {} -> 404
          [] user # Null /\ (\E d \in doc : OwnerOf(d) \notin {Null, user}) -> 403
          [] OTHER -> 200

(* The versions asked for are numbers; the latest is 0. *)
GetReview(docs, reviews, id, user, version) ==
    LET mine  == {r \in reviews : r.document = id}
        asked == IF version = 0 THEN {r \in mine : \A q \in mine : q.version <= r.version}
                 ELSE {r \in mine : r.version = version}
    IN  IF ReviewAccess(docs, id, user) # 200 THEN [status |-> ReviewAccess(docs, id, user), what |-> {}]
        ELSE [status |-> IF asked = {} THEN 404 ELSE 200, what |-> {ReviewFields(r) : r \in asked}]

(* All versions are given as they are. *)
GetAllReviews(docs, reviews, id, user) ==
    IF ReviewAccess(docs, id, user) # 200 THEN {} ELSE {r \in reviews : r.document = id}

-----------------------------------------------------------------------------
(* The documents of a user, newest change first, page by page.  A cursor is the
   last row's time, as the program reads it, and its id. *)

MapSpamVerdict(v) ==
    CASE v = "pass" -> "pass" [] v = "borderline" -> "review" [] v = "reject" -> "rejected" [] OTHER -> Null

MapReviewStatus(s) ==
    CASE s \in {"complete", "failed"} -> s [] s \in {"pending", "running"} -> "pending" [] OTHER -> Null

Cursor(row) == [time |-> (row.updated \div Tick) * Tick, id |-> row.id]

Limit(asked) ==
    CASE asked = {} -> DefaultLimit
      [] asked # {} /\ (\E n \in asked : n > MaxLimit) -> MaxLimit
      [] asked # {} /\ (\E n \in asked : n < 1) -> 1
      [] OTHER -> CHOOSE n \in asked : TRUE

Before(a, time, id) == a.updated < time \/ (a.updated = time /\ a.id < id)

(* since and cursor: at most one each. *)
UserDocuments(docs, user, since, cursor, limit) ==
    LET found == {d \in docs : /\ d.publisher = user /\ ~d.deleted
                               /\ \A t \in since : d.updated >= t
                               /\ \A c \in cursor : Before(d, c.time, c.id)}
        rows  == SetToSortSeq(found, LAMBDA a, b : Before(b, a.updated, a.id))
        more  == Len(rows) > limit
    IN  [docs |-> IF more THEN SubSeq(rows, 1, limit) ELSE rows,
         next |-> IF more THEN {Cursor(rows[limit])} ELSE {}]

(* The latest version of a concept that is the user's and not deleted. *)
ResolveConceptLatest(docs, concept, user) ==
    LET mine == {d \in docs : concept \in d.concept /\ d.publisher = user /\ ~d.deleted}
    IN  {d \in mine : \A e \in mine : e.version <= d.version}
=============================================================================
