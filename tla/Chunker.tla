------------------------------ MODULE Chunker ------------------------------
(***************************************************************************)
(* How a parsed document becomes chunks (chunker-step.ts): sections are     *)
(* batched; of each batch the model is asked for the first and last words   *)
(* of its chunks, and for their text if that fails; then another model is   *)
(* asked, and then the text is cut at its paragraphs.  And how the          *)
(* reprocessing of the corpus batches the sections again, to give stored    *)
(* chunks back the text of their source (stage1-recovery.ts).               *)
(*                                                                          *)
(* A text is a sequence of words, blank lines and line ends among them;     *)
(* lengths are counted in words.  A path is a sequence of names, a name a   *)
(* title and the number of its part, 0 if it was not divided.               *)
(***************************************************************************)
EXTENDS Recovery

CONSTANTS
    Blank, Newline,     \* a blank line, an end of line
    Structural,         \* LaTeX commands at which a text is cut first
    Stop, Pause,        \* words that end a sentence: . ! ? and : ; )
    Closer,             \* \end{...}
    Math,               \* $
    Symbols,            \* words that are not letters or digits
    ContentTypes,       \* VALID_CONTENT_TYPES
    BatchLimit,         \* BATCH_CHAR_LIMIT
    CarryMax,           \* a section up to this length is carried into the next batch
    GiantLimit,         \* GIANT_SECTION_LIMIT
    MinSection,         \* MIN_SECTION_CHARS
    MinChunk,           \* MIN_CHUNK_CHARS
    MinPart, MinLine,   \* what a cut piece, a cut line must exceed
    MaxChunk,           \* GUARD_MAX_CHUNK_CHARS
    Probe, NextProbe,   \* the words by which a chunk, its rest is looked up in a section
    MaxBackward,        \* MAX_BACKWARD
    MinTrimmed,         \* MIN_CHUNK_AFTER_TRIM
    SimilarPercent,     \* DEDUP_SIMILARITY_THRESHOLD
    CompareMax          \* texts are compared up to this length

Words(text) == SelectSeq(text, LAMBDA w : w \notin {Blank, Newline})

Trim(text) ==
    LET kept == {i \in DOMAIN text : text[i] \notin {Blank, Newline}}
    IN  IF kept = {} THEN <<>> ELSE SubSeq(text, Min(kept), Max(kept))

Longer(texts, n) == SelectSeq([i \in DOMAIN texts |-> Trim(texts[i])], LAMBDA t : Len(t) > n)

(* Cut at the marks, which are left out. *)
CutAt(text, marks) ==
    FoldLeft(LAMBDA acc, w : IF w \in marks THEN Append(acc, <<>>)
                             ELSE [acc EXCEPT ![Len(acc)] = Append(@, w)],
             << <<>> >>, text)

(* Cut before the marks. *)
CutBefore(text, marks) ==
    FoldLeft(LAMBDA acc, w : IF w \in marks THEN Append(acc, <<w>>)
                             ELSE [acc EXCEPT ![Len(acc)] = Append(@, w)],
             << <<>> >>, text)

Paragraphs(text) == CutAt(text, {Blank})
Lines(text)      == CutAt(text, {Blank, Newline})

(* Pieces are joined as long as they fit; `over` says when a new one begins. *)
Pack(pieces, mark, limit, least) ==
    FoldLeft(LAMBDA acc, p :
                LET cur == acc[Len(acc)]
                IN  IF Len(cur) + Len(p) > limit /\ Len(cur) > least THEN Append(acc, p)
                    ELSE [acc EXCEPT ![Len(acc)] = IF @ = <<>> THEN p ELSE @ \o <<mark>> \o p],
             << <<>> >>, pieces)

-----------------------------------------------------------------------------
(* Sections and batches. *)

RECURSIVE FlattenSections(_, _)
FlattenSections(sections, parent) ==
    FoldLeft(LAMBDA acc, s :
                LET path == Append(parent, s.name)
                IN  Append(acc, [name |-> s.name, path |-> path, body |-> s.body])
                    \o FlattenSections(s.subs, path),
             <<>>, sections)

Part(section, text, k) ==
    LET name == <<section.name[1], k>>
    IN  [name |-> name, path |-> Append(Front(section.path), name), body |-> Trim(text)]

(* Parts are numbered, unless there is only one. *)
SplitGiantSection(section) ==
    LET packed == SelectSeq(Pack(Paragraphs(section.body), Blank, GiantLimit, 0), LAMBDA t : Trim(t) # <<>>)
    IN  [k \in DOMAIN packed |-> Part(section, packed[k], IF Len(packed) = 1 THEN 0 ELSE k)]

Divided(sections) ==
    FlattenSeq([i \in DOMAIN sections |->
        IF Len(sections[i].body) > GiantLimit THEN SplitGiantSection(sections[i]) ELSE <<sections[i]>>])

Length(batch) == FoldLeft(LAMBDA n, s : n + Len(s.body), 0, batch)

GroupIntoBatches(sections) ==
    LET Add(acc, part) ==
            LET last == Last(acc.current)
            IN  IF acc.current # <<>> /\ Length(acc.current) + Len(part.body) > BatchLimit
                THEN [done    |-> Append(acc.done, acc.current),
                      current |-> (IF Len(last.body) <= CarryMax THEN <<last>> ELSE <<>>) \o <<part>>]
                ELSE [acc EXCEPT !.current = Append(@, part)]
        all == FoldLeft(Add, [done |-> <<>>, current |-> <<>>], Divided(sections))
    IN  IF all.current = <<>> THEN all.done ELSE Append(all.done, all.current)

Substantive(sections) ==
    SelectSeq(FlattenSections(sections, <<>>), LAMBDA s : Len(Trim(s.body)) >= MinSection)

SectionsToBatches(sections) == GroupIntoBatches(Substantive(sections))

RawContent(batch) == FlattenSeq([i \in DOMAIN batch |-> Words(batch[i].body)])

-----------------------------------------------------------------------------
(* Cutting without a model. *)

SplitParagraphs(text) == Longer(Paragraphs(text), MinPart)

(* A piece that is too long is cut at its paragraphs, if that is enough, or
   its lines are packed. *)
SplitOversized(piece) ==
    LET paras == Longer(Paragraphs(piece), MinPart)
    IN  IF Len(piece) <= MaxChunk THEN <<piece>>
        ELSE IF Len(paras) > 1 /\ \A i \in DOMAIN paras : Len(paras[i]) <= MaxChunk THEN paras
        ELSE Longer(Pack(Longer(Lines(piece), MinLine), Newline, MaxChunk - 1, MinPart), MinPart)

SplitLatex(text) ==
    LET pieces == Longer(CutBefore(text, Structural), MinPart)
    IN  FlattenSeq([i \in DOMAIN pieces |-> SplitOversized(pieces[i])])

-----------------------------------------------------------------------------
(* Answers of the model: the call "failed", the output was "cut" off, or it is
   "done"; its chunks are <<>> if it cannot be parsed. *)

NoNote == [summary |-> None, type |-> None]

(* createChunk. *)
CreateChunk(section, path, text, note, mode) ==
    [section |-> section, path |-> path, text |-> text, mode |-> mode,
     note |-> [note EXCEPT !.type = IF @ \in ContentTypes THEN @ ELSE None]]

(* The path of a label: a later section of the batch with that name or path
   wins; a label that is none of them is kept. *)
PathOf(batch, label) ==
    LET named == {i \in DOMAIN batch : label \in {<<batch[i].name>>, batch[i].path}}
    IN  IF named = {} THEN label ELSE batch[Max(named)].path

ByParagraphs(batch, latex) ==
    FlattenSeq([i \in DOMAIN batch |->
        LET texts == IF latex THEN SplitLatex(batch[i].body) ELSE SplitParagraphs(batch[i].body)
        IN  [k \in DOMAIN texts |->
                CreateChunk(<<batch[i].name>>, batch[i].path, texts[k], NoNote, "full_text")]])

(* tryMarkerBatch: all or nothing, which is <<>>. *)
ByMarkers(batch, answer) ==
    LET asked   == SelectSeq(answer.chunks, LAMBDA c : c.start # <<>> /\ c.end # <<>>)
        source  == RawContent(batch)
        results == RecoverFromAnchorPairs([i \in DOMAIN asked |-> <<asked[i].start, asked[i].end>>], source)
        whole   == /\ \A i \in DOMAIN results : results[i] # Failed
                   /\ CleanTiling([i \in DOMAIN results |-> results[i].span], source)
    IN  IF answer.status # "done" \/ asked = <<>> \/ ~whole THEN <<>>
        ELSE [i \in DOMAIN asked |->
                 CreateChunk(asked[i].section, PathOf(batch, asked[i].section), results[i].text, asked[i].note, "marker")]

(* hasValidChunkJson. *)
Usable(answer) == answer.status = "done" /\ \E i \in DOMAIN answer.chunks : answer.chunks[i].text # <<>>

Holds(text, part) == \E i \in 0..Len(text) - Len(part) : SubSeq(text, i + 1, i + Len(part)) = part

(* findOverlapEnd: how much of a chunk its section has. *)
OverlapEnd(chunk, section) == Max({n \in 0..Len(chunk) : Holds(section, SubSeq(chunk, 1, n))})

(* enforceSectionBoundaries, one chunk: one whose beginning is in several
   sections is cut where the section that it names ends; what the model said
   of it goes with the first part. *)
EnforceBoundary(chunk, batch) ==
    LET text     == Words(chunk.text)
        bodies   == [i \in DOMAIN batch |-> Words(batch[i].body)]
        matching == {i \in DOMAIN batch : Holds(bodies[i], FirstWords(Probe, text))}
        declared == {i \in DOMAIN batch : chunk.section \in {<<batch[i].name>>, batch[i].path}}
        own      == Min(declared)
        cut      == OverlapEnd(text, bodies[own])
        rest     == SubSeq(text, cut + 1, Len(text))
        next     == {i \in DOMAIN batch : i # own /\ Holds(bodies[i], FirstWords(NextProbe, rest))}
    IN  IF \/ Len(batch) <= 1 \/ Cardinality(matching) <= 1 \/ declared = {}
           \/ cut = 0 \/ cut >= Len(text) - MinChunk
        THEN <<chunk>>
        ELSE (IF cut >= MinChunk THEN <<[chunk EXCEPT !.text = SubSeq(text, 1, cut)]>> ELSE <<>>)
             \o (IF Len(rest) >= MinChunk
                 THEN <<[chunk EXCEPT !.text = rest, !.note = NoNote,
                                      !.section = IF next = {} THEN @ ELSE batch[Min(next)].path]>>
                 ELSE <<>>)

(* The chunks of a usable answer. *)
ByText(batch, answer) ==
    LET given   == SelectSeq(answer.chunks, LAMBDA c : c.text # <<>>)
        checked == FlattenSeq([i \in DOMAIN given |-> EnforceBoundary(given[i], batch)])
    IN  [i \in DOMAIN checked |->
            CreateChunk(checked[i].section, PathOf(batch, checked[i].section), checked[i].text, checked[i].note, "full_text")]

(* A batch: markers, text, text by the other model, paragraphs.  An exception
   of the first text call is not repeated. *)
ChunkBatch(batch, answers, latex) ==
    LET marked == ByMarkers(batch, answers.marker)
    IN  CASE marked # <<>>        -> marked
          [] Usable(answers.base) -> ByText(batch, answers.base)
          [] answers.base.status # "failed" /\ Usable(answers.retry) -> ByText(batch, answers.retry)
          [] OTHER                -> ByParagraphs(batch, latex)

-----------------------------------------------------------------------------
(* What is done with the chunks of all batches. *)

(* fixChunkBoundaries: a chunk that does not end at a sentence is cut back to
   the last one, not within mathematics; chunks of markers are left alone. *)
EndsAtSentence(text) ==
    LET open == {i \in DOMAIN text : text[i] \notin Closer}
    IN  open # {} /\ text[Max(open)] \in Stop \cup Pause

FixBoundary(chunk) ==
    LET text == chunk.text
        ends == {i \in DOMAIN text :
                    /\ i > Len(text) - MaxBackward /\ text[i] \in Stop
                    /\ Cardinality({d \in 1..i : text[d] \in Math}) % 2 = 0}
    IN  IF chunk.mode = "marker" \/ EndsAtSentence(text) \/ ends = {} THEN chunk
        ELSE IF Max(ends) < MinTrimmed THEN chunk
        ELSE [chunk EXCEPT !.text = SubSeq(text, 1, Max(ends))]

(* Levenshtein's distance. *)
Distance(a, b) ==
    LET d[i \in 0..Len(a), j \in 0..Len(b)] ==
            IF i = 0 \/ j = 0 THEN i + j
            ELSE Min({d[i - 1, j] + 1, d[i, j - 1] + 1,
                      d[i - 1, j - 1] + (IF a[i] = b[j] THEN 0 ELSE 1)})
    IN  d[Len(a), Len(b)]

(* textSimilarity(a, b) >= DEDUP_SIMILARITY_THRESHOLD; long texts are compared
   by their beginnings. *)
Similar(a, b) ==
    LET ta   == Trim(a)
        tb   == Trim(b)
        size == Max({Len(ta), Len(tb)})
        most == Min({size, CompareMax})
    IN  ta = tb \/ 100 * (most - Distance(FirstWords(most, ta), FirstWords(most, tb))) >= SimilarPercent * most

(* crossBatchDedup, one border: the last two chunks of a batch with the first
   two of the next one; of two that are similar the shorter goes, the second
   if they are equally long. *)
DedupBorder(chunks, bounds, gone, b) ==
    LET first == bounds[b]
        end   == IF b < Len(bounds) THEN bounds[b + 1] ELSE Len(chunks) + 1
        tail  == SetToSortSeq((Max({bounds[b - 1], first - 2})..first - 1) \ gone, <)
        head  == SetToSortSeq((first..Min({first + 2, end}) - 1) \ gone, <)
        Compare(out, pair) ==
            IF pair[2] \in out \/ ~Similar(chunks[pair[1]].text, chunks[pair[2]].text) THEN out
            ELSE out \cup {IF Len(chunks[pair[1]].text) >= Len(chunks[pair[2]].text) THEN pair[2] ELSE pair[1]}
    IN  FoldLeft(Compare, gone,
                 FlattenSeq([i \in DOMAIN tail |-> [k \in DOMAIN head |-> <<tail[i], head[k]>>]]))

CrossBatchDedup(chunks, bounds) ==
    LET gone == FoldLeft(LAMBDA out, b : DedupBorder(chunks, bounds, out, b), {}, [b \in 1..Len(bounds)-1 |-> b + 1])
    IN  [gone |-> gone,
         kept |-> LET ids == SetToSortSeq(DOMAIN chunks \ gone, <) IN [i \in DOMAIN ids |-> chunks[ids[i]]]]

(* filterGarbageChunks. *)
Garbage(chunk) ==
    LET text == Trim(chunk.text)
    IN  \/ Len(text) < MinChunk
        \/ 100 * Len(SelectSeq(text, LAMBDA w : w \notin Symbols)) < 40 * Len(text)

(* process: the abstract is a chunk of its own. *)
AbstractChunk(text) ==
    CreateChunk(<< <<"Abstract", 0>> >>, << <<"Abstract", 0>> >>, text, [summary |-> "first", type |-> "abstract"], None)

Numbered(chunks) ==
    [i \in DOMAIN chunks |-> [position |-> i - 1, total |-> Len(chunks), chunk |-> chunks[i]]]

Process(abstract, sections, answers, latex) ==
    LET batches == SectionsToBatches(sections)
        opening == IF Trim(abstract) = <<>> THEN <<>> ELSE <<AbstractChunk(abstract)>>
        parts   == [b \in DOMAIN batches |-> ChunkBatch(batches[b], answers[b], latex)]
        bounds  == [b \in DOMAIN batches |->
                       Len(opening) + 1 + FoldLeft(LAMBDA n, k : n + Len(parts[k]), 0, [k \in 1..b-1 |-> k])]
        all     == opening \o FlattenSeq(parts)
        fixed   == [i \in DOMAIN all |-> FixBoundary(all[i])]
        unique  == CrossBatchDedup(fixed, bounds).kept
    IN  IF batches = <<>> THEN Numbered(opening)
        ELSE Numbered(SelectSeq(unique, LAMBDA c : ~Garbage(c)))

(* Sections of which no chunk is left before the clean-up. *)
MissedSections(sections, chunks) ==
    {s.path : s \in ToSet(Substantive(sections))} \ {c.path : c \in ToSet(chunks)}

-----------------------------------------------------------------------------
(* Stage 1: stored chunks get back the text of their source. *)

(* batchFor: the first batch with the path, or else with its last name. *)
BatchFor(batches, path) ==
    LET by   == {b \in DOMAIN batches : \E s \in ToSet(batches[b]) : s.path = path}
        leaf == {b \in DOMAIN batches : \E s \in ToSet(batches[b]) : Last(s.path) = Last(path)}
    IN  IF by # {} THEN Min(by) ELSE IF leaf # {} THEN Min(leaf) ELSE 0

(* reconstructAndRecover, of chunks in the order of their positions. *)
ReconstructAndRecover(sections, chunks) ==
    LET batches == SectionsToBatches(sections)
        batchOf == [i \in DOMAIN chunks |-> BatchFor(batches, chunks[i].path)]
        In(b)   == SetToSortSeq({i \in DOMAIN chunks : batchOf[i] = b}, <)
        results == [b \in DOMAIN batches |->
                       RecoverSequence([k \in DOMAIN In(b) |-> Words(chunks[In(b)[k]].text)], RawContent(batches[b]))]
    IN  [i \in DOMAIN chunks |->
            IF batchOf[i] = 0 THEN Failed
            ELSE results[batchOf[i]][CHOOSE k \in DOMAIN In(batchOf[i]) : In(batchOf[i])[k] = i]]

(* processDoc: what recovery finds replaces the text, of row and point; what
   it does not find stays.  Without stored sections nothing is recovered. *)
ReprocessDoc(sections, chunks) ==
    LET found == ReconstructAndRecover(sections, chunks)
    IN  [i \in DOMAIN chunks |->
            IF sections = <<>> THEN [text |-> chunks[i].text, status |-> "reembed_only"]
            ELSE IF found[i] = Failed THEN [text |-> chunks[i].text, status |-> "failed"]
            ELSE [text |-> found[i].text, status |-> found[i].status]]
=============================================================================
