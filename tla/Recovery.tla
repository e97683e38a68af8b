------------------------------ MODULE Recovery ------------------------------
(***************************************************************************)
(* The exact text of a chunk, found again in its source                     *)
(* (verbatim-recovery.ts, on the matching blocks of sequence-matcher.ts):   *)
(* from a text that the model may have distorted (stage 1, the reprocessing *)
(* of the corpus) or from its first and last words (stage 2, the chunker).  *)
(*                                                                          *)
(* A text is a sequence of words.  The spans of the code are offsets of     *)
(* characters, always at the borders of words: here they are positions of   *)
(* words, first and last.                                                   *)
(***************************************************************************)
EXTENDS Integers, SequencesExt, FiniteSetsExt

CONSTANTS
    Canon,          \* the canonical form of each word
    Markup,         \* words of which nothing is left without $ \ { } ~
    Real,           \* words with three letters outside of commands
    Opener,         \* first words of what may be dropped: \iffalse, [figure
    MaxChunkWords,  \* MAX_CHUNK_WORDS
    Small,          \* SMALL: the words that are absorbed at an edge
    Edge            \* K: the words that are compared at both ends of a chunk

None == "none"

Canonical(text) == [i \in DOMAIN text |-> Canon[text[i]]]

Slice(text, span) == SubSeq(text, span[1], span[2])

-----------------------------------------------------------------------------
(* difflib's matching blocks: [i, j, k] says that k words match, from i in a
   and from j in b. *)

Matches(a, b, i, j, k) == \A d \in 0..k-1 : a[i + d] = b[j + d]

(* The longest match within two ranges: of the longest the first in a, of
   these the first in b; k = 0 if there is none. *)
LongestMatch(a, b, alo, ahi, blo, bhi) ==
    LET all == {m \in (alo..ahi) \X (blo..bhi) \X (1..(ahi - alo + 1)) :
                    /\ m[1] + m[3] - 1 <= ahi /\ m[2] + m[3] - 1 <= bhi
                    /\ Matches(a, b, m[1], m[2], m[3])}
        Before(m, n) == \/ m[3] > n[3]
                        \/ m[3] = n[3] /\ m[1] < n[1]
                        \/ m[3] = n[3] /\ m[1] = n[1] /\ m[2] <= n[2]
    IN  IF all = {} THEN <<alo, blo, 0>> ELSE CHOOSE m \in all : \A n \in all : Before(m, n)

RECURSIVE BlocksWithin(_, _, _, _, _, _)
BlocksWithin(a, b, alo, ahi, blo, bhi) ==
    LET m == LongestMatch(a, b, alo, ahi, blo, bhi)
    IN  IF m[3] = 0 THEN <<>>
        ELSE BlocksWithin(a, b, alo, m[1] - 1, blo, m[2] - 1) \o <<m>>
             \o BlocksWithin(a, b, m[1] + m[3], ahi, m[2] + m[3], bhi)

(* getMatchingBlocks, without the last, empty one.  No two blocks are adjacent:
   a longest match would have been longer. *)
Blocks(a, b) == BlocksWithin(a, b, 1, Len(a), 1, Len(b))

Matched(blocks) == FoldLeft(LAMBDA n, m : n + m[3], 0, blocks)

(* ratio(a, b) >= percent / 100. *)
Alike(a, b, percent) == 200 * Matched(Blocks(a, b)) >= percent * (Len(a) + Len(b))

-----------------------------------------------------------------------------
(* isDroppableGap: what no chunk has to carry. *)
Droppable(text) ==
    \/ text = <<>>
    \/ Head(text) \in Opener
    \/ ToSet(text) \cap Real = {}

(* Up to three words of mere markup stay with the chunk that they follow. *)
WithMarkup(source, j) ==
    LET more == {n \in 1..3 : j + n <= Len(source) /\ \A d \in 1..n : source[j + d] \in Markup}
    IN  j + Max(more \cup {0})

Recovered(status, source, span) == [status |-> status, span |-> span, text |-> Slice(source, span)]
Failed == [status |-> "FAILED", span |-> <<>>, text |-> <<>>]

FirstWords(n, s) == SubSeq(s, 1, Min({n, Len(s)}))
LastWords(n, s) == SubSeq(s, Max({1, Len(s) - n + 1}), Len(s))

(* Stage 1, one chunk: where its words are from position `from` on. *)
AlignOne(text, source, from) ==
    LET chunk  == Canonical(text)
        suffix == Canonical(SubSeq(source, from, Len(source)))
        blocks == Blocks(suffix, chunk)
        first  == blocks[1]
        last   == blocks[Len(blocks)]
        start  == from + Max({0, first[1] - first[2]})
        end    == from + Min({Len(suffix) - 1, last[1] - last[2] + Len(chunk) - 1})
        span   == <<start, WithMarkup(source, end)>>
        found  == Canonical(Slice(source, span))
        head   == Alike(FirstWords(Edge, found), FirstWords(Edge, chunk), 75)
        tail   == Alike(LastWords(Edge, found), LastWords(Edge, chunk), 75)
        close  == Alike(LastWords(3, found), LastWords(3, chunk), 60)
        \* 100 * matchedFrac, in words of the chunk
        common == 100 * Matched(blocks)
        long   == 2 * Len(found) > 3 * Len(chunk)
    IN  CASE text = <<>> \/ from > Len(source) \/ blocks = <<>> -> Failed
          [] OTHER ->
             CASE end < start -> Failed
               [] head /\ tail /\ common >= 85 * Len(chunk) /\ ~long -> Recovered("recovered", source, span)
               [] head /\ close /\ common >= 75 * Len(chunk) /\ long -> Recovered("abbreviated", source, span)
               [] OTHER -> Failed

(* recoverSequence: strictly in order, each from where the last one ended. *)
RecoverSequence(texts, source) ==
    FoldLeft(LAMBDA acc, text :
                LET r == AlignOne(text, source, acc.from)
                IN  [out |-> Append(acc.out, r), from |-> IF r = Failed THEN acc.from ELSE r.span[2] + 1],
             [out |-> <<>>, from |-> 1], texts).out

-----------------------------------------------------------------------------
(* Stage 2. *)

(* locate: where an anchor begins or ends, from position `from` to `to`. *)
Locate(source, anchor, from, to, want) ==
    LET suffix == Canonical(SubSeq(source, from, to))
        blocks == Blocks(suffix, Canonical(anchor))
    IN  IF anchor = <<>> \/ blocks = <<>> THEN 0
        ELSE IF want = "start" THEN from + Max({0, blocks[1][1] - blocks[1][2]})
        ELSE LET last == blocks[Len(blocks)]
             IN  from + Min({Len(suffix) - 1, last[1] - last[2] + Len(anchor) - 1})

(* The spans as they are found: starts go strictly forward; <<>> if one of the
   two anchors is not found. *)
RawSpans(pairs, source) ==
    FoldLeft(LAMBDA acc, pair :
                LET start == Locate(source, pair[1], acc.from, Len(source), "start")
                    end   == Locate(source, pair[2], start, Min({Len(source), start + MaxChunkWords - 1}), "end")
                IN  CASE start = 0 -> [acc EXCEPT !.out = Append(@, <<>>)]
                      [] end = 0   -> [out |-> Append(acc.out, <<>>), from |-> start + 1]
                      [] OTHER     -> [out |-> Append(acc.out, <<start, WithMarkup(source, end)>>), from |-> start + 1],
             [out |-> <<>>, from |-> 1], pairs).out

(* Reconciliation: a chunk ends where the next one begins, unless what is
   between them may be dropped; the first and the last take in what is little
   and real at the edges. *)
EndBefore(source, span, next) ==
    IF next[1] <= span[2] \/ ~Droppable(SubSeq(source, span[2] + 1, next[1] - 1))
    THEN next[1] - 1 ELSE span[2]

Reconcile(spans, source) ==
    LET n      == Len(source)
        joined == [i \in DOMAIN spans |->
                      IF i = Len(spans) THEN spans[i]
                      ELSE <<spans[i][1], EndBefore(source, spans[i], spans[i + 1])>>]
        start  == spans[1][1]
        end    == spans[Len(spans)][2]
        front  == start > 1 /\ start - 1 <= Small /\ ~Droppable(SubSeq(source, 1, start - 1))
        back   == end < n /\ n - end <= Small /\ ~Droppable(SubSeq(source, end + 1, n))
    IN  [i \in DOMAIN joined |->
            <<IF i = 1 /\ front THEN 1 ELSE joined[i][1],
              IF i = Len(joined) /\ back THEN n ELSE joined[i][2]>>]

(* recoverFromAnchorPairs. *)
RecoverFromAnchorPairs(pairs, source) ==
    LET raw == RawSpans(pairs, source)
        ok  == SelectSeq([i \in DOMAIN raw |-> i], LAMBDA i : raw[i] # <<>>)
        new == Reconcile([k \in DOMAIN ok |-> raw[ok[k]]], source)
    IN  [i \in DOMAIN raw |->
            IF raw[i] = <<>> THEN Failed
            ELSE LET k == CHOOSE k \in DOMAIN ok : ok[k] = i
                 IN  Recovered("recovered", source, <<new[k][1], Max({new[k][1], new[k][2]})>>)]

-----------------------------------------------------------------------------
(* coverageCheck: no span is missing, they are in order, do not overlap, and
   what lies between them may be dropped. *)
CleanTiling(spans, source) ==
    /\ \A i \in DOMAIN spans : spans[i] # <<>>
    /\ \A i \in 1..Len(spans)-1 : spans[i][2] < spans[i + 1][1]
    /\ LET ends   == <<0>> \o [i \in DOMAIN spans |-> spans[i][2]]
           starts == [i \in DOMAIN spans |-> spans[i][1]] \o <<Len(source) + 1>>
       IN \A i \in DOMAIN ends : Droppable(SubSeq(source, ends[i] + 1, starts[i] - 1))
=============================================================================
