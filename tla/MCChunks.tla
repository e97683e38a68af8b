----------------------------- MODULE MCChunks -----------------------------
(***************************************************************************)
(* What the chunker and the verbatim recovery compute, checked over all     *)
(* small inputs.  The limits keep the order that they have in the code.     *)
(***************************************************************************)
EXTENDS Integers, SequencesExt, FiniteSetsExt

Letters  == {"a", "b", "A"}
AllWords == Letters \cup {"1", "~", "$", ".", ")", "//", "/", "sec"}

C == INSTANCE Chunker WITH
        Canon <- [w \in AllWords |-> IF w = "A" THEN "a" ELSE w],
        Markup <- {"~"}, Real <- Letters, Opener <- {"sec"},
        MaxChunkWords <- 4, Small <- 1, Edge <- 2,
        Blank <- "//", Newline <- "/", Structural <- {"sec"},
        Stop <- {"."}, Pause <- {")"}, Closer <- {"~"}, Math <- {"$"},
        Symbols <- {"~", "$", ".", ")"}, ContentTypes <- {"theorem"},
        BatchLimit <- 5, CarryMax <- 2, GiantLimit <- 4, MinSection <- 1,
        MinChunk <- 2, MinPart <- 0, MinLine <- 0, MaxChunk <- 3,
        Probe <- 2, NextProbe <- 1, MaxBackward <- 3, MinTrimmed <- 2,
        SimilarPercent <- 60, CompareMax <- 3

Texts(words, from, to) == UNION {[1..k -> words] : k \in from..to}
Bag(s) == [w \in Letters |-> Len(SelectSeq(s, LAMBDA x : x = w))]
OnlyReal(s) == SelectSeq(s, LAMBDA w : w \in Letters)
Sec(name, body) == [name |-> <<name, 0>>, body |-> body, subs |-> <<>>]
InOrder(spans) == \A i, j \in DOMAIN spans : i < j /\ spans[i] # <<>> /\ spans[j] # <<>> => spans[i][2] < spans[j][1]

(* Matching blocks lie in the same order in both texts, match, cannot be made
   longer, and no two of them are adjacent: the code need not join any. *)
ASSUME BlocksApart ==
    \A a, b \in Texts({"a", "b"}, 0, 4) :
        LET m == C!Blocks(a, b)
        IN \A i \in DOMAIN m :
               /\ C!Matches(a, b, m[i][1], m[i][2], m[i][3])
               /\ i < Len(m) =>
                     LET end(k) == m[i][k] + m[i][3]
                     IN end(1) <= m[i+1][1] /\ end(2) <= m[i+1][2] /\ <<end(1), end(2)>> # <<m[i+1][1], m[i+1][2]>>

(* Whatever anchors a model gives, what is recovered lies in order, does not
   overlap, and is not empty. *)
ASSUME AnchorsInOrder ==
    \A s \in Texts({"a", "b", "~"}, 1, 4), p \in Texts({"a", "b"} \X {"a", "b"}, 1, 2) :
        LET r     == C!RecoverFromAnchorPairs([i \in DOMAIN p |-> << <<p[i][1]>>, <<p[i][2]>> >>], s)
            spans == [i \in DOMAIN r |-> r[i].span]
        IN InOrder(spans) /\ \A i \in DOMAIN r : r[i] # C!Failed => Len(r[i].text) > 0

Answer(status, chunks) == [status |-> status, chunks |-> chunks]
Anchored(label, p) == [section |-> label, text |-> <<>>, start |-> <<p[1]>>, end |-> <<p[2]>>, note |-> C!NoNote]
Spelled(label, text) == [section |-> label, text |-> text, start |-> <<>>, end |-> <<>>, note |-> [summary |-> "s", type |-> "theorem"]]
NoAnswer == Answer("failed", <<>>)

One(body) == <<[name |-> <<"One", 0>>, path |-> << <<"One", 0>> >>, body |-> body]>>

(* The zero-loss gate: of a batch that the markers divide, every real word is
   in exactly one chunk, in the order of the source. *)
ASSUME MarkersLoseNothing ==
    \A s \in Texts({"a", "b", "1"}, 1, 4), p \in Texts({"a", "b"} \X {"a", "b"}, 1, 2) :
        LET chunks == C!ByMarkers(One(s), Answer("done", [i \in DOMAIN p |-> Anchored(<< <<"One", 0>> >>, p[i])]))
        IN chunks # <<>> => OnlyReal(FlattenSeq([i \in DOMAIN chunks |-> chunks[i].text])) = OnlyReal(s)

(* Stage 1: pieces of a source of which the model changed the case are found
   again, each where it was, and none is called recovered out of order. *)
ASSUME PiecesFound ==
    \A s \in Texts({"a", "b", "A"}, 2, 4) : \A k \in 1..Len(s)-1 :
        LET r == C!RecoverSequence(<<C!Canonical(SubSeq(s, 1, k)), C!Canonical(SubSeq(s, k + 1, Len(s)))>>, s)
        IN r[1].text = SubSeq(s, 1, k) /\ r[2].text = SubSeq(s, k + 1, Len(s))

ASSUME StageOneInOrder ==
    \A s \in Texts({"a", "b", "~"}, 1, 3), t, u \in Texts({"a", "b"}, 0, 2) :
        LET r == C!RecoverSequence(<<t, u>>, s)
        IN InOrder([i \in DOMAIN r |-> r[i].span])

-----------------------------------------------------------------------------
Titles == <<"One", "Two", "Three">>
Bodies == {<<>>, <<"a">>, <<"a", "b">>, <<"a", "b", "a">>, <<"b", "b", "//", "a", "a", "b">>}
Docs(n) == {[i \in DOMAIN b |-> Sec(Titles[i], b[i])] : b \in Texts(Bodies, 0, n)}

(* Every substantive section, or every part of one that is too long, is in a
   batch; besides these a batch holds at most the last section of the batch
   before, which is short; a batch over the limit is one part and that section. *)
ASSUME BatchesCover ==
    \A d \in Docs(3) :
        LET batches == C!SectionsToBatches(d)
            parts   == C!Divided(C!Substantive(d))
            carried == [b \in DOMAIN batches |-> b > 1 /\ batches[b][1] = batches[b-1][Len(batches[b-1])]]
        IN /\ FlattenSeq([b \in DOMAIN batches |-> IF carried[b] THEN Tail(batches[b]) ELSE batches[b]]) = parts
           /\ \A b \in DOMAIN batches :
                 /\ carried[b] => Len(batches[b][1].body) <= 2 /\ Len(batches[b]) > 1
                 /\ C!Length(batches[b]) > 5 => Len(batches[b]) = (IF carried[b] THEN 2 ELSE 1)

(* Text that is cut without a model: no word is lost or moved, save that short
   pieces go, and of LaTeX only a single line is longer than the limit. *)
ASSUME CutsLoseNothing ==
    \A t \in Texts({"a", "/", "//", "sec"}, 0, 5) :
        /\ FlattenSeq(C!SplitParagraphs(t)) = SelectSeq(t, LAMBDA w : w # "//")
              \/ \E i \in DOMAIN t : t[i] = "/"
        /\ C!Words(FlattenSeq(C!SplitLatex(t))) = C!Words(t)
        /\ \A p \in ToSet(C!SplitLatex(t)) : Len(p) > 3 => "/" \notin ToSet(p) /\ "//" \notin ToSet(p)

Two(b1, b2) == <<[name |-> <<"One", 0>>, path |-> << <<"One", 0>> >>, body |-> b1],
                 [name |-> <<"Two", 0>>, path |-> << <<"Two", 0>> >>, body |-> b2]>>

(* A chunk that is cut at the border of two sections keeps its words in order,
   save fewer than MinChunk at its beginning; the note goes with that. *)
ASSUME BorderKeepsText ==
    \A b1, b2 \in Texts({"a", "b"}, 2, 3), t \in Texts({"a", "b"}, 1, 5) :
        LET c   == Spelled(<< <<"One", 0>> >>, t)
            out == C!EnforceBoundary(c, Two(b1, b2))
            all == FlattenSeq([i \in DOMAIN out |-> out[i].text])
        IN /\ Len(t) - Len(all) \in 0..1 /\ IsSuffix(all, t)
           /\ \A i \in DOMAIN out : out[i].note # C!NoNote => IsPrefix(out[i].text, t)

(* A chunk is trimmed to the end of a sentence that is no formula's, never by
   more than MaxBackward, never below its least length. *)
ASSUME TrimmedAtSentence ==
    \A t \in Texts({"a", ".", "$", "~"}, 1, 5), mode \in {"marker", "full_text"} :
        LET c   == C!CreateChunk(<<>>, <<>>, t, C!NoNote, mode)
            out == C!FixBoundary(c).text
        IN /\ IsPrefix(out, t)
           /\ out # t => /\ mode # "marker" /\ Len(out) >= 2 /\ Len(t) - Len(out) < 3
                         /\ out[Len(out)] = "." /\ Len(SelectSeq(out, LAMBDA w : w = "$")) % 2 = 0

(* The distance of texts is one. *)
ASSUME DistanceMetric ==
    \A a, b, c \in Texts({"a", "b"}, 0, 2) :
        /\ (C!Distance(a, b) = 0) = (a = b)
        /\ C!Distance(a, b) = C!Distance(b, a)
        /\ C!Distance(a, c) <= C!Distance(a, b) + C!Distance(b, c)

(* A chunk goes at the border of two batches only for one that is similar, not
   shorter and on the other side; some chunk of the border always stays. *)
ASSUME DedupKeepsTwin ==
    \A t \in [1..4 -> Texts({"a", "b"}, 1, 2)] :
        LET chunks == [i \in 1..4 |-> C!CreateChunk(<<>>, <<>>, t[i], C!NoNote, "full_text")]
            gone   == C!CrossBatchDedup(chunks, <<1, 3>>).gone
        IN /\ gone # 1..4
           /\ \A i \in gone : \E j \in (IF i < 3 THEN 3..4 ELSE 1..2) : C!Similar(t[i], t[j]) /\ Len(t[j]) >= Len(t[i])

-----------------------------------------------------------------------------
Calls(chunks) == {NoAnswer, Answer("cut", chunks), Answer("done", <<>>), Answer("done", chunks)}
Asked == <<Anchored(<< <<"One", 0>> >>, <<"a", "b">>)>>
Texted == <<Spelled(<< <<"One", 0>> >>, <<"a", "b", "a">>), Spelled(<< <<"Two", 0>> >>, <<".", "~">>)>>

(* A document in the end: positions without a gap, the count in every chunk,
   and no garbage; if no model answers, one section that is long enough is in
   its chunks whole. *)
ASSUME ProcessNumbers ==
    \A d \in Docs(2), abstract \in {<<>>, <<"b", "b">>},
       m \in {NoAnswer, Answer("done", Asked)}, b \in Calls(Texted), r \in {NoAnswer, Answer("done", Texted)} :
        LET answers == [i \in 1..4 |-> [marker |-> m, base |-> b, retry |-> r]]
            out     == C!Process(abstract, d, answers, FALSE)
        IN /\ \A i \in DOMAIN out : out[i].position = i - 1 /\ out[i].total = Len(out)
           /\ C!SectionsToBatches(d) # <<>> => \A i \in DOMAIN out : ~C!Garbage(out[i].chunk)
           /\ Len(d) = 1 /\ abstract = <<>> /\ {m, b, r} = {NoAnswer} /\ Len(d[1].body) > 1 =>
                 FlattenSeq([i \in DOMAIN out |-> out[i].chunk.text]) = C!Words(d[1].body)

(* Stage 1 on what the chunker stored: texts of markers are found as they are. *)
ASSUME ReprocessingIsStable ==
    \A s \in Texts({"a", "b", "1"}, 2, 3), p \in Texts({"a", "b"} \X {"a", "b"}, 1, 2) :
        LET chunks == C!ByMarkers(One(s), Answer("done", [i \in DOMAIN p |-> Anchored(<< <<"One", 0>> >>, p[i])]))
            again  == C!ReprocessDoc(<<Sec("One", s)>>, chunks)
        IN \A i \in DOMAIN again : again[i].text = chunks[i].text
=============================================================================
