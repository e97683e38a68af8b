---------------------------- MODULE ReviewProofs ----------------------------
(***************************************************************************)
(* Content review, proved for any number of documents, triggers, requests  *)
(* for a tier, restarts, failures and stops, with the server and the       *)
(* runner at one document together: the variables keep their types, a      *)
(* resolved review is rewritten by nobody but a pass that was deciding it, *)
(* triggers get versions of their own, and a request that was answered is  *)
(* not run again within a day.                                             *)
(***************************************************************************)
EXTENDS Review, SequenceTheorems, TLAPS

-----------------------------------------------------------------------------
(* The inductive invariant. *)

(* A pass that is about to write a review has one to write. *)
PassHasReview ==
    \A d \in Docs, w \in Passes : Deciding(d, w) => reviews[d] # <<>>

(* What a trigger has read is a version that the document has or had. *)
TriggerRead ==
    \A t \in Triggers : request[t].pc = "insert" => request[t].version <= Len(reviews[t.doc])

(* What is answered with its tier is in the map, until a day has gone by. *)
Remembered ==
    \A p \in Patches :
        /\ patch[p].pc = "remember" => patch[p].current \in ReportTier
        /\ patch[p].pc = "done" => keys[p.key] # NoKey /\ ~keys[p.key].aged

ReviewInv == TypeOK /\ PassHasReview /\ TriggerRead /\ Remembered /\ TriggersDistinct

-----------------------------------------------------------------------------
(* How the rows of a document change: a row is replaced or added, and keeps the
   trigger that made it. *)

LEMMA RowReplaced ==
    ASSUME TypeOK, NEW d \in Docs, reviews[d] # <<>>, NEW r \in Row, SetLatest(d, r)
    PROVE  /\ reviews' \in [Docs -> Seq(Row)]
           /\ \A e \in Docs : Len(reviews'[e]) = Len(reviews[e])
           /\ \A e \in Docs \ {d} : reviews'[e] = reviews[e]
           /\ \A i \in 1..Len(reviews[d]) :
                 reviews'[d][i] = IF i = Len(reviews[d]) THEN r ELSE reviews[d][i]
           /\ Len(reviews[d]) \in Nat \ {0}
<1> DEFINE s == reviews[d]
           n == Len(s)
<1>1. s \in Seq(Row) /\ s # <<>>
  BY DEF TypeOK
<1>2. n \in Nat \ {0}
  BY <1>1
<1>3. [s EXCEPT ![n] = r] \in Seq(Row) /\ Len([s EXCEPT ![n] = r]) = n
  BY <1>1, <1>2, ExceptSeq
<1>4. reviews' = [reviews EXCEPT ![d] = [s EXCEPT ![n] = r]]
  BY DEF SetLatest
<1>5. \A i \in 1..n : [s EXCEPT ![n] = r][i] = IF i = n THEN r ELSE s[i]
  BY <1>1
<1>6. QED
  BY <1>2, <1>3, <1>4, <1>5 DEF TypeOK

(* A row added at the end of the reviews of a document. *)
LEMMA RowAdded ==
    ASSUME TypeOK, NEW d \in Docs, NEW r \in Row,
           reviews' = [reviews EXCEPT ![d] = Append(reviews[d], r)]
    PROVE  /\ reviews' \in [Docs -> Seq(Row)]
           /\ Len(reviews[d]) \in Nat
           /\ Len(reviews'[d]) = Len(reviews[d]) + 1
           /\ \A e \in Docs \ {d} : reviews'[e] = reviews[e]
           /\ \A i \in 1..Len(reviews[d]) : reviews'[d][i] = reviews[d][i]
           /\ reviews'[d][Len(reviews[d]) + 1] = r
<1>1. reviews[d] \in Seq(Row) /\ reviews'[d] = Append(reviews[d], r)
  BY DEF TypeOK
<1>2. QED
  BY <1>1 DEF TypeOK

(* The latest row of a document is one. *)
LEMMA LatestIsARow ==
    ASSUME TypeOK, NEW d \in Docs, reviews[d] # <<>>
    PROVE  Latest(d) \in Row
BY DEF TypeOK, Latest

(* The rows that are there stay, with who made them. *)
Grown ==
    \A d \in Docs :
        /\ Len(reviews[d]) <= Len(reviews'[d])
        /\ \A i \in 1..Len(reviews[d]) : reviews'[d][i].by = reviews[d][i].by

(* ... and complete ones complete. *)
Completes ==
    \A d \in Docs : \A i \in 1..Len(reviews[d]) :
        reviews[d][i].status = "complete" => reviews'[d][i].status = "complete"

(* The resolved reviews of a document stay as they are. *)
Settled(d) ==
    \A i \in 1..Len(reviews[d]) :
        Resolved(reviews[d][i]) =>
            /\ reviews'[d][i].status = reviews[d][i].status
            /\ reviews'[d][i].scores = reviews[d][i].scores

RowsOK == reviews' \in [Docs -> Seq(Row)] /\ Grown /\ Completes

(* What writes no review keeps them. *)
LEMMA RowsSame ==
    ASSUME TypeOK, UNCHANGED reviews
    PROVE  RowsOK /\ \A e \in Docs : Settled(e)
BY DEF TypeOK, RowsOK, Grown, Completes, Settled

(* What a replaced row has to keep. *)
LEMMA Rewrite ==
    ASSUME TypeOK, NEW d \in Docs, reviews[d] # <<>>, NEW r \in Row, r.by = Latest(d).by,
           Latest(d).status = "complete" => r.status = "complete",
           SetLatest(d, r)
    PROVE  /\ RowsOK
           /\ \A e \in Docs \ {d} : Settled(e)
           /\ (Resolved(Latest(d)) => r.status = Latest(d).status /\ r.scores = Latest(d).scores)
                => Settled(d)
<1> DEFINE n(e) == Len(reviews[e])
<1>1. /\ reviews' \in [Docs -> Seq(Row)]
      /\ \A e \in Docs : Len(reviews'[e]) = n(e)
      /\ \A e \in Docs \ {d} : reviews'[e] = reviews[e]
      /\ \A i \in 1..n(d) : reviews'[d][i] = IF i = n(d) THEN r ELSE reviews[d][i]
      /\ n(d) \in Nat \ {0}
  BY RowReplaced
<1>2. \A e \in Docs : n(e) \in Nat
  BY DEF TypeOK
<1>3. reviews'[d][n(d)] = r /\ Latest(d) = reviews[d][n(d)]
  BY <1>1 DEF Latest
<1>4. ASSUME NEW e \in Docs, NEW i \in 1..n(e)
      PROVE  /\ e # d \/ i # n(d) => reviews'[e][i] = reviews[e][i]
             /\ reviews'[e][i].by = reviews[e][i].by
             /\ reviews[e][i].status = "complete" => reviews'[e][i].status = "complete"
  <2>1. CASE e # d \/ i # n(d)
    BY <1>1, <2>1
  <2>2. CASE e = d /\ i = n(d)
    BY <1>3, <2>2
  <2>3. QED
    BY <2>1, <2>2
<1>5. Grown /\ Completes
  BY <1>1, <1>2, <1>4 DEF Grown, Completes
<1>6. \A e \in Docs \ {d} : Settled(e)
  BY <1>1 DEF Settled
<1>7. ASSUME Resolved(Latest(d)) => r.status = Latest(d).status /\ r.scores = Latest(d).scores
      PROVE  Settled(d)
  <2> SUFFICES ASSUME NEW i \in 1..n(d), Resolved(reviews[d][i])
               PROVE  /\ reviews'[d][i].status = reviews[d][i].status
                      /\ reviews'[d][i].scores = reviews[d][i].scores
    BY DEF Settled
  <2>1. CASE i # n(d)
    BY <1>4, <2>1
  <2>2. CASE i = n(d)
    BY <1>3, <1>7, <2>2
  <2>3. QED
    BY <2>1, <2>2
<1>8. QED
  BY <1>1, <1>5, <1>6, <1>7 DEF RowsOK

(* A new version leaves the others alone. *)
LEMMA Added ==
    ASSUME TypeOK, NEW d \in Docs, NEW r \in Row,
           reviews' = [reviews EXCEPT ![d] = Append(reviews[d], r)]
    PROVE  /\ RowsOK
           /\ \A e \in Docs : Settled(e)
           /\ Len(reviews'[d]) = Len(reviews[d]) + 1
           /\ reviews'[d][Len(reviews[d]) + 1] = r
<1> DEFINE n(e) == Len(reviews[e])
<1>1. /\ reviews' \in [Docs -> Seq(Row)]
      /\ n(d) \in Nat
      /\ Len(reviews'[d]) = n(d) + 1
      /\ \A e \in Docs \ {d} : reviews'[e] = reviews[e]
      /\ \A i \in 1..n(d) : reviews'[d][i] = reviews[d][i]
      /\ reviews'[d][n(d) + 1] = r
  BY RowAdded
<1>2. \A e \in Docs : n(e) \in Nat
  BY DEF TypeOK
<1>3. \A e \in Docs : \A i \in 1..n(e) : reviews'[e][i] = reviews[e][i]
  BY <1>1
<1>4. Grown /\ Completes /\ \A e \in Docs : Settled(e)
  BY <1>1, <1>2, <1>3 DEF Grown, Completes, Settled
<1>5. QED
  BY <1>1, <1>4 DEF RowsOK

-----------------------------------------------------------------------------
(* The steps that write a row. *)

Completed(d, v) == [Latest(d) EXCEPT !.status = "complete", !.scores = v]

(* A completed row is a row, with who made it. *)
LEMMA CompletedIsARow ==
    ASSUME TypeOK, NEW d \in Docs, reviews[d] # <<>>, NEW v \in {"null", "set"}
    PROVE  /\ Completed(d, v) \in Row /\ Completed(d, v).by = Latest(d).by
           /\ Completed(d, v).status = "complete"
BY LatestIsARow DEF Completed, Row

(* A pass goes from one place to another, alone. *)
LEMMA Moves ==
    ASSUME TypeOK, NEW d \in Docs, NEW w \in Passes, NEW at \in Place, Go(d, w, at)
    PROVE  /\ pass' \in [Docs -> [Passes -> Place]]
           /\ pass'[d][w] = at
           /\ \A e \in Docs, v \in Passes : e # d \/ v # w => pass'[e][v] = pass[e][v]
<1>1. pass \in [Docs -> [Passes -> Place]]
  BY DEF TypeOK
<1>2. pass' = [pass EXCEPT ![d] = [pass[d] EXCEPT ![w] = at]]
  BY DEF Go
<1>3. [pass[d] EXCEPT ![w] = at] \in [Passes -> Place]
  BY <1>1
<1>4. QED
  BY <1>1, <1>2, <1>3

(* The last write of a pass completes the latest review, whatever its status. *)
LEMMA PassWrites ==
    ASSUME ReviewInv, NEW d \in Docs, NEW w \in Passes,
           WriteResult(d, w) \/ WriteNulls(d, w) \/ WriteWithoutChunks(d, w)
    PROVE  /\ RowsOK
           /\ \A e \in Docs \ {d} : Settled(e)
           /\ Settled(d) \/ (Deciding(d, w) /\ ~Deciding(d, w)')
<1>1. TypeOK /\ Deciding(d, w) /\ reviews[d] # <<>>
  BY DEF ReviewInv, PassHasReview, WriteResult, WriteNulls, WriteWithoutChunks, At, Deciding
<1>2. \/ \E v \in {"null", "set"} : SetLatest(d, Completed(d, v)) /\ Go(d, w, "finish")
      \/ UNCHANGED reviews
  <2>1. result[d][w] \in {"null", "set"}
    BY <1>1 DEF TypeOK
  <2>2. CASE WriteResult(d, w)
    BY <2>1, <2>2 DEF WriteResult, Complete, Completed
  <2>3. CASE WriteNulls(d, w) \/ WriteWithoutChunks(d, w)
    BY <2>3 DEF WriteNulls, WriteWithoutChunks, Complete, Completed
  <2>4. QED
    BY <2>2, <2>3
<1>3. CASE UNCHANGED reviews
  BY <1>1, <1>3, RowsSame
<1>4. ASSUME NEW v \in {"null", "set"}, SetLatest(d, Completed(d, v)), Go(d, w, "finish")
      PROVE  RowsOK /\ (\A e \in Docs \ {d} : Settled(e)) /\ ~Deciding(d, w)'
  <2>1. RowsOK /\ \A e \in Docs \ {d} : Settled(e)
    BY <1>1, <1>4, CompletedIsARow, Rewrite
  <2>2. pass'[d][w] = "finish"
    BY <1>1, <1>4, Moves DEF Place
  <2>3. QED
    BY <2>1, <2>2 DEF Deciding
<1>5. QED
  BY <1>1, <1>2, <1>3, <1>4

(* The pass marks a pending review that it has begun. *)
LEMMA PassMarks ==
    ASSUME ReviewInv, NEW d \in Docs, NEW w \in Passes, MarkReviewRunning(d, w)
    PROVE  RowsOK /\ \A e \in Docs : Settled(e)
<1> DEFINE r == [Latest(d) EXCEPT !.status = "running"]
<1>1. TypeOK /\ reviews[d] # <<>>
  BY DEF ReviewInv, PassHasReview, MarkReviewRunning, At, Deciding
<1>2. CASE UNCHANGED reviews
  BY <1>1, <1>2, RowsSame
<1>3. CASE Latest(d).status = "pending" /\ SetLatest(d, r)
  <2>1. Latest(d) \in Row /\ ~Resolved(Latest(d)) /\ Latest(d).status # "complete"
    BY <1>1, <1>3, LatestIsARow DEF Resolved
  <2>2. r \in Row /\ r.by = Latest(d).by
    BY <2>1 DEF Row
  <2> HIDE DEF r
  <2>3. QED
    BY <1>1, <1>3, <2>1, <2>2, Rewrite
<1>4. QED
  BY <1>2, <1>3 DEF MarkReviewRunning

(* A failed document takes its open review with it, and no other. *)
LEMMA CascadeWrites ==
    ASSUME ReviewInv, NEW d \in Docs, NEW w \in Passes, Cascade(d, w)
    PROVE  RowsOK /\ \A e \in Docs : Settled(e)
<1> DEFINE r == [Latest(d) EXCEPT !.status = "failed"]
<1>1. TypeOK
  BY DEF ReviewInv
<1>2. CASE UNCHANGED reviews
  BY <1>1, <1>2, RowsSame
<1>3. CASE Unresolved(d) /\ SetLatest(d, r)
  <2>1. /\ reviews[d] # <<>> /\ Latest(d) \in Row
        /\ ~Resolved(Latest(d)) /\ Latest(d).status # "complete"
    BY <1>1, <1>3, LatestIsARow DEF Unresolved, Resolved
  <2>2. r \in Row /\ r.by = Latest(d).by
    BY <2>1 DEF Row
  <2> HIDE DEF r
  <2>3. QED
    BY <1>1, <1>3, <2>1, <2>2, Rewrite
<1>4. QED
  BY <1>2, <1>3 DEF Cascade, FailRow

(* A tier is written into the latest row, whose status stays. *)
LEMMA PatchWrites ==
    ASSUME ReviewInv, NEW p \in Patches, PatchTier(p)
    PROVE  RowsOK /\ \A e \in Docs : Settled(e)
<1> DEFINE d == p.doc
           r == [Latest(d) EXCEPT !.tier = p.tier]
<1>1. TypeOK /\ d \in Docs /\ p.tier \in ReportTier
  BY ConstantsAssumption DEF ReviewInv
<1>2. CASE UNCHANGED reviews
  BY <1>1, <1>2, RowsSame
<1>3. CASE reviews[d] # <<>> /\ SetLatest(d, r)
  <2>1. Latest(d) \in Row
    BY <1>1, <1>3, LatestIsARow
  <2>2. r \in Row /\ r.by = Latest(d).by /\ r.status = Latest(d).status /\ r.scores = Latest(d).scores
    BY <1>1, <2>1 DEF Row
  <2> HIDE DEF r, d
  <2>3. QED
    BY <1>1, <1>3, <2>2, Rewrite
<1>4. QED
  BY <1>2, <1>3 DEF PatchTier

(* The first review of a document. *)
LEMMA InitialRow ==
    ASSUME ReviewInv, NEW d \in Docs, CreateInitialReview(d)
    PROVE  RowsOK /\ \A e \in Docs : Settled(e)
<1>1. TypeOK
  BY DEF ReviewInv
<1>2. CASE UNCHANGED reviews
  BY <1>1, <1>2, RowsSame
<1>3. ASSUME reviews[d] = <<>>, NEW t \in ReportTier,
             reviews' = [reviews EXCEPT ![d] = <<[by |-> "auto_on_publish", status |-> "pending",
                                                  scores |-> "none", tier |-> t]>>]
      PROVE  RowsOK /\ \A e \in Docs : Settled(e)
  <2> DEFINE r == [by |-> "auto_on_publish", status |-> "pending", scores |-> "none", tier |-> t]
  <2>1. r \in Row
    BY DEF Row, By
  <2> HIDE DEF r
  <2>2. <<r>> = Append(reviews[d], r)
    BY <1>3
  <2>3. reviews' = [reviews EXCEPT ![d] = Append(reviews[d], r)]
    BY <1>3, <2>2 DEF r
  <2>4. QED
    BY <1>1, <2>1, <2>3, Added
<1>4. QED
  BY <1>2, <1>3 DEF CreateInitialReview

(* A trigger adds a review. *)
LEMMA TriggerWrites ==
    ASSUME ReviewInv, NEW t \in Triggers, InsertReview(t)
    PROVE  RowsOK /\ \A e \in Docs : Settled(e)
<1>1. TypeOK /\ t.doc \in Docs
  BY ConstantsAssumption DEF ReviewInv
<1>2. NewRow(t.by) \in Row
  BY ConstantsAssumption DEF NewRow, Row, ReportTier
<1>3. CASE UNCHANGED reviews
  BY <1>1, <1>3, RowsSame
<1>4. CASE reviews' = [reviews EXCEPT ![t.doc] = Append(reviews[t.doc], NewRow(t.by))]
  BY <1>1, <1>2, <1>4, Added
<1>5. QED
  BY <1>3, <1>4 DEF InsertReview

-----------------------------------------------------------------------------
(* Every step. *)

(* The steps of a publish handler, and of an operator. *)
Handler(d) == Screen(d) \/ SaveDocument(d) \/ CreateInitialReview(d) \/ Reprocess(d)

(* The steps of a pass that touch no review, and those that do. *)
Plain(d, w) ==
    \/ Take(d, w) \/ Begin(d, w) \/ Steps(d, w) \/ Stop(d, w) \/ ReadReview(d, w)
    \/ Compute(d, w) \/ Finish(d, w) \/ Fail(d, w)
Writes(d, w) ==
    \/ MarkReviewRunning(d, w) \/ WriteResult(d, w) \/ WriteNulls(d, w)
    \/ WriteWithoutChunks(d, w) \/ Cascade(d, w)

(* What ends a process, or is no document's. *)
Around == (\E k \in Keys : DayPasses(k)) \/ Sweep \/ Restart \/ RunnerCrash \/ Recover

(* The steps by what they write. *)
LEMMA NextCases ==
    ASSUME [Next]_vars
    PROVE  \/ UNCHANGED vars
           \/ \E d \in Docs : Handler(d)
           \/ \E d \in Docs, w \in Passes : Plain(d, w) \/ Writes(d, w)
           \/ \E t \in Triggers : ReadLatest(t) \/ InsertReview(t)
           \/ \E p \in Patches : ReceivePatch(p) \/ PatchTier(p) \/ Remember(p)
           \/ Around
BY DEF Next, Pass, Handler, Plain, Writes, Around

(* A handler leaves the passes and the requests alone. *)
LEMMA HandlerFrame ==
    ASSUME NEW d \in Docs, Handler(d)
    PROVE  UNCHANGED <<passes, calls, lost>> /\ (UNCHANGED reviews \/ CreateInitialReview(d))
BY DEF Handler, Screen, SaveDocument, CreateInitialReview, Reprocess

(* A plain step of a pass writes no review and no request. *)
LEMMA PlainFrame ==
    ASSUME NEW d \in Docs, NEW w \in Passes, Plain(d, w)
    PROVE  UNCHANGED <<reviews, calls, tier, pc, lost>>
BY DEF Plain, Take, Begin, Steps, Stop, ReadReview, Compute, Finish, Fail, docs, intake

(* A step of a pass that writes a review leaves the requests alone. *)
LEMMA WritesFrame ==
    ASSUME NEW d \in Docs, NEW w \in Passes, Writes(d, w)
    PROVE  UNCHANGED <<calls, docs, intake>>
BY DEF Writes, MarkReviewRunning, WriteResult, WriteNulls, WriteWithoutChunks, Cascade

(* What is around the documents writes no review. *)
LEMMA AroundFrame == ASSUME Around PROVE UNCHANGED reviews
BY DEF Around, DayPasses, Sweep, Restart, RunnerCrash, Recover

(* Every step keeps the rows that are there; a resolved one is rewritten only by
   the last write of a pass. *)
LEMMA RowsStep ==
    ASSUME ReviewInv, [Next]_vars
    PROVE  /\ RowsOK
           /\ \A d \in Docs : Settled(d) \/ \E w \in Passes : Deciding(d, w) /\ ~Deciding(d, w)'
<1>1. CASE UNCHANGED reviews
  BY <1>1, RowsSame DEF ReviewInv
<1>2. ASSUME NEW d \in Docs, CreateInitialReview(d) PROVE RowsOK /\ \A e \in Docs : Settled(e)
  BY <1>2, InitialRow
<1>3. ASSUME NEW d \in Docs, NEW w \in Passes, Writes(d, w)
      PROVE  /\ RowsOK
             /\ \A e \in Docs : Settled(e) \/ \E v \in Passes : Deciding(e, v) /\ ~Deciding(e, v)'
  <2>1. CASE WriteResult(d, w) \/ WriteNulls(d, w) \/ WriteWithoutChunks(d, w)
    BY <2>1, PassWrites
  <2>2. CASE MarkReviewRunning(d, w) \/ Cascade(d, w)
    BY <2>2, PassMarks, CascadeWrites
  <2>3. QED
    BY <1>3, <2>1, <2>2 DEF Writes
<1>4. ASSUME NEW t \in Triggers, InsertReview(t) PROVE RowsOK /\ \A e \in Docs : Settled(e)
  BY <1>4, TriggerWrites
<1>5. ASSUME NEW p \in Patches, PatchTier(p) PROVE RowsOK /\ \A e \in Docs : Settled(e)
  BY <1>5, PatchWrites
<1>6. QED
  BY <1>1, <1>2, <1>3, <1>4, <1>5, NextCases, HandlerFrame, PlainFrame, AroundFrame
  DEF vars, ReadLatest, ReceivePatch, Remember

(* A pass begins to decide only when it reads a review that is open. *)
LEMMA Decides ==
    ASSUME TypeOK, [Next]_vars, NEW d \in Docs, NEW w \in Passes, Deciding(d, w)'
    PROVE  Deciding(d, w) \/ Unresolved(d)
<1>1. CASE UNCHANGED pass
  BY <1>1 DEF Deciding
<1>2. ASSUME NEW e \in Docs, NEW v \in Passes, NEW at \in Place, Go(e, v, at),
             at \notin {"noChunks", "running", "compute", "write", "writeNull"} \/ Deciding(e, v) \/ Unresolved(e)
      PROVE  Deciding(d, w) \/ Unresolved(d)
  <2>1. /\ pass'[e][v] = at
        /\ e # d \/ v # w => pass'[d][w] = pass[d][w]
    BY <1>2, Moves
  <2>2. QED
    BY <1>2, <2>1 DEF Deciding
<1>3. ASSUME NEW e \in Docs, NEW v \in Passes, Plain(e, v) PROVE Deciding(d, w) \/ Unresolved(d)
  <2>1. CASE Take(e, v) \/ Begin(e, v) \/ Stop(e, v) \/ Fail(e, v)
    BY <1>2, <2>1 DEF Take, Begin, Stop, Fail, Place
  <2>2. CASE Steps(e, v) \/ Finish(e, v)
    BY <1>2, <2>2 DEF Steps, Finish, Place
  <2>3. CASE ReadReview(e, v)
    BY <1>2, <2>3 DEF ReadReview, Place
  <2>4. CASE Compute(e, v)
    <3>1. Deciding(e, v)
      BY <2>4 DEF Compute, At, Deciding
    <3>2. QED
      BY <1>2, <2>4, <3>1 DEF Compute, Place
  <2>5. QED
    BY <1>3, <2>1, <2>2, <2>3, <2>4 DEF Plain
<1>4. ASSUME NEW e \in Docs, NEW v \in Passes, Writes(e, v) PROVE Deciding(d, w) \/ Unresolved(d)
  <2>1. CASE Cascade(e, v)
    BY <1>2, <2>1 DEF Cascade, Place
  <2>2. CASE ~Cascade(e, v)
    <3>1. Deciding(e, v)
      BY <1>4, <2>2 DEF Writes, MarkReviewRunning, WriteResult, WriteNulls, WriteWithoutChunks, At, Deciding
    <3>2. \E at \in Place : Go(e, v, at)
      BY <1>4, <2>2 DEF Writes, MarkReviewRunning, WriteResult, WriteNulls, WriteWithoutChunks, Place
    <3>3. QED
      BY <1>2, <3>1, <3>2
  <2>3. QED
    BY <2>1, <2>2
<1>5. ASSUME NEW v \in PassKinds, Killed(v) PROVE Deciding(d, w) \/ Unresolved(d)
  <2>1. pass'[d][w] \in {"idle", pass[d][w]}
    BY <1>5 DEF Killed
  <2>2. QED
    BY <2>1 DEF Deciding
<1>6. CASE Around
  BY <1>1, <1>5, <1>6 DEF Around, DayPasses, Sweep, Restart, RunnerCrash, Recover, passes, PassKinds
<1>7. QED
  BY <1>1, <1>3, <1>4, <1>6, NextCases, HandlerFrame
  DEF vars, passes, ReadLatest, InsertReview, ReceivePatch, PatchTier, Remember

(* Every step keeps what a pass counts on. *)
LEMMA PassStep == ASSUME ReviewInv, [Next]_vars PROVE PassHasReview'
<1> SUFFICES ASSUME NEW d \in Docs, NEW w \in Passes, Deciding(d, w)' PROVE reviews'[d] # <<>>
  BY DEF PassHasReview
<1>1. TypeOK /\ reviews[d] # <<>>
  BY Decides DEF ReviewInv, PassHasReview, Unresolved
<1>2. reviews[d] \in Seq(Row) /\ reviews'[d] \in Seq(Row) /\ Len(reviews[d]) <= Len(reviews'[d])
  BY <1>1, RowsStep DEF TypeOK, RowsOK, Grown
<1>3. QED
  BY <1>1, <1>2

(* A fault is counted. *)
LEMMA FaultType ==
    ASSUME TypeOK, UNCHANGED faults \/ \E f \in FaultKinds : Fault(f)
    PROVE  faults' \in 0..MaxFaults
BY ConstantsAssumption DEF TypeOK, Fault

StatusType == {"absent", "refused", "downloaded", "in_flight", "ready", "failed"}
RequestPC  == {"unsent", "new", "insert", "existing", "created", "error"}
PatchPC    == {"unsent", "new", "update", "remember", "done", "dated", "replayed", "not_found",
               "forgotten"}
TierOrNone == ReportTier \cup {"none"}
KeyType    == [previous : TierOrNone, current : TierOrNone, aged : BOOLEAN]

(* The types of a trigger that is answered. *)
LEMMA EndedType ==
    ASSUME TypeOK, NEW t \in Triggers, NEW how \in RequestPC, NEW v \in Nat, Ended(t, how, v)
    PROVE  request' \in [Triggers -> [pc : RequestPC, version : Nat]]
BY DEF TypeOK, Ended, RequestPC

(* The types of a patch that is answered. *)
LEMMA AnsweredType ==
    ASSUME TypeOK, NEW p \in Patches, NEW how \in PatchPC, NEW old \in TierOrNone,
           NEW new \in TierOrNone, Answered(p, how, old, new)
    PROVE  patch' \in [Patches -> [pc : PatchPC, previous : TierOrNone, current : TierOrNone]]
BY DEF TypeOK, Answered, PatchPC, TierOrNone

(* The place of a pass that makes a step is one. *)
LEMMA Walks ==
    ASSUME TypeOK, NEW d \in Docs, NEW w \in Passes, Plain(d, w) \/ Writes(d, w)
    PROVE  pass' \in [Docs -> [Passes -> Place]]
<1>1. CASE Plain(d, w)
  <2>1. \E at \in Place : Go(d, w, at)
    BY <1>1 DEF Plain, Take, Begin, Steps, Stop, ReadReview, Compute, Finish, Fail, Place
  <2>2. QED
    BY <2>1, Moves
<1>2. CASE Writes(d, w)
  <2>1. \E at \in Place : Go(d, w, at)
    BY <1>2 DEF Writes, MarkReviewRunning, WriteResult, WriteNulls, WriteWithoutChunks, Cascade, Place
  <2>2. QED
    BY <2>1, Moves
<1>3. QED
  BY <1>1, <1>2

(* What a pass computes has its type. *)
LEMMA ResultType ==
    ASSUME TypeOK, NEW d \in Docs, NEW w \in Passes,
           UNCHANGED result \/ \E r \in {"null", "set"} : result' = [result EXCEPT ![d][w] = r]
    PROVE  result' \in [Docs -> [Passes -> {"null", "set"}]]
<1>1. CASE UNCHANGED result
  BY <1>1 DEF TypeOK
<1>2. ASSUME NEW r \in {"null", "set"}, result' = [result EXCEPT ![d][w] = r]
      PROVE  result' \in [Docs -> [Passes -> {"null", "set"}]]
  <2>1. [result[d] EXCEPT ![w] = r] \in [Passes -> {"null", "set"}]
    BY DEF TypeOK
  <2>2. result' = [result EXCEPT ![d] = [result[d] EXCEPT ![w] = r]]
    BY <1>2
  <2>3. QED
    BY <2>1, <2>2 DEF TypeOK
<1>3. QED
  BY <1>1, <1>2

(* A process that dies leaves typed variables. *)
LEMMA KilledType ==
    ASSUME TypeOK, NEW w \in PassKinds, Killed(w)
    PROVE  /\ pass' \in [Docs -> [Passes -> Place]]
           /\ result' \in [Docs -> [Passes -> {"null", "set"}]]
           /\ lost' \in [Docs -> BOOLEAN]
<1>1. "idle" \in Place
  BY DEF Place
<1>2. QED
  BY <1>1 DEF TypeOK, Killed

(* Every step keeps the types. *)
LEMMA TypeStep == ASSUME ReviewInv, [Next]_vars PROVE TypeOK'
<1>1. TypeOK /\ reviews' \in [Docs -> Seq(Row)]
  BY RowsStep DEF ReviewInv, RowsOK
<1>2. CASE UNCHANGED vars
  BY <1>1, <1>2 DEF TypeOK, vars, docs, intake, passes, calls
<1>3. ASSUME NEW d \in Docs, Handler(d) PROVE TypeOK'
  <2>1. faults' \in 0..MaxFaults
    BY <1>1, <1>3, FaultType DEF Handler, Screen, SaveDocument, CreateInitialReview, Reprocess, FaultKinds
  <2>2. UNCHANGED <<tier, passes, calls, lost>>
    BY <1>3 DEF Handler, Screen, SaveDocument, CreateInitialReview, Reprocess, docs
  <2>3. /\ status' \in [Docs -> StatusType]
        /\ pc' \in [Docs -> {"idle", "save", "row"}]
        /\ queued' \subseteq Docs
    BY <1>1, <1>3 DEF Handler, Screen, SaveDocument, CreateInitialReview, Reprocess, docs, intake, TypeOK,
       StatusType, Goto
  <2>4. QED
    BY <1>1, <2>1, <2>2, <2>3 DEF TypeOK, StatusType, passes, calls
<1>4. ASSUME NEW d \in Docs, NEW w \in Passes, Plain(d, w) PROVE TypeOK'
  <2>1. faults' \in 0..MaxFaults
    BY <1>1, <1>4, FaultType DEF Plain, Take, Begin, Steps, Stop, ReadReview, Compute, Finish, Fail,
       FaultKinds
  <2>2. UNCHANGED <<tier, pc, calls, lost>>
    BY <1>4, PlainFrame
  <2>3. pass' \in [Docs -> [Passes -> Place]]
    BY <1>1, <1>4, Walks
  <2>4. queued' \subseteq Docs
    BY <1>1, <1>4 DEF Plain, Take, Begin, Steps, Stop, ReadReview, Compute, Finish, Fail, TypeOK, intake
  <2>5. status' \in [Docs -> StatusType]
    <3>1. UNCHANGED status \/ \E x \in StatusType : status' = [status EXCEPT ![d] = x]
      BY <1>4 DEF Plain, Take, Begin, Steps, Stop, ReadReview, Compute, Finish, Fail, docs, StatusType
    <3>2. QED
      BY <1>1, <3>1 DEF TypeOK, StatusType
  <2>6. result' \in [Docs -> [Passes -> {"null", "set"}]]
    <3>1. UNCHANGED result \/ \E r \in {"null", "set"} : result' = [result EXCEPT ![d][w] = r]
      BY <1>4 DEF Plain, Take, Begin, Steps, Stop, ReadReview, Compute, Finish, Fail
    <3>2. QED
      BY <1>1, <3>1, ResultType
  <2>7. QED
    BY <1>1, <2>1, <2>2, <2>3, <2>4, <2>5, <2>6 DEF TypeOK, StatusType, calls
<1>5. ASSUME NEW d \in Docs, NEW w \in Passes, Writes(d, w) PROVE TypeOK'
  <2>1. faults' \in 0..MaxFaults
    BY <1>1, <1>5, FaultType DEF Writes, MarkReviewRunning, WriteResult, WriteNulls,
       WriteWithoutChunks, Cascade, FaultKinds
  <2>2. UNCHANGED <<calls, docs, intake>>
    BY <1>5, WritesFrame
  <2>3. pass' \in [Docs -> [Passes -> Place]]
    BY <1>1, <1>5, Walks
  <2>4. lost' \in [Docs -> BOOLEAN]
    BY <1>1, <1>5 DEF Writes, MarkReviewRunning, WriteResult, WriteNulls, WriteWithoutChunks, Cascade,
       TypeOK
  <2>5. result' \in [Docs -> [Passes -> {"null", "set"}]]
    <3>1. UNCHANGED result \/ result' = [result EXCEPT ![d][w] = "null"]
      BY <1>5 DEF Writes, MarkReviewRunning, WriteResult, WriteNulls, WriteWithoutChunks, Cascade
    <3>2. QED
      BY <1>1, <3>1, ResultType
  <2>6. QED
    BY <1>1, <2>1, <2>2, <2>3, <2>4, <2>5 DEF TypeOK, docs, intake, calls
<1>6. ASSUME NEW t \in Triggers, ReadLatest(t) \/ InsertReview(t) PROVE TypeOK'
  <2>1. Len(reviews[t.doc]) \in Nat /\ request[t].version \in Nat
    BY <1>1, ConstantsAssumption DEF TypeOK
  <2>2. request' \in [Triggers -> [pc : RequestPC, version : Nat]]
    <3>1. CASE ReadLatest(t)
      <4>1. \E how \in RequestPC : Ended(t, how, Len(reviews[t.doc]))
        BY <3>1 DEF ReadLatest, RequestPC
      <4>2. QED
        BY <1>1, <2>1, <4>1, EndedType
    <3>2. CASE InsertReview(t)
      <4>1. \E how \in RequestPC, v \in {request[t].version + 1, 0} : Ended(t, how, v)
        BY <3>2 DEF InsertReview, RequestPC
      <4>2. QED
        BY <1>1, <2>1, <4>1, EndedType
    <3>3. QED
      BY <1>6, <3>1, <3>2
  <2>3. UNCHANGED <<docs, intake, passes, patch, keys, faults, lost>>
    BY <1>6 DEF ReadLatest, InsertReview
  <2>4. QED
    BY <1>1, <2>2, <2>3 DEF TypeOK, docs, intake, passes, RequestPC
<1>7. ASSUME NEW p \in Patches, ReceivePatch(p) \/ PatchTier(p) \/ Remember(p) PROVE TypeOK'
  <2>1. /\ p.key \in Keys /\ p.tier \in ReportTier
        /\ reviews[p.doc] # <<>> => Latest(p.doc).tier \in ReportTier
    BY <1>1, ConstantsAssumption, LatestIsARow DEF Keys, Row
  <2>2. /\ keys[p.key].previous \in ReportTier \cup {"none"}
        /\ keys[p.key].current \in ReportTier \cup {"none"}
        /\ patch[p].previous \in ReportTier \cup {"none"}
        /\ patch[p].current \in ReportTier \cup {"none"}
    BY <1>1, <2>1 DEF TypeOK
  <2>3. patch' \in [Patches -> [pc : PatchPC, previous : TierOrNone, current : TierOrNone]]
    <3>1. CASE ReceivePatch(p)
      <4>1. \E how \in PatchPC, old \in TierOrNone, new \in TierOrNone : Answered(p, how, old, new)
        BY <2>2, <3>1 DEF ReceivePatch, PatchPC, TierOrNone
      <4>2. QED
        BY <1>1, <4>1, AnsweredType
    <3>2. CASE PatchTier(p)
      <4>1. \E how \in PatchPC, old \in TierOrNone, new \in TierOrNone : Answered(p, how, old, new)
        BY <2>1, <3>2 DEF PatchTier, PatchPC, TierOrNone
      <4>2. QED
        BY <1>1, <4>1, AnsweredType
    <3>3. CASE Remember(p)
      <4>1. patch' = [patch EXCEPT ![p] = [patch[p] EXCEPT !.pc = "done"]]
        BY <3>3 DEF Remember
      <4>2. patch[p] \in [pc : PatchPC, previous : TierOrNone, current : TierOrNone]
        BY <1>1 DEF TypeOK, PatchPC, TierOrNone
      <4>3. [patch[p] EXCEPT !.pc = "done"] \in [pc : PatchPC, previous : TierOrNone, current : TierOrNone]
        BY <4>2 DEF PatchPC
      <4>4. patch \in [Patches -> [pc : PatchPC, previous : TierOrNone, current : TierOrNone]]
        BY <1>1 DEF TypeOK, PatchPC, TierOrNone
      <4>5. QED
        BY <4>1, <4>3, <4>4
    <3>4. QED
      BY <1>7, <3>1, <3>2, <3>3
  <2>4. keys' \in [Keys -> KeyType]
    <3>1. Answer(p) \in KeyType
      BY <2>2 DEF Answer, KeyType, TierOrNone
    <3>2. UNCHANGED keys \/ keys' = [keys EXCEPT ![p.key] = Answer(p)]
      BY <1>7 DEF ReceivePatch, PatchTier, Remember
    <3>3. QED
      BY <1>1, <2>1, <3>1, <3>2 DEF TypeOK, KeyType, TierOrNone
  <2>5. UNCHANGED <<docs, intake, passes, request, faults, lost>>
    BY <1>7 DEF ReceivePatch, PatchTier, Remember
  <2>6. QED
    BY <1>1, <2>3, <2>4, <2>5 DEF TypeOK, docs, intake, passes, PatchPC, TierOrNone, KeyType
<1>8. CASE Around
  <2>1. faults' \in 0..MaxFaults
    BY <1>1, <1>8, FaultType DEF Around, DayPasses, Sweep, Restart, RunnerCrash, Recover, FaultKinds
  <2>2. /\ pass' \in [Docs -> [Passes -> Place]]
        /\ result' \in [Docs -> [Passes -> {"null", "set"}]]
        /\ lost' \in [Docs -> BOOLEAN]
    <3>1. UNCHANGED <<passes, lost>> \/ \E w \in PassKinds : Killed(w)
      BY <1>8 DEF Around, DayPasses, Sweep, Restart, RunnerCrash, Recover, PassKinds
    <3>2. CASE UNCHANGED <<passes, lost>>
      BY <1>1, <3>2 DEF TypeOK, passes
    <3>3. QED
      BY <1>1, <3>1, <3>2, KilledType
  <2>3. UNCHANGED tier /\ status' \in [Docs -> StatusType]
    BY <1>1, <1>8 DEF Around, DayPasses, Sweep, Restart, RunnerCrash, Recover, docs, TypeOK, StatusType
  <2>4. pc' \in [Docs -> {"idle", "save", "row"}] /\ queued' \subseteq Docs
    BY <1>1, <1>8 DEF Around, DayPasses, Sweep, Restart, RunnerCrash, Recover, intake, TypeOK
  <2>5. request' \in [Triggers -> [pc : RequestPC, version : Nat]]
    BY <1>1, <1>8 DEF Around, DayPasses, Sweep, Restart, RunnerCrash, Recover, calls, TypeOK, RequestPC
  <2>6. patch' \in [Patches -> [pc : PatchPC, previous : TierOrNone, current : TierOrNone]]
    <3>1. patch \in [Patches -> [pc : PatchPC, previous : TierOrNone, current : TierOrNone]]
      BY <1>1 DEF TypeOK, PatchPC, TierOrNone
    <3>2. ASSUME NEW k \in Keys, DayPasses(k)
          PROVE  patch' \in [Patches -> [pc : PatchPC, previous : TierOrNone, current : TierOrNone]]
      BY <3>1, <3>2 DEF DayPasses, PatchPC
    <3>3. CASE Restart
      BY <3>1, <3>3 DEF Restart, PatchPC, TierOrNone
    <3>4. QED
      BY <1>8, <3>1, <3>2, <3>3 DEF Around, Sweep, RunnerCrash, Recover, calls
  <2>7. keys' \in [Keys -> KeyType]
    <3>1. keys \in [Keys -> KeyType] /\ NoKey \in KeyType
      BY <1>1 DEF TypeOK, KeyType, TierOrNone, NoKey
    <3>2. ASSUME NEW k \in Keys, DayPasses(k) PROVE keys' \in [Keys -> KeyType]
      <4>1. [keys[k] EXCEPT !.aged = TRUE] \in KeyType
        BY <3>1 DEF KeyType
      <4>2. keys' = [keys EXCEPT ![k] = [keys[k] EXCEPT !.aged = TRUE]]
        BY <3>2 DEF DayPasses
      <4>3. QED
        BY <3>1, <4>1, <4>2
    <3>3. QED
      BY <1>8, <3>1, <3>2 DEF Around, Sweep, Restart, RunnerCrash, Recover, calls
  <2>8. QED
    BY <1>1, <2>1, <2>2, <2>3, <2>4, <2>5, <2>6, <2>7
    DEF TypeOK, StatusType, RequestPC, PatchPC, TierOrNone, KeyType
<1>9. QED
  BY <1>2, <1>3, <1>4, <1>5, <1>6, <1>7, <1>8, NextCases

(* Every step keeps the versions distinct. *)
LEMMA TriggerStep == ASSUME ReviewInv, [Next]_vars PROVE TriggerRead' /\ TriggersDistinct'
<1>1. /\ TypeOK /\ TriggerRead /\ TriggersDistinct
      /\ reviews' \in [Docs -> Seq(Row)] /\ Grown
  BY RowsStep DEF ReviewInv, RowsOK
<1>2. \A t \in Triggers : /\ t.doc \in Docs
                          /\ Len(reviews[t.doc]) \in Nat /\ Len(reviews'[t.doc]) \in Nat
                          /\ request[t].version \in Nat
  BY <1>1, ConstantsAssumption DEF TypeOK
<1>3. ASSUME \A t \in Triggers : request'[t] = request[t] \/ request'[t].pc \in {"existing", "error"}
      PROVE  TriggerRead' /\ TriggersDistinct'
  <2>1. TriggerRead'
    BY <1>1, <1>2, <1>3 DEF TriggerRead, Grown
  <2>2. ASSUME NEW t \in Triggers, request'[t].pc = "created"
        PROVE  /\ request'[t].version \in 1..Len(reviews'[t.doc])
               /\ reviews'[t.doc][request'[t].version].by = t.by
    BY <1>1, <1>2, <1>3, <2>2 DEF TriggersDistinct, Grown
  <2>3. ASSUME NEW t \in Triggers, NEW u \in Triggers \ {t}, request'[t].pc = "created",
               u.doc = t.doc, request'[u].pc = "created"
        PROVE  request'[u].version # request'[t].version
    BY <1>1, <1>3, <2>3 DEF TriggersDistinct
  <2>4. QED
    BY <2>1, <2>2, <2>3 DEF TriggersDistinct
<1>4. CASE UNCHANGED request
  BY <1>3, <1>4
<1>5. ASSUME NEW t \in Triggers, ReadLatest(t) PROVE TriggerRead' /\ TriggersDistinct'
  <2>1. CASE request'[t].pc = "existing"
    BY <1>1, <1>3, <1>5, <2>1 DEF ReadLatest, Ended, TypeOK
  <2>2. CASE request'[t].pc # "existing"
    <3>1. /\ request'[t] = [pc |-> "insert", version |-> Len(reviews[t.doc])]
          /\ \A u \in Triggers \ {t} : request'[u] = request[u]
          /\ UNCHANGED reviews
      BY <1>1, <1>5, <2>2 DEF ReadLatest, Ended, TypeOK
    <3>2. TriggerRead'
      BY <1>1, <1>2, <3>1 DEF TriggerRead
    <3>3. \A u \in Triggers : request'[u].pc = "created" => u # t /\ request'[u] = request[u]
      BY <3>1
    <3>4. TriggersDistinct'
      BY <1>1, <3>1, <3>3 DEF TriggersDistinct
    <3>5. QED
      BY <3>2, <3>4
  <2>3. QED
    BY <2>1, <2>2
<1>6. ASSUME NEW t \in Triggers, InsertReview(t) PROVE TriggerRead' /\ TriggersDistinct'
  <2> DEFINE n == Len(reviews[t.doc])
             next == request[t].version + 1
  <2>1. CASE ~(n < next)
    BY <1>1, <1>3, <1>6, <2>1 DEF InsertReview, Ended, TypeOK
  <2>2. CASE n < next
    <3>1. n + 1 = next
      BY <1>1, <1>2, <1>6, <2>2 DEF InsertReview, TriggerRead
    <3>2. reviews' = [reviews EXCEPT ![t.doc] = Append(reviews[t.doc], NewRow(t.by))]
      BY <1>6, <2>2 DEF InsertReview
    <3>3. request'[t] = [pc |-> "created", version |-> next]
      BY <1>1, <1>6, <2>2 DEF InsertReview, Ended, TypeOK
    <3>4. \A u \in Triggers \ {t} : request'[u] = request[u]
      BY <1>1, <1>6, <2>2 DEF InsertReview, Ended, TypeOK
    <3>5. NewRow(t.by) \in Row /\ NewRow(t.by).by = t.by
      BY ConstantsAssumption DEF NewRow, Row, ReportTier
    <3>6. Len(reviews'[t.doc]) = n + 1 /\ reviews'[t.doc][n + 1].by = t.by
      BY <1>1, <1>2, <3>2, <3>5, Added
    <3>7. TriggerRead'
      BY <1>1, <1>2, <3>3, <3>4 DEF TriggerRead, Grown
    <3>8. /\ request'[t].version = n + 1
          /\ request'[t].version \in 1..Len(reviews'[t.doc])
          /\ reviews'[t.doc][request'[t].version].by = t.by
      BY <1>2, <3>1, <3>3, <3>6
    <3>9. ASSUME NEW u \in Triggers \ {t}, request'[u].pc = "created"
          PROVE  /\ request'[u].version \in 1..Len(reviews[u.doc])
                 /\ request'[u].version \in 1..Len(reviews'[u.doc])
                 /\ reviews'[u.doc][request'[u].version].by = u.by
      <4>1. request'[u].version = request[u].version /\ request[u].pc = "created"
        BY <3>4, <3>9
      <4>2. /\ request[u].version \in 1..Len(reviews[u.doc])
            /\ reviews[u.doc][request[u].version].by = u.by
        BY <1>1, <4>1 DEF TriggersDistinct
      <4>3. QED
        BY <1>1, <1>2, <4>1, <4>2 DEF Grown
    <3>10. ASSUME NEW u \in Triggers \ {t}, NEW v \in Triggers \ {t, u}, request'[u].pc = "created",
                  u.doc = v.doc, request'[v].pc = "created"
           PROVE  request'[u].version # request'[v].version
      BY <1>1, <3>4, <3>10 DEF TriggersDistinct
    <3>11. ASSUME NEW u \in Triggers \ {t}, request'[u].pc = "created", u.doc = t.doc
           PROVE  request'[u].version # request'[t].version
      BY <1>2, <3>8, <3>9, <3>11
    <3>12. TriggersDistinct'
      BY <3>8, <3>9, <3>10, <3>11 DEF TriggersDistinct
    <3>13. QED
      BY <3>7, <3>12
  <2>3. QED
    BY <2>1, <2>2
<1>7. CASE Restart
  BY <1>1, <1>3, <1>7 DEF Restart, TypeOK
<1>8. CASE Around
  BY <1>4, <1>7, <1>8 DEF Around, DayPasses, Sweep, RunnerCrash, Recover, calls
<1>9. QED
  BY <1>4, <1>5, <1>6, <1>8, NextCases, HandlerFrame, PlainFrame, WritesFrame
  DEF vars, calls, ReceivePatch, PatchTier, Remember

(* Every step keeps what is remembered of a patch. *)
LEMMA RememberStep == ASSUME ReviewInv, [Next]_vars PROVE Remembered'
<1>1. TypeOK /\ Remembered /\ \A p \in Patches : p.key \in Keys /\ p.tier \in ReportTier
  BY ConstantsAssumption DEF ReviewInv, Keys
<1>2. CASE UNCHANGED <<patch, keys>>
  BY <1>1, <1>2 DEF Remembered
<1>3. ASSUME NEW p \in Patches, ReceivePatch(p) \/ PatchTier(p) PROVE Remembered'
  <2>1. UNCHANGED keys /\ \A q \in Patches \ {p} : patch'[q] = patch[q]
    BY <1>1, <1>3 DEF ReceivePatch, PatchTier, Answered, TypeOK
  <2>2. patch'[p].pc # "done" /\ (patch'[p].pc = "remember" => patch'[p].current = p.tier)
    BY <1>1, <1>3 DEF ReceivePatch, PatchTier, Answered, TypeOK
  <2>3. QED
    BY <1>1, <2>1, <2>2 DEF Remembered
<1>4. ASSUME NEW p \in Patches, Remember(p) PROVE Remembered'
  <2> DEFINE answer == Answer(p)
  <2>1. patch[p].current \in ReportTier
    BY <1>1, <1>4 DEF Remember, Remembered
  <2>2. answer # NoKey /\ ~answer.aged
    <3>1. answer.current # NoKey.current /\ ~answer.aged
      BY <2>1 DEF NoKey, ReportTier, Answer
    <3>2. QED
      BY <3>1
  <2> HIDE DEF answer
  <2>3. keys' = [keys EXCEPT ![p.key] = answer]
    BY <1>4 DEF Remember, answer
  <2>4. \A k \in Keys : keys[k] # NoKey /\ ~keys[k].aged => keys'[k] # NoKey /\ ~keys'[k].aged
    BY <1>1, <2>2, <2>3 DEF TypeOK
  <2>5. keys'[p.key] # NoKey /\ ~keys'[p.key].aged
    BY <1>1, <2>2, <2>3 DEF TypeOK
  <2>6. patch'[p].pc = "done" /\ \A q \in Patches \ {p} : patch'[q] = patch[q]
    BY <1>1, <1>4 DEF Remember, TypeOK
  <2>7. QED
    BY <1>1, <2>4, <2>5, <2>6 DEF Remembered
<1>5. CASE Restart
  BY <1>1, <1>5 DEF Restart, TypeOK, Remembered
<1>6. ASSUME NEW k \in Keys, DayPasses(k) PROVE Remembered'
  <2>1. \A p \in Patches : p.key # k => keys'[p.key] = keys[p.key]
    BY <1>1, <1>6 DEF DayPasses, TypeOK
  <2>2. ASSUME NEW p \in Patches
        PROVE  /\ patch'[p].pc = "done" => p.key # k /\ patch'[p] = patch[p]
               /\ patch'[p].pc = "remember" => patch'[p] = patch[p]
    <3>1. CASE p.key = k /\ patch[p].pc = "done"
      <4>1. patch'[p] = [patch[p] EXCEPT !.pc = "dated"]
        BY <1>6, <3>1 DEF DayPasses
      <4>2. patch'[p].pc = "dated"
        BY <1>1, <4>1 DEF TypeOK
      <4>3. QED
        BY <4>2
    <3>2. CASE ~(p.key = k /\ patch[p].pc = "done")
      BY <1>6, <3>2 DEF DayPasses
    <3>3. QED
      BY <3>1, <3>2
  <2>3. QED
    BY <1>1, <2>1, <2>2 DEF Remembered
<1>7. CASE Sweep
  BY <1>1, <1>7 DEF Sweep, TypeOK, Remembered
<1>8. CASE Around
  BY <1>2, <1>5, <1>6, <1>7, <1>8 DEF Around, RunnerCrash, Recover, calls
<1>9. QED
  BY <1>2, <1>3, <1>4, <1>8, NextCases, HandlerFrame, PlainFrame, WritesFrame
  DEF vars, calls, ReadLatest, InsertReview

(* The invariant holds at the start. *)
LEMMA ReviewInit == Init => ReviewInv
<1> SUFFICES ASSUME Init PROVE ReviewInv
  OBVIOUS
<1>1. TypeOK
  <2>1. \A d \in Docs : reviews[d] = <<>> /\ reviews[d] \in Seq(Row)
    BY DEF Init
  <2>2. reviews \in [Docs -> Seq(Row)] /\ faults \in 0..MaxFaults
    BY <2>1, ConstantsAssumption DEF Init
  <2>3. request \in [Triggers -> [pc : RequestPC, version : Nat]]
    BY DEF Init, RequestPC
  <2>4. /\ patch \in [Patches -> [pc : PatchPC, previous : TierOrNone, current : TierOrNone]]
        /\ keys \in [Keys -> KeyType]
    BY DEF Init, PatchPC, TierOrNone, NoKey, KeyType
  <2>5. /\ pass \in [Docs -> [Passes -> Place]]
        /\ result \in [Docs -> [Passes -> {"null", "set"}]]
    BY DEF Init, Place
  <2>6. QED
    BY <2>2, <2>3, <2>4, <2>5 DEF Init, TypeOK, RequestPC, PatchPC, TierOrNone, KeyType
<1>2. PassHasReview /\ TriggerRead /\ Remembered /\ TriggersDistinct
  BY DEF Init, PassHasReview, Deciding, TriggerRead, Remembered, TriggersDistinct
<1>3. QED
  BY <1>1, <1>2 DEF ReviewInv

(* The invariant of the reviews holds. *)
LEMMA Invariance == Spec => []ReviewInv
<1>1. ReviewInv /\ [Next]_vars => ReviewInv'
  BY TypeStep, PassStep, TriggerStep, RememberStep DEF ReviewInv
<1>2. QED
  BY ReviewInit, <1>1, PTL DEF Spec

-----------------------------------------------------------------------------
(* The theorems. *)

(* The variables keep their types. *)
THEOREM TypeCorrect == Spec => []TypeOK
<1>1. ReviewInv => TypeOK
  BY DEF ReviewInv
<1>2. QED
  BY <1>1, Invariance, PTL

(* Two triggers that were told they created a review name different versions,
   and the version each names is its own. *)
THEOREM VersionsAreOwn == Spec => []TriggersDistinct
<1>1. ReviewInv => TriggersDistinct
  BY DEF ReviewInv
<1>2. QED
  BY <1>1, Invariance, PTL

(* A complete review stays complete, no pass begins to decide a resolved one, and
   one is rewritten only by the last write of a pass that was deciding before,
   whatever the passes of the two processes, the cascades, the requests, the
   stops and the restarts do. *)
THEOREM ResolvedReviewStays == Spec => ResolvedStays
<1> DEFINE Stays(d, i) ==
        /\ reviews[d][i].status = "complete" => reviews'[d][i].status = "complete"
        /\ \/ /\ reviews'[d][i].status = reviews[d][i].status
              /\ reviews'[d][i].scores = reviews[d][i].scores
           \/ \E w \in Passes : Deciding(d, w) /\ ~Deciding(d, w)'
        /\ i = Len(reviews[d]) => \A w \in Passes : Deciding(d, w)' => Deciding(d, w)
<1>1. ASSUME ReviewInv, [Next]_vars, NEW d \in Docs, NEW i \in 1..Len(reviews[d]),
             Resolved(reviews[d][i])
      PROVE  Stays(d, i)
  <2>1. RowsOK /\ (Settled(d) \/ \E w \in Passes : Deciding(d, w) /\ ~Deciding(d, w)')
    BY <1>1, RowsStep
  <2>2. reviews[d][i].status = "complete" => reviews'[d][i].status = "complete"
    BY <2>1 DEF RowsOK, Completes
  <2>3. \/ /\ reviews'[d][i].status = reviews[d][i].status
           /\ reviews'[d][i].scores = reviews[d][i].scores
        \/ \E w \in Passes : Deciding(d, w) /\ ~Deciding(d, w)'
    BY <1>1, <2>1 DEF Settled
  <2>4. ASSUME i = Len(reviews[d]), NEW w \in Passes, Deciding(d, w)' PROVE Deciding(d, w)
    <3>1. ~Unresolved(d)
      BY <1>1, <2>4 DEF Unresolved, Latest, Resolved
    <3>2. QED
      BY <1>1, <2>4, <3>1, Decides DEF ReviewInv
  <2>5. QED
    BY <2>2, <2>3, <2>4
<1>2. ReviewInv /\ [Next]_vars =>
        [\A d \in Docs : \A i \in 1..Len(reviews[d]) : Resolved(reviews[d][i]) => Stays(d, i)]_vars
  BY <1>1
<1>3. QED
  BY <1>2, Invariance, PTL DEF Spec, ResolvedStays

(* A tier request whose key this process has answered less than a day ago does not
   run again. *)
THEOREM AnsweredOnce == Spec => RetryReplays
<1>1. ReviewInv /\ [Next]_vars =>
        [\A p \in Patches : (patch[p].pc = "new" /\ patch'[p].pc = "update") =>
            ~\E q \in Patches : q.key = p.key /\ patch[q].pc = "done"]_vars
  <2> SUFFICES ASSUME ReviewInv, [Next]_vars, NEW p \in Patches, NEW q \in Patches,
                      patch[p].pc = "new", patch'[p].pc = "update",
                      q.key = p.key, patch[q].pc = "done"
               PROVE  FALSE
    OBVIOUS
  <2>1. TypeOK /\ keys[p.key] # NoKey
    BY DEF ReviewInv, Remembered
  <2>2. PICK r \in Patches : ReceivePatch(r) \/ PatchTier(r) \/ Remember(r)
    <3>1. patch' # patch
      OBVIOUS
    <3>2. ~Around
      <4>1. ~Restart /\ ~\E k \in Keys : DayPasses(k)
        BY <2>1 DEF Restart, DayPasses, TypeOK
      <4>2. QED
        BY <3>1, <4>1 DEF Around, Sweep, RunnerCrash, Recover, calls
    <3>3. QED
      BY <3>1, <3>2, NextCases, HandlerFrame, PlainFrame, WritesFrame
      DEF vars, calls, ReadLatest, InsertReview
  <2>3. r = p
    BY <2>1, <2>2 DEF ReceivePatch, PatchTier, Remember, Answered, TypeOK
  <2>4. QED
    BY <2>1, <2>2, <2>3 DEF ReceivePatch, PatchTier, Remember, Answered, TypeOK
<1>2. QED
  BY <1>1, Invariance, PTL DEF Spec, RetryReplays
=============================================================================
