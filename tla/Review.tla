------------------------------- MODULE Review -------------------------------
(***************************************************************************)
(* Content review of published documents: the spam screen and the initial  *)
(* review row of publish-document, the review_novelty step of the document *)
(* pipeline and the cascade of a pipeline failure, the explicit triggers   *)
(* and the tier change of /api/internal/content-review.                    *)
(*                                                                         *)
(* Rows of document_reviews are the elements of reviews[d], by version.    *)
(* There is one action per database statement or transaction; a restart of *)
(* the server loses what is between two of them, and the map of            *)
(* idempotency keys.  Two processes run the pipeline: the server's portal  *)
(* queue and the runner, which may be at one document together.            *)
(***************************************************************************)
EXTENDS Naturals, Sequences, FiniteSets

CONSTANTS
    Docs,       \* submissions
    Triggers,   \* requests to POST /content-review: [id, doc, by]
    Patches,    \* requests to PATCH /content-review/:id/tier: [id, doc, key, tier]
    Passes,     \* the processes that run the pipeline, a subset of PassKinds
    Faults,     \* the failures that may happen, a subset of FaultKinds
    MaxFaults,  \* bound: failures explored
    Scenarios   \* bound: which of them an execution has: [passes, triggers, patches]

FaultKinds == {"restart", "crash", "stop", "step", "row", "scores", "search", "chunks"}
PassKinds  == {"portal", "runner"}
By         == {"auto_on_publish", "manual"}
ReportTier == {"basic", "full"}
Keys       == {p.key : p \in Patches}
NoKey      == [previous |-> "none", current |-> "none", aged |-> FALSE]

ASSUME ConstantsAssumption ==
    /\ \A t \in Triggers : t.doc \in Docs /\ t.by \in By
    /\ \A p \in Patches : p.doc \in Docs /\ p.tier \in ReportTier
    /\ Passes \subseteq PassKinds
    /\ Faults \subseteq FaultKinds
    /\ MaxFaults \in Nat

VARIABLES
    status,    \* documents.status; "absent" before and "refused" without publishing
    tier,      \* the indexing tier, and with it the route
    reviews,   \* the review rows of each document
    pc,        \* the publish handler of each document
    queued,    \* PortalDocQueue.queue
    pass,      \* each process's pass over each document
    result,    \* what runNoveltyWorker computed in each pass
    request,   \* the trigger requests: [pc, version]
    patch,     \* the tier requests: [pc, previous, current]; "dated" a day after "done"
    keys,      \* tierIdempotencyStore: the answer, and whether it is older than a day
    faults,
    lost       \* history: the last write of a resolution failed and was swallowed, or
               \* the process died between the failed status and the cascade

docs   == <<status, tier>>
intake == <<pc, queued>>
passes == <<pass, result>>
calls  == <<request, patch, keys>>
vars   == <<docs, reviews, intake, passes, calls, faults, lost>>

Row == [by : By, status : {"pending", "running", "complete", "failed"},
        scores : {"none", "null", "set"}, tier : ReportTier]
Place == {"idle", "taken", "steps", "novelty", "noChunks", "running", "compute",
          "write", "writeNull", "finish", "fail", "cascade", "down"}

(* Every variable has its type. *)
TypeOK ==
    /\ status \in [Docs -> {"absent", "refused", "downloaded", "in_flight", "ready", "failed"}]
    /\ tier \in [Docs -> {"full", "abstract_only"}]
    /\ reviews \in [Docs -> Seq(Row)]
    /\ pc \in [Docs -> {"idle", "save", "row"}]
    /\ queued \subseteq Docs
    /\ pass \in [Docs -> [Passes -> Place]]
    /\ result \in [Docs -> [Passes -> {"null", "set"}]]
    /\ request \in [Triggers -> [pc : {"unsent", "new", "insert", "existing", "created", "error"}, version : Nat]]
    /\ patch \in [Patches -> [pc : {"unsent", "new", "update", "remember", "done", "dated",
                                    "replayed", "not_found", "forgotten"},
                              previous : ReportTier \cup {"none"}, current : ReportTier \cup {"none"}]]
    /\ keys \in [Keys -> [previous : ReportTier \cup {"none"}, current : ReportTier \cup {"none"},
                           aged : BOOLEAN]]
    /\ faults \in 0..MaxFaults
    /\ lost \in [Docs -> BOOLEAN]

Init ==
    /\ status = [d \in Docs |-> "absent"]
    /\ tier \in [Docs -> {"full", "abstract_only"}]
    /\ reviews = [d \in Docs |-> <<>>]
    /\ pc = [d \in Docs |-> "idle"]
    /\ queued = {}
    /\ result = [d \in Docs |-> [w \in Passes |-> "null"]]
    /\ \E s \in Scenarios :
         /\ pass = [d \in Docs |-> [w \in Passes |-> IF w \in s.passes THEN "idle" ELSE "down"]]
         /\ request = [t \in Triggers |-> [pc |-> IF t \in s.triggers THEN "new" ELSE "unsent",
                                           version |-> 0]]
         /\ patch = [p \in Patches |-> [pc |-> IF p \in s.patches THEN "new" ELSE "unsent",
                                        previous |-> "none", current |-> "none"]]
    /\ keys = [k \in Keys |-> NoKey]
    /\ faults = 0
    /\ lost = [d \in Docs |-> FALSE]

Fault(kind) == /\ kind \in Faults /\ faults < MaxFaults
               /\ faults' = faults + 1
Goto(d, l)  == pc' = [pc EXCEPT ![d] = l]
At(d, w, l) == pass[d][w] = l
Go(d, w, l) == pass' = [pass EXCEPT ![d][w] = l]
Idle(d)     == \A w \in Passes : At(d, w, "idle")

Latest(d) == reviews[d][Len(reviews[d])]
SetLatest(d, r) == reviews' = [reviews EXCEPT ![d][Len(reviews[d])] = r]

-----------------------------------------------------------------------------
(* The screen of a submission: deterministic checks, soft signals and the
   classifier, which has three seconds.  Only a classifier that says spam
   with confidence, or a hard signal, rejects; a classifier that is absent,
   late or unreadable makes the document borderline. *)

Signals == {"hard", "short_abstract", "soft", "none"}
Answers == {"genuine", "borderline", "unsure_spam", "spam", "malformed", "late", "unavailable"}

Deterministic(signal) == signal \in {"hard", "short_abstract"}
SpamVerdict(signal, answer) ==
    CASE signal = "hard"     -> "reject"
      [] answer = "genuine"  -> "pass"
      [] answer = "spam"     -> "reject"
      [] OTHER               -> "borderline"

(* The publish handler up to the document's INSERT. *)
Screen(d) ==
    /\ status[d] = "absent" /\ pc[d] = "idle"
    /\ \E signal \in Signals, answer \in Answers :
         IF Deterministic(signal) \/ SpamVerdict(signal, answer) = "reject"
         THEN status' = [status EXCEPT ![d] = "refused"] /\ UNCHANGED pc
         ELSE Goto(d, "save") /\ UNCHANGED status
    /\ UNCHANGED <<tier, reviews, queued, passes, calls, faults, lost>>

SaveDocument(d) ==
    /\ pc[d] = "save"
    /\ status' = [status EXCEPT ![d] = "downloaded"]
    /\ Goto(d, "row")
    /\ UNCHANGED <<tier, reviews, queued, passes, calls, faults, lost>>

(* createInitialReview inserts version 1: when a trigger was faster, the
   unique constraint refuses it.  Its failure does not stop publishing.  Then
   the document is put into the queue, unless that is full. *)
CreateInitialReview(d) ==
    /\ pc[d] = "row"
    /\ Goto(d, "idle")
    /\ queued' \in {queued, queued \cup {d}}
    /\ \/ /\ reviews[d] = <<>>
          /\ \E t \in ReportTier :
               reviews' = [reviews EXCEPT ![d] = <<[by |-> "auto_on_publish", status |-> "pending",
                                                scores |-> "none", tier |-> t]>>]
          /\ UNCHANGED faults
       \/ reviews[d] # <<>> /\ UNCHANGED <<reviews, faults>>
       \/ Fault("row") /\ UNCHANGED reviews
    /\ UNCHANGED <<docs, passes, calls, lost>>

-----------------------------------------------------------------------------
(* The pipeline pass w over a document. *)

(* The portal queue takes what is in it, whatever has become of the document;
   the runner lists the documents that wait, and its retry the failed ones. *)
Take(d, w) ==
    /\ At(d, w, "idle")
    /\ \/ w = "portal" /\ d \in queued
       \/ w = "runner" /\ status[d] \in {"downloaded", "failed"}
    /\ queued' = IF w = "portal" THEN queued \ {d} ELSE queued
    /\ Go(d, w, "taken")
    /\ UNCHANGED <<docs, reviews, pc, result, calls, faults, lost>>

(* Each step writes its intermediate status, whatever the status was. *)
Begin(d, w) ==
    /\ pass[d][w] \in {"taken", "steps"}
    /\ status' = [status EXCEPT ![d] = "in_flight"]
    /\ Go(d, w, "steps")
    /\ UNCHANGED <<tier, reviews, intake, result, calls, faults, lost>>

(* The steps up to review_novelty, which the abstract-only route has not. *)
Steps(d, w) ==
    /\ At(d, w, "steps")
    /\ status' = [status EXCEPT ![d] = "in_flight"]
    /\ \/ Go(d, w, IF tier[d] = "full" THEN "novelty" ELSE "finish") /\ UNCHANGED faults
       \/ Fault("step") /\ Go(d, w, "fail")
    /\ UNCHANGED <<tier, reviews, intake, result, calls, lost>>

(* The runner is asked to stop: before its next step the pass gives the
   document back. *)
Stop(d, w) ==
    /\ w = "runner" /\ pass[d][w] \in {"taken", "steps", "finish"}
    /\ Fault("stop")
    /\ status' = [status EXCEPT ![d] = "downloaded"]
    /\ Go(d, w, "idle")
    /\ UNCHANGED <<tier, reviews, intake, result, calls, lost>>

Unresolved(d) == reviews[d] # <<>> /\ Latest(d).status \in {"pending", "running"}

\* Mutated form: a review that is resolved already is done again.
ReadAnyway(d, w) ==
    /\ At(d, w, "novelty")
    /\ Go(d, w, IF reviews[d] = <<>> THEN "finish" ELSE "running")
    /\ UNCHANGED <<docs, reviews, intake, result, calls, faults, lost>>

(* reviewNoveltyWorker: a document without a review, or with a resolved one,
   is left alone. *)
ReadReview(d, w) ==
    /\ At(d, w, "novelty")
    /\ \/ Go(d, w, IF Unresolved(d) THEN "running" ELSE "finish") /\ UNCHANGED faults
       \/ Unresolved(d) /\ Fault("chunks") /\ Go(d, w, "noChunks")
       \/ Fault("row") /\ Go(d, w, "fail")
    /\ UNCHANGED <<docs, reviews, intake, result, calls, lost>>

(* markReviewRunning: the latest row, when it is pending. *)
MarkReviewRunning(d, w) ==
    /\ At(d, w, "running")
    /\ \/ /\ IF Latest(d).status = "pending"
             THEN SetLatest(d, [Latest(d) EXCEPT !.status = "running"]) ELSE UNCHANGED reviews
          /\ Go(d, w, "compute") /\ UNCHANGED faults
       \/ Fault("row") /\ Go(d, w, "fail") /\ UNCHANGED reviews
    /\ UNCHANGED <<docs, intake, result, calls, lost>>

(* runNoveltyWorker: nulls when no chunk has a vector; the batch search and
   the two queries may throw. *)
Compute(d, w) ==
    /\ At(d, w, "compute")
    /\ \/ /\ \E r \in {"null", "set"} : result' = [result EXCEPT ![d][w] = r]
          /\ Go(d, w, "write") /\ UNCHANGED faults
       \/ Fault("search") /\ Go(d, w, "writeNull") /\ UNCHANGED result
    /\ UNCHANGED <<docs, reviews, intake, calls, lost>>

(* updateAspect3Fields completes the latest row, whatever its status. *)
Complete(d, r) == SetLatest(d, [Latest(d) EXCEPT !.status = "complete", !.scores = r])

(* The result is written; when that fails nulls are, and when that fails too
   the pass goes on. *)
WriteResult(d, w) ==
    /\ At(d, w, "write")
    /\ \/ Complete(d, result[d][w]) /\ Go(d, w, "finish") /\ UNCHANGED faults
       \/ Fault("scores") /\ Go(d, w, "writeNull") /\ UNCHANGED reviews
    /\ result' = [result EXCEPT ![d][w] = "null"]
    /\ UNCHANGED <<docs, intake, calls, lost>>

WriteNulls(d, w) ==
    /\ At(d, w, "writeNull")
    /\ Go(d, w, "finish")
    /\ \/ Complete(d, "null") /\ UNCHANGED <<faults, lost>>
       \/ Fault("scores") /\ lost' = [lost EXCEPT ![d] = TRUE] /\ UNCHANGED reviews
    /\ UNCHANGED <<docs, intake, result, calls>>

(* Without chunks the nulls are written outside the try: a failure of that
   statement fails the pass. *)
WriteWithoutChunks(d, w) ==
    /\ At(d, w, "noChunks")
    /\ \/ Complete(d, "null") /\ Go(d, w, "finish") /\ UNCHANGED faults
       \/ Fault("scores") /\ Go(d, w, "fail") /\ UNCHANGED reviews
    /\ UNCHANGED <<docs, intake, result, calls, lost>>

Finish(d, w) ==
    /\ At(d, w, "finish")
    /\ \/ /\ status' = [status EXCEPT ![d] = "ready"]
          /\ Go(d, w, "idle") /\ UNCHANGED faults
       \/ Fault("step") /\ Go(d, w, "fail") /\ UNCHANGED status
    /\ UNCHANGED <<tier, reviews, intake, result, calls, lost>>

Fail(d, w) ==
    /\ At(d, w, "fail")
    /\ status' = [status EXCEPT ![d] = "failed"]
    /\ Go(d, w, "cascade")
    /\ UNCHANGED <<tier, reviews, intake, result, calls, faults, lost>>

\* Mutated forms: any row is failed; only a pending row is failed.
FailAny(d) ==
    IF reviews[d] # <<>> THEN SetLatest(d, [Latest(d) EXCEPT !.status = "failed"])
    ELSE UNCHANGED reviews
FailPending(d) ==
    IF reviews[d] # <<>> /\ Latest(d).status = "pending"
    THEN SetLatest(d, [Latest(d) EXCEPT !.status = "failed"]) ELSE UNCHANGED reviews

FailRow(d) ==
    IF Unresolved(d) THEN SetLatest(d, [Latest(d) EXCEPT !.status = "failed"])
    ELSE UNCHANGED reviews

(* markReviewFailed: the failure of a pass fails the review it left open. *)
Cascade(d, w) ==
    /\ At(d, w, "cascade")
    /\ Go(d, w, "idle")
    /\ \/ FailRow(d) /\ UNCHANGED <<faults, lost>>
       \/ Fault("row") /\ lost' = [lost EXCEPT ![d] = TRUE] /\ UNCHANGED reviews
    /\ UNCHANGED <<docs, intake, result, calls>>

-----------------------------------------------------------------------------
(* POST /content-review.  The transaction reads the latest row and locks it;
   the lock is on the row read, so it does not keep another transaction from
   inserting the next version: the unique constraint does. *)

Ended(t, how, v) == request' = [request EXCEPT ![t] = [pc |-> how, version |-> v]]
NewRow(by) == [by |-> by, status |-> "pending", scores |-> "none", tier |-> "full"]

ReadLatest(t) ==
    /\ request[t].pc = "new"
    /\ status[t.doc] \notin {"absent", "refused"}
    /\ LET n == Len(reviews[t.doc]) IN
       Ended(t, IF t.by = "auto_on_publish" /\ n > 0 THEN "existing" ELSE "insert", n)
    /\ UNCHANGED <<docs, reviews, intake, passes, patch, keys, faults, lost>>

\* Mutated form: the pair of document and version is not unique.
InsertAnyway(t) ==
    /\ request[t].pc = "insert"
    /\ reviews' = [reviews EXCEPT ![t.doc] = Append(@, NewRow(t.by))]
    /\ Ended(t, "created", request[t].version + 1)
    /\ UNCHANGED <<docs, intake, passes, patch, keys, faults, lost>>
InsertReview(t) ==
    /\ request[t].pc = "insert"
    /\ LET next == request[t].version + 1 IN
       IF Len(reviews[t.doc]) < next
       THEN /\ reviews' = [reviews EXCEPT ![t.doc] = Append(@, NewRow(t.by))]
            /\ Ended(t, "created", next)
       ELSE Ended(t, "error", 0) /\ UNCHANGED reviews
    /\ UNCHANGED <<docs, intake, passes, patch, keys, faults, lost>>

-----------------------------------------------------------------------------
(* PATCH /content-review/:id/tier.  The map of keys is read when the request
   arrives and written after the transaction. *)

Answered(p, how, old, new) ==
    patch' = [patch EXCEPT ![p] = [pc |-> how, previous |-> old, current |-> new]]

ReceivePatch(p) ==
    /\ patch[p].pc = "new"
    /\ LET cached == keys[p.key] IN
       IF cached # NoKey THEN Answered(p, "replayed", cached.previous, cached.current)
       ELSE Answered(p, "update", "none", "none")
    /\ UNCHANGED <<docs, reviews, intake, passes, request, keys, faults, lost>>

PatchTier(p) ==
    /\ patch[p].pc = "update"
    /\ IF reviews[p.doc] = <<>>
       THEN Answered(p, "not_found", "none", "none") /\ UNCHANGED reviews
       ELSE /\ Answered(p, "remember", Latest(p.doc).tier, p.tier)
            /\ SetLatest(p.doc, [Latest(p.doc) EXCEPT !.tier = p.tier])
    /\ UNCHANGED <<docs, intake, passes, request, keys, faults, lost>>

Answer(p) == [previous |-> patch[p].previous, current |-> patch[p].current, aged |-> FALSE]

\* Mutated form: a request that changed nothing is not remembered.
RememberChange(p) ==
    /\ patch[p].pc = "remember"
    /\ keys' = IF patch[p].previous = patch[p].current THEN keys ELSE [keys EXCEPT ![p.key] = Answer(p)]
    /\ patch' = [patch EXCEPT ![p].pc = "done"]
    /\ UNCHANGED <<docs, reviews, intake, passes, request, faults, lost>>
Remember(p) ==
    /\ patch[p].pc = "remember"
    /\ keys' = [keys EXCEPT ![p.key] = Answer(p)]
    /\ patch' = [patch EXCEPT ![p].pc = "done"]
    /\ UNCHANGED <<docs, reviews, intake, passes, request, faults, lost>>

(* A day goes by since the answer of a key was written. *)
DayPasses(k) ==
    /\ keys[k] # NoKey
    /\ keys' = [keys EXCEPT ![k].aged = TRUE]
    /\ patch' = [p \in Patches |-> IF p.key = k /\ patch[p].pc = "done"
                                  THEN [patch[p] EXCEPT !.pc = "dated"] ELSE patch[p]]
    /\ UNCHANGED <<docs, reviews, intake, passes, request, faults, lost>>

\* Mutated form: the age is not looked at.
SweepAll ==
    /\ keys' = [k \in Keys |-> NoKey]
    /\ UNCHANGED <<docs, reviews, intake, passes, request, patch, faults, lost>>
(* The hourly timer deletes the answers older than a day. *)
Sweep ==
    /\ keys' = [k \in Keys |-> IF keys[k].aged THEN NoKey ELSE keys[k]]
    /\ UNCHANGED <<docs, reviews, intake, passes, request, patch, faults, lost>>

-----------------------------------------------------------------------------
(* A process dies, and what its passes hold goes with it. *)
Killed(w) ==
    /\ pass' = [d \in Docs |-> [v \in Passes |-> IF v = w /\ pass[d][v] # "down"
                                                THEN "idle" ELSE pass[d][v]]]
    /\ result' = [d \in Docs |-> [v \in Passes |-> IF v = w THEN "null" ELSE result[d][v]]]
    /\ lost' = [d \in Docs |-> lost[d] \/ (w \in Passes /\ pass[d][w] = "cascade")]

(* With the server go handlers, open transactions and the keys; started again,
   its queue holds the documents that wait. *)
Restart ==
    /\ Fault("restart")
    /\ Killed("portal")
    /\ pc' = [d \in Docs |-> "idle"]
    /\ queued' = {d \in Docs : status[d] = "downloaded"}
    /\ request' = [t \in Triggers |-> IF request[t].pc = "insert" THEN [pc |-> "error", version |-> 0]
                                      ELSE request[t]]
    /\ patch' = [p \in Patches |-> IF patch[p].pc \in {"unsent", "new"} THEN patch[p]
                                   ELSE [pc |-> "forgotten", previous |-> "none", current |-> "none"]]
    /\ keys' = [k \in Keys |-> NoKey]
    /\ UNCHANGED <<docs, reviews>>

RunnerCrash ==
    /\ "runner" \in Passes /\ \A d \in Docs : ~At(d, "runner", "down")
    /\ Fault("crash")
    /\ Killed("runner")
    /\ UNCHANGED <<docs, reviews, intake, calls>>

(* The runner's start returns documents in flight to "downloaded", those that
   the portal queue is at too. *)
Recover ==
    /\ \A d \in Docs, w \in Passes : w = "runner" => At(d, w, "idle")
    /\ status' = [d \in Docs |-> IF status[d] = "in_flight" THEN "downloaded" ELSE status[d]]
    /\ UNCHANGED <<tier, reviews, intake, passes, calls, faults, lost>>

(* The reprocess command sends an indexed document through the pipeline again. *)
Reprocess(d) ==
    /\ status[d] = "ready"
    /\ status' = [status EXCEPT ![d] = "downloaded"]
    /\ UNCHANGED <<tier, reviews, intake, passes, calls, faults, lost>>

Pass(d, w) ==
    \/ Steps(d, w) \/ ReadReview(d, w) \/ MarkReviewRunning(d, w) \/ Compute(d, w)
    \/ WriteResult(d, w) \/ WriteNulls(d, w) \/ WriteWithoutChunks(d, w) \/ Finish(d, w)
    \/ Fail(d, w) \/ Cascade(d, w)

Next ==
    \/ \E d \in Docs : \/ Screen(d) \/ SaveDocument(d) \/ CreateInitialReview(d) \/ Reprocess(d)
                       \/ \E w \in Passes : Take(d, w) \/ Begin(d, w) \/ Pass(d, w) \/ Stop(d, w)
    \/ \E t \in Triggers : ReadLatest(t) \/ InsertReview(t)
    \/ \E p \in Patches : ReceivePatch(p) \/ PatchTier(p) \/ Remember(p)
    \/ \E k \in Keys : DayPasses(k)
    \/ Sweep \/ Restart \/ RunnerCrash \/ Recover

Spec == Init /\ [][Next]_vars

(* A handler or a pass that has begun goes on, the queue is emptied, the runner
   runs and takes what waits, and is started again when a document is left in
   flight by a process that died. *)
FairSpec ==
    /\ Spec
    /\ \A d \in Docs :
         /\ WF_vars(CreateInitialReview(d))
         /\ WF_vars(Recover /\ Idle(d) /\ status[d] = "in_flight")
         /\ \A w \in Passes : /\ WF_vars(Take(d, w) /\ (w = "runner" => status[d] = "downloaded"))
                              /\ WF_vars(Begin(d, w)) /\ WF_vars(Pass(d, w))

-----------------------------------------------------------------------------
(***************************************************************************)
(* What is resolved is respected (workers.ts reviewNoveltyWorker, "Already *)
(* resolved"; review-store.ts markReviewFailed, "never downgrades"): a     *)
(* complete review stays complete; once the latest review is resolved no   *)
(* pass begins to decide it; and its verdict or scores change only by the  *)
(* last write of a pass that was deciding before, the other process's at   *)
(* the same document: updateAspect3Fields looks at no status.              *)
(***************************************************************************)
Resolved(r) == r.status \in {"complete", "failed"}
Deciding(d, w) == pass[d][w] \in {"noChunks", "running", "compute", "write", "writeNull"}
ResolvedStays ==
    [][\A d \in Docs : \A i \in 1..Len(reviews[d]) :
          Resolved(reviews[d][i]) =>
            /\ reviews[d][i].status = "complete" => reviews'[d][i].status = "complete"
            /\ \/ /\ reviews'[d][i].status = reviews[d][i].status
                  /\ reviews'[d][i].scores = reviews[d][i].scores
               \/ \E w \in Passes : Deciding(d, w) /\ ~Deciding(d, w)'
            /\ i = Len(reviews[d]) =>
                  \A w \in Passes : Deciding(d, w)' => Deciding(d, w)]_vars

(***************************************************************************)
(* Polling unblocks (the comment on reviewNoveltyWorker): the review that  *)
(* a fully indexed document has when its pipeline takes it is resolved,    *)
(* whatever steps fail and however often the server restarts, unless       *)
(* another version is triggered or the last write itself was lost (it      *)
(* failed, or the process died between the failed status and the cascade). *)
(***************************************************************************)
Waiting(d) == tier[d] = "full" /\ status[d] = "downloaded" /\ reviews[d] # <<>> /\ pc[d] = "idle" /\ Idle(d)
Unblocked(d) == Len(reviews[d]) > 1 \/ lost[d] \/ (reviews[d] # <<>> /\ Resolved(Latest(d)))
Unblocks == \A d \in Docs : Waiting(d) ~> Unblocked(d)

(***************************************************************************)
(* Two triggers that were told they created a review name different        *)
(* versions, and the version each names is its own (triggerReview).        *)
(***************************************************************************)
TriggersDistinct ==
    \A t \in Triggers : request[t].pc = "created" =>
        /\ request[t].version \in 1..Len(reviews[t.doc])
        /\ reviews[t.doc][request[t].version].by = t.by
        /\ \A u \in Triggers \ {t} :
             (u.doc = t.doc /\ request[u].pc = "created") => request[u].version # request[t].version

(***************************************************************************)
(* A tier request whose key has been answered by this process less than a  *)
(* day ago does not run again (the idempotency replay of PATCH .../tier,   *)
(* whose store is swept every hour).                                       *)
(***************************************************************************)
RetryReplays ==
    [][\A p \in Patches : (patch[p].pc = "new" /\ patch'[p].pc = "update") =>
          ~\E q \in Patches : q.key = p.key /\ patch[q].pc = "done"]_vars
=============================================================================
