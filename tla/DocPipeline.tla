---------------------------- MODULE DocPipeline ----------------------------
(***************************************************************************)
(* The ingest pipeline of one document: DocumentOrchestrator.processOne    *)
(* and the pipeline workers, the chunk rows in PostgreSQL, the points in   *)
(* Qdrant, and the actors outside the pipeline that rewrite the same       *)
(* document row (demand re-index, force_full reset, enrichment trigger,    *)
(* the reprocess command, crash recovery).                                 *)
(*                                                                         *)
(* A worker is one in-flight execution of processOne; runner executions    *)
(* and portal executions live in different processes.  There is one action *)
(* per database statement or Qdrant call, so that a crash, a stop or       *)
(* another actor can fall between any two of them.                         *)
(*                                                                         *)
(* A chunk stands for one INSERT batch (up to 50 rows) of one execution:   *)
(* <<run, part>>, part 0 being the single abstract chunk and parts         *)
(* 1..BodyParts the body.                                                  *)
(***************************************************************************)
EXTENDS Naturals, FiniteSets

CONSTANTS
    Runner,     \* executions of processOne in the runner process
    Portal,     \* executions of processOne in the MCP server's portal queue
    BodyParts,  \* insert batches of a chunked body
    MaxRuns,    \* bound: executions of processOne that are explored
    Persist,    \* PERSIST_CHUNKS_BEFORE_EMBED
    Faults,     \* the failures that may happen, a subset of FaultKinds
    Env         \* the actors outside the pipeline, a subset of EnvKinds

FaultKinds == {"crash", "stop", "step", "source", "insert", "qdrant", "specter", "write"}
EnvKinds   == {"demand", "force", "enrich", "reprocess"}

ASSUME ConstantsAssumption ==
    /\ Runner \cap Portal = {}
    /\ BodyParts \in Nat \ {0}
    /\ MaxRuns \in Nat
    /\ Persist \in BOOLEAN
    /\ Faults \subseteq FaultKinds
    /\ Env \subseteq EnvKinds

Workers == Runner \cup Portal
Chunk   == (1..MaxRuns) \X (0..BodyParts)

Part(c) == c[2]

Status    == {"downloaded", "parsing", "chunking", "enriching", "embedding",
              "ready", "failed", "duplicate"}
InFlight  == {"parsing", "chunking", "enriching", "embedding"}
Tier      == {"full", "abstract_only"}
RowStatus == {"pending_embed", "embedded", "indexed", "indexed_partial"}
Resumable == {"pending_embed", "embedded", "indexed_partial"}
Content   == {"null", "abstract", "body", "stub"}
Step      == {"parse", "translate", "chunk", "abstract_chunk", "enrich",
              "embed_gemini", "embed_specter", "index", "review_novelty"}

VARIABLES
    \* the row of the document
    status, rowTier, open, parserUsed, content, skipRetry,
    \* chunk rows and Qdrant points of the document
    rows, points,
    \* executions of processOne
    pc, step, run, tier, recTier, mine, todo, parsed, specter,
    \* the processes around them
    runs, stop, up, queued, cli,
    \* history: this execution's own Qdrant delete failed and was swallowed
    warned,
    \* history: no process died, no chunk INSERT ended halfway, and nothing but
    \* the demand changed the tier
    calm

doc   == <<status, rowTier, open, parserUsed, content, skipRetry>>
store == <<rows, points>>
mem   == <<run, tier, recTier, mine, todo, parsed, specter>>
wk    == <<pc, step, mem>>
procs == <<runs, stop, up, queued, cli>>
vars  == <<doc, store, wk, procs, warned, calm>>

PC == {"idle", "detect", "load", "rerunRows", "rerunPoints", "enter", "work",
       "insert", "saveContent", "markEmbedded", "upsert", "verify", "markIndexed",
       "deleteRows", "deletePoints", "insertIndexed", "updateDoc", "metrics",
       "finish", "provenance", "suspend", "abort", "abortReturn", "duplicate", "fail",
       "failForGood", "flag"}

DocTypeOK ==
    /\ status \in Status
    /\ rowTier \in Tier \cup {"null"}
    /\ open \in BOOLEAN
    /\ parserUsed \in Content
    /\ content \in Content
    /\ skipRetry \in BOOLEAN

StoreTypeOK ==
    /\ rows \in [Chunk -> RowStatus \cup {"none"}]
    /\ points \in [Chunk -> {"none", "gemini", "both"}]

ControlTypeOK ==
    /\ pc \in [Workers -> PC]
    /\ step \in [Workers -> Step]

MemTypeOK ==
    /\ run \in [Workers -> 0..MaxRuns]
    /\ tier \in [Workers -> Tier]
    /\ recTier \in [Workers -> Tier]
    /\ mine \in [Workers -> SUBSET Chunk]
    /\ todo \in [Workers -> SUBSET Chunk]
    /\ parsed \in [Workers -> Content]
    /\ specter \in [Workers -> BOOLEAN]

ProcsTypeOK ==
    /\ runs \in 0..MaxRuns
    /\ stop \in BOOLEAN
    /\ up \in [{"runner", "portal"} -> BOOLEAN]
    /\ queued \in BOOLEAN
    /\ cli \in {"off", "rows", "points", "reset"}
    /\ warned \in BOOLEAN
    /\ calm \in BOOLEAN

(* Every variable has its type. *)
TypeOK == DocTypeOK /\ StoreTypeOK /\ ControlTypeOK /\ MemTypeOK /\ ProcsTypeOK

-----------------------------------------------------------------------------
(* What the stores hold. *)

Rows        == {c \in Chunk : rows[c] # "none"}
RowsIn(S)   == {c \in Chunk : rows[c] \in S}
Points      == {c \in Chunk : points[c] # "none"}
Orphans     == Points \ Rows
Body(r)     == {c \in Chunk : c[1] = r /\ c[2] # 0}
Abstract(r) == {c \in Chunk : c[1] = r /\ c[2] = 0}

(* Body batches hold more than one row, so a document has a total of one
   chunk row exactly when it holds one abstract chunk. *)
SingleRow == \E c \in Rows : Rows = {c} /\ Part(c) = 0

(***************************************************************************)
(* The route of a tier.  s2_lookup is absent: its pool capacity is 0, and  *)
(* the step loop skips a step whose resource is not registered.            *)
(***************************************************************************)
FirstStep(t) == IF t = "full" THEN "parse" ELSE "abstract_chunk"
LastStep(t)  == IF t = "full" THEN "review_novelty" ELSE "index"
After == [parse          |-> "translate",     translate     |-> "chunk",
          chunk          |-> "enrich",        abstract_chunk |-> "enrich",
          enrich         |-> "embed_gemini",  embed_gemini  |-> "embed_specter",
          embed_specter  |-> "index",         index         |-> "review_novelty",
          review_novelty |-> "review_novelty"]

StepStatus(s) ==
    CASE s = "parse"  -> "parsing"
      [] s = "chunk"  -> "chunking"
      [] s = "enrich" -> "enriching"
      [] OTHER        -> "embedding"

(* Tier of an execution: the strategy, else the tier on the row it loaded,
   else the license. *)
ComputeIndexingTier(strategy) ==
    IF strategy = "force_full" THEN "full"
    ELSE IF rowTier # "null" THEN rowTier
    ELSE IF open THEN "full" ELSE "abstract_only"

Strategies == {"license_aware"} \cup (IF "force" \in Env THEN {"force_full"} ELSE {})

-----------------------------------------------------------------------------
Goto(w, label) == pc' = [pc EXCEPT ![w] = label]

(* What most statements leave alone. *)
OnlyControl == UNCHANGED <<doc, store, mem, procs, warned, calm>>

(* The worker function returned: the loop goes on to the next step. *)
StepDone(w) ==
    IF step[w] = LastStep(tier[w])
    THEN Goto(w, "finish") /\ UNCHANGED step
    ELSE Goto(w, "enter") /\ step' = [step EXCEPT ![w] = After[step[w]]]

(* A statement of the step loop throws: control goes to the catch block. *)
Throws(w, fault) ==
    /\ fault \in Faults
    /\ Goto(w, "fail")
    /\ calm' = (calm /\ pc[w] # "insert")
    /\ UNCHANGED <<doc, store, step, mem, procs, warned>>

(* A statement outside the try block, or inside the catch block, throws:
   processOne rejects, and its caller swallows the rejection. *)
Rejects(w) ==
    /\ "write" \in Faults
    /\ Goto(w, "idle")
    /\ UNCHANGED step
    /\ OnlyControl

StopSeen(w) == w \in Runner /\ stop    \* portal executions get no stop signal

-----------------------------------------------------------------------------
(* Handing the document to processOne. *)

(* Entry of processOne: the tier is decided once, from the row as loaded. *)
Begin(w, t) ==
    /\ pc[w] = "idle"
    /\ runs < MaxRuns
    /\ runs' = runs + 1
    /\ run' = [run EXCEPT ![w] = runs + 1]
    /\ tier' = [tier EXCEPT ![w] = t]
    /\ recTier' = [recTier EXCEPT ![w] = t]
    /\ mine' = [mine EXCEPT ![w] = {}]
    /\ todo' = [todo EXCEPT ![w] = {}]
    /\ parsed' = [parsed EXCEPT ![w] = "null"]
    /\ specter' = [specter EXCEPT ![w] = FALSE]
    /\ step' = [step EXCEPT ![w] = FirstStep(t)]
    /\ Goto(w, IF Persist THEN "detect" ELSE "enter")
    /\ warned' = FALSE

(* The runner has one run at a time, and a run hands out a document once. *)
RunnerFree == up["runner"] /\ \A v \in Runner : pc[v] = "idle"

(* A new runner run selects the document: 'downloaded' ones always, and
   'failed' ones through retry, which puts them back to 'downloaded'. *)
RunnerPick(w) ==
    /\ w \in Runner /\ RunnerFree
    /\ status = "downloaded" \/ (status = "failed" /\ ~skipRetry)
    /\ \E s \in Strategies :
         /\ Begin(w, ComputeIndexingTier(s))
         /\ calm' = (calm /\ ComputeIndexingTier(s) = ComputeIndexingTier("license_aware"))
    /\ status' = "downloaded"
    /\ stop' = FALSE
    /\ UNCHANGED <<rowTier, open, parserUsed, content, skipRetry, store, up, queued, cli>>

(* claimNextDemandReindexDoc: one UPDATE takes a ready abstract_only
   document and forces its tier, then the run processes it. *)
ClaimDemanded(w) ==
    /\ "demand" \in Env
    /\ w \in Runner /\ RunnerFree
    /\ status = "ready" /\ rowTier = "abstract_only"
    /\ status' = "downloaded"
    /\ rowTier' = "full"
    /\ Begin(w, "full")
    /\ stop' = FALSE
    /\ UNCHANGED <<open, parserUsed, content, skipRetry, store, up, queued, cli, calm>>

(* The portal queue hands over what it holds, whatever the row says now. *)
PortalPick(w) ==
    /\ w \in Portal /\ up["portal"]
    /\ queued
    /\ queued' = FALSE
    /\ Begin(w, "full")
    /\ UNCHANGED <<doc, store, stop, up, cli, calm>>

(* A document still waiting for a slot when the run is stopped. *)
Skipped(w) ==
    /\ pc[w] = "detect" /\ StopSeen(w)
    /\ Goto(w, "idle")
    /\ UNCHANGED step
    /\ OnlyControl

-----------------------------------------------------------------------------
(* The resume decision. *)

\* Mutated form: without the check for an upgrade of the tier.
DetectNoUpgrade(w) ==
    /\ pc[w] = "detect"
    /\ Goto(w, IF RowsIn(Resumable) # {} THEN "load"
               ELSE IF RowsIn({"indexed"}) # {} THEN "rerunRows"
               ELSE "enter")
    /\ UNCHANGED step
    /\ OnlyControl

Detect(w) ==
    /\ pc[w] = "detect"
    /\ Goto(w, IF tier[w] = "full" /\ SingleRow /\ parserUsed = "abstract" THEN "rerunRows"
               ELSE IF RowsIn(Resumable) # {} THEN "load"
               ELSE IF RowsIn({"indexed"}) # {} THEN "rerunRows"
               ELSE "enter")
    /\ UNCHANGED step
    /\ OnlyControl

\* Mutated form: only the chunks that are not embedded yet are resumed.
LoadPendingOnly(w) ==
    /\ pc[w] = "load"
    /\ LET loaded == RowsIn({"pending_embed"})
       IN  IF loaded = {} THEN UNCHANGED <<mine, parsed, step>>
           ELSE /\ mine' = [mine EXCEPT ![w] = loaded]
                /\ parsed' = [parsed EXCEPT ![w] = IF content = "null" THEN "stub" ELSE content]
                /\ step' = [step EXCEPT ![w] = "enrich"]
    /\ Goto(w, "enter")
    /\ UNCHANGED <<doc, store, run, tier, recTier, todo, specter, procs, warned, calm>>

LoadChunksForResume(w) ==
    /\ pc[w] = "load"
    /\ LET loaded == RowsIn(Resumable)
       IN  IF loaded = {} THEN UNCHANGED <<mine, parsed, step>>
           ELSE /\ mine' = [mine EXCEPT ![w] = loaded]
                /\ parsed' = [parsed EXCEPT ![w] = IF content = "null" THEN "stub" ELSE content]
                /\ step' = [step EXCEPT ![w] = "enrich"]
    /\ Goto(w, "enter")
    /\ UNCHANGED <<doc, store, run, tier, recTier, todo, specter, procs, warned, calm>>

(* deleteExistingChunks: rows first, then the points, whose failure is
   only logged.  Called by the rerun branch and by the legacy indexer. *)
DeleteRows(w) ==
    /\ \/ pc[w] = "rerunRows"  /\ Goto(w, "rerunPoints")
       \/ pc[w] = "deleteRows" /\ Goto(w, "deletePoints")
    /\ rows' = [c \in Chunk |-> "none"]
    /\ UNCHANGED <<doc, points, step, mem, procs, warned, calm>>

\* Mutated form: the points of the previous version are left.
DeletePointsSkipped(w) ==
    /\ \/ pc[w] = "rerunPoints" /\ Goto(w, "enter") /\ UNCHANGED todo
       \/ /\ pc[w] = "deletePoints"
          /\ Goto(w, "insertIndexed")
          /\ todo' = [todo EXCEPT ![w] = mine[w]]
    /\ UNCHANGED <<doc, store, step, run, tier, recTier, mine, parsed, specter, procs, warned, calm>>

DeletePoints(w) ==
    /\ \/ pc[w] = "rerunPoints" /\ Goto(w, "enter") /\ UNCHANGED todo
       \/ /\ pc[w] = "deletePoints"
          /\ Goto(w, "insertIndexed")
          /\ todo' = [todo EXCEPT ![w] = mine[w]]
    /\ \/ points' = [c \in Chunk |-> "none"] /\ UNCHANGED warned
       \/ "qdrant" \in Faults /\ warned' = TRUE /\ UNCHANGED points
    /\ UNCHANGED <<doc, rows, step, run, tier, recTier, mine, parsed, specter, procs, calm>>

-----------------------------------------------------------------------------
(* The step loop. *)

Enter(w) ==
    /\ pc[w] = "enter"
    /\ IF StopSeen(w)
       THEN Goto(w, "suspend") /\ UNCHANGED status
       ELSE Goto(w, "work") /\ status' = StepStatus(step[w])
    /\ UNCHANGED <<rowTier, open, parserUsed, content, skipRetry, store, step, mem, procs, warned, calm>>

Working(w, s) == pc[w] = "work" /\ step[w] = s

(* Another document with the same source id is ready, or tombstoned. *)
ParseFindsDuplicate(w) ==
    /\ Working(w, "parse")
    /\ Goto(w, "duplicate")
    /\ UNCHANGED step
    /\ OnlyControl

Parse(w) ==
    /\ Working(w, "parse")
    /\ parsed' = [parsed EXCEPT ![w] = "body"]
    \* After a re-download the document is reloaded: the indexer will record
    \* the tier on the row, or 'full'.
    /\ \/ UNCHANGED recTier
       \/ "source" \in Faults
          /\ recTier' = [recTier EXCEPT ![w] = IF rowTier = "null" THEN "full" ELSE rowTier]
    /\ StepDone(w)
    /\ UNCHANGED <<doc, store, run, tier, mine, todo, specter, procs, warned, calm>>

ParseLosesSource(w) ==
    /\ "source" \in Faults
    /\ Working(w, "parse")
    /\ skipRetry' = TRUE
    /\ Goto(w, "fail")
    /\ UNCHANGED <<status, rowTier, open, parserUsed, content, store, step, mem, procs, warned, calm>>

(* The chunker returns no chunk, or the body's chunks. *)
ChunkBody(w) ==
    /\ Working(w, "chunk")
    /\ \E made \in {{}, Body(run[w])} :
         /\ mine' = [mine EXCEPT ![w] = made]
         /\ todo' = [todo EXCEPT ![w] = IF Persist THEN made ELSE {}]
         /\ IF ~Persist THEN StepDone(w)
            ELSE Goto(w, IF made = {} THEN "saveContent" ELSE "insert") /\ UNCHANGED step
    /\ UNCHANGED <<doc, store, run, tier, recTier, parsed, specter, procs, warned, calm>>

\* Mutated form: the stop signal is obeyed while the chunks are inserted, too.
ChunkAbortsLate(w) ==
    /\ Working(w, "chunk") \/ pc[w] = "insert"
    /\ StopSeen(w)
    /\ Goto(w, IF Persist THEN "abort" ELSE "abortReturn")
    /\ UNCHANGED step
    /\ OnlyControl

(* The stop signal is seen between two LLM batches. *)
ChunkAborts(w) ==
    /\ Working(w, "chunk") /\ StopSeen(w)
    /\ Goto(w, IF Persist THEN "abort" ELSE "abortReturn")
    /\ UNCHANGED step
    /\ OnlyControl

(* A guard trips: too many chunks, or too much cost. *)
GuardTrips(w) ==
    /\ "step" \in Faults
    /\ Working(w, "chunk") \/ Working(w, "enrich")
    /\ Goto(w, "failForGood")
    /\ UNCHANGED step
    /\ OnlyControl

ChunkAbstract(w) ==
    /\ Working(w, "abstract_chunk")
    /\ mine' = [mine EXCEPT ![w] = Abstract(run[w])]
    /\ todo' = [todo EXCEPT ![w] = IF Persist THEN Abstract(run[w]) ELSE {}]
    /\ parsed' = [parsed EXCEPT ![w] = "abstract"]
    /\ IF Persist THEN Goto(w, "insert") /\ UNCHANGED step ELSE StepDone(w)
    /\ UNCHANGED <<doc, store, run, tier, recTier, specter, procs, warned, calm>>

(* One INSERT batch, in the order of the parts. *)
InsertBatch(w, c, s) ==
    /\ c \in todo[w]
    /\ \A d \in todo[w] : Part(c) <= Part(d)
    /\ rows' = [rows EXCEPT ![c] = s]
    /\ todo' = [todo EXCEPT ![w] = @ \ {c}]
    /\ UNCHANGED <<doc, points, step, run, tier, recTier, mine, parsed, specter, procs, warned, calm>>

InsertPending(w) ==
    /\ pc[w] = "insert"
    /\ \E c \in todo[w] :
         /\ InsertBatch(w, c, "pending_embed")
         /\ Goto(w, IF todo[w] = {c} THEN "saveContent" ELSE "insert")

(* The first writer wins: UPDATE ... WHERE structured_content IS NULL. *)
SaveContent(w) ==
    /\ pc[w] = "saveContent"
    /\ content' = IF content = "null" THEN parsed[w] ELSE content
    /\ StepDone(w)
    /\ UNCHANGED <<status, rowTier, open, parserUsed, skipRetry, store, mem, procs, warned, calm>>

(* Steps that touch nothing this module keeps. *)
PlainStep(w) ==
    /\ \E s \in {"translate", "enrich", "embed_gemini", "review_novelty"} : Working(w, s)
    /\ StepDone(w)
    /\ OnlyControl

(* The 768 vector may be unavailable; the chunks then go on without it. *)
EmbedSpecter(w) ==
    /\ Working(w, "embed_specter")
    /\ IF mine[w] = {} THEN StepDone(w) /\ UNCHANGED specter
       ELSE /\ \E got \in {TRUE} \cup (IF "specter" \in Faults THEN {FALSE} ELSE {}) :
                 specter' = [specter EXCEPT ![w] = got]
            /\ IF Persist THEN Goto(w, "markEmbedded") /\ UNCHANGED step ELSE StepDone(w)
    /\ UNCHANGED <<doc, store, run, tier, recTier, mine, todo, parsed, procs, warned, calm>>

MarkEmbedded(w) ==
    /\ pc[w] = "markEmbedded"
    /\ rows' = [c \in Chunk |-> IF c \in mine[w] /\ rows[c] = "pending_embed"
                                THEN "embedded" ELSE rows[c]]
    /\ StepDone(w)
    /\ UNCHANGED <<doc, points, mem, procs, warned, calm>>

-----------------------------------------------------------------------------
(* The index step. *)

Index(w) ==
    /\ Working(w, "index")
    /\ Goto(w, IF mine[w] = {} THEN "metrics" ELSE IF Persist THEN "upsert" ELSE "deleteRows")
    /\ UNCHANGED step
    /\ OnlyControl

\* Mutated form: the insert stops after one batch.
InsertOneBatch(w) ==
    /\ pc[w] = "insertIndexed"
    /\ \E c \in todo[w] : InsertBatch(w, c, "indexed")
    /\ Goto(w, "upsert")

InsertIndexed(w) ==
    /\ pc[w] = "insertIndexed"
    /\ \E c \in todo[w] :
         /\ InsertBatch(w, c, "indexed")
         /\ Goto(w, IF todo[w] = {c} THEN "upsert" ELSE "insertIndexed")

\* Mutated form: a batch that cannot be sent is logged and skipped.
UpsertSwallows(w) ==
    /\ pc[w] = "upsert"
    /\ \E sent \in SUBSET mine[w] :
         /\ points' = [c \in Chunk |-> IF c \notin sent THEN points[c]
                                       ELSE IF specter[w] THEN "both" ELSE "gemini"]
         /\ sent = mine[w] \/ "qdrant" \in Faults
    /\ Goto(w, "verify")
    /\ UNCHANGED <<doc, rows, step, mem, procs, warned, calm>>

(* Upsert in batches; when the retries are used up, a part has been sent. *)
Upsert(w) ==
    /\ pc[w] = "upsert"
    /\ \E sent \in SUBSET mine[w] :
         /\ points' = [c \in Chunk |-> IF c \notin sent THEN points[c]
                                       ELSE IF specter[w] THEN "both" ELSE "gemini"]
         /\ \/ sent = mine[w] /\ Goto(w, "verify")
            \/ "qdrant" \in Faults /\ Goto(w, "fail")
    /\ UNCHANGED <<doc, rows, step, mem, procs, warned, calm>>

(* The count of the document's points; a failed count does not block. *)
Verify(w) ==
    /\ pc[w] = "verify"
    /\ \/ Cardinality(Points) < Cardinality(mine[w]) /\ Goto(w, "fail")
       \/ /\ Cardinality(Points) >= Cardinality(mine[w]) \/ "qdrant" \in Faults
          /\ Goto(w, IF Persist THEN "markIndexed" ELSE "updateDoc")
    /\ UNCHANGED step
    /\ OnlyControl

MarkIndexed(w) ==
    /\ pc[w] = "markIndexed"
    /\ rows' = [c \in Chunk |-> IF c \notin mine[w] \/ rows[c] = "none" THEN rows[c]
                                ELSE IF specter[w] THEN "indexed" ELSE "indexed_partial"]
    /\ Goto(w, "updateDoc")
    /\ UNCHANGED <<doc, points, step, mem, procs, warned, calm>>

UpdateDoc(w) ==
    /\ pc[w] = "updateDoc"
    /\ content' = IF content = "null" THEN parsed[w] ELSE content
    /\ rowTier' = recTier[w]
    /\ Goto(w, "metrics")
    /\ UNCHANGED <<status, open, parserUsed, skipRetry, store, step, mem, procs, warned, calm>>

(* computeQualityMetrics copies the parser's name; a failure is swallowed. *)
QualityMetrics ==
    \/ parserUsed' = IF Rows = {} THEN parserUsed ELSE content
    \/ "write" \in Faults /\ UNCHANGED parserUsed

Metrics(w) ==
    /\ pc[w] = "metrics"
    /\ QualityMetrics
    /\ StepDone(w)
    /\ UNCHANGED <<status, rowTier, open, content, skipRetry, store, mem, procs, warned, calm>>

-----------------------------------------------------------------------------
(* The ends of processOne. *)

(* The chunks in memory are the ones checked against zero: a resumed run
   has loaded at least one. *)
Finish(w) ==
    /\ pc[w] = "finish"
    /\ mine[w] # {}
    /\ QualityMetrics
    /\ status' = "ready"
    /\ Goto(w, "provenance")
    /\ UNCHANGED <<rowTier, open, content, skipRetry, store, step, mem, procs, warned, calm>>

ZeroChunks(w) ==
    /\ pc[w] = "finish"
    /\ mine[w] = {}
    /\ Goto(w, "fail")
    /\ UNCHANGED step
    /\ OnlyControl

Provenance(w) ==
    /\ pc[w] = "provenance"
    /\ Goto(w, "idle")
    /\ UNCHANGED step
    /\ OnlyControl

(* The status writes of the suspended, aborted, duplicate and failed ends. *)
Settle(w, from, s, next) ==
    /\ pc[w] = from
    /\ status' = s
    /\ Goto(w, next)
    /\ UNCHANGED <<rowTier, open, parserUsed, content, skipRetry, store, step, mem, procs, warned, calm>>

Suspend(w)       == Settle(w, "suspend", "downloaded", "idle")
AbortReturn(w)   == Settle(w, "abortReturn", "downloaded", "idle")
MarkDuplicate(w) == Settle(w, "duplicate", "duplicate", "idle")
MarkFailed(w)    == Settle(w, "fail", "failed", "idle")
MarkFailedForGood(w) == Settle(w, "failForGood", "failed", "flag")

(* deletePendingByDocumentId, after the chunker was aborted. *)
AbortCleanup(w) ==
    /\ pc[w] = "abort"
    /\ rows' = [c \in Chunk |->
                   IF rows[c] \in {"pending_embed", "embedded"} THEN "none" ELSE rows[c]]
    /\ Goto(w, "abortReturn")
    /\ UNCHANGED <<doc, points, step, mem, procs, warned, calm>>

FlagSkipRetry(w) ==
    /\ pc[w] = "flag"
    /\ skipRetry' = TRUE
    /\ Goto(w, "idle")
    /\ UNCHANGED <<status, rowTier, open, parserUsed, content, store, step, mem, procs, warned, calm>>

(* Where a failing step, or a failing statement of the loop, throws. *)
StatementThrows(w) ==
    \/ /\ pc[w] = "work"
       /\ step[w] \in {"parse", "translate", "chunk", "abstract_chunk", "embed_gemini"}
       /\ Throws(w, "step")
    \/ pc[w] \in {"insert", "insertIndexed"} /\ Throws(w, "insert")
    \/ /\ \/ pc[w] \in {"enter", "saveContent", "markEmbedded", "deleteRows", "markIndexed",
                        "updateDoc", "suspend", "finish", "provenance"}
          \/ pc[w] = "work" /\ step[w] \in {"enrich", "review_novelty"}
       /\ Throws(w, "write")

StatementRejects(w) ==
    /\ pc[w] \in {"detect", "load", "rerunRows", "abort", "abortReturn", "duplicate",
                  "fail", "failForGood", "flag"}
    /\ Rejects(w)

WorkerStep(w) ==
    \/ Skipped(w) \/ Detect(w) \/ LoadChunksForResume(w) \/ DeleteRows(w) \/ DeletePoints(w)
    \/ Enter(w) \/ Parse(w) \/ ParseFindsDuplicate(w) \/ ParseLosesSource(w)
    \/ ChunkBody(w) \/ ChunkAborts(w) \/ GuardTrips(w) \/ ChunkAbstract(w)
    \/ InsertPending(w) \/ SaveContent(w) \/ PlainStep(w) \/ EmbedSpecter(w) \/ MarkEmbedded(w)
    \/ Index(w) \/ InsertIndexed(w) \/ Upsert(w) \/ Verify(w) \/ MarkIndexed(w)
    \/ UpdateDoc(w) \/ Metrics(w) \/ Finish(w) \/ ZeroChunks(w) \/ Provenance(w)
    \/ Suspend(w) \/ AbortCleanup(w) \/ AbortReturn(w) \/ MarkDuplicate(w)
    \/ MarkFailed(w) \/ MarkFailedForGood(w) \/ FlagSkipRetry(w)
    \/ StatementThrows(w) \/ StatementRejects(w)

-----------------------------------------------------------------------------
(* Around the pipeline. *)

StopRequest ==
    /\ "stop" \in Faults
    /\ ~stop
    /\ \E w \in Runner : pc[w] # "idle"
    /\ stop' = TRUE
    /\ UNCHANGED <<doc, store, wk, runs, up, queued, cli, warned, calm>>

Lost(S) == pc' = [w \in Workers |-> IF w \in S THEN "idle" ELSE pc[w]]

RunnerCrash ==
    /\ "crash" \in Faults
    /\ up["runner"]
    /\ up' = [up EXCEPT !["runner"] = FALSE]
    /\ stop' = FALSE
    /\ Lost(Runner)
    /\ calm' = FALSE
    /\ UNCHANGED <<doc, store, step, mem, runs, queued, cli, warned>>

\* Mutated form: the start does not look for interrupted documents.
RestartKeepsStatus ==
    /\ ~up["runner"]
    /\ up' = [up EXCEPT !["runner"] = TRUE]
    /\ UNCHANGED <<doc, store, wk, runs, stop, queued, cli, warned, calm>>

(* RunnerService.init: whatever is in flight goes back to 'downloaded'. *)
RunnerRestart ==
    /\ ~up["runner"]
    /\ up' = [up EXCEPT !["runner"] = TRUE]
    /\ status' = IF status \in InFlight THEN "downloaded" ELSE status
    /\ UNCHANGED <<rowTier, open, parserUsed, content, skipRetry, store, wk, runs, stop,
                   queued, cli, warned, calm>>

PortalCrash ==
    /\ "crash" \in Faults
    /\ up["portal"]
    /\ up' = [up EXCEPT !["portal"] = FALSE]
    /\ queued' = FALSE
    /\ Lost(Portal)
    /\ calm' = FALSE
    /\ UNCHANGED <<doc, store, step, mem, runs, stop, cli, warned>>

(* PortalDocQueue.init: only 'downloaded' portal documents are recovered. *)
PortalRestart ==
    /\ ~up["portal"]
    /\ up' = [up EXCEPT !["portal"] = TRUE]
    /\ queued' = (status = "downloaded")
    /\ UNCHANGED <<doc, store, wk, runs, stop, cli, warned, calm>>

(* A force_full run resets ready abstract_only documents. *)
ForceFullReset ==
    /\ "force" \in Env
    /\ RunnerFree
    /\ status = "ready" /\ rowTier = "abstract_only"
    /\ status' = "downloaded"
    /\ rowTier' = "null"
    /\ calm' = FALSE
    /\ UNCHANGED <<open, parserUsed, content, skipRetry, store, wk, procs, warned>>

(* Enrichment found an open copy: the license flips, and the document is
   sent back whatever its status is. *)
EnrichmentTrigger ==
    /\ "enrich" \in Env
    /\ rowTier = "abstract_only"
    /\ open' = TRUE
    /\ status' = "downloaded"
    /\ rowTier' = "null"
    /\ calm' = FALSE
    /\ UNCHANGED <<parserUsed, content, skipRetry, store, wk, procs, warned>>

\* Mutated form: the status is reset before the deletes.
ReprocessResetsFirst ==
    /\ \/ /\ "reprocess" \in Env
          /\ cli = "off" /\ status = "ready"
          /\ cli' = "rows"
          /\ status' = "downloaded"
          /\ UNCHANGED <<rowTier, open, parserUsed, content, skipRetry, store>>
       \/ /\ cli = "rows" /\ cli' = "points"
          /\ rows' = [c \in Chunk |-> "none"]
          /\ UNCHANGED <<doc, points>>
       \/ /\ cli = "points" /\ cli' = "off"
          /\ points' = [c \in Chunk |-> "none"]
          /\ UNCHANGED <<doc, rows>>
    /\ calm' = FALSE
    /\ UNCHANGED <<wk, runs, stop, up, queued, warned>>

(* The reprocess command: select, delete rows, delete points, reset. *)
Reprocess ==
    /\ \/ /\ "reprocess" \in Env
          /\ cli = "off" /\ status = "ready"
          /\ cli' = "rows"
          /\ UNCHANGED <<doc, store>>
       \/ /\ cli = "rows" /\ cli' = "points"
          /\ rows' = [c \in Chunk |-> "none"]
          /\ UNCHANGED <<doc, points>>
       \/ /\ cli = "points" /\ cli' = "reset"
          /\ \/ points' = [c \in Chunk |-> "none"]
             \/ "qdrant" \in Faults /\ UNCHANGED points
          /\ UNCHANGED <<doc, rows>>
       \/ /\ cli = "reset" /\ cli' = "off"
          /\ status' = "downloaded"
          /\ parserUsed' = "null"
          /\ skipRetry' = FALSE    \* quality_flags are replaced
          /\ UNCHANGED <<rowTier, open, content, store>>
    /\ calm' = FALSE
    /\ UNCHANGED <<wk, runs, stop, up, queued, warned>>

-----------------------------------------------------------------------------
(* A portal document is saved with tier 'full' and queued; an arXiv document
   has just been downloaded, and its license is open or restricted. *)
Init ==
    /\ status = "downloaded"
    /\ rowTier = IF Portal = {} THEN "null" ELSE "full"
    /\ open \in (IF Portal = {} THEN BOOLEAN ELSE {TRUE})
    /\ parserUsed = "null" /\ content = "null" /\ skipRetry = FALSE
    /\ rows = [c \in Chunk |-> "none"]
    /\ points = [c \in Chunk |-> "none"]
    /\ pc = [w \in Workers |-> "idle"]
    /\ step = [w \in Workers |-> "parse"]
    /\ run = [w \in Workers |-> 0]
    /\ tier = [w \in Workers |-> "full"]
    /\ recTier = [w \in Workers |-> "full"]
    /\ mine = [w \in Workers |-> {}]
    /\ todo = [w \in Workers |-> {}]
    /\ parsed = [w \in Workers |-> "null"]
    /\ specter = [w \in Workers |-> FALSE]
    /\ runs = 0 /\ stop = FALSE
    /\ up = [p \in {"runner", "portal"} |-> TRUE]
    /\ queued = (Portal # {})
    /\ cli = "off"
    /\ warned = FALSE /\ calm = TRUE

Next ==
    \/ \E w \in Workers : RunnerPick(w) \/ ClaimDemanded(w) \/ PortalPick(w) \/ WorkerStep(w)
    \/ StopRequest \/ RunnerCrash \/ RunnerRestart \/ PortalCrash \/ PortalRestart
    \/ ForceFullReset \/ EnrichmentTrigger \/ Reprocess

(* An execution of a live process goes on; a dead process is restarted by
   its supervisor.  Nobody has to start a run. *)
Fairness ==
    /\ \A w \in Workers : WF_vars(WorkerStep(w))
    /\ WF_vars(RunnerRestart) /\ WF_vars(PortalRestart)

Spec     == Init /\ [][Next]_vars
FairSpec == Spec /\ Fairness

-----------------------------------------------------------------------------
(* Properties. *)

Indexed == {"indexed", "indexed_partial"}

(* When chunks are persisted first, a row says 'indexed' only if its point
   is in Qdrant with both vectors, and 'indexed_partial' only if it is there
   at least with the Gemini vector (indexer-step.ts, persist path). *)
IndexedHasPoint ==
    Persist => \A c \in Chunk : /\ rows[c] = "indexed" => points[c] = "both"
                                /\ rows[c] = "indexed_partial" => points[c] # "none"

(* The chunk rows are all that one execution made: its abstract, or its body. *)
Whole(S) == \E r \in 1..MaxRuns : S = Abstract(r) \/ S = Body(r)

(* A document turns ready only whole: its rows are the complete result of
   one chunking, they are all indexed, and each has its point. *)
ReadyWhole ==
    [][status # "ready" /\ status' = "ready"
         => Whole(Rows) /\ RowsIn(Indexed) = Rows /\ Rows \subseteq Points]_vars

(* document-orchestrator.ts:259: "pipeline cannot end in status='ready' with
   zero chunks". *)
NeverReadyEmpty ==
    [][status # "ready" /\ status' = "ready" => Rows # {}]_vars

(* A document turns ready without orphan points in Qdrant, unless this very
   execution saw its Qdrant delete fail: "the indexer deletes existing
   chunks, so full reprocessing is safe" (document-orchestrator.ts:248). *)
ReadyClean ==
    [][status # "ready" /\ status' = "ready" => warned \/ Orphans = {}]_vars

(* Under tier 'full' a ready document is indexed by its body, not by the
   abstract of an earlier tier (document-orchestrator.ts:442-446). *)
FullHasBody ==
    [][status # "ready" /\ status' = "ready" /\ rowTier = "full"
         => \A c \in Rows : Part(c) # 0]_vars

(* Under tier 'abstract_only' a ready document has no row of its body:
   "restricted licenses (no full-text indexing)" (routes.ts:51). *)
RestrictedHasNoBody ==
    [][status # "ready" /\ status' = "ready" /\ rowTier = "abstract_only"
         => \A c \in Rows : Part(c) = 0]_vars

(* With early persistence a document never turns ready without rows either,
   and as long as nothing has disturbed its runs it turns ready only whole. *)
NeverReadyPartial ==
    [][status # "ready" /\ status' = "ready"
         => /\ Rows # {}
            /\ calm => Whole(Rows) /\ RowsIn(Indexed) = Rows /\ Rows \subseteq Points]_vars

(* As long as nothing has disturbed its runs a ready document has the rows
   of its tier, as in FullHasBody and RestrictedHasNoBody. *)
ReadyHasItsTier ==
    [][status # "ready" /\ status' = "ready" /\ calm
         => /\ rowTier = "full" => \A c \in Rows : Part(c) # 0
            /\ rowTier = "abstract_only" => \A c \in Rows : Part(c) = 0]_vars

(* Stopping a run never costs chunk rows: neither the suspension before a
   step nor the cleanup after an aborted chunking deletes any. *)
StopKeepsRows ==
    [][\A w \in Workers : pc[w] \in {"suspend", "abort", "abortReturn"} /\ pc'[w] # pc[w]
         => rows' = rows]_vars

(* A document does not stay in an in-flight status: its execution ends, or
   its process dies and the restarted runner puts it back. *)
Settles == (status \in InFlight) ~> (status \notin InFlight)
=============================================================================
