------------------------- MODULE DocPipelineProofs -------------------------
(***************************************************************************)
(* The inductive invariants behind the safety properties of DocPipeline,   *)
(* for a document that one process works on: the runner, with the reprocess *)
(* command not in use, or the portal queue beside the reprocess command.   *)
(* They say, for each control point, what the execution at that point      *)
(* knows about the two stores and about the tier.                          *)
(***************************************************************************)
EXTENDS DocPipeline, TLAPS

(* Which process works on the document. *)
RunnerAlone == Portal = {} /\ "reprocess" \notin Env
PortalAlone == Runner = {} /\ Env \subseteq {"reprocess"}

Busy(w) == pc[w] # "idle"

(* RunnerFree hands a document to one execution at a time. *)
OneExecution == \A v, w \in Workers : Busy(v) /\ Busy(w) => v = w

(* The queue hands the document out when nobody holds it, and the reprocess
   command finds it with its execution ended, or about to end. *)
AloneInv ==
    /\ OneExecution
    /\ RunnerAlone => cli = "off"
    /\ PortalAlone => (queued \/ ~up["portal"] => \A w \in Workers : ~Busy(w))
    /\ PortalAlone /\ status = "ready" =>
         ~queued /\ \A w \in Workers : pc[w] \in {"idle", "provenance", "fail"}
    /\ cli # "off" =>
         /\ status \in {"ready", "failed"} /\ ~queued
         /\ \A w \in Workers : pc[w] \in {"idle", "provenance", "fail"}
    /\ cli \in {"points", "reset"} => \A c \in Chunk : rows[c] = "none"

(* Beyond the step loop, the index step is the current step. *)
Indexing == {"deleteRows", "deletePoints", "insertIndexed", "upsert", "verify",
             "markIndexed", "updateDoc", "metrics"}
InIndexStep(w) == pc[w] \in Indexing => step[w] = "index"

-----------------------------------------------------------------------------
(* PERSIST_CHUNKS_BEFORE_EMBED = false: the index step replaces the rows. *)

LegacyPC(w) ==
    pc[w] \notin {"detect", "load", "rerunRows", "rerunPoints", "insert", "saveContent",
                  "markEmbedded", "markIndexed", "abort"}

MineWhole(w) ==
    mine[w] = {} \/ \E r \in 1..MaxRuns : mine[w] = Abstract(r) \/ mine[w] = Body(r)

(* The rows are exactly the execution's chunks that are not still to do. *)
Replaced(w) ==
    \A c \in Chunk : rows[c] = IF c \in mine[w] \ todo[w] THEN "indexed" ELSE "none"

(* The index step is over, or past its last store write. *)
IndexStepOver(w) == pc[w] \in {"metrics", "finish", "provenance"} \/ step[w] = "review_novelty"

LegacyFacts(w) ==
    /\ LegacyPC(w)
    /\ run[w] \in 1..MaxRuns
    /\ MineWhole(w)
    /\ InIndexStep(w)
    /\ pc[w] \in {"deleteRows", "deletePoints", "insertIndexed", "upsert", "verify", "updateDoc"}
         => mine[w] # {}
    /\ pc[w] = "deletePoints" => \A c \in Chunk : rows[c] = "none"
    /\ pc[w] = "insertIndexed" => todo[w] \subseteq mine[w] /\ todo[w] # {} /\ Replaced(w)
    /\ pc[w] \in {"upsert", "verify", "updateDoc"} \/ (IndexStepOver(w) /\ mine[w] # {})
         => todo[w] = {} /\ Replaced(w)
    /\ pc[w] \in {"verify", "updateDoc"} \/ (IndexStepOver(w) /\ mine[w] # {})
         => \A c \in mine[w] : points[c] # "none"
    /\ pc[w] \in {"insertIndexed", "upsert", "verify", "updateDoc"}
         \/ (IndexStepOver(w) /\ mine[w] # {})
         => warned \/ \A c \in Chunk : points[c] # "none" => c \in mine[w]

LegacyInv ==
    /\ TypeOK
    /\ AloneInv
    /\ \A w \in Workers : Busy(w) => LegacyFacts(w)

-----------------------------------------------------------------------------
(* PERSIST_CHUNKS_BEFORE_EMBED = true: the index step marks the rows. *)

PersistPC(w) == pc[w] \notin {"deleteRows", "deletePoints", "insertIndexed"}

(* Until it marks them, none of the rows the execution holds, or will make,
   is indexed with both vectors. *)
Unmarked(w) ==
    /\ pc[w] \in {"detect", "load", "rerunRows", "rerunPoints", "enter", "work", "insert",
                  "saveContent", "markEmbedded", "upsert", "verify", "markIndexed"}
    /\ step[w] # "review_novelty"

PersistFacts(w) ==
    /\ PersistPC(w)
    /\ InIndexStep(w)
    /\ run[w] <= runs
    /\ todo[w] \subseteq mine[w]
    /\ pc[w] \in {"detect", "load"} => todo[w] = {} /\ step[w] # "review_novelty"
    /\ \A c \in mine[w] : c[1] <= runs
    /\ pc[w] = "rerunPoints" => \A c \in Chunk : rows[c] = "none"
    /\ Unmarked(w) => \A c \in Chunk : c \in mine[w] \/ c[1] = run[w] => rows[c] # "indexed"
    /\ pc[w] \in {"verify", "markIndexed"}
         => \A c \in mine[w] : points[c] = IF specter[w] THEN "both" ELSE "gemini"

PersistInv ==
    /\ TypeOK
    /\ AloneInv
    /\ \A c \in Chunk : rows[c] # "none" => c[1] <= runs
    /\ IndexedHasPoint
    /\ \A w \in Workers : Busy(w) => PersistFacts(w)

-----------------------------------------------------------------------------
(* Type correctness of a step of processOne, part by part. *)

(* After a worker function the loop goes to the next step of the route. *)
LEMMA StepDoneType ==
    ASSUME ControlTypeOK, NEW w \in Workers, StepDone(w)
    PROVE  ControlTypeOK'
<1>1. "finish" \in PC /\ "enter" \in PC
  BY DEF PC
<1>2. After[step[w]] \in Step
  BY DEF ControlTypeOK, After, Step
<1> QED
  BY <1>1, <1>2 DEF ControlTypeOK, StepDone, Goto

(* Control stays within the statements of processOne. *)
LEMMA WorkerStepControl ==
    ASSUME ControlTypeOK, NEW w \in Workers, WorkerStep(w)
    PROVE  ControlTypeOK'
<1>a. ASSUME NEW l \in PC, Goto(w, l) PROVE pc' \in [Workers -> PC]
  BY <1>a DEF ControlTypeOK, Goto
<1>1. CASE Skipped(w)
  BY <1>1, StepDoneType DEF Skipped, ControlTypeOK, Goto, PC, Step
<1>2. CASE Detect(w)
  BY <1>2, StepDoneType DEF Detect, ControlTypeOK, Goto, PC, Step
<1>3. CASE LoadChunksForResume(w)
  BY <1>3, StepDoneType DEF LoadChunksForResume, ControlTypeOK, Goto, PC, Step
<1>4. CASE DeleteRows(w)
  BY <1>4, StepDoneType DEF DeleteRows, ControlTypeOK, Goto, PC, Step
<1>5. CASE DeletePoints(w)
  BY <1>5, StepDoneType DEF DeletePoints, ControlTypeOK, Goto, PC, Step
<1>6. CASE Enter(w)
  BY <1>6, StepDoneType DEF Enter, ControlTypeOK, Goto, PC, Step
<1>7. CASE Parse(w)
  BY <1>7, StepDoneType DEF Parse, ControlTypeOK, Goto, PC, Step
<1>8. CASE ParseFindsDuplicate(w)
  BY <1>8, StepDoneType DEF ParseFindsDuplicate, ControlTypeOK, Goto, PC, Step
<1>9. CASE ParseLosesSource(w)
  BY <1>9, StepDoneType DEF ParseLosesSource, ControlTypeOK, Goto, PC, Step
<1>10. CASE ChunkBody(w)
  BY <1>10, StepDoneType DEF ChunkBody, ControlTypeOK, Goto, PC, Step
<1>11. CASE ChunkAborts(w)
  BY <1>11, StepDoneType DEF ChunkAborts, ControlTypeOK, Goto, PC, Step
<1>12. CASE GuardTrips(w)
  BY <1>12, StepDoneType DEF GuardTrips, ControlTypeOK, Goto, PC, Step
<1>13. CASE ChunkAbstract(w)
  BY <1>13, StepDoneType DEF ChunkAbstract, ControlTypeOK, Goto, PC, Step
<1>14. CASE InsertPending(w)
  BY <1>14, StepDoneType DEF InsertPending, InsertBatch, ControlTypeOK, Goto, PC, Step
<1>15. CASE SaveContent(w)
  BY <1>15, StepDoneType DEF SaveContent, ControlTypeOK, Goto, PC, Step
<1>16. CASE PlainStep(w)
  BY <1>16, StepDoneType DEF PlainStep, ControlTypeOK, Goto, PC, Step
<1>17. CASE EmbedSpecter(w)
  BY <1>17, StepDoneType DEF EmbedSpecter, ControlTypeOK, Goto, PC, Step
<1>18. CASE MarkEmbedded(w)
  BY <1>18, StepDoneType DEF MarkEmbedded, ControlTypeOK, Goto, PC, Step
<1>19. CASE Index(w)
  BY <1>19, StepDoneType DEF Index, ControlTypeOK, Goto, PC, Step
<1>20. CASE InsertIndexed(w)
  BY <1>20, StepDoneType DEF InsertIndexed, InsertBatch, ControlTypeOK, Goto, PC, Step
<1>21. CASE Upsert(w)
  BY <1>21, StepDoneType DEF Upsert, ControlTypeOK, Goto, PC, Step
<1>22. CASE Verify(w)
  BY <1>22, StepDoneType DEF Verify, ControlTypeOK, Goto, PC, Step
<1>23. CASE MarkIndexed(w)
  BY <1>23, StepDoneType DEF MarkIndexed, ControlTypeOK, Goto, PC, Step
<1>24. CASE UpdateDoc(w)
  BY <1>24, StepDoneType DEF UpdateDoc, ControlTypeOK, Goto, PC, Step
<1>25. CASE Metrics(w)
  BY <1>25, StepDoneType DEF Metrics, ControlTypeOK, Goto, PC, Step
<1>26. CASE Finish(w)
  BY <1>26, StepDoneType DEF Finish, ControlTypeOK, Goto, PC, Step
<1>27. CASE ZeroChunks(w)
  BY <1>27, StepDoneType DEF ZeroChunks, ControlTypeOK, Goto, PC, Step
<1>28. CASE Provenance(w)
  BY <1>28, StepDoneType DEF Provenance, ControlTypeOK, Goto, PC, Step
<1>29. CASE Suspend(w)
  BY <1>29, StepDoneType DEF Suspend, Settle, ControlTypeOK, Goto, PC, Step
<1>30. CASE AbortCleanup(w)
  BY <1>30, StepDoneType DEF AbortCleanup, ControlTypeOK, Goto, PC, Step
<1>31. CASE AbortReturn(w)
  BY <1>31, StepDoneType DEF AbortReturn, Settle, ControlTypeOK, Goto, PC, Step
<1>32. CASE MarkDuplicate(w)
  BY <1>32, StepDoneType DEF MarkDuplicate, Settle, ControlTypeOK, Goto, PC, Step
<1>33. CASE MarkFailed(w)
  BY <1>33, StepDoneType DEF MarkFailed, Settle, ControlTypeOK, Goto, PC, Step
<1>34. CASE MarkFailedForGood(w)
  BY <1>34, StepDoneType DEF MarkFailedForGood, Settle, ControlTypeOK, Goto, PC, Step
<1>35. CASE FlagSkipRetry(w)
  BY <1>35, StepDoneType DEF FlagSkipRetry, ControlTypeOK, Goto, PC, Step
<1>36. CASE StatementThrows(w)
  BY <1>36, StepDoneType DEF StatementThrows, Throws, ControlTypeOK, Goto, PC, Step
<1>37. CASE StatementRejects(w)
  BY <1>37, StepDoneType DEF StatementRejects, Rejects, ControlTypeOK, Goto, PC, Step
<1> QED
  BY <1>1, <1>2, <1>3, <1>4, <1>5, <1>6, <1>7, <1>8, <1>9, <1>10, <1>11, <1>12, <1>13,
     <1>14, <1>15, <1>16, <1>17, <1>18, <1>19, <1>20, <1>21, <1>22, <1>23, <1>24, <1>25,
     <1>26, <1>27, <1>28, <1>29, <1>30, <1>31, <1>32, <1>33, <1>34, <1>35, <1>36, <1>37
     DEF WorkerStep

(* What processOne writes into the document row. *)
LEMMA WorkerStepDoc ==
    ASSUME TypeOK, NEW w \in Workers, WorkerStep(w)
    PROVE  DocTypeOK'
<1> USE DEF TypeOK, DocTypeOK, MemTypeOK, doc, OnlyControl
<1>1. CASE Enter(w)
  BY <1>1 DEF Enter, StepStatus, Status
<1>2. CASE ParseLosesSource(w)
  BY <1>2 DEF ParseLosesSource
<1>3. CASE SaveContent(w)
  BY <1>3 DEF SaveContent
<1>4. CASE UpdateDoc(w)
  BY <1>4 DEF UpdateDoc
<1>5. CASE Metrics(w)
  BY <1>5 DEF Metrics, QualityMetrics
<1>6. CASE Finish(w)
  BY <1>6 DEF Finish, QualityMetrics, Status
<1>7. CASE Suspend(w)
  BY <1>7 DEF Suspend, Settle, Status
<1>8. CASE AbortReturn(w)
  BY <1>8 DEF AbortReturn, Settle, Status
<1>9. CASE MarkDuplicate(w)
  BY <1>9 DEF MarkDuplicate, Settle, Status
<1>10. CASE MarkFailed(w)
  BY <1>10 DEF MarkFailed, Settle, Status
<1>11. CASE MarkFailedForGood(w)
  BY <1>11 DEF MarkFailedForGood, Settle, Status
<1>12. CASE FlagSkipRetry(w)
  BY <1>12 DEF FlagSkipRetry
<1>13. CASE \/ Skipped(w) \/ Detect(w) \/ LoadChunksForResume(w) \/ DeleteRows(w)
            \/ DeletePoints(w) \/ Parse(w) \/ ParseFindsDuplicate(w) \/ ChunkBody(w)
            \/ ChunkAborts(w) \/ GuardTrips(w) \/ ChunkAbstract(w) \/ InsertPending(w)
            \/ PlainStep(w) \/ EmbedSpecter(w) \/ MarkEmbedded(w) \/ Index(w)
            \/ InsertIndexed(w) \/ Upsert(w) \/ Verify(w) \/ MarkIndexed(w)
            \/ ZeroChunks(w) \/ Provenance(w) \/ AbortCleanup(w) \/ StatementThrows(w)
            \/ StatementRejects(w)
  BY <1>13 DEF
     Skipped, Detect, LoadChunksForResume, DeleteRows, DeletePoints, Parse,
     ParseFindsDuplicate, ChunkBody, ChunkAborts, GuardTrips, ChunkAbstract, InsertPending,
     PlainStep, EmbedSpecter, MarkEmbedded, Index, InsertIndexed, Upsert, Verify,
     MarkIndexed, ZeroChunks, Provenance, AbortCleanup, StatementThrows, StatementRejects,
     InsertBatch, Rejects, Throws
<1> QED
  BY <1>1, <1>2, <1>3, <1>4, <1>5, <1>6, <1>7, <1>8, <1>9, <1>10, <1>11, <1>12, <1>13
     DEF WorkerStep

(* What processOne writes into the two stores. *)
LEMMA WorkerStepStore ==
    ASSUME TypeOK, NEW w \in Workers, WorkerStep(w)
    PROVE  StoreTypeOK'
<1> USE DEF TypeOK, StoreTypeOK, store, OnlyControl
<1>1. CASE DeleteRows(w)
  BY <1>1 DEF DeleteRows
<1>2. CASE DeletePoints(w)
  BY <1>2 DEF DeletePoints
<1>3. CASE InsertPending(w)
  BY <1>3 DEF InsertPending, InsertBatch, RowStatus
<1>4. CASE InsertIndexed(w)
  BY <1>4 DEF InsertIndexed, InsertBatch, RowStatus
<1>5. CASE MarkEmbedded(w)
  BY <1>5 DEF MarkEmbedded, RowStatus
<1>6. CASE Upsert(w)
  BY <1>6 DEF Upsert
<1>7. CASE MarkIndexed(w)
  BY <1>7 DEF MarkIndexed, RowStatus
<1>8. CASE AbortCleanup(w)
  BY <1>8 DEF AbortCleanup, RowStatus
<1>9. CASE \/ Skipped(w) \/ Detect(w) \/ LoadChunksForResume(w) \/ Enter(w)
           \/ Parse(w) \/ ParseFindsDuplicate(w) \/ ParseLosesSource(w)
           \/ ChunkBody(w) \/ ChunkAborts(w) \/ GuardTrips(w) \/ ChunkAbstract(w)
           \/ SaveContent(w) \/ PlainStep(w) \/ EmbedSpecter(w) \/ Index(w)
           \/ Verify(w) \/ UpdateDoc(w) \/ Metrics(w) \/ Finish(w) \/ ZeroChunks(w)
           \/ Provenance(w) \/ Suspend(w) \/ AbortReturn(w) \/ MarkDuplicate(w)
           \/ MarkFailed(w) \/ MarkFailedForGood(w) \/ FlagSkipRetry(w)
           \/ StatementThrows(w) \/ StatementRejects(w)
  BY <1>9 DEF
     Skipped, Detect, LoadChunksForResume, Enter, Parse, ParseFindsDuplicate,
     ParseLosesSource, ChunkBody, ChunkAborts, GuardTrips, ChunkAbstract, SaveContent,
     PlainStep, EmbedSpecter, Index, Verify, UpdateDoc, Metrics, Finish, ZeroChunks,
     Provenance, Suspend, AbortReturn, MarkDuplicate, MarkFailed, MarkFailedForGood,
     FlagSkipRetry, StatementThrows, StatementRejects, Rejects, Settle, Throws
<1> QED
  BY <1>1, <1>2, <1>3, <1>4, <1>5, <1>6, <1>7, <1>8, <1>9
     DEF WorkerStep

(* What an execution keeps in memory. *)
LEMMA WorkerStepMem ==
    ASSUME TypeOK, NEW w \in Workers, WorkerStep(w)
    PROVE  MemTypeOK'
<1> USE DEF TypeOK, MemTypeOK, DocTypeOK, mem, OnlyControl
<1>1. CASE LoadChunksForResume(w)
  BY <1>1 DEF LoadChunksForResume, RowsIn, Content
<1>2. CASE DeletePoints(w)
  BY <1>2 DEF DeletePoints
<1>3. CASE Parse(w)
  BY <1>3 DEF Parse, Content, Tier
<1>4. CASE ChunkBody(w)
  BY <1>4 DEF ChunkBody, Body
<1>5. CASE ChunkAbstract(w)
  BY <1>5 DEF ChunkAbstract, Abstract, Content
<1>6. CASE InsertPending(w)
  BY <1>6 DEF InsertPending, InsertBatch
<1>7. CASE InsertIndexed(w)
  BY <1>7 DEF InsertIndexed, InsertBatch
<1>8. CASE EmbedSpecter(w)
  BY <1>8 DEF EmbedSpecter
<1>9. CASE \/ Skipped(w) \/ Detect(w) \/ DeleteRows(w) \/ Enter(w)
           \/ ParseFindsDuplicate(w) \/ ParseLosesSource(w) \/ ChunkAborts(w)
           \/ GuardTrips(w) \/ SaveContent(w) \/ PlainStep(w) \/ MarkEmbedded(w)
           \/ Index(w) \/ Upsert(w) \/ Verify(w) \/ MarkIndexed(w) \/ UpdateDoc(w)
           \/ Metrics(w) \/ Finish(w) \/ ZeroChunks(w) \/ Provenance(w) \/ Suspend(w)
           \/ AbortCleanup(w) \/ AbortReturn(w) \/ MarkDuplicate(w) \/ MarkFailed(w)
           \/ MarkFailedForGood(w) \/ FlagSkipRetry(w) \/ StatementThrows(w)
           \/ StatementRejects(w)
  BY <1>9 DEF
     Skipped, Detect, DeleteRows, Enter, ParseFindsDuplicate, ParseLosesSource, ChunkAborts,
     GuardTrips, SaveContent, PlainStep, MarkEmbedded, Index, Upsert, Verify, MarkIndexed,
     UpdateDoc, Metrics, Finish, ZeroChunks, Provenance, Suspend, AbortCleanup, AbortReturn,
     MarkDuplicate, MarkFailed, MarkFailedForGood, FlagSkipRetry, StatementThrows,
     StatementRejects, Rejects, Settle, Throws
<1> QED
  BY <1>1, <1>2, <1>3, <1>4, <1>5, <1>6, <1>7, <1>8, <1>9
     DEF WorkerStep

(* processOne leaves the state of the processes alone. *)
LEMMA WorkerStepProcs ==
    ASSUME TypeOK, NEW w \in Workers, WorkerStep(w)
    PROVE  ProcsTypeOK'
<1> USE DEF TypeOK, ProcsTypeOK, procs, OnlyControl
<1>1. CASE DeletePoints(w)
  BY <1>1 DEF DeletePoints
<1>2. CASE \/ Skipped(w) \/ Detect(w) \/ LoadChunksForResume(w) \/ DeleteRows(w)
           \/ Enter(w) \/ Parse(w) \/ ParseFindsDuplicate(w) \/ ParseLosesSource(w)
           \/ ChunkBody(w) \/ ChunkAborts(w) \/ GuardTrips(w) \/ ChunkAbstract(w)
           \/ InsertPending(w) \/ SaveContent(w) \/ PlainStep(w) \/ EmbedSpecter(w)
           \/ MarkEmbedded(w) \/ Index(w) \/ InsertIndexed(w) \/ Upsert(w)
           \/ Verify(w) \/ MarkIndexed(w) \/ UpdateDoc(w) \/ Metrics(w) \/ Finish(w)
           \/ ZeroChunks(w) \/ Provenance(w) \/ Suspend(w) \/ AbortCleanup(w)
           \/ AbortReturn(w) \/ MarkDuplicate(w) \/ MarkFailed(w)
           \/ MarkFailedForGood(w) \/ FlagSkipRetry(w) \/ StatementThrows(w)
           \/ StatementRejects(w)
  BY <1>2 DEF
     Skipped, Detect, LoadChunksForResume, DeleteRows, Enter, Parse, ParseFindsDuplicate,
     ParseLosesSource, ChunkBody, ChunkAborts, GuardTrips, ChunkAbstract, InsertPending,
     SaveContent, PlainStep, EmbedSpecter, MarkEmbedded, Index, InsertIndexed, Upsert,
     Verify, MarkIndexed, UpdateDoc, Metrics, Finish, ZeroChunks, Provenance, Suspend,
     AbortCleanup, AbortReturn, MarkDuplicate, MarkFailed, MarkFailedForGood, FlagSkipRetry,
     StatementThrows, StatementRejects, InsertBatch, Rejects, Settle, Throws
<1> QED
  BY <1>1, <1>2
     DEF WorkerStep

(* A step of an execution moves that execution only, and one that runs. *)
LEMMA WorkerStepFrame ==
    ASSUME ControlTypeOK, NEW w \in Workers, WorkerStep(w)
    PROVE  /\ Busy(w)
           /\ \A v \in Workers \ {w} : pc'[v] = pc[v]
           /\ UNCHANGED <<runs, cli, run>>
<1> USE DEF ControlTypeOK, Busy, Goto, StepDone, OnlyControl, procs, mem, Working, Throws,
            Rejects, Settle, InsertBatch
<1>1. CASE Skipped(w)
  BY <1>1 DEF Skipped
<1>2. CASE Detect(w)
  BY <1>2 DEF Detect
<1>3. CASE LoadChunksForResume(w)
  BY <1>3 DEF LoadChunksForResume
<1>4. CASE DeleteRows(w)
  BY <1>4 DEF DeleteRows
<1>5. CASE DeletePoints(w)
  BY <1>5 DEF DeletePoints
<1>6. CASE Enter(w)
  BY <1>6 DEF Enter
<1>7. CASE Parse(w)
  BY <1>7 DEF Parse
<1>8. CASE ParseFindsDuplicate(w)
  BY <1>8 DEF ParseFindsDuplicate
<1>9. CASE ParseLosesSource(w)
  BY <1>9 DEF ParseLosesSource
<1>10. CASE ChunkBody(w)
  BY <1>10 DEF ChunkBody
<1>11. CASE ChunkAborts(w)
  BY <1>11 DEF ChunkAborts
<1>12. CASE GuardTrips(w)
  BY <1>12 DEF GuardTrips
<1>13. CASE ChunkAbstract(w)
  BY <1>13 DEF ChunkAbstract
<1>14. CASE InsertPending(w)
  BY <1>14 DEF InsertPending
<1>15. CASE SaveContent(w)
  BY <1>15 DEF SaveContent
<1>16. CASE PlainStep(w)
  BY <1>16 DEF PlainStep
<1>17. CASE EmbedSpecter(w)
  BY <1>17 DEF EmbedSpecter
<1>18. CASE MarkEmbedded(w)
  BY <1>18 DEF MarkEmbedded
<1>19. CASE Index(w)
  BY <1>19 DEF Index
<1>20. CASE InsertIndexed(w)
  BY <1>20 DEF InsertIndexed
<1>21. CASE Upsert(w)
  BY <1>21 DEF Upsert
<1>22. CASE Verify(w)
  BY <1>22 DEF Verify
<1>23. CASE MarkIndexed(w)
  BY <1>23 DEF MarkIndexed
<1>24. CASE UpdateDoc(w)
  BY <1>24 DEF UpdateDoc
<1>25. CASE Metrics(w)
  BY <1>25 DEF Metrics
<1>26. CASE Finish(w)
  BY <1>26 DEF Finish
<1>27. CASE ZeroChunks(w)
  BY <1>27 DEF ZeroChunks
<1>28. CASE Provenance(w)
  BY <1>28 DEF Provenance
<1>29. CASE Suspend(w)
  BY <1>29 DEF Suspend
<1>30. CASE AbortCleanup(w)
  BY <1>30 DEF AbortCleanup
<1>31. CASE AbortReturn(w)
  BY <1>31 DEF AbortReturn
<1>32. CASE MarkDuplicate(w)
  BY <1>32 DEF MarkDuplicate
<1>33. CASE MarkFailed(w)
  BY <1>33 DEF MarkFailed
<1>34. CASE MarkFailedForGood(w)
  BY <1>34 DEF MarkFailedForGood
<1>35. CASE FlagSkipRetry(w)
  BY <1>35 DEF FlagSkipRetry
<1>36. CASE StatementThrows(w)
  BY <1>36 DEF StatementThrows
<1>37. CASE StatementRejects(w)
  BY <1>37 DEF StatementRejects
<1> QED
  BY <1>1, <1>2, <1>3, <1>4, <1>5, <1>6, <1>7, <1>8, <1>9, <1>10, <1>11, <1>12, <1>13,
     <1>14, <1>15, <1>16, <1>17, <1>18, <1>19, <1>20, <1>21, <1>22, <1>23, <1>24, <1>25,
     <1>26, <1>27, <1>28, <1>29, <1>30, <1>31, <1>32, <1>33, <1>34, <1>35, <1>36, <1>37
     DEF WorkerStep

-----------------------------------------------------------------------------
(* Type correctness: handing out the document, and the actions around the
   pipeline. *)

(* The entry of processOne starts an execution with a clean memory. *)
LEMMA BeginType ==
    ASSUME ConstantsAssumption, TypeOK, NEW w \in Workers, NEW t \in Tier, Begin(w, t)
    PROVE  /\ ControlTypeOK'
           /\ MemTypeOK'
           /\ runs' \in 0..MaxRuns
           /\ warned' \in BOOLEAN
<1> USE DEF TypeOK, Begin
<1>1. ControlTypeOK'
  BY DEF ControlTypeOK, Goto, PC, FirstStep, Step
<1>2. runs + 1 \in 0..MaxRuns
  BY DEF ProcsTypeOK, ConstantsAssumption
<1>3. MemTypeOK'
  BY <1>2 DEF MemTypeOK, Content
<1> QED
  BY <1>1, <1>2, <1>3

(* Whoever picks the document up leaves a typed state. *)
LEMMA PickType ==
    ASSUME ConstantsAssumption, TypeOK, NEW w \in Workers,
           RunnerPick(w) \/ ClaimDemanded(w) \/ PortalPick(w)
    PROVE  TypeOK'
<1> USE DEF TypeOK
<1>1. CASE RunnerPick(w)
  <2>1. PICK s \in Strategies : Begin(w, ComputeIndexingTier(s))
    BY <1>1 DEF RunnerPick
  <2>2. ComputeIndexingTier(s) \in Tier
    BY DEF ComputeIndexingTier, DocTypeOK, Tier
  <2>3. ControlTypeOK' /\ MemTypeOK' /\ runs' \in 0..MaxRuns /\ warned' \in BOOLEAN
    BY <2>1, <2>2, BeginType
  <2> QED
    BY <1>1, <2>3 DEF RunnerPick, DocTypeOK, StoreTypeOK, ProcsTypeOK, store, Status
<1>2. CASE ClaimDemanded(w)
  <2>1. ControlTypeOK' /\ MemTypeOK' /\ runs' \in 0..MaxRuns /\ warned' \in BOOLEAN
    BY <1>2, BeginType DEF ClaimDemanded, Tier
  <2> QED
    BY <1>2, <2>1 DEF ClaimDemanded, DocTypeOK, StoreTypeOK, ProcsTypeOK, store, Status, Tier
<1>3. CASE PortalPick(w)
  <2>1. ControlTypeOK' /\ MemTypeOK' /\ runs' \in 0..MaxRuns /\ warned' \in BOOLEAN
    BY <1>3, BeginType DEF PortalPick, Tier
  <2> QED
    BY <1>3, <2>1 DEF PortalPick, DocTypeOK, StoreTypeOK, ProcsTypeOK, doc, store
<1> QED
  BY <1>1, <1>2, <1>3

(* A step of the actors around the pipeline. *)
AroundStep ==
    \/ StopRequest \/ RunnerCrash \/ RunnerRestart \/ PortalCrash \/ PortalRestart
    \/ ForceFullReset \/ EnrichmentTrigger \/ Reprocess

(* The actors around the pipeline leave a typed state. *)
LEMMA AroundType ==
    ASSUME TypeOK, AroundStep
    PROVE  TypeOK'
<1> USE DEF TypeOK, DocTypeOK, StoreTypeOK, ControlTypeOK, MemTypeOK, ProcsTypeOK,
            doc, store, wk, mem, procs
<1>1. CASE StopRequest
  BY <1>1 DEF StopRequest
<1>2. CASE RunnerCrash
  BY <1>2 DEF RunnerCrash, Lost, PC
<1>3. CASE RunnerRestart
  BY <1>3 DEF RunnerRestart, Status
<1>4. CASE PortalCrash
  BY <1>4 DEF PortalCrash, Lost, PC
<1>5. CASE PortalRestart
  BY <1>5 DEF PortalRestart
<1>6. CASE ForceFullReset
  BY <1>6 DEF ForceFullReset, Status
<1>7. CASE EnrichmentTrigger
  BY <1>7 DEF EnrichmentTrigger, Status
<1>8. CASE Reprocess
  <2>1. DocTypeOK'
    BY <1>8 DEF Reprocess, Status, Content
  <2>2. StoreTypeOK'
    BY <1>8 DEF Reprocess
  <2>3. ControlTypeOK' /\ MemTypeOK' /\ ProcsTypeOK'
    BY <1>8 DEF Reprocess
  <2> QED
    BY <2>1, <2>2, <2>3
<1> QED
  BY <1>1, <1>2, <1>3, <1>4, <1>5, <1>6, <1>7, <1>8 DEF AroundStep

(* Every step of the system leaves a typed state. *)
LEMMA TypeStep ==
    ASSUME ConstantsAssumption, TypeOK, [Next]_vars
    PROVE  TypeOK'
<1>1. ASSUME NEW w \in Workers, WorkerStep(w) PROVE TypeOK'
  BY <1>1, WorkerStepControl, WorkerStepDoc, WorkerStepStore, WorkerStepMem, WorkerStepProcs
     DEF TypeOK
<1>2. CASE UNCHANGED vars
  BY <1>2 DEF TypeOK, DocTypeOK, StoreTypeOK, ControlTypeOK, MemTypeOK, ProcsTypeOK,
              vars, doc, store, wk, mem, procs
<1> QED
  BY <1>1, <1>2, PickType, AroundType DEF Next, AroundStep

(* The initial state is typed. *)
LEMMA InitType ==
    ASSUME ConstantsAssumption, Init
    PROVE  TypeOK
<1>1. DocTypeOK
  BY DEF Init, DocTypeOK, Status, Tier, Content
<1>2. StoreTypeOK
  BY DEF Init, StoreTypeOK
<1>3. ControlTypeOK
  BY DEF Init, ControlTypeOK, PC, Step
<1>4. MemTypeOK
  BY DEF Init, MemTypeOK, ConstantsAssumption, Tier, Content
<1>5. ProcsTypeOK
  <2>1. queued \in BOOLEAN
    <3>1. CASE Portal = {}
      BY <3>1 DEF Init
    <3>2. CASE Portal # {}
      BY <3>2 DEF Init
    <3> QED
      BY <3>1, <3>2
  <2>2. runs \in 0..MaxRuns
    BY DEF Init, ConstantsAssumption
  <2>3. up \in [{"runner", "portal"} -> BOOLEAN]
    BY DEF Init
  <2>4. /\ stop \in BOOLEAN /\ warned \in BOOLEAN /\ calm \in BOOLEAN
        /\ cli \in {"off", "rows", "points", "reset"}
    BY DEF Init
  <2> QED
    BY <2>1, <2>2, <2>3, <2>4, Zenon DEF ProcsTypeOK
<1> QED
  BY <1>1, <1>2, <1>3, <1>4, <1>5 DEF TypeOK

(* Every reachable state is typed, whatever runs beside the pipeline and
   whatever fails: no statement of processOne, of the runner, the portal
   queue, enrichment or the reprocess command writes an unknown status, tier
   or chunk state. *)
THEOREM TypeCorrect == Spec => []TypeOK
<1>1. Init => TypeOK
  BY InitType, ConstantsAssumption
<1>2. TypeOK /\ [Next]_vars => TypeOK'
  BY TypeStep, ConstantsAssumption
<1> QED
  BY <1>1, <1>2, PTL DEF Spec

-----------------------------------------------------------------------------
(* A document turns ready only by the last statement of the finalization. *)
LEMMA OnlyFinishes ==
    ASSUME TypeOK, NEW w \in Workers, WorkerStep(w), ~Finish(w), status' = "ready"
    PROVE  status = "ready"
<1>1. CASE Enter(w)
  BY <1>1 DEF Enter, StepStatus
<1>2. CASE \/ Suspend(w) \/ AbortReturn(w) \/ MarkDuplicate(w)
           \/ MarkFailed(w) \/ MarkFailedForGood(w)
  BY <1>2 DEF Suspend, AbortReturn, MarkDuplicate, MarkFailed, MarkFailedForGood, Settle
<1> QED
  BY <1>1, <1>2
     DEF WorkerStep, OnlyControl, doc, Throws, Rejects, InsertBatch,
         Skipped, Detect, LoadChunksForResume, DeleteRows, DeletePoints, Parse,
         ParseFindsDuplicate, ParseLosesSource, ChunkBody, ChunkAborts, GuardTrips,
         ChunkAbstract, InsertPending, SaveContent, PlainStep, EmbedSpecter, MarkEmbedded,
         Index, InsertIndexed, Upsert, Verify, MarkIndexed, UpdateDoc, Metrics,
         ZeroChunks, Provenance, AbortCleanup, FlagSkipRetry, StatementThrows,
         StatementRejects

(* One execution at a time, when one process works on the document. *)

(* A pick starts the only execution. *)
LEMMA PickAlone ==
    ASSUME ConstantsAssumption, RunnerAlone \/ PortalAlone, TypeOK, AloneInv, NEW w \in Workers,
           RunnerPick(w) \/ ClaimDemanded(w) \/ PortalPick(w)
    PROVE  /\ \A v \in Workers : ~Busy(v)
           /\ \A v \in Workers \ {w} : ~Busy(v)'
           /\ \E t \in Tier : Begin(w, t)
           /\ UNCHANGED <<rows, points, cli, up>> /\ cli = "off"
           /\ PortalAlone => ~queued' /\ up["portal"] /\ status' # "ready"
<1>1. CASE RunnerPick(w) \/ ClaimDemanded(w)
  <2>1. w \in Runner /\ RunnerFree /\ UNCHANGED <<rows, points, cli, up>>
    BY <1>1 DEF RunnerPick, ClaimDemanded, store
  <2>2. RunnerAlone /\ ~PortalAlone
    BY <2>1 DEF RunnerAlone, PortalAlone
  <2>3. Workers = Runner /\ cli = "off"
    BY <2>2 DEF RunnerAlone, Workers, AloneInv
  <2>4. \A v \in Workers : ~Busy(v)
    BY <2>1, <2>3 DEF RunnerFree, Busy
  <2>5. \A s \in Strategies : ComputeIndexingTier(s) \in Tier
    BY DEF ComputeIndexingTier, TypeOK, DocTypeOK, Tier
  <2>6. \E t \in Tier : Begin(w, t)
    BY <1>1, <2>5 DEF RunnerPick, ClaimDemanded, Tier
  <2>7. \A v \in Workers \ {w} : ~Busy(v)'
    BY <2>4, <2>6 DEF Begin, Goto, Busy, TypeOK, ControlTypeOK
  <2> QED
    BY <2>1, <2>2, <2>3, <2>4, <2>6, <2>7
<1>2. CASE PortalPick(w)
  <2>1. /\ w \in Portal /\ up["portal"] /\ queued /\ queued' = FALSE /\ Begin(w, "full")
        /\ UNCHANGED <<status, rows, points, cli, up>>
    BY <1>2 DEF PortalPick, doc, store
  <2>2. PortalAlone /\ cli = "off" /\ status # "ready"
    BY <2>1 DEF RunnerAlone, AloneInv
  <2>3. \A v \in Workers : ~Busy(v)
    BY <2>1, <2>2 DEF AloneInv
  <2>4. \A v \in Workers \ {w} : ~Busy(v)'
    BY <2>1, <2>3 DEF Begin, Goto, Busy, TypeOK, ControlTypeOK
  <2> QED
    BY <2>1, <2>2, <2>3, <2>4 DEF Tier
<1> QED
  BY <1>1, <1>2

(* The actors around the pipeline touch neither store, except for the
   reprocess command, and leave an execution as it is or end it. *)
LEMMA AroundFrame ==
    ASSUME RunnerAlone \/ PortalAlone, TypeOK, AroundStep
    PROVE  \/ /\ UNCHANGED <<rows, points, cli, step, mem, runs, warned>>
              /\ UNCHANGED pc \/ \A w \in Workers : ~Busy(w)'
           \/ Reprocess
<1>1. CASE RunnerCrash
  <2>1. CASE PortalAlone
    BY <1>1, <2>1 DEF RunnerCrash, Lost, PortalAlone, TypeOK, ControlTypeOK, store
  <2>2. CASE RunnerAlone
    BY <1>1, <2>2 DEF RunnerCrash, Lost, Busy, RunnerAlone, Workers, store
  <2> QED
    BY <2>1, <2>2
<1>2. CASE PortalCrash
  <2>1. CASE RunnerAlone
    BY <1>2, <2>1 DEF PortalCrash, Lost, RunnerAlone, TypeOK, ControlTypeOK, store
  <2>2. CASE PortalAlone
    BY <1>2, <2>2 DEF PortalCrash, Lost, Busy, PortalAlone, Workers, store
  <2> QED
    BY <2>1, <2>2
<1>3. CASE StopRequest \/ RunnerRestart \/ PortalRestart \/ ForceFullReset \/ EnrichmentTrigger
  BY <1>3 DEF StopRequest, RunnerRestart, PortalRestart, ForceFullReset, EnrichmentTrigger,
              store, wk, procs
<1> QED
  BY <1>1, <1>2, <1>3 DEF AroundStep

(* The document is worked on by one execution at a time, and the reprocess
   command never meets one that still has to touch a store. *)
LEMMA AloneStep ==
    ASSUME ConstantsAssumption, RunnerAlone \/ PortalAlone, TypeOK, AloneInv, [Next]_vars
    PROVE  AloneInv'
<1>1. ASSUME NEW w \in Workers, WorkerStep(w) PROVE AloneInv'
  <2>1. Busy(w) /\ (\A v \in Workers \ {w} : pc'[v] = pc[v]) /\ cli' = cli
    BY <1>1, WorkerStepFrame DEF TypeOK
  <2>2. UNCHANGED <<queued, up>>
    BY <1>1 DEF WorkerStep, Rejects, Throws, Settle, OnlyControl, procs,
         Skipped, Detect, LoadChunksForResume, DeleteRows, DeletePoints, Enter, Parse,
         ParseFindsDuplicate, ParseLosesSource, ChunkBody, ChunkAborts, GuardTrips,
         ChunkAbstract, InsertPending, InsertBatch, SaveContent, PlainStep, EmbedSpecter,
         MarkEmbedded, Index, InsertIndexed, Upsert, Verify, MarkIndexed, UpdateDoc, Metrics,
         Finish, ZeroChunks, Provenance, Suspend, AbortCleanup, AbortReturn, MarkDuplicate,
         MarkFailed, MarkFailedForGood, FlagSkipRetry, StatementThrows, StatementRejects
  <2>3. OneExecution'
    BY <2>1 DEF AloneInv, OneExecution, Busy
  <2>4. ASSUME pc[w] \in {"provenance", "fail"}
        PROVE  /\ pc'[w] \in {"idle", "provenance", "fail"} /\ UNCHANGED rows
               /\ status' \in {status, "failed"}
    BY <1>1, <2>4 DEF WorkerStep, Rejects, Throws, Settle, OnlyControl, Goto, TypeOK,
                      ControlTypeOK,
         store, doc, Working,
         Skipped, Detect, LoadChunksForResume, DeleteRows, DeletePoints, Enter, Parse,
         ParseFindsDuplicate, ParseLosesSource, ChunkBody, ChunkAborts, GuardTrips,
         ChunkAbstract, InsertPending, InsertBatch, SaveContent, PlainStep, EmbedSpecter,
         MarkEmbedded, Index, InsertIndexed, Upsert, Verify, MarkIndexed, UpdateDoc, Metrics,
         Finish, ZeroChunks, Provenance, Suspend, AbortCleanup, AbortReturn, MarkDuplicate,
         MarkFailed, MarkFailedForGood, FlagSkipRetry, StatementThrows, StatementRejects
  <2>5. cli # "off" => pc[w] \in {"provenance", "fail"}
    BY <2>1 DEF AloneInv, Busy
  <2>6. PortalAlone => ~queued /\ up["portal"]
    BY <2>1 DEF AloneInv
  <2>7. ASSUME PortalAlone, status' = "ready"
        PROVE  pc'[w] \in {"idle", "provenance", "fail"}
               /\ \A v \in Workers \ {w} : ~Busy(v)
    <3>1. \A v \in Workers \ {w} : ~Busy(v)
      BY <2>1 DEF AloneInv, OneExecution
    <3>2. CASE Finish(w)
      BY <3>1, <3>2 DEF Finish, Goto, TypeOK, ControlTypeOK
    <3>3. CASE ~Finish(w)
      <4>1. status = "ready"
        BY <1>1, <2>7, <3>3, OnlyFinishes
      <4>2. pc[w] \in {"provenance", "fail"}
        BY <2>1, <2>7, <4>1 DEF AloneInv, Busy
      <4> QED
        BY <2>4, <3>1, <4>2
    <3> QED
      BY <3>2, <3>3
  <2> QED
    BY <2>1, <2>2, <2>3, <2>4, <2>5, <2>6, <2>7 DEF AloneInv, Busy
<1>2. ASSUME NEW w \in Workers, RunnerPick(w) \/ ClaimDemanded(w) \/ PortalPick(w)
      PROVE  AloneInv'
  BY <1>2, PickAlone DEF AloneInv, OneExecution
<1>3. CASE Reprocess
  BY <1>3 DEF Reprocess, AloneInv, OneExecution, Busy, doc, store, wk, RunnerAlone, TypeOK,
              ProcsTypeOK
<1>4. CASE PortalRestart
  BY <1>4 DEF PortalRestart, AloneInv, OneExecution, Busy, doc, store, wk
<1>5. CASE AroundStep /\ ~Reprocess /\ ~PortalRestart
  <2>1. /\ UNCHANGED <<rows, cli>>
        /\ UNCHANGED pc \/ \A w \in Workers : ~Busy(w)'
    BY <1>5, AroundFrame
  <2>2. cli # "off" => UNCHANGED status
    BY <1>5 DEF AroundStep, StopRequest, RunnerCrash, RunnerRestart, PortalCrash,
                ForceFullReset, EnrichmentTrigger, doc, AloneInv, RunnerAlone, PortalAlone,
                InFlight
  <2>3. queued' => queued
    BY <1>5 DEF AroundStep, StopRequest, RunnerCrash, RunnerRestart, PortalCrash,
                ForceFullReset, EnrichmentTrigger, procs
  <2>4. status' = "ready" => status = "ready"
    BY <1>5 DEF AroundStep, StopRequest, RunnerCrash, RunnerRestart, PortalCrash,
                ForceFullReset, EnrichmentTrigger, doc
  <2>5. CASE PortalCrash
    <3>1. PortalAlone => \A w \in Workers : ~Busy(w)'
      BY <2>5 DEF PortalCrash, Lost, PortalAlone, Workers, Busy
    <3> QED
      BY <2>1, <2>2, <2>3, <2>4, <3>1 DEF AloneInv, OneExecution, Busy
  <2>6. CASE ~PortalCrash
    <3>1. up'["portal"] = up["portal"]
      BY <1>5, <2>6 DEF AroundStep, StopRequest, RunnerCrash, RunnerRestart,
                ForceFullReset, EnrichmentTrigger, procs, TypeOK, ProcsTypeOK
    <3> QED
      BY <2>1, <2>2, <2>3, <2>4, <3>1 DEF AloneInv, OneExecution, Busy
  <2> QED
    BY <2>5, <2>6
<1>6. CASE UNCHANGED vars
  BY <1>6 DEF vars, doc, store, wk, procs, AloneInv, OneExecution, Busy
<1> QED
  BY <1>1, <1>2, <1>3, <1>4, <1>5, <1>6 DEF Next, AroundStep

(* It starts so: no execution runs, and the command is not in use. *)
LEMMA AloneInit ==
    ASSUME Init
    PROVE  AloneInv
  BY DEF Init, AloneInv, OneExecution, Busy

(* The same of any step of the system. *)
LEMMA OnlyFinish ==
    ASSUME TypeOK, [Next]_vars, status # "ready", status' = "ready"
    PROVE  \E w \in Workers : Finish(w)
<1>1. ASSUME NEW w \in Workers, WorkerStep(w), ~Finish(w) PROVE status' # "ready"
  BY <1>1, OnlyFinishes
<1>2. ASSUME NEW w \in Workers, RunnerPick(w) \/ ClaimDemanded(w) \/ PortalPick(w)
      PROVE  status' # "ready"
  BY <1>2 DEF RunnerPick, ClaimDemanded, PortalPick, doc
<1>3. CASE AroundStep
  BY <1>3 DEF AroundStep, StopRequest, RunnerCrash, RunnerRestart, PortalCrash, PortalRestart,
              ForceFullReset, EnrichmentTrigger, Reprocess, doc
<1> QED
  BY <1>1, <1>2, <1>3 DEF Next, AroundStep, vars, doc

-----------------------------------------------------------------------------
(* PERSIST_CHUNKS_BEFORE_EMBED = false. *)

(* What an execution knows of the stores is preserved by its own steps. *)
LEMMA LegacyWorkerStep ==
    ASSUME TypeOK, ~Persist, NEW w \in Workers, WorkerStep(w), LegacyFacts(w)
    PROVE  Busy(w)' => LegacyFacts(w)'
<1> USE DEF TypeOK, ControlTypeOK, MemTypeOK, StoreTypeOK, LegacyFacts, LegacyPC, MineWhole,
            InIndexStep, Indexing, Replaced, IndexStepOver, Busy, Goto, StepDone, OnlyControl,
            doc, store, procs, mem, After, Step, LastStep, Body, Abstract
<1>1. CASE Skipped(w)
  BY <1>1 DEF Skipped, Working
<1>2. CASE Detect(w)
  BY <1>2 DEF Detect, Working
<1>3. CASE LoadChunksForResume(w)
  BY <1>3 DEF LoadChunksForResume, Working
<1>4. CASE DeleteRows(w)
  BY <1>4 DEF DeleteRows, Working
<1>5. CASE DeletePoints(w)
  BY <1>5 DEF DeletePoints, Working
<1>6. CASE Enter(w)
  BY <1>6 DEF Enter, Working
<1>7. CASE Parse(w)
  BY <1>7 DEF Parse, Working
<1>8. CASE ParseFindsDuplicate(w)
  BY <1>8 DEF ParseFindsDuplicate, Working
<1>9. CASE ParseLosesSource(w)
  BY <1>9 DEF ParseLosesSource, Working
<1>10. CASE ChunkBody(w)
  BY <1>10 DEF ChunkBody, Working
<1>11. CASE ChunkAborts(w)
  BY <1>11 DEF ChunkAborts, Working
<1>12. CASE GuardTrips(w)
  BY <1>12 DEF GuardTrips, Working
<1>13. CASE ChunkAbstract(w)
  BY <1>13 DEF ChunkAbstract, Working
<1>14. CASE InsertPending(w)
  BY <1>14 DEF InsertPending, InsertBatch, Working
<1>15. CASE SaveContent(w)
  BY <1>15 DEF SaveContent, Working
<1>16. CASE PlainStep(w)
  BY <1>16 DEF PlainStep, Working
<1>17. CASE EmbedSpecter(w)
  <2>1. step[w] = "embed_specter" /\ StepDone(w)
    BY <1>17 DEF EmbedSpecter, Working
  <2>2. pc'[w] = "enter" /\ step'[w] = "index"
    BY <2>1
  <2>3. UNCHANGED <<rows, points, mine, todo, run>>
    BY <1>17 DEF EmbedSpecter
  <2> QED
    BY <2>2, <2>3
<1>18. CASE MarkEmbedded(w)
  BY <1>18 DEF MarkEmbedded, Working
<1>19. CASE Index(w)
  BY <1>19 DEF Index, Working
<1>20. CASE InsertIndexed(w)
  BY <1>20 DEF InsertIndexed, InsertBatch, Working
<1>21. CASE Upsert(w)
  BY <1>21 DEF Upsert, Working
<1>22. CASE Verify(w)
  BY <1>22 DEF Verify, Working
<1>23. CASE MarkIndexed(w)
  BY <1>23 DEF MarkIndexed, Working
<1>24. CASE UpdateDoc(w)
  BY <1>24 DEF UpdateDoc, Working
<1>25. CASE Metrics(w)
  BY <1>25 DEF Metrics, Working
<1>26. CASE Finish(w)
  BY <1>26 DEF Finish, Working
<1>27. CASE ZeroChunks(w)
  BY <1>27 DEF ZeroChunks, Working
<1>28. CASE Provenance(w)
  BY <1>28 DEF Provenance, Working
<1>29. CASE Suspend(w)
  BY <1>29 DEF Suspend, Settle, Working
<1>30. CASE AbortCleanup(w)
  BY <1>30 DEF AbortCleanup, Working
<1>31. CASE AbortReturn(w)
  BY <1>31 DEF AbortReturn, Settle, Working
<1>32. CASE MarkDuplicate(w)
  BY <1>32 DEF MarkDuplicate, Settle, Working
<1>33. CASE MarkFailed(w)
  BY <1>33 DEF MarkFailed, Settle, Working
<1>34. CASE MarkFailedForGood(w)
  BY <1>34 DEF MarkFailedForGood, Settle, Working
<1>35. CASE FlagSkipRetry(w)
  BY <1>35 DEF FlagSkipRetry, Working
<1>36. CASE StatementThrows(w)
  BY <1>36 DEF StatementThrows, Throws, Working
<1>37. CASE StatementRejects(w)
  BY <1>37 DEF StatementRejects, Rejects, Working
<1> QED
  BY <1>1, <1>2, <1>3, <1>4, <1>5, <1>6, <1>7, <1>8, <1>9, <1>10, <1>11, <1>12, <1>13,
     <1>14, <1>15, <1>16, <1>17, <1>18, <1>19, <1>20, <1>21, <1>22, <1>23, <1>24, <1>25,
     <1>26, <1>27, <1>28, <1>29, <1>30, <1>31, <1>32, <1>33, <1>34, <1>35, <1>36, <1>37
     DEF WorkerStep

(* LegacyInv holds initially: no execution runs. *)
LEMMA LegacyInit ==
    ASSUME ConstantsAssumption, Init
    PROVE  LegacyInv
  BY InitType, AloneInit DEF Init, LegacyInv, Busy

(* LegacyInv is inductive. *)
LEMMA LegacyStep ==
    ASSUME ConstantsAssumption, RunnerAlone, ~Persist, LegacyInv, [Next]_vars
    PROVE  LegacyInv'
<1>1. TypeOK' /\ AloneInv'
  BY TypeStep, AloneStep DEF LegacyInv
<1>2. ASSUME NEW w \in Workers, WorkerStep(w) PROVE LegacyInv'
  <2>1. Busy(w) /\ \A v \in Workers \ {w} : pc'[v] = pc[v]
    BY <1>2, WorkerStepFrame DEF LegacyInv, TypeOK
  <2>2. \A v \in Workers \ {w} : ~Busy(v)'
    BY <2>1 DEF LegacyInv, AloneInv, OneExecution, Busy
  <2>3. Busy(w)' => LegacyFacts(w)'
    BY <1>2, <2>1, LegacyWorkerStep DEF LegacyInv
  <2> QED
    BY <1>1, <2>1, <2>2, <2>3 DEF LegacyInv
<1>3. ASSUME NEW w \in Workers, RunnerPick(w) \/ ClaimDemanded(w) \/ PortalPick(w)
      PROVE  LegacyInv'
  <2>1. /\ \A v \in Workers \ {w} : ~Busy(v)'
        /\ UNCHANGED <<rows, points>>
    BY <1>3, PickAlone DEF LegacyInv
  <2>2. PICK t \in Tier : Begin(w, t)
    BY <1>3, PickAlone DEF LegacyInv
  <2>3. pc'[w] = "enter" /\ mine'[w] = {} /\ run'[w] \in 1..MaxRuns /\ step'[w] = FirstStep(t)
    BY <2>2 DEF Begin, Goto, LegacyInv, TypeOK, ControlTypeOK, MemTypeOK, ProcsTypeOK,
                ConstantsAssumption
  <2>4. LegacyFacts(w)'
    BY <2>3 DEF LegacyFacts, LegacyPC, MineWhole, InIndexStep, Indexing, IndexStepOver,
                FirstStep
  <2> QED
    BY <1>1, <2>1, <2>4 DEF LegacyInv
<1>4. CASE AroundStep
  <2>1. /\ UNCHANGED <<rows, points, step, mem, runs, warned>>
        /\ UNCHANGED pc \/ \A w \in Workers : ~Busy(w)'
    BY <1>4, AroundFrame DEF LegacyInv, AloneInv, RunnerAlone, Reprocess
  <2> QED
    BY <1>1, <2>1 DEF LegacyInv, Busy, LegacyFacts, LegacyPC, MineWhole, InIndexStep,
                      IndexStepOver, Replaced, mem
<1>5. CASE UNCHANGED vars
  BY <1>1, <1>5 DEF LegacyInv, Busy, LegacyFacts, LegacyPC, MineWhole, InIndexStep,
                    IndexStepOver, Replaced, vars, store, wk, procs, mem
<1> QED
  BY <1>2, <1>3, <1>4, <1>5 DEF Next, AroundStep

(* Without persist-before-embed, a document that only the runner processes
   turns ready only whole: its rows are the complete result of one chunking,
   all of them indexed, and each with its point in Qdrant. *)
THEOREM LegacyReadyWhole ==
    ASSUME RunnerAlone, ~Persist
    PROVE  Spec => ReadyWhole
<1>1. Init => LegacyInv
  BY LegacyInit, ConstantsAssumption
<1>2. LegacyInv /\ [Next]_vars => LegacyInv'
  BY LegacyStep, ConstantsAssumption
<1>3. ASSUME LegacyInv, [Next]_vars, status # "ready", status' = "ready"
      PROVE  Whole(Rows) /\ RowsIn(Indexed) = Rows /\ Rows \subseteq Points
  <2>1. PICK w \in Workers : Finish(w)
    BY <1>3, OnlyFinish DEF LegacyInv
  <2>2. /\ mine[w] # {}
        /\ todo[w] = {} /\ Replaced(w)
        /\ MineWhole(w)
        /\ \A c \in mine[w] : points[c] # "none"
    BY <1>3, <2>1 DEF Finish, LegacyInv, Busy, LegacyFacts, IndexStepOver
  <2>3. mine[w] \subseteq Chunk
    BY <1>3 DEF LegacyInv, TypeOK, MemTypeOK
  <2>4. Rows = mine[w] /\ RowsIn(Indexed) = mine[w]
    BY <2>2, <2>3 DEF Rows, RowsIn, Indexed, Replaced
  <2> QED
    BY <2>2, <2>3, <2>4 DEF Whole, MineWhole, Points
<1>4. LegacyInv /\ [Next]_vars
        => [status # "ready" /\ status' = "ready"
              => Whole(Rows) /\ RowsIn(Indexed) = Rows /\ Rows \subseteq Points]_vars
  BY <1>3
<1> QED
  BY <1>1, <1>2, <1>4, PTL DEF Spec, ReadyWhole

(* Without persist-before-embed, such a document turns ready without orphan
   points in Qdrant, unless this very execution saw its Qdrant delete fail:
   the delete of the index step also clears what earlier executions that
   crashed, were stopped or failed had left there. *)
THEOREM LegacyReadyClean ==
    ASSUME RunnerAlone, ~Persist
    PROVE  Spec => ReadyClean
<1>1. Init => LegacyInv
  BY LegacyInit, ConstantsAssumption
<1>2. LegacyInv /\ [Next]_vars => LegacyInv'
  BY LegacyStep, ConstantsAssumption
<1>3. ASSUME LegacyInv, [Next]_vars, status # "ready", status' = "ready"
      PROVE  warned \/ Orphans = {}
  <2>1. PICK w \in Workers : Finish(w)
    BY <1>3, OnlyFinish DEF LegacyInv
  <2>2. /\ todo[w] = {} /\ Replaced(w)
        /\ warned \/ \A c \in Chunk : points[c] # "none" => c \in mine[w]
    BY <1>3, <2>1 DEF Finish, LegacyInv, Busy, LegacyFacts, IndexStepOver
  <2> QED
    BY <2>2 DEF Orphans, Points, Rows, Replaced
<1>4. LegacyInv /\ [Next]_vars
        => [status # "ready" /\ status' = "ready" => warned \/ Orphans = {}]_vars
  BY <1>3
<1> QED
  BY <1>1, <1>2, <1>4, PTL DEF Spec, ReadyClean

-----------------------------------------------------------------------------
(* PERSIST_CHUNKS_BEFORE_EMBED = true. *)

(* What an execution knows of the stores is preserved by its own steps, and
   so is the promise of the marked rows. *)
LEMMA PersistWorkerStep ==
    ASSUME TypeOK, Persist, NEW w \in Workers, WorkerStep(w), PersistFacts(w),
           \A c \in Chunk : rows[c] # "none" => c[1] <= runs, IndexedHasPoint
    PROVE  /\ \A c \in Chunk : rows'[c] # "none" => c[1] <= runs'
           /\ IndexedHasPoint'
           /\ Busy(w)' => PersistFacts(w)'
<1> USE DEF TypeOK, ControlTypeOK, MemTypeOK, StoreTypeOK, ProcsTypeOK, PersistFacts,
            PersistPC, InIndexStep, Indexing, Unmarked, IndexedHasPoint, Busy, Goto,
            StepDone, OnlyControl, doc, store, procs, mem, After, Step, LastStep, Body,
            Abstract
<1>1. CASE Skipped(w)
  BY <1>1 DEF Skipped, Working
<1>2. CASE Detect(w)
  BY <1>2 DEF Detect, Working
<1>3. CASE LoadChunksForResume(w)
  <2>1. \A c \in RowsIn(Resumable) : c \in Chunk /\ rows[c] # "none" /\ rows[c] # "indexed"
    BY DEF RowsIn, Resumable
  <2>2. mine'[w] = mine[w] \/ mine'[w] = RowsIn(Resumable)
    BY <1>3 DEF LoadChunksForResume
  <2>3. /\ pc[w] = "load" /\ pc'[w] = "enter"
        /\ step'[w] = step[w] \/ step'[w] = "enrich"
        /\ UNCHANGED <<rows, points, todo, run, runs>>
    BY <1>3 DEF LoadChunksForResume
  <2> QED
    BY <2>1, <2>2, <2>3
<1>4. CASE DeleteRows(w)
  BY <1>4 DEF DeleteRows, Working
<1>5. CASE DeletePoints(w)
  BY <1>5 DEF DeletePoints, Working
<1>6. CASE Enter(w)
  BY <1>6 DEF Enter, Working
<1>7. CASE Parse(w)
  BY <1>7 DEF Parse, Working
<1>8. CASE ParseFindsDuplicate(w)
  BY <1>8 DEF ParseFindsDuplicate, Working
<1>9. CASE ParseLosesSource(w)
  BY <1>9 DEF ParseLosesSource, Working
<1>10. CASE ChunkBody(w)
  BY <1>10 DEF ChunkBody, Working
<1>11. CASE ChunkAborts(w)
  BY <1>11 DEF ChunkAborts, Working
<1>12. CASE GuardTrips(w)
  BY <1>12 DEF GuardTrips, Working
<1>13. CASE ChunkAbstract(w)
  BY <1>13 DEF ChunkAbstract, Working
<1>14. CASE InsertPending(w)
  BY <1>14 DEF InsertPending, InsertBatch, Working
<1>15. CASE SaveContent(w)
  BY <1>15 DEF SaveContent, Working
<1>16. CASE PlainStep(w)
  BY <1>16 DEF PlainStep, Working
<1>17. CASE EmbedSpecter(w)
  <2>1. /\ pc[w] = "work" /\ step[w] = "embed_specter"
        /\ UNCHANGED <<rows, points, mine, todo, run, runs>>
    BY <1>17 DEF EmbedSpecter, Working
  <2>2. StepDone(w) \/ (pc'[w] = "markEmbedded" /\ UNCHANGED step)
    BY <1>17 DEF EmbedSpecter
  <2>3. pc'[w] \in {"enter", "markEmbedded"} /\ step'[w] \in {"index", "embed_specter"}
    BY <2>1, <2>2
  <2> QED
    BY <2>1, <2>3
<1>18. CASE MarkEmbedded(w)
  BY <1>18 DEF MarkEmbedded, Working
<1>19. CASE Index(w)
  BY <1>19 DEF Index, Working
<1>20. CASE InsertIndexed(w)
  BY <1>20 DEF InsertIndexed, InsertBatch, Working
<1>21. CASE Upsert(w)
  BY <1>21 DEF Upsert, Working
<1>22. CASE Verify(w)
  BY <1>22 DEF Verify, Working
<1>23. CASE MarkIndexed(w)
  BY <1>23 DEF MarkIndexed, Working
<1>24. CASE UpdateDoc(w)
  BY <1>24 DEF UpdateDoc, Working
<1>25. CASE Metrics(w)
  BY <1>25 DEF Metrics, Working
<1>26. CASE Finish(w)
  BY <1>26 DEF Finish, Working
<1>27. CASE ZeroChunks(w)
  BY <1>27 DEF ZeroChunks, Working
<1>28. CASE Provenance(w)
  BY <1>28 DEF Provenance, Working
<1>29. CASE Suspend(w)
  BY <1>29 DEF Suspend, Settle, Working
<1>30. CASE AbortCleanup(w)
  BY <1>30 DEF AbortCleanup, Working
<1>31. CASE AbortReturn(w)
  BY <1>31 DEF AbortReturn, Settle, Working
<1>32. CASE MarkDuplicate(w)
  BY <1>32 DEF MarkDuplicate, Settle, Working
<1>33. CASE MarkFailed(w)
  BY <1>33 DEF MarkFailed, Settle, Working
<1>34. CASE MarkFailedForGood(w)
  BY <1>34 DEF MarkFailedForGood, Settle, Working
<1>35. CASE FlagSkipRetry(w)
  BY <1>35 DEF FlagSkipRetry, Working
<1>36. CASE StatementThrows(w)
  BY <1>36 DEF StatementThrows, Throws, Working
<1>37. CASE StatementRejects(w)
  BY <1>37 DEF StatementRejects, Rejects, Working
<1> QED
  BY <1>1, <1>2, <1>3, <1>4, <1>5, <1>6, <1>7, <1>8, <1>9, <1>10, <1>11, <1>12, <1>13,
     <1>14, <1>15, <1>16, <1>17, <1>18, <1>19, <1>20, <1>21, <1>22, <1>23, <1>24, <1>25,
     <1>26, <1>27, <1>28, <1>29, <1>30, <1>31, <1>32, <1>33, <1>34, <1>35, <1>36, <1>37
     DEF WorkerStep

(* PersistInv holds initially: no row exists and no execution runs. *)
LEMMA PersistInit ==
    ASSUME ConstantsAssumption, Init
    PROVE  PersistInv
  BY InitType, AloneInit DEF Init, PersistInv, IndexedHasPoint, Busy

(* PersistInv is inductive. *)
LEMMA PersistStep ==
    ASSUME ConstantsAssumption, RunnerAlone \/ PortalAlone, Persist, PersistInv, [Next]_vars
    PROVE  PersistInv'
<1>1. TypeOK' /\ AloneInv'
  BY TypeStep, AloneStep DEF PersistInv
<1>2. ASSUME NEW w \in Workers, WorkerStep(w) PROVE PersistInv'
  <2>1. Busy(w) /\ \A v \in Workers \ {w} : pc'[v] = pc[v]
    BY <1>2, WorkerStepFrame DEF PersistInv, TypeOK
  <2>2. \A v \in Workers \ {w} : ~Busy(v)'
    BY <2>1 DEF PersistInv, AloneInv, OneExecution, Busy
  <2>3. /\ \A c \in Chunk : rows'[c] # "none" => c[1] <= runs'
        /\ IndexedHasPoint'
        /\ Busy(w)' => PersistFacts(w)'
    BY <1>2, <2>1, PersistWorkerStep DEF PersistInv
  <2> QED
    BY <1>1, <2>1, <2>2, <2>3 DEF PersistInv
<1>3. ASSUME NEW w \in Workers, RunnerPick(w) \/ ClaimDemanded(w) \/ PortalPick(w)
      PROVE  PersistInv'
  <2>1. /\ \A v \in Workers \ {w} : ~Busy(v)'
        /\ UNCHANGED <<rows, points>>
    BY <1>3, PickAlone DEF PersistInv
  <2>2. PICK t \in Tier : Begin(w, t)
    BY <1>3, PickAlone DEF PersistInv
  <2>3. /\ pc'[w] = "detect" /\ step'[w] = FirstStep(t)
        /\ mine'[w] = {} /\ todo'[w] = {}
        /\ run'[w] = runs + 1 /\ runs' = runs + 1
    BY <2>2 DEF Begin, Goto, PersistInv, TypeOK, ControlTypeOK, MemTypeOK
  <2>4. runs \in Nat
    BY DEF PersistInv, TypeOK, ProcsTypeOK, ConstantsAssumption
  <2>5. \A c \in Chunk : c[1] \in Nat /\ (rows[c] # "none" => c[1] <= runs)
    BY DEF PersistInv, Chunk, ConstantsAssumption
  <2>6. PersistFacts(w)'
    BY <2>1, <2>3, <2>4, <2>5 DEF PersistFacts, PersistPC, InIndexStep, Indexing, Unmarked,
                                  FirstStep
  <2>7. IndexedHasPoint'
    BY <2>1 DEF PersistInv, IndexedHasPoint
  <2> QED
    BY <1>1, <2>1, <2>3, <2>4, <2>5, <2>6, <2>7 DEF PersistInv
<1>4. CASE AroundStep
  <2>1. \/ /\ UNCHANGED <<rows, points, step, mem, runs, warned>>
           /\ UNCHANGED pc \/ \A w \in Workers : ~Busy(w)'
        \/ Reprocess
    BY <1>4, AroundFrame DEF PersistInv
  <2>2. CASE Reprocess
    <3>1. /\ UNCHANGED <<pc, step, mem, runs>>
          /\ \A w \in Workers : pc[w] \in {"idle", "provenance", "fail"}
      BY <1>1, <2>2 DEF Reprocess, AloneInv, PersistInv, RunnerAlone, PortalAlone, wk
    <3>2. /\ IndexedHasPoint'
          /\ \A c \in Chunk : rows'[c] # "none" => c[1] <= runs'
      BY <2>2, <3>1 DEF Reprocess, AloneInv, PersistInv, IndexedHasPoint, store
    <3>3. \A w \in Workers : Busy(w) => PersistFacts(w)'
      BY <3>1 DEF PersistInv, Busy, PersistFacts, PersistPC, InIndexStep, Indexing, Unmarked,
                  mem
    <3> QED
      BY <1>1, <3>1, <3>2, <3>3 DEF PersistInv, Busy
  <2> QED
    BY <1>1, <2>1, <2>2 DEF PersistInv, IndexedHasPoint, Busy, PersistFacts, PersistPC,
                      InIndexStep, Unmarked, mem
<1>5. CASE UNCHANGED vars
  BY <1>1, <1>5 DEF PersistInv, IndexedHasPoint, Busy, PersistFacts, PersistPC,
                    InIndexStep, Unmarked, vars, store, wk, procs, mem
<1> QED
  BY <1>2, <1>3, <1>4, <1>5 DEF Next, AroundStep

(* With persist-before-embed, in a document that only the runner processes a
   row says 'indexed' only if Qdrant holds its point with both vectors, and
   'indexed_partial' only if it holds the point, across crashes, stops,
   failed upserts and resumed runs. *)
THEOREM PersistIndexedHasPoint ==
    ASSUME RunnerAlone \/ PortalAlone, Persist
    PROVE  Spec => []IndexedHasPoint
<1>1. Init => PersistInv
  BY PersistInit, ConstantsAssumption
<1>2. PersistInv /\ [Next]_vars => PersistInv'
  BY PersistStep, ConstantsAssumption
<1>3. PersistInv => IndexedHasPoint
  BY DEF PersistInv
<1> QED
  BY <1>1, <1>2, <1>3, PTL DEF Spec

-----------------------------------------------------------------------------
(* A ready document is whole: PERSIST_CHUNKS_BEFORE_EMBED = true. *)

(* The steps that make chunks, and the statements before the step loop. *)
Making == {"parse", "translate", "chunk", "abstract_chunk"}
Before == {"detect", "load", "rerunRows", "rerunPoints"}

(* The execution has its chunks: it loaded them, or it has inserted them. *)
Holding(w) ==
    /\ step[w] \notin Making
    /\ pc[w] \in {"enter", "work", "markEmbedded", "upsert", "verify", "markIndexed",
                  "updateDoc", "metrics", "finish"}

(* The index step has marked the rows of the execution's chunks. *)
Marked(w) ==
    /\ Holding(w)
    /\ pc[w] \in {"updateDoc", "metrics", "finish"} \/ step[w] = "review_novelty"

(* The execution has no chunk yet, and has found none. *)
Fresh(w) == step[w] \in Making /\ pc[w] \in {"enter", "work", "abort", "abortReturn"}

(* What an execution knows of its chunks, by control point. *)
HoldFacts(w) ==
    /\ run[w] \in 1..MaxRuns
    /\ pc[w] \in Before
         => step[w] \in {"parse", "abstract_chunk"} /\ mine[w] = {} /\ todo[w] = {}
    /\ pc[w] = "load" => RowsIn(Resumable) # {}
    /\ pc[w] \in {"abort", "abortReturn"} => step[w] = "chunk"
    /\ pc[w] = "markEmbedded" => step[w] = "embed_specter"
    /\ pc[w] \in {"upsert", "verify", "markIndexed", "updateDoc"} => mine[w] # {}
    /\ pc[w] = "finish" => step[w] \notin Making
    /\ Fresh(w) => mine[w] = {} /\ todo[w] = {} /\ \A c \in Chunk : rows[c] = "none"
    /\ pc[w] \in {"insert", "saveContent"} =>
         /\ \/ step[w] = "chunk" /\ mine[w] = Body(run[w])
            \/ step[w] = "abstract_chunk" /\ mine[w] = Abstract(run[w])
            \/ pc[w] = "saveContent" /\ step[w] = "chunk" /\ mine[w] = {}
         /\ (pc[w] = "insert") <=> (todo[w] # {})
         /\ \A c \in Chunk :
              rows[c] = (IF c \in mine[w] \ todo[w] THEN "pending_embed" ELSE "none")
    /\ Holding(w) => todo[w] = {} /\ \A c \in mine[w] : rows[c] # "none"
    /\ Holding(w) /\ calm => \A c \in Chunk : rows[c] # "none" => c \in mine[w]
    /\ Marked(w) => \A c \in mine[w] : rows[c] \in Indexed

(* The rows are all indexed with both vectors, or none is. *)
OneSort ==
    \/ \A c \in Chunk : rows[c] \in {"none", "indexed"}
    \/ \A c \in Chunk : rows[c] # "indexed"

RowsAre(S) == \A c \in Chunk : (rows[c] # "none") <=> (c \in S)

(* Between two INSERT batches the rows are the complete result of one
   chunking, or there are none. *)
StoreWhole ==
    /\ OneSort
    /\ \/ \E w \in Workers : pc[w] = "insert"
       \/ RowsAre({})
       \/ \E r \in 1..MaxRuns : RowsAre(Abstract(r)) \/ RowsAre(Body(r))

(* The inductive invariant of what a ready document holds. *)
HoldInv ==
    /\ PersistInv
    /\ calm => StoreWhole
    /\ \A w \in Workers : Busy(w) => HoldFacts(w)

(* A chunking makes at least one batch. *)
LEMMA Batches ==
    ASSUME ConstantsAssumption, NEW r \in 1..MaxRuns
    PROVE  /\ Body(r) # {} /\ Abstract(r) # {}
           /\ Body(r) \subseteq Chunk /\ Abstract(r) \subseteq Chunk
<1>1. <<r, 1>> \in Chunk /\ <<r, 0>> \in Chunk
  BY DEF ConstantsAssumption, Chunk
<1>2. <<r, 1>> \in Body(r) /\ <<r, 0>> \in Abstract(r)
  BY <1>1 DEF Body, Abstract
<1> QED
  BY <1>2 DEF Body, Abstract

(* What an execution knows of its chunks is preserved by its own steps. *)
LEMMA HoldWorkerStep ==
    ASSUME ConstantsAssumption, TypeOK, Persist, NEW w \in Workers, WorkerStep(w),
           PersistFacts(w), HoldFacts(w), calm => OneSort
    PROVE  Busy(w)' => HoldFacts(w)'
<1> USE DEF TypeOK, ControlTypeOK, MemTypeOK, StoreTypeOK, ProcsTypeOK, PersistFacts,
            PersistPC, InIndexStep, Indexing, Busy, Goto, Fresh,
            StepDone, OnlyControl, doc, store, procs, mem, After, Step, LastStep,
            HoldFacts, Making, Before, Holding, Marked, Indexed
<1>1. CASE Skipped(w)
  BY <1>1 DEF Skipped, Working
<1>2. CASE Detect(w)
  BY <1>2 DEF Detect, Working, RowsIn, Resumable, RowStatus
<1>3. CASE LoadChunksForResume(w)
  BY <1>3 DEF LoadChunksForResume, RowsIn, Resumable, RowStatus, OneSort
<1>4. CASE DeleteRows(w)
  BY <1>4 DEF DeleteRows, Working
<1>5. CASE DeletePoints(w)
  BY <1>5 DEF DeletePoints, Working
<1>6. CASE Enter(w)
  BY <1>6 DEF Enter, Working
<1>7. CASE Parse(w)
  BY <1>7 DEF Parse, Working
<1>8. CASE ParseFindsDuplicate(w)
  BY <1>8 DEF ParseFindsDuplicate, Working
<1>9. CASE ParseLosesSource(w)
  BY <1>9 DEF ParseLosesSource, Working
<1>10. CASE ChunkBody(w)
  BY <1>10, Batches DEF ChunkBody, Working
<1>11. CASE ChunkAborts(w)
  BY <1>11 DEF ChunkAborts, Working
<1>12. CASE GuardTrips(w)
  BY <1>12 DEF GuardTrips, Working
<1>13. CASE ChunkAbstract(w)
  BY <1>13, Batches DEF ChunkAbstract, Working
<1>14. CASE InsertPending(w)
  BY <1>14 DEF InsertPending, InsertBatch, Working
<1>15. CASE SaveContent(w)
  BY <1>15 DEF SaveContent, Working
<1>16. CASE PlainStep(w)
  BY <1>16 DEF PlainStep, Working
<1>17. CASE EmbedSpecter(w)
  <2>1. /\ pc[w] = "work" /\ step[w] = "embed_specter"
        /\ UNCHANGED <<rows, mine, todo, run, calm>>
    BY <1>17 DEF EmbedSpecter, Working
  <2>2. StepDone(w) \/ (pc'[w] = "markEmbedded" /\ UNCHANGED step)
    BY <1>17 DEF EmbedSpecter
  <2>3. \/ pc'[w] = "enter" /\ step'[w] = "index"
        \/ pc'[w] = "markEmbedded" /\ step'[w] = "embed_specter"
    BY <2>1, <2>2
  <2> QED
    BY <2>1, <2>3
<1>18. CASE MarkEmbedded(w)
  BY <1>18 DEF MarkEmbedded, Working
<1>19. CASE Index(w)
  BY <1>19 DEF Index, Working
<1>20. CASE InsertIndexed(w)
  BY <1>20 DEF InsertIndexed, InsertBatch, Working
<1>21. CASE Upsert(w)
  BY <1>21 DEF Upsert, Working
<1>22. CASE Verify(w)
  BY <1>22 DEF Verify, Working
<1>23. CASE MarkIndexed(w)
  BY <1>23 DEF MarkIndexed, Working
<1>24. CASE UpdateDoc(w)
  BY <1>24 DEF UpdateDoc, Working
<1>25. CASE Metrics(w)
  BY <1>25 DEF Metrics, Working
<1>26. CASE Finish(w)
  BY <1>26 DEF Finish, Working
<1>27. CASE ZeroChunks(w)
  BY <1>27 DEF ZeroChunks, Working
<1>28. CASE Provenance(w)
  BY <1>28 DEF Provenance, Working
<1>29. CASE Suspend(w)
  BY <1>29 DEF Suspend, Settle, Working
<1>30. CASE AbortCleanup(w)
  BY <1>30 DEF AbortCleanup, Working
<1>31. CASE AbortReturn(w)
  BY <1>31 DEF AbortReturn, Settle, Working
<1>32. CASE MarkDuplicate(w)
  BY <1>32 DEF MarkDuplicate, Settle, Working
<1>33. CASE MarkFailed(w)
  BY <1>33 DEF MarkFailed, Settle, Working
<1>34. CASE MarkFailedForGood(w)
  BY <1>34 DEF MarkFailedForGood, Settle, Working
<1>35. CASE FlagSkipRetry(w)
  BY <1>35 DEF FlagSkipRetry, Working
<1>36. CASE StatementThrows(w)
  BY <1>36 DEF StatementThrows, Throws, Working
<1>37. CASE StatementRejects(w)
  BY <1>37 DEF StatementRejects, Rejects, Working
<1> QED
  BY <1>1, <1>2, <1>3, <1>4, <1>5, <1>6, <1>7, <1>8, <1>9, <1>10, <1>11, <1>12, <1>13,
     <1>14, <1>15, <1>16, <1>17, <1>18, <1>19, <1>20, <1>21, <1>22, <1>23, <1>24, <1>25,
     <1>26, <1>27, <1>28, <1>29, <1>30, <1>31, <1>32, <1>33, <1>34, <1>35, <1>36, <1>37
     DEF WorkerStep

(* The rows of the document stay of one sort, and whole between two inserts. *)
LEMMA StoreWorkerStep ==
    ASSUME ConstantsAssumption, TypeOK, Persist, NEW w \in Workers, WorkerStep(w),
           \A v \in Workers \ {w} : ~Busy(v), PersistFacts(w), HoldFacts(w),
           calm => StoreWhole
    PROVE  calm' => StoreWhole'
<1> USE DEF TypeOK, StoreTypeOK, ControlTypeOK, MemTypeOK, OnlyControl, doc, store, mem,
            procs, Busy, Goto, StoreWhole, OneSort, RowsAre
<1>1. CASE DeleteRows(w)
  BY <1>1 DEF DeleteRows
<1>2. CASE InsertPending(w)
  <2>1. PICK c \in todo[w] : InsertBatch(w, c, "pending_embed")
           /\ pc' = [pc EXCEPT ![w] = IF todo[w] = {c} THEN "saveContent" ELSE "insert"]
    BY <1>2 DEF InsertPending
  <2>2. rows' = [rows EXCEPT ![c] = "pending_embed"] /\ todo' = [todo EXCEPT ![w] = todo[w] \ {c}]
    BY <2>1 DEF InsertBatch
  <2>3. pc[w] = "insert" /\ (\A d \in Chunk :
              rows[d] = (IF d \in mine[w] \ todo[w] THEN "pending_embed" ELSE "none"))
    BY <1>2 DEF InsertPending, HoldFacts
  <2>4. mine[w] = Abstract(run[w]) \/ mine[w] = Body(run[w])
    BY <2>3 DEF HoldFacts
  <2>5. run[w] \in 1..MaxRuns /\ todo[w] \subseteq mine[w]
    BY DEF HoldFacts, PersistFacts
  <2>6. OneSort'
    BY <2>2, <2>3
  <2>7. CASE todo[w] = {c}
    <3>1. \A d \in Chunk : rows'[d] = (IF d \in mine[w] THEN "pending_embed" ELSE "none")
      BY <2>2, <2>3, <2>5, <2>7
    <3> QED
      BY <3>1, <2>4, <2>5, <2>6
  <2>8. CASE todo[w] # {c}
    BY <2>1, <2>6, <2>8
  <2> QED
    BY <2>7, <2>8
<1>3. CASE MarkEmbedded(w)
  BY <1>3 DEF MarkEmbedded
<1>4. CASE MarkIndexed(w)
  BY <1>4 DEF MarkIndexed, HoldFacts, Holding, Making, Before, PersistFacts, InIndexStep,
              Indexing
<1>5. CASE AbortCleanup(w)
  BY <1>5 DEF AbortCleanup, HoldFacts, Fresh, Making
<1>6. CASE StatementThrows(w)
  BY <1>6 DEF StatementThrows, Throws
<1>7. CASE \/ Skipped(w) \/ Detect(w) \/ LoadChunksForResume(w) \/ DeletePoints(w) \/ Enter(w)
           \/ Parse(w) \/ ParseFindsDuplicate(w) \/ ParseLosesSource(w)
           \/ ChunkBody(w) \/ ChunkAborts(w) \/ GuardTrips(w) \/ ChunkAbstract(w)
           \/ SaveContent(w) \/ PlainStep(w) \/ EmbedSpecter(w) \/ Index(w) \/ Upsert(w)
           \/ Verify(w) \/ UpdateDoc(w) \/ Metrics(w) \/ Finish(w) \/ ZeroChunks(w)
           \/ Provenance(w) \/ Suspend(w) \/ AbortReturn(w) \/ MarkDuplicate(w)
           \/ MarkFailed(w) \/ MarkFailedForGood(w) \/ FlagSkipRetry(w)
           \/ StatementRejects(w)
  <2>1. UNCHANGED <<rows, calm>> /\ pc[w] # "insert"
    BY <1>7 DEF
     Skipped, Detect, LoadChunksForResume, DeletePoints, Enter, Parse, ParseFindsDuplicate,
     ParseLosesSource, ChunkBody, ChunkAborts, GuardTrips, ChunkAbstract, SaveContent,
     PlainStep, EmbedSpecter, Index, Upsert, Verify, UpdateDoc, Metrics, Finish, ZeroChunks,
     Provenance, Suspend, AbortReturn, MarkDuplicate, MarkFailed, MarkFailedForGood,
     FlagSkipRetry, StatementRejects, Rejects, Settle, Working
  <2> QED
    BY <2>1
<1>8. CASE InsertIndexed(w)
  BY <1>8 DEF InsertIndexed, PersistFacts, PersistPC
<1> QED
  BY <1>1, <1>2, <1>3, <1>4, <1>5, <1>6, <1>7, <1>8 DEF WorkerStep

(* HoldInv holds initially: there is no row and no execution. *)
LEMMA HoldInit ==
    ASSUME ConstantsAssumption, Init
    PROVE  HoldInv
<1>1. PersistInv
  BY PersistInit
<1>2. StoreWhole
  BY DEF Init, StoreWhole, OneSort, RowsAre
<1> QED
  BY <1>1, <1>2 DEF Init, HoldInv, Busy

(* HoldInv is inductive. *)
LEMMA HoldStep ==
    ASSUME ConstantsAssumption, RunnerAlone \/ PortalAlone, Persist, HoldInv, [Next]_vars
    PROVE  HoldInv'
<1>1. PersistInv'
  BY PersistStep DEF HoldInv
<1>2. ASSUME NEW w \in Workers, WorkerStep(w) PROVE HoldInv'
  <2>1. Busy(w) /\ (\A v \in Workers \ {w} : pc'[v] = pc[v])
    BY <1>2, WorkerStepFrame DEF HoldInv, PersistInv, TypeOK
  <2>2. \A v \in Workers \ {w} : ~Busy(v) /\ ~Busy(v)'
    BY <2>1 DEF HoldInv, PersistInv, AloneInv, OneExecution, Busy
  <2>3. PersistFacts(w) /\ HoldFacts(w) /\ TypeOK
    BY <2>1 DEF HoldInv, PersistInv
  <2>4. Busy(w)' => HoldFacts(w)'
    BY <1>2, <2>3, HoldWorkerStep DEF HoldInv, StoreWhole
  <2>5. calm' => StoreWhole'
    BY <1>2, <2>2, <2>3, StoreWorkerStep DEF HoldInv
  <2> QED
    BY <1>1, <2>2, <2>4, <2>5 DEF HoldInv
<1>3. ASSUME NEW w \in Workers, RunnerPick(w) \/ ClaimDemanded(w) \/ PortalPick(w)
      PROVE  HoldInv'
  <2>1. /\ \A v \in Workers \ {w} : ~Busy(v)'
        /\ UNCHANGED rows
    BY <1>3, PickAlone DEF HoldInv, PersistInv
  <2>2. PICK t \in Tier : Begin(w, t)
    BY <1>3, PickAlone DEF HoldInv, PersistInv
  <2>3. /\ pc' = [pc EXCEPT ![w] = "detect"] /\ pc[w] = "idle"
        /\ step'[w] = FirstStep(t)
        /\ mine'[w] = {} /\ todo'[w] = {}
        /\ run'[w] \in 1..MaxRuns
    BY <2>2 DEF Begin, Goto, HoldInv, PersistInv, TypeOK, ControlTypeOK, MemTypeOK, ProcsTypeOK,
                ConstantsAssumption
  <2>4. HoldFacts(w)'
    BY <2>3 DEF HoldFacts, Before, Making, Fresh, Holding, Marked, FirstStep, HoldInv,
                PersistInv,
                TypeOK, ControlTypeOK
  <2>5. calm' => calm
    BY <1>3 DEF RunnerPick, ClaimDemanded, PortalPick, doc, store
  <2>6. \A v \in Workers : pc[v] = "insert" => pc'[v] = "insert"
    BY <2>3 DEF HoldInv, PersistInv, TypeOK, ControlTypeOK
  <2>7. calm' => StoreWhole'
    BY <2>1, <2>5, <2>6 DEF HoldInv, StoreWhole, OneSort, RowsAre
  <2> QED
    BY <1>1, <2>1, <2>4, <2>7 DEF HoldInv
<1>4. CASE AroundStep
  <2>1. \/ /\ UNCHANGED <<rows, step, mem>>
           /\ UNCHANGED pc \/ \A w \in Workers : ~Busy(w)'
        \/ Reprocess
    BY <1>4, AroundFrame DEF HoldInv, PersistInv
  <2>2. \/ UNCHANGED <<calm, pc>>
        \/ calm' = FALSE
    BY <1>4 DEF AroundStep, StopRequest, RunnerCrash, RunnerRestart, PortalCrash, PortalRestart,
                ForceFullReset, EnrichmentTrigger, Reprocess, wk
  <2>3. calm' => StoreWhole'
    BY <2>1, <2>2 DEF Reprocess, HoldInv, StoreWhole, OneSort, RowsAre
  <2>4. calm' => calm
    BY <2>2
  <2>5. CASE Reprocess
    <3>1. /\ UNCHANGED <<pc, step, mem>> /\ calm' = FALSE
          /\ \A w \in Workers : pc[w] \in {"idle", "provenance", "fail"}
      BY <1>1, <2>5 DEF Reprocess, AloneInv, HoldInv, PersistInv, RunnerAlone, PortalAlone, wk
    <3> QED
      BY <1>1, <3>1 DEF HoldInv, Busy, HoldFacts, Holding, Marked, Fresh, Before, mem
  <2> QED
    BY <1>1, <2>1, <2>3, <2>4, <2>5
       DEF HoldInv, Busy, HoldFacts, Holding, Marked, Fresh, RowsIn, mem
<1>5. CASE UNCHANGED vars
  <2>1. UNCHANGED <<rows, pc, step, mine, todo, run, calm>>
    BY <1>5 DEF vars, store, wk, mem
  <2> QED
    BY <1>1, <2>1 DEF HoldInv, Busy, HoldFacts, Holding, Marked, Fresh, RowsIn, StoreWhole,
                      OneSort, RowsAre
<1> QED
  BY <1>2, <1>3, <1>4, <1>5 DEF Next, AroundStep

(* With persist-before-embed, a document that one process works on never
   turns ready without rows, and as long as no process died, no chunk INSERT
   ended halfway and nothing but the demand changed its tier, it turns ready
   only whole: resumed runs, stops, failed upserts, partial embeddings and
   retries included. *)
THEOREM PersistReadyWhole ==
    ASSUME RunnerAlone \/ PortalAlone, Persist
    PROVE  Spec => NeverReadyPartial
<1>1. Init => HoldInv
  BY HoldInit, ConstantsAssumption
<1>2. HoldInv /\ [Next]_vars => HoldInv'
  BY HoldStep, ConstantsAssumption
<1>3. ASSUME HoldInv, [Next]_vars, status # "ready", status' = "ready"
      PROVE  /\ Rows # {}
             /\ calm => Whole(Rows) /\ RowsIn(Indexed) = Rows /\ Rows \subseteq Points
  <2>1. PICK w \in Workers : Finish(w)
    BY <1>3, OnlyFinish DEF HoldInv, PersistInv
  <2>2. /\ pc[w] = "finish" /\ mine[w] # {} /\ HoldFacts(w)
        /\ \A v \in Workers : v # w => pc[v] = "idle"
    BY <1>3, <2>1 DEF Finish, HoldInv, PersistInv, AloneInv, OneExecution, Busy
  <2>3. mine[w] \subseteq Chunk
    BY <1>3 DEF HoldInv, PersistInv, TypeOK, MemTypeOK
  <2>4. /\ \A c \in mine[w] : rows[c] \in Indexed
        /\ calm => \A c \in Chunk : rows[c] # "none" => c \in mine[w]
    BY <2>2 DEF HoldFacts, Holding, Marked, Before
  <2>5. Rows # {}
    BY <2>2, <2>3, <2>4 DEF Rows, Indexed
  <2>6. ASSUME calm
        PROVE  Whole(Rows) /\ RowsIn(Indexed) = Rows /\ Rows \subseteq Points
    <3>1. Rows = mine[w] /\ RowsIn(Indexed) = mine[w]
      BY <2>3, <2>4, <2>6 DEF Rows, RowsIn, Indexed
    <3>2. Rows \subseteq Points
      BY <1>3, <2>4, <3>1, Persist DEF HoldInv, PersistInv, IndexedHasPoint, Rows, Points,
                                       Indexed
    <3>3. StoreWhole /\ \A v \in Workers : pc[v] # "insert"
      BY <1>3, <2>2, <2>6 DEF HoldInv
    <3>4. \E r \in 1..MaxRuns : RowsAre(Abstract(r)) \/ RowsAre(Body(r))
      BY <2>5, <3>3 DEF StoreWhole, RowsAre, Rows
    <3>5. \A r \in 1..MaxRuns : Abstract(r) \subseteq Chunk /\ Body(r) \subseteq Chunk
      BY DEF Abstract, Body
    <3>6. Whole(Rows)
      BY <3>4, <3>5 DEF Whole, Rows, RowsAre
    <3> QED
      BY <3>1, <3>2, <3>6
  <2> QED
    BY <2>5, <2>6
<1>4. HoldInv /\ [Next]_vars
        => [status # "ready" /\ status' = "ready"
              => /\ Rows # {}
                 /\ calm => Whole(Rows) /\ RowsIn(Indexed) = Rows /\ Rows \subseteq Points]_vars
  BY <1>3
<1> QED
  BY <1>1, <1>2, <1>4, PTL DEF Spec, NeverReadyPartial

(* Such a document never turns ready without rows, also beside the reprocess
   command and across crashes. *)
THEOREM PersistReadyNotEmpty ==
    ASSUME RunnerAlone \/ PortalAlone, Persist
    PROVE  Spec => NeverReadyEmpty
<1>1. NeverReadyPartial => NeverReadyEmpty
  <2>1. [status # "ready" /\ status' = "ready"
           => /\ Rows # {}
              /\ calm => Whole(Rows) /\ RowsIn(Indexed) = Rows /\ Rows \subseteq Points]_vars
         => [status # "ready" /\ status' = "ready" => Rows # {}]_vars
    OBVIOUS
  <2> QED
    BY <2>1, PTL DEF NeverReadyPartial, NeverReadyEmpty
<1> QED
  BY <1>1, PersistReadyWhole, PTL

(* Stopping a run of such a document costs no chunk rows: when the chunker is
   aborted there is no row yet that the cleanup could delete. *)
THEOREM PersistStopKeeps ==
    ASSUME RunnerAlone \/ PortalAlone, Persist
    PROVE  Spec => StopKeepsRows
<1>1. Init => HoldInv
  BY HoldInit, ConstantsAssumption
<1>2. HoldInv /\ [Next]_vars => HoldInv'
  BY HoldStep, ConstantsAssumption
<1>3. ASSUME HoldInv, Next, NEW w \in Workers,
             pc[w] \in {"suspend", "abort", "abortReturn"}, pc'[w] # pc[w]
      PROVE  rows' = rows
  <2>1. CASE \E v \in Workers : RunnerPick(v) \/ ClaimDemanded(v) \/ PortalPick(v)
    BY <1>3, <2>1, PickAlone, ConstantsAssumption DEF HoldInv, PersistInv
  <2>2. CASE AroundStep
    BY <1>3, <2>2, AroundFrame DEF HoldInv, PersistInv, Reprocess, wk
  <2>3. ASSUME NEW v \in Workers, WorkerStep(v) PROVE rows' = rows
    <3>1. v = w
      BY <1>3, <2>3, WorkerStepFrame DEF HoldInv, PersistInv, TypeOK
    <3>2. CASE AbortCleanup(w)
      <4>1. \A c \in Chunk : rows[c] = "none"
        BY <1>3, <3>2 DEF AbortCleanup, HoldInv, Busy, HoldFacts, Fresh, Making
      <4> QED
        BY <1>3, <4>1, <3>2 DEF AbortCleanup, HoldInv, PersistInv, TypeOK, StoreTypeOK
    <3>3. CASE ~AbortCleanup(w)
      BY <1>3, <2>3, <3>1, <3>3 DEF WorkerStep,
           Skipped, Detect, LoadChunksForResume, DeleteRows, DeletePoints, Enter, Parse,
           ParseFindsDuplicate, ParseLosesSource, ChunkBody, ChunkAborts, GuardTrips,
           ChunkAbstract, InsertPending, SaveContent, PlainStep, EmbedSpecter, MarkEmbedded,
           Index, InsertIndexed, Upsert, Verify, MarkIndexed, UpdateDoc, Metrics, Finish,
           ZeroChunks, Provenance, Suspend, AbortReturn, MarkDuplicate, MarkFailed,
           MarkFailedForGood, FlagSkipRetry, StatementThrows, StatementRejects, Working,
           Rejects, Settle, Throws, OnlyControl, store
    <3> QED
      BY <3>2, <3>3
  <2> QED
    BY <1>3, <2>1, <2>2, <2>3 DEF Next, AroundStep
<1>4. HoldInv /\ [Next]_vars
        => [\A w \in Workers : pc[w] \in {"suspend", "abort", "abortReturn"} /\ pc'[w] # pc[w]
              => rows' = rows]_vars
  BY <1>3
<1> QED
  BY <1>1, <1>2, <1>4, PTL DEF Spec, StopKeepsRows

-----------------------------------------------------------------------------
(* A ready document has the rows of its tier. *)

(* The tier that an execution would get now. *)
NowTier == ComputeIndexingTier("license_aware")

(* There are rows of an abstract, and of a body. *)
HasAbstract == \E c \in Chunk : rows[c] # "none" /\ Part(c) = 0
HasBody     == \E c \in Chunk : rows[c] # "none" /\ Part(c) # 0

(* What an execution knows of the tier, by control point and step. *)
TierFacts(w) ==
    /\ tier[w] = NowTier /\ recTier[w] = NowTier
    /\ step[w] \in {"parse", "translate", "chunk"} => tier[w] = "full"
    /\ step[w] = "abstract_chunk" => tier[w] = "abstract_only"
    /\ pc[w] \in {"insert", "saveContent"} /\ step[w] = "abstract_chunk" => parsed[w] = "abstract"
    /\ step[w] \in {"translate", "chunk"} => parsed[w] = "body"
    /\ pc[w] # "provenance" => status # "ready"

(* An INSERT batch or the content is still to be written. *)
Saving == \E w \in Workers : pc[w] \in {"insert", "saveContent"}

(* The rows are those of the tier, or about to be replaced. *)
RowsOfTier ==
    /\ HasBody => NowTier = "full"
    /\ HasAbstract /\ NowTier = "full" =>
         /\ parserUsed = "abstract"
         /\ \A w \in Workers : pc[w] \in {"idle", "detect", "rerunRows"}
    /\ HasAbstract /\ status = "ready" => parserUsed = "abstract"
    /\ HasBody => Saving \/ content # "null"
    /\ HasAbstract => Saving \/ content = "abstract"
    /\ NowTier = "abstract_only" => content \in {"null", "abstract"}

(* The inductive invariant of the tier. *)
TierInv ==
    /\ HoldInv
    /\ calm => RowsOfTier /\ \A w \in Workers : Busy(w) => TierFacts(w)

(* An execution gets a tier. *)
LEMMA SomeTier ==
    ASSUME DocTypeOK
    PROVE  /\ NowTier \in Tier
           /\ \A s \in Strategies : ComputeIndexingTier(s) \in Tier
  BY DEF DocTypeOK, NowTier, ComputeIndexingTier, Tier, Strategies

(* The tier of the document moves only with its row. *)
LEMMA SameTier ==
    ASSUME UNCHANGED <<rowTier, open>>
    PROVE  NowTier' = NowTier
  BY DEF NowTier, ComputeIndexingTier

(* What an execution knows of the tier is preserved by its own steps. *)
LEMMA TierWorkerStep ==
    ASSUME TypeOK, Persist, "write" \notin Faults, NEW w \in Workers, WorkerStep(w),
           PersistFacts(w), HoldFacts(w), TierFacts(w)
    PROVE  NowTier' = NowTier /\ (Busy(w)' => TierFacts(w)')
<1>1. CASE UpdateDoc(w)
  <2>1. rowTier' = NowTier /\ UNCHANGED open
    BY <1>1 DEF UpdateDoc, TierFacts
  <2>2. NowTier' = NowTier
    BY <2>1, SomeTier DEF TypeOK, NowTier, ComputeIndexingTier, Tier
  <2> QED
    BY <1>1, <2>2 DEF UpdateDoc, TierFacts, mem, Goto, TypeOK, ControlTypeOK
<1>2. CASE ~UpdateDoc(w)
  <2>1. UNCHANGED <<rowTier, open>>
    BY <1>2 DEF WorkerStep, Rejects, Throws, Settle, OnlyControl, doc,
           Skipped, Detect, LoadChunksForResume, DeleteRows, DeletePoints, Enter, Parse,
           ParseFindsDuplicate, ParseLosesSource, ChunkBody, ChunkAborts, GuardTrips,
           ChunkAbstract, InsertPending, InsertBatch, SaveContent, PlainStep, EmbedSpecter,
           MarkEmbedded,
           Index, InsertIndexed, Upsert, Verify, MarkIndexed, Metrics, Finish,
           ZeroChunks, Provenance, Suspend, AbortCleanup, AbortReturn, MarkDuplicate,
           MarkFailed,
           MarkFailedForGood, FlagSkipRetry, StatementThrows, StatementRejects
  <2>2. NowTier' = NowTier
    BY <2>1, SameTier
  <2> USE DEF TypeOK, DocTypeOK, ControlTypeOK, MemTypeOK, TierFacts, PersistFacts,
              PersistPC, Busy, Goto, StepDone,
              OnlyControl, doc, mem, After, Step, LastStep, Working
  <2>3. CASE LoadChunksForResume(w)
    BY <2>2, <2>3 DEF LoadChunksForResume
  <2>4. CASE Enter(w)
    BY <2>2, <2>4 DEF Enter, StepStatus
  <2>5. CASE Parse(w)
    <3>1. tier[w] = "full" /\ pc[w] = "work" /\ step[w] = "parse"
      BY <2>5 DEF Parse
    <3>2. recTier'[w] = NowTier
      BY <2>5, <3>1 DEF Parse, NowTier, ComputeIndexingTier
    <3>3. parsed'[w] = "body" /\ pc'[w] = "enter" /\ step'[w] = "translate" /\ tier' = tier
          /\ status' = status
      BY <2>5, <3>1 DEF Parse
    <3> QED
      BY <2>2, <3>1, <3>2, <3>3
  <2>6. CASE ChunkBody(w)
    BY <2>2, <2>6 DEF ChunkBody
  <2>7. CASE ChunkAbstract(w)
    BY <2>2, <2>7 DEF ChunkAbstract
  <2>8. CASE InsertPending(w)
    BY <2>2, <2>8 DEF InsertPending, InsertBatch
  <2>9. CASE SaveContent(w)
    BY <2>2, <2>9 DEF SaveContent, HoldFacts
  <2>10. CASE PlainStep(w)
    BY <2>2, <2>10 DEF PlainStep
  <2>11. CASE EmbedSpecter(w)
    <3>1. /\ pc[w] = "work" /\ step[w] = "embed_specter"
          /\ UNCHANGED <<tier, recTier, parsed, status>>
      BY <2>11 DEF EmbedSpecter
    <3>2. StepDone(w) \/ (pc'[w] = "markEmbedded" /\ UNCHANGED step)
      BY <2>11 DEF EmbedSpecter
    <3>3. pc'[w] \in {"enter", "markEmbedded"} /\ step'[w] \in {"index", "embed_specter"}
      BY <3>1, <3>2
    <3> QED
      BY <2>2, <3>1, <3>3
  <2>12. CASE MarkEmbedded(w)
    BY <2>2, <2>12 DEF MarkEmbedded, HoldFacts
  <2>13. CASE Metrics(w)
    BY <2>2, <2>13 DEF Metrics, InIndexStep, Indexing
  <2>14. CASE Finish(w)
    BY <2>2, <2>14 DEF Finish
  <2>15. CASE \/ Suspend(w) \/ AbortReturn(w) \/ MarkDuplicate(w)
              \/ MarkFailed(w) \/ MarkFailedForGood(w)
    BY <2>2, <2>15 DEF Suspend, AbortReturn, MarkDuplicate, MarkFailed, MarkFailedForGood,
                       Settle
  <2>16. CASE StatementThrows(w)
    BY <2>2, <2>16 DEF StatementThrows, Throws
  <2>17. CASE \/ Skipped(w) \/ Provenance(w) \/ StatementRejects(w)
    BY <2>2, <2>17 DEF Skipped, Provenance, StatementRejects, Rejects
  <2>18. CASE \/ Detect(w) \/ DeleteRows(w) \/ DeletePoints(w) \/ ParseFindsDuplicate(w)
              \/ ParseLosesSource(w) \/ ChunkAborts(w) \/ GuardTrips(w) \/ Index(w) \/ Upsert(w)
              \/ Verify(w) \/ MarkIndexed(w) \/ ZeroChunks(w) \/ AbortCleanup(w)
              \/ FlagSkipRetry(w)
    <3>1. UNCHANGED <<tier, recTier, step, parsed, status>>
      BY <2>18 DEF Detect, DeleteRows, DeletePoints, ParseFindsDuplicate, ParseLosesSource,
                   ChunkAborts, GuardTrips, Index, Upsert, Verify, MarkIndexed, ZeroChunks,
                   AbortCleanup, FlagSkipRetry, PersistFacts, PersistPC
    <3>2. pc[w] # "provenance" /\ pc'[w] \notin {"insert", "saveContent"}
      BY <2>18 DEF Detect, DeleteRows, DeletePoints, ParseFindsDuplicate, ParseLosesSource,
                   ChunkAborts, GuardTrips, Index, Upsert, Verify, MarkIndexed, ZeroChunks,
                   AbortCleanup, FlagSkipRetry
    <3> QED
      BY <2>2, <3>1, <3>2
  <2>19. CASE InsertIndexed(w)
    BY <2>19 DEF InsertIndexed
  <2> QED
    BY <1>2, <2>3, <2>4, <2>5, <2>6, <2>7, <2>8, <2>9, <2>10, <2>11, <2>12, <2>13, <2>14, <2>15,
       <2>16, <2>17, <2>18, <2>19 DEF WorkerStep
<1> QED
  BY <1>1, <1>2

(* The rows stay those of the tier. *)
LEMMA RowsWorkerStep ==
    ASSUME TypeOK, Persist, "write" \notin Faults, NEW w \in Workers, WorkerStep(w),
           \A v \in Workers \ {w} : pc[v] = "idle" /\ pc'[v] = "idle",
           PersistFacts(w), HoldFacts(w), calm, calm', StoreWhole, TierFacts(w), RowsOfTier,
           NowTier' = NowTier
    PROVE  RowsOfTier'
<1> USE DEF RowsOfTier, HasBody, HasAbstract, Saving, TypeOK, StoreTypeOK, ControlTypeOK, Goto
<1>1. CASE Detect(w)
  <2>1. UNCHANGED <<rows, content, parserUsed, status>> /\ pc[w] = "detect"
    BY <1>1 DEF Detect, OnlyControl, doc, store
  <2>2. ~Saving /\ ~Saving'
    BY <1>1 DEF Detect
  <2>3. ASSUME HasAbstract, NowTier = "full"
        PROVE  pc'[w] = "rerunRows"
    <3>1. PICK c \in Chunk : rows[c] # "none" /\ Part(c) = 0
      BY <2>3
    <3>2. PICK r \in 1..MaxRuns : RowsAre(Abstract(r)) \/ RowsAre(Body(r))
      BY <2>2, <3>1 DEF StoreWhole, RowsAre
    <3>3. RowsAre(Abstract(r))
      BY <3>1, <3>2 DEF RowsAre, Body, Part
    <3>4. \A d \in Chunk : rows[d] # "none" => d = c
      BY <3>1, <3>3 DEF RowsAre, Abstract, Chunk
    <3>5. c \in Rows /\ Rows = {c}
      BY <3>1, <3>4 DEF Rows
    <3>6. SingleRow
      BY <3>1, <3>5 DEF SingleRow
    <3> QED
      BY <1>1, <2>3, <3>6 DEF Detect, TierFacts
  <2> QED
    BY <2>1, <2>2, <2>3
<1>2. CASE InsertPending(w)
  <2>1. PICK c \in todo[w] :
           InsertBatch(w, c, "pending_embed") /\ pc'[w] \in {"saveContent", "insert"}
    BY <1>2 DEF InsertPending
  <2>2. /\ UNCHANGED <<content, parserUsed, status>> /\ pc[w] = "insert"
        /\ rows' = [rows EXCEPT ![c] = "pending_embed"]
    BY <1>2, <2>1 DEF InsertPending, InsertBatch, doc
  <2>3. Saving'
    BY <2>1
  <2>4. \A d \in Chunk : rows'[d] # "none" => d \in mine[w]
    BY <2>1, <2>2 DEF HoldFacts, PersistFacts
  <2>5. status # "ready"
    BY <2>2 DEF TierFacts
  <2>6. CASE step[w] = "chunk" /\ mine[w] = Body(run[w])
    BY <2>2, <2>3, <2>4, <2>5, <2>6 DEF Body, Part, TierFacts
  <2>7. CASE step[w] = "abstract_chunk" /\ mine[w] = Abstract(run[w])
    BY <2>2, <2>3, <2>4, <2>5, <2>7 DEF Abstract, Part, TierFacts
  <2> QED
    BY <2>2, <2>6, <2>7 DEF HoldFacts
<1>3. CASE SaveContent(w)
  <2>1. UNCHANGED <<rows, parserUsed, status>> /\ pc[w] = "saveContent"
        /\ content' = (IF content = "null" THEN parsed[w] ELSE content)
        /\ pc'[w] \in {"finish", "enter"}
    BY <1>3 DEF SaveContent, store, StepDone
  <2>2. \A d \in Chunk : rows[d] # "none" => d \in mine[w]
    BY <2>1 DEF HoldFacts
  <2>3. CASE step[w] = "chunk"
    BY <2>1, <2>2, <2>3 DEF HoldFacts, TierFacts, Body, Part
  <2>4. CASE step[w] = "abstract_chunk"
    BY <2>1, <2>2, <2>4 DEF HoldFacts, TierFacts, Abstract, Part
  <2> QED
    BY <2>1, <2>3, <2>4 DEF HoldFacts
<1>4. CASE UpdateDoc(w)
  <2>1. \E c \in Chunk : rows[c] # "none"
    BY <1>4 DEF UpdateDoc, HoldFacts, Holding, PersistFacts, InIndexStep, Indexing, Making,
                Before, MemTypeOK
  <2>2. content # "null"
    BY <1>4, <2>1 DEF UpdateDoc
  <2>3. /\ UNCHANGED <<rows, parserUsed, status, content>>
        /\ pc[w] = "updateDoc" /\ pc'[w] = "metrics"
    BY <1>4, <2>2 DEF UpdateDoc, store
  <2> QED
    BY <2>3
<1>5. CASE Metrics(w) \/ Finish(w)
  <2>1. UNCHANGED <<rows, content>> /\ pc[w] \in {"metrics", "finish"}
        /\ parserUsed' = (IF Rows = {} THEN parserUsed ELSE content)
        /\ pc'[w] \notin {"idle", "detect", "rerunRows", "insert", "saveContent"}
    BY <1>5 DEF Metrics, Finish, QualityMetrics, store, StepDone
  <2> QED
    BY <2>1 DEF Rows
<1>6. CASE DeleteRows(w)
  BY <1>6 DEF DeleteRows, doc
<1>7. CASE MarkEmbedded(w) \/ MarkIndexed(w) \/ AbortCleanup(w)
  <2>1. UNCHANGED <<content, parserUsed, status>>
    BY <1>7 DEF MarkEmbedded, MarkIndexed, AbortCleanup, doc
  <2>2. \A c \in Chunk : rows'[c] # "none" => rows[c] # "none"
    BY <1>7 DEF MarkEmbedded, MarkIndexed, AbortCleanup
  <2>3. pc[w] \notin {"idle", "detect", "rerunRows", "insert", "saveContent"}
    BY <1>7 DEF MarkEmbedded, MarkIndexed, AbortCleanup
  <2> QED
    BY <2>1, <2>2, <2>3
<1>8. CASE StatementThrows(w)
  <2>1. /\ UNCHANGED <<rows, content, parserUsed, status>>
        /\ pc[w] \notin {"idle", "detect", "rerunRows", "insert", "saveContent"}
    BY <1>8 DEF StatementThrows, Throws, doc, store
  <2> QED
    BY <1>8, <2>1
<1>9. CASE \/ Enter(w) \/ Suspend(w) \/ AbortReturn(w) \/ MarkDuplicate(w)
           \/ MarkFailed(w) \/ MarkFailedForGood(w)
  <2>1. /\ UNCHANGED <<rows, content, parserUsed>>
        /\ pc[w] \notin {"idle", "detect", "rerunRows", "insert", "saveContent"}
        /\ (status' = "ready" => status = "ready")
    BY <1>9 DEF Enter, Suspend, AbortReturn, MarkDuplicate, MarkFailed, MarkFailedForGood,
                Settle,
                store, StepStatus
  <2> QED
    BY <2>1
<1>10. CASE LoadChunksForResume(w)
  BY <1>10 DEF LoadChunksForResume, doc, store
<1>11. CASE \/ DeletePoints(w) \/ Parse(w) \/ ParseFindsDuplicate(w) \/ ParseLosesSource(w)
            \/ ChunkBody(w) \/ ChunkAborts(w) \/ GuardTrips(w) \/ ChunkAbstract(w) \/ PlainStep(w)
            \/ EmbedSpecter(w) \/ Index(w) \/ Upsert(w) \/ Verify(w) \/ ZeroChunks(w)
            \/ Provenance(w) \/ FlagSkipRetry(w)
  <2>1. UNCHANGED <<rows, content, parserUsed, status>>
    BY <1>11 DEF DeletePoints, Parse, ParseFindsDuplicate, ParseLosesSource, ChunkBody,
                 ChunkAborts,
         GuardTrips, ChunkAbstract, PlainStep, EmbedSpecter, Index, Upsert, Verify, ZeroChunks,
         Provenance, FlagSkipRetry, OnlyControl, doc, store
  <2>2. pc[w] \notin {"idle", "detect", "rerunRows", "insert", "saveContent"}
    BY <1>11 DEF DeletePoints, Parse, ParseFindsDuplicate, ParseLosesSource, ChunkBody,
                 ChunkAborts,
         GuardTrips, ChunkAbstract, PlainStep, EmbedSpecter, Index, Upsert, Verify, ZeroChunks,
         Provenance, FlagSkipRetry, Working, PersistFacts, PersistPC
  <2> QED
    BY <2>1, <2>2
<1>12. CASE Skipped(w)
  BY <1>12 DEF Skipped, OnlyControl, doc, store
<1>13. CASE StatementRejects(w) \/ InsertIndexed(w)
  BY <1>13 DEF StatementRejects, Rejects, InsertIndexed, PersistFacts, PersistPC
<1> QED
  BY <1>1, <1>2, <1>3, <1>4, <1>5, <1>6, <1>7, <1>8, <1>9, <1>10, <1>11, <1>12,
     <1>13 DEF WorkerStep

(* TierInv holds initially: there is no row. *)
LEMMA TierInit ==
    ASSUME ConstantsAssumption, RunnerAlone, Init
    PROVE  TierInv
<1>1. HoldInv
  BY HoldInit
<1>2. \A c \in Chunk : rows[c] = "none"
  BY DEF Init
<1>3. content = "null" /\ \A w \in Workers : pc[w] = "idle"
  BY DEF Init
<1> QED
  BY <1>1, <1>2, <1>3 DEF TierInv, RowsOfTier, HasBody, HasAbstract, Busy

(* TierInv is inductive. *)
LEMMA TierStep ==
    ASSUME ConstantsAssumption, RunnerAlone, Persist, "write" \notin Faults, TierInv, [Next]_vars
    PROVE  TierInv'
<1>1. HoldInv' /\ HoldInv /\ TypeOK
  BY HoldStep DEF TierInv, HoldInv, PersistInv
<1>2. SUFFICES ASSUME calm' PROVE RowsOfTier' /\ \A w \in Workers : Busy(w)' => TierFacts(w)'
  BY <1>1 DEF TierInv
<1>3. ASSUME NEW w \in Workers, WorkerStep(w)
      PROVE  RowsOfTier' /\ \A v \in Workers : Busy(v)' => TierFacts(v)'
  <2>1. Busy(w) /\ (\A v \in Workers \ {w} : pc'[v] = pc[v])
    BY <1>1, <1>3, WorkerStepFrame DEF TypeOK
  <2>2. \A v \in Workers \ {w} : pc[v] = "idle" /\ pc'[v] = "idle"
    BY <1>1, <2>1 DEF HoldInv, PersistInv, AloneInv, OneExecution, Busy
  <2>3. calm
    BY <1>2, <1>3 DEF WorkerStep, Rejects, Throws, Settle, OnlyControl, 
           Skipped, Detect, LoadChunksForResume, DeleteRows, DeletePoints, Enter, Parse,
           ParseFindsDuplicate, ParseLosesSource, ChunkBody, ChunkAborts, GuardTrips,
           ChunkAbstract, InsertPending, InsertBatch, SaveContent, PlainStep, EmbedSpecter,
           MarkEmbedded,
           Index, InsertIndexed, Upsert, Verify, MarkIndexed, UpdateDoc, Metrics, Finish,
           ZeroChunks, Provenance, Suspend, AbortCleanup, AbortReturn, MarkDuplicate,
           MarkFailed,
           MarkFailedForGood, FlagSkipRetry, StatementThrows, StatementRejects
  <2>4. PersistFacts(w) /\ HoldFacts(w) /\ StoreWhole /\ TierFacts(w) /\ RowsOfTier
    BY <1>1, <2>1, <2>3 DEF TierInv, HoldInv, PersistInv
  <2>5. NowTier' = NowTier /\ (Busy(w)' => TierFacts(w)')
    BY <1>1, <1>3, <2>4, TierWorkerStep
  <2>6. RowsOfTier'
    BY <1>1, <1>2, <1>3, <2>2, <2>3, <2>4, <2>5, RowsWorkerStep
  <2> QED
    BY <2>2, <2>5, <2>6 DEF Busy
<1>4. ASSUME NEW w \in Workers, RunnerPick(w) \/ ClaimDemanded(w) \/ PortalPick(w)
      PROVE  RowsOfTier' /\ \A v \in Workers : Busy(v)' => TierFacts(v)'
  <2>1. /\ \A v \in Workers \ {w} : ~Busy(v)'
        /\ UNCHANGED rows
    BY <1>1, <1>4, PickAlone DEF HoldInv, PersistInv
  <2>2. /\ calm /\ \A v \in Workers : pc[v] = "idle"
        /\ status' = "downloaded" /\ UNCHANGED <<content, parserUsed>>
    <3>1. Workers = Runner /\ ~PortalPick(w)
      BY DEF RunnerAlone, Workers, PortalPick
    <3> QED
      BY <1>2, <1>4, <3>1 DEF RunnerPick, ClaimDemanded, RunnerFree
  <2>3. RowsOfTier
    BY <2>2 DEF TierInv
  <2>4. ASSUME NEW t \in Tier, Begin(w, t), NowTier' = t
        PROVE  pc'[w] = "detect" /\ TierFacts(w)'
    <3>1. /\ pc'[w] = "detect" /\ step'[w] = FirstStep(t) /\ tier'[w] = t /\ recTier'[w] = t
      BY <1>1, <2>4 DEF Begin, Goto, TypeOK, ControlTypeOK, MemTypeOK
    <3> QED
      BY <2>2, <2>4, <3>1 DEF TierFacts, FirstStep, Tier
  <2>5. CASE RunnerPick(w)
    <3>1. NowTier' = NowTier
      BY <2>5, SameTier DEF RunnerPick
    <3>2. Begin(w, NowTier)
      BY <1>2, <2>5 DEF RunnerPick, NowTier
    <3>3. pc'[w] = "detect" /\ TierFacts(w)'
      BY <1>1, <2>4, <3>1, <3>2, SomeTier DEF TypeOK
    <3>4. ~Saving
      BY <2>2 DEF Saving
    <3>5. ~Saving' /\ \A v \in Workers : pc'[v] \in {"idle", "detect", "rerunRows"}
      BY <2>1, <3>3 DEF Saving, Busy
    <3>6. RowsOfTier'
      BY <2>1, <2>2, <2>3, <3>1, <3>4, <3>5 DEF RowsOfTier, HasBody, HasAbstract
    <3> QED
      BY <2>1, <3>3, <3>6
  <2>6. CASE ClaimDemanded(w)
    <3>1. rowTier' = "full" /\ status = "ready" /\ rowTier = "abstract_only" /\ Begin(w, "full")
      BY <2>6 DEF ClaimDemanded
    <3>2. NowTier' = "full"
      BY <3>1 DEF NowTier, ComputeIndexingTier
    <3>3. pc'[w] = "detect" /\ TierFacts(w)'
      BY <2>4, <3>1, <3>2 DEF Tier
    <3>4. ~Saving
      BY <2>2 DEF Saving
    <3>5. ~Saving' /\ \A v \in Workers : pc'[v] \in {"idle", "detect", "rerunRows"}
      BY <2>1, <3>3 DEF Saving, Busy
    <3>6. RowsOfTier'
      BY <2>1, <2>2, <2>3, <3>1, <3>2, <3>4, <3>5 DEF RowsOfTier, HasBody, HasAbstract
    <3> QED
      BY <2>1, <3>3, <3>6
  <2> QED
    BY <1>4, <2>5, <2>6 DEF RunnerAlone, PortalPick
<1>5. CASE AroundStep
  <2>1. /\ UNCHANGED <<rows, step, pc, tier, recTier, parsed, rowTier, open, content, parserUsed>>
        /\ calm /\ status' \in {status, "downloaded"}
    <3>1. CASE StopRequest \/ RunnerRestart \/ PortalRestart
      BY <1>2, <3>1 DEF StopRequest, RunnerRestart, PortalRestart, doc, store, wk, mem
    <3> QED
      BY <1>2, <1>5, <3>1 DEF AroundStep, RunnerCrash, PortalCrash, ForceFullReset,
                              EnrichmentTrigger, Reprocess
  <2>2. NowTier' = NowTier
    BY <2>1, SameTier
  <2>3. RowsOfTier /\ \A w \in Workers : Busy(w) => TierFacts(w)
    BY <2>1 DEF TierInv
  <2> QED
    BY <2>1, <2>2, <2>3 DEF RowsOfTier, TierFacts, Busy, HasBody, HasAbstract, Saving
<1>6. CASE UNCHANGED vars
  <2>1. UNCHANGED <<rows, step, pc, tier, recTier, parsed, rowTier, open, content, parserUsed,
                    status, calm>>
    BY <1>6 DEF vars, doc, store, wk, mem
  <2>2. NowTier' = NowTier
    BY <2>1, SameTier
  <2>3. RowsOfTier /\ \A w \in Workers : Busy(w) => TierFacts(w)
    BY <1>2, <2>1 DEF TierInv
  <2> QED
    BY <2>1, <2>2, <2>3 DEF RowsOfTier, TierFacts, Busy, HasBody, HasAbstract, Saving
<1> QED
  BY <1>3, <1>4, <1>5, <1>6 DEF Next, AroundStep

(* With persist-before-embed, and as long as nothing has disturbed its runs,
   a document that only the runner processes turns ready with the rows of its
   tier: its body under 'full', also when it was indexed by its abstract
   before and a demand raised the tier, and its abstract under
   'abstract_only'.  The statements of the pipeline may fail, except for the
   plain writes of the document row. *)
THEOREM PersistReadyTier ==
    ASSUME RunnerAlone, Persist, "write" \notin Faults
    PROVE  Spec => ReadyHasItsTier
<1>1. Init => TierInv
  BY TierInit, ConstantsAssumption
<1>2. TierInv /\ [Next]_vars => TierInv'
  BY TierStep, ConstantsAssumption
<1>3. ASSUME TierInv, [Next]_vars, status # "ready", status' = "ready", calm
      PROVE  /\ rowTier = "full" => \A c \in Rows : Part(c) # 0
             /\ rowTier = "abstract_only" => \A c \in Rows : Part(c) = 0
  <2>1. PICK w \in Workers : Finish(w)
    BY <1>3, OnlyFinish DEF TierInv, HoldInv, PersistInv
  <2>2. pc[w] = "finish" /\ RowsOfTier
    BY <1>3, <2>1 DEF Finish, TierInv
  <2>3. rowTier # "null" => NowTier = rowTier
    BY DEF NowTier, ComputeIndexingTier
  <2> QED
    BY <2>2, <2>3 DEF RowsOfTier, HasAbstract, HasBody, Rows
<1>4. TierInv /\ [Next]_vars
        => [status # "ready" /\ status' = "ready" /\ calm
              => /\ rowTier = "full" => \A c \in Rows : Part(c) # 0
                 /\ rowTier = "abstract_only" => \A c \in Rows : Part(c) = 0]_vars
  BY <1>3
<1> QED
  BY <1>1, <1>2, <1>4, PTL DEF Spec, ReadyHasItsTier
=============================================================================
