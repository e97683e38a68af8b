# openarx-core: TLA+ models

openarx-core ingests scientific papers into PostgreSQL and Qdrant, enriches
them, and serves them to agents through MCP.  This directory holds TLA+ models
of the parts of it that several actors, failures and restarts make hard, TLC
configurations that check them on small instances, and TLAPS proofs of the
properties that matter most.

Paths below are relative to `packages/`.

## 1. Inventory

| component | state | operations | interacts with |
|---|---|---|---|
| **Document pipeline** (`ingest/src/pipeline/`, `api/src/storage/`) | row of the document, chunk rows, Qdrant points, work item in memory | `processOne`: resume decision, parse, translate, chunk, enrich, embed, index, quality metrics, ends | PostgreSQL, Qdrant, embed service; called by the runner and by the portal queue |
| **Runner** (`ingest/src/runner/RunnerService.ts`) | `starting`, `currentRunId`, `stopRequested`, `stopSignal`; rows of `pipeline_runs` | ingest, registry-update, retry, doctor, stop, init (recovery) | the pipeline; the CLI and the console through a unix socket |
| **Registry producer, channel, semaphores** (`RunnerService.ts`, `pipeline/channel.ts`, `lib/semaphore.ts`, `pipeline/resource-pool.ts`) | channel buffer, parked readers and writers, permits | send, receive, close, acquire, release | stages of a run |
| **Publishing** (`mcp/src/publish-document.ts`, `mcp/src/portal-doc-queue.ts`) | row, idempotency key, directory; in-memory queue | publish-document, enqueue, drain, init (recovery) | the pipeline, the portal |
| **Enrichment** (`enrichment/src/`) | license, effective license, coverage rows | claim, fetch, trigger a re-index | rewrites rows the pipeline may have in flight |
| **Reprocess command** (`cli/src/commands/reprocess.ts`) | - | delete rows, delete points, reset | the same rows and points |
| **Review** (`api/src/storage/review-store.ts`, `pipeline/review/`) | one review row per document and version | create, fill the aspects, finish | publishing, pipeline |
| **Methodist** (`methodist/src/`, `mcp/src/profiles/methodist-v2/`) | run state, graph records, vectors | interpret a program of primitives, resume it | Neo4j, Qdrant, PostgreSQL |
| **Versions** (`indexer-step.ts` 194-237, `mcp/src/concept-latest.ts`) | `is_latest` on rows and points | deactivate the older versions | pipeline |
| **Soft delete** (`api/src/storage/soft-delete-store.ts`) | tombstones, deferred Qdrant work | delete, restore, reconcile | pipeline (a duplicate check) |
| **Embed service** (`embed-service/src/`) | TEI backends and their health, cache | embed | pipeline |
| **Doctor** (`ingest/src/doctor/`) | - | detect and fix: orphan points, missing points, partial chunks, flat section paths, stuck rows, oversized chunks, LaTeX upgrade, and others | chunk rows and points, next to the pipeline; its fix is a run of the runner |
| **Publishing tools, uploads, billing** (`mcp/src/profiles/pub/`, `upload-routes.ts`, `scripts/cleanup-pending-uploads.ts`) | row and file of an upload, credits at the Portal | prepare, PUT, price check, publish, burn, deduct, refund, clean up | publishing, the Portal |
| **Reading tools** (`mcp/src/profiles/v1/`, `dev/`, `shared/`) | - (reads only, several per call) | search, fusion and ranking, lookups by document, concept, code, benchmark | rows and points that indexings and deletes change meanwhile |
| **Gateway** (`mcp/src/index.ts`, `portal-auth.ts`, `cost-key.ts`, `gov-identity.ts`, `profiles/`) | cache of tokens, of tiers, of agents; current run of an agent | admission, tools of a role, attribution, price, deduction, refund, log; governance calls | Portal, governance service, Redis |
| **Methodist channel v3, counters** (`mcp/src/profiles/methodist-tools.ts`, `mcp/src/lib/*-counters.ts`, `*-rollup.ts`) | records of hand-ins, tickets; counters and rollups | hand-in, stop rule, replay, escalation; count, roll up | Redis, PostgreSQL |
| **Intake** (`mcp/src/profiles/pub/`, `lib/materialize-archive.ts`, `file-magic.ts`, `legal-versions.ts`) | files of a draft or a publication | look at an archive, unpack, materialize, create a draft, inherit, ask for consent | uploads, the Portal |
| **Internal API** (`mcp/src/internal-routes.ts`, `user-documents.ts`) | scratch directories | search, documents, files, reviews, lists of a user | both stores, the disk |
| **Claim graph, scientific reads** (`methodist/src/primitives/`, `api/src/storage/layer2-*.ts`, `mcp/src/profiles/methodist-v2/scientific-reads.ts`) | nodes, edges and vectors of claims | resolve local names, validate, commit; search, walk, cluster, relate | Neo4j, Qdrant |
| **Chunker, verbatim recovery** (`ingest/src/pipeline/chunker-step.ts`, `verbatim-recovery.ts`, `stage1-recovery.ts`, `section-batching.ts`) | - | batches, a model's answer to chunks, exact text, borders, reprocessing | a step of the pipeline |
| **Parsers, model router, scripts, types** | - | text processing, client calls, one-shot repairs | - |

What is hard, by component:

* *pipeline*: one statement at a time against two stores without a transaction
  around them; a later run takes over what an earlier one has left, perhaps
  under another tier; stop and crash between any two statements; enrichment,
  demand re-indexing, force_full and the reprocess command rewrite the row
  meanwhile; the portal's process runs the same code on the same table.
* *runner*: checks and claims with awaits between them, a stop that has to reach
  two places, runs that are given up while documents are in flight.
* *publishing*: racing repeats of a request, a queue that lives in memory next
  to rows that do not, requests that come in while the queue is recovered.
* *channel and semaphores*: continuations that run after other callers.
* *doctor*: it compares two stores one read at a time and repairs what it has read,
  while the pipeline writes both.
* *review, methodist, versions*: several workers, several stores, results out of
  order.
* *billing*: a price asked before, a deduction after, a refund for what failed, each a
  call that may be lost; an upload that must be used once and not lost.
* *reading tools*: several reads that together must not hide a paper that is always there.
* *gateway*: what is cached of a token, an agent or a tier against what is true now.
* *claim graph*: records in any order, commits that stop half way, chains that fork,
  lists that are cut; *chunker*: whatever a model answers, no text may be lost.

Every component is in `PROJECT.json`, with what is left out, and every hazard at
the line where it bites.

## 2. Modules

| module | models | how |
|---|---|---|
| `DocPipeline` | `DocumentOrchestrator.processOne` for one document, the workers, `PgChunkStore`, `QdrantVectorStore`, the actors that rewrite the row | one action per statement or Qdrant call |
| `MCDocPipeline` | - | sets of failures and actors for TLC |
| `DocPipelineProofs` | - | theorems about `DocPipeline` |
| `SingleRun` | what the runner promises: one holder, documents only while it holds | abstract specification |
| `RunnerLock` | `RunnerService`: commands, stages, stop, documents in flight in five phases | one action per await |
| `MCRunnerLock`, `RunnerLockProofs` | - | as above |
| `PortalQueue` | `handlePublishDocument` from the pre-check on, `PortalDocQueue` | one action per await |
| `RegistryRun` | registry-update and registry ingest of `RunnerService`: days, selection, downloads, channel, consumer | one action per resumption after an await |
| `VersionIndex` | `create_new_version`, the flag writes of `IndexerStep`, soft delete and restore, `ReconciliationLoop` | one action per statement or Qdrant call |
| `Review` | `document_reviews`: `publish-document`, `reviewNoveltyWorker`, `review-store.ts`, the content-review routes | one action per statement, a pass of the pipeline in its order of steps |
| `Methodist` | the procedures of the methodist (`content.ts`), their primitives, `doors.ts`, the idempotency index | one action per primitive that reads or writes |
| `Enrichment` | `runEnrichmentLoop`, `enrichDocument`, the rate limiter, `EnrichmentRunner` | one action per await |
| `EmbedService` | `POST /embed`: cache, router, handler, TEI pool, health probes, admin endpoints | one action per await |
| `MethodistProofs` | - | theorems about `Methodist` |
| `IngestProofs` | - | theorems about `RegistryRun`, `VersionIndex`, `Readers` and the search tools of `Search` |
| `ReviewProofs` | - | theorems about `Review` |
| `ServiceProofs` | - | theorems about `Enrichment` and `EmbedService` |
| `Doctor` | the fixes of `doctor/checks/` that compare or rewrite rows and points, and the pipeline around them, for one document | one action per statement or Qdrant call, a batch being one call |
| `DoctorProofs` | - | theorems about `Doctor` |
| `PublishCalls` | the paid call that publishes an uploaded file, PUTs of the upload, its clean-up, on top of `PortalQueue` | one action per await |
| `PublishCallsProofs` | - | theorems about `PublishCalls` and, with it, `PortalQueue` |
| `Search` | what the search tools compute: filters, fusion, tiers, diversity | operators |
| `Lookups` | the same of the other reading tools | operators |
| `Readers` | the search tools and pages, read by read, on top of `VersionIndex` | one action per read |
| `Recovery`, `Chunker` | `verbatim-recovery.ts`, `sequence-matcher.ts`; batching, chunks, borders, `process` | operators |
| `Access` | the stations of a request, the cache of tokens, tools by role, scope and tier | operators, a cache as a fold over calls |
| `ToolCall` | attribution, agent, price, deduction, refund and log of one call; the governance tools | operators on records of outcomes |
| `Channel`, `Counters` | hand-ins of methodist v3; counters, rollups, claim snapshot | operators, folds over calls |
| `Intake` | archives, drafts, versions, consent | operators on a small disk |
| `InternalApi` | the internal routes | operators |
| `ClaimGraph` | the claims' graph: commit, guards, reads | operators on a graph |
| `MC...` of each | - | the instance TLC explores, or the bounded inputs of a module of operators |

### DocPipeline

Variables: the columns of the document's row that control anything (`status`,
`rowTier` = `indexing_tier`, `open` = whether `computeIndexingTier` finds an open
license, `parserUsed`, `content` = whose `structured_content`, `skipRetry`);
`rows` and `points`; per execution its program counter, step, tier, the tier its
in-memory document carries (`recTier`), the chunks in memory (`mine`), those still
to be inserted (`todo`), the parsed document it would hand on (`parsed`) and
whether SPECTER2 answered.  A chunk stands for one INSERT batch of one execution,
so that an execution that is cut short leaves some of its batches.

`Detect` and `LoadChunksForResume` are the resume decision, `Enter` the top of the
step loop (stop check, status write), one action per worker follows, and `Finish`,
`ZeroChunks`, `Suspend`, `AbortReturn`, `MarkDuplicate`, `MarkFailed` and
`MarkFailedForGood` are its ends.  `StatementThrows` is a failing statement inside
the try block, `StatementRejects` one outside of it or in the catch block.  `Persist`
is `PERSIST_CHUNKS_BEFORE_EMBED`; both modes are checked.

`RunnerFree` says that the runner hands the document to one execution at a time.
This is what `RunnerLock` has to deliver (`NeverTwoWriters`, `Implements`).

### RunnerLock and SingleRun

A command is the identity of its run.  `Claim` (ingest, registry update),
`ClaimRetry` and `CheckDoctor` are what happens up to the first await of the
three kinds, `InsertRun` / `InsertThrows` the INSERT of the run's row.  The stages
of an ingest (backlog, demand, force, window) and of a retry (reset, window) are
control points; a registry update and a doctor fix have one of their own without
documents.  A document in flight is the pipeline in five phases: enough to tell
"begins another step" from "is in a step".  `signal[c]` is the stopSignal object
that command c has made, `latest` the one the service holds now.

`SingleRun` has two variables, the holder and the documents in flight.  `Implements`
maps the holder to the run that is past its check and not at its end, and the
documents to those in some phase.

### PortalQueue

A request is the identity of its document, its directory and - unless it carries
a `portal_document_id` that has a row already - its row.  `Save` is the INSERT ...
ON CONFLICT, `SetKey` the UPDATE of the key with its unique index, `DropRow` and
`Replay` what the loser of a race does, `Answer` the enqueue and the HTTP answer.
Whoever removes a directory (`RemoveDir`) may fail without being told; `stuck` are the
directories that stayed.
`Select`, `Load`, `StartQueue` are `init`, which the server does not wait for before it
listens.  The executions are those of `DocPipeline` (portal workers), here with
their first and last status write only.

### RegistryRun

It looks into two stages that are single control points in `RunnerLock`.  A
document of a run is at one place (`at`): queued, reading, fetching, sending into the
channel, sent, waiting for the semaphore of the consumer, running, ended.  The places
tell who holds which permit (`Downloading`, `InFlight`), so permits need no variable of
their own.  `Send` and `Receive` are the channel with its parked senders.  `Batch` is the
LIMIT of the selection (`FirstOf`, the documents with fewer than n before them); `Stopping` is
read at each of the places the code reads it.
What `DocPipeline` does with a document is its outcome here: `Begin` is its first status
write, `Result` an end with a status, `Stopped` the return to 'downloaded', and `Rejects` the
throw that leaves the row as it is; the latter and a `Read` that throws are swallowed by
`allSettled`, so the run goes on.

### VersionIndex

For each version: the latest and deleted flags of its row, the same of its
points, and the control point of its indexing (rows written, points sent, older
rows selected, their rows and then their points flagged).  `SoftDelete`, `Restore`
and `Flip` are the two halves of the routes - PostgreSQL, then Qdrant -, `TickDeleted`,
`TickRestored`, `TickSends` and `TickEnds` the loop, which works on the rows it has read:
`LastDeleted` and `FirstRestored`, cut at the LIMIT (`Cut`) whether their flags need it or not.

### Review

For each document: its status and tier, its sequence of review versions, and the passes
at work on it, one of each process (`Passes`): the portal queue and the runner may have the same
document at once.  `Steps` are the steps of the routes; only those before, at
and after `review_novelty` are told apart.  `Latest` is what "ORDER BY version DESC
LIMIT 1" finds; the last write of a pass (`Complete`) completes it whatever its status is.
`Recover` is the start of the runner, which takes no heed of the portal's documents.
Triggers and tier requests are processes of one call each.  `keys` is the in-process map of
idempotency keys: `DayPasses` makes an answer older than a day, the hourly `Sweep` takes such
answers away, and `Restart` all.  A process or request that a scenario has not is "down" or "unsent".

### Methodist

A call takes its kind, its hand-in and its verdict through the steps of its
procedure.  The stores are variables: the run node (`born`, `stage`), the journal of path
events (`go`), the graph, the idempotency index.  `Fault` is a store that cannot be
reached, a model that gives no verdict or a server that dies.  `NextStage` and
`PutRun` are the two halves of `update-run-state`, computed from what `ReadRun` saw.
A stage is a JSON value, as nothing checks the payload's: its type and the number it counts
for.  `PrevGo` looks at it through `Number()`, `Stored` keeps it as it is, `PlusOne` is
JavaScript's `+ 1` (of the text "2" it makes "21"), and the path of the journal keeps events
whose stage is a number.  A hand-in is known by its `Key`, in which 2 and "2" are one text.
`earned` and `replies` are history variables: GO verdicts given, answers sent.

### Enrichment

The loop's control point, the batch, the permits of its semaphore; per
document the place in `enrichDocument` and the source it is at; per source what
the limiter counts, and what the state file holds (`saved`, `tmp`).  `Failing` are documents
that may fail whenever they are tried, any other fails once at most.  `Pipeline` is
`DocPipeline` seen from here: it takes a document that was sent back and ends it.

### EmbedService

A request goes through lookup, routing, its sub-batches and the merge.  `sub`
holds for each sub-batch the backend it calls and the registration (`id`) it has
seen, so that a reply of a backend that was removed and added again is told from
one of the new registration.  Vectors are the texts they belong to.

### Doctor

Chunks are numbered in the order in which they are made, and a point has the
number of its row.  Of a point the model keeps whether it is as the pipeline
writes it (`full`), without `is_latest` (`thin`, what two of the fixes send) or
without payload and gemini vector (`bare`, what partial-chunks sends).  `deep` are the
rows whose section path has a hierarchy, `old` those an indexing that failed has left
longer than the TTL.  A fix goes from `Start` to `End`; the actions between them are in the
order of the checks, and `Embed` and `Upsert` are shared by the three that write vectors.
The first actions are `DocPipeline` with its rows and points alone and chunks persisted
first: the lock of the runner keeps out its own runs, as long as nothing slips past the
missing latch (section 5), but neither the portal's executions nor the enrichment.
`care` is a history variable: a sweep of the orphans that went well, and then a repair
that did, with no step of the pipeline in between.

### PublishCalls

It composes with `PortalQueue`: a request of that module is here the HTTP call a tool
makes.  A call asks the price, resolves its upload (`content_ref`), sends the request, burns
the upload, and has the Portal deduct and perhaps refund; `paid` and `applied` are the
Portal's ledger, as far as its answers tell of it.  A PUT takes the upload's row, streams, and fills the row if it is still
empty; the clean-up job removes uploads that have expired.

### Search, Lookups and Readers

`Search` and `Lookups` translate the pure part of the tools over chunks that are small
records (document, type, entities, score).  `Readers` takes the same operators apart at the
awaits: a search reads points and rows, then the contexts of what it has found, then the
documents, and leaves a pool of which later pages are cut; an indexing or an administrator of
`VersionIndex` may step between them.  The reranker is out, or has an order of what was met.
`filter` and `sort` are defined by the ranks of positions (`Picked`, `SortDown`), not by
recursion, so that they can be proved about.

### Modules of operators

Where a component keeps no state between calls, or its state is what one call leaves to the
next, its module has operators and recursive functions and no `Next`.  Its properties are
named `ASSUME`s of an MC module, which quantify over bounded inputs and are evaluated by
TLC before it explores the run that hosts them:

| module of checks | of | evaluated at the start of |
|---|---|---|
| `MCTools` | `Search`, `Lookups` | `VersionsReaders` |
| `MCChunks` | `Recovery`, `Chunker` | the three pipeline runs |
| `MCRegistryRun` | `Access` | `RegistryIngest` |
| `MCEmbedService` | `ToolCall` | `EmbedPool` |
| `MCEnrichment` | `Channel`, `Counters` | `EnrichmentLoop` |
| `MCMethodist` | `Intake` | `MethodistCalls` |
| `MCInternalApi` | `InternalApi` | `DoctorFixes` |
| `MCReads` | `ClaimGraph` | `ReviewPasses` |

The hosts have nothing to do with what they host, but that both are part of one project:
a false assumption stops the run.

In `ClaimGraph` a graph is a record of nodes, edges and points.  An id is the content it
hashes, so that two records with the same content have the same one.  `Commit` writes
node by node and edge by edge and may stop after any of them.  In `Recovery` a text is a
sequence of words, a few of which stand for markup, for signs and for the ends of lines;
whatever the model answers is an input.

### Mutated forms

Some definitions are preceded by a mutated form of themselves (a comment says
so).  They are not part of the specification; each is a plausible mistake in the
code that a property has to notice, and `PROJECT.json` says which one.

## 3. Runs

| run | instance | shows |
|---|---|---|
| `PipelineLegacy` | 1 runner execution at a time, 2 body batches, 3 executions, chunks written at the end; every failure but lost sources; demand, force_full, enrichment | a document turns ready whole (`ReadyWhole`) and without orphan points (`ReadyClean`) |
| `PipelinePersist` | the same, chunks persisted first; lost sources, but no lost UPDATE; weak fairness | `NeverReadyPartial`, `ReadyHasItsTier`, `StopKeepsRows`, `Settles` |
| `PipelinePortal` | a portal execution, every failure, the reprocess command | `IndexedHasPoint`, `NeverReadyEmpty` |
| `LockRuns` | an ingest, a registry update, a retry and a doctor fix that meets no other command, 1 document, stops, crashes, failing row writes | `NeverTwoWriters`, `OneRunningRow`, `Implements`, `StopHolds`, `LockReleased` |
| `PublishQueue` | two scenarios: the Portal alone (2 requests with one key, 1 without, capacity 1, 1 slot, every failure, that of a removal included); a busy queue and two tool calls that name one upload with two PUTs, 1 failure of price, refund, timeout, stream or expiry | `AcceptedOnce`, `AnswerMeetsDisk`, `FairlyCharged`, `UploadKept`, `Drained` |
| `RegistryIngest` | 4 documents on 2 days, limit 3, batches of 2, 2 downloads at a time, channel of 1, 1 document at a time, every failure | `BudgetKept`, `SelfResuming`, `RunEnds` |
| `VersionsReaders` | 3 versions, of which an administrator deletes and restores 2, a reconciliation that takes 1 in each direction, a failure; scenarios: 3 indexings and 1 request of the administrator; 2 and 2; 1 and 4; or 2 and 1 on 2 versions with a search of one of three kinds and a reader of pages | `LatestIsNewest`, `NeverHidden`, `FlagsAgree`, `FoundThroughout`, `PagesTile` |
| `ReviewPasses` | 1 document, 2 failures; two scenarios: passes of both processes, a manual and an automatic trigger; or 2 tier requests with one key and 2 with another, restarts and the sweep | `TriggersDistinct`, `ResolvedStays`, `RetryReplays`, `Unblocks` |
| `MethodistCalls` | 4 calls, 2 at a time, 4 hand-ins: stage 1, stage 2 as a number and as the text "2", and a stage that is no number; a failure; calls are symmetric | `AdvanceEarned`, `ReplaysAgree`, `ReplayedGoCommitted` |
| `EnrichmentLoop` | 4 documents, 3 to a batch, 2 at a time, the newest of which may fail for ever, 2 without DOI, a source with 1 request a day, 2 days, a failure | `QuotaKept`, `StoppedQuiet`, `Served` |
| `DoctorFixes` | 2 chunks per indexing, 1 indexing besides the 2 of the past, which have left orphans, losses and partial rows; 3 fixes, 3 failures | `Repaired`, `RowsKeepPoints` |
| `EmbedPool` | 2 requests over 3 texts, 2 backends, batches of 2, 1 call per backend, 1 retry, 3 registrations | `Aligned`, `SlotsAccounted` |

In `PipelinePersist` whole documents and rows of the right tier are promised as long as
a document is `calm`: the runner has not died, no INSERT was cut short, and nothing but
the demand has changed its tier.  Section 5 says what happens otherwise.

The largest are `MethodistCalls` (1.9 million distinct states), `RegistryIngest` (1.0 million),
`EnrichmentLoop` (0.7 million), `VersionsReaders` (0.6 million), `PublishQueue` and
`ReviewPasses` (0.5 million each).

Each module also has a type invariant; those of `DocPipeline`, `RunnerLock`,
`Methodist`, `Doctor`, `RegistryRun` and `Review` are theorems.  Of the 40 properties of
the runs 33 are theorems, too (section 4).

### Bounds

* Three executions (`MaxRuns`): one that fails or is interrupted, one that takes
  over and is interrupted again, one that ends.  The hazards of resumption need
  two, those of a change of tier three.
* Two body batches: the smallest body of which a part can be missing.
* One document: executions of different documents share only the resource pools.
* One execution of the runner at a time: that is `RunnerFree`.
* `RunnerLock`: a command of each kind, so that each kind that claims the runner meets
  each other one.  The stages of one document in flight are independent of those
  of another.  The doctor fix has no latch (section 5): `AloneSpec` leaves out the
  steps in which it and another command are both past their check.
* `PortalQueue`: capacity 1 and one slot, so that three requests fill both; two
  requests with a key race, the third is another user's.
* `PublishCalls`: two calls on one upload and two PUTs, of which the second may begin when the
  first has ended (overlapping PUTs: section 5); the queue is full or not by the document
  that is in execution.
* `RegistryRun`: a batch that leaves a document for the next one, more downloads than permits
  of the channel, and a document left over when the budget is spent; `MaxRuns` = 1, since a
  run starts from whatever state the rows are in.
* `VersionIndex`: an execution may have a part of each bound only (`Scenarios`), whence the
  counters start anywhere within them.  Three versions, since two cannot tell "the newest" from
  "the one before"; two requests, so that a delete is overtaken by its restore, and four to delete
  and restore two documents: with a LIMIT of one, either direction can have one beyond it.
* `Readers`: with the reader two versions suffice, one that is hidden and one that replaces it;
  the loop's steps are not interleaved with those of a search.  Two versions have four chunks and
  the limits of a page are small, so offsets up to 2 (`MaxOffset`) reach the last page.
* Modules of operators: more elements than the limits they are cut at; graphs of up to four
  claims, whose reads stop at two relations and walks at three hops or three claims.
* `Review`: two versions of the review of one document; documents do not share rows.  The
  passes and the tier requests meet in no variable but the tier of the report, which decides nothing
  of the other, hence the two scenarios.  Two requests with each of two keys: one is answered or repeated
  next to one of another age.
* `Methodist`: one diagnosis and further calls reach stage 2, a replay of it, and "21" from a
  stage handed in as "2"; two in flight at a time overlap any two awaits.
* `Enrichment`: more documents than a batch takes, of which it takes more than there are permits;
  one that keeps failing, which the batch can bear; two days, so that the quota is reset amid a
  document.
* `EmbedService`: a request of two sub-batches next to one of a single one; a third
  registration, so that a URL comes back while its old registration has calls.

* `Doctor`: two chunks are the least of which one can be lost and an orphan make up
  for it; three fixes are a sweep, a repair and any third one before or between them;
  three failures exhaust the attempts of an upsert.

Every run takes every action it enables; together they take every action of every
module.

### Fairness

* `DocPipeline`: weak fairness of the next step of every execution (a Node.js
  process runs its continuations; steps have timeouts) and of the restart of a
  dead process (its supervisor).  Nothing starts a run, so no property says that a
  document is ever processed; `Settles` says that it does not stay in flight.
* `RunnerLock`: weak fairness of a run together with its documents.  Nobody has to
  issue a command or a stop.
* `PortalQueue`, `PublishCalls`: weak fairness of handlers, of calls, of the start of the queue
  and of the executions; nobody has to send a request, and a server that is down may stay so.
* `RegistryRun`: weak fairness of every awaited call and of the continuations; a run
  need not be started and a stop need not come.
* `VersionIndex`: weak fairness of the interval timer's loop, of an indexing and of the
  second half of a request; no version need be created, and no reader need read.
* `Review`: weak fairness of a pass that has begun, of the queue, which is
  emptied, and of the runner, whose runs take the documents that wait and which is started again
  when a process that died has left one in flight (the operator's schedule and the supervisor);
  no trigger need come, nor the retry of a failed document.
* `Enrichment`: weak fairness of the worker as a whole - its loop and its documents
  share one process -; midnight, stops and the pipeline need not come.
* `Methodist`, `Doctor` and `EmbedService` have safety properties only.

## 4. Proofs

For every value of the constants, from the assumptions named in the modules and the
hypotheses named below:

| theorem | says |
|---|---|
| `DocPipelineProofs!TypeCorrect` | `Spec => []TypeOK` |
| `DocPipelineProofs!LegacyReadyWhole` | legacy mode, runner alone: a document turns ready only whole |
| `DocPipelineProofs!LegacyReadyClean` | ... and without orphan points unless its own delete failed |
| `DocPipelineProofs!PersistIndexedHasPoint` | early persistence, runner or portal alone: no row says indexed without its point |
| `DocPipelineProofs!PersistReadyWhole` | ... an undisturbed document turns ready only whole (`NeverReadyPartial`) |
| `DocPipelineProofs!PersistReadyNotEmpty` | ... none turns ready without rows (`NeverReadyEmpty`) |
| `DocPipelineProofs!PersistStopKeeps` | ... a stop takes no row away (`StopKeepsRows`) |
| `DocPipelineProofs!PersistReadyTier` | early persistence, runner alone, no lost UPDATE: an undisturbed document has the rows of its tier (`ReadyHasItsTier`) |
| `RunnerLockProofs!TypeCorrect` | `Spec => []TypeOK` |
| `RunnerLockProofs!NeverTwo` | never two writers (`NeverTwoWriters`) |
| `RunnerLockProofs!Refinement` | `Spec => Implements`: the runner implements `SingleRun` |
| `RunnerLockProofs!OneRow` | row writes that succeed: one row at most says running (`OneRunningRow`) |
| `RunnerLockProofs!StopIsKept` | a stop is forgotten neither by the documents nor by the row (`StopHolds`) |
| `PublishCallsProofs!KeptOnce` | one submission is kept once (`AcceptedOnce`) |
| `PublishCallsProofs!AnswersMeetTheDisk` | answer, row and directory agree, but for directories that could not be removed (`AnswerMeetsDisk`) |
| `PublishCallsProofs!FairCharge` | a call costs what its answer is worth (`FairlyCharged`) |
| `PublishCallsProofs!UploadsAreKept` | an upload stays until it is burnt, for a document that is there (`UploadKept`) |
| `IngestProofs!TypeCorrect` | `Spec => []TypeOK` of `RegistryRun`, with the capacity of the channel and of both semaphores |
| `IngestProofs!BudgetHolds` | no run takes more documents than its limit (`BudgetKept`) |
| `IngestProofs!NothingLeft` | a run, stopped or not, leaves no document amid the pipeline but one whose status could not be written; and one that ends as completed nothing to select but what it could not read, mark or begin (`SelfResuming`) |
| `IngestProofs!ReadersOnlyRead` | `ReadersSpec => VersionsSpec`: a reader takes no part in what happens to the stores |
| `IngestProofs!NewestIsLatest` | after indexings in order and without a loss only the newest version is marked as latest (`LatestIsNewest`) |
| `IngestProofs!NeverDropped` | a version loses its flag only to a newer one whose points are there (`NeverHidden`) |
| `IngestProofs!PagesFit` | no chunk is on two pages, and all pages together have the whole pool (`PagesTile`) |
| `IngestProofs!FoundWhileReplaced` | a search finds something of a paper that newer versions replace meanwhile (`FoundThroughout`) |
| `ReviewProofs!TypeCorrect` | `Spec => []TypeOK` |
| `ReviewProofs!VersionsAreOwn` | triggers get versions of their own (`TriggersDistinct`) |
| `ReviewProofs!ResolvedReviewStays` | a complete review stays complete; no pass begins to decide a resolved one, which only the last write of a pass that was deciding before rewrites, however many passes there are (`ResolvedStays`) |
| `ReviewProofs!AnsweredOnce` | a key that was answered less than a day ago is not executed again (`RetryReplays`) |
| `ServiceProofs!QuotaHolds` | the quota is exceeded by at most Concurrency - 1 (`QuotaKept`) |
| `ServiceProofs!StopIsQuiet` | a stopped worker has nothing in flight (`StoppedQuiet`) |
| `ServiceProofs!EmbedTyped` | `EmbedSpec => []EmbedTypeOK`, with the bounds on calls at once and on retries |
| `ServiceProofs!AlwaysAligned` | an answer has the vector of every text at its place (`Aligned`) |
| `ServiceProofs!SlotsKept` | the count of a backend is the number of calls of its registration (`SlotsAccounted`) |
| `MethodistProofs!TypeCorrect` | `Spec => []TypeOK` |
| `MethodistProofs!StageEarned` | whatever JSON values the payloads have for a stage: a stage that is a number is never further than the GO verdicts given, and no path holds a GO beyond them (`AdvanceEarned`) |
| `MethodistProofs!ReplaysAlike` | two replays of one key agree (`ReplaysAgree`) |
| `MethodistProofs!ReplayBacked` | a GO that can be replayed has its claims in the graph (`ReplayedGoCommitted`) |
| `DoctorProofs!TypeCorrect` | `Spec => []TypeOK` |
| `DoctorProofs!SweepsSafe` | no point is deleted while its row is there (`RowsKeepPoints`) |
| `DoctorProofs!RepairsAreWhole` | a sweep and a repair that went well leave rows and points in step (`Repaired`) |

The theorems about `RegistryRun`, `VersionIndex`, `Readers`, `Review`, `Enrichment`,
`EmbedService`, `Methodist` and `Doctor`, and all `TypeCorrect`, have no hypotheses: any
failures, in any number.  What the code swallows, or does not look at, is in the property itself:
the exceptions of `SelfResuming`, `ResolvedStays` and `RetryReplays`.
(`ScenarioAssumption` and `RequestAssumption` of `Readers` give its
bounds and requests their types, a limit and a cap of at least one among them.)  The others do:

* `DocPipeline`: `RunnerAlone` (no portal execution, no reprocess command) or `PortalAlone`
  (no runner execution; of the other actors the reprocess command at most).  With both at
  work TLC refutes the properties (section 5).  `PersistReadyTier` also excludes lost
  UPDATEs, as its run does: one may leave the row with the tier of another run.
* `RunnerLock`: `Assumed`, that is no doctor fix and no statement that fails amid documents;
  section 5 says what either breaks.  `OneRow` excludes failing row writes for the same reason.
* `PublishCalls`: `Hypotheses`.  No two requests bear one `portal_document_id` (section 5 has
  what happens when two do); the failures are those of price, refund, timeout, stream and
  expiry (each other one is listed in section 5 with the property it breaks); and spam costs
  less than a document, since `FairlyCharged` says that only a document that is there costs the
  whole price.

### The arguments

*Runner.*  `NeverTwoWriters` is not inductive: that two runs do not write says nothing about
the flags that keep the second one out.  `LockInv` adds that at most one run is
active (`Alone`), that the flags tell of it (`Held`), that a run that is not active
has nothing waiting or in flight (`AtRest`), and which documents a run has been
handed (`HandedOut`).  With it the refinement follows step by step: a claim is an
`Acquire`, `Take` and the claim of a demanded document a `Begin`, the end of a document an `End`, the
finally block a `Release`; the rest stutters.  `RowInv` ties a row that says running to the
control points between the INSERT and the last UPDATE, where by `Alone` only one run is, and
says that a runner that is down has no active run, so that the restart's UPDATE catches what a
crash has left.  `ToldInv` follows a stop: the run that was told is the latest one, so the
signal its documents read is the one that was set, and it keeps `stopRequested` until its
outcome is computed.

*Pipeline.*  `ReadyWhole` needs to know, at every control point of an execution, what is in
memory, what has been inserted and what has been sent; the invariant of
`DocPipelineProofs` has one conjunct per phase (before the index step, between the
deletes and the inserts, after the upsert).  `IndexedHasPoint` needs that a row is marked only
after its own point has been sent and that points go only together with their rows.
`AloneInv` says why nobody else writes: the queue holds the document only when no execution
does, and the reprocess command finds it ended.  With early persistence an execution takes over
what another has left, so `HoldInv` speaks of the stores themselves: while a document is calm
its rows are none, all batches of one body or an abstract, but for the execution that is
inserting them (`StoreWhole`), and what an execution has in memory is what the rows are.
`TierInv` adds what `parser_used` and `structured_content` tell of those rows, which is all
`Detect` has to decide whether it may resume them under the tier of now.

*Publishing.*  `Keys` carries `AcceptedOnce`: a row that was kept has its key in the unique
index, and a request that gives up has removed row and key before it answers; `Stages` says,
per control point of a handler, which of row, directory and key are there; a directory that
should be gone and is there is `stuck`, and that of a document that is kept is touched by nobody
else.  `CallInv` says what
a call has paid at each of its steps (`Billed`) and that this fits the answer it has heard
(`Answered`); of an upload, that one PUT at a time writes to a row that is still empty
(`Uploaded`) and that what is burnt was burnt for an accepted document (`Burnt`).  The two
invariants are kept apart because the steps of `PortalQueue` change only the first.

*Registry runs.*  `BudgetKept` holds because a batch is cut to the budget, so that what may still
be spent on it (`Unspent`) never exceeds what remains (`BudgetInv`); the tasks test the budget
when they start and spend it after the download, which alone would not do.
`Batch` needs a lemma of its own: the first n of a finite set are at most n, shown by taking the
newest of them.  `SelfResuming` needs `MetInv`: until a stop or the end of the budget a document
that was met and still counts as listed or downloaded is on its way to the consumer, could not be
read or begun or has lost its mark, and a producer that closes has met all; `HandInv`: what was
sent is in the buffer or in the consumer's hand, and the consumer settles only behind an empty,
closed channel; and, for runs that are stopped, too, `PassInv`: an intermediate status belongs to
a document that is in the pipeline or was rejected there, and a consumer that is gone has left
none in the pipeline.  For this a document has to be in the channel once (`ChanInv`), so that
what is received twice is not begun twice.

*Versions.*  A reader changes no variable of `VersionIndex`, and each step of `ReadersNext` is one
of `VersionsNext` or leaves the stores alone (`ReadersStep`); so `ReadersSpec` implies
`VersionsSpec`, and what follows is shown of the stores alone.  `NeverHidden` needs `OlderOnly`: an
indexing that is at the flags of others has its own points, and what it has still to flag is
older than itself.  `LatestIsNewest` is about quiet states and says nothing of an indexing under
way; `InOrder` does.  While no version was met as new or newer, one indexing runs at a time and what
else has rows is older (`OneByOne`), and each older version is either still on its list or has
lost its flag - first in the rows, then in the points, as the indexing goes on (`Retired`).
A version that was created meanwhile has no rows, hence nothing to be retired.

*Search and pages.*  The lemmas about `Search` say what each stage does to a list of chunks
with distinct ids: filters and caps keep some of them, sorting and the reranker keep the ids and
change the order, and without filters none leaves nothing of something.  All rest on one fact,
that `Picked` takes the n-th of some positions to place n.  A page that was answered has the
places o + 1 .. o + limit of the diversified pool, but for what was deleted (`Walked`), which
gives `PagesTile`: pages share no place, and offsets that are multiples of the limit reach
every one.
`FoundThroughout` needs two invariants.  In a steady read something can be found after every step
(`SomethingThere`, `FindableStays`): a version loses flags only to one whose rows and points are latest, and
the flags of points go only after those of rows (`OldHasNewer`, `InTurn`).  And what was
read so far has a chunk of a document that is not deleted (`Retrieved`), which the rest of the
search cannot lose.

*Review.*  That a pass about to write has an unresolved review is not invariant: another pass may
have resolved it.  `ReviewInv` says no more than that there is one (`PassHasReview`), that
what a trigger has read is a version the document has or had (`TriggerRead`: versions are never
taken away, so the unique constraint decides the race), and that what was answered less than a day
ago is in the map of keys and not for the sweep to take (`Remembered`).  `ResolvedStays` then
follows action by action: every write but the last of a pass looks at the status, and that
last one ends the deciding of its pass.

*Enrichment.*  The quota is checked before a wait and counted after it.  `QuotaInv` bounds the sum of
both, and a document that passes the check finds at most Concurrency - 1 others waiting because
each task in flight has a permit (`LoopInv`).

*Embed service.*  `ServedInv` says of a request that every position of its answer so far has its
own vector or none (`Hit`, for those found in the cache), and that the part a sub-batch stands for
is filled once it is done (`Partial`).  For the end it takes two facts about positions: each
missed text is sent at its rank among the missed (`MissedRank`), and every position
of what is sent lies in a sub-batch (`SubOf`).  The model defines the missed positions by their ranks
and the sub-batches by a set of numbers, not by recursion, so both are within the prover's
reach.  A count of calls goes wrong only if a call is counted for a registration it
does not belong to; `SlotsInv` says that the calls of each registration are finite in number and are
what is counted for the one in force, and `Batches` that none bears the number
of a registration still to come, so that a new one starts from 0.

*Methodist.*  `MethodistProofs` first says what a call holds at each of its steps (`CallOK`): even
the types need it, because the verdict of a call that is not a checkpoint must be
"none" where the steps of the two meet.  `AdvanceEarned` bounds the stage by the GO
verdicts counted when the run's state is put; a call that has its GO and has not put
yet owes one.  `StageOK` counts those calls (`Owed`) and keeps the level of the stored stage, of
the hand-ins under way and of the stages read before a put that far below what
was earned, and so every GO of the path; the counting rests on the finiteness of `Calls`.  The
level (`Level`) of a number or a boolean is what it counts for, and that of any other value 0: a
step adds one to a level at most (`LevelPlusOne`), and what the stop rule has let pass has a
level that is earned (`LevelPasses`).  A text never becomes a number again but by being
replaced.  `ReplaysAgree` holds
because the index is written once (`ReplayOK`), and `ReplayedGoCommitted` because a claims
step that fails skips the outcome, without which nothing is recorded (`CommitOK`).

*Doctor.*  `RowsKeepPoints` would be false if a sweep could hold a chunk whose row is written later.
`DoctorProofs` shows that it cannot: the ids the sweep has seen were given before
(`BoundOK`), an indexing inserts new ids only, so what once had no row never gets one
(`SweepOK`); and the pipeline deletes points only when it has deleted the rows (`PipeOK`,
which also says that there is room for the ids an indexing gives).  `Repaired` follows the
two fixes: during the sweep an orphan is found or still ahead of the scroll (`SweepInv`); after
it there is none (`CleanInv`), so the count the repair compares is the number of rows that
have a point, and equal counts mean that none is bare; else each bare row is
found, to do, or the fix is marked bad (`RepairInv`).

### What is only model-checked

* Liveness (`Settles`, `LockReleased`, `Drained`, `RunEnds`, `FlagsAgree`, `Unblocks`, `Served`):
  out of the prover's reach.
* The properties of `DocPipeline` with portal and runner side by side do not hold.
* Of the modules of operators nothing is proved: what they compute is defined by recursion
  over their data, and is checked over bounded inputs.

## 5. Known divergences

What the code does against what a comment, a document or its own intention says, as
the models show it.  The constants in brackets lead TLC to it.

Document pipeline and runner:

* `insertPendingChunks` writes the chunks in batches without a transaction, and the
  next run resumes from any row: a document turns ready with a part of its body
  (`ReadyWhole`; Persist = TRUE, Faults = {"insert"}).  `chunk-store.ts:6-7` says "On
  pipeline failure mid-stream, chunks remain in PG and the next retry resumes from
  the embed step".
* `abstractChunkWorker` does not write `parser_used`; the column is filled after the
  index step, so an abstract that was persisted and not indexed is resumed under
  tier full (`FullHasBody`; Persist = TRUE, Faults = {"step"}, Env = {"force"}).
  `document-orchestrator.ts:536-537` says that it "stamps documents.parser_used =
  'abstract_only'".
* `listByStatus('downloaded')` has no filter on the source: the runner takes portal
  documents that the portal queue is processing (`NeverReadyEmpty`; a runner and a
  portal execution).  `document-orchestrator.ts:259` says "Invariant: pipeline cannot
  end in status='ready' with zero chunks."
* `doctor --fix` checks `isRunning` and awaits its INSERT without a latch
  (`NeverTwoWriters` under `Spec`, not `AloneSpec`).  `RunnerService.ts:655-656` says
  "never two writers".
* `cli/src/commands/reprocess.ts:94` ("IndexerStep will also clean on re-index"): with
  early persistence the indexer deletes nothing, and points whose delete failed stay
  (`ReadyClean`; Persist = TRUE, Faults = {"qdrant"}, Env = {"reprocess"}).
* Body chunks of a failed force_full run are resumed under tier abstract_only
  (`RestrictedHasNoBody`; Persist = TRUE, Faults = {"step"}, Env = {"force"}).
* `structured_content` is first-writer-wins: after an upgrade of the tier a resumed
  run gets the abstract in place of the parsed body (`workers.ts:374-377`).
* After a re-download `parseWorker` reloads the document, and the index step records
  the tier of the row, not the one the gate decided (`workers.ts:319-335`).
* The document is set ready before its provenance is appended; a failure of the
  append turns it into a failed one (`document-orchestrator.ts:307`).
* The enrichment trigger does not look at the status: a run that is at work on the
  document ends it with its own tier and 'ready' (`enrich-document.ts:302`).
* A statement that throws in the demand or the registry stage releases the runner
  while documents are in flight (`NeverTwoWriters`; Faults = {"amid"}).
* retry resets the stop flags after its SELECTs (`RunnerService.ts:467`); a stop accepted
  meanwhile is overwritten and lost.
  `StopHolds` therefore speaks of the stops a run was told of after it had reset the
  flags.
* When the last UPDATE and the one of the catch block both fail, a row stays
  'running' until the next restart (`OneRunningRow`; Faults = {"write"}).

* `portal-doc-queue.ts:7` calls the queue "Independent from the Runner daemon (which handles
  arXiv papers only)"; the listing above, `reprocess` and the recovery at the runner's start do
  not look at the source.

Publishing:

* A directory whose removal fails stays on the storage box: each
  `rm(...).catch(() => {})` of `publish-document.ts` (418, 530, 585) swallows it, and nobody is
  told.  `AnswerMeetsDisk` makes an exception of it (`stuck`).
* A repeated request that carries the `portal_document_id` of the first updates the
  first one's row; its own UPDATE of the key matches no row, so the unique index is
  never asked and both are answered 202 (`AcceptedOnce`; equal `PortalId`s).
  `publish-document.ts:518-520` says "The partial unique index is the real guard".
* A document of the portal that was in flight when the MCP server died stays in its
  status until a runner restarts (`portal-doc-queue.ts:66` recovers 'downloaded' only);
  the runner's restart, on the other hand, resets documents the portal has in flight.
* A publish request that is answered before the queue has started is accepted
  without being queued; one saved before init's SELECT and queued after the start
  is executed twice; a document answered with queue_full is not looked at again
  "when capacity frees" (`publish-document.ts:560`), but at the next start.
* When the UPDATE of the key fails the request is answered with 500 and refunded,
  its directory is removed, and its row stays 'downloaded'.

Calls that publish an upload (the constants are those of `PublishCalls`):

* Of two PUTs that overlap, the one that fails to fill the row removes the file of the one
  that did, and so does a stream that breaks off (`UploadKept`; CallFaults = {"overlap"}).
  `upload-routes.ts:138` says "Race-safe fill".
* When the UPDATE that burns an upload fails, its file is unlinked all the same: the row is
  filled and has no file ("burn").
* 503 `consent_check_unavailable` has tier 1 (`publish-document.ts:200`): no refund, yet it is
  charged as every answer from 500 on (`FairlyCharged`; "consent").
* A refund is asked for even when the deduction failed: the user gains it ("deduct").
* When the price cannot be had, one credit is deducted and nothing is refunded.
* A server that dies between the deduction and the refund does not refund.
* A call that times out is not charged and does not burn its upload; the document may be there,
  and a repeat has a new key.  Two overlapping calls with one upload both publish.
* queue_full: the document is kept and all is refunded; the upload stays.
* create_new_version of an unknown version is charged: its answer does not skip billing.
* An error answer of Express has no tier: it is charged and not refunded.
* The clean-up that dies between its UPDATE and its removal leaves the file for good.
* A failing query in the upload handler is an unhandled rejection, which ends the server.

Registry runs, versions:

* A status that cannot be written, of a document that fails or is given back
  (`document-orchestrator.ts:177`, 353), makes `processOneDoc` reject; `allSettled` swallows it
  (`RunnerService.ts:1437`) and the row keeps an intermediate status, which nothing selects until
  the runner starts again.  A `getById` that throws (1306) leaves its document unread.  Either way
  the run ends as 'completed'; `SelfResuming` names both (`rejected`, `unread`).
* A stop overtakes the pipeline at different awaits; `SelfResuming` promises for stopped runs that
  what was taken up can be selected again, not that it was processed.
* `RunnerService.ts:1495-1497` says "Days are atomic: a started day is always finished".
  A stop ends the loop over the pages of a day, and the day is recorded as done
  with the pages it has (`DayAtomic`).
* `Semaphore.release` gives the permit back before the woken waiter takes it: an
  acquire in between makes one too many (`lib/semaphore.ts:28`).  In a registry run each
  semaphore has one loop or one batch that acquires, and the case does not arise; in
  the resource pools it does.
* `015_versioning.sql:15` says that search "only returns latest version's chunks".  Each
  version deactivates those below it when it is indexed: one that ends after a newer one
  stays marked latest (`SearchLatest`).
* The reconciliation takes the 200 documents deleted last and the first 200 by id of those that
  were restored, and neither query asks whether the points differ: a document that has drifted
  and is beyond the LIMIT is never reconciled (`FlagsMatch` for all documents fails in
  `VersionsReaders`).  `FlagsAgree` speaks of the documents a tick looks at (`Reached`).

Review:

* A crash between the status 'failed' and `markReviewFailed` leaves the review
  pending (`document-orchestrator.ts:353`); `Unblocks` leaves this case out by `lost`.
* Portal queue and runner may have a pass over one document each.  Both find the review open, and
  `updateAspect3Fields` (`review-store.ts:274`) looks at no status: the second result overwrites
  the first, and a review that one pass has failed is complete in the end.  `ResolvedStays` says
  what remains, and who may do this.
* A document that the runner takes between its INSERT and `createInitialReview` passes
  `review_novelty` without a review: it ends ready, its review stays pending.  `Unblocks` starts
  from a document whose publish handler is through.
* A manual trigger while a pass is at work: the result is written to "the latest
  review", which is the new version; the old one stays running (`review-store.ts:274`).
* Nothing runs a pass for a review that was triggered by hand on a document that is
  ready (`026_document_reviews.sql:33` speaks of a manual re-review); it stays pending,
  and its tier is 'full' again, whatever a tier request had set.
* The route for abstracts has no `review_novelty`: the review stays pending.
* A publication that is triggered automatically before `createInitialReview` has run
  loses its spam verdict (ON CONFLICT DO NOTHING).
* FOR UPDATE locks nothing without a row: of two first triggers one is answered 500
  by the unique constraint.
* Two tier requests with one key that overlap are both executed; the key is not tied
  to the document.  A request that is repeated after 24 hours (25 at most, the sweep is hourly)
  or after a restart is executed anew.

Methodist:

* `call-model.ts` says "an explicit reject stops the agent, a false ok does not".  When the
  model fails in both attempts the step is recorded as failed, the procedure goes on
  without a verdict, the stage of the payload becomes the run's stage, and the
  answer is ok (`OkMeansGraded`; Faults = {"model"}).
* An identical hand-in sent again before the first is recorded - it overlaps, or the
  server died - is judged again (`doors.ts:154-159`).
* The node is put before the event is appended: when the append fails the run has the
  next stage and no GO for the last one, and every hand-in is refused.
* A commit that fails part of the way does not keep the stage from advancing; only the
  replay index leaves it out (`ReplayedGoCommitted`).
* A question or a need puts the whole node back and loses an advance that was
  written meanwhile.
* An index that cannot be read counts as a miss, a run that cannot be read as a new one.
* The stage of a payload is not validated.  A hand-in without a verdict stores it as it is
  (`update-run-state.ts:93`); if it is the text "2", the next GO makes "21" of it (line 131),
  which no table of doses knows, and no later GO enters the path, which keeps numbers only.
  "the run's stage is SERVER-TRACKED" (line 88) does not say so.  `AdvanceEarned` therefore bounds
  numbered stages and the path.  A list behaves as its text does; fractions, and texts that
  spell a number with blanks, signs or zeros, are left out.
* The door does not record a verdict that is a bare text in lower case, though the run advances
  by it (`doors.ts:163-165`); the model has two verdicts and records both, and misses this miss.

Methodist channel of v3, counters:

* recordCheckpoint is said to replay the stored response to a concurrent caller; the tool
  returns its own.  The replay of a hand-in has neither `checkpoint_id` nor
  `escalation_resolution`.
* A key of the counters that expires between SCAN and HGETALL replaces its row by zeros.  The
  timer does not wait for a cycle that runs: an older reading can overwrite a newer one.
* methodist-rollup inserts row by row: who reads max(rolled_at) may see a part.

Claim graph:

* The projection strips `run_id`, and `findRelatedClaims` reads it off the projected node:
  ownership is always "unknown" (`scientific-reads.ts:1246`), whence `OwnIsNotForeign` says no
  more than that nothing is called foreign that is not.
* commit-bundle-atomic is "all-or-nothing" as to the ids only: writes go one by one, and a
  failure leaves a part of them.  Handing in again heals it (`RetryHeals`).
* Claims are called immutable, but an id that is put again replaces the data: a field that
  is not hashed (`supersedes`, `attested_at`) can be erased, and a cycle can arise.
* resolveSupersedeHead does not end on a cycle with a fork, though the cap "exists so a cycle
  cannot hang a read"; `HeadsAreCurrent` is checked without such graphs.
* `members` of a bundle and other lists keep local names: neither the resolution nor the
  integrity check looks into them.
* loadCorrectedBy cuts at 500 without a word; a comment says that every read that is cut
  says so (`scientific-reads.ts:154`).  traverse says `truncated` at exactly 200, too.
* subtype, latest_only and exclude_same_as apply after the LIMIT: pages are short though
  there is more.
* findRelatedClaims names the smallest id canonical (line 1233); the comment says the earliest.
* A retrieve that fails makes a hit "single_space", though the other space was not measured.
* A claim that an engineering relation ties later is not found under scope engineering:
  the flag is computed from the claim's own hand-in only.
* A keyword search matches the raw data, hidden fields and keys included.
* A gate that is off is said never to wipe the second vector; the upsert replaces the point.

Enrichment:

* A source whose quota is spent is skipped, and the attempt is recorded for all with its
  14 days of cooldown (`AttemptAskedAll`).  Migration 022 says "all sources are queried
  atomically (D3)", `enrichment-loop.ts:8` "Pauses on: DailyQuotaExhaustedError".
* The quota is checked before the wait and counted after it: up to Concurrency - 1
  requests too many (`QuotaKept` states that bound).
* Counters are saved every 50 requests; a crash forgets the rest.  The temporary file
  is shared: the second of two renames throws and the document fails.
* A failure between the row of the location and the reindex trigger leaves an open
  document with tier abstract_only for the 90 days in which it is not selected again.
* A document that fails has no attempt and heads each of the following batches: as many of them
  as a batch takes keep every older document out for ever (`selection.ts`; with `Failing` of
  `BatchSize` newer documents an unguarded `Served` fails).  `Served` promises a turn to those
  that fewer precede.
* A document that waits for a permit starts after a stop or an AuthError.
* An error of the selection or an AuthError leaves the daemon in 'error', and no command
  starts it again.

Doctor (`FoundKept` with the one check in `Checks`):

* partial-chunks wants to "Attach specter2 to existing points" (`partial-chunks.ts:101`) and
  upserts points of that vector alone, which replaces them: payload and gemini vector are
  gone, and the row is marked indexed.  No filter on the document finds such a point
  any more, and missing-qdrant-chunks does not repair it, since it is there
  (Checks = {"partial"}, MaxFaults = 0).
* missing-qdrant-chunks and flat-section-paths send payloads without `is_latest`, which
  search asks for: what they repair or embed again is not found ({"flat"}, MaxFaults = 0).
* "If batch fails, none exist" (`missing-qdrant-chunks.ts:156`): points that could not be
  read are replaced by such payloads ({"missing"}, MaxFaults = 1), and so are those of a document
  that is indexed between the list and its turn ({"missing"}, MaxFaults = 0).
* missing-qdrant-chunks compares numbers: an orphan hides a lost point, so `Repaired`
  asks for a sweep before.
* A flat-section-paths fix that fails after its UPDATEs is not tried again: the document
  has a hierarchy now.
* oversized-chunks detects with limits by type (`oversized-chunks.ts:35`) and fixes
  with a single one.
* A document with partial rows is resumed, and not chunked again, by oversized-chunks and
  latex-upgrade.
* A fix is "stoppable via the `stop` command" (`RunnerService.ts:658`); of the fixes only
  registry-gaps and license-backfill ask for the stop.

Embed service:

* A URL that is removed and added again starts with a count of 0 while its old calls
  are in flight: the machine behind it gets more than `maxConcurrency`.
* A reply that comes after a probe has failed marks the backend healthy again.
* A sub-batch that fails ends the request while the others go on, and nothing is cached.
* A pool that loses its last backend amid a request answers with an error; the
  fallback to OpenRouter is looked at before.

Reading tools:

* `categories: []` is a filter that nothing passes in search, search_keyword, search_semantic,
  the dev search and the internal one, and no filter in the other tools.
* The keyword search leaves out chunks whose section title is NULL.
* compare_papers with 'concepts' and without 'entities' throws.
* get_chunks orders unknown types last, the search between the fitting and the others
  (`TiersAlike` states both).
* getBySourceId returns the highest version even if it is deleted: find_by_id and get_document
  say "not found" while older versions live.
* A version that is deleted and indexed again deactivates the older ones: the paper is no
  longer found.  Whatever is indexed again is not found for a moment, since its points are
  deleted first; `FoundThroughout` asks that nothing is rewritten meanwhile.
* Versions that are indexed out of order can hide a paper for a moment from a search in which
  none is rewritten: the second of three has yet to select whose flags it takes; the third is
  indexed, then the first again, then the third again, whose points are still to come; now the
  second takes the flags of the first.  `FoundThroughout` asks that versions are indexed in
  their order; without `~disorder` in `steady` it fails after five indexings of three versions.

Gateway:

* publish_draft is registered on three addresses and in no table of permissions: tokens of
  v3 are always refused (`ListedIsCallable` names it).
* 405 is said to come before authentication; the middleware is mounted first, and a DELETE
  without a token gets 401.  The limiter per user is mounted before authentication, too: its key
  is always 'anon'.
* A tier that is not in TIER_ORDER is refused even what is for all tiers.
* The log shows the price as charged though the handler threw, or the deduction failed, or the
  token has no id ("Honest logging"; `LogIsLedger` names these cases).
* Refusals of the governance service are ordinary results, and charged.
* At /gov a researcher token of v4 needs an agent: the surface is told by its address.

Intake and internal API:

* Versions of the legal texts that became unreadable after a good load stay as they were;
  `legal-versions.ts:60` says null.
* Archives are looked at more leniently than unpacked: sizes that lie, a file and a directory of
  one name; the signature of a PDF in a ZIP is checked at the unpacking only
  (`StagedIsStored` names the difference).
* A dry run of create_draft accepts an upload whose file is gone.
* The cursor of a user's documents is cut to milliseconds: rows of the same millisecond as the
  last one of a page are skipped (`PagesTile` of `MCInternalApi` asks for whole ones).
* Markdown that was published as an archive is listed as available and not found on download.
* A format can be listed by what the document was made of and answered with 404.
* content-review with version=all does not strip the aspects of a basic review; GET does not
  look at `deletedAt`, POST does.
* The scratch directory stays when the client leaves before it is made.
* An unreadable date, or the epoch, is no filter in the internal search.

Chunker:

* `section-batching.ts` calls itself "the ONE implementation"; `chunker-step.ts` has private
  copies.
* crossBatchDedup may remove a chunk for a twin that the same loop has removed
  (`DedupKeepsTwin` says what is left).
* An abbreviated chunk is called recovered when it is processed again.  A chunk of a section
  that was carried into the second batch is looked for in the first one only.

## 6. Not modelled

What a model answers (it is an input), the parsers and sources, embeddings, cost and timing,
logging, the wording and the formats of answers, the socket protocol, coverage checkpoints
and date windows of the runner, several server processes (with `MCP_WORKERS` > 1 each worker
recovers the same documents), the resource pools of the steps, which bound load only.

By component:

* Methodist: the texts of its assets, courses, retrieval, abandoned runs; of the channel its
  journal and the content of a dossier.
* Doctor: license-backfill, registry-gaps, stuck-pending.
* Reading tools: the order of the reads of all but search, search_semantic and search_keyword,
  whose results are computed from one state of the stores.
* Publishing tools: drafts at the Portal, archives that are sent inline.
* Gateway: OAuth discovery, metrics, the transport; the order of calls around a tool but for
  the paid publishing call.
* Internal API: statistics, counts of the graph, the proxy.
* Claim graph: the items of an evidence list, the wording of projections, letter case in a
  search, metrics.
* Chunker: the repair of JSON, prompts, what is said of a chunk's content.

The model router, one-shot scripts, experiments, migrations and types keep no state of their own
that a protocol depends on; usage counters are flushed best effort and nothing is decided by
them.  What is left of the repository is of this kind: assets, prompts, parsers, experiments
and formatting.

## 7. Plan

Done: the pipeline, the runner, publishing and its billing, registry runs, versions and soft
delete, review, methodist, enrichment, embed service, doctor, reading tools, gateway, intake,
internal API, claim graph, chunker.

Every safety property of the runs is a theorem; the seven about liveness are checked by TLC.

Open: the resource pools; several server processes in `PortalQueue`; the parser of LaTeX.
