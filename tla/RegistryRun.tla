---------------------------- MODULE RegistryRun ----------------------------
(***************************************************************************)
(* The registry runs of the ingest runner (RunnerService.ts).  A            *)
(* registry-update run walks the days of a period and inserts a 'listed'    *)
(* row for every entry of the arXiv listings.  An ingest run has a producer *)
(* that selects listed and downloaded rows in batches, downloads the former *)
(* and sends both into a bounded channel, and a consumer that takes them    *)
(* from the channel and processes them under a semaphore.  Both share the   *)
(* budget, the counters and a stop flag.                                    *)
(*                                                                          *)
(* A document of a run is at one place at a time: at[d].  There is one      *)
(* action per resumption of the code after an await.  Node runs the         *)
(* continuations of one I/O event without a gap; the model lets others come *)
(* between, so it has every interleaving of the program and more.  What the *)
(* pipeline does to one document (DocPipeline) is its outcome here.         *)
(***************************************************************************)
EXTENDS Integers, FiniteSets, Sequences

CONSTANTS
    Docs,           \* documents 1..Docs, in the order of their publication
    DayOf,          \* the day of a document, in 1..Days
    Days,           \* days of the period
    Limit,          \* the limit of a run
    BatchMax,       \* 200, the LIMIT of the selection
    DlSlots,        \* DOWNLOAD_CONCURRENCY
    Capacity,       \* capacity of the channel
    DocSlots,       \* PIPELINE_MAX_CONCURRENT_DOCS
    Burst,          \* DAY_FAILURE_BURST_THRESHOLD
    MinAttempted,   \* documents before the fail rate counts
    MaxFailPct,     \* RUNNER_MAX_FAIL_RATE, in percent
    MaxRuns,        \* bound: runs that are started
    Faults          \* what may fail, a subset of FaultKinds

FaultKinds == {"crash", "select", "read", "mark", "status", "progress", "register", "page"}

ASSUME RegistryAssumption ==
    /\ Docs \in Nat /\ Days \in Nat
    /\ DayOf \in [1..Docs -> 1..Days]
    /\ {Limit, BatchMax, DlSlots, Capacity, DocSlots, Burst, MinAttempted}
          \subseteq Nat \ {0}
    /\ MaxFailPct \in 0..100 /\ MaxRuns \in Nat
    /\ Faults \subseteq FaultKinds
    \* A run beside the consumer of a failed one is not modelled.
    /\ "select" \in Faults => MaxRuns <= 1

VARIABLES
    \* PostgreSQL: the status of the documents, the last run's row
    row, last,
    \* the runner: command, runs started, stop requested, days of an update
    cmd, runs, stopRequested, day, listing, complete,
    \* the producer: control, the documents it has met, budget, failures in a
    \* row, burst found; the flag shared with the consumer
    prod, seen, remaining, streak, infra, stopFlag,
    \* the channel, and the senders parked at it
    buffer, parked,
    \* the consumer: control, counters, the mark of an automatic stop
    cons, processed, failed, autoStop,
    \* where a document of the run is
    at

updater  == <<day, listing, complete>>
producer == <<prod, seen, remaining, streak, infra>>
channel  == <<buffer, parked>>
consumer == <<cons, processed, failed, autoStop>>
ingest   == <<producer, stopFlag, channel, consumer, at>>
runner   == <<cmd, runs, stopRequested>>
vars     == <<row, last, runner, updater, ingest>>

Doc == 1..Docs

Status == {"absent", "listed", "downloaded", "download_failed", "in_flight",
           "ready", "failed", "duplicate"}
Place  == {"none", "queued", "reading", "unread", "fetching", "sending", "sent", "acquiring",
           "running", "rejected", "counted", "marking", "discarded", "unmarked", "done"}

At(places) == {d \in Doc : at[d] \in places}

(* Holders of the download semaphore and of the document semaphore. *)
Downloading == At({"reading", "fetching", "sending"})
InFlight    == At({"running", "counted", "marking"})

(* Every variable has its type, and the channel and the two semaphores are
   within their capacity. *)
TypeOK ==
    /\ row \in [Doc -> Status]
    /\ last \in {"none", "running", "stopped", "failed", "completed", "auto_stopped"}
    /\ cmd \in {"none", "update", "ingest"} /\ runs \in 0..MaxRuns
    /\ stopRequested \in BOOLEAN
    /\ day \in 1..Days + 1 /\ listing \in SUBSET Doc /\ complete \in SUBSET (1..Days)
    /\ prod \in {"select", "batch", "closed"} /\ seen \in SUBSET Doc
    /\ remaining \in Int /\ streak \in Nat /\ infra \in BOOLEAN /\ stopFlag \in BOOLEAN
    /\ buffer \in Seq(Doc) /\ Len(buffer) <= Capacity /\ parked \in Seq(Doc)
    /\ cons \in {"receive", "acquire", "drain", "settle", "gone"}
    /\ processed \in Nat /\ failed \in Nat /\ autoStop \in BOOLEAN
    /\ at \in [Doc -> Place]
    /\ Cardinality(Downloading) <= DlSlots /\ Cardinality(InFlight) <= DocSlots

-----------------------------------------------------------------------------
Min2(a, b) == IF a < b THEN a ELSE b

Stopping == stopRequested \/ stopFlag

Move(d, place) == at' = [at EXCEPT ![d] = place]

SetRow(d, status) == row' = [row EXCEPT ![d] = status]

(* ORDER BY and LIMIT: the first n documents of a set. *)
FirstOf(S, n) == {d \in S : Cardinality({e \in S : e < d}) < n}

(* The rows of the selection: not yet met, in order, at most the budget. *)
Selectable == {d \in Doc : row[d] \in {"listed", "downloaded"}}

\* Mutated forms: the LIMIT is not cut to the budget; only listed rows
\* are selected.
BatchUncut == FirstOf(Selectable \ seen, BatchMax)
BatchListed == FirstOf({d \in Doc \ seen : row[d] = "listed"}, Min2(BatchMax, remaining))
Batch == FirstOf(Selectable \ seen, Min2(BatchMax, remaining))

(* send: into the buffer, or parked with the semaphore still held. *)
Send(d) ==
    IF Len(buffer) < Capacity
    THEN /\ buffer' = Append(buffer, d)
         /\ Move(d, "sent")
         /\ UNCHANGED parked
    ELSE /\ parked' = Append(parked, d)
         /\ Move(d, "sending")
         /\ UNCHANGED buffer

(* receive: the head of the buffer, and the first parked sender goes on; what
   becomes of the received document is place. *)
Receive(place) ==
    LET d == Head(buffer) IN
    IF parked = <<>>
    THEN /\ buffer' = Tail(buffer)
         /\ Move(d, place)
         /\ UNCHANGED parked
    ELSE /\ buffer' = Append(Tail(buffer), Head(parked))
         /\ parked' = Tail(parked)
         /\ at' = [at EXCEPT ![d] = place, ![Head(parked)] = "sent"]

-----------------------------------------------------------------------------
(* Starting, stopping and ending a run. *)

Fresh ==
    /\ prod' = "select" /\ seen' = {} /\ remaining' = Limit /\ streak' = 0
    /\ infra' = FALSE /\ stopFlag' = FALSE /\ buffer' = <<>> /\ parked' = <<>>
    /\ cons' = "receive" /\ processed' = 0 /\ failed' = 0 /\ autoStop' = FALSE
    /\ at' = [d \in Doc |-> "none"]

(* The local variables of a run that has ended. *)
Gone ==
    /\ prod' = "closed" /\ seen' = {} /\ remaining' = 0 /\ streak' = 0
    /\ infra' = FALSE /\ stopFlag' = FALSE /\ buffer' = <<>> /\ parked' = <<>>
    /\ cons' = "gone" /\ processed' = 0 /\ failed' = 0 /\ autoStop' = FALSE
    /\ at' = [d \in Doc |-> "none"]

NoDay == day' = Days + 1 /\ listing' = {} /\ complete' = {}

StartIngest ==
    /\ cmd = "none" /\ runs < MaxRuns
    /\ cmd' = "ingest" /\ runs' = runs + 1
    /\ last' = "running"
    /\ Fresh
    /\ UNCHANGED <<row, stopRequested, updater>>

StartUpdate ==
    /\ cmd = "none" /\ runs < MaxRuns
    /\ cmd' = "update" /\ runs' = runs + 1
    /\ last' = "running"
    /\ day' = 1 /\ listing' = {} /\ complete' = {}
    /\ UNCHANGED <<row, stopRequested, ingest>>

Stop ==
    /\ cmd # "none" /\ ~stopRequested
    /\ stopRequested' = TRUE
    /\ UNCHANGED <<row, last, cmd, runs, updater, ingest>>

EndWith(status) ==
    /\ last' = status
    /\ cmd' = "none" /\ stopRequested' = FALSE
    /\ UNCHANGED runs

(* The finalize block, after producer and consumer are done. *)
Finalize ==
    /\ cmd = "ingest" /\ prod = "closed" /\ cons = "gone"
    /\ EndWith(CASE stopRequested -> "stopped"
                 [] infra /\ ~stopRequested -> "failed"
                 [] OTHER -> IF autoStop THEN "auto_stopped" ELSE "completed")
    /\ Gone
    /\ UNCHANGED <<row, updater>>

(* The process dies: what is left is in the database; the next start marks
   the run failed and returns what was in the pipeline to "downloaded". *)
Crash ==
    /\ "crash" \in Faults /\ cmd # "none"
    /\ EndWith("failed")
    /\ Gone /\ NoDay
    /\ row' = [d \in Doc |-> IF row[d] = "in_flight" THEN "downloaded" ELSE row[d]]

-----------------------------------------------------------------------------
(* runRegistryUpdate: the listing of a day page by page, then one INSERT. *)

Entries(n) == {d \in Doc : DayOf[d] = n}

Fetched == Cardinality({d \in Doc : DayOf[d] \in complete})

(* After a stop, only the page that was being fetched comes in. *)
Page ==
    /\ cmd = "update" /\ day <= Days
    /\ listing # Entries(day) /\ (stopRequested => listing = {})
    /\ \E d \in Entries(day) \ listing : listing' = listing \cup {d}
    /\ UNCHANGED <<row, last, runner, day, complete, ingest>>

(* The page fails, after the stop or for good: the day is a failed day. *)
PageFails ==
    /\ cmd = "update" /\ day <= Days /\ listing # Entries(day)
    /\ "page" \in Faults \/ stopRequested
    /\ day' = day + 1 /\ listing' = {}
    /\ UNCHANGED <<row, last, runner, complete, ingest>>

(* All pages, or the stop ended the loop over them: the rows are inserted (a
   failure is only warned about) and the day is recorded as done. *)
Register ==
    /\ cmd = "update" /\ day <= Days
    /\ listing = Entries(day) \/ (stopRequested /\ listing # {})
    /\ \/ row' = [d \in Doc |-> IF d \in listing /\ row[d] = "absent" THEN "listed" ELSE row[d]]
       \/ "register" \in Faults /\ UNCHANGED row
    /\ complete' = complete \cup {day}
    /\ day' = day + 1 /\ listing' = {}
    /\ UNCHANGED <<last, runner, ingest>>

EndUpdate ==
    /\ cmd = "update" /\ listing = {}
    /\ day > Days \/ stopRequested \/ Fetched >= Limit
    /\ EndWith(IF stopRequested THEN "stopped" ELSE "completed")
    /\ NoDay
    /\ UNCHANGED <<row, ingest>>

-----------------------------------------------------------------------------
(* The producer. *)

(* The loop's test and the selection; no row ends the stage. *)
Select ==
    /\ cmd = "ingest" /\ prod = "select"
    /\ LET rows == IF remaining > 0 /\ ~Stopping THEN Batch ELSE {} IN
       IF rows = {}
       THEN prod' = "closed" /\ UNCHANGED at
       ELSE /\ prod' = "batch"
            /\ at' = [d \in Doc |-> IF d \in rows THEN "queued" ELSE at[d]]
    /\ UNCHANGED <<row, last, runner, updater, seen, remaining, streak, infra, stopFlag,
                   channel, consumer>>

(* The selection throws: the channel is closed and the run ends as failed at
   once, while the consumer goes on. *)
SelectFails ==
    /\ "select" \in Faults
    /\ cmd = "ingest" /\ prod = "select" /\ remaining > 0 /\ ~Stopping
    /\ prod' = "closed"
    /\ EndWith("failed")
    /\ UNCHANGED <<row, updater, seen, remaining, streak, infra, stopFlag, channel, consumer, at>>

(* A slot of dlSem: test again, then read the document. *)
Take(d) ==
    /\ at[d] = "queued" /\ Cardinality(Downloading) < DlSlots
    /\ \A e \in At({"queued"}) : d <= e
    /\ IF remaining <= 0 \/ Stopping
       THEN Move(d, "none") /\ UNCHANGED seen
       ELSE Move(d, "reading") /\ seen' = seen \cup {d}
    /\ UNCHANGED <<row, last, runner, updater, prod, remaining, streak, infra, stopFlag,
                   channel, consumer>>

(* getById: a downloaded document is sent, a listed one is downloaded.  When it
   throws, allSettled takes it for settled: the document is met and no more. *)
Read(d) ==
    /\ at[d] = "reading"
    /\ \/ /\ row[d] = "downloaded"
          /\ remaining' = remaining - 1
          /\ Send(d)
       \/ /\ row[d] = "listed"
          /\ Move(d, "fetching")
          /\ UNCHANGED <<remaining, channel>>
       \/ /\ row[d] \notin {"listed", "downloaded"}
          /\ Move(d, "done")
          /\ UNCHANGED <<remaining, channel>>
       \/ /\ "read" \in Faults
          /\ Move(d, "unread")
          /\ UNCHANGED <<remaining, channel>>
    /\ UNCHANGED <<row, last, runner, updater, prod, seen, streak, infra, stopFlag, consumer>>

(* downloadAndRegister has written the row. *)
Downloaded(d) ==
    /\ at[d] = "fetching"
    /\ SetRow(d, "downloaded")
    /\ remaining' = remaining - 1 /\ streak' = 0
    /\ Send(d)
    /\ UNCHANGED <<last, runner, updater, prod, seen, infra, stopFlag, consumer>>

(* The download fails: the row is marked, or the mark fails and is swallowed.
   A permanent failure does not count for the burst, a burst outside the
   window does not stop the run. *)
DownloadFails(d, permanent, inWindow, marked) ==
    /\ at[d] = "fetching"
    /\ IF marked
       THEN SetRow(d, "download_failed") /\ Move(d, "done")
       ELSE "mark" \in Faults /\ Move(d, "unmarked") /\ UNCHANGED row
    /\ streak' = IF permanent THEN streak ELSE streak + 1
    /\ LET bursts == ~permanent /\ streak + 1 >= Burst /\ inWindow
       IN infra' = (infra \/ bursts) /\ stopFlag' = (stopFlag \/ bursts)
    /\ UNCHANGED <<last, runner, updater, prod, seen, remaining, channel, consumer>>

(* allSettled over the batch. *)
BatchEnds ==
    /\ prod = "batch" /\ At({"queued", "reading", "fetching", "sending"}) = {}
    /\ prod' = "select"
    /\ UNCHANGED <<row, last, runner, updater, seen, remaining, streak, infra, stopFlag,
                   channel, consumer, at>>

-----------------------------------------------------------------------------
(* The consumer. *)

\* Mutated form: the channel is not drained after a stop.
ReceiveNoDrain ==
    /\ cons = "receive" /\ buffer # <<>>
    /\ IF ~Stopping
       THEN Receive("acquiring") /\ cons' = "acquire"
       ELSE Receive("discarded") /\ cons' = "settle"
    /\ UNCHANGED <<row, last, runner, updater, producer, stopFlag, processed, failed, autoStop>>

(* A received document is held for a slot; after a stop it is let go, and
   what follows it is discarded. *)
ReceiveItem ==
    /\ cons \in {"receive", "drain"} /\ buffer # <<>>
    /\ IF cons = "receive" /\ ~Stopping
       THEN Receive("acquiring") /\ cons' = "acquire"
       ELSE Receive("discarded") /\ cons' = "drain"
    /\ UNCHANGED <<row, last, runner, updater, producer, stopFlag, processed, failed, autoStop>>

ReceiveEnd ==
    /\ cons \in {"receive", "drain"} /\ buffer = <<>> /\ prod = "closed"
    /\ cons' = "settle"
    /\ UNCHANGED <<row, last, runner, updater, producer, stopFlag, channel,
                   processed, failed, autoStop, at>>

(* A slot of docSemaphore: test for a stop, then processOneDoc. *)
Acquire(d) ==
    /\ cons = "acquire" /\ at[d] = "acquiring" /\ Cardinality(InFlight) < DocSlots
    /\ cons' = "receive"
    /\ Move(d, IF Stopping THEN "discarded" ELSE "running")
    /\ UNCHANGED <<row, last, runner, updater, producer, stopFlag, channel,
                   processed, failed, autoStop>>

(* The first step of the pipeline writes an intermediate status, unless the
   runner was stopped before. *)
Begin(d) ==
    /\ at[d] = "running" /\ row[d] = "downloaded" /\ ~stopRequested
    /\ SetRow(d, "in_flight")
    /\ UNCHANGED <<last, runner, updater, ingest>>

(* processOneDoc returns; it may fail before its first step. *)
Result(d) ==
    /\ at[d] = "running"
    /\ \E status \in {"ready", "failed", "duplicate"} :
        /\ status = "failed" \/ row[d] = "in_flight"
        /\ SetRow(d, status)
        /\ processed' = IF status = "ready" THEN processed + 1 ELSE processed
        /\ failed' = IF status = "failed" THEN failed + 1 ELSE failed
    /\ Move(d, "counted")
    /\ UNCHANGED <<last, runner, updater, producer, stopFlag, channel, cons, autoStop>>

\* Mutated form: a stopped document keeps its status.
StoppedInPlace(d) ==
    /\ at[d] = "running" /\ stopRequested
    /\ Move(d, "counted")
    /\ UNCHANGED <<row, last, runner, updater, producer, stopFlag, channel, consumer>>

(* processOneDoc sees the stop between two steps, or in the chunking: the
   document goes back to "downloaded" and counts for nothing. *)
Stopped(d) ==
    /\ at[d] = "running" /\ stopRequested
    /\ SetRow(d, "downloaded")
    /\ Move(d, "counted")
    /\ UNCHANGED <<last, runner, updater, producer, stopFlag, channel, consumer>>

(* processOneDoc rejects, before its try or because the status of a failed or
   aborted document cannot be written; allSettled takes it for settled, and the
   row stays as it is. *)
Rejects(d) ==
    /\ "status" \in Faults /\ at[d] = "running"
    /\ Move(d, "rejected")
    /\ UNCHANGED <<row, last, runner, updater, producer, stopFlag, channel, consumer>>

FailRateExceeded ==
    /\ processed + failed >= MinAttempted
    /\ failed * 100 > MaxFailPct * (processed + failed)

(* updateRunProgress, then the test of the fail rate; when the write throws
   the test is skipped. *)
Progress(d) ==
    /\ at[d] = "counted"
    /\ \/ Move(d, IF FailRateExceeded THEN "marking" ELSE "done")
       \/ "progress" \in Faults /\ Move(d, "done")
    /\ UNCHANGED <<row, last, runner, updater, producer, stopFlag, channel, consumer>>

(* The mark in the run's metrics, then the stop flag; when the write throws
   there is no stop. *)
Mark(d) ==
    /\ at[d] = "marking"
    /\ \/ autoStop' = TRUE /\ stopFlag' = TRUE
       \/ "progress" \in Faults /\ UNCHANGED <<autoStop, stopFlag>>
    /\ Move(d, "done")
    /\ UNCHANGED <<row, last, runner, updater, producer, channel, cons, processed, failed>>

Settle ==
    /\ cons = "settle" /\ InFlight = {}
    /\ cons' = "gone"
    /\ UNCHANGED <<row, last, runner, updater, producer, stopFlag, channel,
                   processed, failed, autoStop, at>>

-----------------------------------------------------------------------------
(* A registry with any mix of rows; the runner is idle. *)
Init ==
    /\ row \in [Doc -> {"absent", "listed", "downloaded"}]
    /\ last = "none" /\ cmd = "none" /\ runs = 0 /\ stopRequested = FALSE
    /\ day = Days + 1 /\ listing = {} /\ complete = {}
    /\ prod = "closed" /\ seen = {} /\ remaining = 0 /\ streak = 0 /\ infra = FALSE
    /\ stopFlag = FALSE /\ buffer = <<>> /\ parked = <<>>
    /\ cons = "gone" /\ processed = 0 /\ failed = 0 /\ autoStop = FALSE
    /\ at = [d \in Doc |-> "none"]

(* What becomes of a document that is in the pipeline. *)
Pipeline(d) ==
    \/ Begin(d) \/ Result(d) \/ Stopped(d) \/ Rejects(d) \/ Progress(d) \/ Mark(d)

Producer ==
    \/ Select \/ SelectFails \/ BatchEnds
    \/ \E d \in Doc :
        \/ Take(d) \/ Read(d) \/ Downloaded(d)
        \/ \E permanent, inWindow, marked \in BOOLEAN :
              DownloadFails(d, permanent, inWindow, marked)

Consumer ==
    \/ ReceiveItem \/ ReceiveEnd \/ Settle
    \/ \E d \in Doc : Acquire(d) \/ Pipeline(d)

Updater == Page \/ PageFails \/ Register \/ EndUpdate

Next ==
    \/ StartIngest \/ StartUpdate \/ Stop \/ Crash \/ Finalize
    \/ Updater \/ Producer \/ Consumer

Spec == Init /\ [][Next]_vars

(* Every awaited I/O settles and a runnable continuation runs. *)
FairSpec ==
    /\ Spec
    /\ WF_vars(Finalize) /\ WF_vars(Updater)
    /\ WF_vars(Select \/ BatchEnds) /\ WF_vars(ReceiveItem \/ ReceiveEnd \/ Settle)
    /\ \A d \in Doc :
        /\ WF_vars(Take(d)) /\ WF_vars(Read(d))
        /\ WF_vars(Downloaded(d) \/ \E p, w, m \in BOOLEAN : DownloadFails(d, p, w, m))
        /\ WF_vars(Acquire(d)) /\ WF_vars(Pipeline(d))

-----------------------------------------------------------------------------
(* Properties. *)

(* The producer's tasks test the budget and spend it only after the download,
   so a batch that is not cut to the budget would overspend it: a run never
   takes more documents than its limit. *)
BudgetKept == remaining >= 0

(* When producer and consumer of a run are through, stopped or not, no document
   that the run took up is left in the middle of the pipeline, where no later
   run selects it: only one whose own status could not be written.  And a run
   that was neither stopped nor out of budget has left nothing of its period to
   select but what it could not read, download and mark, or begin: the registry
   resumes itself. *)
SelfResuming ==
    (cmd = "ingest" /\ prod = "closed" /\ cons = "gone") =>
        /\ \A d \in seen : row[d] = "in_flight" => at[d] = "rejected"
        /\ (~Stopping /\ remaining > 0) =>
              Selectable \subseteq At({"unread", "unmarked", "rejected"})

(* A day that the update run records as done is listed completely: "a started day is
   always finished". *)
DayAtomic == \A n \in complete : \A d \in Entries(n) : row[d] # "absent"

(* A run ends, whatever is full, empty or stopped: the consumer drains the
   channel after a stop, so no sender stays parked. *)
RunEnds == cmd # "none" ~> cmd = "none"
=============================================================================
