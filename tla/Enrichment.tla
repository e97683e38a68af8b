----------------------------- MODULE Enrichment -----------------------------
(***************************************************************************)
(* The enrichment worker: one loop that selects ready documents, newest    *)
(* first, and enriches a batch of them with bounded concurrency; a rate    *)
(* limiter per source with a daily quota that is saved now and then; the   *)
(* stop command and a crash.  The pipeline, which re-indexes a document    *)
(* the worker has reset, is part of the environment.                       *)
(***************************************************************************)
EXTENDS Naturals, FiniteSets

CONSTANTS
    NDocs,          \* documents 1 .. NDocs, the newest last
    NoDoi,          \* those without a DOI
    NSources,       \* sources 1 .. NSources, in the order they are asked
    BatchSize, Concurrency,
    MaxPerDay,      \* daily quota of a source
    PersistEvery,   \* requests between two saves of the counters
    MaxDays,        \* bound: days explored
    Faults,         \* what may fail, a subset of FaultKinds
    MaxFaults,      \* bound: failures explored
    Failing         \* documents that may fail again and again, besides

FaultKinds == {"db", "select", "auth", "crash"}
Docs       == 1 .. NDocs
Sources    == 1 .. NSources

ASSUME ConstantsAssumption ==
    /\ NDocs \in Nat /\ NSources \in Nat \ {0}
    /\ NoDoi \cup Failing \subseteq 1 .. NDocs
    /\ {BatchSize, Concurrency, MaxPerDay, PersistEvery, MaxDays} \subseteq Nat \ {0}
    /\ MaxFaults \in Nat
    /\ Faults \subseteq FaultKinds

VARIABLES
    status, tier,       \* documents: status and indexing_tier
    open,               \* documents: the effective license is an open one
    file,               \* document_locations: an OA file of the last 90 days
    attempted,          \* enrichment_attempts: next_retry_at is in the future
    day, cons, date,    \* the calendar; the limiter's counters
    saved, tmp,         \* its state file, and the file that is renamed to it
    loop, batch, state, aborted, auth, permits,   \* loop and runner
    task,               \* where the enrichment of a document is
    src, enabled,       \* source it is at; sources whose quota was left
    snap,               \* counters it is saving
    got, fresh, seen,   \* files it has; an open license it has found; tier when selected
    faults

rows    == <<status, tier, open, file, attempted>>
limiter == <<cons, date, saved, tmp>>
runner  == <<loop, batch, state, aborted, auth, permits>>
work    == <<src, enabled, snap, got, fresh, seen>>
vars    == <<rows, day, limiter, runner, task, work, faults>>

NoSnap  == [s \in Sources |-> <<0, 0>>]

Eligible(d) == status[d] = "ready" /\ ~file[d] /\ ~attempted[d]
Active      == {d \in Docs : task[d] # "off"}

(* Every variable has its type. *)
TypeOK ==
    /\ status \in [Docs -> {"ready", "downloaded"}]
    /\ tier \in [Docs -> {"abstract_only", "full", "null"}]
    /\ {open, file, attempted, got, fresh} \subseteq [Docs -> BOOLEAN]
    /\ day \in 1 .. MaxDays /\ cons \in [Sources -> Nat] /\ date \in [Sources -> 1 .. MaxDays]
    /\ {saved, tmp} \cup {snap[d] : d \in Docs} \subseteq [Sources -> (0 .. MaxDays) \X Nat]
    /\ loop \in {"select", "idle", "dispatch", "parked", "granted", "join", "ended", "down"}
    /\ batch \subseteq Docs /\ permits \in 0 .. Concurrency
    /\ state \in {"running", "stopping", "error", "idle"}
    /\ {aborted, auth} \subseteq BOOLEAN
    /\ task \in [Docs -> {"off", "start", "acquire", "wait", "write", "rename", "ask", "locate",
                          "licenses", "reindex", "attempt"}]
    /\ src \in [Docs -> 1 .. NSources + 1] /\ enabled \in [Docs -> SUBSET Sources]
    /\ seen \in [Docs -> {"abstract_only", "full", "null"}]
    /\ faults \in 0 .. MaxFaults

Init ==
    /\ status = [d \in Docs |-> "ready"]
    /\ tier = [d \in Docs |-> "abstract_only"] /\ open = [d \in Docs |-> FALSE]
    /\ file = [d \in Docs |-> FALSE] /\ attempted = [d \in Docs |-> FALSE]
    /\ day = 1 /\ cons = [s \in Sources |-> 0] /\ date = [s \in Sources |-> 1]
    /\ saved = NoSnap /\ tmp = NoSnap
    /\ loop = "select" /\ batch = {} /\ state = "running"
    /\ aborted = FALSE /\ auth = FALSE /\ permits = 0
    /\ task = [d \in Docs |-> "off"]
    /\ src = [d \in Docs |-> 1] /\ enabled = [d \in Docs |-> {}]
    /\ snap = [d \in Docs |-> NoSnap]
    /\ got = [d \in Docs |-> FALSE] /\ fresh = [d \in Docs |-> FALSE]
    /\ seen = [d \in Docs |-> "null"]
    /\ faults = 0

Fault(f) == f \in Faults /\ faults < MaxFaults /\ faults' = faults + 1
NoFault  == UNCHANGED faults
At(d, l) == task[d] = l
Goto(d, l) == task' = [task EXCEPT ![d] = l]

-----------------------------------------------------------------------------
(* The loop (enrichment-loop.ts). *)

Newest(D, n) == {d \in D : Cardinality({e \in D : e > d}) < n}

\* Mutated form: one document at a time.
SelectNewest == Newest({d \in Docs : Eligible(d)}, 1)

SelectNextBatch == Newest({d \in Docs : Eligible(d)}, BatchSize)

Select ==
    /\ loop = "select"
    /\ \/ /\ aborted /\ NoFault
          /\ loop' = "ended" /\ UNCHANGED <<batch, state, seen>>
       \/ /\ ~aborted /\ NoFault
          /\ batch' = SelectNextBatch
          /\ seen' = [d \in Docs |-> IF d \in batch' THEN tier[d] ELSE "null"]
          /\ loop' = IF batch' = {} THEN "idle" ELSE "dispatch"
          /\ UNCHANGED state
       \/ /\ ~aborted /\ Fault("select")
          /\ loop' = "ended" /\ state' = "error" /\ UNCHANGED <<batch, seen>>
    /\ UNCHANGED <<rows, day, limiter, aborted, auth, permits, task, src, enabled, snap, got, fresh>>

(* The sleep of an idle loop ends with its timer or with a stop. *)
WakeUp ==
    /\ loop = "idle" /\ loop' = "select"
    /\ UNCHANGED <<rows, day, limiter, batch, state, aborted, auth, permits, task, work, faults>>

(* The next document, the newest one, gets a permit or the loop waits for one;
   a stop or an AuthError is looked at before, not after. *)
Begin ==
    LET d == CHOOSE e \in batch : \A f \in batch : f <= e
    IN /\ batch' = batch \ {d}
       /\ loop' = "dispatch"
       /\ Goto(d, "start")

Dispatch ==
    /\ loop = "dispatch"
    /\ IF batch = {} \/ aborted \/ auth
       THEN loop' = "join" /\ batch' = {} /\ UNCHANGED <<permits, task>>
       ELSE IF permits < Concurrency
            THEN Begin /\ permits' = permits + 1
            ELSE loop' = "parked" /\ UNCHANGED <<batch, permits, task>>
    /\ UNCHANGED <<rows, day, limiter, state, aborted, auth, work, faults>>

Granted ==
    /\ loop = "granted" /\ Begin
    /\ UNCHANGED <<rows, day, limiter, state, aborted, auth, permits, work, faults>>

\* Mutated form: the loop does not wait for the tasks of its batch.
JoinEarly ==
    /\ loop = "join"
    /\ loop' = IF auth THEN "ended" ELSE "select"
    /\ state' = IF auth THEN "error" ELSE state
    /\ UNCHANGED <<rows, day, limiter, batch, aborted, auth, permits, task, work, faults>>

(* Promise.allSettled; an AuthError then ends the loop, also while a stop is
   under way. *)
Join ==
    /\ loop = "join" /\ Active = {}
    /\ loop' = IF auth THEN "ended" ELSE "select"
    /\ state' = IF auth THEN "error" ELSE state
    /\ UNCHANGED <<rows, day, limiter, batch, aborted, auth, permits, task, work, faults>>

Clear(d) ==
    /\ Goto(d, "off")
    /\ src' = [src EXCEPT ![d] = 1] /\ enabled' = [enabled EXCEPT ![d] = {}]
    /\ snap' = [snap EXCEPT ![d] = NoSnap]
    /\ got' = [got EXCEPT ![d] = FALSE] /\ fresh' = [fresh EXCEPT ![d] = FALSE]
    /\ seen' = [seen EXCEPT ![d] = "null"]

\* Mutated form: a release that does not wake the loop.
ReleaseOnly == permits' = permits - 1 /\ UNCHANGED loop

(* The permit goes to the loop if it waits for one. *)
Release ==
    IF loop = "parked" THEN loop' = "granted" /\ UNCHANGED permits
    ELSE permits' = permits - 1 /\ UNCHANGED loop

(* The end of a task. *)
Leave(d) == Clear(d) /\ Release

Throws(d) == Leave(d) /\ UNCHANGED auth
Rejects(d) == (Fault("db") \/ (d \in Failing /\ NoFault)) /\ Throws(d)

-----------------------------------------------------------------------------
(* enrichDocument and the limiter's acquire. *)

Proceed(d, l) == Goto(d, l) /\ UNCHANGED <<loop, permits, auth>>

Start(d) ==
    /\ At(d, "start") /\ NoFault
    /\ Proceed(d, IF d \in NoDoi THEN "attempt" ELSE "acquire")
    /\ UNCHANGED <<rows, day, limiter, batch, state, aborted, work>>

(* One token: the request is counted on the day of the last check. *)
Consume(d, s, n) ==
    /\ cons' = [cons EXCEPT ![s] = n + 1]
    /\ IF (n + 1) % PersistEvery = 0
       THEN /\ snap' = [snap EXCEPT ![d] = [r \in Sources |-> <<date'[r], cons'[r]>>]]
            /\ Proceed(d, "write") /\ UNCHANGED src
       ELSE /\ UNCHANGED snap /\ src' = [src EXCEPT ![d] = s + 1]
            /\ Proceed(d, IF s < NSources THEN "acquire" ELSE "ask")

\* Mutated form: the quota is not checked.
AcquireUnchecked(d) ==
    LET s == src[d]
        n == IF date[s] = day THEN cons[s] ELSE 0
    IN /\ At(d, "acquire") /\ NoFault
       /\ date' = [date EXCEPT ![s] = day]
       /\ enabled' = [enabled EXCEPT ![d] = @ \cup {s}] /\ Consume(d, s, n)
       /\ UNCHANGED <<rows, day, saved, tmp, batch, state, aborted, got, fresh, seen>>

(* The counter is reset on a new day and checked; a request too soon after the
   last one waits before it is counted.  A source without quota is skipped. *)
Acquire(d) ==
    LET s == src[d]
        n == IF date[s] = day THEN cons[s] ELSE 0
    IN /\ At(d, "acquire") /\ NoFault
       /\ date' = [date EXCEPT ![s] = day]
       /\ IF n >= MaxPerDay
          THEN /\ cons' = [cons EXCEPT ![s] = n] /\ src' = [src EXCEPT ![d] = s + 1]
               /\ Proceed(d, IF s < NSources THEN "acquire" ELSE "ask")
               /\ UNCHANGED <<enabled, snap>>
          ELSE /\ enabled' = [enabled EXCEPT ![d] = @ \cup {s}]
               /\ \/ Consume(d, s, n)
                  \/ /\ cons' = [cons EXCEPT ![s] = n] /\ Proceed(d, "wait")
                     /\ UNCHANGED <<src, snap>>
       /\ UNCHANGED <<rows, day, saved, tmp, batch, state, aborted, got, fresh, seen>>

Waited(d) ==
    /\ At(d, "wait") /\ NoFault
    /\ UNCHANGED date /\ Consume(d, src[d], cons[src[d]])
    /\ UNCHANGED <<rows, day, saved, tmp, batch, state, aborted, enabled, got, fresh, seen>>

(* persistState writes one temporary file, shared by all, and renames it; the
   second of two renames finds none and fails the document. *)
WriteTmp(d) ==
    /\ At(d, "write") /\ NoFault
    /\ tmp' = snap[d] /\ snap' = [snap EXCEPT ![d] = NoSnap]
    /\ Proceed(d, "rename")
    /\ UNCHANGED <<rows, day, cons, date, saved, batch, state, aborted, src, enabled, got, fresh, seen>>

Rename(d) ==
    /\ At(d, "rename") /\ NoFault
    /\ IF tmp # NoSnap
       THEN /\ saved' = tmp /\ tmp' = NoSnap
            /\ src' = [src EXCEPT ![d] = @ + 1]
            /\ Proceed(d, IF src[d] < NSources THEN "acquire" ELSE "ask")
            /\ UNCHANGED <<enabled, snap, got, fresh, seen>>
       ELSE UNCHANGED <<saved, tmp>> /\ Throws(d)
    /\ UNCHANGED <<rows, day, cons, date, batch, state, aborted>>

(* The lookups; a source that refuses the worker ends the loop, any other
   failure only hides the source. *)
Ask(d) ==
    /\ At(d, "ask")
    /\ \/ NoFault /\ Proceed(d, "locate") /\ src' = [src EXCEPT ![d] = 1]
          /\ UNCHANGED <<enabled, snap, got, fresh, seen>>
       \/ enabled[d] # {} /\ Fault("auth") /\ Leave(d) /\ auth' = TRUE
    /\ UNCHANGED <<rows, day, limiter, batch, state, aborted>>

(* The next source: no location, or one whose file is downloaded or not, with
   an open license or not (none stated counts as open when there is a file);
   the location is saved before the next one is looked at. *)
Locate(d) ==
    LET s == src[d] IN
    /\ At(d, "locate") /\ s <= NSources
    /\ \/ /\ NoFault
          /\ \E f, o \in IF s \in enabled[d] THEN BOOLEAN ELSE {FALSE} :
               /\ file' = [file EXCEPT ![d] = @ \/ f]
               /\ got' = [got EXCEPT ![d] = @ \/ f]
               /\ fresh' = [fresh EXCEPT ![d] = @ \/ o]
          /\ src' = [src EXCEPT ![d] = s + 1]
          /\ Proceed(d, IF s < NSources THEN "locate" ELSE "licenses")
          /\ UNCHANGED <<enabled, snap, seen>>
       \/ s \in enabled[d] /\ Rejects(d) /\ UNCHANGED file
    /\ UNCHANGED <<status, tier, open, attempted, day, limiter, batch, state, aborted>>

(* updateDocumentLicenses: the most permissive license wins. *)
UpdateLicenses(d) ==
    /\ At(d, "licenses")
    /\ \/ NoFault /\ open' = [open EXCEPT ![d] = @ \/ fresh[d]] /\ Proceed(d, "reindex") /\ UNCHANGED work
       \/ Rejects(d) /\ UNCHANGED open
    /\ UNCHANGED <<status, tier, file, attempted, day, limiter, batch, state, aborted>>

(* The tier is the one of the selection; the UPDATE looks at it once more. *)
ShouldTriggerReindex(d) == seen[d] = "abstract_only" /\ got[d] /\ open[d]

TriggerReindex(d) ==
    /\ At(d, "reindex")
    /\ \/ /\ NoFault
          /\ IF ShouldTriggerReindex(d) /\ tier[d] = "abstract_only"
             THEN status' = [status EXCEPT ![d] = "downloaded"] /\ tier' = [tier EXCEPT ![d] = "null"]
             ELSE UNCHANGED <<status, tier>>
          /\ Proceed(d, "attempt") /\ UNCHANGED work
       \/ ShouldTriggerReindex(d) /\ Rejects(d) /\ UNCHANGED <<status, tier>>
    /\ UNCHANGED <<open, file, attempted, day, limiter, batch, state, aborted>>

InsertAttempt(d) ==
    /\ At(d, "attempt")
    /\ \/ NoFault /\ attempted' = [attempted EXCEPT ![d] = TRUE] /\ Throws(d)
       \/ Rejects(d) /\ UNCHANGED attempted
    /\ UNCHANGED <<status, tier, open, file, day, limiter, batch, state, aborted>>

-----------------------------------------------------------------------------
(* The socket's stop, and its answer once the loop has ended. *)
Stop ==
    /\ state = "running" /\ loop # "down"
    /\ state' = "stopping" /\ aborted' = TRUE
    /\ UNCHANGED <<rows, day, limiter, loop, batch, auth, permits, task, work, faults>>

Stopped ==
    /\ aborted /\ loop = "ended" /\ state # "idle"
    /\ state' = "idle"
    /\ UNCHANGED <<rows, day, limiter, loop, batch, aborted, auth, permits, task, work, faults>>

(* The process dies, or a SIGTERM ends it while a stop is under way; the
   service manager starts it again. *)
Crash ==
    /\ loop # "down" /\ Fault("crash")
    /\ loop' = "down" /\ batch' = {} /\ state' = "idle" /\ aborted' = FALSE /\ auth' = FALSE
    /\ permits' = 0 /\ task' = [d \in Docs |-> "off"]
    /\ src' = [d \in Docs |-> 1] /\ enabled' = [d \in Docs |-> {}]
    /\ snap' = [d \in Docs |-> NoSnap]
    /\ got' = [d \in Docs |-> FALSE] /\ fresh' = [d \in Docs |-> FALSE]
    /\ seen' = [d \in Docs |-> "null"]
    /\ UNCHANGED <<rows, day, limiter>>

(* The counters of the state file are taken when they are of today. *)
Restart ==
    /\ loop = "down"
    /\ loop' = "select" /\ state' = "running"
    /\ date' = [s \in Sources |-> day]
    /\ cons' = [s \in Sources |-> IF saved[s][1] = day THEN saved[s][2] ELSE 0]
    /\ UNCHANGED <<rows, day, saved, tmp, batch, aborted, auth, permits, task, work, faults>>

Midnight ==
    /\ day < MaxDays /\ day' = day + 1
    /\ UNCHANGED <<rows, limiter, runner, task, work, faults>>

(* Environment: the pipeline re-indexes by the license. *)
Pipeline(d) ==
    /\ status[d] = "downloaded"
    /\ status' = [status EXCEPT ![d] = "ready"]
    /\ tier' = [tier EXCEPT ![d] = IF open[d] THEN "full" ELSE "abstract_only"]
    /\ UNCHANGED <<open, file, attempted, day, limiter, runner, task, work, faults>>

Step(d) ==
    \/ Start(d) \/ Acquire(d) \/ Waited(d) \/ WriteTmp(d) \/ Rename(d) \/ Ask(d) \/ Locate(d)
    \/ UpdateLicenses(d) \/ TriggerReindex(d) \/ InsertAttempt(d)
Loop == Select \/ WakeUp \/ Dispatch \/ Granted \/ Join \/ Stopped \/ Restart

Next ==
    \/ Loop \/ Stop \/ Crash \/ Midnight
    \/ \E d \in Docs : Step(d) \/ Pipeline(d)

(* The event loop runs whatever is due, in some order; the service manager
   restarts.  A batch is finite, so one condition for all is enough. *)
Fairness == WF_vars(Loop \/ \E d \in Docs : Step(d))

Spec == Init /\ [][Next]_vars /\ Fairness

-----------------------------------------------------------------------------
(***************************************************************************)
(* The quota of a source is exceeded by no more than the requests that     *)
(* were checked and not yet counted: the wait for the next slot lies       *)
(* between the check and the count (rate-limiter.ts, acquire).             *)
(***************************************************************************)
QuotaKept == \A s \in Sources : cons[s] <= MaxPerDay + Concurrency - 1

(***************************************************************************)
(* A worker that reports that it is stopped, or in error, has nothing in   *)
(* flight: no document is written after the answer to a stop               *)
(* (EnrichmentRunner.ts, stop).                                            *)
(***************************************************************************)
StoppedQuiet == state \in {"idle", "error"} => Active = {}

(***************************************************************************)
(* An eligible document is enriched, unless the worker is stopped or ends  *)
(* in error: newer documents that succeed, failures now and then and       *)
(* colliding saves of the counters do not keep it out of the batches for   *)
(* ever.  A document that always fails leaves no attempt and stays at the  *)
(* head of the selection (selection.ts): only who has fewer of them before *)
(* it than a batch takes is promised anything.                             *)
(***************************************************************************)
Before(d) == {e \in Failing : e > d}
Served ==
    \A d \in Docs \ Failing :
        Cardinality(Before(d)) < BatchSize =>
            (Eligible(d) ~> (~Eligible(d) \/ state # "running"))

(***************************************************************************)
(* An attempt means that every source was asked: "all sources are queried  *)
(* atomically" (migration 022) and a source without quota pauses the loop  *)
(* (enrichment-loop.ts).                                                   *)
(***************************************************************************)
AttemptAskedAll ==
    [][\A d \in Docs \ NoDoi : (attempted'[d] /\ ~attempted[d]) => enabled[d] = Sources]_vars
=============================================================================
